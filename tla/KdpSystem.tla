------------------------------ MODULE KdpSystem ------------------------------
(***************************************************************************)
(* The KMC11 together with the TOPS-20 driver that runs it, KDPSRV.MAC,    *)
(* and the network between its lines.                                      *)
(*                                                                         *)
(* The main program of the driver queues commands for the KMC (KMCINP) and *)
(* asks for input transactions; the interrupt handler KMCVCA carries them  *)
(* out, KMCVCB takes the reports.  Both run on one level, so neither       *)
(* interrupts the other; the service routines of the simulator run between *)
(* any two of their instructions.                                          *)
(***************************************************************************)
EXTENDS Kmc

CONSTANTS MaxLoads  \* bound on how often the KMC is loaded

ASSUME KdpAssumption == MaxLoads \in Nat \ {0} /\ HostSel0 = {}

\* The lists of a line fit into the queues of the KMC: two receive buffers, and
\* the descriptors of the different messages in two transmit lists, against the
\* sixteen places of MAXQUEUE.
ASSUME RoomAssumption ==
  /\ IsFiniteSet(TxLists) /\ IsFiniteSet(RxLists) /\ Cardinality(RxLists) <= MaxQueue
  /\ \A x \in [TxLists -> Msgs \cup {0}] :
       (\A l, m \in TxLists : x[l] = x[m] /\ x[l] # 0 => l = m)
         => Cardinality({desc \in TxLists \X {1, 2} :
                           x[desc[1]] # 0 /\ desc[2] <= Segs[x[desc[1]]]}) <= MaxQueue

\* None is neither a descriptor nor a list that is given.
ASSUME NoneAssumption ==
  None \notin Desc /\ None \notin [queue : Lines \X BOOLEAN, list : Seq(Desc)]

VARIABLES
  todo,   \* set of commands COMINI has yet to queue
  inq,    \* KMCINQ, the sequence of commands between its taker and its putter
  hpc,    \* where the handler is: "A" (KMCVCA), "sel6", "sel2", "sel4", "ack" or
          \* "done" (KMCVCB), "off" outside an interrupt
  hcmd,   \* the command KMCVCA has taken, or what KMCVCB has read of SEL2
  hdesc,  \* what KMCVCB has read of SEL4 and SEL6
  up,     \* the KMC is loaded and running
  msgs,   \* number of messages handed to the driver
  loads   \* times the KMC has been loaded, up to MaxLoads

driver  == <<todo, inq, hpc, hcmd, hdesc, up, msgs, loads>>
sysvars == <<kdpvars, driver>>

Command == [line : Lines, iot : BOOLEAN, buf : BOOLEAN, desc : Desc \cup {None}]
NoCmd   == [line |-> Min(Lines), iot |-> FALSE, buf |-> FALSE, desc |-> None]

\* COMINI: for each line BASE IN and CONTROL IN, and its receive buffers.
Setup   == [line : Lines, iot : {FALSE}, buf : {FALSE}, desc : {None}]
Startup == Setup \cup [line : Lines, iot : {TRUE}, buf : {TRUE}, desc : RxLists \X {1}]

-----------------------------------------------------------------------------
\* KMCINP: queue a command and ask for an input transaction, with both
\* interrupts enabled.  The PI system is off meanwhile.
Kmcinp(c) ==
  /\ WriteSel0(kmc.sel0 \cup {"RQI", "IEI", "IEO"})
  /\ inq' = Append(inq, c)

\* The main program runs when no interrupt is in progress or waiting.
Main == hpc = "off" /\ kmc.int = {} /\ UNCHANGED <<hpc, hcmd, hdesc>>

\* BTKML: master clear, load, run; then COMINI.
MLoad ==
  /\ Main /\ ~up /\ loads < MaxLoads
  /\ \E w \in {TryOutput(Mclear(Now))} :
       Become([w EXCEPT !.k.sel0 = {"RUN"}, !.k.unit = TRUE])
  /\ xbd' = [i \in Lines |-> [l \in TxLists |-> 0]]
  /\ up' = TRUE /\ loads' = loads + 1
  /\ todo' = Startup /\ inq' = <<>>
  /\ UNCHANGED <<rbuf, net, msgs>>

\* The lines in turn, and each is set up before its buffers are given; the
\* order of the buffers is left open.
MInit ==
  /\ Main /\ up
  /\ \E c \in todo :
       /\ \A o \in todo : c.line <= o.line /\ (c.line = o.line /\ c.iot => o.iot)
       /\ Kmcinp(c)
       /\ todo' = todo \ {c}
       /\ rbuf' = IF c.iot THEN [rbuf EXCEPT ![c.line][c.desc[1]] = None] ELSE rbuf
  /\ UNCHANGED <<xbd, up, msgs, loads>>

\* XMTDAT and XMTCTL: a message goes to a transmit list that is free in lists,
\* which are the transmit lists at that moment.
SendOn(i, l, lists) ==
  /\ lists[i][l] = 0 /\ msgs + 1 \in Msgs
  /\ msgs' = msgs + 1
  /\ xbd' = [lists EXCEPT ![i][l] = msgs']
  /\ Kmcinp([line |-> i, iot |-> FALSE, buf |-> TRUE, desc |-> <<l, 1>>])

MSend(i, l) ==
  /\ Main /\ up /\ todo = {}
  /\ SendOn(i, l, xbd)
  /\ UNCHANGED <<rbuf, todo, up, loads>>

\* KMCHLT: stop the processor; its lines are declared dead.
MHalt ==
  /\ Main /\ up /\ todo = {} /\ loads < MaxLoads
  /\ WriteSel0(kmc.sel0 \ {"RUN"})
  /\ up' = FALSE
  /\ UNCHANGED <<xbd, rbuf, todo, inq, msgs, loads>>

-----------------------------------------------------------------------------
(* KMCVCA: an input transaction is granted. *)

ATake ==
  /\ hpc = "off" /\ Take("KMCA")
  /\ hpc' = "A"
  /\ UNCHANGED <<xbd, rbuf, todo, inq, hcmd, hdesc, up, msgs, loads>>

\* The next command; RQI is cleared with the last.  ANextKeepsRqi does not
\* clear it.  The BUG check KMCIII that comes first is InputExpected.
ANextKeepsRqi ==
  /\ hpc = "A" /\ inq # <<>>
  /\ hcmd' = Head(inq) /\ inq' = Tail(inq)
  /\ hpc' = "sel6"
  /\ UNCHANGED <<kmc, dup, net, xbd, rbuf, todo, hdesc, up, msgs, loads>>
ANext ==
  /\ hpc = "A" /\ inq # <<>>
  /\ hcmd' = Head(inq) /\ inq' = Tail(inq)
  /\ IF Tail(inq) = <<>> THEN WriteSel0(kmc.sel0 \ {"RQI"}) ELSE UNCHANGED <<kmc, dup, net>>
  /\ hpc' = "sel6"
  /\ UNCHANGED <<xbd, rbuf, todo, hdesc, up, msgs, loads>>

ASel46 ==
  /\ hpc = "sel6"
  /\ WriteSel46(hcmd.desc)
  /\ hpc' = "sel2"
  /\ UNCHANGED <<xbd, rbuf, todo, inq, hcmd, hdesc, up, msgs, loads>>

Sel2Of(c) == [rdo |-> FALSE, rdi |-> FALSE, iot |-> c.iot, line |-> c.line, buf |-> c.buf]

ASel2 ==
  /\ hpc = "sel2"
  /\ WriteSel2(Sel2Of(hcmd))
  /\ hpc' = "off" /\ hcmd' = NoCmd
  /\ UNCHANGED <<xbd, rbuf, todo, inq, hdesc, up, msgs, loads>>

-----------------------------------------------------------------------------
(* KMCVCB: an output transaction is there. *)

\* The interrupt, and the read of SEL2; without RDO it is dismissed.
BTake ==
  /\ hpc = "off" /\ Take("KMCB")
  /\ IF kmc.sel2.rdo
     THEN /\ hpc' = "sel4"
          /\ hcmd' = [NoCmd EXCEPT !.line = kmc.sel2.line, !.iot = kmc.sel2.iot]
     ELSE UNCHANGED <<hpc, hcmd>>
  /\ UNCHANGED <<xbd, rbuf, todo, inq, hdesc, up, msgs, loads>>

BSel46 ==
  /\ hpc = "sel4"
  /\ hdesc' = kmc.sel46
  /\ hpc' = "ack"
  /\ UNCHANGED <<kdpvars, todo, inq, hcmd, up, msgs, loads>>

BAck ==
  /\ hpc = "ack"
  /\ WriteSel2(Clear2)
  /\ hpc' = "done"
  /\ UNCHANGED <<xbd, rbuf, todo, inq, hcmd, hdesc, up, msgs, loads>>

\* A received message may be answered (XMTCTL, XMTDAT) before its buffer is
\* given again.
BReply ==
  /\ hpc = "done" /\ hcmd.iot
  /\ \E l \in TxLists : SendOn(hcmd.line, l, xbd)
  /\ UNCHANGED <<rbuf, todo, hpc, hcmd, hdesc, up, loads>>

BEnd ==
  /\ hpc = "done" /\ hpc' = "off" /\ hcmd' = NoCmd /\ hdesc' = None
  /\ UNCHANGED <<todo, up, loads>>

\* RCVFLU and RCVENB: the message is consumed, its buffer given again.
BReceived ==
  /\ BEnd /\ hcmd.iot
  /\ Kmcinp([line |-> hcmd.line, iot |-> TRUE, buf |-> TRUE, desc |-> hdesc])
  /\ rbuf' = [rbuf EXCEPT ![hcmd.line][hdesc[1]] = None]
  /\ UNCHANGED <<xbd, msgs>>

\* XMTDNE: a transmit list is free when its last descriptor is reported, and
\* the line may go on with another message; and one that is free at any.
FreedEarly == [xbd EXCEPT ![hcmd.line][hdesc[1]] = 0]
Freed ==
  IF LastDesc(hcmd.line, hdesc) THEN [xbd EXCEPT ![hcmd.line][hdesc[1]] = 0] ELSE xbd
BSent ==
  /\ BEnd /\ ~hcmd.iot
  /\ \/ xbd' = Freed /\ UNCHANGED <<kmc, dup, net, inq, msgs>>
     \/ LastDesc(hcmd.line, hdesc) /\ \E l \in TxLists : SendOn(hcmd.line, l, Freed)
  /\ UNCHANGED rbuf

Handler == ATake \/ ANext \/ ASel46 \/ ASel2 \/ BTake \/ BSel46 \/ BAck \/ BReply
           \/ BReceived \/ BSent

SysDevice == DeviceStep /\ UNCHANGED driver

-----------------------------------------------------------------------------
SysInit ==
  /\ Init
  /\ todo = {} /\ inq = <<>> /\ hpc = "off" /\ hcmd = NoCmd /\ hdesc = None
  /\ up = FALSE /\ msgs = 0 /\ loads = 0

SysNext ==
  \/ SysDevice \/ Handler \/ MLoad \/ MInit \/ MHalt
  \/ \E i \in Lines, l \in TxLists : MSend(i, l)

\* The event queue runs every unit that is queued and the main loop every
\* instruction.  Of kmc_svc it is assumed only that it runs when it has
\* something to report: no datagram need ever come.
SysFairness ==
  /\ \A i \in Lines : WF_sysvars(DupSvc(i) /\ UNCHANGED driver)
  /\ WF_sysvars(TryOutput(Now) # Now
                /\ (\E got \in [Lines -> UNION {net[i] : i \in Lines} \cup {None}] : KmcSvc(got))
                /\ UNCHANGED driver)
  /\ WF_sysvars(Handler) /\ WF_sysvars(MInit)

SysSpec == SysInit /\ [][SysNext]_sysvars /\ SysFairness

-----------------------------------------------------------------------------
(* Properties. *)

\* The processor reports every descriptor it is given once and in order, per
\* line and direction, although reports and commands share three registers
\* that host and service routines load in turn.  A list is given when the host
\* ends an input transaction with a buffer command, and its descriptors are
\* reported when the host has cleared RDO.
Reporting(i, rx) ==
  IF kmc.sel2.rdo /\ kmc.sel2.line = i /\ kmc.sel2.iot = rx THEN <<kmc.sel46>> ELSE <<>>
Buffers == INSTANCE BufferService
  WITH Queues <- Lines \X BOOLEAN,
       offer <- IF hpc = "sel2" /\ hcmd.buf
                THEN [queue |-> <<hcmd.line, hcmd.iot>>,
                      list |-> Chain(hcmd.line, hcmd.desc, hcmd.iot)]
                ELSE None,
       given <- [q \in Lines \X BOOLEAN |->
                   Reporting(q[1], q[2]) \o
                   (IF q[2] THEN dup[q[1]].rxqueue ELSE dup[q[1]].txqueue)]
BufferServiceSpec == Buffers!Spec

\* The BUG check KMCIII of KMCVCA: the interrupt comes only when the processor
\* has granted an input transaction and there is a command to give.
InputExpected == hpc = "A" => kmc.sel2.rdi /\ inq # <<>>

\* The registers stay as the host has read or written them until it is done
\* with its transaction, whatever service routines run between its accesses.
RegistersHeld ==
  /\ hpc \in {"sel6", "sel2"} => kmc.sel2.rdi /\ ~kmc.sel2.rdo
  /\ hpc = "sel2" => kmc.sel46 = hcmd.desc
  /\ hpc \in {"sel4", "ack"} =>
       kmc.sel2.rdo /\ ~kmc.sel2.rdi /\ kmc.sel2.line = hcmd.line /\ kmc.sel2.iot = hcmd.iot
  /\ hpc = "ack" => kmc.sel46 = hdesc

\* No interrupt is lost: an enabled ready bit has its request, or the handler
\* is at work on it.
RequestPending ==
  /\ "IEI" \in kmc.sel0 /\ kmc.sel2.rdi => "KMCA" \in kmc.int \/ hpc \in {"A", "sel6", "sel2"}
  /\ "IEO" \in kmc.sel0 /\ kmc.sel2.rdo => "KMCB" \in kmc.int \/ hpc \in {"sel4", "ack"}

\* Messages cross the line whole: a datagram, and so a receive buffer, holds
\* the segments of one message, all of them and in order, although the host
\* gives them as separate descriptors through bounded queues.
Whole(dg) == \E n \in Msgs : dg = [k \in 1 .. Segs[n] |-> <<n, k>>]
WholeFrames ==
  \A i \in Lines : /\ \A dg \in net[i] : Whole(dg)
                   /\ \A l \in RxLists : rbuf[i][l] # None => Whole(rbuf[i][l])

\* A datagram is stored only in a buffer the driver has emptied.
NoOverwrite ==
  [][\A i \in Lines, l \in RxLists :
       rbuf'[i][l] # rbuf[i][l] => rbuf[i][l] = None \/ rbuf'[i][l] = None]_rbuf

\* The driver takes a transmit list for free only when the processor has given
\* back all of it: what it still queues or reports is the message it was given.
FreeListsBack ==
  \A i \in Lines, l \in TxLists : xbd[i][l] = 0 =>
    /\ \A j \in 1 .. Len(dup[i].txqueue) : dup[i].txqueue[j][1] # l
    /\ \A j \in 1 .. Len(inq) : ~(inq[j].line = i /\ inq[j].desc # None /\ inq[j].desc[1] = l)

\* Every message the driver queues is done in the end and its list free again,
\* however many datagrams come: lines that are scanned earlier cannot hold up
\* the later ones for ever, because their buffers come back only through input
\* transactions, which output transactions have to make room for.
ListsReturn == \A i \in Lines, l \in TxLists : xbd[i][l] # 0 ~> xbd[i][l] = 0 \/ ~up
=============================================================================
