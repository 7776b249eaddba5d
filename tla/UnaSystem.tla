----------------------------- MODULE UnaSystem -----------------------------
(***************************************************************************)
(* The DEUNA together with the TOPS-10 driver that runs it, unaser.mac:    *)
(* the driver's main program (unasnd), its interrupt handler (unaint), the *)
(* rings they share with the controller, and the network.                  *)
(*                                                                         *)
(* The controller's service routine can run between any two instructions   *)
(* of the driver, and the handler between any two of the main program.  A  *)
(* step of the driver is one access to what the other side can see.        *)
(*                                                                         *)
(* The ring lengths are the driver's: one transmit descriptor, nrxbuf      *)
(* receive descriptors.  Packets are numbered in the order they are        *)
(* queued, frames from the wire, after MaxPkts, in the order they arrive.  *)
(***************************************************************************)
EXTENDS Deuna

CONSTANTS
  MaxPkts,    \* bound on packets queued for transmission
  MaxArrive,  \* bound on frames arriving
  Answered,   \* arrivals that a protocol answers from the interrupt handler
  Holds       \* unasnd may be called with the UNA's interrupts held off

Functions == {"qf.pcb", "qf.rha", "qf.wfm", "qf.sta"}

ASSUME UnaAssumption ==
  /\ MaxPkts \in Nat /\ MaxArrive \in Nat /\ Frames = 1 .. MaxPkts + MaxArrive
  /\ Answered \subseteq MaxPkts + 1 .. MaxPkts + MaxArrive
  /\ Holds \in BOOLEAN /\ TxLen = 1 /\ BadTx = {} /\ None \notin Functions
  /\ {"plain", "wr_ring"} \subseteq HostAux
  /\ Formats # {} /\ Formats \subseteq [tdrb : TxRings, rdrb : RxRings]

VARIABLES
  unacmq,  \* functions waiting to be done
  unacip,  \* function in progress
  xmq,     \* the packets linked from unaxip on; unaxmq is empty iff it is
  xip,     \* unaxip is set: the head of xmq is in progress
  unarxn,  \* receive entry to check next
  unapol,  \* a poll is wanted
  unapip,  \* a poll is in progress
  pcb,     \* the port command block, with the ring format behind it
  p4,      \* status bits the handler has read
  hpc,     \* where the handler is; "off" outside an interrupt
  hret,    \* where the handler goes on after sndmsg
  mpc,     \* where the main program is in unaonc and unasnd
  \* what the protocols above and the wire have seen
  npkt, narr, sent, given,
  lost     \* past loss of polling demands, by kind: see Stalls

queues  == <<unacmq, unacip, xmq, xip, unarxn, pcb>>
polling == <<unapol, unapip>>
seen    == <<npkt, narr, sent, given>>
\* "ack": an acknowledge replaced a waiting polling demand by command 0;
\* "pip": unapip was set when the poll was already over;
\* "pol": unapol was cleared although it was set anew for another packet.
Stalls  == {"ack", "pip", "pol"}

device  == <<csrs, port, resetflag, cmdflag, txside, rxside, active, intreq, vectored>>
sysvars == <<vars, queues, polling, p4, hpc, hret, mpc, seen, lost>>

Format    == CHOOSE f \in Formats : TRUE
Block(fn) == [fnc |-> fn, err |-> "none", fmt |-> Format]
Tdr       == Format.tdrb
Rdr       == Format.rdrb

SysTypeOK ==
  /\ TypeOK
  /\ unacmq \in Seq(Functions) /\ unacip \in Functions \cup {None}
  /\ xmq \in Seq(1 .. MaxPkts) /\ xip \in BOOLEAN
  /\ unarxn \in RxIdx /\ unapol \in BOOLEAN /\ unapip \in BOOLEAN
  /\ pcb \in AuxCmd /\ p4 \subseteq Bits
  /\ hpc \in {"off", "rdio", "wrio", "rxi", "rxi.2", "txi", "dni", "tdr", "poll", "pcsr", "cmd"}
  /\ hret \in {"off", "rxi.2", "dni"}
  /\ mpc \in {"onc", "idle", "xip", "tdr", "pol", "cip", "pip", "wrio", "setpip", "clrpol"}
  /\ npkt \in 0 .. MaxPkts /\ narr \in 0 .. MaxArrive
  /\ sent \in Seq(Frames) /\ given \in Seq(Frames)
  /\ lost \subseteq Stalls

-----------------------------------------------------------------------------
(* The controller and the network. *)

SysDevice ==
  /\ Svc(pcb)
  /\ sent' = IF ~txflag /\ txflag' THEN Append(sent, out') ELSE sent
  /\ UNCHANGED <<queues, polling, p4, hpc, hret, mpc, npkt, narr, given, lost>>

SysArrive ==
  /\ narr < MaxArrive
  /\ FrameArrives(MaxPkts + narr + 1)
  /\ narr' = narr + 1
  /\ UNCHANGED <<queues, polling, p4, hpc, hret, mpc, npkt, sent, given, lost>>

-----------------------------------------------------------------------------
(* The interrupt handler, unaint. *)

\* The bits are looked at in this order; RCBI has an empty routine, and SERI
\* and PCEI have none.
Dispatch(bits) ==
  IF "RXI" \in bits THEN "rxi"
  ELSE IF "TXI" \in bits THEN "txi"
  ELSE IF "DNI" \in bits THEN "dni" ELSE "off"

HTake ==
  /\ hpc = "off" /\ TakeInterrupt
  /\ hpc' = "rdio"
  /\ UNCHANGED <<mem, eth, queues, polling, p4, hret, mpc, seen, lost>>

HRead ==
  /\ hpc = "rdio"
  /\ p4' = status
  /\ hpc' = "wrio"
  /\ UNCHANGED <<vars, queues, polling, hret, mpc, seen, lost>>

\* An acknowledge that clears every bit, not only those that were read.
HAckAll ==
  /\ hpc = "wrio"
  /\ WritePcsr0(status, inte, "NOOP")
  /\ hpc' = Dispatch(p4)
  /\ UNCHANGED <<mem, eth, queues, polling, p4, hret, mpc, seen, lost>>

\* The word written back has the bits that were read, INTE, and command 0.
HAck ==
  /\ hpc = "wrio"
  /\ WritePcsr0(p4, inte, "NOOP")
  /\ lost' = IF cmdflag /\ pcmd = "PDMD" THEN lost \cup {"ack"} ELSE lost
  /\ hpc' = Dispatch(p4)
  /\ UNCHANGED <<mem, eth, queues, polling, p4, hret, mpc, seen>>

\* i.rxi, one entry: an owned entry ends the loop; an entry in error, one with
\* an unknown protocol, or one for which there is no descriptor is ignored;
\* the rest go to their protocol, which may answer by unasnd.
HRxiEnd ==
  /\ hpc = "rxi" /\ rxring[Rdr][unarxn].own
  /\ hpc' = Dispatch(p4 \ {"RXI"})
  /\ UNCHANGED <<vars, queues, polling, p4, hret, mpc, seen, lost>>

HRxiIgnore ==
  /\ hpc = "rxi" /\ ~rxring[Rdr][unarxn].own
  /\ hpc' = "rxi.2"
  /\ UNCHANGED <<vars, queues, polling, p4, hret, mpc, seen, lost>>

HRxiGive ==
  /\ hpc = "rxi" /\ ~rxring[Rdr][unarxn].own /\ ~rxring[Rdr][unarxn].err
  /\ LET f == rxring[Rdr][unarxn].frame IN
     /\ given' = Append(given, f)
     /\ IF f \in Answered /\ npkt < MaxPkts
        THEN /\ npkt' = npkt + 1
             /\ xmq' = Append(xmq, npkt')
             /\ IF xmq = <<>> THEN xip' = TRUE /\ hpc' = "tdr" /\ hret' = "rxi.2"
                ELSE hpc' = "rxi.2" /\ UNCHANGED <<xip, hret>>
        ELSE hpc' = "rxi.2" /\ UNCHANGED <<npkt, xmq, xip, hret>>
  /\ UNCHANGED <<vars, unacmq, unacip, unarxn, pcb, polling, p4, mpc, narr, sent, lost>>

\* The pointer to the next entry, which q1wfm closes into a ring; and unclosed.
NextRxOpen(i) == i + 1
NextRx(i) == (i + 1) % RxLen

\* An rxi.2 that handles one entry for each interrupt.
HRxiReturnOnce ==
  /\ hpc = "rxi.2"
  /\ rxring' = [rxring EXCEPT ![Rdr][unarxn] =
                  [@ EXCEPT !.own = TRUE, !.err = FALSE, !.frame = None]]
  /\ unarxn' = NextRx(unarxn)
  /\ hpc' = Dispatch(p4 \ {"RXI"})
  /\ UNCHANGED <<device, txring, eth, unacmq, unacip, xmq, xip, pcb, polling, p4, hret,
                 mpc, seen, lost>>

\* rxi.2: the entry goes back to the controller.
HRxiReturn ==
  /\ hpc = "rxi.2"
  /\ rxring' = [rxring EXCEPT ![Rdr][unarxn] =
                  [@ EXCEPT !.own = TRUE, !.err = FALSE, !.frame = None]]
  /\ unarxn' = NextRx(unarxn)
  /\ hpc' = "rxi"
  /\ UNCHANGED <<device, txring, eth, unacmq, unacip, xmq, xip, pcb, polling, p4, hret,
                 mpc, seen, lost>>

\* An i.txi that does not go on with the next packet.
HTxiNoNext ==
  /\ hpc = "txi"
  /\ IF xip THEN xmq' = Tail(xmq) /\ xip' = (Tail(xmq) # <<>>) ELSE UNCHANGED <<xmq, xip>>
  /\ hpc' = Dispatch(p4 \ {"RXI", "TXI"})
  /\ UNCHANGED <<vars, unacmq, unacip, unarxn, pcb, polling, p4, hret, mpc, seen, lost>>

\* i.txi: the packet in progress is done; start the next.
HTxi ==
  /\ hpc = "txi"
  /\ IF xip THEN xmq' = Tail(xmq) /\ xip' = (Tail(xmq) # <<>>) ELSE UNCHANGED <<xmq, xip>>
  /\ IF xip' THEN hpc' = "tdr" /\ hret' = Dispatch(p4 \ {"RXI", "TXI"})
     ELSE hpc' = Dispatch(p4 \ {"RXI", "TXI"}) /\ UNCHANGED hret
  /\ UNCHANGED <<vars, unacmq, unacip, unarxn, pcb, polling, p4, mpc, seen, lost>>

\* A sndmsg that takes the packet unaxmq names, the newest.
FillTdrNewest ==
  /\ txring' = [txring EXCEPT ![Tdr][0] =
                  [own |-> TRUE, err |-> FALSE, frame |-> xmq[Len(xmq)]]]
  /\ UNCHANGED <<device, rxring, eth>>

\* sndmsg: fill the transmit entry and hand it over.
FillTdr ==
  /\ txring' = [txring EXCEPT ![Tdr][0] =
                  [own |-> TRUE, err |-> FALSE, frame |-> Head(xmq)]]
  /\ UNCHANGED <<device, rxring, eth>>

PollDemand == WritePcsr0({}, TRUE, "PDMD") /\ UNCHANGED <<mem, eth>>

HTdr ==
  /\ hpc = "tdr"
  /\ FillTdr
  /\ unapol' = TRUE
  /\ hpc' = "poll"
  /\ UNCHANGED <<queues, unapip, p4, hret, mpc, seen, lost>>

HPoll ==
  /\ hpc = "poll"
  /\ IF unacip # None \/ unapip THEN UNCHANGED <<vars, polling>>
     ELSE PollDemand /\ unapip' = TRUE /\ unapol' = FALSE
  /\ hpc' = hret
  /\ UNCHANGED <<queues, p4, hret, mpc, seen, lost>>

\* i.dni, nxtcmd and chkpol.  A function's pre-dispatch writes memory nothing
\* reads before the command is there: the rings, and the block at pcb.
HDniCommand ==
  /\ hpc = "dni" /\ unacmq # <<>>
  /\ unapip' = FALSE
  /\ unacip' = Head(unacmq) /\ unacmq' = Tail(unacmq)
  /\ CASE unacip' = "qf.rha" -> pcb' = Block("plain") /\ UNCHANGED <<mem, unarxn>>
       [] unacip' = "qf.wfm" ->
            /\ pcb' = Block("wr_ring")
            /\ unarxn' = 0
            /\ rxring' = [rxring EXCEPT ![Rdr] = [i \in RxIdx |->
                 [own |-> TRUE, err |-> FALSE, dma |-> TRUE, frame |-> None]]]
            /\ txring' = [txring EXCEPT ![Tdr][0].own = FALSE]
       [] OTHER -> UNCHANGED <<pcb, mem, unarxn>>
  /\ hpc' = IF unacip' = "qf.pcb" THEN "pcsr" ELSE "cmd"
  /\ UNCHANGED <<device, eth, xmq, xip, unapol, p4, hret, mpc, seen, lost>>

HDniPoll ==
  /\ hpc = "dni" /\ unacmq = <<>>
  /\ unacip' = None
  /\ IF unapol THEN PollDemand /\ unapip' = TRUE /\ unapol' = FALSE
     ELSE UNCHANGED <<vars, unapol>> /\ unapip' = FALSE
  /\ hpc' = "off"
  /\ UNCHANGED <<unacmq, xmq, xip, unarxn, pcb, p4, hret, mpc, seen, lost>>

HPcsr ==
  /\ hpc = "pcsr"
  /\ WritePcsr23("pcb")
  /\ hpc' = "cmd"
  /\ UNCHANGED <<mem, eth, queues, polling, p4, hret, mpc, seen, lost>>

PortCommand(fn) ==
  CASE fn = "qf.pcb" -> "GETPCB" [] fn = "qf.sta" -> "START" [] OTHER -> "GETCMD"

\* A command written without the interrupt enable bit, and as it is written.
HCmdNoInte ==
  /\ hpc = "cmd"
  /\ WritePcsr0({}, FALSE, PortCommand(unacip))
  /\ hpc' = "off"
  /\ UNCHANGED <<mem, eth, queues, polling, p4, hret, mpc, seen, lost>>

HCmd ==
  /\ hpc = "cmd"
  /\ WritePcsr0({}, TRUE, PortCommand(unacip))
  /\ hpc' = "off"
  /\ UNCHANGED <<mem, eth, queues, polling, p4, hret, mpc, seen, lost>>

Handler ==
  \/ HTake \/ HRead \/ HAck \/ HRxiEnd \/ HRxiIgnore \/ HRxiGive \/ HRxiReturn
  \/ HTxi \/ HTdr \/ HPoll \/ HDniCommand \/ HDniPoll \/ HPcsr \/ HCmd

-----------------------------------------------------------------------------
(* The main program: unaonc at startup, then unasnd.  It runs when no        *)
(* interrupt is in progress, and none is waiting unless its caller holds     *)
(* the UNA's interrupts off.                                                 *)

Main(from) ==
  /\ mpc = from /\ hpc = "off" /\ (intreq => Holds)
  /\ UNCHANGED <<p4, hpc, hret, unarxn, pcb, narr, sent, given>>

\* unaonc: queue the first commands, ask for a poll, enable interrupts.
MOnce ==
  /\ Main("onc") /\ mpc' = "idle"
  /\ unacmq' = <<"qf.pcb", "qf.rha", "qf.wfm", "qf.sta">>
  /\ unapol' = TRUE
  /\ WritePcsr0({}, TRUE, "NOOP")
  /\ UNCHANGED <<mem, eth, unacip, xmq, xip, unapip, npkt, lost>>

\* unasnd, between unaoff and unaon, once the interface is up.
MSend ==
  /\ Main("idle") /\ unacmq = <<>> /\ unacip = None /\ npkt < MaxPkts
  /\ npkt' = npkt + 1
  /\ xmq' = Append(xmq, npkt')
  /\ mpc' = IF xmq = <<>> THEN "xip" ELSE "idle"
  /\ UNCHANGED <<vars, unacmq, unacip, xip, polling, lost>>

MXip ==
  /\ Main("xip") /\ mpc' = "tdr"
  /\ xip' = TRUE
  /\ UNCHANGED <<vars, unacmq, unacip, xmq, polling, npkt, lost>>

MTdr ==
  /\ Main("tdr") /\ mpc' = "pol"
  /\ FillTdr
  /\ UNCHANGED <<unacmq, unacip, xmq, xip, polling, npkt, lost>>

\* A sndmsg that trusts the poll it will make itself, and one that asks.
MPolNoFlag ==
  /\ Main("pol") /\ mpc' = "cip"
  /\ UNCHANGED <<vars, unacmq, unacip, xmq, xip, polling, npkt, lost>>

MPol ==
  /\ Main("pol") /\ mpc' = "cip"
  /\ unapol' = TRUE
  /\ UNCHANGED <<vars, unacmq, unacip, xmq, xip, unapip, npkt, lost>>

\* skipn unacip and skipe unapip: two looks, an interrupt can fall between.
MTest ==
  /\ \/ Main("cip") /\ mpc' = IF unacip # None THEN "idle" ELSE "pip"
     \/ Main("pip") /\ mpc' = IF unapip THEN "idle" ELSE "wrio"
  /\ UNCHANGED <<vars, unacmq, unacip, xmq, xip, polling, npkt, lost>>

MPoll ==
  /\ Main("wrio") /\ mpc' = "setpip"
  /\ PollDemand
  /\ UNCHANGED <<unacmq, unacip, xmq, xip, polling, npkt, lost>>

\* The handler has read bit, and the routine that looks at it is among labels,
\* which it has not left.
InHandler(bit, labels) ==
  bit \in p4 /\ (hpc \in labels \/ (hpc \in {"tdr", "poll"} /\ hret \in labels))

\* The controller will still report the end of a command.
DoneComes ==
  \/ resetflag \/ cmdflag \/ "DNI" \in status
  \/ InHandler("DNI", {"wrio", "rxi", "rxi.2", "txi", "dni"})

\* The controller has the transmit entry, and has not started on it.
EntryWaits == state = "RUNNING" /\ txring[Tdr][0].own /\ ~txflag

MSetPip ==
  /\ Main("setpip") /\ mpc' = "clrpol"
  /\ unapip' = TRUE
  /\ lost' = IF DoneComes THEN lost ELSE lost \cup {"pip"}
  /\ UNCHANGED <<vars, unacmq, unacip, xmq, xip, unapol, npkt>>

MClrPol ==
  /\ Main("clrpol") /\ mpc' = "idle"
  /\ unapol' = FALSE
  /\ lost' = IF EntryWaits /\ ~(cmdflag /\ pcmd = "PDMD") THEN lost \cup {"pol"} ELSE lost
  /\ UNCHANGED <<vars, unacmq, unacip, xmq, xip, unapip, npkt>>

\* Once begun, unaonc and unasnd run to their end.
MFinish == MOnce \/ MXip \/ MTdr \/ MPol \/ MTest \/ MPoll \/ MSetPip \/ MClrPol

-----------------------------------------------------------------------------
SysInit ==
  /\ Init
  /\ unacmq = <<>> /\ unacip = None /\ xmq = <<>> /\ xip = FALSE /\ unarxn = 0
  /\ unapol = FALSE /\ unapip = FALSE /\ pcb = Block("plain")
  /\ p4 = {} /\ hpc = "off" /\ hret = "off" /\ mpc = "onc"
  /\ npkt = 0 /\ narr = 0 /\ sent = <<>> /\ given = <<>>
  /\ lost = {}

SysNext == SysDevice \/ SysArrive \/ Handler \/ MSend \/ MFinish

\* The simulated clock advances and the CPU executes instructions; nothing
\* makes a protocol send or a frame arrive.
SysFairness ==
  /\ WF_sysvars(SysDevice) /\ WF_sysvars(Handler) /\ WF_sysvars(MFinish)

SysSpec == SysInit /\ [][SysNext]_sysvars /\ SysFairness

-----------------------------------------------------------------------------
(* Properties. *)

\* The driver and the controller together give what the protocols count on:
\* packets leave in order and once, frames come up in order and once, although
\* packets are queued by the main program and by the handler, and the single
\* transmit entry and the ring pointers are kept in step by interrupts alone.
Service == INSTANCE EtherService
  WITH accepted <- npkt, arrived <- narr,
       given <- [i \in 1 .. Len(given) |-> given[i] - MaxPkts]
ServiceSpec == Service!Spec

\* No received frame is forgotten in the ring: a filled entry is announced by
\* RXI, or the handler has yet to end the loop that will find it.
RxNoticed ==
  \A i \in RxIdx : rxring[Rdr][i].frame # None =>
    "RXI" \in status \/ InHandler("RXI", {"wrio", "rxi", "rxi.2"})

\* No finished transmission is forgotten: the driver is told by TXI, or is
\* about to fill the entry itself.
TxNoticed ==
  xip /\ ~txring[Tdr][0].own =>
    \/ "TXI" \in status \/ InHandler("TXI", {"wrio", "rxi", "rxi.2", "txi"})
    \/ mpc = "tdr" \/ hpc = "tdr"

\* sndmsg, "the flag is enough": an entry handed to the controller is sent,
\* being sent, or has a polling demand on its way, unapol counting as one only
\* while the end of a command will make the handler look at it.
FlagIsEnough ==
  EntryWaits =>
    \/ cmdflag /\ pcmd = "PDMD"
    \/ unapol /\ DoneComes
    \/ mpc \in {"pol", "cip", "pip", "wrio"} \/ hpc = "poll"

\* The transmitter stalls only in the three ways that lost records.
StallsExplained == FlagIsEnough \/ lost # {}

\* A packet that is queued leaves, unless a polling demand has been lost.
PacketsLeave ==
  \A n \in 1 .. MaxPkts : npkt >= n ~> Len(sent) >= n \/ lost # {}

\* unaonc's queue of commands brings the port up, from a controller that may
\* still be in its reset.
PortComesUp == <>(state = "RUNNING" /\ unacip = None)
=============================================================================
