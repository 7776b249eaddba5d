--------------------------------- MODULE Kmc ---------------------------------
(***************************************************************************)
(* The KMC11 and its DUP11 lines of the KS10 simulator, dec_kdp.c: a       *)
(* communications processor that passes buffers between the host and       *)
(* synchronous lines, each of them an UDP socket (sync_bsd.h).             *)
(*                                                                         *)
(* As in Deuna, a register write by the CPU (kmc_wr) and a run of a unit's *)
(* service routine (kmc_svc, dup_svc) are atomic and interleave freely.    *)
(*                                                                         *)
(* A buffer descriptor is a pair <<list, k>>, its address in the host's    *)
(* memory: the k-th of the descriptors that lie at list.  What the list    *)
(* holds is in xbd (transmit) and rbuf (receive).                          *)
(***************************************************************************)
EXTENDS Naturals, Sequences, FiniteSetsExt

CONSTANTS
  Lines,     \* the DUP11s, 0 .. MAXDUP - 1, in the order they are scanned
  Peer,      \* the line at the other end of each line's UDP connection
  MaxQueue,  \* MAXQUEUE
  MaxMsg,    \* MAXMSG
  TxLists,   \* areas of host memory that can hold a transmit list
  RxLists,   \* areas of host memory that can hold a receive list and its buffer
  Msgs,      \* the messages, numbered from 1
  Segs,      \* how many descriptors each message takes
  SegBytes,  \* bytes of one segment
  TmxrPoll,  \* tmxr_poll, instructions in a fiftieth of a second
  HostSel0,  \* values of SEL0 that a host writes
  None       \* no list; nothing received

ASSUME KmcAssumption ==
  /\ Lines \subseteq Nat /\ IsFiniteSet(Lines) /\ Lines # {} /\ Peer \in [Lines -> Lines]
  /\ MaxQueue \in Nat \ {0} /\ Msgs \subseteq Nat \ {0} /\ Segs \in [Msgs -> {1, 2}]
  /\ TxLists \cap RxLists = {} /\ None \notin TxLists \cup RxLists
  /\ HostSel0 \subseteq SUBSET {"RUN", "MRC", "RQI", "IEO", "IEI"}

\* Twelve bits of a descriptor hold a length; a host executes at most two
\* thousand million instructions a second.
ASSUME SizeAssumption ==
  MaxMsg \in 1 .. 4095 /\ SegBytes \in 1 .. 4095 /\ TmxrPoll \in 1 .. 40000000

VARIABLES
  kmc,   \* registers, requests, kmc_output, kmc_unit
  dup,   \* dup[] and, for each line, whether its unit is queued
  xbd,   \* the message in each transmit list, 0 when the list is free
  rbuf,  \* the datagram in each receive buffer
  net    \* datagrams sent to each line: any of them may come, or come again

kdpvars == <<kmc, dup, xbd, rbuf, net>>

Sel0Bits == {"RUN", "MRC", "RQI", "IEO", "IEI"}
\* SEL2: its flags, the line and the command (0, a buffer, or another).
Sel2     == [rdo : BOOLEAN, rdi : BOOLEAN, iot : BOOLEAN, line : Lines, buf : BOOLEAN]
Desc     == (TxLists \cup RxLists) \X {1, 2}
Datagram == UNION {[1 .. n -> Msgs \X {1, 2}] : n \in 0 .. MaxQueue}
Clear2   == [rdo |-> FALSE, rdi |-> FALSE, iot |-> FALSE, line |-> Min(Lines), buf |-> TRUE]

TypeOK ==
  /\ kmc \in [sel0 : SUBSET Sel0Bits, sel2 : Sel2, sel46 : Desc \cup {None},
              int : SUBSET {"KMCA", "KMCB"}, output : BOOLEAN, unit : BOOLEAN]
  /\ \A i \in Lines :
       /\ dup[i].rxqueue \in Seq(Desc) /\ dup[i].rxnext \in 0 .. MaxQueue
       /\ dup[i].txqueue \in Seq(Desc) /\ dup[i].txnext \in 0 .. MaxQueue
       /\ dup[i].txnow \in 0 .. MaxQueue /\ dup[i].unit \in BOOLEAN
  /\ xbd \in [Lines -> [TxLists -> Msgs \cup {0}]]
  /\ \A i \in Lines : net[i] \subseteq Datagram
                      /\ \A l \in RxLists : rbuf[i][l] \in Datagram \cup {None}

-----------------------------------------------------------------------------
(* The routines of the C file, as functions on w = [k |-> kmc, d |-> dup].   *)

\* kmc_updints: a request follows its ready bit while it is enabled.
Enabled(k) == {r \in {"KMCA", "KMCB"} : (IF r = "KMCA" THEN "IEI" ELSE "IEO") \in k.sel0}
Ready(k)   == {r \in {"KMCA", "KMCB"} : IF r = "KMCA" THEN k.sel2.rdi ELSE k.sel2.rdo}
UpdInts(w) ==
  [k |-> [w.k EXCEPT !.int = (@ \ Enabled(w.k)) \cup (Enabled(w.k) \cap Ready(w.k))],
   d |-> w.d]

\* kmc_getrdo, and one that does not mind an input transaction.
GetRdoAlways(k) == ~k.sel2.rdo
GetRdo(k)       == ~k.sel2.rdo /\ ~k.sel2.rdi

\* A queue moves up, and a descriptor of it goes to the registers.
RxUp(b) == [b EXCEPT !.rxqueue = Tail(@), !.rxnext = @ - 1]
TxUp(b) == [b EXCEPT !.txqueue = Tail(@), !.txnext = @ - 1]
Presented(k, i, desc, rx) ==
  [k EXCEPT !.sel46 = desc,
            !.sel2 = [rdo |-> TRUE, rdi |-> @.rdi, iot |-> rx, line |-> i, buf |-> TRUE]]

\* An output transaction for a descriptor at the head of a queue.
\* PresentRxKeeps forgets to shorten the queue, PresentTxCopied counts down
\* the counter of the other direction.
PresentRxKeeps(w, i) ==
  [k |-> Presented(w.k, i, w.d[i].rxqueue[1], TRUE), d |-> [w.d EXCEPT ![i].rxnext = @ - 1]]
PresentRx(w, i) ==
  [k |-> Presented(w.k, i, w.d[i].rxqueue[1], TRUE), d |-> [w.d EXCEPT ![i] = RxUp(@)]]
PresentTxCopied(w, i) ==
  [k |-> Presented(w.k, i, w.d[i].txqueue[1], FALSE),
   d |-> [w.d EXCEPT ![i] = [@ EXCEPT !.txqueue = Tail(@), !.rxnext = @ - 1]]]
PresentTx(w, i) ==
  [k |-> Presented(w.k, i, w.d[i].txqueue[1], FALSE), d |-> [w.d EXCEPT ![i] = TxUp(@)]]

\* kmc_tryoutput: the first line that has something, receive before transmit;
\* kmc_output is left set whenever a line had something.  TryOutputNoInts
\* leaves the interrupt to the next register write.
TryOutputNoInts(w) ==
  LET busy == {i \in Lines : w.d[i].rxnext > 0 \/ w.d[i].txnext > 0}
      i    == Min(busy)
  IN IF ~w.k.output THEN w
     ELSE IF busy = {} THEN [k |-> [w.k EXCEPT !.output = FALSE], d |-> w.d]
     ELSE IF ~GetRdo(w.k) THEN w
     ELSE IF w.d[i].rxnext > 0 THEN PresentRx(w, i) ELSE PresentTx(w, i)
TryOutput(w) ==
  LET busy == {i \in Lines : w.d[i].rxnext > 0 \/ w.d[i].txnext > 0}
      i    == Min(busy)
  IN IF ~w.k.output THEN w
     ELSE IF busy = {} THEN [k |-> [w.k EXCEPT !.output = FALSE], d |-> w.d]
     ELSE IF ~GetRdo(w.k) THEN w
     ELSE UpdInts(IF w.d[i].rxnext > 0 THEN PresentRx(w, i) ELSE PresentTx(w, i))

\* A descriptor with the bit BDL_LDS, the last of its list.
LastDesc(i, desc) == desc[2] = Segs[xbd[i][desc[1]]]

\* The ends of whole messages among the queued descriptors not yet sent.
Ends(d, i) == {j \in d[i].txnext + 1 .. Len(d[i].txqueue) : LastDesc(i, d[i].txqueue[j])}
Sendable(d, i) == d[i].txnow = 0 /\ Ends(d, i) # {}

\* The datagram; FrameFromStart gathers it from the head of the queue.
FrameFromStart(d, i) ==
  [j \in 1 .. Min(Ends(d, i)) - d[i].txnext |->
     LET desc == d[i].txqueue[j] IN <<xbd[i][desc[1]], desc[2]>>]
Frame(d, i) ==
  [j \in 1 .. Min(Ends(d, i)) - d[i].txnext |->
     LET desc == d[i].txqueue[d[i].txnext + j] IN <<xbd[i][desc[1]], desc[2]>>]
MsgLen(d, i) == Len(Frame(d, i)) * SegBytes

\* The delay (tmxr_poll * 50) / 18 * msglen >> 7 in 32 bit arithmetic is
\* negative iff bit 31 of the product is set; sim_activate refuses it then.
DelayNegative(bytes) ==
  LET ips  == (TmxrPoll * 50) \div 18
      high == (ips \div 4096) * bytes + ((ips % 4096) * bytes) \div 4096
  IN (high \div 524288) % 2 = 1

\* n descriptors are on their way; sim_activate refused the timer or set it.
Sending(b, n, refused) ==
  [b EXCEPT !.txnow = n, !.unit = IF refused THEN @ ELSE TRUE]

\* dup_tryxmit: a complete message goes out, and a timer stands for the time
\* it takes on the line; a message that is too long is only timed.
TryXmit(d, i) ==
  IF ~Sendable(d, i) THEN d
  ELSE [d EXCEPT ![i] = Sending(@, Min(Ends(d, i)) - @.txnext, DelayNegative(MsgLen(d, i)))]
Xmit(d, i) ==
  net' = [net EXCEPT ![Peer[i]] =
            @ \cup (IF Sendable(d, i) /\ MsgLen(d, i) <= MaxMsg THEN {Frame(d, i)} ELSE {})]

\* dup_newrxbuf and dup_newtxbuf: the descriptors from the given one to the
\* last of its list, as far as the queue has room.
Chain(i, desc, rx) ==
  IF rx THEN <<desc>>
  ELSE [j \in 1 .. Segs[xbd[i][desc[1]]] - desc[2] + 1 |-> <<desc[1], desc[2] + j - 1>>]

\* A queue that takes a descriptor less than it has room for, and one that
\* does not look at its room.
AddedUnbounded(q, chain) == q \o chain
AddedShort(q, chain) ==
  LET all == q \o chain IN
  IF Len(all) < MaxQueue THEN all ELSE SubSeq(all, 1, MaxQueue - 1)
Added(q, chain) ==
  LET all == q \o chain IN
  IF Len(all) <= MaxQueue THEN all ELSE SubSeq(all, 1, MaxQueue)

\* kmc_doinput, without the transmission a transmit list may start.
Queued(w) ==
  LET i == w.k.sel2.line
      c == Chain(i, w.k.sel46, w.k.sel2.iot)
  IN IF ~w.k.sel2.buf \/ w.k.sel46 = None THEN w.d
     ELSE IF w.k.sel2.iot THEN [w.d EXCEPT ![i].rxqueue = Added(@, c)]
     ELSE [w.d EXCEPT ![i].txqueue = Added(@, c)]
Starts(w) == w.k.sel2.buf /\ ~w.k.sel2.iot

\* kmc_mclear, and one that leaves the timers of the lines running.
NoDup == [rxqueue |-> <<>>, rxnext |-> 0, txqueue |-> <<>>, txnext |-> 0, txnow |-> 0,
          unit |-> FALSE]
MclearNoCancel(w) ==
  [k |-> [w.k EXCEPT !.sel0 = {"MRC"}, !.sel2 = Clear2, !.sel46 = None, !.unit = FALSE],
   d |-> [i \in Lines |-> [NoDup EXCEPT !.unit = w.d[i].unit]]]
Mclear(w) ==
  [k |-> [w.k EXCEPT !.sel0 = {"MRC"}, !.sel2 = Clear2, !.sel46 = None, !.unit = FALSE],
   d |-> [i \in Lines |-> NoDup]]

\* What every register write ends with: output, then the grant of an input
\* transaction that was asked for, then the interrupts.
Grant(w) ==
  IF "RQI" \in w.k.sel0 /\ ~w.k.sel2.rdo
  THEN [k |-> [w.k EXCEPT !.sel2 = [@ EXCEPT !.rdi = TRUE]], d |-> w.d] ELSE w

With(k)   == [k |-> k, d |-> dup]
Now       == With(kmc)
Become(w) == kmc' = w.k /\ dup' = w.d

\* A step from Now to the result of several routines binds each result in turn.
Finish(w) ==
  \E o \in {TryOutput(w)} : \E g \in {Grant(o)} : Become(UpdInts(g))

-----------------------------------------------------------------------------
(* Register writes: kmc_wr. *)

\* SEL0; a change of RUN starts or stops the polling of the lines.
Sel0Set(bits) ==
  With([kmc EXCEPT !.sel0 = bits,
                   !.unit = IF "RUN" \in bits \ kmc.sel0 THEN TRUE
                            ELSE IF "RUN" \in kmc.sel0 \ bits THEN FALSE ELSE @])
WriteSel0(bits) ==
  /\ \E w \in {IF "MRC" \in bits THEN Mclear(Now) ELSE Sel0Set(bits)} : Finish(w)
  /\ UNCHANGED net

\* SEL2: the end of an input transaction runs its command, that of an output
\* transaction makes room for the next.
InputDone(v) ==
  \E w \in {With([kmc EXCEPT !.sel2 = v])} : \E d \in {Queued(w)} :
    IF Starts(w)
    THEN Xmit(d, v.line) /\ \E x \in {TryXmit(d, v.line)} : Finish([k |-> w.k, d |-> x])
    ELSE UNCHANGED net /\ Finish([k |-> w.k, d |-> d])
OutputDone(v) ==
  /\ \E w \in {TryOutput(With([kmc EXCEPT !.sel2 = v]))} : Finish(w)
  /\ UNCHANGED net

WriteSel2(v) ==
  \/ kmc.sel2.rdi /\ ~v.rdi /\ InputDone(v)
  \/ ~(kmc.sel2.rdi /\ ~v.rdi) /\ kmc.sel2.rdo /\ ~v.rdo /\ OutputDone(v)
  \/ /\ (kmc.sel2.rdi => v.rdi) /\ (kmc.sel2.rdo => v.rdo)
     /\ \E w \in {With([kmc EXCEPT !.sel2 = v])} : Finish(w)
     /\ UNCHANGED net

\* SEL4 and SEL6, the address of a descriptor.
WriteSel46(desc) ==
  /\ \E w \in {With([kmc EXCEPT !.sel46 = desc])} : Finish(w)
  /\ UNCHANGED net

\* pi_ub_vec clears the request that is taken.
Take(r) ==
  /\ r \in kmc.int
  /\ kmc' = [kmc EXCEPT !.int = @ \ {r}]
  /\ UNCHANGED <<dup, net>>

\* kmc_reset, from a UNIBUS initialise: the registers only.
KmcReset ==
  /\ kmc' = [kmc EXCEPT !.sel0 = {}, !.sel2 = Clear2, !.sel46 = None]
  /\ UNCHANGED <<dup, net>>

-----------------------------------------------------------------------------
(* The service routines. *)

\* The transmission in progress is over.
Over(b) == [b EXCEPT !.txnext = @ + b.txnow, !.txnow = 0, !.unit = FALSE]

\* A dup_svc that does not ask for an output transaction.
DupSvcNoOutput(i) ==
  /\ dup[i].unit
  /\ \E d \in {[dup EXCEPT ![i] = Over(@)]} : dup' = TryXmit(d, i) /\ Xmit(d, i)
  /\ UNCHANGED <<kmc, xbd, rbuf>>

\* dup_svc: the transmission is over, its descriptors are done; the next may
\* start.
DupSvc(i) ==
  /\ dup[i].unit
  /\ \E d \in {[dup EXCEPT ![i] = Over(@)]} : dup' = TryXmit(d, i) /\ Xmit(d, i)
  /\ kmc' = [kmc EXCEPT !.output = @ \/ dup[i].txnow > 0]
  /\ UNCHANGED <<xbd, rbuf>>

\* dup_receive has a buffer for the line; without one the datagram is lost.
Stores(i, got) == got[i] # None /\ Len(dup[i].rxqueue) > dup[i].rxnext

\* kmc_svc: read a datagram, if there is one, from every line, try to do an
\* output transaction, and poll again after kmc_interval.
KmcSvc(got) ==
  /\ kmc.unit
  /\ \A i \in Lines : got[i] \in net[i] \cup {None}
  /\ rbuf' = [i \in Lines |->
       IF Stores(i, got) THEN [rbuf[i] EXCEPT ![dup[i].rxqueue[dup[i].rxnext + 1][1]] = got[i]]
       ELSE rbuf[i]]
  /\ \E w \in {[k |-> [kmc EXCEPT !.output = @ \/ \E i \in Lines : got[i] # None],
               d |-> [i \in Lines |->
                 IF Stores(i, got) THEN [dup[i] EXCEPT !.rxnext = @ + 1] ELSE dup[i]]]} :
       \E o \in {TryOutput(w)} : Become(o)
  /\ UNCHANGED <<xbd, net>>

DeviceStep ==
  \/ \E i \in Lines : DupSvc(i)
  \/ \E got \in [Lines -> UNION {net[i] : i \in Lines} \cup {None}] : KmcSvc(got)

-----------------------------------------------------------------------------
(* A host that may write anything at any time, except that it leaves a list  *)
(* alone while the processor has it, and gives only lists it has filled.     *)

Outstanding(i, l) ==
  \/ \E j \in 1 .. Len(dup[i].rxqueue) : dup[i].rxqueue[j][1] = l
  \/ \E j \in 1 .. Len(dup[i].txqueue) : dup[i].txqueue[j][1] = l
  \/ kmc.sel46 # None /\ kmc.sel46[1] = l

HostFill(i, l, n) ==
  /\ ~Outstanding(i, l)
  /\ xbd' = [xbd EXCEPT ![i][l] = n]
  /\ UNCHANGED <<kmc, dup, rbuf, net>>

HostSel46(desc) ==
  /\ desc[2] = 1
  /\ desc[1] \in TxLists => \A i \in Lines : xbd[i][desc[1]] # 0
  /\ WriteSel46(desc) /\ UNCHANGED <<xbd, rbuf>>

HostSel2(v) ==
  /\ ~v.rdo
  /\ v.buf => kmc.sel46 # None /\ v.iot = (kmc.sel46[1] \in RxLists)
  /\ WriteSel2(v) /\ UNCHANGED <<xbd, rbuf>>

HostStep ==
  \/ \E bits \in HostSel0 : WriteSel0(bits) /\ UNCHANGED <<xbd, rbuf>>
  \/ \E v \in Sel2 : HostSel2(v)
  \/ \E desc \in Desc : HostSel46(desc)
  \/ \E r \in {"KMCA", "KMCB"} : Take(r) /\ UNCHANGED <<xbd, rbuf>>
  \/ KmcReset /\ UNCHANGED <<xbd, rbuf>>
  \/ \E i \in Lines, l \in TxLists, n \in Msgs : HostFill(i, l, n)

Init ==
  /\ kmc = [sel0 |-> {}, sel2 |-> Clear2, sel46 |-> None, int |-> {}, output |-> FALSE,
            unit |-> FALSE]
  /\ dup = [i \in Lines |-> NoDup]
  /\ xbd = [i \in Lines |-> [l \in TxLists |-> 0]]
  /\ rbuf = [i \in Lines |-> [l \in RxLists |-> None]]
  /\ net = [i \in Lines |-> {}]

Next == DeviceStep \/ HostStep

Spec == Init /\ [][Next]_kdpvars

-----------------------------------------------------------------------------
(* Properties. *)

\* The queues never outgrow their arrays, and the counters of done and of
\* current descriptors never pass the descriptors there are, whatever is
\* cleared, completed and reported in between.
QueueBounds ==
  \A i \in Lines :
    /\ dup[i].rxnext <= Len(dup[i].rxqueue) /\ Len(dup[i].rxqueue) <= MaxQueue
    /\ dup[i].txnext + dup[i].txnow <= Len(dup[i].txqueue) /\ Len(dup[i].txqueue) <= MaxQueue

\* A transmission in progress has its timer running, and no timer runs
\* without one: dup_tryxmit, "be very careful about overflows".
TransmissionTimed == \A i \in Lines : dup[i].txnow > 0 <=> dup[i].unit

\* A descriptor that is done will be reported: kmc_output is set, so that
\* kmc_svc and every register write look for it.
CompletionFlagged ==
  \A i \in Lines : dup[i].rxnext > 0 \/ dup[i].txnext > 0 => kmc.output
=============================================================================
