------------------------------ MODULE KmcProofs ------------------------------
(***************************************************************************)
(* The queues of the KMC11 for any number of lines, any queue size and any *)
(* messages: whatever the host writes and whatever arrives, the counters   *)
(* stay within the queues, a transmission in progress has its timer, and a *)
(* completion is looked for.                                               *)
(*                                                                         *)
(* The routines of the C file are functions on w = [k |-> kmc, d |-> dup], *)
(* so the proof has a lemma for each of them, and a step of the            *)
(* specification is the composition of a few.                              *)
(***************************************************************************)
EXTENDS Kmc, SequenceTheorems, WellFoundedInduction, TLAPS

-----------------------------------------------------------------------------
(* The inductive invariant. *)

\* The transmit lists that hold a message for every line; F below is always
\* this set, or the set it was a step before.
Filled == {l \in TxLists : \A i \in Lines : xbd[i][l] # 0}

RxDesc       == RxLists \X {1, 2}
TxDesc(F)    == F \X {1, 2}

KmcBlocks(F) ==
  [sel0 : SUBSET Sel0Bits, sel2 : Sel2, sel46 : RxDesc \cup TxDesc(F) \cup {None},
   int : SUBSET {"KMCA", "KMCB"}, output : BOOLEAN, unit : BOOLEAN]

\* A dupblock whose counters fit its queues.
Fits(b) ==
  /\ b.rxnext <= Len(b.rxqueue) /\ Len(b.rxqueue) <= MaxQueue
  /\ b.txnext + b.txnow <= Len(b.txqueue) /\ Len(b.txqueue) <= MaxQueue
Blocks(F) ==
  [rxqueue : Seq(RxDesc), rxnext : Nat, txqueue : Seq(TxDesc(F)), txnext : Nat,
   txnow : Nat, unit : BOOLEAN]
DupBlocks(F) == {b \in Blocks(F) : Fits(b)}

Works(F) == [k : KmcBlocks(F), d : [Lines -> DupBlocks(F)]]

\* CompletionFlagged and TransmissionTimed of a w and of its d.
Flagged(w) == \A i \in Lines : w.d[i].rxnext > 0 \/ w.d[i].txnext > 0 => w.k.output
Timed(d)   == \A i \in Lines : d[i].txnow > 0 <=> d[i].unit

\* The lines and the memory: everything in them is a datagram.
NetType ==
  /\ net \in [Lines -> SUBSET Datagram]
  /\ rbuf \in [Lines -> [RxLists -> Datagram \cup {None}]]

KmcInv == Now \in Works(Filled) /\ Flagged(Now) /\ xbd \in [Lines -> [TxLists -> Msgs \cup {0}]]

\* No message is so long that its delay does not fit into 32 bits.
NoOverflow == \A n \in 1 .. MaxQueue : ~DelayNegative(n * SegBytes)

-----------------------------------------------------------------------------
(* Queues. *)

\* The least element of a set of numbers.
LEMMA MinIsLeast ==
  ASSUME NEW S \in SUBSET Nat, S # {}
  PROVE  Min(S) \in S /\ \A x \in S : Min(S) <= x
<1> DEFINE less == {ss \in Nat \X Nat : ss[1] < ss[2]}
<1>1. PICK x \in S : \A y \in S : <<y, x>> \notin less
  <2>1. IsWellFoundedOn(less, Nat)
      BY NatLessThanWellFounded DEF OpToRel
  <2> HIDE DEF less
  <2> QED BY <2>1, WFMin
<1>2. \A y \in S : x <= y
  <2>1. SUFFICES ASSUME NEW y \in S, y < x PROVE FALSE
      BY <1>1
  <2>2. <<y, x>> \in Nat \X Nat /\ <<y, x>>[1] < <<y, x>>[2]
      BY <2>1
  <2>3. <<y, x>> \in less
      BY <2>2
  <2> QED BY <1>1, <2>3
<1> QED BY <1>2 DEF Min

LEMMA QueueSize == MaxQueue \in Nat /\ 1 <= MaxQueue
  BY KmcAssumption

\* Added keeps what was in the queue and never exceeds MAXQUEUE.
LEMMA AddedFits ==
  ASSUME NEW S, NEW q \in Seq(S), NEW c \in Seq(S), Len(q) <= MaxQueue
  PROVE  /\ Added(q, c) \in Seq(S)
         /\ Len(q) <= Len(Added(q, c)) /\ Len(Added(q, c)) <= MaxQueue
<1> DEFINE all == q \o c
<1>1. all \in Seq(S) /\ Len(all) = Len(q) + Len(c) /\ Len(c) \in Nat /\ Len(q) \in Nat
    BY ConcatProperties, LenProperties
<1>2. CASE Len(all) <= MaxQueue
    BY <1>1, <1>2 DEF Added
<1>3. CASE ~(Len(all) <= MaxQueue)
  <2> HIDE DEF all
  <2>1. \A i \in 1 .. MaxQueue : all[i] \in S
      BY <1>1, <1>3, QueueSize, ElementOfSeq
  <2>2. SubSeq(all, 1, MaxQueue) \in Seq(S) /\ Len(SubSeq(all, 1, MaxQueue)) = MaxQueue
      BY <2>1, QueueSize, SubSeqProperties
  <2>3. Added(q, c) = SubSeq(all, 1, MaxQueue)
      BY <1>3 DEF Added, all
  <2> QED BY <1>1, <2>2, <2>3, QueueSize
<1> QED BY <1>2, <1>3

\* The head of a queue, and the queue when it has moved up.
LEMMA MovedUp ==
  ASSUME NEW S, NEW q \in Seq(S), 1 <= Len(q)
  PROVE  q[1] \in S /\ Tail(q) \in Seq(S) /\ Len(Tail(q)) = Len(q) - 1
<1>1. Len(q) \in Nat /\ q # << >>
    BY LenProperties, EmptySeq
<1> QED BY <1>1, HeadTailProperties, ElementOfSeq

-----------------------------------------------------------------------------
(* Output transactions. *)

\* kmc_updints touches the requests only.
LEMMA UpdIntsWork ==
  ASSUME NEW F, NEW w \in Works(F)
  PROVE  /\ UpdInts(w) \in Works(F)
         /\ UpdInts(w).d = w.d /\ UpdInts(w).k.output = w.k.output
  BY DEF UpdInts, Enabled, Works, KmcBlocks

\* A queue with a descriptor to report moves up.
LEMMA RxUpFits ==
  ASSUME NEW F, NEW b \in DupBlocks(F), b.rxnext > 0
  PROVE  /\ b.rxqueue[1] \in RxDesc
         /\ RxUp(b) \in DupBlocks(F)
         /\ RxUp(b).rxnext = b.rxnext - 1 /\ RxUp(b).txnext = b.txnext
         /\ RxUp(b).txnow = b.txnow /\ RxUp(b).unit = b.unit
<1> DEFINE q == Tail(b.rxqueue)
           n == b.rxnext - 1
<1>1. b \in Blocks(F) /\ Fits(b)
    BY DEF DupBlocks
<1>2. 1 <= Len(b.rxqueue) /\ b.rxqueue \in Seq(RxDesc) /\ Len(b.rxqueue) \in Nat /\ n \in Nat
    BY <1>1, LenProperties DEF Blocks, Fits
<1>3. b.rxqueue[1] \in RxDesc /\ q \in Seq(RxDesc) /\ Len(q) = Len(b.rxqueue) - 1
    BY <1>2, MovedUp
<1>4. RxUp(b) = [b EXCEPT !.rxqueue = q, !.rxnext = n]
    BY DEF RxUp
<1>5. n + 1 = b.rxnext
    BY <1>1 DEF Blocks
<1> HIDE DEF q, n
<1>6. RxUp(b) \in Blocks(F)
    BY <1>1, <1>2, <1>3, <1>4 DEF Blocks
<1>7. /\ RxUp(b).rxqueue = q /\ RxUp(b).rxnext = n
      /\ RxUp(b).txqueue = b.txqueue /\ RxUp(b).txnext = b.txnext
      /\ RxUp(b).txnow = b.txnow /\ RxUp(b).unit = b.unit
    BY <1>1, <1>4 DEF Blocks
<1>8. Fits(RxUp(b))
    BY <1>1, <1>2, <1>3, <1>5, <1>7, QueueSize, LenProperties DEF Fits, Blocks
<1> QED BY <1>2, <1>3, <1>5, <1>6, <1>7, <1>8 DEF DupBlocks

LEMMA TxUpFits ==
  ASSUME NEW F, NEW b \in DupBlocks(F), b.txnext > 0
  PROVE  /\ b.txqueue[1] \in TxDesc(F)
         /\ TxUp(b) \in DupBlocks(F)
         /\ TxUp(b).txnext = b.txnext - 1 /\ TxUp(b).rxnext = b.rxnext
         /\ TxUp(b).txnow = b.txnow /\ TxUp(b).unit = b.unit
<1> DEFINE q == Tail(b.txqueue)
           n == b.txnext - 1
<1>1. b \in Blocks(F) /\ Fits(b)
    BY DEF DupBlocks
<1>2. 1 <= Len(b.txqueue) /\ b.txqueue \in Seq(TxDesc(F)) /\ Len(b.txqueue) \in Nat /\ n \in Nat
    BY <1>1, LenProperties DEF Blocks, Fits
<1>3. b.txqueue[1] \in TxDesc(F) /\ q \in Seq(TxDesc(F)) /\ Len(q) = Len(b.txqueue) - 1
    BY <1>2, MovedUp
<1>4. TxUp(b) = [b EXCEPT !.txqueue = q, !.txnext = n]
    BY DEF TxUp
<1>5. n + 1 = b.txnext
    BY <1>1 DEF Blocks
<1> HIDE DEF q, n
<1>6. TxUp(b) \in Blocks(F)
    BY <1>1, <1>2, <1>3, <1>4 DEF Blocks
<1>7. /\ TxUp(b).txqueue = q /\ TxUp(b).txnext = n
      /\ TxUp(b).rxqueue = b.rxqueue /\ TxUp(b).rxnext = b.rxnext
      /\ TxUp(b).txnow = b.txnow /\ TxUp(b).unit = b.unit
    BY <1>1, <1>4 DEF Blocks
<1>8. Fits(TxUp(b))
    BY <1>1, <1>2, <1>3, <1>5, <1>7, QueueSize, LenProperties DEF Fits, Blocks
<1> QED BY <1>2, <1>3, <1>5, <1>6, <1>7, <1>8 DEF DupBlocks

\* The registers of an output transaction.
LEMMA PresentedBlock ==
  ASSUME NEW F, NEW k \in KmcBlocks(F), NEW i \in Lines, NEW rx \in BOOLEAN,
         NEW desc \in RxDesc \cup TxDesc(F)
  PROVE  Presented(k, i, desc, rx) \in KmcBlocks(F) /\ Presented(k, i, desc, rx).output = k.output
<1> DEFINE s == [rdo |-> TRUE, rdi |-> k.sel2.rdi, iot |-> rx, line |-> i, buf |-> TRUE]
<1>1. s \in Sel2
    BY DEF KmcBlocks, Sel2
<1>2. Presented(k, i, desc, rx) = [k EXCEPT !.sel46 = desc, !.sel2 = s]
    BY DEF Presented
<1> HIDE DEF s
<1> QED BY <1>1, <1>2 DEF KmcBlocks

\* A line's block gives way to one that is no longer.
LEMMA ReplaceWork ==
  ASSUME NEW F, NEW w \in Works(F), NEW i \in Lines,
         NEW k \in KmcBlocks(F), k.output = w.k.output,
         NEW b \in DupBlocks(F), b.rxnext <= w.d[i].rxnext, b.txnext <= w.d[i].txnext,
         b.txnow = w.d[i].txnow, b.unit = w.d[i].unit
  PROVE  LET v == [k |-> k, d |-> [w.d EXCEPT ![i] = b]]
         IN /\ v \in Works(F)
            /\ Flagged(w) => Flagged(v)
            /\ Timed(w.d) => Timed(v.d)
<1> DEFINE d == [w.d EXCEPT ![i] = b]
<1>1. w.d \in [Lines -> DupBlocks(F)] /\ w.d[i] \in Blocks(F) /\ b \in Blocks(F)
    BY DEF Works, DupBlocks
<1>2. d \in [Lines -> DupBlocks(F)] /\ d[i] = b /\ \A j \in Lines \ {i} : d[j] = w.d[j]
    BY <1>1
<1> HIDE DEF d
<1>3. Flagged(w) => Flagged([k |-> k, d |-> d])
    BY <1>1, <1>2 DEF Flagged, Blocks
<1>4. Timed(w.d) => Timed(d)
    BY <1>2 DEF Timed
<1> QED BY <1>2, <1>3, <1>4 DEF Works, d

\* The report of one of the done descriptors.
LEMMA PresentRxWork ==
  ASSUME NEW F, NEW w \in Works(F), NEW i \in Lines, w.d[i].rxnext > 0
  PROVE  /\ PresentRx(w, i) \in Works(F)
         /\ Flagged(w) => Flagged(PresentRx(w, i))
         /\ Timed(w.d) => Timed(PresentRx(w, i).d)
<1> DEFINE k == Presented(w.k, i, w.d[i].rxqueue[1], TRUE)
           e == RxUp(w.d[i])
<1>1. w.k \in KmcBlocks(F) /\ w.d[i] \in DupBlocks(F)
    BY DEF Works
<1>2. k \in KmcBlocks(F) /\ k.output = w.k.output
    BY <1>1, RxUpFits, PresentedBlock
<1>3. /\ e \in DupBlocks(F) /\ e.rxnext <= w.d[i].rxnext /\ e.txnext <= w.d[i].txnext
      /\ e.txnow = w.d[i].txnow /\ e.unit = w.d[i].unit
    BY <1>1, RxUpFits DEF DupBlocks, Blocks
<1>4. PresentRx(w, i) = [k |-> k, d |-> [w.d EXCEPT ![i] = e]]
    BY DEF PresentRx
<1> HIDE DEF k, e
<1> QED BY <1>2, <1>3, <1>4, ReplaceWork

LEMMA PresentTxWork ==
  ASSUME NEW F, NEW w \in Works(F), NEW i \in Lines, w.d[i].txnext > 0
  PROVE  /\ PresentTx(w, i) \in Works(F)
         /\ Flagged(w) => Flagged(PresentTx(w, i))
         /\ Timed(w.d) => Timed(PresentTx(w, i).d)
<1> DEFINE k == Presented(w.k, i, w.d[i].txqueue[1], FALSE)
           e == TxUp(w.d[i])
<1>1. w.k \in KmcBlocks(F) /\ w.d[i] \in DupBlocks(F)
    BY DEF Works
<1>2. k \in KmcBlocks(F) /\ k.output = w.k.output
  <2> DEFINE desc == w.d[i].txqueue[1]
             rx   == FALSE
  <2>1. desc \in RxDesc \cup TxDesc(F) /\ rx \in BOOLEAN
      BY <1>1, TxUpFits
  <2> HIDE DEF desc, rx
  <2>2. Presented(w.k, i, desc, rx) \in KmcBlocks(F)
        /\ Presented(w.k, i, desc, rx).output = w.k.output
      BY <1>1, <2>1, PresentedBlock
  <2> QED BY <2>2 DEF desc, rx
<1>3. /\ e \in DupBlocks(F) /\ e.rxnext <= w.d[i].rxnext /\ e.txnext <= w.d[i].txnext
      /\ e.txnow = w.d[i].txnow /\ e.unit = w.d[i].unit
    BY <1>1, TxUpFits DEF DupBlocks, Blocks
<1>4. PresentTx(w, i) = [k |-> k, d |-> [w.d EXCEPT ![i] = e]]
    BY DEF PresentTx
<1> HIDE DEF k, e
<1> QED BY <1>2, <1>3, <1>4, ReplaceWork

\* kmc_tryoutput keeps the counters within the queues, and gives up looking
\* only when no line has anything to report.
LEMMA TryOutputWork ==
  ASSUME NEW F, NEW w \in Works(F)
  PROVE  /\ TryOutput(w) \in Works(F)
         /\ Flagged(w) => Flagged(TryOutput(w))
         /\ Timed(w.d) => Timed(TryOutput(w).d)
<1> DEFINE busy == {i \in Lines : w.d[i].rxnext > 0 \/ w.d[i].txnext > 0}
           i    == Min(busy)
           v    == IF w.d[i].rxnext > 0 THEN PresentRx(w, i) ELSE PresentTx(w, i)
<1>1. CASE ~w.k.output
    BY <1>1 DEF TryOutput
<1>2. CASE w.k.output /\ busy = {}
  <2>1. TryOutput(w) = [k |-> [w.k EXCEPT !.output = FALSE], d |-> w.d]
      BY <1>2 DEF TryOutput
  <2>2. [w.k EXCEPT !.output = FALSE] \in KmcBlocks(F)
      BY DEF Works, KmcBlocks
  <2> QED BY <1>2, <2>1, <2>2 DEF Works, Flagged
<1>3. CASE w.k.output /\ busy # {} /\ ~GetRdo(w.k)
    BY <1>3 DEF TryOutput
<1>4. CASE w.k.output /\ busy # {} /\ GetRdo(w.k)
  <2>1. i \in busy
      BY <1>4, KmcAssumption, MinIsLeast
  <2>2. TryOutput(w) = UpdInts(v)
      BY <1>4 DEF TryOutput
  <2> HIDE DEF i
  <2>3. v \in Works(F) /\ (Flagged(w) => Flagged(v)) /\ (Timed(w.d) => Timed(v.d))
      BY <2>1, PresentRxWork, PresentTxWork
  <2> HIDE DEF v
  <2>4. UpdInts(v) \in Works(F) /\ UpdInts(v).d = v.d /\ UpdInts(v).k.output = v.k.output
      BY <2>3, UpdIntsWork
  <2> QED BY <2>2, <2>3, <2>4 DEF Flagged
<1> QED BY <1>1, <1>2, <1>3, <1>4

\* The end of a register write.
LEMMA GrantWork ==
  ASSUME NEW F, NEW w \in Works(F)
  PROVE  Grant(w) \in Works(F) /\ Grant(w).d = w.d /\ Grant(w).k.output = w.k.output
<1>1. w.k \in KmcBlocks(F) /\ w.k.sel2 \in Sel2 /\ w.d \in [Lines -> DupBlocks(F)]
    BY DEF Works, KmcBlocks
<1>2. [w.k.sel2 EXCEPT !.rdi = TRUE] \in Sel2
    BY <1>1 DEF Sel2
<1> DEFINE s == [w.k.sel2 EXCEPT !.rdi = TRUE]
<1>3. Grant(w) = w \/ Grant(w) = [k |-> [w.k EXCEPT !.sel2 = s], d |-> w.d]
    BY DEF Grant
<1>4. s \in Sel2
    BY <1>2
<1> HIDE DEF s
<1> DEFINE k == [w.k EXCEPT !.sel2 = s]
<1>5. k \in KmcBlocks(F) /\ k.output = w.k.output
    BY <1>1, <1>4 DEF KmcBlocks
<1>6. Grant(w) = w \/ Grant(w) = [k |-> k, d |-> w.d]
    BY <1>3
<1> HIDE DEF k
<1> QED BY <1>1, <1>5, <1>6 DEF Works

LEMMA FinishWork ==
  ASSUME NEW F, NEW w \in Works(F), Flagged(w), Finish(w)
  PROVE  /\ [k |-> kmc', d |-> dup'] \in Works(F)
         /\ Flagged([k |-> kmc', d |-> dup'])
         /\ Timed(w.d) => Timed(dup')
<1> DEFINE o == TryOutput(w)
           g == Grant(o)
           u == UpdInts(g)
<1>1. o \in Works(F) /\ Flagged(o) /\ (Timed(w.d) => Timed(o.d))
    BY TryOutputWork
<1>2. kmc' = u.k /\ dup' = u.d
    BY DEF Finish, Become
<1> HIDE DEF o
<1>3. g \in Works(F) /\ g.d = o.d /\ g.k.output = o.k.output
    BY <1>1, GrantWork
<1> HIDE DEF g
<1>4. u \in Works(F) /\ u.d = g.d /\ u.k.output = g.k.output
    BY <1>3, UpdIntsWork
<1> HIDE DEF u
<1>5. [k |-> kmc', d |-> dup'] = u
    BY <1>2, <1>4 DEF Works
<1> QED BY <1>1, <1>2, <1>3, <1>4, <1>5 DEF Flagged

-----------------------------------------------------------------------------
(* Transmission. *)

\* A message ends within the queue, after what is already done.
LEMMA EndInQueue ==
  ASSUME NEW F, NEW d \in [Lines -> DupBlocks(F)], NEW i \in Lines, Ends(d, i) # {}
  PROVE  Min(Ends(d, i)) \in d[i].txnext + 1 .. Len(d[i].txqueue)
<1>1. d[i].txnext \in Nat /\ d[i].txqueue \in Seq(TxDesc(F))
    BY DEF DupBlocks, Blocks
<1>2. Ends(d, i) \subseteq d[i].txnext + 1 .. Len(d[i].txqueue) /\ Len(d[i].txqueue) \in Nat
    BY <1>1, LenProperties DEF Ends
<1>3. Min(Ends(d, i)) \in Ends(d, i)
    BY <1>1, <1>2, MinIsLeast
<1> QED BY <1>2, <1>3

\* The datagram has a segment for each of the descriptors that go out.
LEMMA FrameLength ==
  ASSUME NEW F, NEW d \in [Lines -> DupBlocks(F)], NEW i \in Lines, Ends(d, i) # {}
  PROVE  Len(Frame(d, i)) = Min(Ends(d, i)) - d[i].txnext
<1> DEFINE n == Min(Ends(d, i)) - d[i].txnext
<1>1. d[i].txnext \in Nat /\ Len(d[i].txqueue) \in Nat
    BY LenProperties DEF DupBlocks, Blocks
<1>2. n \in Nat
    BY <1>1, EndInQueue
<1>3. DOMAIN Frame(d, i) = 1 .. n
    BY DEF Frame
<1>4. Frame(d, i) \in [1 .. n -> {Frame(d, i)[j] : j \in 1 .. n}]
    BY DEF Frame
<1> HIDE DEF n
<1>5. Frame(d, i) \in Seq({Frame(d, i)[j] : j \in 1 .. n})
    BY <1>2, <1>4, SeqDef
<1>6. DOMAIN Frame(d, i) = 1 .. Len(Frame(d, i)) /\ Len(Frame(d, i)) \in Nat
    BY <1>5, LenProperties
<1> QED BY <1>2, <1>3, <1>6 DEF n

\* The block of a line that sends.
LEMMA SendingFits ==
  ASSUME NEW F, NEW b \in DupBlocks(F), NEW n \in Nat, b.txnext + n <= Len(b.txqueue),
         NEW refused
  PROVE  /\ Sending(b, n, refused) \in DupBlocks(F)
         /\ Sending(b, n, refused).txnow = n
         /\ ~refused => Sending(b, n, refused).unit
         /\ Sending(b, n, refused).rxnext = b.rxnext
         /\ Sending(b, n, refused).txnext = b.txnext
<1> DEFINE t == IF refused THEN b.unit ELSE TRUE
           e == [b EXCEPT !.txnow = n, !.unit = t]
<1>1. b \in Blocks(F) /\ Fits(b)
    BY DEF DupBlocks
<1>2. t \in BOOLEAN
    BY <1>1 DEF Blocks
<1>3. Sending(b, n, refused) = e
    BY DEF Sending
<1>4. ~refused => t
    OBVIOUS
<1> HIDE DEF t
<1>5. /\ e \in Blocks(F) /\ e.txnow = n /\ e.unit = t /\ e.rxqueue = b.rxqueue
      /\ e.rxnext = b.rxnext /\ e.txqueue = b.txqueue /\ e.txnext = b.txnext
    BY <1>1, <1>2 DEF Blocks
<1> HIDE DEF e
<1>6. Fits(e)
    BY <1>1, <1>5 DEF Fits
<1> QED BY <1>3, <1>4, <1>5, <1>6 DEF DupBlocks

\* What goes out are segments of messages, no more of them than a queue holds.
LEMMA XmitType ==
  ASSUME NetType, xbd \in [Lines -> [TxLists -> Msgs \cup {0}]],
         NEW d \in [Lines -> DupBlocks(Filled)], NEW i \in Lines, Xmit(d, i)
  PROVE  net' \in [Lines -> SUBSET Datagram]
<1>1. ASSUME Sendable(d, i) PROVE Frame(d, i) \in Datagram
  <2> DEFINE n == Min(Ends(d, i)) - d[i].txnext
  <2>1. d[i] \in Blocks(Filled) /\ Fits(d[i]) /\ Len(d[i].txqueue) \in Nat
      BY LenProperties DEF DupBlocks, Blocks
  <2>2. Min(Ends(d, i)) \in d[i].txnext + 1 .. Len(d[i].txqueue)
      BY <1>1, EndInQueue DEF Sendable
  <2>3. n \in 0 .. MaxQueue /\ d[i].txnext + n <= Len(d[i].txqueue)
      BY <2>1, <2>2, QueueSize DEF Blocks, Fits
  <2>4. Frame(d, i) = [j \in 1 .. n |-> <<xbd[i][d[i].txqueue[d[i].txnext + j][1]],
                                          d[i].txqueue[d[i].txnext + j][2]>>]
      BY DEF Frame
  <2> HIDE DEF n
  <2>5. ASSUME NEW j \in 1 .. n
        PROVE  Frame(d, i)[j] \in Msgs \X {1, 2}
    <3>1. d[i].txnext + j \in 1 .. Len(d[i].txqueue)
        BY <2>1, <2>3 DEF Blocks
    <3>2. d[i].txqueue[d[i].txnext + j] \in TxDesc(Filled)
        BY <2>1, <3>1, ElementOfSeq DEF Blocks
    <3> QED BY <2>4, <3>2 DEF TxDesc, Filled
  <2>6. Frame(d, i) \in [1 .. n -> Msgs \X {1, 2}]
      BY <2>4, <2>5
  <2> QED BY <2>3, <2>6 DEF Datagram
<1>2. Peer[i] \in Lines
    BY KmcAssumption
<1>3. (IF Sendable(d, i) /\ MsgLen(d, i) <= MaxMsg THEN {Frame(d, i)} ELSE {}) \subseteq Datagram
    BY <1>1
<1> QED BY <1>2, <1>3 DEF Xmit, NetType

\* dup_tryxmit takes descriptors that are in the queue, and starts the timer.
LEMMA TryXmitWork ==
  ASSUME NEW F, NEW d \in [Lines -> DupBlocks(F)], NEW i \in Lines
  PROVE  /\ TryXmit(d, i) \in [Lines -> DupBlocks(F)]
         /\ \A j \in Lines : TryXmit(d, i)[j].rxnext = d[j].rxnext
                             /\ TryXmit(d, i)[j].txnext = d[j].txnext
         /\ NoOverflow /\ Timed(d) => Timed(TryXmit(d, i))
<1>1. CASE ~Sendable(d, i)
    BY <1>1 DEF TryXmit
<1>2. CASE Sendable(d, i)
  <2> DEFINE n == Min(Ends(d, i)) - d[i].txnext
             r == DelayNegative(MsgLen(d, i))
             e == Sending(d[i], n, r)
  <2>1. d[i] \in Blocks(F) /\ Fits(d[i]) /\ Len(d[i].txqueue) \in Nat
      BY LenProperties DEF DupBlocks, Blocks
  <2>2. Min(Ends(d, i)) \in d[i].txnext + 1 .. Len(d[i].txqueue)
      BY <1>2, EndInQueue DEF Sendable
  <2>3. n \in 1 .. MaxQueue /\ n \in Nat /\ d[i].txnext + n <= Len(d[i].txqueue)
      BY <2>1, <2>2, QueueSize DEF Blocks, Fits
  <2>4. NoOverflow => ~r
    <3>1. MsgLen(d, i) = n * SegBytes
        BY <1>2, FrameLength DEF MsgLen, Sendable
    <3> HIDE DEF n
    <3> QED BY <2>3, <3>1 DEF NoOverflow
  <2>5. TryXmit(d, i) = [d EXCEPT ![i] = e]
      BY <1>2 DEF TryXmit
  <2> HIDE DEF n, r
  <2>6. /\ e \in DupBlocks(F) /\ e.txnow = n /\ e.rxnext = d[i].rxnext
        /\ e.txnext = d[i].txnext /\ (~r => e.unit)
      BY <2>3, SendingFits
  <2> HIDE DEF e
  <2>7. [d EXCEPT ![i] = e] \in [Lines -> DupBlocks(F)] /\ [d EXCEPT ![i] = e][i] = e
        /\ \A j \in Lines \ {i} : [d EXCEPT ![i] = e][j] = d[j]
      BY <2>6
  <2>8. NoOverflow /\ Timed(d) => Timed([d EXCEPT ![i] = e])
    <3> DEFINE x == [d EXCEPT ![i] = e]
    <3> HIDE DEF x
    <3>1. NoOverflow => (x[i].txnow > 0 /\ x[i].unit)
        BY <2>3, <2>4, <2>6, <2>7 DEF x
    <3>2. \A j \in Lines \ {i} : x[j] = d[j]
        BY <2>7 DEF x
    <3>3. NoOverflow /\ Timed(d) => Timed(x)
        BY <3>1, <3>2 DEF Timed
    <3> QED BY <3>3 DEF x
  <2> QED BY <2>5, <2>6, <2>7, <2>8
<1> QED BY <1>1, <1>2

-----------------------------------------------------------------------------
(* Input transactions. *)

\* The descriptors of a list that all lines have filled.
LEMMA ChainType ==
  ASSUME xbd \in [Lines -> [TxLists -> Msgs \cup {0}]],
         NEW i \in Lines, NEW desc \in TxDesc(Filled)
  PROVE  Chain(i, desc, FALSE) \in Seq(TxDesc(Filled))
<1> DEFINE n == Segs[xbd[i][desc[1]]] - desc[2] + 1
<1>1. desc[1] \in Filled /\ desc[2] \in {1, 2} /\ xbd[i][desc[1]] \in Msgs
    BY DEF TxDesc, Filled
<1>2. Segs[xbd[i][desc[1]]] \in {1, 2}
    BY <1>1, KmcAssumption
<1>3. n \in Nat /\ \A j \in 1 .. n : <<desc[1], desc[2] + j - 1>> \in TxDesc(Filled)
  <2>1. n \in 0 .. 2 /\ \A j \in 1 .. n : desc[2] + j - 1 \in {1, 2}
      BY <1>1, <1>2
  <2> HIDE DEF n
  <2> QED BY <1>1, <2>1 DEF TxDesc
<1>4. Chain(i, desc, FALSE) = [j \in 1 .. n |-> <<desc[1], desc[2] + j - 1>>]
    BY DEF Chain
<1> HIDE DEF n
<1>5. Chain(i, desc, FALSE) \in [1 .. n -> TxDesc(Filled)]
    BY <1>3, <1>4
<1> QED BY <1>3, <1>5, SeqDef

\* kmc_doinput adds to the end of a queue.
LEMMA QueuedWork ==
  ASSUME xbd \in [Lines -> [TxLists -> Msgs \cup {0}]], NEW w \in Works(Filled),
         w.k.sel2.buf => w.k.sel46 # None /\ w.k.sel2.iot = (w.k.sel46[1] \in RxLists)
  PROVE  /\ Queued(w) \in [Lines -> DupBlocks(Filled)]
         /\ \A j \in Lines : Queued(w)[j].rxnext = w.d[j].rxnext
                             /\ Queued(w)[j].txnext = w.d[j].txnext
         /\ Timed(w.d) => Timed(Queued(w))
<1> DEFINE i == w.k.sel2.line
           b == w.d[i]
<1>1. /\ i \in Lines /\ b \in Blocks(Filled) /\ Fits(b) /\ w.d \in [Lines -> DupBlocks(Filled)]
      /\ w.k.sel46 \in RxDesc \cup TxDesc(Filled) \cup {None} /\ w.k.sel2.iot \in BOOLEAN
    BY DEF Works, KmcBlocks, Sel2, DupBlocks
<1>2. CASE ~w.k.sel2.buf
    BY <1>1, <1>2 DEF Queued
<1>3. CASE w.k.sel2.buf /\ w.k.sel2.iot
  <2> DEFINE c == <<w.k.sel46>>
             q == Added(b.rxqueue, c)
             e == [b EXCEPT !.rxqueue = q]
  <2>1. w.k.sel46 \in RxDesc
      BY <1>1, <1>3, KmcAssumption DEF RxDesc, TxDesc, Filled
  <2>2. c \in Seq(RxDesc) /\ b.rxqueue \in Seq(RxDesc) /\ Len(b.rxqueue) <= MaxQueue
      BY <1>1, <2>1 DEF Blocks, Fits
  <2>3. q \in Seq(RxDesc) /\ Len(b.rxqueue) <= Len(q) /\ Len(q) <= MaxQueue
      BY <2>2, AddedFits
  <2>4. Queued(w) = [w.d EXCEPT ![i] = e]
      BY <1>1, <1>3 DEF Queued, Chain
  <2> HIDE DEF i
  <2>5. Len(q) \in Nat /\ Len(b.rxqueue) \in Nat
      BY <2>2, <2>3, LenProperties
  <2> HIDE DEF q
  <2>6. e \in Blocks(Filled) /\ e.rxqueue = q /\ e.rxnext = b.rxnext /\ e.txqueue = b.txqueue
        /\ e.txnext = b.txnext /\ e.txnow = b.txnow /\ e.unit = b.unit
      BY <1>1, <2>3 DEF Blocks
  <2> HIDE DEF e
  <2>7. e \in DupBlocks(Filled)
      BY <1>1, <2>3, <2>5, <2>6, QueueSize DEF DupBlocks, Fits, Blocks
  <2>8. [w.d EXCEPT ![i] = e] \in [Lines -> DupBlocks(Filled)] /\ [w.d EXCEPT ![i] = e][i] = e
        /\ \A j \in Lines \ {i} : [w.d EXCEPT ![i] = e][j] = w.d[j]
      BY <1>1, <2>7
  <2> QED BY <1>1, <2>4, <2>6, <2>8 DEF Timed
<1>4. CASE w.k.sel2.buf /\ ~w.k.sel2.iot
  <2> DEFINE c == Chain(i, w.k.sel46, FALSE)
             q == Added(b.txqueue, c)
             e == [b EXCEPT !.txqueue = q]
  <2>1. w.k.sel46 \in TxDesc(Filled)
      BY <1>1, <1>4 DEF RxDesc
  <2>2. c \in Seq(TxDesc(Filled))
      BY <1>1, <2>1, ChainType
  <2>3. b.txqueue \in Seq(TxDesc(Filled)) /\ Len(b.txqueue) <= MaxQueue
      BY <1>1 DEF Blocks, Fits
  <2> HIDE DEF c
  <2>4. q \in Seq(TxDesc(Filled)) /\ Len(b.txqueue) <= Len(q) /\ Len(q) <= MaxQueue
      BY <2>2, <2>3, AddedFits
  <2>5. Queued(w) = [w.d EXCEPT ![i] = e]
      BY <1>1, <1>4 DEF Queued, Chain, c
  <2>6. Len(q) \in Nat /\ Len(b.txqueue) \in Nat
      BY <2>3, <2>4, LenProperties
  <2> HIDE DEF i, q
  <2>7. e \in Blocks(Filled) /\ e.txqueue = q /\ e.rxnext = b.rxnext /\ e.rxqueue = b.rxqueue
        /\ e.txnext = b.txnext /\ e.txnow = b.txnow /\ e.unit = b.unit
      BY <1>1, <2>4 DEF Blocks
  <2> HIDE DEF e
  <2>8. e \in DupBlocks(Filled)
      BY <1>1, <2>4, <2>6, <2>7, QueueSize DEF DupBlocks, Fits, Blocks
  <2>9. [w.d EXCEPT ![i] = e] \in [Lines -> DupBlocks(Filled)] /\ [w.d EXCEPT ![i] = e][i] = e
        /\ \A j \in Lines \ {i} : [w.d EXCEPT ![i] = e][j] = w.d[j]
      BY <1>1, <2>8
  <2> QED BY <1>1, <2>5, <2>7, <2>9 DEF Timed
<1> QED BY <1>2, <1>3, <1>4

-----------------------------------------------------------------------------
(* The steps. *)

\* Once a list is filled for every line it stays so.
LEMMA WorksGrow ==
  ASSUME NEW F, NEW G, F \subseteq G
  PROVE  Works(F) \subseteq Works(G)
<1>1. TxDesc(F) \subseteq TxDesc(G)
    BY DEF TxDesc
<1>2. \A s \in Seq(TxDesc(F)) : s \in Seq(TxDesc(G))
    BY <1>1, SeqMonotonic
<1>3. KmcBlocks(F) \subseteq KmcBlocks(G)
    BY <1>1 DEF KmcBlocks
<1>4. Blocks(F) \subseteq Blocks(G)
    BY <1>2 DEF Blocks
<1>5. DupBlocks(F) \subseteq DupBlocks(G)
    BY <1>4 DEF DupBlocks
<1> QED BY <1>3, <1>5 DEF Works

\* What the invariant says of each line, and of the registers.
LEMMA InvParts ==
  ASSUME KmcInv
  PROVE  /\ kmc \in KmcBlocks(Filled) /\ dup \in [Lines -> DupBlocks(Filled)]
         /\ xbd \in [Lines -> [TxLists -> Msgs \cup {0}]]
         /\ \A i \in Lines : dup[i].rxnext > 0 \/ dup[i].txnext > 0 => kmc.output
  BY DEF KmcInv, Works, Now, With, Flagged

\* A new value of the registers that keeps kmc_output makes a w.
LEMMA WithWork ==
  ASSUME KmcInv, NEW k \in KmcBlocks(Filled), k.output = kmc.output
  PROVE  With(k) \in Works(Filled) /\ Flagged(With(k)) /\ With(k).d = dup
  BY InvParts DEF Works, With, Flagged

LEMMA Clear2Type == Clear2 \in Sel2
  BY KmcAssumption, MinIsLeast DEF Clear2, Sel2

\* kmc_mclear empties the queues and stops the timers.
LEMMA MclearWork ==
  ASSUME NEW F, NEW w \in Works(F)
  PROVE  Mclear(w) \in Works(F) /\ Flagged(Mclear(w)) /\ Timed(Mclear(w).d)
<1> DEFINE k == [w.k EXCEPT !.sel0 = {"MRC"}, !.sel2 = Clear2, !.sel46 = None, !.unit = FALSE]
           d == [i \in Lines |-> NoDup]
<1>1. k \in KmcBlocks(F)
    BY Clear2Type DEF Works, KmcBlocks, Sel0Bits
<1>2. NoDup \in DupBlocks(F)
    BY EmptySeq, QueueSize DEF DupBlocks, Blocks, Fits, NoDup
<1>3. d \in [Lines -> DupBlocks(F)] /\ \A i \in Lines : d[i] = NoDup
    BY <1>2
<1>4. Mclear(w) = [k |-> k, d |-> d]
    BY DEF Mclear
<1>5. NoDup.rxnext = 0 /\ NoDup.txnext = 0 /\ NoDup.txnow = 0 /\ NoDup.unit = FALSE
    BY DEF NoDup
<1> HIDE DEF k, d
<1> QED BY <1>1, <1>3, <1>4, <1>5 DEF Works, Flagged, Timed

\* The three parts of the induction, for a step that ends in k and d.
StepOK == /\ [k |-> kmc', d |-> dup'] \in Works(Filled)
          /\ Flagged([k |-> kmc', d |-> dup'])
          /\ NoOverflow /\ Timed(dup) => Timed(dup')

LEMMA WriteSel0Step ==
  ASSUME KmcInv, NEW bits \in HostSel0, WriteSel0(bits)
  PROVE  StepOK
<1>1. CASE "MRC" \in bits
  <2>1. Now \in Works(Filled)
      BY DEF KmcInv
  <2>2. Mclear(Now) \in Works(Filled) /\ Flagged(Mclear(Now)) /\ Timed(Mclear(Now).d)
      BY <2>1, MclearWork
  <2>3. Finish(Mclear(Now))
      BY <1>1 DEF WriteSel0
  <2> QED BY <2>2, <2>3, FinishWork DEF StepOK
<1>2. CASE "MRC" \notin bits
  <2> DEFINE u == IF "RUN" \in bits \ kmc.sel0 THEN TRUE
                  ELSE IF "RUN" \in kmc.sel0 \ bits THEN FALSE ELSE kmc.unit
             k == [kmc EXCEPT !.sel0 = bits, !.unit = u]
  <2>1. u \in BOOLEAN /\ bits \in SUBSET Sel0Bits
      BY InvParts, KmcAssumption DEF KmcBlocks, Sel0Bits
  <2>2. Sel0Set(bits) = With(k)
      BY DEF Sel0Set
  <2> HIDE DEF u
  <2>3. k \in KmcBlocks(Filled) /\ k.output = kmc.output
      BY <2>1, InvParts DEF KmcBlocks
  <2> HIDE DEF k
  <2>4. With(k) \in Works(Filled) /\ Flagged(With(k)) /\ With(k).d = dup
      BY <2>3, WithWork
  <2>5. Finish(With(k))
      BY <1>2, <2>2 DEF WriteSel0
  <2> QED BY <2>4, <2>5, FinishWork DEF StepOK
<1> QED BY <1>1, <1>2

LEMMA WriteSel46Step ==
  ASSUME KmcInv, NEW desc \in Desc, HostSel46(desc)
  PROVE  StepOK
<1> DEFINE k == [kmc EXCEPT !.sel46 = desc]
<1>1. desc \in RxDesc \cup TxDesc(Filled)
    BY DEF Desc, RxDesc, TxDesc, HostSel46, Filled
<1>2. k \in KmcBlocks(Filled) /\ k.output = kmc.output
    BY <1>1, InvParts DEF KmcBlocks
<1>3. Finish(With(k))
    BY DEF HostSel46, WriteSel46
<1> HIDE DEF k
<1>4. With(k) \in Works(Filled) /\ Flagged(With(k)) /\ With(k).d = dup
    BY <1>2, WithWork
<1> QED BY <1>3, <1>4, FinishWork DEF StepOK

\* The end of an input transaction: the queue grows, a message may start.
LEMMA InputDoneStep ==
  ASSUME KmcInv, NEW w \in Works(Filled), Flagged(w), w.d = dup,
         w.k.sel2.buf => w.k.sel46 # None /\ w.k.sel2.iot = (w.k.sel46[1] \in RxLists),
         NEW d, d = Queued(w), NEW i \in Lines,
         \/ Finish([k |-> w.k, d |-> TryXmit(d, i)])
         \/ Finish([k |-> w.k, d |-> d])
  PROVE  StepOK
<1>1. /\ d \in [Lines -> DupBlocks(Filled)]
      /\ \A j \in Lines : d[j].rxnext = dup[j].rxnext /\ d[j].txnext = dup[j].txnext
      /\ Timed(dup) => Timed(d)
    BY InvParts, QueuedWork
<1>2. CASE Finish([k |-> w.k, d |-> d])
  <2>1. [k |-> w.k, d |-> d] \in Works(Filled) /\ Flagged([k |-> w.k, d |-> d])
      BY <1>1 DEF Works, Flagged
  <2> QED BY <1>1, <1>2, <2>1, FinishWork DEF StepOK
<1>3. CASE Finish([k |-> w.k, d |-> TryXmit(d, i)])
  <2> DEFINE x == TryXmit(d, i)
  <2>1. /\ x \in [Lines -> DupBlocks(Filled)]
        /\ \A j \in Lines : x[j].rxnext = d[j].rxnext /\ x[j].txnext = d[j].txnext
        /\ NoOverflow /\ Timed(d) => Timed(x)
      BY <1>1, TryXmitWork
  <2>2. Finish([k |-> w.k, d |-> x])
      BY <1>3
  <2> HIDE DEF x
  <2>3. [k |-> w.k, d |-> x] \in Works(Filled) /\ Flagged([k |-> w.k, d |-> x])
      BY <1>1, <2>1 DEF Works, Flagged
  <2> QED BY <1>1, <2>1, <2>2, <2>3, FinishWork DEF StepOK
<1> QED BY <1>2, <1>3

LEMMA WriteSel2Step ==
  ASSUME KmcInv, NEW v \in Sel2, HostSel2(v)
  PROVE  StepOK
<1> DEFINE k == [kmc EXCEPT !.sel2 = v]
<1>1. k \in KmcBlocks(Filled) /\ k.output = kmc.output /\ k.sel2 = v /\ k.sel46 = kmc.sel46
    BY InvParts DEF KmcBlocks
<1>2. v.buf => kmc.sel46 # None /\ v.iot = (kmc.sel46[1] \in RxLists)
    BY DEF HostSel2
<1>3. InputDone(v) \/ OutputDone(v) \/ Finish(With(k))
    BY DEF HostSel2, WriteSel2
<1>4. /\ InputDone(v) => \/ Finish([k |-> With(k).k, d |-> TryXmit(Queued(With(k)), v.line)])
                         \/ Finish([k |-> With(k).k, d |-> Queued(With(k))])
      /\ OutputDone(v) => Finish(TryOutput(With(k)))
    BY DEF InputDone, OutputDone
<1> HIDE DEF k
<1>5. With(k) \in Works(Filled) /\ Flagged(With(k)) /\ With(k).d = dup /\ With(k).k = k
    BY <1>1, WithWork DEF With
<1>6. CASE InputDone(v)
  <2>1. v.line \in Lines
      BY DEF Sel2
  <2> QED BY <1>1, <1>2, <1>4, <1>5, <1>6, <2>1, InputDoneStep
<1>7. CASE OutputDone(v)
  <2> DEFINE o == TryOutput(With(k))
  <2>1. o \in Works(Filled) /\ Flagged(o) /\ (Timed(dup) => Timed(o.d))
      BY <1>5, TryOutputWork
  <2>2. Finish(o)
      BY <1>4, <1>7
  <2> HIDE DEF o
  <2> QED BY <2>1, <2>2, FinishWork DEF StepOK
<1>8. CASE Finish(With(k))
    BY <1>5, <1>8, FinishWork DEF StepOK
<1> QED BY <1>3, <1>6, <1>7, <1>8

\* The end of a transmission: its descriptors become done ones.
LEMMA OverFits ==
  ASSUME NEW F, NEW b \in DupBlocks(F)
  PROVE  /\ Over(b) \in DupBlocks(F)
         /\ Over(b).rxnext = b.rxnext /\ Over(b).txnext = b.txnext + b.txnow
         /\ Over(b).txnow = 0 /\ Over(b).unit = FALSE
<1> DEFINE n == b.txnext + b.txnow
           e == [b EXCEPT !.txnext = n, !.txnow = 0, !.unit = FALSE]
<1>1. b \in Blocks(F) /\ Fits(b)
    BY DEF DupBlocks
<1>2. n \in Nat /\ n <= Len(b.txqueue)
    BY <1>1 DEF Blocks, Fits
<1>3. Over(b) = e
    BY DEF Over
<1> HIDE DEF n
<1>4. /\ e \in Blocks(F) /\ e.txnext = n /\ e.txnow = 0 /\ e.unit = FALSE
      /\ e.rxqueue = b.rxqueue /\ e.rxnext = b.rxnext /\ e.txqueue = b.txqueue
    BY <1>1, <1>2 DEF Blocks
<1> HIDE DEF e
<1>5. Fits(e)
    BY <1>1, <1>2, <1>4 DEF Fits
<1> QED BY <1>3, <1>4, <1>5 DEF DupBlocks, n

LEMMA DupSvcStep ==
  ASSUME KmcInv, NEW i \in Lines, DupSvc(i)
  PROVE  StepOK
<1> DEFINE d == [dup EXCEPT ![i] = Over(@)]
           x == TryXmit(d, i)
<1>1. dup \in [Lines -> DupBlocks(Filled)] /\ dup[i] \in Blocks(Filled) /\ kmc \in KmcBlocks(Filled)
    BY InvParts DEF DupBlocks
<1>2. /\ Over(dup[i]) \in DupBlocks(Filled) /\ Over(dup[i]).rxnext = dup[i].rxnext
      /\ Over(dup[i]).txnext = dup[i].txnext + dup[i].txnow
      /\ Over(dup[i]).txnow = 0 /\ Over(dup[i]).unit = FALSE
    BY <1>1, OverFits
<1>3. /\ d \in [Lines -> DupBlocks(Filled)] /\ d[i] = Over(dup[i])
      /\ \A j \in Lines \ {i} : d[j] = dup[j]
    BY <1>1, <1>2
<1>4. dup' = x /\ kmc' = [kmc EXCEPT !.output = @ \/ dup[i].txnow > 0]
    BY DEF DupSvc
<1> HIDE DEF d
<1>5. /\ x \in [Lines -> DupBlocks(Filled)]
      /\ \A j \in Lines : x[j].rxnext = d[j].rxnext /\ x[j].txnext = d[j].txnext
      /\ NoOverflow /\ Timed(d) => Timed(x)
    BY <1>3, TryXmitWork
<1> HIDE DEF x
<1>6. Timed(dup) => Timed(d)
    BY <1>2, <1>3 DEF Timed
<1>7. /\ kmc' \in KmcBlocks(Filled)
      /\ kmc.output => kmc'.output
      /\ dup[i].txnow > 0 => kmc'.output
  <2>1. (kmc.output \/ dup[i].txnow > 0) \in BOOLEAN
      OBVIOUS
  <2>2. CASE kmc.output \/ dup[i].txnow > 0
    <3>1. kmc' = [kmc EXCEPT !.output = TRUE]
        BY <1>1, <1>4, <2>2 DEF KmcBlocks
    <3> QED BY <1>1, <3>1 DEF KmcBlocks
  <2>3. CASE ~(kmc.output \/ dup[i].txnow > 0)
    <3>1. kmc' = [kmc EXCEPT !.output = FALSE]
        BY <1>1, <1>4, <2>3 DEF KmcBlocks
    <3> QED BY <1>1, <2>3, <3>1 DEF KmcBlocks
  <2> QED BY <2>2, <2>3
<1>8. Flagged([k |-> kmc', d |-> x])
  <2>1. SUFFICES ASSUME NEW j \in Lines, dup'[j].rxnext > 0 \/ dup'[j].txnext > 0
                 PROVE  kmc'.output
      BY <1>4 DEF Flagged
  <2>2. d[j].rxnext > 0 \/ d[j].txnext > 0
      BY <1>4, <1>5, <2>1
  <2>3. CASE j # i
      BY <1>3, <1>7, <2>2, <2>3, InvParts
  <2>4. CASE j = i
      BY <1>1, <1>2, <1>3, <1>7, <2>2, <2>4, InvParts DEF Blocks
  <2> QED BY <2>3, <2>4
<1> QED BY <1>4, <1>5, <1>6, <1>7, <1>8 DEF StepOK, Works

\* kmc_svc: a datagram fills the next of the receive buffers that are left.
LEMMA KmcSvcStep ==
  ASSUME KmcInv, NEW got, KmcSvc(got)
  PROVE  StepOK
<1> DEFINE any == \E i \in Lines : got[i] # None
           k   == [kmc EXCEPT !.output = @ \/ any]
           e(i) == IF Stores(i, got) THEN [dup[i] EXCEPT !.rxnext = @ + 1] ELSE dup[i]
           d   == [i \in Lines |-> e(i)]
           w   == [k |-> k, d |-> d]
           o   == TryOutput(w)
<1>1. dup \in [Lines -> DupBlocks(Filled)] /\ kmc \in KmcBlocks(Filled)
    BY InvParts
<1>2. kmc' = o.k /\ dup' = o.d
    BY DEF KmcSvc, Become
<1>3. /\ k \in KmcBlocks(Filled)
      /\ kmc.output => k.output
      /\ any => k.output
  <2>1. CASE kmc.output \/ any
    <3>1. k = [kmc EXCEPT !.output = TRUE]
        BY <1>1, <2>1 DEF KmcBlocks
    <3> QED BY <1>1, <3>1 DEF KmcBlocks
  <2>2. CASE ~(kmc.output \/ any)
    <3>1. k = [kmc EXCEPT !.output = FALSE]
        BY <1>1, <2>2 DEF KmcBlocks
    <3> QED BY <1>1, <2>2, <3>1 DEF KmcBlocks
  <2> QED BY <2>1, <2>2
<1>4. ASSUME NEW i \in Lines
      PROVE  /\ e(i) \in DupBlocks(Filled)
             /\ e(i).txnext = dup[i].txnext
             /\ e(i).txnow = dup[i].txnow /\ e(i).unit = dup[i].unit
             /\ e(i).rxnext = dup[i].rxnext \/ any
  <2>1. dup[i] \in Blocks(Filled) /\ Fits(dup[i]) /\ dup[i] \in DupBlocks(Filled)
        /\ Len(dup[i].rxqueue) \in Nat
      BY <1>1, LenProperties DEF DupBlocks, Blocks
  <2>2. CASE ~Stores(i, got)
      BY <2>1, <2>2
  <2>3. CASE Stores(i, got)
    <3> DEFINE n == dup[i].rxnext + 1
    <3>1. n \in Nat /\ n <= Len(dup[i].rxqueue) /\ any
        BY <2>1, <2>3 DEF Stores, Blocks
    <3>2. e(i) = [dup[i] EXCEPT !.rxnext = n]
        BY <2>3
    <3> HIDE DEF n, any
    <3> DEFINE b == [dup[i] EXCEPT !.rxnext = n]
    <3>3. /\ b \in Blocks(Filled) /\ b.rxnext = n /\ b.rxqueue = dup[i].rxqueue
          /\ b.txqueue = dup[i].txqueue /\ b.txnext = dup[i].txnext
          /\ b.txnow = dup[i].txnow /\ b.unit = dup[i].unit
        BY <2>1, <3>1 DEF Blocks
    <3>4. Fits(b)
        BY <2>1, <3>1, <3>3 DEF Fits
    <3> HIDE DEF b
    <3> QED BY <3>1, <3>2, <3>3, <3>4 DEF DupBlocks, b
  <2> QED BY <2>2, <2>3
<1>5. d \in [Lines -> DupBlocks(Filled)] /\ \A i \in Lines : d[i] = e(i)
    BY <1>4
<1>6. \A i \in Lines : /\ d[i].txnext = dup[i].txnext /\ d[i].txnow = dup[i].txnow
                       /\ d[i].unit = dup[i].unit /\ (d[i].rxnext = dup[i].rxnext \/ any)
    BY <1>4, <1>5
<1> HIDE DEF any, k, e, d
<1>7. w \in Works(Filled) /\ w.k = k /\ w.d = d
    BY <1>3, <1>5 DEF Works
<1>8. Flagged(w) /\ (Timed(dup) => Timed(w.d))
  <2>1. \A i \in Lines : d[i].rxnext > 0 \/ d[i].txnext > 0 => k.output
      BY <1>3, <1>6, InvParts
  <2>2. Timed(dup) => Timed(d)
      BY <1>6 DEF Timed
  <2> QED BY <1>7, <2>1, <2>2 DEF Flagged
<1> HIDE DEF w
<1>9. o \in Works(Filled) /\ Flagged(o) /\ (Timed(dup) => Timed(o.d))
    BY <1>7, <1>8, TryOutputWork
<1> HIDE DEF o
<1>10. [k |-> kmc', d |-> dup'] = o
    BY <1>2, <1>9 DEF Works
<1> QED BY <1>2, <1>9, <1>10 DEF StepOK

\* Steps of the registers that no routine follows.
LEMMA RegisterStep ==
  ASSUME KmcInv, KmcReset \/ \E r \in {"KMCA", "KMCB"} : Take(r)
  PROVE  StepOK
<1>1. kmc' \in KmcBlocks(Filled) /\ kmc'.output = kmc.output
  <2>1. CASE KmcReset
      BY <2>1, InvParts, Clear2Type DEF KmcReset, KmcBlocks
  <2>2. CASE \E r \in {"KMCA", "KMCB"} : Take(r)
      BY <2>2, InvParts DEF Take, KmcBlocks
  <2> QED BY <2>1, <2>2
<1>2. dup' = dup
    BY DEF KmcReset, Take
<1> QED BY <1>1, <1>2, InvParts DEF StepOK, Works, Flagged

\* Every step does what StepOK says, and the lists that are filled stay so.
LEMMA KmcStep ==
  ASSUME KmcInv, Next
  PROVE  StepOK /\ Filled \subseteq Filled' /\ xbd' \in [Lines -> [TxLists -> Msgs \cup {0}]]
<1>1. CASE DeviceStep
  <2>1. UNCHANGED xbd
      BY <1>1 DEF DeviceStep, DupSvc, KmcSvc
  <2> QED BY <1>1, <2>1, InvParts, DupSvcStep, KmcSvcStep DEF DeviceStep, Filled
<1>2. CASE \E i \in Lines, l \in TxLists, n \in Msgs : HostFill(i, l, n)
  <2>1. PICK i \in Lines, l \in TxLists, n \in Msgs : HostFill(i, l, n)
      BY <1>2
  <2>2. UNCHANGED <<kmc, dup>> /\ xbd' = [xbd EXCEPT ![i][l] = n]
      BY <2>1 DEF HostFill
  <2>3. StepOK
      BY <2>2, InvParts DEF StepOK, Works, Flagged
  <2>4. xbd' \in [Lines -> [TxLists -> Msgs \cup {0}]]
      BY <2>2, InvParts
  <2>5. n # 0
      BY KmcAssumption
  <2>6. \A j \in Lines, m \in TxLists : xbd[j][m] # 0 => xbd'[j][m] # 0
      BY <2>2, <2>5, InvParts
  <2> QED BY <2>3, <2>4, <2>6 DEF Filled
<1>3. CASE \/ \E bits \in HostSel0 : WriteSel0(bits) /\ UNCHANGED <<xbd, rbuf>>
           \/ \E v \in Sel2 : HostSel2(v)
           \/ \E desc \in Desc : HostSel46(desc)
           \/ \E r \in {"KMCA", "KMCB"} : Take(r) /\ UNCHANGED <<xbd, rbuf>>
           \/ KmcReset /\ UNCHANGED <<xbd, rbuf>>
  <2>1. UNCHANGED xbd
      BY <1>3 DEF HostSel2, HostSel46
  <2>2. StepOK
      BY <1>3, WriteSel0Step, WriteSel2Step, WriteSel46Step, RegisterStep
  <2> QED BY <2>1, <2>2, InvParts DEF Filled
<1> QED BY <1>1, <1>2, <1>3 DEF Next, HostStep

\* No step puts anything but a datagram on a line or into a buffer.
LEMMA NetStep ==
  ASSUME KmcInv, NetType, Next
  PROVE  NetType'
<1>0. dup \in [Lines -> DupBlocks(Filled)] /\ xbd \in [Lines -> [TxLists -> Msgs \cup {0}]]
    BY InvParts
<1>1. CASE \E i \in Lines : DupSvc(i)
  <2>1. PICK i \in Lines : DupSvc(i)
      BY <1>1
  <2> DEFINE d == [dup EXCEPT ![i] = Over(@)]
  <2>2. d \in [Lines -> DupBlocks(Filled)]
      BY <1>0, OverFits
  <2>3. Xmit(d, i) /\ UNCHANGED rbuf
      BY <2>1 DEF DupSvc
  <2> HIDE DEF d
  <2> QED BY <1>0, <2>2, <2>3, XmitType DEF NetType
<1>2. CASE \E got \in [Lines -> UNION {net[i] : i \in Lines} \cup {None}] : KmcSvc(got)
  <2>1. PICK got : KmcSvc(got)
      BY <1>2
  <2>2. ASSUME NEW i \in Lines
        PROVE  rbuf'[i] \in [RxLists -> Datagram \cup {None}]
    <3>1. got[i] \in Datagram \cup {None}
        BY <2>1 DEF KmcSvc, NetType
    <3>2. CASE Stores(i, got)
      <4> DEFINE desc == dup[i].rxqueue[dup[i].rxnext + 1]
      <4>1. dup[i].rxqueue \in Seq(RxDesc) /\ dup[i].rxnext + 1 \in 1 .. Len(dup[i].rxqueue)
          BY <1>0, <3>2, LenProperties DEF Stores, DupBlocks, Blocks
      <4>2. desc[1] \in RxLists
          BY <4>1, ElementOfSeq DEF RxDesc
      <4>3. rbuf'[i] = [rbuf[i] EXCEPT ![desc[1]] = got[i]]
          BY <2>1, <3>2 DEF KmcSvc
      <4> HIDE DEF desc
      <4> QED BY <3>1, <4>2, <4>3 DEF NetType
    <3>3. CASE ~Stores(i, got)
        BY <2>1, <3>3 DEF KmcSvc, NetType
    <3> QED BY <3>2, <3>3
  <2>3. rbuf' = [i \in Lines |-> rbuf'[i]] /\ UNCHANGED net
      BY <2>1 DEF KmcSvc
  <2> QED BY <2>2, <2>3 DEF NetType
<1>3. CASE \E v \in Sel2 : HostSel2(v)
  <2>1. PICK v \in Sel2 : HostSel2(v)
      BY <1>3
  <2> DEFINE w == With([kmc EXCEPT !.sel2 = v])
  <2>2. UNCHANGED rbuf /\ v.line \in Lines
      BY <2>1 DEF HostSel2, Sel2
  <2>3. UNCHANGED net \/ Xmit(Queued(w), v.line)
      BY <2>1 DEF HostSel2, WriteSel2, InputDone, OutputDone
  <2>4. /\ w \in Works(Filled)
        /\ w.k.sel2.buf => w.k.sel46 # None /\ w.k.sel2.iot = (w.k.sel46[1] \in RxLists)
    <3> DEFINE k == [kmc EXCEPT !.sel2 = v]
    <3>1. k \in KmcBlocks(Filled) /\ k.output = kmc.output /\ k.sel2 = v /\ k.sel46 = kmc.sel46
        BY InvParts DEF KmcBlocks
    <3> HIDE DEF k
    <3>2. With(k) \in Works(Filled) /\ With(k).k = k
        BY <3>1, WithWork DEF With
    <3>3. v.buf => kmc.sel46 # None /\ v.iot = (kmc.sel46[1] \in RxLists)
        BY <2>1 DEF HostSel2
    <3> QED BY <3>1, <3>2, <3>3 DEF k
  <2> HIDE DEF w
  <2>5. Queued(w) \in [Lines -> DupBlocks(Filled)]
      BY <1>0, <2>4, QueuedWork
  <2> QED BY <1>0, <2>2, <2>3, <2>5, XmitType DEF NetType
<1>4. CASE \/ \E bits \in HostSel0 : WriteSel0(bits) /\ UNCHANGED <<xbd, rbuf>>
           \/ \E desc \in Desc : HostSel46(desc)
           \/ \E r \in {"KMCA", "KMCB"} : Take(r) /\ UNCHANGED <<xbd, rbuf>>
           \/ KmcReset /\ UNCHANGED <<xbd, rbuf>>
           \/ \E i \in Lines, l \in TxLists, n \in Msgs : HostFill(i, l, n)
    BY <1>4 DEF WriteSel0, HostSel46, WriteSel46, Take, KmcReset, HostFill, NetType
<1> QED BY <1>1, <1>2, <1>3, <1>4 DEF Next, DeviceStep, HostStep

-----------------------------------------------------------------------------
(* The invariant. *)

LEMMA KmcInvInit == Init => KmcInv /\ NetType /\ Timed(dup)
<1> SUFFICES ASSUME Init PROVE KmcInv /\ NetType /\ Timed(dup)
    OBVIOUS
<1>1. kmc \in KmcBlocks(Filled)
    BY Clear2Type DEF Init, KmcBlocks
<1>2. NoDup \in DupBlocks(Filled) /\ NoDup.rxnext = 0 /\ NoDup.txnext = 0 /\ NoDup.txnow = 0
      /\ NoDup.unit = FALSE
    BY EmptySeq, QueueSize DEF DupBlocks, Blocks, Fits, NoDup
<1>3. dup = [i \in Lines |-> NoDup]
    BY DEF Init
<1>4. KmcInv
    BY <1>1, <1>2, <1>3 DEF Init, KmcInv, Works, Now, With, Flagged
<1>5. Timed(dup)
    BY <1>2, <1>3 DEF Timed
<1>6. NetType
    BY DEF Init, NetType
<1> QED BY <1>4, <1>5, <1>6

LEMMA KmcInvStep ==
  KmcInv /\ NetType /\ [Next]_kdpvars
    => KmcInv' /\ NetType' /\ (NoOverflow /\ Timed(dup) => Timed(dup)')
<1> SUFFICES ASSUME KmcInv, NetType, [Next]_kdpvars
             PROVE  KmcInv' /\ NetType' /\ (NoOverflow /\ Timed(dup) => Timed(dup)')
    OBVIOUS
<1>1. CASE Next
  <2>1. StepOK /\ Filled \subseteq Filled' /\ xbd' \in [Lines -> [TxLists -> Msgs \cup {0}]]
      BY <1>1, KmcStep
  <2>2. Now' \in Works(Filled')
      BY <2>1, WorksGrow DEF StepOK, Now, With
  <2>3. Flagged(Now)' /\ (NoOverflow /\ Timed(dup) => Timed(dup)')
      BY <2>1 DEF StepOK, Now, With, Flagged, Timed
  <2>4. NetType'
      BY <1>1, NetStep
  <2> QED BY <2>1, <2>2, <2>3, <2>4 DEF KmcInv
<1>2. CASE UNCHANGED kdpvars
    BY <1>2 DEF kdpvars, KmcInv, NetType, Now, With, Filled, Flagged, Timed
<1> QED BY <1>1, <1>2

\* Every value of every register, queue and buffer is one that the types
\* allow, for any number of lines and any sizes.
THEOREM KmcTypeCorrect == Spec => []TypeOK
<1>1. KmcInv /\ NetType => TypeOK
  <2> SUFFICES ASSUME KmcInv, NetType PROVE TypeOK
      OBVIOUS
  <2>1. kmc \in KmcBlocks(Filled) /\ RxDesc \cup TxDesc(Filled) \subseteq Desc
      BY InvParts DEF RxDesc, TxDesc, Filled, Desc
  <2>2. kmc \in [sel0 : SUBSET Sel0Bits, sel2 : Sel2, sel46 : Desc \cup {None},
                 int : SUBSET {"KMCA", "KMCB"}, output : BOOLEAN, unit : BOOLEAN]
      BY <2>1 DEF KmcBlocks
  <2>3. ASSUME NEW i \in Lines
        PROVE  /\ dup[i].rxqueue \in Seq(Desc) /\ dup[i].rxnext \in 0 .. MaxQueue
               /\ dup[i].txqueue \in Seq(Desc) /\ dup[i].txnext \in 0 .. MaxQueue
               /\ dup[i].txnow \in 0 .. MaxQueue /\ dup[i].unit \in BOOLEAN
    <3>1. dup[i] \in Blocks(Filled) /\ Fits(dup[i])
        BY InvParts DEF DupBlocks
    <3>2. dup[i].rxqueue \in Seq(Desc) /\ dup[i].txqueue \in Seq(Desc)
        BY <2>1, <3>1, SeqMonotonic DEF Blocks
    <3> QED BY <3>1, <3>2, QueueSize, LenProperties DEF Blocks, Fits
  <2> QED BY <2>2, <2>3, InvParts DEF TypeOK, NetType
<1> QED BY <1>1, KmcInvInit, KmcInvStep, PTL DEF Spec

\* The counters of done and of current descriptors never pass the descriptors
\* that are queued, and the queues never outgrow their arrays, whatever the
\* host writes.
THEOREM QueuesBounded == Spec => []QueueBounds
<1>1. KmcInv => QueueBounds
    BY InvParts DEF DupBlocks, Fits, QueueBounds
<1> QED BY <1>1, KmcInvInit, KmcInvStep, PTL DEF Spec

\* A descriptor that is done is looked for until it is reported.
THEOREM CompletionsFlagged == Spec => []CompletionFlagged
<1>1. KmcInv => CompletionFlagged
    BY InvParts DEF CompletionFlagged
<1> QED BY <1>1, KmcInvInit, KmcInvStep, PTL DEF Spec

\* A transmission in progress has its timer, if no delay overflows 32 bits:
\* the overflow is the only way for a line to hang.
THEOREM TransmissionsTimed == ASSUME NoOverflow PROVE Spec => []TransmissionTimed
<1>1. Timed(dup) => TransmissionTimed
    BY DEF Timed, TransmissionTimed
<1>2. KmcInv /\ NetType /\ Timed(dup) /\ [Next]_kdpvars => KmcInv' /\ NetType' /\ Timed(dup)'
    BY KmcInvStep
<1> QED BY <1>1, <1>2, KmcInvInit, PTL DEF Spec
=============================================================================
