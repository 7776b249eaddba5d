----------------------------- MODULE KdpProofs -----------------------------
(***************************************************************************)
(* The driver KDPSRV.MAC on the KMC11, for any number of lines, lists and  *)
(* messages, any sizes that RoomAssumption allows and any number of loads: *)
(* the three registers stay with their transaction, no interrupt is lost   *)
(* or unexpected, every list is in one place at a time, and the processor  *)
(* keeps the promise of BufferService.                                     *)
(***************************************************************************)
EXTENDS KdpSystem, KmcProofs, FiniteSetTheorems

-----------------------------------------------------------------------------
(* The inductive invariant. *)

\* What the driver queues: the commands of COMINI and transmit lists.
Commands == Startup \cup [line : Lines, iot : {FALSE}, buf : {TRUE}, desc : TxLists \X {1}]

TxPlace == TxLists \X {1, 2}
RxPlace == RxLists \X {1}

SysTypes ==
  /\ Now \in Works(TxLists)
  /\ todo \subseteq Startup /\ inq \in Seq(Commands)
  /\ hpc \in {"off", "A", "sel6", "sel2", "sel4", "ack", "done"}
  /\ hcmd \in Command /\ (hpc \in {"sel6", "sel2"} => hcmd \in Commands)
  /\ hpc = "done" => hdesc \in (IF hcmd.iot THEN RxPlace ELSE TxPlace)
  /\ up \in BOOLEAN /\ msgs \in Nat
  /\ xbd \in [Lines -> [TxLists -> Msgs \cup {0}]]

\* The lines carry, and the receive buffers hold, whole messages.
Messages == {[k \in 1 .. Segs[n] |-> <<n, k>>] : n \in Msgs}
NetInv   == /\ net \in [Lines -> SUBSET Messages]
            /\ rbuf \in [Lines -> [RxLists -> Messages \cup {None}]]

\* The registers k while the handler is at pc, with command c and descriptor
\* desc in hand, and q is queued: at most one transaction, an input transaction
\* only for a command, and the values the handler has read or written.
Regs(k, q, pc, c, desc) ==
  /\ ~(k.sel2.rdi /\ k.sel2.rdo) /\ "MRC" \notin k.sel0
  /\ "RQI" \in k.sel0 => "IEI" \in k.sel0 /\ q # <<>>
  /\ k.sel2.rdi => "IEI" \in k.sel0 /\ (q # <<>> \/ pc \in {"sel6", "sel2"})
  /\ pc = "A" => k.sel2.rdi /\ q # <<>>
  /\ pc \in {"sel6", "sel2"} => k.sel2.rdi
  /\ pc = "sel2" => k.sel46 = c.desc
  /\ pc \in {"sel4", "ack"} => k.sel2.rdo /\ k.sel2.line = c.line /\ k.sel2.iot = c.iot
  /\ pc = "ack" => k.sel46 = desc

\* Both interrupts are enabled as soon as a command is queued, and there is a
\* request only for a ready bit.
RegInv ==
  /\ Regs(kmc, inq, hpc, hcmd, hdesc)
  /\ "IEI" \in kmc.sel0 <=> "IEO" \in kmc.sel0
  /\ kmc.int # {} => "IEI" \in kmc.sel0
  /\ "KMCA" \in kmc.int => kmc.sel2.rdi
  /\ "KMCB" \in kmc.int => kmc.sel2.rdo
  /\ RequestPending

\* The descriptors of line i that the processor has: the one it reports, and
\* those of the queue.
Held(w, i, rx) ==
  IF w.k.sel2.rdo /\ w.k.sel2.line = i /\ w.k.sel2.iot = rx THEN <<w.k.sel46>> ELSE <<>>

Queue(w, i, rx) == IF rx THEN w.d[i].rxqueue ELSE w.d[i].txqueue
Row(w, i, rx)   == Held(w, i, rx) \o Queue(w, i, rx)

\* A row of transmit descriptors, for the messages x of the line: they are of
\* lists that are in use, no one is there twice, and those of a list stand
\* together.
Distinct(q) == \A j, k \in 1 .. Len(q) : q[j] = q[k] => j = k
TxRow(x, q) ==
  /\ q \in Seq(TxPlace) /\ Distinct(q)
  /\ \A j \in 1 .. Len(q) : x[q[j][1]] # 0 /\ q[j][2] <= Segs[x[q[j][1]]]
  /\ \A j \in 1 .. Len(q) :
       q[j][2] < Segs[x[q[j][1]]] => j < Len(q) /\ q[j + 1] = <<q[j][1], 2>>
  /\ \A j \in 2 .. Len(q) : q[j][2] = 2 => q[j - 1] = <<q[j][1], 1>>

RxRow(q) == q \in Seq(RxPlace) /\ Distinct(q)

\* The transmission stands between two lists, and the buffers that are still to
\* be filled are empty.
AtStart(b)   == b.txnext + b.txnow < Len(b.txqueue)
                  => b.txqueue[b.txnext + b.txnow + 1][2] = 1

Vacant(b, r) == \A j \in b.rxnext + 1 .. Len(b.rxqueue) : r[b.rxqueue[j][1]] = None

LineInv(w, i, x, r) ==
  /\ TxRow(x, Row(w, i, FALSE)) /\ RxRow(Row(w, i, TRUE))
  /\ AtStart(w.d[i]) /\ Vacant(w.d[i], r)

\* Where a list of a line can be: still to be queued, queued, in the hand of
\* KMCVCA, with the processor, or in the hand of KMCVCB.
Key(c)   == <<c.line, c.desc[1]>>
Keys(S)  == {Key(c) : c \in {o \in S : o.buf}}
Elems(q) == {q[j] : j \in 1 .. Len(q)}
Entries  == Elems(inq)
InHand   == IF hpc \in {"sel6", "sel2"} THEN Keys({hcmd}) ELSE {}
Given(w) == {p \in Lines \X (TxLists \cup RxLists) :
               \E rx \in BOOLEAN : \E j \in 1 .. Len(Row(w, p[1], rx)) :
                 Row(w, p[1], rx)[j][1] = p[2]}

Back     == IF hpc = "done" /\ (hcmd.iot \/ LastDesc(hcmd.line, hdesc))
            THEN {<<hcmd.line, hdesc[1]>>} ELSE {}

\* It is in one place only, and there once; a transmit list is in use wherever
\* it is, and a receive buffer that is on its way to the processor is empty.
\* The places are T, E, H, G and B, the lists x, the buffers r.
Places(T, E, H, G, B, x, r) ==
  /\ T \cap (E \cup H \cup G \cup B) = {} /\ E \cap (H \cup G \cup B) = {}
  /\ H \cap (G \cup B) = {} /\ G \cap B = {}
  /\ \A p \in E \cup H \cup G \cup B : p[2] \in TxLists => x[p[1]][p[2]] # 0
  /\ \A p \in E \cup H : p[2] \in RxLists => r[p[1]][p[2]] = None

OnceEach(q) ==
  \A j, k \in 1 .. Len(q) : q[j].buf /\ q[k].buf /\ Key(q[j]) = Key(q[k]) => j = k

PlacesInv ==
  Places(Keys(todo), Keys(Entries), InHand, Given(Now), Back, xbd, rbuf) /\ OnceEach(inq)

\* Each of the lists x has a message of its own, m have been handed over.
Owns(x, m) ==
  \A i \in Lines, l \in TxLists :
    /\ x[i][l] <= m
    /\ \A o \in TxLists : x[i][l] = x[i][o] /\ x[i][l] # 0 => l = o

MsgsInv == Owns(xbd, msgs)

LineInvs(w, x, r) == \A i \in Lines : LineInv(w, i, x[i], r[i])
LinesInv == LineInvs(Now, xbd, rbuf)

SysInv == SysTypes /\ NetInv /\ RegInv /\ LinesInv /\ PlacesInv /\ MsgsInv

-----------------------------------------------------------------------------
(* The registers. *)

\* What kmc_updints leaves: the requests of the enabled ready bits and of no
\* others, and those that are not enabled as they were.
Requested(k, j) ==
  /\ IF "IEI" \in k.sel0 THEN "KMCA" \in j.int <=> j.sel2.rdi
                         ELSE "KMCA" \in j.int <=> "KMCA" \in k.int
  /\ IF "IEO" \in k.sel0 THEN "KMCB" \in j.int <=> j.sel2.rdo
                         ELSE "KMCB" \in j.int <=> "KMCB" \in k.int

\* The registers k become j in a routine that leaves a transaction alone.
Registers(k, j) ==
  /\ j.sel0 = k.sel0
  /\ ~(j.sel2.rdi /\ j.sel2.rdo)
  /\ k.sel2.rdi \/ k.sel2.rdo => j.sel2 = k.sel2 /\ j.sel46 = k.sel46

LEMMA UpdIntsRegs ==
  ASSUME NEW w \in Works(TxLists)
  PROVE  LET j == UpdInts(w).k IN
         /\ UpdInts(w).d = w.d /\ Requested(w.k, j)
         /\ j.sel0 = w.k.sel0 /\ j.sel2 = w.k.sel2 /\ j.sel46 = w.k.sel46
<1> DEFINE E == Enabled(w.k)
           n == (w.k.int \ E) \cup (E \cap Ready(w.k))
           j == [w.k EXCEPT !.int = n]
<1>1. w.k \in KmcBlocks(TxLists)
    BY DEF Works
<1>2. UpdInts(w) = [k |-> j, d |-> w.d]
    BY DEF UpdInts
<1>3. /\ "KMCA" \in E <=> "IEI" \in w.k.sel0
      /\ "KMCB" \in E <=> "IEO" \in w.k.sel0
      /\ "KMCA" \in Ready(w.k) <=> w.k.sel2.rdi
      /\ "KMCB" \in Ready(w.k) <=> w.k.sel2.rdo
    BY DEF Enabled, Ready
<1>4. /\ "IEI" \in w.k.sel0 => ("KMCA" \in n <=> w.k.sel2.rdi)
      /\ "IEI" \notin w.k.sel0 => ("KMCA" \in n <=> "KMCA" \in w.k.int)
      /\ "IEO" \in w.k.sel0 => ("KMCB" \in n <=> w.k.sel2.rdo)
      /\ "IEO" \notin w.k.sel0 => ("KMCB" \in n <=> "KMCB" \in w.k.int)
  <2> HIDE DEF E
  <2> QED BY <1>3
<1> HIDE DEF n
<1>5. j.int = n /\ j.sel0 = w.k.sel0 /\ j.sel2 = w.k.sel2 /\ j.sel46 = w.k.sel46
    BY <1>1 DEF KmcBlocks
<1> HIDE DEF j
<1>6. UpdInts(w).k = j /\ UpdInts(w).d = w.d
    BY <1>2
<1> QED BY <1>4, <1>5, <1>6 DEF Requested

\* The fields of the registers that present a descriptor.
LEMMA PresentedRegs ==
  ASSUME NEW k \in KmcBlocks(TxLists), NEW i, NEW desc, NEW rx
  PROVE  LET j == Presented(k, i, desc, rx) IN
         /\ j.sel0 = k.sel0 /\ j.int = k.int /\ j.sel46 = desc
         /\ j.sel2.rdo /\ j.sel2.rdi = k.sel2.rdi /\ j.sel2.line = i /\ j.sel2.iot = rx
<1> DEFINE s == [rdo |-> TRUE, rdi |-> k.sel2.rdi, iot |-> rx, line |-> i, buf |-> TRUE]
<1>1. Presented(k, i, desc, rx) = [k EXCEPT !.sel46 = desc, !.sel2 = s]
    BY DEF Presented
<1>2. s.rdo /\ s.rdi = k.sel2.rdi /\ s.line = i /\ s.iot = rx
    OBVIOUS
<1> HIDE DEF s
<1> QED BY <1>1, <1>2 DEF KmcBlocks

\* kmc_tryoutput: nothing, or a descriptor of a line that has one is presented
\* and requested.
LEMMA TryOutputCases ==
  ASSUME NEW w \in Works(TxLists)
  PROVE  \/ /\ TryOutput(w).d = w.d
            /\ TryOutput(w).k = w.k \/ TryOutput(w).k = [w.k EXCEPT !.output = FALSE]
         \/ /\ ~w.k.sel2.rdo /\ ~w.k.sel2.rdi
            /\ \E i \in Lines :
                 \/ w.d[i].rxnext > 0 /\ TryOutput(w) = UpdInts(PresentRx(w, i))
                 \/ w.d[i].txnext > 0 /\ TryOutput(w) = UpdInts(PresentTx(w, i))
<1> DEFINE busy == {i \in Lines : w.d[i].rxnext > 0 \/ w.d[i].txnext > 0}
           i    == Min(busy)
<1>1. CASE ~w.k.output
    BY <1>1 DEF TryOutput
<1>2. CASE w.k.output /\ busy = {}
    BY <1>2 DEF TryOutput
<1>3. CASE w.k.output /\ busy # {} /\ ~GetRdo(w.k)
    BY <1>3 DEF TryOutput
<1>4. CASE w.k.output /\ busy # {} /\ GetRdo(w.k)
  <2>1. i \in busy
      BY <1>4, KmcAssumption, MinIsLeast
  <2>2. TryOutput(w) = UpdInts(IF w.d[i].rxnext > 0 THEN PresentRx(w, i) ELSE PresentTx(w, i))
      BY <1>4 DEF TryOutput
  <2> HIDE DEF i
  <2> QED BY <1>4, <2>1, <2>2 DEF GetRdo
<1> QED BY <1>1, <1>2, <1>3, <1>4

LEMMA TryOutputRegs ==
  ASSUME NEW w \in Works(TxLists), ~(w.k.sel2.rdi /\ w.k.sel2.rdo)
  PROVE  LET j == TryOutput(w).k IN
         /\ Registers(w.k, j) /\ j.sel2.rdi = w.k.sel2.rdi
         /\ Requested(w.k, j) \/ (j.int = w.k.int /\ j.sel2 = w.k.sel2)
<1>0. w.k \in KmcBlocks(TxLists)
    BY DEF Works
<1>1. CASE TryOutput(w).k = w.k \/ TryOutput(w).k = [w.k EXCEPT !.output = FALSE]
    BY <1>0, <1>1 DEF Registers, KmcBlocks
<1>2. ASSUME NEW v \in Works(TxLists), TryOutput(w) = UpdInts(v),
             v.k.sel0 = w.k.sel0, v.k.int = w.k.int, v.k.sel2.rdi = w.k.sel2.rdi,
             ~w.k.sel2.rdo, ~w.k.sel2.rdi
      PROVE  /\ Registers(w.k, TryOutput(w).k)
             /\ TryOutput(w).k.sel2.rdi = w.k.sel2.rdi
             /\ Requested(w.k, TryOutput(w).k)
    BY <1>2, UpdIntsRegs DEF Registers, Requested
<1>3. ASSUME NEW i \in Lines, w.d[i].rxnext > 0, TryOutput(w) = UpdInts(PresentRx(w, i)),
             ~w.k.sel2.rdo, ~w.k.sel2.rdi
      PROVE  /\ Registers(w.k, TryOutput(w).k)
             /\ TryOutput(w).k.sel2.rdi = w.k.sel2.rdi
             /\ Requested(w.k, TryOutput(w).k)
  <2> DEFINE v == PresentRx(w, i)
  <2>1. v \in Works(TxLists)
      BY <1>3, PresentRxWork
  <2> DEFINE desc == w.d[i].rxqueue[1]
             rx   == TRUE
             p    == Presented(w.k, i, desc, rx)
  <2>2. p.sel0 = w.k.sel0 /\ p.int = w.k.int /\ p.sel2.rdi = w.k.sel2.rdi
    <3> HIDE DEF desc, rx
    <3> QED BY <1>0, PresentedRegs
  <2>3. v.k = p
      BY DEF PresentRx
  <2> HIDE DEF p
  <2> HIDE DEF v
  <2> QED BY <1>2, <1>3, <2>1, <2>2, <2>3 DEF v
<1>4. ASSUME NEW i \in Lines, w.d[i].txnext > 0, TryOutput(w) = UpdInts(PresentTx(w, i)),
             ~w.k.sel2.rdo, ~w.k.sel2.rdi
      PROVE  /\ Registers(w.k, TryOutput(w).k)
             /\ TryOutput(w).k.sel2.rdi = w.k.sel2.rdi
             /\ Requested(w.k, TryOutput(w).k)
  <2> DEFINE v == PresentTx(w, i)
  <2>1. v \in Works(TxLists)
      BY <1>4, PresentTxWork
  <2> DEFINE desc == w.d[i].txqueue[1]
             rx   == FALSE
             p    == Presented(w.k, i, desc, rx)
  <2>2. p.sel0 = w.k.sel0 /\ p.int = w.k.int /\ p.sel2.rdi = w.k.sel2.rdi
    <3> HIDE DEF desc, rx
    <3> QED BY <1>0, PresentedRegs
  <2>3. v.k = p
      BY DEF PresentTx
  <2> HIDE DEF p
  <2> HIDE DEF v
  <2> QED BY <1>2, <1>4, <2>1, <2>2, <2>3 DEF v
<1> QED BY <1>1, <1>3, <1>4, TryOutputCases

\* A register write may grant an input transaction besides.
LEMMA FinishRegs ==
  ASSUME NEW w \in Works(TxLists), Finish(w), ~(w.k.sel2.rdi /\ w.k.sel2.rdo)
  PROVE  /\ Registers(w.k, kmc') /\ Requested(w.k, kmc')
         /\ kmc'.sel2.rdi => w.k.sel2.rdi \/ "RQI" \in w.k.sel0
<1> DEFINE o == TryOutput(w)
           g == Grant(o)
           u == UpdInts(g)
<1>1. kmc' = u.k
    BY DEF Finish, Become
<1>2. o \in Works(TxLists)
    BY TryOutputWork
<1>3. /\ Registers(w.k, o.k) /\ o.k.sel2.rdi = w.k.sel2.rdi
      /\ Requested(w.k, o.k) \/ (o.k.int = w.k.int /\ o.k.sel2 = w.k.sel2)
    BY TryOutputRegs
<1> HIDE DEF o
<1>4. g \in Works(TxLists)
    BY <1>2, GrantWork
<1>5. /\ g.k.sel0 = o.k.sel0 /\ g.k.int = o.k.int /\ g.k.sel46 = o.k.sel46
      /\ ~(g.k.sel2.rdi /\ g.k.sel2.rdo)
      /\ o.k.sel2.rdi \/ o.k.sel2.rdo => g.k.sel2 = o.k.sel2
      /\ g.k.sel2.rdi => o.k.sel2.rdi \/ "RQI" \in o.k.sel0
  <2>1. o.k \in KmcBlocks(TxLists) /\ o.k.sel2 \in Sel2 /\ ~(o.k.sel2.rdi /\ o.k.sel2.rdo)
      BY <1>2, <1>3 DEF Works, KmcBlocks, Registers
  <2>2. CASE ~("RQI" \in o.k.sel0 /\ ~o.k.sel2.rdo)
      BY <2>1, <2>2 DEF Grant
  <2>3. CASE "RQI" \in o.k.sel0 /\ ~o.k.sel2.rdo
    <3> DEFINE s == [o.k.sel2 EXCEPT !.rdi = TRUE]
    <3>1. s.rdi /\ ~s.rdo /\ (o.k.sel2.rdi => s = o.k.sel2)
        BY <2>1, <2>3 DEF Sel2
    <3>2. g = [k |-> [o.k EXCEPT !.sel2 = s], d |-> o.d]
        BY <2>3 DEF Grant
    <3> HIDE DEF s
    <3>3. g.k = [o.k EXCEPT !.sel2 = s]
        BY <3>2
    <3> HIDE DEF g
    <3> QED BY <2>1, <2>3, <3>1, <3>3 DEF KmcBlocks
  <2> QED BY <2>2, <2>3
<1> HIDE DEF g
<1>6. /\ Requested(g.k, u.k) /\ u.k.sel0 = g.k.sel0 /\ u.k.sel2 = g.k.sel2
      /\ u.k.sel46 = g.k.sel46
    BY <1>4, UpdIntsRegs
<1> HIDE DEF u
<1> QED BY <1>1, <1>3, <1>5, <1>6 DEF Registers, Requested

\* What a register write leaves, for the handler after it.
LEMMA FinishRegInv ==
  ASSUME NEW w \in Works(TxLists), Finish(w), Regs(w.k, inq', hpc', hcmd', hdesc'),
         "IEI" \in w.k.sel0 <=> "IEO" \in w.k.sel0, w.k.int # {} => "IEI" \in w.k.sel0
  PROVE  RegInv'
<1>1. /\ Registers(w.k, kmc') /\ Requested(w.k, kmc')
      /\ kmc'.sel2.rdi => w.k.sel2.rdi \/ "RQI" \in w.k.sel0
    BY FinishRegs DEF Regs
<1>2. kmc'.int \subseteq {"KMCA", "KMCB"}
  <2>1. TryOutput(w) \in Works(TxLists)
      BY TryOutputWork
  <2>2. Grant(TryOutput(w)) \in Works(TxLists)
      BY <2>1, GrantWork
  <2>3. UpdInts(Grant(TryOutput(w))) \in Works(TxLists)
      BY <2>2, UpdIntsWork
  <2> QED BY <2>3 DEF Finish, Become, Works, KmcBlocks
<1>3. Regs(kmc', inq', hpc', hcmd', hdesc')
    BY <1>1 DEF Registers, Regs
<1>4. /\ "KMCA" \in kmc'.int => kmc'.sel2.rdi /\ "IEI" \in kmc'.sel0
      /\ "KMCB" \in kmc'.int => kmc'.sel2.rdo /\ "IEI" \in kmc'.sel0
      /\ "IEI" \in kmc'.sel0 /\ kmc'.sel2.rdi => "KMCA" \in kmc'.int
      /\ "IEO" \in kmc'.sel0 /\ kmc'.sel2.rdo => "KMCB" \in kmc'.int
    BY <1>1 DEF Registers, Requested
<1>5. /\ "IEI" \in kmc'.sel0 <=> "IEO" \in kmc'.sel0
      /\ kmc'.int # {} => "IEI" \in kmc'.sel0
    BY <1>1, <1>2, <1>4 DEF Registers
<1> QED BY <1>3, <1>4, <1>5 DEF RegInv, RequestPending

\* What a service routine leaves: it does not know of the handler.
LEMMA SvcRegInv ==
  ASSUME RegInv, NEW w \in Works(TxLists), kmc' = TryOutput(w).k, UNCHANGED driver,
         w.k.sel0 = kmc.sel0, w.k.sel2 = kmc.sel2, w.k.sel46 = kmc.sel46, w.k.int = kmc.int
  PROVE  RegInv'
<1>1. /\ Registers(w.k, kmc') /\ kmc'.sel2.rdi = w.k.sel2.rdi
      /\ Requested(w.k, kmc') \/ (kmc'.int = w.k.int /\ kmc'.sel2 = w.k.sel2)
    BY TryOutputRegs DEF RegInv, Regs
<1>2. Regs(kmc', inq', hpc', hcmd', hdesc')
    BY <1>1 DEF RegInv, Regs, Registers, driver
<1>3. CASE kmc'.int = w.k.int /\ kmc'.sel2 = w.k.sel2
    BY <1>1, <1>2, <1>3 DEF RegInv, RequestPending, Registers, driver
<1>4. CASE Requested(w.k, kmc')
  <2>1. kmc'.int \subseteq {"KMCA", "KMCB"}
      BY TryOutputWork DEF Works, KmcBlocks
  <2>2. /\ "KMCA" \in kmc'.int => kmc'.sel2.rdi /\ "IEI" \in kmc'.sel0
        /\ "KMCB" \in kmc'.int => kmc'.sel2.rdo /\ "IEI" \in kmc'.sel0
        /\ "IEI" \in kmc'.sel0 /\ kmc'.sel2.rdi => "KMCA" \in kmc'.int
        /\ "IEO" \in kmc'.sel0 /\ kmc'.sel2.rdo => "KMCB" \in kmc'.int
      BY <1>1, <1>4 DEF Registers, Requested, RegInv
  <2> QED BY <1>1, <1>2, <2>1, <2>2 DEF RegInv, RequestPending, Registers
<1> QED BY <1>1, <1>3, <1>4

-----------------------------------------------------------------------------
(* The rows of descriptors. *)

\* A sequence is its head and its tail.
LEMMA HeadAndTail ==
  ASSUME NEW S, NEW q \in Seq(S), q # <<>>
  PROVE  <<q[1]>> \o Tail(q) = q
<1>1. /\ Tail(q) \in Seq(S) /\ Len(Tail(q)) = Len(q) - 1 /\ Len(q) \in Nat \ {0}
      /\ \A j \in 1 .. Len(Tail(q)) : Tail(q)[j] = q[j + 1]
    BY HeadTailProperties, EmptySeq
<1>2. q[1] \in S
    BY <1>1, ElementOfSeq
<1>3. <<q[1]>> \in Seq(S) /\ Len(<<q[1]>>) = 1 /\ <<q[1]>>[1] = q[1]
    BY <1>2
<1> DEFINE h == <<q[1]>>
<1> HIDE DEF h
<1>4. /\ h \o Tail(q) \in Seq(S) /\ Len(h \o Tail(q)) = Len(q)
      /\ \A j \in 1 .. Len(q) : (h \o Tail(q))[j] = IF j <= 1 THEN h[j] ELSE Tail(q)[j - 1]
  <2>1. /\ h \o Tail(q) \in Seq(S) /\ Len(h \o Tail(q)) = Len(h) + Len(Tail(q))
        /\ \A j \in 1 .. Len(h) + Len(Tail(q)) :
             (h \o Tail(q))[j] = IF j <= Len(h) THEN h[j] ELSE Tail(q)[j - Len(h)]
      BY <1>1, <1>3, ConcatProperties DEF h
  <2>2. Len(h) = 1 /\ Len(h) + Len(Tail(q)) = Len(q)
      BY <1>1, <1>3 DEF h
  <2> QED BY <2>1, <2>2
<1>5. \A j \in 1 .. Len(q) : (h \o Tail(q))[j] = q[j]
    BY <1>1, <1>3, <1>4 DEF h
<1>6. h \o Tail(q) = q
    BY <1>4, <1>5, SeqEqual
<1> QED BY <1>6 DEF h

\* A block whose queue moved up has the same descriptors before it.
LEMMA MovedUpPlaces ==
  ASSUME NEW b \in DupBlocks(TxLists), NEW e \in DupBlocks(TxLists)
  PROVE  /\ /\ b.txnext > 0 /\ e.txqueue = Tail(b.txqueue) /\ e.txnext = b.txnext - 1
            /\ e.txnow = b.txnow /\ AtStart(b)
            => AtStart(e)
         /\ \A r : /\ b.rxnext > 0 /\ e.rxqueue = Tail(b.rxqueue) /\ e.rxnext = b.rxnext - 1
                   /\ Vacant(b, r)
                   => Vacant(e, r)
<1>1. /\ b \in Blocks(TxLists) /\ Fits(b) /\ e \in Blocks(TxLists) /\ Fits(e)
      /\ Len(b.txqueue) \in Nat /\ Len(b.rxqueue) \in Nat
    BY LenProperties DEF DupBlocks, Blocks
<1>2. ASSUME b.txnext > 0, e.txqueue = Tail(b.txqueue), e.txnext = b.txnext - 1,
             e.txnow = b.txnow, AtStart(b)
      PROVE  AtStart(e)
  <2>1. b.txqueue \in Seq(TxDesc(TxLists)) /\ b.txqueue # <<>>
      BY <1>1, <1>2, EmptySeq DEF Blocks, Fits
  <2>2. /\ Len(e.txqueue) = Len(b.txqueue) - 1
        /\ \A j \in 1 .. Len(b.txqueue) - 1 : e.txqueue[j] = b.txqueue[j + 1]
      BY <1>2, <2>1, HeadTailProperties
  <2>3. SUFFICES ASSUME e.txnext + e.txnow < Len(e.txqueue)
                 PROVE  e.txqueue[e.txnext + e.txnow + 1][2] = 1
      BY DEF AtStart
  <2>4. /\ e.txnext + e.txnow + 1 \in 1 .. Len(b.txqueue) - 1
        /\ e.txnext + e.txnow + 1 + 1 = b.txnext + b.txnow + 1
        /\ b.txnext + b.txnow < Len(b.txqueue)
      BY <1>1, <1>2, <2>2, <2>3, SMTT(30) DEF Blocks
  <2>5. b.txqueue[b.txnext + b.txnow + 1][2] = 1
      BY <1>2, <2>4 DEF AtStart
  <2> QED BY <2>2, <2>4, <2>5
<1>3. ASSUME NEW r, b.rxnext > 0, e.rxqueue = Tail(b.rxqueue), e.rxnext = b.rxnext - 1,
             Vacant(b, r)
      PROVE  Vacant(e, r)
  <2>1. b.rxqueue \in Seq(RxDesc) /\ b.rxqueue # <<>>
      BY <1>1, <1>3, EmptySeq DEF Blocks, Fits
  <2>2. /\ Len(e.rxqueue) = Len(b.rxqueue) - 1
        /\ \A j \in 1 .. Len(b.rxqueue) - 1 : e.rxqueue[j] = b.rxqueue[j + 1]
      BY <1>3, <2>1, HeadTailProperties
  <2>3. SUFFICES ASSUME NEW j \in e.rxnext + 1 .. Len(e.rxqueue)
                 PROVE  r[e.rxqueue[j][1]] = None
      BY DEF Vacant
  <2>4. j \in 1 .. Len(b.rxqueue) - 1 /\ j + 1 \in b.rxnext + 1 .. Len(b.rxqueue)
      BY <1>1, <1>3, <2>2, <2>3 DEF Blocks
  <2>5. r[b.rxqueue[j + 1][1]] = None
      BY <1>3, <2>4 DEF Vacant
  <2> QED BY <2>2, <2>4, <2>5
<1> QED BY <1>2, <1>3

\* v is w with the same descriptors in the hands of the processor.
SameRows(w, v) ==
  \A i \in Lines :
    /\ \A rx \in BOOLEAN : Row(v, i, rx) = Row(w, i, rx)
    /\ AtStart(w.d[i]) => AtStart(v.d[i])
    /\ \A r : Vacant(w.d[i], r) => Vacant(v.d[i], r)

\* The queue rx of line i moves up into the registers, the other stays.
LEMMA PresentedRows ==
  ASSUME NEW w \in Works(TxLists), NEW v \in Works(TxLists), NEW i \in Lines, NEW rx \in BOOLEAN,
         ~w.k.sel2.rdo, v.k.sel2.rdo, v.k.sel2.line = i, v.k.sel2.iot = rx,
         \A j \in Lines \ {i} : v.d[j] = w.d[j],
         Queue(w, i, rx) # <<>>, v.k.sel46 = Queue(w, i, rx)[1],
         Queue(v, i, rx) = Tail(Queue(w, i, rx)), Queue(v, i, ~rx) = Queue(w, i, ~rx)
  PROVE  \A j \in Lines, r \in BOOLEAN : Row(v, j, r) = Row(w, j, r)
<1>1. SUFFICES ASSUME NEW j \in Lines, NEW r \in BOOLEAN PROVE Row(v, j, r) = Row(w, j, r)
    OBVIOUS
<1>2. Held(w, j, r) = <<>>
    BY DEF Held
<1>3. /\ Queue(w, j, r) \in Seq(RxDesc \cup TxDesc(TxLists))
      /\ Queue(w, i, rx) \in Seq(RxDesc \cup TxDesc(TxLists))
    BY SeqMonotonic DEF Works, DupBlocks, Blocks, Queue
<1>4. Row(w, j, r) = Queue(w, j, r)
    BY <1>2, <1>3, ConcatEmptySeq DEF Row
<1>5. CASE j = i /\ r = rx
  <2>1. Held(v, j, r) = <<Queue(w, i, rx)[1]>>
      BY <1>5 DEF Held
  <2>2. Row(v, j, r) = Queue(w, i, rx)
      BY <1>3, <1>5, <2>1, HeadAndTail DEF Row
  <2> QED BY <1>4, <1>5, <2>2
<1>6. CASE ~(j = i /\ r = rx)
  <2>1. Held(v, j, r) = <<>>
      BY <1>6 DEF Held
  <2>2. Queue(v, j, r) = Queue(w, j, r)
    <3>1. CASE j = i
        BY <1>6, <3>1 DEF Queue
    <3>2. CASE j # i
        BY <3>2 DEF Queue
    <3> QED BY <3>1, <3>2
  <2> QED BY <1>3, <1>4, <2>1, <2>2, ConcatEmptySeq DEF Row
<1> QED BY <1>5, <1>6

LEMMA PresentRxRows ==
  ASSUME NEW w \in Works(TxLists), NEW i \in Lines, w.d[i].rxnext > 0, ~w.k.sel2.rdo
  PROVE  SameRows(w, PresentRx(w, i))
<1> DEFINE b == w.d[i]
           e == RxUp(b)
           v == PresentRx(w, i)
<1>1. /\ w.k \in KmcBlocks(TxLists) /\ w.d \in [Lines -> DupBlocks(TxLists)]
      /\ b \in DupBlocks(TxLists) /\ b \in Blocks(TxLists) /\ b.rxqueue # <<>>
    BY EmptySeq DEF Works, DupBlocks, Blocks, Fits
<1>2. v \in Works(TxLists)
    BY PresentRxWork
<1>3. /\ e \in DupBlocks(TxLists) /\ e.rxqueue = Tail(b.rxqueue) /\ e.rxnext = b.rxnext - 1
      /\ e.txqueue = b.txqueue /\ e.txnext = b.txnext /\ e.txnow = b.txnow
  <2>1. e \in DupBlocks(TxLists)
      BY <1>1, RxUpFits
  <2> QED BY <1>1, <2>1 DEF RxUp, Blocks
<1>4. v.d = [w.d EXCEPT ![i] = e]
    BY DEF PresentRx
<1>5. /\ v.k.sel2.rdo /\ v.k.sel2.line = i /\ v.k.sel2.iot = TRUE
      /\ v.k.sel46 = w.d[i].rxqueue[1]
  <2> DEFINE desc == w.d[i].rxqueue[1]
             rx   == TRUE
             p    == Presented(w.k, i, desc, rx)
  <2>1. p.sel2.rdo /\ p.sel2.line = i /\ p.sel2.iot = rx /\ p.sel46 = desc
    <3> HIDE DEF desc, rx
    <3> QED BY <1>1, PresentedRegs
  <2>2. v.k = p
      BY DEF PresentRx
  <2> HIDE DEF p
  <2> QED BY <2>1, <2>2
<1> HIDE DEF b, e, v
<1>6. v.d[i] = e /\ \A j \in Lines \ {i} : v.d[j] = w.d[j]
    BY <1>1, <1>4
<1>7. \A j \in Lines, r \in BOOLEAN : Row(v, j, r) = Row(w, j, r)
  <2> DEFINE rx == TRUE
  <2>1. /\ Queue(w, i, rx) # <<>> /\ v.k.sel46 = Queue(w, i, rx)[1] /\ v.k.sel2.iot = rx
        /\ Queue(v, i, rx) = Tail(Queue(w, i, rx)) /\ Queue(v, i, ~rx) = Queue(w, i, ~rx)
        /\ rx \in BOOLEAN
      BY <1>1, <1>3, <1>5, <1>6 DEF Queue, b
  <2> HIDE DEF rx
  <2> QED BY <1>2, <1>5, <1>6, <2>1, PresentedRows
<1>8. ASSUME NEW j \in Lines
      PROVE  /\ AtStart(w.d[j]) => AtStart(v.d[j])
             /\ \A r : Vacant(w.d[j], r) => Vacant(v.d[j], r)
  <2>1. CASE j = i
      BY <1>1, <1>3, <1>6, <2>1, MovedUpPlaces DEF AtStart, b
  <2>2. CASE j # i
      BY <1>6, <2>2
  <2> QED BY <2>1, <2>2
<1> QED BY <1>7, <1>8 DEF SameRows, v

LEMMA PresentTxRows ==
  ASSUME NEW w \in Works(TxLists), NEW i \in Lines, w.d[i].txnext > 0, ~w.k.sel2.rdo
  PROVE  SameRows(w, PresentTx(w, i))
<1> DEFINE b == w.d[i]
           e == TxUp(b)
           v == PresentTx(w, i)
<1>1. /\ w.k \in KmcBlocks(TxLists) /\ w.d \in [Lines -> DupBlocks(TxLists)]
      /\ b \in DupBlocks(TxLists) /\ b \in Blocks(TxLists) /\ b.txqueue # <<>>
    BY EmptySeq DEF Works, DupBlocks, Blocks, Fits
<1>2. v \in Works(TxLists)
    BY PresentTxWork
<1>3. /\ e \in DupBlocks(TxLists) /\ e.txqueue = Tail(b.txqueue) /\ e.txnext = b.txnext - 1
      /\ e.rxqueue = b.rxqueue /\ e.rxnext = b.rxnext /\ e.txnow = b.txnow
  <2>1. e \in DupBlocks(TxLists)
      BY <1>1, TxUpFits
  <2> QED BY <1>1, <2>1 DEF TxUp, Blocks
<1>4. v.d = [w.d EXCEPT ![i] = e]
    BY DEF PresentTx
<1>5. /\ v.k.sel2.rdo /\ v.k.sel2.line = i /\ v.k.sel2.iot = FALSE
      /\ v.k.sel46 = w.d[i].txqueue[1]
  <2> DEFINE desc == w.d[i].txqueue[1]
             rx   == FALSE
             p    == Presented(w.k, i, desc, rx)
  <2>1. p.sel2.rdo /\ p.sel2.line = i /\ p.sel2.iot = rx /\ p.sel46 = desc
    <3> HIDE DEF desc, rx
    <3> QED BY <1>1, PresentedRegs
  <2>2. v.k = p
      BY DEF PresentTx
  <2> HIDE DEF p
  <2> QED BY <2>1, <2>2
<1> HIDE DEF b, e, v
<1>6. v.d[i] = e /\ \A j \in Lines \ {i} : v.d[j] = w.d[j]
    BY <1>1, <1>4
<1>7. \A j \in Lines, r \in BOOLEAN : Row(v, j, r) = Row(w, j, r)
  <2> DEFINE rx == FALSE
  <2>1. /\ Queue(w, i, rx) # <<>> /\ v.k.sel46 = Queue(w, i, rx)[1] /\ v.k.sel2.iot = rx
        /\ Queue(v, i, rx) = Tail(Queue(w, i, rx)) /\ Queue(v, i, ~rx) = Queue(w, i, ~rx)
        /\ rx \in BOOLEAN
      BY <1>1, <1>3, <1>5, <1>6 DEF Queue, b
  <2> HIDE DEF rx
  <2> QED BY <1>2, <1>5, <1>6, <2>1, PresentedRows
<1>8. ASSUME NEW j \in Lines
      PROVE  /\ AtStart(w.d[j]) => AtStart(v.d[j])
             /\ \A r : Vacant(w.d[j], r) => Vacant(v.d[j], r)
  <2>1. CASE j = i
      BY <1>1, <1>3, <1>6, <2>1, MovedUpPlaces DEF Vacant, b
  <2>2. CASE j # i
      BY <1>6, <2>2
  <2> QED BY <2>1, <2>2
<1> QED BY <1>7, <1>8 DEF SameRows, v

\* Steps that change neither SEL2, SEL4 and SEL6 nor the lines, or only RDI.
LEMMA UntouchedRows ==
  ASSUME NEW w, NEW v, v.d = w.d, v.k.sel46 = w.k.sel46, v.k.sel2.rdo = w.k.sel2.rdo,
         v.k.sel2.line = w.k.sel2.line, v.k.sel2.iot = w.k.sel2.iot
  PROVE  SameRows(w, v)
  BY DEF SameRows, Row, Held, Queue

LEMMA TryOutputRows ==
  ASSUME NEW w \in Works(TxLists)
  PROVE  SameRows(w, TryOutput(w))
<1>0. w.k \in KmcBlocks(TxLists)
    BY DEF Works
<1>1. CASE /\ TryOutput(w).d = w.d
           /\ TryOutput(w).k = w.k \/ TryOutput(w).k = [w.k EXCEPT !.output = FALSE]
  <2>1. TryOutput(w).k.sel46 = w.k.sel46 /\ TryOutput(w).k.sel2 = w.k.sel2
      BY <1>0, <1>1 DEF KmcBlocks
  <2> QED BY <1>1, <2>1, UntouchedRows
<1>2. ASSUME NEW v \in Works(TxLists), TryOutput(w) = UpdInts(v), SameRows(w, v)
      PROVE  SameRows(w, TryOutput(w))
  <2>1. SameRows(v, UpdInts(v))
      BY UpdIntsRegs, UntouchedRows
  <2> QED BY <1>2, <2>1 DEF SameRows
<1> QED BY <1>1, <1>2, TryOutputCases, PresentRxRows, PresentTxRows, PresentRxWork, PresentTxWork

\* A register write ends with the descriptors where they were.
LEMMA FinishRows ==
  ASSUME NEW w \in Works(TxLists), Finish(w)
  PROVE  Now' \in Works(TxLists) /\ SameRows(w, Now')
<1> DEFINE o == TryOutput(w)
           g == Grant(o)
           u == UpdInts(g)
<1>1. kmc' = u.k /\ dup' = u.d
    BY DEF Finish, Become
<1>2. o \in Works(TxLists) /\ SameRows(w, o)
    BY TryOutputWork, TryOutputRows
<1> HIDE DEF o
<1>3. g \in Works(TxLists) /\ SameRows(o, g)
  <2>1. g \in Works(TxLists) /\ g.d = o.d /\ o.k \in KmcBlocks(TxLists) /\ o.k.sel2 \in Sel2
      BY <1>2, GrantWork DEF Works, KmcBlocks
  <2> DEFINE s == [o.k.sel2 EXCEPT !.rdi = TRUE]
  <2>2. s.rdo = o.k.sel2.rdo /\ s.line = o.k.sel2.line /\ s.iot = o.k.sel2.iot
      BY <2>1 DEF Sel2
  <2>3. g = o \/ g.k = [o.k EXCEPT !.sel2 = s]
      BY DEF Grant
  <2> HIDE DEF s, g
  <2>4. g.k.sel46 = o.k.sel46 /\ g.k.sel2.rdo = o.k.sel2.rdo /\ g.k.sel2.line = o.k.sel2.line
        /\ g.k.sel2.iot = o.k.sel2.iot
      BY <2>1, <2>2, <2>3 DEF KmcBlocks
  <2> QED BY <2>1, <2>4, UntouchedRows
<1> HIDE DEF g
<1>4. u \in Works(TxLists) /\ SameRows(g, u)
    BY <1>3, UpdIntsRegs, UpdIntsWork, UntouchedRows
<1> HIDE DEF u
<1>5. Now' = u
    BY <1>1, <1>4 DEF Now, With, Works
<1> QED BY <1>2, <1>3, <1>4, <1>5 DEF SameRows

\* A row has no list l.
Without(q, l) == \A j \in 1 .. Len(q) : q[j][1] # l

LEMMA Pairs == \A A, B : \A e \in A \X B : e = <<e[1], e[2]>>
  OBVIOUS

\* The first descriptor of a row is reported.
LEMMA TxRowTail ==
  ASSUME NEW x \in [TxLists -> Msgs \cup {0}], NEW q, TxRow(x, q), q # <<>>
  PROVE  /\ q[1] \in TxPlace /\ TxRow(x, Tail(q))
         /\ \A l : Without(q, l) => Without(Tail(q), l)
         /\ q[1][2] = Segs[x[q[1][1]]] => Without(Tail(q), q[1][1])
<1>1. /\ q \in Seq(TxPlace) /\ Tail(q) \in Seq(TxPlace) /\ Len(Tail(q)) = Len(q) - 1
      /\ Len(q) \in Nat \ {0} /\ \A j \in 1 .. Len(q) - 1 : Tail(q)[j] = q[j + 1]
    BY HeadTailProperties, EmptySeq DEF TxRow
<1>2. \A j \in 1 .. Len(q) : q[j] \in TxPlace
    BY <1>1, ElementOfSeq
<1> DEFINE t == Tail(q)
           n == Len(q) - 1
<1>3. n \in Nat /\ Len(t) = n /\ \A j \in 1 .. n : t[j] = q[j + 1] /\ j + 1 \in 1 .. Len(q)
    BY <1>1
<1>4. Distinct(t)
  <2>1. SUFFICES ASSUME NEW j \in 1 .. n, NEW k \in 1 .. n, t[j] = t[k] PROVE j = k
      BY <1>3 DEF Distinct
  <2>2. j + 1 = k + 1
      BY <1>3, <2>1 DEF TxRow, Distinct
  <2> QED BY <2>2, <1>3
<1>5. \A j \in 1 .. n : x[t[j][1]] # 0 /\ t[j][2] <= Segs[x[t[j][1]]]
    BY <1>3 DEF TxRow
<1>6. ASSUME NEW j \in 1 .. n, t[j][2] < Segs[x[t[j][1]]]
      PROVE  j < n /\ t[j + 1] = <<t[j][1], 2>>
  <2>1. j + 1 < Len(q) /\ q[j + 1 + 1] = <<q[j + 1][1], 2>>
      BY <1>3, <1>6 DEF TxRow
  <2>2. j < n /\ j + 1 \in 1 .. n
      BY <1>1, <1>3, <2>1
  <2> QED BY <1>3, <2>1, <2>2
<1>7. ASSUME NEW j \in 2 .. n, t[j][2] = 2
      PROVE  t[j - 1] = <<t[j][1], 1>>
  <2>1. /\ j \in 1 .. n /\ j - 1 \in 1 .. n /\ j + 1 \in 2 .. Len(q)
        /\ (j - 1) + 1 = (j + 1) - 1
      BY <1>1, <1>3, <1>7
  <2>2. q[(j + 1) - 1] = <<q[j + 1][1], 1>>
      BY <1>3, <1>7, <2>1 DEF TxRow
  <2> QED BY <1>3, <2>1, <2>2
<1>8. TxRow(x, t)
    BY <1>1, <1>3, <1>4, <1>5, <1>6, <1>7 DEF TxRow
<1>9. ASSUME NEW l, Without(q, l) PROVE Without(t, l)
    BY <1>3, <1>9 DEF Without
<1>10. ASSUME q[1][2] = Segs[x[q[1][1]]] PROVE Without(t, q[1][1])
  <2>1. SUFFICES ASSUME NEW j \in 1 .. n, t[j][1] = q[1][1] PROVE FALSE
      BY <1>3 DEF Without
  <2> DEFINE m == j + 1
  <2>2. m \in 2 .. Len(q) /\ m \in 1 .. Len(q) /\ 1 \in 1 .. Len(q) /\ q[m][1] = q[1][1] /\ m # 1
      BY <1>1, <1>3, <2>1
  <2> HIDE DEF m
  <2>3. q[m] \in TxPlace /\ q[1] \in TxPlace /\ q[m] # q[1]
      BY <1>2, <2>2 DEF TxRow, Distinct
  <2>4. q[m][2] # q[1][2] /\ q[m][2] \in {1, 2} /\ q[1][2] \in {1, 2}
      BY <2>2, <2>3 DEF TxPlace
  <2>5. q[m][2] <= Segs[x[q[1][1]]]
      BY <2>2 DEF TxRow
  <2>6. q[m][2] = 1 /\ q[1][2] = 2 /\ q[m][2] < Segs[x[q[m][1]]]
      BY <1>10, <2>2, <2>4, <2>5
  <2>7. m < Len(q) /\ q[m + 1] = <<q[m][1], 2>>
      BY <2>2, <2>6 DEF TxRow
  <2>8. q[1] = <<q[m][1], 2>>
    <3>1. q[1] = <<q[1][1], q[1][2]>>
        BY <2>3, Pairs DEF TxPlace
    <3> QED BY <2>2, <2>6, <3>1
  <2>9. m + 1 \in 1 .. Len(q) /\ q[m + 1] = q[1]
      BY <1>1, <2>2, <2>7, <2>8
  <2>10. Distinct(q)
      BY DEF TxRow
  <2> QED BY <2>2, <2>9, <2>10 DEF Distinct
<1> QED BY <1>1, <1>2, <1>8, <1>9, <1>10

LEMMA RxRowTail ==
  ASSUME NEW q, RxRow(q), q # <<>>
  PROVE  /\ q[1] \in RxPlace /\ RxRow(Tail(q))
         /\ \A l : Without(q, l) => Without(Tail(q), l)
         /\ Without(Tail(q), q[1][1])
<1>1. /\ q \in Seq(RxPlace) /\ Tail(q) \in Seq(RxPlace) /\ Len(Tail(q)) = Len(q) - 1
      /\ Len(q) \in Nat \ {0} /\ \A j \in 1 .. Len(q) - 1 : Tail(q)[j] = q[j + 1]
    BY HeadTailProperties, EmptySeq DEF RxRow
<1>2. \A j \in 1 .. Len(q) : q[j] \in RxPlace
    BY <1>1, ElementOfSeq
<1> DEFINE t == Tail(q)
           n == Len(q) - 1
<1>3. n \in Nat /\ Len(t) = n /\ \A j \in 1 .. n : t[j] = q[j + 1] /\ j + 1 \in 1 .. Len(q)
    BY <1>1
<1>4. Distinct(t)
  <2>1. SUFFICES ASSUME NEW j \in 1 .. n, NEW k \in 1 .. n, t[j] = t[k] PROVE j = k
      BY <1>3 DEF Distinct
  <2>2. j + 1 = k + 1
      BY <1>3, <2>1 DEF RxRow, Distinct
  <2> QED BY <2>2, <1>3
<1>5. ASSUME NEW l, Without(q, l) PROVE Without(t, l)
    BY <1>3, <1>5 DEF Without
<1>6. Without(t, q[1][1])
  <2>1. SUFFICES ASSUME NEW j \in 1 .. n, t[j][1] = q[1][1] PROVE FALSE
      BY <1>3 DEF Without
  <2>2. j + 1 \in 1 .. Len(q) /\ 1 \in 1 .. Len(q) /\ q[j + 1][1] = q[1][1]
      BY <1>1, <1>3, <2>1
  <2>3. q[j + 1] \in RxPlace /\ q[1] \in RxPlace
      BY <1>2, <2>2
  <2>4. q[j + 1] = q[1]
      BY <2>2, <2>3 DEF RxPlace
  <2>5. j + 1 = 1
      BY <2>2, <2>4 DEF RxRow, Distinct
  <2> QED BY <2>5
<1> QED BY <1>1, <1>2, <1>3, <1>4, <1>5, <1>6 DEF RxRow

\* A row depends on the messages of its own lists only.
LEMMA TxRowOther ==
  ASSUME NEW x, NEW y, NEW q, TxRow(x, q),
         \A j \in 1 .. Len(q) : y[q[j][1]] = x[q[j][1]]
  PROVE  TxRow(y, q)
  BY DEF TxRow

\* A list that is in none of the places is added to a row.
LEMMA RxRowAdd ==
  ASSUME NEW q, RxRow(q), NEW l \in RxLists, Without(q, l)
  PROVE  /\ RxRow(q \o <<<<l, 1>>>>)
         /\ \A m : Without(q, m) /\ m # l => Without(q \o <<<<l, 1>>>>, m)
<1> DEFINE e == <<l, 1>>
           n == Len(q)
           a == q \o <<e>>
<1>1. e \in RxPlace /\ q \in Seq(RxPlace) /\ n \in Nat /\ e[1] = l
    BY LenProperties DEF RxPlace, RxRow
<1> HIDE DEF e
<1>2. /\ a \in Seq(RxPlace) /\ Len(a) = n + 1
      /\ \A j \in 1 .. n : a[j] = q[j]
      /\ a[n + 1] = e
    BY <1>1, AppendProperties, AppendIsConcat
<1> HIDE DEF a, n
<1>3. \A j \in 1 .. n : a[j] # e
    BY <1>1, <1>2 DEF Without, n
<1>4. Distinct(a)
  <2>1. SUFFICES ASSUME NEW j \in 1 .. n + 1, NEW k \in 1 .. n + 1, a[j] = a[k] PROVE j = k
      BY <1>2 DEF Distinct
  <2>2. CASE j \in 1 .. n /\ k \in 1 .. n
      BY <1>2, <2>1, <2>2 DEF RxRow, Distinct, n
  <2>3. CASE j = n + 1 \/ k = n + 1
      BY <1>1, <1>2, <1>3, <2>1, <2>3
  <2> QED BY <1>1, <2>2, <2>3
<1>5. ASSUME NEW m, Without(q, m), m # l PROVE Without(a, m)
  <2>1. SUFFICES ASSUME NEW j \in 1 .. n + 1 PROVE a[j][1] # m
      BY <1>2 DEF Without
  <2>2. CASE j \in 1 .. n
      BY <1>2, <1>5, <2>2 DEF Without, n
  <2>3. CASE j = n + 1
      BY <1>1, <1>2, <1>5, <2>3
  <2> QED BY <1>1, <2>1, <2>2, <2>3
<1> QED BY <1>2, <1>4, <1>5 DEF RxRow, a, e

LEMMA ChainIs ==
  ASSUME xbd \in [Lines -> [TxLists -> Msgs \cup {0}]], NEW i \in Lines, NEW l \in TxLists,
         xbd[i][l] # 0
  PROVE  LET c == Chain(i, <<l, 1>>, FALSE)
             n == Segs[xbd[i][l]]
         IN n \in {1, 2} /\ c \in Seq(TxPlace) /\ Len(c) = n /\ \A k \in 1 .. n : c[k] = <<l, k>>
<1> DEFINE n == Segs[xbd[i][l]]
           c == Chain(i, <<l, 1>>, FALSE)
<1>1. xbd[i][l] \in Msgs
    OBVIOUS
<1>2. n \in {1, 2}
    BY <1>1, KmcAssumption
<1>3. c = [j \in 1 .. n - 1 + 1 |-> <<l, 1 + j - 1>>]
    BY DEF Chain
<1> HIDE DEF n
<1>4. n - 1 + 1 = n /\ n \in Nat /\ \A j \in 1 .. n : 1 + j - 1 = j /\ j \in {1, 2}
    BY <1>2
<1>5. c = [j \in 1 .. n |-> <<l, j>>]
    BY <1>3, <1>4
<1> HIDE DEF c
<1>6. c \in [1 .. n -> TxPlace]
    BY <1>4, <1>5 DEF TxPlace
<1>7. c \in Seq(TxPlace)
    BY <1>4, <1>6, SeqDef
<1>8. Len(c) = n
    BY <1>4, <1>6, <1>7, LenProperties
<1> QED BY <1>2, <1>5, <1>7, <1>8 DEF n, c

LEMMA TxRowAdd ==
  ASSUME NEW x \in [TxLists -> Msgs \cup {0}], NEW q, TxRow(x, q),
         NEW l \in TxLists, x[l] # 0, Without(q, l),
         NEW c \in Seq(TxPlace), Len(c) = Segs[x[l]], Segs[x[l]] \in {1, 2},
         \A k \in 1 .. Segs[x[l]] : c[k] = <<l, k>>
  PROVE  /\ TxRow(x, q \o c)
         /\ \A m : Without(q, m) /\ m # l => Without(q \o c, m)
<1> DEFINE n == Len(q)
           s == Segs[x[l]]
           a == q \o c
<1>1. q \in Seq(TxPlace) /\ n \in Nat
    BY LenProperties DEF TxRow
<1>2. /\ a \in Seq(TxPlace) /\ Len(a) = n + s
      /\ \A j \in 1 .. n : a[j] = q[j] /\ a[j][1] # l
      /\ \A k \in 1 .. s : a[n + k] = <<l, k>>
  <2>1. /\ a \in Seq(TxPlace) /\ Len(a) = n + s
        /\ \A j \in 1 .. n + s : a[j] = IF j <= n THEN q[j] ELSE c[j - n]
      BY <1>1, ConcatProperties
  <2> HIDE DEF a
  <2>2. ASSUME NEW j \in 1 .. n PROVE a[j] = q[j]
    <3>1. j \in 1 .. n + s /\ j <= n
        BY <1>1
    <3> QED BY <2>1, <3>1
  <2>3. ASSUME NEW k \in 1 .. s PROVE a[n + k] = <<l, k>>
    <3>1. n + k \in 1 .. n + s /\ ~(n + k <= n) /\ (n + k) - n = k
        BY <1>1
    <3> QED BY <2>1, <3>1
  <2> QED BY <2>1, <2>2, <2>3 DEF Without
<1>3. \A j \in 1 .. Len(a) : j \in 1 .. n \/ (j - n \in 1 .. s /\ j = n + (j - n))
    BY <1>1, <1>2
<1>4. \A j \in 1 .. n : j \in 1 .. Len(a)
    BY <1>1, <1>2
<1> HIDE DEF a, n, s
<1>5. \A j \in 1 .. Len(a) : j \notin 1 .. n => a[j] = <<l, j - n>>
    BY <1>2, <1>3
<1>6. Distinct(a)
  <2>1. SUFFICES ASSUME NEW j \in 1 .. Len(a), NEW k \in 1 .. Len(a), a[j] = a[k] PROVE j = k
      BY DEF Distinct
  <2>2. CASE j \in 1 .. n /\ k \in 1 .. n
      BY <1>2, <2>1, <2>2 DEF TxRow, Distinct, n
  <2>3. CASE j \in 1 .. n /\ k \notin 1 .. n
      BY <1>2, <1>5, <2>1, <2>3
  <2>4. CASE j \notin 1 .. n /\ k \in 1 .. n
      BY <1>2, <1>5, <2>1, <2>4
  <2>5. CASE j \notin 1 .. n /\ k \notin 1 .. n
    <3>1. j - n = k - n
        BY <1>5, <2>1, <2>5
    <3> QED BY <1>1, <2>1, <3>1
  <2> QED BY <2>2, <2>3, <2>4, <2>5
<1>7. ASSUME NEW j \in 1 .. Len(a)
      PROVE  x[a[j][1]] # 0 /\ a[j][2] <= Segs[x[a[j][1]]]
  <2>1. CASE j \in 1 .. n
      BY <1>2, <2>1 DEF TxRow, n
  <2>2. CASE j \notin 1 .. n
    <3>1. a[j] = <<l, j - n>> /\ j - n \in 1 .. s
        BY <1>3, <1>5, <2>2
    <3> QED BY <3>1 DEF s
  <2> QED BY <2>1, <2>2
<1>8. ASSUME NEW j \in 1 .. Len(a), a[j][2] < Segs[x[a[j][1]]]
      PROVE  j < Len(a) /\ a[j + 1] = <<a[j][1], 2>>
  <2>1. CASE j \in 1 .. n
    <3>1. j < n /\ q[j + 1] = <<q[j][1], 2>>
        BY <1>2, <1>8, <2>1 DEF TxRow, n
    <3>2. j + 1 \in 1 .. n
        BY <1>1, <2>1, <3>1
    <3> QED BY <1>1, <1>2, <2>1, <3>1, <3>2, SMTT(30) DEF s
  <2>2. CASE j \notin 1 .. n
    <3>1. a[j] = <<l, j - n>> /\ j - n \in 1 .. s
        BY <1>3, <1>5, <2>2
    <3>2. j - n < s /\ s \in {1, 2}
        BY <1>8, <3>1 DEF s
    <3>3. j - n = 1 /\ s = 2 /\ j + 1 = n + 2 /\ j < n + s
        BY <1>1, <3>1, <3>2
    <3>4. a[j + 1] = <<l, 2>>
        BY <1>2, <3>3
    <3> QED BY <1>2, <3>1, <3>3, <3>4
  <2> QED BY <2>1, <2>2
<1>9. ASSUME NEW j \in 2 .. Len(a), a[j][2] = 2
      PROVE  a[j - 1] = <<a[j][1], 1>>
  <2>1. CASE j \in 1 .. n
    <3>1. j \in 2 .. n /\ j - 1 \in 1 .. n
        BY <1>1, <1>9, <2>1
    <3>2. q[j - 1] = <<q[j][1], 1>>
        BY <1>2, <1>9, <2>1, <3>1 DEF TxRow, n
    <3> QED BY <1>2, <2>1, <3>1, <3>2
  <2>2. CASE j \notin 1 .. n
    <3>1. j \in 1 .. Len(a)
        BY <1>1, <1>2, <1>9 DEF s
    <3>2. a[j] = <<l, j - n>>
        BY <1>5, <2>2, <3>1
    <3>3. j - n = 2 /\ j - n \in 1 .. s
        BY <1>3, <1>9, <2>2, <3>1, <3>2
    <3>4. j - 1 = n + 1 /\ 1 \in 1 .. s
        BY <1>1, <3>1, <3>3 DEF s
    <3> QED BY <1>2, <3>2, <3>4
  <2> QED BY <2>1, <2>2
<1>10. ASSUME NEW m, Without(q, m), m # l PROVE Without(a, m)
  <2>1. SUFFICES ASSUME NEW j \in 1 .. Len(a) PROVE a[j][1] # m
      BY DEF Without
  <2>2. CASE j \in 1 .. n
      BY <1>2, <1>10, <2>2 DEF Without, n
  <2>3. CASE j \notin 1 .. n
      BY <1>5, <1>10, <2>3
  <2> QED BY <2>2, <2>3
<1>11. TxRow(x, a)
    BY <1>2, <1>6, <1>7, <1>8, <1>9 DEF TxRow
<1> QED BY <1>10, <1>11 DEF a

\* Every row fits into its queue.
LEMMA RxRoom ==
  ASSUME NEW q, RxRow(q)
  PROVE  Len(q) <= MaxQueue
<1> DEFINE n == Len(q)
           f == [j \in 1 .. n |-> q[j][1]]
<1>1. q \in Seq(RxPlace) /\ n \in Nat /\ \A j \in 1 .. n : q[j] \in RxPlace
    BY LenProperties, ElementOfSeq DEF RxRow
<1>2. \A j \in 1 .. n : q[j] = <<q[j][1], 1>> /\ q[j][1] \in RxLists
  <2>1. \A e \in RxPlace : e = <<e[1], e[2]>> /\ e[2] = 1 /\ e[1] \in RxLists
      BY Pairs DEF RxPlace
  <2> QED BY <1>1, <2>1
<1>3. \A j, k \in 1 .. n : f[j] = f[k] => j = k
  <2>1. SUFFICES ASSUME NEW j \in 1 .. n, NEW k \in 1 .. n, f[j] = f[k] PROVE j = k
      OBVIOUS
  <2>2. q[j] = q[k]
      BY <1>2, <2>1
  <2> QED BY <2>2 DEF RxRow, Distinct
<1>4. f \in Injection(1 .. n, RxLists)
    BY <1>2, <1>3 DEF Injection, IsInjective
<1> HIDE DEF f
<1>5. Cardinality(1 .. n) <= Cardinality(RxLists)
  <2>1. IsFiniteSet(RxLists)
      BY RoomAssumption
  <2> HIDE DEF n
  <2> QED BY <1>4, <2>1, FS_Injection
<1>6. Cardinality(1 .. n) = n
  <2> HIDE DEF n
  <2>1. 1 \in Int /\ n \in Int /\ (1 > n => n = 0) /\ n - 1 + 1 = n
      BY <1>1
  <2> QED BY <2>1, FS_Interval
<1>7. Cardinality(RxLists) \in Nat
    BY FS_CardinalityType, RoomAssumption
<1> QED BY <1>1, <1>5, <1>6, <1>7, QueueSize, RoomAssumption

LEMMA TxRoom ==
  ASSUME NEW x \in [TxLists -> Msgs \cup {0}], NEW q, TxRow(x, q),
         \A l, m \in TxLists : x[l] = x[m] /\ x[l] # 0 => l = m
  PROVE  Len(q) <= MaxQueue
<1> DEFINE n == Len(q)
           D == {desc \in TxPlace : x[desc[1]] # 0 /\ desc[2] <= Segs[x[desc[1]]]}
<1>1. q \in Seq(TxPlace) /\ n \in Nat /\ \A j \in 1 .. n : q[j] \in TxPlace
    BY LenProperties, ElementOfSeq DEF TxRow
<1>2. \A j \in 1 .. n : q[j] \in D
    BY <1>1 DEF TxRow
<1>3. q \in [1 .. n -> D]
    BY <1>1, <1>2, LenProperties
<1>4. q \in Injection(1 .. n, D)
  <2> HIDE DEF D
  <2>1. \A j, k \in 1 .. n : q[j] = q[k] => j = k
      BY DEF TxRow, Distinct
  <2>2. DOMAIN q = 1 .. n
      BY <1>3
  <2> HIDE DEF n
  <2>3. IsInjective(q)
      BY <2>1, <2>2 DEF IsInjective
  <2> QED BY <1>3, <2>3 DEF Injection
<1>5. IsFiniteSet(D) /\ Cardinality(D) \in Nat
  <2>1. IsFiniteSet({1, 2})
    <3>1. {1, 2} = {1} \cup {2} /\ IsFiniteSet({1})
        BY FS_Singleton
    <3> QED BY <3>1, FS_AddElement
  <2>2. IsFiniteSet(TxLists \X {1, 2})
      BY <2>1, RoomAssumption, FS_Product
  <2> QED BY <2>2, FS_Subset, FS_CardinalityType DEF TxPlace
<1>6. Cardinality(D) <= MaxQueue
    BY RoomAssumption DEF TxPlace
<1> HIDE DEF D
<1>7. Cardinality(1 .. n) <= Cardinality(D)
    BY <1>4, <1>5, FS_Injection
<1>8. Cardinality(1 .. n) = n
    BY <1>1, FS_Interval
<1> QED BY <1>1, <1>5, <1>6, <1>7, <1>8, QueueSize

-----------------------------------------------------------------------------
(* What a step may do to the rows, the places and the messages. *)

\* A row is the queue, behind the descriptor that is reported.
LEMMA RowIsQueue ==
  ASSUME NEW w \in Works(TxLists), NEW i \in Lines, NEW rx \in BOOLEAN,
         ~(w.k.sel2.rdo /\ w.k.sel2.line = i /\ w.k.sel2.iot = rx)
  PROVE  Row(w, i, rx) = Queue(w, i, rx)
<1>1. Queue(w, i, rx) \in Seq(RxDesc \cup TxDesc(TxLists))
    BY SeqMonotonic DEF Works, DupBlocks, Blocks, Queue
<1>2. Held(w, i, rx) = <<>>
    BY DEF Held
<1> QED BY <1>1, <1>2, ConcatEmptySeq DEF Row

LEMMA RowReported ==
  ASSUME NEW w \in Works(TxLists), NEW i \in Lines, NEW rx \in BOOLEAN,
         w.k.sel2.rdo, w.k.sel2.line = i, w.k.sel2.iot = rx
  PROVE  LET q == Row(w, i, rx)
         IN q # <<>> /\ q[1] = w.k.sel46 /\ Tail(q) = Queue(w, i, rx)
<1> DEFINE S == RxDesc \cup TxDesc(TxLists) \cup {None}
           h == w.k.sel46
           t == Queue(w, i, rx)
<1>1. t \in Seq(S) /\ h \in S
    BY SeqMonotonic DEF Works, KmcBlocks, DupBlocks, Blocks, Queue
<1>2. Row(w, i, rx) = <<h>> \o t
    BY DEF Row, Held
<1> HIDE DEF S, h, t
<1>3. <<h>> \o t # <<>> /\ Head(<<h>> \o t) = h /\ Tail(<<h>> \o t) = t
    BY <1>1
<1>4. (<<h>> \o t)[1] = h
    BY <1>1
<1> QED BY <1>2, <1>3, <1>4 DEF h, t

\* The queues alone are rows too.
LEMMA QueueRows ==
  ASSUME NEW w \in Works(TxLists), NEW i \in Lines, NEW x \in [TxLists -> Msgs \cup {0}]
  PROVE  /\ TxRow(x, Row(w, i, FALSE)) => TxRow(x, w.d[i].txqueue)
         /\ RxRow(Row(w, i, TRUE)) => RxRow(w.d[i].rxqueue)
<1>1. ASSUME NEW rx \in BOOLEAN
      PROVE  \/ Row(w, i, rx) = Queue(w, i, rx)
             \/ Row(w, i, rx) # <<>> /\ Queue(w, i, rx) = Tail(Row(w, i, rx))
    BY RowIsQueue, RowReported
<1>2. Queue(w, i, FALSE) = w.d[i].txqueue /\ Queue(w, i, TRUE) = w.d[i].rxqueue
    BY DEF Queue
<1>3. TxRow(x, Row(w, i, FALSE)) => TxRow(x, w.d[i].txqueue)
  <2>1. \/ Row(w, i, FALSE) = w.d[i].txqueue
        \/ Row(w, i, FALSE) # <<>> /\ w.d[i].txqueue = Tail(Row(w, i, FALSE))
      BY <1>1, <1>2
  <2> QED BY <2>1, TxRowTail
<1>4. RxRow(Row(w, i, TRUE)) => RxRow(w.d[i].rxqueue)
  <2>1. \/ Row(w, i, TRUE) = w.d[i].rxqueue
        \/ Row(w, i, TRUE) # <<>> /\ w.d[i].rxqueue = Tail(Row(w, i, TRUE))
      BY <1>1, <1>2
  <2> QED BY <2>1, RxRowTail
<1> QED BY <1>3, <1>4

\* A list is given when it is in a row of its line.
LEMMA GivenIs ==
  ASSUME NEW w, NEW i \in Lines, NEW l \in TxLists \cup RxLists
  PROVE  <<i, l>> \in Given(w) <=> \E rx \in BOOLEAN : ~Without(Row(w, i, rx), l)
<1>1. <<i, l>>[1] = i /\ <<i, l>>[2] = l /\ <<i, l>> \in Lines \X (TxLists \cup RxLists)
    OBVIOUS
<1> QED BY <1>1 DEF Given, Without

LEMMA GivenSame ==
  ASSUME NEW w, NEW v, \A i \in Lines, rx \in BOOLEAN : Row(v, i, rx) = Row(w, i, rx)
  PROVE  Given(v) = Given(w)
  BY DEF Given

LEMMA LinesSame ==
  ASSUME NEW w, NEW v, NEW x, NEW r, SameRows(w, v), LineInvs(w, x, r)
  PROVE  LineInvs(v, x, r) /\ Given(v) = Given(w)
<1>1. Given(v) = Given(w)
    BY GivenSame DEF SameRows
<1>2. LineInvs(v, x, r)
    BY DEF LineInvs, LineInv, SameRows
<1> QED BY <1>1, <1>2

\* The row rx of a line is of its own lists.
LEMMA RowLists ==
  ASSUME NEW w \in Works(TxLists), NEW i \in Lines, NEW x, NEW r, LineInv(w, i, x, r)
  PROVE  /\ \A l \in RxLists : Without(Row(w, i, FALSE), l)
         /\ \A l \in TxLists : Without(Row(w, i, TRUE), l)
<1>1. Row(w, i, FALSE) \in Seq(TxPlace) /\ Row(w, i, TRUE) \in Seq(RxPlace)
    BY DEF LineInv, TxRow, RxRow
<1>2. ASSUME NEW j \in 1 .. Len(Row(w, i, FALSE)) PROVE Row(w, i, FALSE)[j][1] \in TxLists
  <2>1. Row(w, i, FALSE)[j] \in TxPlace
      BY <1>1, ElementOfSeq
  <2> QED BY <2>1 DEF TxPlace
<1>3. ASSUME NEW j \in 1 .. Len(Row(w, i, TRUE)) PROVE Row(w, i, TRUE)[j][1] \in RxLists
  <2>1. Row(w, i, TRUE)[j] \in RxPlace
      BY <1>1, ElementOfSeq
  <2> QED BY <2>1 DEF RxPlace
<1> QED BY <1>2, <1>3, KmcAssumption DEF Without

\* The parts of SysTypes.
LEMMA SysParts ==
  ASSUME SysTypes
  PROVE  /\ Now \in Works(TxLists) /\ Now.k = kmc /\ Now.d = dup
         /\ kmc \in KmcBlocks(TxLists) /\ kmc.sel2 \in Sel2
         /\ dup \in [Lines -> DupBlocks(TxLists)]
         /\ \A i \in Lines : dup[i] \in Blocks(TxLists) /\ Fits(dup[i])
  BY DEF SysTypes, Now, With, Works, KmcBlocks, DupBlocks

\* Commands and their keys.
LEMMA CommandIs ==
  ASSUME NEW c \in Commands
  PROVE  /\ c \in Command /\ c.line \in Lines /\ c.iot \in BOOLEAN /\ c.buf \in BOOLEAN
         /\ c.desc \in Desc \cup {None}
         /\ c.iot => c.buf
         /\ c.buf /\ c.iot => c.desc \in RxPlace
         /\ c.buf /\ ~c.iot => c.desc \in TxLists \X {1}
         /\ ~c.buf => c.desc = None
<1>1. \/ c \in [line : Lines, iot : {FALSE}, buf : {FALSE}, desc : {None}]
      \/ c \in [line : Lines, iot : {TRUE}, buf : {TRUE}, desc : RxLists \X {1}]
      \/ c \in [line : Lines, iot : {FALSE}, buf : {TRUE}, desc : TxLists \X {1}]
    BY DEF Commands, Startup, Setup
<1>2. RxLists \X {1} \subseteq Desc /\ TxLists \X {1} \subseteq Desc
    BY DEF Desc
<1>3. CASE c \in [line : Lines, iot : {FALSE}, buf : {FALSE}, desc : {None}]
    BY <1>3 DEF Command
<1>4. CASE c \in [line : Lines, iot : {TRUE}, buf : {TRUE}, desc : RxLists \X {1}]
    BY <1>2, <1>4 DEF Command, RxPlace
<1>5. CASE c \in [line : Lines, iot : {FALSE}, buf : {TRUE}, desc : TxLists \X {1}]
    BY <1>2, <1>5 DEF Command
<1> QED BY <1>1, <1>3, <1>4, <1>5

\* The keys of a set of commands.
LEMMA KeysOf ==
  /\ \A S, R : Keys(S \cup R) = Keys(S) \cup Keys(R)
  /\ \A S, R : S \subseteq R => Keys(S) \subseteq Keys(R)
  /\ \A c : Keys({c}) = IF c.buf THEN {Key(c)} ELSE {}
  /\ Keys({}) = {}
  /\ \A S, p : p \in Keys(S) <=> \E c \in S : c.buf /\ p = Key(c)
  BY DEF Keys

\* KMCINQ with one more command, and without its first.
LEMMA QueueAdd ==
  ASSUME NEW q \in Seq(Commands), NEW c \in Commands
  PROVE  /\ Append(q, c) \in Seq(Commands) /\ Append(q, c) # <<>>
         /\ Elems(Append(q, c)) = Elems(q) \cup {c}
         /\ OnceEach(q) /\ Keys(Elems(q)) \cap Keys({c}) = {} => OnceEach(Append(q, c))
<1> DEFINE n == Len(q)
           a == Append(q, c)
<1>1. n \in Nat
    BY LenProperties
<1>2. a \in Seq(Commands) /\ Len(a) = n + 1 /\ a # <<>>
    BY AppendProperties
<1>3. (\A j \in 1 .. n : a[j] = q[j]) /\ a[n + 1] = c
    BY AppendProperties
<1> HIDE DEF a
<1>4. \A j \in 1 .. n + 1 : j \in 1 .. n \/ j = n + 1
    BY <1>1
<1>5. \A j \in 1 .. n : j \in 1 .. n + 1
    BY <1>1
<1>6. n + 1 \in 1 .. n + 1
    BY <1>1
<1>7. Elems(a) = Elems(q) \cup {c}
  <2> HIDE DEF n
  <2>1. Elems(a) = {a[j] : j \in 1 .. n + 1} /\ Elems(q) = {q[j] : j \in 1 .. n}
      BY <1>2 DEF Elems, n
  <2> QED BY <1>3, <1>4, <1>5, <1>6, <2>1
<1>8. ASSUME OnceEach(q), Keys(Elems(q)) \cap Keys({c}) = {}
      PROVE  OnceEach(a)
  <2>1. \A j \in 1 .. n : q[j].buf /\ c.buf => Key(q[j]) # Key(c)
      BY <1>8 DEF Keys, Elems
  <2>2. SUFFICES ASSUME NEW j \in 1 .. n + 1, NEW k \in 1 .. n + 1,
                        a[j].buf, a[k].buf, Key(a[j]) = Key(a[k])
                 PROVE  j = k
      BY <1>2 DEF OnceEach
  <2>3. CASE j \in 1 .. n /\ k \in 1 .. n
      BY <1>3, <1>8, <2>2, <2>3 DEF OnceEach
  <2>4. CASE j \in 1 .. n /\ k = n + 1
      BY <1>3, <2>1, <2>2, <2>4
  <2>5. CASE j = n + 1 /\ k \in 1 .. n
      BY <1>3, <2>1, <2>2, <2>5
  <2> QED BY <1>4, <2>3, <2>4, <2>5
<1> QED BY <1>2, <1>7, <1>8 DEF a

LEMMA QueueTake ==
  ASSUME NEW q \in Seq(Commands), q # <<>>
  PROVE  /\ Head(q) \in Commands /\ Tail(q) \in Seq(Commands)
         /\ Elems(q) = Elems(Tail(q)) \cup {Head(q)}
         /\ OnceEach(q) => OnceEach(Tail(q)) /\ Keys(Elems(Tail(q))) \cap Keys({Head(q)}) = {}
<1> DEFINE t == Tail(q)
           h == Head(q)
           n == Len(q) - 1
<1>1. /\ h \in Commands /\ t \in Seq(Commands) /\ Len(t) = n /\ n \in Nat
      /\ \A j \in 1 .. n : t[j] = q[j + 1]
      /\ h = q[1] /\ Len(q) = n + 1
    BY HeadTailProperties, EmptySeq
<1> HIDE DEF t, h, n
<1>2. \A j \in 1 .. n + 1 : j = 1 \/ (j - 1 \in 1 .. n /\ q[j] = t[j - 1])
  <2>1. SUFFICES ASSUME NEW j \in 1 .. n + 1, j # 1 PROVE j - 1 \in 1 .. n /\ q[j] = t[j - 1]
      OBVIOUS
  <2>2. j - 1 \in 1 .. n /\ (j - 1) + 1 = j
      BY <1>1, <2>1
  <2> QED BY <1>1, <2>2
<1>3. \A j \in 1 .. n : j + 1 \in 1 .. n + 1 /\ j + 1 # 1
    BY <1>1
<1>4. 1 \in 1 .. n + 1
    BY <1>1
<1>5. Elems(q) = Elems(t) \cup {h}
  <2>1. Elems(q) = {q[j] : j \in 1 .. n + 1} /\ Elems(t) = {t[j] : j \in 1 .. n}
      BY <1>1 DEF Elems
  <2>2. ASSUME NEW e PROVE e \in Elems(q) <=> e \in Elems(t) \/ e = h
    <3>1. ASSUME e \in Elems(q) PROVE e \in Elems(t) \/ e = h
      <4>1. PICK j \in 1 .. n + 1 : e = q[j]
          BY <2>1, <3>1
      <4> QED BY <1>1, <1>2, <2>1, <4>1
    <3>2. ASSUME e \in Elems(t) PROVE e \in Elems(q)
      <4>1. PICK j \in 1 .. n : e = t[j]
          BY <2>1, <3>2
      <4> QED BY <1>1, <1>3, <2>1, <4>1
    <3> QED BY <1>1, <1>4, <2>1, <3>1, <3>2
  <2> QED BY <2>2
<1>6. ASSUME OnceEach(q) PROVE OnceEach(t) /\ Keys(Elems(t)) \cap Keys({h}) = {}
  <2>1. OnceEach(t)
    <3>1. SUFFICES ASSUME NEW j \in 1 .. n, NEW k \in 1 .. n,
                          t[j].buf, t[k].buf, Key(t[j]) = Key(t[k])
                   PROVE  j = k
        BY <1>1 DEF OnceEach
    <3>2. j + 1 = k + 1
        BY <1>1, <1>3, <1>6, <3>1 DEF OnceEach
    <3> QED BY <1>1, <3>1, <3>2
  <2>2. \A j \in 1 .. n : ~(t[j].buf /\ h.buf /\ Key(t[j]) = Key(h))
      BY <1>1, <1>3, <1>4, <1>6 DEF OnceEach
  <2>3. Keys(Elems(t)) \cap Keys({h}) = {}
      BY <1>1, <2>2 DEF Keys, Elems
  <2> QED BY <2>1, <2>3
<1> QED BY <1>1, <1>5, <1>6 DEF t, h

-----------------------------------------------------------------------------
(* The steps of the driver that leave the queues of the processor alone. *)

\* A write of SEL0 that is no master clear.
LEMMA Sel0Step ==
  ASSUME SysTypes, RegInv, NEW bits \in SUBSET (Sel0Bits \ {"MRC"}), WriteSel0(bits),
         "IEI" \in bits <=> "IEO" \in bits, kmc.int # {} => "IEI" \in bits,
         \A k : k.sel0 = bits /\ k.sel2 = kmc.sel2 /\ k.sel46 = kmc.sel46
                  => Regs(k, inq', hpc', hcmd', hdesc')
  PROVE  Now' \in Works(TxLists) /\ SameRows(Now, Now') /\ RegInv' /\ UNCHANGED net
<1> DEFINE u == IF "RUN" \in bits \ kmc.sel0 THEN TRUE
                ELSE IF "RUN" \in kmc.sel0 \ bits THEN FALSE ELSE kmc.unit
           k == [kmc EXCEPT !.sel0 = bits, !.unit = u]
           w == With(k)
<1>1. kmc \in KmcBlocks(TxLists) /\ dup \in [Lines -> DupBlocks(TxLists)] /\ u \in BOOLEAN
    BY SysParts DEF KmcBlocks
<1>2. "MRC" \notin bits /\ bits \subseteq Sel0Bits
    OBVIOUS
<1>3. Finish(w) /\ UNCHANGED net
    BY <1>2 DEF WriteSel0, Sel0Set
<1> HIDE DEF u
<1>4. /\ k \in KmcBlocks(TxLists) /\ k.sel0 = bits /\ k.sel2 = kmc.sel2 /\ k.sel46 = kmc.sel46
      /\ k.int = kmc.int
    BY <1>1, <1>2 DEF KmcBlocks
<1> HIDE DEF k
<1>5. w \in Works(TxLists) /\ w.k = k /\ w.d = dup
    BY <1>1, <1>4 DEF With, Works
<1> HIDE DEF w
<1>6. SameRows(Now, w)
    BY <1>4, <1>5, SysParts, UntouchedRows
<1>7. Now' \in Works(TxLists) /\ SameRows(w, Now')
    BY <1>3, <1>5, FinishRows
<1>8. RegInv'
    BY <1>3, <1>4, <1>5, FinishRegInv
<1> QED BY <1>3, <1>6, <1>7, <1>8 DEF SameRows

\* KMCINP, from the main program or at the end of a report.
LEMMA KmcinpStep ==
  ASSUME SysTypes, RegInv, NEW c \in Commands, Kmcinp(c),
         hpc \in {"off", "done"}, hpc' \in {"off", "done"}
  PROVE  /\ Now' \in Works(TxLists) /\ SameRows(Now, Now') /\ RegInv' /\ UNCHANGED net
         /\ inq' \in Seq(Commands) /\ Entries' = Entries \cup {c}
         /\ Keys(Entries)' = Keys(Entries) \cup Keys({c})
         /\ OnceEach(inq) /\ Keys(Entries) \cap Keys({c}) = {} => OnceEach(inq)'
<1> DEFINE bits == kmc.sel0 \cup {"RQI", "IEI", "IEO"}
<1>1. inq \in Seq(Commands) /\ inq' = Append(inq, c) /\ WriteSel0(bits)
    BY DEF SysTypes, Kmcinp
<1>2. /\ inq' \in Seq(Commands) /\ inq' # <<>> /\ Entries' = Entries \cup {c}
      /\ OnceEach(inq) /\ Keys(Entries) \cap Keys({c}) = {} => OnceEach(inq)'
    BY <1>1, QueueAdd DEF Entries
<1>3. bits \in SUBSET (Sel0Bits \ {"MRC"})
    BY SysParts DEF RegInv, Regs, KmcBlocks, Sel0Bits
<1>4. ASSUME NEW k, k.sel0 = bits, k.sel2 = kmc.sel2, k.sel46 = kmc.sel46
      PROVE  Regs(k, inq', hpc', hcmd', hdesc')
    BY <1>2, <1>3, <1>4 DEF RegInv, Regs
<1>5. "IEI" \in bits /\ "IEO" \in bits
    OBVIOUS
<1> HIDE DEF bits
<1>6. Now' \in Works(TxLists) /\ SameRows(Now, Now') /\ RegInv' /\ UNCHANGED net
    BY <1>1, <1>3, <1>4, <1>5, Sel0Step
<1>7. Keys(Entries)' = Keys(Entries) \cup Keys({c})
    BY <1>2, KeysOf
<1> QED BY <1>2, <1>6, <1>7

\* COMINI gives receive buffers only.
LEMMA TodoKeys ==
  ASSUME SysTypes
  PROVE  /\ Keys(todo) \subseteq Lines \X RxLists
         /\ \A i \in Lines, l \in TxLists : <<i, l>> \notin Keys(todo)
<1>1. ASSUME NEW c \in todo, c.buf PROVE Key(c) \in Lines \X RxLists
  <2>1. c \in Setup \/ c \in [line : Lines, iot : {TRUE}, buf : {TRUE}, desc : RxLists \X {1}]
      BY DEF SysTypes, Startup
  <2>2. c.line \in Lines /\ c.desc \in RxLists \X {1}
      BY <1>1, <2>1 DEF Setup
  <2> QED BY <2>2 DEF Key
<1>2. Keys(todo) \subseteq Lines \X RxLists
    BY <1>1 DEF Keys
<1> QED BY <1>2, KmcAssumption

\* XMTDAT and XMTCTL, when x are the transmit lists.
LEMMA SendOnStep ==
  ASSUME SysTypes, NetInv, RegInv, NEW x \in [Lines -> [TxLists -> Msgs \cup {0}]],
         LineInvs(Now, x, rbuf), Owns(x, msgs), OnceEach(inq),
         NEW B \in SUBSET (Lines \X (TxLists \cup RxLists)),
         Places(Keys(todo), Keys(Entries), {}, Given(Now), B, x, rbuf),
         NEW i \in Lines, NEW l \in TxLists, SendOn(i, l, x),
         hpc \in {"off", "done"}, hpc' \in {"off", "done"}, UNCHANGED <<rbuf, todo>>
  PROVE  /\ Now' \in Works(TxLists) /\ SameRows(Now, Now') /\ RegInv' /\ NetInv'
         /\ inq' \in Seq(Commands) /\ msgs' \in Nat
         /\ xbd' \in [Lines -> [TxLists -> Msgs \cup {0}]]
         /\ LinesInv' /\ MsgsInv' /\ OnceEach(inq)'
         /\ Places(Keys(todo)', Keys(Entries)', {}, Given(Now'), B, xbd', rbuf')
<1> DEFINE c == [line |-> i, iot |-> FALSE, buf |-> TRUE, desc |-> <<l, 1>>]
           m == msgs + 1
           y == [x EXCEPT ![i][l] = m]
<1>1. /\ x[i][l] = 0 /\ m \in Msgs /\ msgs' = m /\ xbd' = y /\ Kmcinp(c)
      /\ msgs \in Nat /\ m \in Nat
    BY DEF SendOn, SysTypes
<1>2. c \in Commands /\ c.buf /\ Key(c) = <<i, l>>
    BY DEF Commands, Key
<1> HIDE DEF c, m
<1>3. /\ y \in [Lines -> [TxLists -> Msgs \cup {0}]]
      /\ y[i][l] = m
      /\ \A j \in Lines, o \in TxLists : <<j, o>> # <<i, l>> => y[j][o] = x[j][o]
    BY <1>1
<1> HIDE DEF y
<1>4. Keys({c}) = {<<i, l>>}
    BY <1>2, KeysOf
<1>5. <<i, l>>[1] = i /\ <<i, l>>[2] = l
    OBVIOUS
<1>6. <<i, l>> \notin Keys(todo) \cup Keys(Entries) \cup Given(Now) \cup B
    BY <1>1, <1>5, TodoKeys DEF Places
<1>7. /\ Now' \in Works(TxLists) /\ SameRows(Now, Now') /\ RegInv' /\ UNCHANGED net
      /\ inq' \in Seq(Commands) /\ Keys(Entries)' = Keys(Entries) \cup {<<i, l>>}
      /\ OnceEach(inq)'
    BY <1>1, <1>2, <1>4, <1>6, KmcinpStep
<1>8. LineInvs(Now', x, rbuf) /\ Given(Now') = Given(Now)
    BY <1>7, LinesSame
<1>9. LinesInv'
  <2>1. SUFFICES ASSUME NEW j \in Lines PROVE LineInv(Now', j, y[j], rbuf[j])
      BY <1>1 DEF LinesInv, LineInvs
  <2>2. LineInv(Now', j, x[j], rbuf[j])
      BY <1>8 DEF LineInvs
  <2> DEFINE q == Row(Now', j, FALSE)
  <2>3. TxRow(x[j], q) /\ q \in Seq(TxPlace)
      BY <2>2 DEF LineInv, TxRow
  <2> HIDE DEF q
  <2>4. ASSUME NEW k \in 1 .. Len(q) PROVE y[j][q[k][1]] = x[j][q[k][1]]
    <3>1. q[k] \in TxPlace
        BY <2>3, ElementOfSeq
    <3>2. q[k][1] \in TxLists /\ x[j][q[k][1]] # 0
        BY <2>3, <3>1 DEF TxPlace, TxRow
    <3> QED BY <1>1, <1>3, <3>2
  <2>5. TxRow(y[j], q)
      BY <2>3, <2>4, TxRowOther
  <2> QED BY <2>2, <2>5 DEF LineInv, q
<1>10. MsgsInv'
  <2>1. SUFFICES Owns(y, m)
      BY <1>1 DEF MsgsInv
  <2>2. m = msgs + 1
      BY DEF m
  <2>3. SUFFICES ASSUME NEW j \in Lines, NEW o \in TxLists
                 PROVE  /\ y[j][o] <= m
                        /\ \A p \in TxLists : y[j][o] = y[j][p] /\ y[j][o] # 0 => o = p
      BY DEF Owns
  <2>4. \A p \in TxLists : /\ x[j][p] <= msgs /\ x[j][p] \in Nat
                           /\ x[j][o] = x[j][p] /\ x[j][o] # 0 => o = p
    <3>1. Msgs \cup {0} \subseteq Nat
        BY KmcAssumption
    <3>2. \A p \in TxLists : x[j][p] \in Msgs \cup {0}
        OBVIOUS
    <3> QED BY <3>1, <3>2 DEF Owns
  <2>5. ASSUME NEW p \in TxLists PROVE x[j][p] # m /\ x[j][p] <= m
    <3>1. x[j][p] <= msgs /\ x[j][p] \in Nat
        BY <2>4
    <3> DEFINE v == x[j][p]
    <3> HIDE DEF v
    <3>2. v <= msgs /\ v \in Nat
        BY <3>1 DEF v
    <3>3. v # m /\ v <= m
        BY <1>1, <2>2, <3>2
    <3> QED BY <3>3 DEF v
  <2> QED BY <1>1, <1>3, <2>4, <2>5
<1>11. Places(Keys(todo), Keys(Entries) \cup {<<i, l>>}, {}, Given(Now), B, y, rbuf)
  <2> DEFINE T == Keys(todo)
             E == Keys(Entries)
             G == Given(Now)
             e == <<i, l>>
  <2>1. Places(T, E, {}, G, B, x, rbuf) /\ e \notin T \cup E \cup G \cup B
      BY <1>6
  <2>2. /\ G \subseteq Lines \X (TxLists \cup RxLists)
        /\ y[e[1]][e[2]] # 0 /\ e[2] \in TxLists /\ e[2] \notin RxLists
      BY <1>1, <1>3, <1>5, KmcAssumption DEF Given
  <2>3. \A p : p[2] \in TxLists /\ x[p[1]][p[2]] # 0 /\ p[1] \in Lines => y[p[1]][p[2]] # 0
      BY <1>1, <1>3
  <2>4. \A p \in E : p[1] \in Lines
    <3>1. \A o \in Entries : o \in Commands
        BY ElementOfSeq DEF SysTypes, Entries, Elems
    <3> QED BY <3>1, CommandIs DEF Keys, Key
  <2>5. \A p \in G \cup B : p[1] \in Lines
      BY DEF Given
  <2>6. \A p \in E \cup G \cup B : p[2] \in TxLists => y[p[1]][p[2]] # 0
      BY <2>1, <2>3, <2>4, <2>5 DEF Places
  <2>7. \A p \in E : p[2] \in RxLists => rbuf[p[1]][p[2]] = None
      BY <2>1 DEF Places
  <2> HIDE DEF T, E, G, e
  <2>8. /\ T \cap (E \cup {e} \cup G \cup B) = {} /\ (E \cup {e}) \cap (G \cup B) = {}
        /\ G \cap B = {}
      BY <2>1 DEF Places
  <2>9. Places(T, E \cup {e}, {}, G, B, y, rbuf)
      BY <2>2, <2>6, <2>7, <2>8 DEF Places
  <2> QED BY <2>9 DEF T, E, G, e
<1> QED BY <1>1, <1>3, <1>7, <1>8, <1>9, <1>10, <1>11 DEF NetInv

\* The parts of the invariant, outside KMCVCA.
LEMMA NoneInHand ==
  ASSUME SysInv, hpc \in {"off", "done"}
  PROVE  /\ Places(Keys(todo), Keys(Entries), {}, Given(Now), Back, xbd, rbuf) /\ OnceEach(inq)
         /\ Back \in SUBSET (Lines \X (TxLists \cup RxLists))
         /\ hpc = "off" => Back = {}
<1>1. InHand = {}
    BY DEF InHand
<1>2. ASSUME hpc = "done" PROVE hcmd.line \in Lines /\ hdesc[1] \in TxLists \cup RxLists
    BY <1>2 DEF SysInv, SysTypes, Command, TxPlace, RxPlace
<1>3. Back \in SUBSET (Lines \X (TxLists \cup RxLists)) /\ (hpc = "off" => Back = {})
    BY <1>2 DEF Back
<1> QED BY <1>1, <1>3 DEF SysInv, PlacesInv

\* The parts of the invariant after a step.
LEMMA NextOff ==
  ASSUME hpc' \in {"off", "done"}, NetInv', RegInv', LinesInv', MsgsInv', SysTypes', OnceEach(inq)',
         Places(Keys(todo)', Keys(Entries)', {}, Given(Now'), Back', xbd', rbuf')
  PROVE  SysInv'
<1>1. InHand' = {}
    BY DEF InHand
<1>2. Given(Now)' = Given(Now')
    OBVIOUS
<1> QED BY <1>1, <1>2 DEF SysInv, PlacesInv

LEMMA MSendStep ==
  ASSUME SysInv, NEW i \in Lines, NEW l \in TxLists, MSend(i, l)
  PROVE  SysInv' /\ SameRows(Now, Now')
<1>1. /\ SysTypes /\ NetInv /\ RegInv /\ LineInvs(Now, xbd, rbuf) /\ Owns(xbd, msgs)
      /\ xbd \in [Lines -> [TxLists -> Msgs \cup {0}]]
    BY DEF SysInv, LinesInv, MsgsInv, SysTypes
<1>2. /\ SendOn(i, l, xbd) /\ hpc = "off" /\ hpc' = "off"
      /\ UNCHANGED <<rbuf, todo>> /\ UNCHANGED <<hcmd, hdesc, up>>
    BY DEF MSend, Main
<1>3. /\ Places(Keys(todo), Keys(Entries), {}, Given(Now), {}, xbd, rbuf) /\ OnceEach(inq)
      /\ Back' = {}
    BY <1>2, NoneInHand DEF Back
<1>4. /\ Now' \in Works(TxLists) /\ SameRows(Now, Now') /\ RegInv' /\ NetInv'
      /\ inq' \in Seq(Commands) /\ msgs' \in Nat
      /\ xbd' \in [Lines -> [TxLists -> Msgs \cup {0}]]
      /\ LinesInv' /\ MsgsInv' /\ OnceEach(inq)'
      /\ Places(Keys(todo)', Keys(Entries)', {}, Given(Now'), {}, xbd', rbuf')
    BY <1>1, <1>2, <1>3, SendOnStep
<1>5. SysTypes'
    BY <1>1, <1>2, <1>4 DEF SysTypes
<1> QED BY <1>2, <1>3, <1>4, <1>5, NextOff

LEMMA BReplyStep ==
  ASSUME SysInv, BReply
  PROVE  SysInv' /\ SameRows(Now, Now')
<1>1. /\ SysTypes /\ NetInv /\ RegInv /\ LineInvs(Now, xbd, rbuf) /\ Owns(xbd, msgs)
      /\ xbd \in [Lines -> [TxLists -> Msgs \cup {0}]]
    BY DEF SysInv, LinesInv, MsgsInv, SysTypes
<1>2. /\ hpc = "done" /\ hpc' = "done" /\ hcmd.iot
      /\ UNCHANGED <<rbuf, todo>> /\ UNCHANGED <<hcmd, hdesc, up>>
    BY DEF BReply
<1>3. PICK l \in TxLists : SendOn(hcmd.line, l, xbd)
    BY DEF BReply
<1>4. hcmd.line \in Lines
    BY <1>1 DEF SysTypes, Command
<1>5. /\ Places(Keys(todo), Keys(Entries), {}, Given(Now), Back, xbd, rbuf) /\ OnceEach(inq)
      /\ Back' = Back /\ Back \in SUBSET (Lines \X (TxLists \cup RxLists))
    BY <1>2, NoneInHand DEF Back
<1>6. /\ Now' \in Works(TxLists) /\ SameRows(Now, Now') /\ RegInv' /\ NetInv'
      /\ inq' \in Seq(Commands) /\ msgs' \in Nat
      /\ xbd' \in [Lines -> [TxLists -> Msgs \cup {0}]]
      /\ LinesInv' /\ MsgsInv' /\ OnceEach(inq)'
      /\ Places(Keys(todo)', Keys(Entries)', {}, Given(Now'), Back, xbd', rbuf')
    BY <1>1, <1>2, <1>3, <1>4, <1>5, SendOnStep
<1>7. SysTypes'
    BY <1>1, <1>2, <1>6 DEF SysTypes
<1> QED BY <1>2, <1>5, <1>6, <1>7, NextOff

\* XMTDNE: nothing of the list is left anywhere.
LEMMA FreedParts ==
  ASSUME SysInv, hpc = "done", ~hcmd.iot, LastDesc(hcmd.line, hdesc)
  PROVE  /\ Freed \in [Lines -> [TxLists -> Msgs \cup {0}]]
         /\ LineInvs(Now, Freed, rbuf) /\ Owns(Freed, msgs)
         /\ Places(Keys(todo), Keys(Entries), {}, Given(Now), {}, Freed, rbuf)
<1> DEFINE i == hcmd.line
           l == hdesc[1]
           y == [xbd EXCEPT ![i][l] = 0]
<1>1. /\ i \in Lines /\ l \in TxLists /\ xbd \in [Lines -> [TxLists -> Msgs \cup {0}]]
      /\ Now \in Works(TxLists) /\ msgs \in Nat
    BY DEF SysInv, SysTypes, Command, TxPlace
<1>2. Freed = y
    BY DEF Freed
<1>3. Back = {<<i, l>>}
    BY DEF Back
<1> HIDE DEF i, l
<1>4. /\ y \in [Lines -> [TxLists -> Msgs \cup {0}]] /\ y[i][l] = 0
      /\ \A j \in Lines, o \in TxLists : <<j, o>> # <<i, l>> => y[j][o] = xbd[j][o]
    BY <1>1
<1> HIDE DEF y
<1>5. Places(Keys(todo), Keys(Entries), {}, Given(Now), {<<i, l>>}, xbd, rbuf)
    BY <1>3, NoneInHand
<1>6. Places(Keys(todo), Keys(Entries), {}, Given(Now), {}, y, rbuf)
  <2>1. \A o \in Entries : o \in Commands
      BY ElementOfSeq DEF SysInv, SysTypes, Entries, Elems
  <2>2. \A p \in Keys(Entries) : p[1] \in Lines /\ p = <<p[1], p[2]>>
      BY <2>1, CommandIs DEF Keys, Key
  <2>3. \A p \in Given(Now) : p[1] \in Lines /\ p = <<p[1], p[2]>>
      BY Pairs DEF Given
  <2>4. \A p \in Keys(Entries) \cup Given(Now) : p # <<i, l>>
      BY <1>5 DEF Places
  <2>5. \A p \in Keys(Entries) \cup Given(Now) : p[2] \in TxLists => y[p[1]][p[2]] # 0
      BY <1>4, <1>5, <2>2, <2>3, <2>4 DEF Places
  <2> QED BY <1>5, <2>5 DEF Places
<1>7. ASSUME NEW j \in Lines PROVE LineInv(Now, j, y[j], rbuf[j])
  <2>1. LineInv(Now, j, xbd[j], rbuf[j])
      BY DEF SysInv, LinesInv, LineInvs
  <2> DEFINE q == Row(Now, j, FALSE)
  <2>2. TxRow(xbd[j], q) /\ q \in Seq(TxPlace)
      BY <2>1 DEF LineInv, TxRow
  <2>3. j = i => Without(q, l)
    <3>1. <<i, l>> \notin Given(Now)
        BY <1>5 DEF Places
    <3> QED BY <1>1, <3>1, GivenIs
  <2> HIDE DEF q
  <2>4. ASSUME NEW k \in 1 .. Len(q) PROVE y[j][q[k][1]] = xbd[j][q[k][1]]
    <3>1. q[k] \in TxPlace
        BY <2>2, ElementOfSeq
    <3>2. q[k][1] \in TxLists /\ (j = i => q[k][1] # l)
        BY <2>3, <3>1 DEF TxPlace, Without
    <3> QED BY <1>4, <3>2
  <2>5. TxRow(y[j], q)
      BY <2>2, <2>4, TxRowOther
  <2> QED BY <2>1, <2>5 DEF LineInv, q
<1>8. Owns(y, msgs)
  <2>1. SUFFICES ASSUME NEW j \in Lines, NEW o \in TxLists
                 PROVE  /\ y[j][o] <= msgs
                        /\ \A p \in TxLists : y[j][o] = y[j][p] /\ y[j][o] # 0 => o = p
      BY DEF Owns
  <2>2. \A p \in TxLists : /\ xbd[j][p] <= msgs
                           /\ xbd[j][o] = xbd[j][p] /\ xbd[j][o] # 0 => o = p
      BY DEF SysInv, MsgsInv, Owns
  <2>3. \A p \in TxLists : y[j][p] = xbd[j][p] \/ y[j][p] = 0
      BY <1>4
  <2> QED BY <1>1, <2>2, <2>3
<1> QED BY <1>2, <1>4, <1>6, <1>7, <1>8 DEF LineInvs

LEMMA BSentStep ==
  ASSUME SysInv, BSent
  PROVE  SysInv' /\ SameRows(Now, Now')
<1>1. /\ SysTypes /\ NetInv /\ RegInv /\ Owns(xbd, msgs) /\ LineInvs(Now, xbd, rbuf)
      /\ xbd \in [Lines -> [TxLists -> Msgs \cup {0}]]
    BY DEF SysInv, MsgsInv, SysTypes, LinesInv
<1>2. /\ hpc = "done" /\ hpc' = "off" /\ ~hcmd.iot /\ hcmd' = NoCmd /\ hdesc' = None
      /\ UNCHANGED <<rbuf, todo, up>>
    BY DEF BSent, BEnd
<1>3. hcmd' \in Command /\ Back' = {} /\ hcmd.line \in Lines
  <2>1. Min(Lines) \in Lines
      BY KmcAssumption, MinIsLeast
  <2> QED BY <1>1, <1>2, <2>1 DEF NoCmd, Command, Back, SysTypes
<1>4. CASE xbd' = Freed /\ UNCHANGED <<kmc, dup, net, inq, msgs>>
  <2>1. Now' = Now
      BY <1>4 DEF Now, With
  <2>2. /\ Freed \in [Lines -> [TxLists -> Msgs \cup {0}]]
        /\ LineInvs(Now, Freed, rbuf) /\ Owns(Freed, msgs)
        /\ Places(Keys(todo), Keys(Entries), {}, Given(Now), {}, Freed, rbuf)
    <3>1. CASE LastDesc(hcmd.line, hdesc)
        BY <1>2, <3>1, FreedParts
    <3>2. CASE ~LastDesc(hcmd.line, hdesc)
      <4>1. Freed = xbd /\ Back = {}
          BY <1>2, <3>2 DEF Freed, Back
      <4> QED BY <1>1, <1>2, <4>1, NoneInHand
    <3> QED BY <3>1, <3>2
  <2>3. RegInv'
    <3>1. Regs(kmc', inq', hpc', hcmd', hdesc')
        BY <1>1, <1>2, <1>4 DEF RegInv, Regs
    <3> QED BY <1>1, <1>2, <1>4, <3>1 DEF RegInv, RequestPending
  <2>4. SysTypes' /\ NetInv' /\ LinesInv' /\ MsgsInv' /\ OnceEach(inq)'
      BY <1>1, <1>2, <1>3, <1>4, <2>1, <2>2, NoneInHand
         DEF SysTypes, NetInv, LinesInv, MsgsInv
  <2>5. Places(Keys(todo)', Keys(Entries)', {}, Given(Now'), Back', xbd', rbuf')
    <3>1. Keys(Entries)' = Keys(Entries) /\ Keys(todo)' = Keys(todo)
        BY <1>2, <1>4 DEF Entries
    <3> QED BY <1>2, <1>3, <1>4, <2>1, <2>2, <3>1
  <2>6. SameRows(Now, Now')
      BY <2>1 DEF SameRows
  <2> QED BY <1>2, <2>3, <2>4, <2>5, <2>6, NextOff
<1>5. CASE LastDesc(hcmd.line, hdesc) /\ \E l \in TxLists : SendOn(hcmd.line, l, Freed)
  <2>1. PICK l \in TxLists : SendOn(hcmd.line, l, Freed)
      BY <1>5
  <2>2. /\ Freed \in [Lines -> [TxLists -> Msgs \cup {0}]]
        /\ LineInvs(Now, Freed, rbuf) /\ Owns(Freed, msgs)
        /\ Places(Keys(todo), Keys(Entries), {}, Given(Now), {}, Freed, rbuf)
      BY <1>2, <1>5, FreedParts
  <2>3. OnceEach(inq)
      BY <1>2, NoneInHand
  <2> DEFINE x == Freed
             B == {}
  <2>4. /\ x \in [Lines -> [TxLists -> Msgs \cup {0}]]
        /\ LineInvs(Now, x, rbuf) /\ Owns(x, msgs) /\ SendOn(hcmd.line, l, x)
        /\ Places(Keys(todo), Keys(Entries), {}, Given(Now), B, x, rbuf)
        /\ B \in SUBSET (Lines \X (TxLists \cup RxLists))
      BY <2>1, <2>2
  <2> HIDE DEF x, B
  <2>5. /\ Now' \in Works(TxLists) /\ SameRows(Now, Now') /\ RegInv' /\ NetInv'
        /\ inq' \in Seq(Commands) /\ msgs' \in Nat
        /\ xbd' \in [Lines -> [TxLists -> Msgs \cup {0}]]
        /\ LinesInv' /\ MsgsInv' /\ OnceEach(inq)'
        /\ Places(Keys(todo)', Keys(Entries)', {}, Given(Now'), B, xbd', rbuf')
      BY <1>1, <1>2, <1>3, <2>3, <2>4, SendOnStep
  <2>6. SysTypes'
      BY <1>1, <1>2, <1>3, <2>5 DEF SysTypes
  <2> QED BY <1>2, <1>3, <2>5, <2>6, NextOff DEF B
<1> QED BY <1>4, <1>5 DEF BSent

\* A receive buffer that is given again is empty.
LEMMA EmptiedParts ==
  ASSUME NEW i \in Lines, NEW l \in RxLists,
         rbuf \in [Lines -> [RxLists -> Messages \cup {None}]],
         rbuf' = [rbuf EXCEPT ![i][l] = None]
  PROVE  /\ rbuf' \in [Lines -> [RxLists -> Messages \cup {None}]] /\ rbuf'[i][l] = None
         /\ \A j \in Lines, o \in RxLists : rbuf[j][o] = None => rbuf'[j][o] = None
         /\ \A w \in Works(TxLists) : \A x : LineInvs(w, x, rbuf) => LineInvs(w, x, rbuf')
<1>1. /\ rbuf' \in [Lines -> [RxLists -> Messages \cup {None}]] /\ rbuf'[i][l] = None
      /\ \A j \in Lines, o \in RxLists : rbuf[j][o] = None => rbuf'[j][o] = None
    OBVIOUS
<1>2. ASSUME NEW w \in Works(TxLists), NEW x, NEW j \in Lines, LineInv(w, j, x[j], rbuf[j])
      PROVE  LineInv(w, j, x[j], rbuf'[j])
  <2>1. \A k \in 1 .. Len(w.d[j].rxqueue) : w.d[j].rxqueue[k][1] \in RxLists
    <3>1. w.d[j].rxqueue \in Seq(RxDesc)
        BY DEF Works, DupBlocks, Blocks
    <3> QED BY <3>1, ElementOfSeq DEF RxDesc
  <2>2. w.d[j].rxnext \in Nat /\ Len(w.d[j].rxqueue) \in Nat
      BY LenProperties DEF Works, DupBlocks, Blocks
  <2>3. Vacant(w.d[j], rbuf[j]) => Vacant(w.d[j], rbuf'[j])
    <3>1. \A k \in w.d[j].rxnext + 1 .. Len(w.d[j].rxqueue) : k \in 1 .. Len(w.d[j].rxqueue)
        BY <2>2
    <3> QED BY <1>1, <2>1, <3>1 DEF Vacant
  <2> QED BY <1>2, <2>3 DEF LineInv
<1> QED BY <1>1, <1>2 DEF LineInvs

LEMMA BReceivedStep ==
  ASSUME SysInv, BReceived
  PROVE  SysInv' /\ SameRows(Now, Now')
<1> DEFINE c == [line |-> hcmd.line, iot |-> TRUE, buf |-> TRUE, desc |-> hdesc]
           i == hcmd.line
           l == hdesc[1]
<1>1. /\ SysTypes /\ NetInv /\ RegInv /\ Owns(xbd, msgs) /\ LineInvs(Now, xbd, rbuf)
      /\ xbd \in [Lines -> [TxLists -> Msgs \cup {0}]]
    BY DEF SysInv, MsgsInv, SysTypes, LinesInv
<1>2. /\ hpc = "done" /\ hpc' = "off" /\ hcmd.iot /\ hcmd' = NoCmd /\ hdesc' = None
      /\ UNCHANGED <<xbd, msgs, todo, up>> /\ Kmcinp(c) /\ rbuf' = [rbuf EXCEPT ![i][l] = None]
    BY DEF BReceived, BEnd
<1>3. hcmd' \in Command /\ Back' = {} /\ i \in Lines /\ hdesc \in RxPlace /\ l \in RxLists
  <2>1. Min(Lines) \in Lines
      BY KmcAssumption, MinIsLeast
  <2> QED BY <1>1, <1>2, <2>1 DEF NoCmd, Command, Back, SysTypes, RxPlace
<1>4. c \in Commands /\ Keys({c}) = {<<i, l>>}
  <2>1. c \in Commands /\ c.buf /\ Key(c) = <<i, l>>
      BY <1>3 DEF Commands, Startup, RxPlace, Key
  <2> HIDE DEF c
  <2> QED BY <2>1, KeysOf
<1>5. Back = {<<i, l>>}
    BY <1>2 DEF Back
<1>6. /\ Places(Keys(todo), Keys(Entries), {}, Given(Now), {<<i, l>>}, xbd, rbuf)
      /\ OnceEach(inq)
    BY <1>2, <1>5, NoneInHand
<1> HIDE DEF c, i, l
<1>7. Keys(Entries) \cap Keys({c}) = {}
    BY <1>4, <1>6 DEF Places
<1>8. /\ Now' \in Works(TxLists) /\ SameRows(Now, Now') /\ RegInv' /\ UNCHANGED net
      /\ inq' \in Seq(Commands) /\ Keys(Entries)' = Keys(Entries) \cup {<<i, l>>}
      /\ OnceEach(inq)'
    BY <1>1, <1>2, <1>4, <1>6, <1>7, KmcinpStep
<1>9. LineInvs(Now', xbd, rbuf) /\ Given(Now') = Given(Now)
    BY <1>1, <1>8, LinesSame
<1>10. /\ rbuf' \in [Lines -> [RxLists -> Messages \cup {None}]] /\ rbuf'[i][l] = None
       /\ \A j \in Lines, o \in RxLists : rbuf[j][o] = None => rbuf'[j][o] = None
       /\ LineInvs(Now', xbd, rbuf')
    BY <1>1, <1>2, <1>3, <1>8, <1>9, EmptiedParts DEF NetInv
<1>11. Places(Keys(todo), Keys(Entries) \cup {<<i, l>>}, {}, Given(Now), {}, xbd, rbuf')
  <2> DEFINE T == Keys(todo)
             E == Keys(Entries)
             G == Given(Now)
             e == <<i, l>>
  <2>1. Places(T, E, {}, G, {e}, xbd, rbuf)
      BY <1>6
  <2>2. \A p \in E : p[1] \in Lines
    <3>1. \A o \in Entries : o \in Commands
        BY <1>1, ElementOfSeq DEF SysTypes, Entries, Elems
    <3> QED BY <3>1, CommandIs DEF Keys, Key
  <2>3. e[1] = i /\ e[2] = l
      OBVIOUS
  <2>4. /\ \A p \in E \cup {e} \cup G : p[2] \in TxLists => xbd[p[1]][p[2]] # 0
        /\ \A p \in E \cup {e} : p[2] \in RxLists => rbuf'[p[1]][p[2]] = None
      BY <1>3, <1>10, <2>1, <2>2, <2>3 DEF Places
  <2> HIDE DEF T, E, G, e
  <2>5. T \cap (E \cup {e} \cup G) = {} /\ (E \cup {e}) \cap G = {}
      BY <2>1 DEF Places
  <2>6. Places(T, E \cup {e}, {}, G, {}, xbd, rbuf')
      BY <2>4, <2>5 DEF Places
  <2> QED BY <2>6 DEF T, E, G, e
<1>12. SysTypes' /\ NetInv' /\ LinesInv' /\ MsgsInv'
    BY <1>1, <1>2, <1>3, <1>8, <1>10 DEF SysTypes, NetInv, LinesInv, MsgsInv
<1>13. Places(Keys(todo)', Keys(Entries)', {}, Given(Now'), Back', xbd', rbuf')
    BY <1>2, <1>3, <1>8, <1>9, <1>11
<1> QED BY <1>2, <1>8, <1>12, <1>13, NextOff

\* Commands of COMINI are of different buffers.
LEMMA StartupIs ==
  ASSUME NEW c \in Startup
  PROVE  (c.buf <=> c.iot) /\ (c.buf => c.desc \in RxLists \X {1} /\ c.desc = <<c.desc[1], 1>>)
<1>1. \/ c \in [line : Lines, iot : {FALSE}, buf : {FALSE}, desc : {None}]
      \/ c \in [line : Lines, iot : {TRUE}, buf : {TRUE}, desc : RxLists \X {1}]
    BY DEF Startup, Setup
<1>2. CASE c \in [line : Lines, iot : {FALSE}, buf : {FALSE}, desc : {None}]
    BY <1>2
<1>3. CASE c \in [line : Lines, iot : {TRUE}, buf : {TRUE}, desc : RxLists \X {1}]
  <2>1. c.buf = TRUE /\ c.iot = TRUE /\ c.desc \in RxLists \X {1}
      BY <1>3
  <2>2. \A e \in RxLists \X {1} : e = <<e[1], e[2]>> /\ e[2] = 1
      BY Pairs
  <2> QED BY <2>1, <2>2
<1> QED BY <1>1, <1>2, <1>3

LEMMA StartupKeys ==
  ASSUME NEW c \in Startup, NEW o \in Startup, c.buf, o.buf, Key(c) = Key(o)
  PROVE  c = o
<1>1. ASSUME NEW b \in Startup, b.buf
      PROVE  /\ b.desc = <<b.desc[1], 1>>
             /\ b = [line |-> b.line, iot |-> TRUE, buf |-> TRUE, desc |-> b.desc]
  <2>1. b \in [line : Lines, iot : {TRUE}, buf : {TRUE}, desc : RxLists \X {1}]
      BY <1>1 DEF Startup, Setup
  <2> QED BY <1>1, <2>1, StartupIs
<1>2. c.line = o.line /\ c.desc[1] = o.desc[1]
    BY DEF Key
<1>3. c.desc = o.desc
    BY <1>1, <1>2
<1>4. /\ c = [line |-> c.line, iot |-> TRUE, buf |-> TRUE, desc |-> c.desc]
      /\ o = [line |-> o.line, iot |-> TRUE, buf |-> TRUE, desc |-> o.desc]
    BY <1>1
<1> QED BY <1>2, <1>3, <1>4, Zenon

LEMMA MInitStep ==
  ASSUME SysInv, MInit
  PROVE  SysInv' /\ SameRows(Now, Now')
<1>1. /\ SysTypes /\ NetInv /\ RegInv /\ Owns(xbd, msgs) /\ LineInvs(Now, xbd, rbuf)
      /\ xbd \in [Lines -> [TxLists -> Msgs \cup {0}]] /\ todo \subseteq Startup
    BY DEF SysInv, MsgsInv, SysTypes, LinesInv
<1>2. PICK c \in todo :
        /\ Kmcinp(c) /\ todo' = todo \ {c}
        /\ rbuf' = IF c.iot THEN [rbuf EXCEPT ![c.line][c.desc[1]] = None] ELSE rbuf
    BY DEF MInit
<1>3. /\ hpc = "off" /\ hpc' = "off" /\ UNCHANGED <<hcmd, hdesc>> /\ UNCHANGED <<xbd, up, msgs>>
    BY DEF MInit, Main
<1>4. /\ Places(Keys(todo), Keys(Entries), {}, Given(Now), {}, xbd, rbuf) /\ OnceEach(inq)
      /\ Back' = {}
    BY <1>3, NoneInHand DEF Back
<1>5. c \in Commands /\ c \in Startup
    BY <1>1 DEF Commands
<1>6. /\ Keys({c}) \subseteq Keys(todo) /\ Keys(todo') \subseteq Keys(todo)
      /\ Keys(todo') \cap Keys({c}) = {}
  <2>1. {c} \subseteq todo /\ todo' \subseteq todo
      BY <1>2
  <2>2. Keys({c}) \subseteq Keys(todo) /\ Keys(todo') \subseteq Keys(todo)
      BY <2>1, KeysOf
  <2>3. ASSUME NEW p \in Keys(todo'), p \in Keys({c}) PROVE FALSE
    <3>1. PICK o \in todo' : o.buf /\ p = Key(o)
        BY KeysOf
    <3>2. c.buf /\ p = Key(c)
        BY <2>3, KeysOf
    <3> QED BY <1>1, <1>2, <1>5, <3>1, <3>2, StartupKeys
  <2> QED BY <2>2, <2>3
<1>7. Keys(Entries) \cap Keys({c}) = {}
    BY <1>4, <1>6 DEF Places
<1>8. /\ Now' \in Works(TxLists) /\ SameRows(Now, Now') /\ RegInv' /\ UNCHANGED net
      /\ inq' \in Seq(Commands) /\ Keys(Entries)' = Keys(Entries) \cup Keys({c})
      /\ OnceEach(inq)'
    BY <1>1, <1>2, <1>3, <1>4, <1>5, <1>7, KmcinpStep
<1>9. LineInvs(Now', xbd, rbuf) /\ Given(Now') = Given(Now)
    BY <1>1, <1>8, LinesSame
<1>10. /\ rbuf' \in [Lines -> [RxLists -> Messages \cup {None}]]
       /\ \A j \in Lines, o \in RxLists : rbuf[j][o] = None => rbuf'[j][o] = None
       /\ LineInvs(Now', xbd, rbuf')
       /\ \A p \in Keys({c}) : p[2] \notin TxLists /\ rbuf'[p[1]][p[2]] = None
  <2>1. CASE c.iot
    <3> DEFINE i == c.line
               l == c.desc[1]
    <3>1. i \in Lines /\ l \in RxLists /\ c.buf /\ Key(c) = <<i, l>>
        BY <1>5, <2>1, CommandIs DEF RxPlace, Key
    <3>2. Keys({c}) = {<<i, l>>}
        BY <3>1, KeysOf
    <3>3. rbuf' = [rbuf EXCEPT ![i][l] = None]
        BY <1>2, <2>1
    <3> HIDE DEF i, l
    <3>4. rbuf \in [Lines -> [RxLists -> Messages \cup {None}]]
        BY <1>1 DEF NetInv
    <3>5. /\ rbuf' \in [Lines -> [RxLists -> Messages \cup {None}]] /\ rbuf'[i][l] = None
          /\ \A j \in Lines, o \in RxLists : rbuf[j][o] = None => rbuf'[j][o] = None
          /\ LineInvs(Now', xbd, rbuf')
        BY <1>8, <1>9, <3>1, <3>3, <3>4, EmptiedParts
    <3>6. l \notin TxLists
        BY <3>1, KmcAssumption
    <3>7. ASSUME NEW p \in Keys({c}) PROVE p[2] \notin TxLists /\ rbuf'[p[1]][p[2]] = None
      <4>1. p = <<i, l>> /\ p[1] = i /\ p[2] = l
          BY <3>2
      <4> QED BY <3>5, <3>6, <4>1
    <3> QED BY <3>5, <3>7
  <2>2. CASE ~c.iot
    <3>1. ~c.buf
        BY <1>5, <2>2, StartupIs
    <3>2. Keys({c}) = {}
        BY <3>1, KeysOf
    <3> QED BY <1>1, <1>2, <1>9, <2>2, <3>2 DEF NetInv
  <2> QED BY <2>1, <2>2
<1>11. Places(Keys(todo'), Keys(Entries) \cup Keys({c}), {}, Given(Now), {}, xbd, rbuf')
  <2> DEFINE T == Keys(todo)
             U == Keys(todo')
             E == Keys(Entries)
             G == Given(Now)
             e == Keys({c})
  <2>1. Places(T, E, {}, G, {}, xbd, rbuf) /\ e \subseteq T /\ U \subseteq T /\ U \cap e = {}
      BY <1>4, <1>6
  <2>2. \A p \in E : p[1] \in Lines
    <3>1. \A o \in Entries : o \in Commands
        BY <1>1, ElementOfSeq DEF SysTypes, Entries, Elems
    <3> QED BY <3>1, CommandIs DEF Keys, Key
  <2>3. /\ \A p \in E \cup e \cup G : p[2] \in TxLists => xbd[p[1]][p[2]] # 0
        /\ \A p \in E \cup e : p[2] \in RxLists => rbuf'[p[1]][p[2]] = None
      BY <1>10, <2>1, <2>2 DEF Places
  <2> HIDE DEF T, U, E, G, e
  <2>4. U \cap (E \cup e \cup G) = {} /\ (E \cup e) \cap G = {}
      BY <2>1 DEF Places
  <2>5. Places(U, E \cup e, {}, G, {}, xbd, rbuf')
      BY <2>3, <2>4 DEF Places
  <2> QED BY <2>5 DEF T, U, E, G, e
<1>12. SysTypes' /\ NetInv' /\ LinesInv' /\ MsgsInv'
    BY <1>1, <1>2, <1>3, <1>8, <1>10 DEF SysTypes, NetInv, LinesInv, MsgsInv
<1>13. Places(Keys(todo)', Keys(Entries)', {}, Given(Now'), Back', xbd', rbuf')
    BY <1>3, <1>4, <1>8, <1>9, <1>11
<1> QED BY <1>3, <1>8, <1>12, <1>13, NextOff

LEMMA MHaltStep ==
  ASSUME SysInv, MHalt
  PROVE  SysInv' /\ SameRows(Now, Now')
<1>1. /\ SysTypes /\ NetInv /\ RegInv /\ LineInvs(Now, xbd, rbuf)
    BY DEF SysInv, LinesInv
<1>2. /\ hpc = "off" /\ hpc' = "off" /\ UNCHANGED <<hcmd, hdesc>> /\ up' = FALSE
      /\ UNCHANGED <<xbd, rbuf, todo, inq, msgs>> /\ WriteSel0(kmc.sel0 \ {"RUN"})
    BY DEF MHalt, Main
<1> DEFINE bits == kmc.sel0 \ {"RUN"}
<1>3. /\ bits \in SUBSET (Sel0Bits \ {"MRC"})
      /\ "IEI" \in bits <=> "IEO" \in bits
      /\ kmc.int # {} => "IEI" \in bits
    BY <1>1, SysParts DEF RegInv, Regs, KmcBlocks
<1>4. ASSUME NEW k, k.sel0 = bits, k.sel2 = kmc.sel2, k.sel46 = kmc.sel46
      PROVE  Regs(k, inq', hpc', hcmd', hdesc')
    BY <1>1, <1>2, <1>4 DEF RegInv, Regs
<1> HIDE DEF bits
<1>5. Now' \in Works(TxLists) /\ SameRows(Now, Now') /\ RegInv' /\ UNCHANGED net
    BY <1>1, <1>2, <1>3, <1>4, Sel0Step DEF bits
<1>6. LineInvs(Now', xbd, rbuf) /\ Given(Now') = Given(Now)
    BY <1>1, <1>5, LinesSame
<1>7. /\ Places(Keys(todo), Keys(Entries), {}, Given(Now), {}, xbd, rbuf) /\ OnceEach(inq)
      /\ Back' = {} /\ Keys(Entries)' = Keys(Entries)
    BY <1>2, NoneInHand DEF Back, Entries
<1>8. SysTypes' /\ NetInv' /\ LinesInv' /\ MsgsInv'
    BY <1>1, <1>2, <1>5, <1>6 DEF SysTypes, NetInv, LinesInv, MsgsInv, SysInv
<1>9. Places(Keys(todo)', Keys(Entries)', {}, Given(Now'), Back', xbd', rbuf') /\ OnceEach(inq)'
    BY <1>2, <1>6, <1>7
<1> QED BY <1>2, <1>5, <1>8, <1>9, NextOff

\* A step after which every list is where it was.
LEMMA QuietStep ==
  ASSUME SysInv, Now' \in Works(TxLists), SameRows(Now, Now'), RegInv',
         UNCHANGED <<net, xbd, rbuf, todo, inq, msgs, up>>, InHand' = InHand, Back' = Back,
         hpc' \in {"off", "A", "sel6", "sel2", "sel4", "ack", "done"},
         hcmd' \in Command, hpc' \in {"sel6", "sel2"} => hcmd' \in Commands,
         hpc' = "done" => hdesc' \in (IF hcmd'.iot THEN RxPlace ELSE TxPlace)
  PROVE  SysInv'
<1>1. LineInvs(Now', xbd, rbuf) /\ Given(Now') = Given(Now)
    BY LinesSame DEF SysInv, LinesInv
<1>2. LinesInv'
    BY <1>1 DEF LinesInv
<1>3. SysTypes' /\ NetInv' /\ MsgsInv'
    BY DEF SysInv, SysTypes, NetInv, MsgsInv
<1>4. Keys(Entries)' = Keys(Entries) /\ Keys(todo)' = Keys(todo)
    BY DEF Entries
<1>5. PlacesInv'
  <2>1. Places(Keys(todo), Keys(Entries), InHand, Given(Now), Back, xbd, rbuf) /\ OnceEach(inq)
      BY DEF SysInv, PlacesInv
  <2>2. Places(Keys(todo)', Keys(Entries)', InHand', Given(Now'), Back', xbd', rbuf')
      BY <1>1, <1>4, <2>1
  <2> QED BY <2>1, <2>2 DEF PlacesInv
<1> QED BY <1>2, <1>3, <1>5 DEF SysInv

\* A request is taken.
LEMMA TakeStep ==
  ASSUME SysTypes, NEW r, Take(r)
  PROVE  /\ Now' \in Works(TxLists) /\ SameRows(Now, Now') /\ UNCHANGED net
         /\ r \in kmc.int /\ kmc'.int = kmc.int \ {r}
         /\ kmc'.sel0 = kmc.sel0 /\ kmc'.sel2 = kmc.sel2 /\ kmc'.sel46 = kmc.sel46
<1> DEFINE n == kmc.int \ {r}
<1>1. kmc \in KmcBlocks(TxLists) /\ dup \in [Lines -> DupBlocks(TxLists)]
    BY SysParts
<1>2. /\ r \in kmc.int /\ n \subseteq {"KMCA", "KMCB"}
      /\ kmc' = [kmc EXCEPT !.int = n] /\ dup' = dup /\ net' = net
    BY <1>1 DEF Take, KmcBlocks
<1> HIDE DEF n
<1>3. /\ kmc' \in KmcBlocks(TxLists) /\ kmc'.int = n
      /\ kmc'.sel0 = kmc.sel0 /\ kmc'.sel2 = kmc.sel2 /\ kmc'.sel46 = kmc.sel46
    BY <1>1, <1>2 DEF KmcBlocks
<1>4. Now' \in Works(TxLists) /\ Now'.k = kmc' /\ Now'.d = dup
    BY <1>1, <1>2, <1>3 DEF Now, With, Works
<1>5. SameRows(Now, Now')
    BY <1>3, <1>4, SysParts, UntouchedRows
<1> QED BY <1>2, <1>3, <1>4, <1>5 DEF n

LEMMA ATakeStep ==
  ASSUME SysInv, ATake
  PROVE  SysInv' /\ SameRows(Now, Now')
<1>1. SysTypes /\ RegInv
    BY DEF SysInv
<1>2. /\ hpc = "off" /\ hpc' = "A" /\ UNCHANGED <<xbd, rbuf, todo, inq, hcmd, hdesc, up, msgs>>
      /\ Take("KMCA")
    BY DEF ATake
<1>3. /\ Now' \in Works(TxLists) /\ SameRows(Now, Now') /\ UNCHANGED net
      /\ "KMCA" \in kmc.int /\ kmc'.int = kmc.int \ {"KMCA"}
      /\ kmc'.sel0 = kmc.sel0 /\ kmc'.sel2 = kmc.sel2 /\ kmc'.sel46 = kmc.sel46
    BY <1>1, <1>2, TakeStep
<1>4. RegInv'
  <2>1. Regs(kmc', inq', hpc', hcmd', hdesc')
      BY <1>1, <1>2, <1>3 DEF RegInv, Regs
  <2> QED BY <1>1, <1>2, <1>3, <2>1 DEF RegInv, RequestPending
<1>5. InHand' = InHand /\ Back' = Back /\ hcmd' \in Command
    BY <1>1, <1>2 DEF InHand, Back, SysTypes
<1> QED BY <1>2, <1>3, <1>4, <1>5, QuietStep

LEMMA BTakeStep ==
  ASSUME SysInv, BTake
  PROVE  SysInv' /\ SameRows(Now, Now')
<1>1. SysTypes /\ RegInv /\ kmc.sel2 \in Sel2
    BY SysParts DEF SysInv
<1>2. /\ hpc = "off" /\ UNCHANGED <<xbd, rbuf, todo, inq, hdesc, up, msgs>> /\ Take("KMCB")
    BY DEF BTake
<1>3. /\ Now' \in Works(TxLists) /\ SameRows(Now, Now') /\ UNCHANGED net
      /\ "KMCB" \in kmc.int /\ kmc'.int = kmc.int \ {"KMCB"}
      /\ kmc'.sel0 = kmc.sel0 /\ kmc'.sel2 = kmc.sel2 /\ kmc'.sel46 = kmc.sel46
    BY <1>1, <1>2, TakeStep
<1> DEFINE c == [NoCmd EXCEPT !.line = kmc.sel2.line, !.iot = kmc.sel2.iot]
<1>4. kmc.sel2.rdo /\ hpc' = "sel4" /\ hcmd' = c
    BY <1>1, <1>3 DEF BTake, RegInv
<1>5. c \in Command /\ c.line = kmc.sel2.line /\ c.iot = kmc.sel2.iot
    BY <1>1 DEF NoCmd, Command, Sel2
<1> HIDE DEF c
<1>6. RegInv'
  <2>1. Regs(kmc', inq', hpc', hcmd', hdesc')
      BY <1>1, <1>2, <1>3, <1>4, <1>5 DEF RegInv, Regs
  <2> QED BY <1>1, <1>2, <1>3, <1>4, <2>1 DEF RegInv, RequestPending
<1>7. InHand' = InHand /\ Back' = Back
    BY <1>2, <1>4 DEF InHand, Back
<1> QED BY <1>2, <1>3, <1>4, <1>5, <1>6, <1>7, QuietStep

LEMMA BSel46Step ==
  ASSUME SysInv, BSel46
  PROVE  SysInv' /\ SameRows(Now, Now')
<1>1. SysTypes /\ RegInv
    BY DEF SysInv
<1>2. /\ hpc = "sel4" /\ hpc' = "ack" /\ hdesc' = kmc.sel46
      /\ UNCHANGED <<kmc, dup, xbd, rbuf, net>> /\ UNCHANGED <<todo, inq, hcmd, up, msgs>>
    BY DEF BSel46, kdpvars
<1>3. Now' = Now /\ Now' \in Works(TxLists) /\ SameRows(Now, Now')
    BY <1>1, <1>2 DEF Now, With, SysTypes, SameRows
<1>4. RegInv'
  <2>1. Regs(kmc', inq', hpc', hcmd', hdesc')
      BY <1>1, <1>2 DEF RegInv, Regs
  <2> QED BY <1>1, <1>2, <2>1 DEF RegInv, RequestPending
<1>5. InHand' = InHand /\ Back' = Back /\ hcmd' \in Command
    BY <1>1, <1>2 DEF InHand, Back, SysTypes
<1> QED BY <1>2, <1>3, <1>4, <1>5, QuietStep

\* The next command is taken, the request for input withdrawn with the last.
LEMMA ANextStep ==
  ASSUME SysInv, ANext
  PROVE  SysInv' /\ SameRows(Now, Now')
<1>1. SysTypes /\ RegInv /\ NetInv /\ MsgsInv /\ LineInvs(Now, xbd, rbuf)
    BY DEF SysInv, LinesInv
<1>2. /\ hpc = "A" /\ hpc' = "sel6" /\ inq # <<>> /\ hcmd' = Head(inq) /\ inq' = Tail(inq)
      /\ IF Tail(inq) = <<>> THEN WriteSel0(kmc.sel0 \ {"RQI"}) ELSE UNCHANGED <<kmc, dup, net>>
      /\ UNCHANGED <<xbd, rbuf, todo, hdesc, up, msgs>>
    BY DEF ANext
<1>3. /\ hcmd' \in Commands /\ inq' \in Seq(Commands) /\ Elems(inq) = Elems(inq') \cup {hcmd'}
      /\ OnceEach(inq) => OnceEach(inq') /\ Keys(Elems(inq')) \cap Keys({hcmd'}) = {}
    BY <1>1, <1>2, QueueTake DEF SysTypes
<1>4. Now' \in Works(TxLists) /\ SameRows(Now, Now') /\ RegInv' /\ UNCHANGED net
  <2>1. CASE Tail(inq) = <<>>
    <3> DEFINE bits == kmc.sel0 \ {"RQI"}
    <3>1. /\ bits \in SUBSET (Sel0Bits \ {"MRC"})
          /\ "IEI" \in bits <=> "IEO" \in bits
          /\ kmc.int # {} => "IEI" \in bits
        BY <1>1, SysParts DEF RegInv, Regs, KmcBlocks
    <3>2. ASSUME NEW k, k.sel0 = bits, k.sel2 = kmc.sel2, k.sel46 = kmc.sel46
          PROVE  Regs(k, inq', hpc', hcmd', hdesc')
        BY <1>1, <1>2, <3>2 DEF RegInv, Regs
    <3>3. WriteSel0(bits)
        BY <1>2, <2>1
    <3> HIDE DEF bits
    <3> QED BY <1>1, <3>1, <3>2, <3>3, Sel0Step
  <2>2. CASE Tail(inq) # <<>>
    <3>1. Now' = Now /\ UNCHANGED net
        BY <1>2, <2>2 DEF Now, With
    <3>2. Regs(kmc', inq', hpc', hcmd', hdesc')
        BY <1>1, <1>2, <2>2 DEF RegInv, Regs
    <3>3. RegInv'
        BY <1>1, <1>2, <2>2, <3>2 DEF RegInv, RequestPending
    <3> QED BY <1>1, <3>1, <3>3 DEF SysTypes, SameRows
  <2> QED BY <2>1, <2>2
<1>5. LineInvs(Now', xbd, rbuf) /\ Given(Now') = Given(Now)
    BY <1>1, <1>4, LinesSame
<1>6. LinesInv' /\ NetInv' /\ MsgsInv'
    BY <1>1, <1>2, <1>4, <1>5 DEF LinesInv, NetInv, MsgsInv
<1>7. SysTypes'
    BY <1>1, <1>2, <1>3, <1>4, CommandIs DEF SysTypes
<1>8. PlacesInv'
  <2>1. /\ Places(Keys(todo), Keys(Entries), {}, Given(Now), {}, xbd, rbuf) /\ OnceEach(inq)
    <3>1. InHand = {} /\ Back = {}
        BY <1>2 DEF InHand, Back
    <3> QED BY <3>1 DEF SysInv, PlacesInv
  <2>2. /\ InHand' = Keys({hcmd'}) /\ Back' = {} /\ Keys(todo)' = Keys(todo)
        /\ Keys(Entries)' = Keys(Elems(inq'))
      BY <1>2 DEF InHand, Back, Entries
  <2> DEFINE E == Keys(Elems(inq'))
             H == Keys({hcmd'})
             T == Keys(todo)
             G == Given(Now)
  <2>3. Places(T, E \cup H, {}, G, {}, xbd, rbuf) /\ E \cap H = {}
    <3>1. Keys(Elems(inq') \cup {hcmd'}) = E \cup H
        BY KeysOf
    <3>2. Keys(Entries) = E \cup H
        BY <1>3, <3>1 DEF Entries
    <3> HIDE DEF E, H
    <3> QED BY <1>3, <2>1, <3>2 DEF E, H
  <2> HIDE DEF E, H, T, G
  <2>4. Places(T, E, H, G, {}, xbd, rbuf)
      BY <2>3 DEF Places
  <2>5. Places(Keys(todo)', Keys(Entries)', InHand', Given(Now'), Back', xbd', rbuf')
      BY <1>2, <1>5, <2>2, <2>4 DEF E, H, T, G
  <2> QED BY <1>3, <2>1, <2>5 DEF PlacesInv
<1> QED BY <1>4, <1>6, <1>7, <1>8 DEF SysInv

\* The address of the descriptor is written, when nothing is reported.
LEMMA ASel46Step ==
  ASSUME SysInv, ASel46
  PROVE  SysInv' /\ SameRows(Now, Now')
<1> DEFINE k == [kmc EXCEPT !.sel46 = hcmd.desc]
           w == With(k)
<1>1. SysTypes /\ RegInv /\ Now \in Works(TxLists) /\ Now.k = kmc /\ Now.d = dup
    BY SysParts DEF SysInv
<1>2. /\ hpc = "sel6" /\ hpc' = "sel2" /\ UNCHANGED <<xbd, rbuf, todo, inq, hcmd, hdesc, up, msgs>>
      /\ Finish(w) /\ UNCHANGED net
    BY DEF ASel46, WriteSel46
<1>3. hcmd \in Commands /\ hcmd.desc \in RxDesc \cup TxDesc(TxLists) \cup {None}
  <2>1. hcmd \in Commands
      BY <1>1, <1>2 DEF SysTypes
  <2> QED BY <2>1, CommandIs DEF Desc, RxDesc, TxDesc
<1>4. /\ k \in KmcBlocks(TxLists) /\ k.sel46 = hcmd.desc /\ k.sel0 = kmc.sel0
      /\ k.sel2 = kmc.sel2 /\ k.int = kmc.int
    BY <1>1, <1>3, SysParts DEF KmcBlocks
<1> HIDE DEF k
<1>5. w \in Works(TxLists) /\ w.k = k /\ w.d = dup
    BY <1>1, <1>4, SysParts DEF With, Works
<1> HIDE DEF w
<1>6. ~kmc.sel2.rdo
    BY <1>1, <1>2 DEF RegInv, Regs
<1>7. SameRows(Now, w)
    BY <1>1, <1>4, <1>5, <1>6 DEF SameRows, Row, Held, Queue
<1>8. Now' \in Works(TxLists) /\ SameRows(w, Now')
    BY <1>2, <1>5, FinishRows
<1>9. RegInv'
  <2>1. Regs(w.k, inq', hpc', hcmd', hdesc')
      BY <1>1, <1>2, <1>4, <1>5 DEF RegInv, Regs
  <2> QED BY <1>1, <1>2, <1>4, <1>5, <2>1, FinishRegInv DEF RegInv
<1>10. SameRows(Now, Now')
    BY <1>7, <1>8 DEF SameRows
<1>11. InHand' = InHand /\ Back' = Back /\ hcmd' \in Command
    BY <1>1, <1>2 DEF InHand, Back, SysTypes
<1> QED BY <1>2, <1>3, <1>8, <1>9, <1>10, <1>11, QuietStep

-----------------------------------------------------------------------------
(* Transmissions. *)

\* The descriptors of row q from n + 1 to e are those of one list of the lists x.
OneList(x, q, n, e) ==
  \E l \in TxLists :
    /\ x[l] \in Msgs /\ e = n + Segs[x[l]] /\ Segs[x[l]] \in {1, 2}
    /\ \A k \in 1 .. Segs[x[l]] : q[n + k] = <<l, k>>

\* So they are from the first descriptor of a list to the next that is a last.
LEMMA NextMessage ==
  ASSUME NEW x \in [TxLists -> Msgs \cup {0}], NEW q, TxRow(x, q),
         NEW n \in Nat, n < Len(q), q[n + 1][2] = 1,
         NEW e \in n + 1 .. Len(q), q[e][2] = Segs[x[q[e][1]]],
         \A j \in n + 1 .. Len(q) : q[j][2] = Segs[x[q[j][1]]] => e <= j
  PROVE  OneList(x, q, n, e) /\ (e < Len(q) => q[e + 1][2] = 1)
<1>1. /\ q \in Seq(TxPlace) /\ Len(q) \in Nat
      /\ \A j \in 1 .. Len(q) : q[j] \in TxPlace
    BY LenProperties, ElementOfSeq DEF TxRow
<1>2. n + 1 \in 1 .. Len(q) /\ n + 1 \in n + 1 .. Len(q) /\ n + 1 <= e /\ e \in Nat
    BY <1>1
<1>3. PICK l \in TxLists : q[n + 1] = <<l, 1>>
    BY <1>1, <1>2, Pairs DEF TxPlace
<1>4. x[l] # 0
  <2>1. q[n + 1][1] = l
      BY <1>3
  <2>2. x[q[n + 1][1]] # 0
      BY <1>2 DEF TxRow
  <2> QED BY <2>1, <2>2
<1>5. x[l] \in Msgs /\ Segs[x[l]] \in {1, 2}
    BY <1>4, KmcAssumption
<1> DEFINE s == Segs[x[l]]
<1>6. s \in {1, 2} /\ (q[n + 1][2] = Segs[x[q[n + 1][1]]] <=> s = 1)
    BY <1>3, <1>5
<1>7. ASSUME s = 1 PROVE e = n + s /\ (\A k \in 1 .. s : q[n + k] = <<l, k>>)
  <2>1. e = n + 1
      BY <1>2, <1>6, <1>7
  <2>2. \A k \in 1 .. s : q[n + k] = <<l, k>>
    <3>1. \A k \in 1 .. s : k = 1
        BY <1>7
    <3> QED BY <1>3, <3>1
  <2> QED BY <1>7, <2>1, <2>2
<1>8. ASSUME s = 2 PROVE e = n + s /\ (\A k \in 1 .. s : q[n + k] = <<l, k>>)
  <2>1. n + 1 < Len(q) /\ q[n + 2] = <<l, 2>>
    <3>1. q[n + 1][2] < Segs[x[q[n + 1][1]]] /\ q[n + 1][1] = l
        BY <1>3, <1>8
    <3>2. n + 1 < Len(q) /\ q[(n + 1) + 1] = <<l, 2>>
        BY <1>2, <3>1 DEF TxRow
    <3>3. (n + 1) + 1 = n + 2
        OBVIOUS
    <3> QED BY <3>2, <3>3
  <2>2. e = n + 2
    <3>1. e # n + 1
      <4>1. SUFFICES ASSUME e = n + 1 PROVE FALSE
          OBVIOUS
      <4>2. q[n + 1][2] = Segs[x[q[n + 1][1]]]
          BY <4>1
      <4> QED BY <1>6, <1>8, <4>2
    <3>2. e <= n + 2
      <4>1. n + 2 \in n + 1 .. Len(q)
          BY <1>1, <2>1
      <4>2. q[n + 2][2] = Segs[x[q[n + 2][1]]]
          BY <1>8, <2>1
      <4> QED BY <4>1, <4>2
    <3> QED BY <1>2, <3>1, <3>2
  <2>3. \A k \in 1 .. s : q[n + k] = <<l, k>>
    <3>1. \A k \in 1 .. s : k = 1 \/ k = 2
        BY <1>8
    <3> QED BY <1>3, <2>1, <3>1
  <2> QED BY <1>8, <2>2, <2>3
<1>9. e = n + s /\ (\A k \in 1 .. s : q[n + k] = <<l, k>>)
  <2> HIDE DEF s
  <2> QED BY <1>6, <1>7, <1>8
<1>10. ASSUME e < Len(q) PROVE q[e + 1][2] = 1
  <2>1. e + 1 \in 1 .. Len(q) /\ e + 1 \in 2 .. Len(q) /\ (e + 1) - 1 = e /\ e \in 1 .. Len(q)
      BY <1>1, <1>2, <1>10
  <2>2. q[e + 1] \in TxPlace /\ q[e + 1][2] \in {1, 2}
      BY <1>1, <2>1 DEF TxPlace
  <2>3. SUFFICES ASSUME q[e + 1][2] = 2 PROVE FALSE
      BY <2>2
  <2>4. q[e] = <<q[e + 1][1], 1>>
      BY <2>1, <2>3 DEF TxRow
  <2>5. q[e] = <<l, s>>
    <3>1. s \in 1 .. s
        BY <1>6
    <3> HIDE DEF s
    <3> QED BY <1>9, <3>1
  <2>6. q[e + 1][1] = l /\ s = 1
      BY <2>4, <2>5
  <2>7. q[e + 1][2] <= Segs[x[q[e + 1][1]]]
      BY <2>1 DEF TxRow
  <2> QED BY <2>3, <2>6, <2>7
<1> QED BY <1>5, <1>9, <1>10 DEF OneList

\* The transmission that may start is of one list: up to the first descriptor
\* that is the last of its list, which is the next or the one after it.
LEMMA NextEnd ==
  ASSUME xbd \in [Lines -> [TxLists -> Msgs \cup {0}]],
         NEW d \in [Lines -> DupBlocks(TxLists)], NEW i \in Lines, TxRow(xbd[i], d[i].txqueue),
         AtStart(d[i]), Sendable(d, i)
  PROVE  LET q == d[i].txqueue
             n == d[i].txnext
             e == Min(Ends(d, i))
         IN OneList(xbd[i], q, n, e) /\ (e < Len(q) => q[e + 1][2] = 1)
<1> DEFINE q == d[i].txqueue
           n == d[i].txnext
           e == Min(Ends(d, i))
           x == xbd[i]
<1>1. /\ n \in Nat /\ Len(q) \in Nat /\ d[i].txnow = 0 /\ Ends(d, i) # {}
      /\ x \in [TxLists -> Msgs \cup {0}] /\ TxRow(x, q)
    BY LenProperties DEF Sendable, DupBlocks, Blocks
<1>2. \A j \in n + 1 .. Len(q) : j \in Ends(d, i) <=> q[j][2] = Segs[x[q[j][1]]]
    BY DEF Ends, LastDesc
<1>3. e \in n + 1 .. Len(q) /\ e \in Ends(d, i) /\ \A j \in Ends(d, i) : e <= j
  <2>1. Ends(d, i) \subseteq n + 1 .. Len(q)
      BY DEF Ends
  <2>2. Ends(d, i) \in SUBSET Nat
      BY <1>1, <2>1
  <2> QED BY <1>1, <2>1, <2>2, MinIsLeast
<1>4. n < Len(q) /\ q[n + 1][2] = 1
  <2>1. d[i].txnext + d[i].txnow = n /\ n < Len(q)
      BY <1>1, <1>3
  <2> QED BY <2>1 DEF AtStart
<1> HIDE DEF q, n, e, x
<1>5. OneList(x, q, n, e) /\ (e < Len(q) => q[e + 1][2] = 1)
  <2>1. /\ e \in n + 1 .. Len(q) /\ q[e][2] = Segs[x[q[e][1]]]
        /\ \A j \in n + 1 .. Len(q) : q[j][2] = Segs[x[q[j][1]]] => e <= j
      BY <1>2, <1>3
  <2> QED BY <1>1, <1>4, <2>1, NextMessage, Z3T(30)
<1> QED BY <1>5 DEF q, n, e, x

\* What is sent is a whole message.
LEMMA FrameWhole ==
  ASSUME xbd \in [Lines -> [TxLists -> Msgs \cup {0}]],
         NEW d \in [Lines -> DupBlocks(TxLists)], NEW i \in Lines, TxRow(xbd[i], d[i].txqueue),
         AtStart(d[i]), Sendable(d, i)
  PROVE  Frame(d, i) \in Messages
<1> DEFINE q == d[i].txqueue
           n == d[i].txnext
           e == Min(Ends(d, i))
<1>1. n \in Nat
    BY DEF DupBlocks, Blocks
<1>2. Frame(d, i) = [j \in 1 .. e - n |-> <<xbd[i][q[n + j][1]], q[n + j][2]>>]
    BY DEF Frame
<1>3. PICK l \in TxLists :
        /\ xbd[i][l] \in Msgs /\ e = n + Segs[xbd[i][l]] /\ Segs[xbd[i][l]] \in {1, 2}
        /\ \A k \in 1 .. Segs[xbd[i][l]] : q[n + k] = <<l, k>>
    BY NextEnd DEF OneList
<1> DEFINE m == xbd[i][l]
<1> HIDE DEF e, n, q
<1>4. e - n = Segs[m] /\ \A j \in 1 .. Segs[m] : q[n + j] = <<l, j>>
    BY <1>1, <1>3
<1>5. Frame(d, i) = [j \in 1 .. Segs[m] |-> <<m, j>>]
    BY <1>2, <1>4
<1> QED BY <1>3, <1>5 DEF Messages

\* dup_tryxmit and the datagram it sends.
LEMMA TryXmitStep ==
  ASSUME xbd \in [Lines -> [TxLists -> Msgs \cup {0}]], NetInv, NEW w \in Works(TxLists),
         NEW i \in Lines, TxRow(xbd[i], Row(w, i, FALSE)), AtStart(w.d[i]), Xmit(w.d, i)
  PROVE  LET v == [k |-> w.k, d |-> TryXmit(w.d, i)]
         IN v \in Works(TxLists) /\ SameRows(w, v) /\ net' \in [Lines -> SUBSET Messages]
<1> DEFINE d == w.d
           x == TryXmit(d, i)
           v == [k |-> w.k, d |-> x]
<1>1. d \in [Lines -> DupBlocks(TxLists)] /\ w.k \in KmcBlocks(TxLists)
    BY DEF Works
<1>2. TxRow(xbd[i], d[i].txqueue)
    BY QueueRows
<1>3. x \in [Lines -> DupBlocks(TxLists)]
    BY <1>1, TryXmitWork
<1>4. v \in Works(TxLists) /\ v.k = w.k /\ v.d = x
    BY <1>1, <1>3 DEF Works
<1>5. net' \in [Lines -> SUBSET Messages]
  <2> DEFINE S == IF Sendable(d, i) /\ MsgLen(d, i) <= MaxMsg THEN {Frame(d, i)} ELSE {}
  <2>1. S \subseteq Messages
      BY <1>1, <1>2, FrameWhole
  <2>2. net' = [net EXCEPT ![Peer[i]] = net[Peer[i]] \cup S]
      BY DEF Xmit
  <2>3. net \in [Lines -> SUBSET Messages] /\ Peer[i] \in Lines
      BY KmcAssumption DEF NetInv
  <2> HIDE DEF S
  <2>4. net[Peer[i]] \cup S \in SUBSET Messages
      BY <2>1, <2>3
  <2> QED BY <2>2, <2>3, <2>4
<1>6. /\ \A j \in Lines \ {i} : x[j] = d[j]
      /\ x[i].txqueue = d[i].txqueue /\ x[i].rxqueue = d[i].rxqueue
      /\ x[i].rxnext = d[i].rxnext /\ x[i].txnext = d[i].txnext
      /\ AtStart(x[i])
  <2>1. CASE ~Sendable(d, i)
      BY <2>1 DEF TryXmit
  <2>2. CASE Sendable(d, i)
    <3> DEFINE n == Min(Ends(d, i)) - d[i].txnext
               b == Sending(d[i], n, DelayNegative(MsgLen(d, i)))
    <3>1. x = [d EXCEPT ![i] = b]
        BY <2>2 DEF TryXmit
    <3>2. n \in Nat /\ d[i].txnext + n = Min(Ends(d, i)) /\ d[i].txnext \in Nat
      <4>1. Min(Ends(d, i)) \in d[i].txnext + 1 .. Len(d[i].txqueue)
          BY <1>1, <2>2, EndInQueue DEF Sendable
      <4>2. d[i].txnext \in Nat /\ Len(d[i].txqueue) \in Nat
          BY <1>1, LenProperties DEF DupBlocks, Blocks
      <4> QED BY <4>1, <4>2
    <3>3. /\ b.txqueue = d[i].txqueue /\ b.rxqueue = d[i].rxqueue
          /\ b.rxnext = d[i].rxnext /\ b.txnext = d[i].txnext /\ b.txnow = n
        BY <1>1 DEF Sending, DupBlocks, Blocks
    <3>4. Min(Ends(d, i)) < Len(d[i].txqueue) => d[i].txqueue[Min(Ends(d, i)) + 1][2] = 1
        BY <1>1, <1>2, <2>2, NextEnd
    <3> HIDE DEF n, b
    <3>5. AtStart(b)
        BY <3>2, <3>3, <3>4 DEF AtStart
    <3> QED BY <1>1, <3>1, <3>3, <3>5
  <2> QED BY <2>1, <2>2
<1> HIDE DEF x, v
<1>7. SameRows(w, v)
  <2>1. SUFFICES ASSUME NEW j \in Lines
                 PROVE  /\ \A rx \in BOOLEAN : Row(v, j, rx) = Row(w, j, rx)
                        /\ AtStart(w.d[j]) => AtStart(v.d[j])
                        /\ \A r : Vacant(w.d[j], r) => Vacant(v.d[j], r)
      BY DEF SameRows
  <2>2. /\ v.d[j].txqueue = w.d[j].txqueue /\ v.d[j].rxqueue = w.d[j].rxqueue
        /\ v.d[j].rxnext = w.d[j].rxnext /\ (AtStart(w.d[j]) => AtStart(v.d[j]))
      BY <1>4, <1>6
  <2> QED BY <1>4, <2>2 DEF Row, Held, Queue, Vacant
<1> QED BY <1>4, <1>5, <1>7 DEF v, x

-----------------------------------------------------------------------------
(* The service routines. *)

\* kmc_output may be set, nothing else of the registers changes.
LEMMA OutputSet ==
  ASSUME NEW k \in KmcBlocks(TxLists), NEW more \in BOOLEAN
  PROVE  LET j == [k EXCEPT !.output = @ \/ more] IN
         /\ j \in KmcBlocks(TxLists)
         /\ j.sel0 = k.sel0 /\ j.sel2 = k.sel2 /\ j.sel46 = k.sel46 /\ j.int = k.int
<1>1. CASE k.output \/ more
  <2>1. [k EXCEPT !.output = @ \/ more] = [k EXCEPT !.output = TRUE]
      BY <1>1 DEF KmcBlocks
  <2> QED BY <2>1 DEF KmcBlocks
<1>2. CASE ~(k.output \/ more)
  <2>1. [k EXCEPT !.output = @ \/ more] = [k EXCEPT !.output = FALSE]
      BY <1>2 DEF KmcBlocks
  <2> QED BY <2>1 DEF KmcBlocks
<1> QED BY <1>1, <1>2

LEMMA SysDupSvcStep ==
  ASSUME SysInv, NEW i \in Lines, DupSvc(i), UNCHANGED driver
  PROVE  SysInv' /\ SameRows(Now, Now')
<1> DEFINE b == Over(dup[i])
           d == [dup EXCEPT ![i] = b]
           w == [k |-> kmc', d |-> d]
           v == [k |-> w.k, d |-> TryXmit(w.d, i)]
<1>1. /\ SysTypes /\ RegInv /\ NetInv /\ MsgsInv /\ LineInvs(Now, xbd, rbuf)
      /\ kmc \in KmcBlocks(TxLists) /\ dup \in [Lines -> DupBlocks(TxLists)]
      /\ Now \in Works(TxLists) /\ Now.k = kmc /\ Now.d = dup
      /\ xbd \in [Lines -> [TxLists -> Msgs \cup {0}]]
    BY SysParts DEF SysInv, LinesInv, SysTypes
<1>2. /\ dup' = TryXmit(d, i) /\ Xmit(d, i)
      /\ kmc' = [kmc EXCEPT !.output = @ \/ dup[i].txnow > 0]
      /\ UNCHANGED <<xbd, rbuf>>
    BY DEF DupSvc
<1>3. /\ kmc' \in KmcBlocks(TxLists) /\ kmc'.sel0 = kmc.sel0 /\ kmc'.sel2 = kmc.sel2
      /\ kmc'.sel46 = kmc.sel46 /\ kmc'.int = kmc.int
  <2> DEFINE more == dup[i].txnow > 0
  <2>1. more \in BOOLEAN /\ kmc' = [kmc EXCEPT !.output = @ \/ more]
      BY <1>2
  <2> HIDE DEF more
  <2> QED BY <1>1, <2>1, OutputSet
<1>4. /\ b \in DupBlocks(TxLists) /\ b.rxnext = dup[i].rxnext
      /\ b.rxqueue = dup[i].rxqueue /\ b.txqueue = dup[i].txqueue
      /\ b.txnext + b.txnow = dup[i].txnext + dup[i].txnow
  <2>1. dup[i] \in DupBlocks(TxLists) /\ dup[i] \in Blocks(TxLists)
      BY <1>1 DEF DupBlocks
  <2>2. /\ b \in DupBlocks(TxLists) /\ b.rxnext = dup[i].rxnext
        /\ b.txnext = dup[i].txnext + dup[i].txnow /\ b.txnow = 0
      BY <2>1, OverFits
  <2>3. b.rxqueue = dup[i].rxqueue /\ b.txqueue = dup[i].txqueue
      BY <2>1 DEF Over, Blocks
  <2> QED BY <2>1, <2>2, <2>3 DEF Blocks
<1> HIDE DEF b
<1>5. /\ d \in [Lines -> DupBlocks(TxLists)] /\ d[i] = b
      /\ \A j \in Lines \ {i} : d[j] = dup[j]
    BY <1>1, <1>4
<1> HIDE DEF d
<1>6. w \in Works(TxLists) /\ w.k = kmc' /\ w.d = d
    BY <1>3, <1>5 DEF Works
<1> HIDE DEF w
<1>7. SameRows(Now, w)
  <2>1. SUFFICES ASSUME NEW j \in Lines
                 PROVE  /\ \A rx \in BOOLEAN : Row(w, j, rx) = Row(Now, j, rx)
                        /\ AtStart(Now.d[j]) => AtStart(w.d[j])
                        /\ \A r : Vacant(Now.d[j], r) => Vacant(w.d[j], r)
      BY DEF SameRows
  <2>2. /\ w.d[j].txqueue = Now.d[j].txqueue /\ w.d[j].rxqueue = Now.d[j].rxqueue
        /\ w.d[j].rxnext = Now.d[j].rxnext
        /\ w.d[j].txnext + w.d[j].txnow = Now.d[j].txnext + Now.d[j].txnow
      BY <1>1, <1>4, <1>5, <1>6
  <2> QED BY <1>1, <1>3, <1>6, <2>2 DEF Row, Held, Queue, Vacant, AtStart
<1>8. LineInvs(w, xbd, rbuf)
    BY <1>1, <1>7, LinesSame
<1>9. v \in Works(TxLists) /\ SameRows(w, v) /\ net' \in [Lines -> SUBSET Messages]
  <2>1. TxRow(xbd[i], Row(w, i, FALSE)) /\ AtStart(w.d[i])
      BY <1>8 DEF LineInvs, LineInv
  <2>2. Xmit(w.d, i)
      BY <1>2, <1>6
  <2> QED BY <1>1, <1>6, <2>1, <2>2, TryXmitStep
<1>10. Now' = v
    BY <1>2, <1>6 DEF Now, With
<1>11. Now' \in Works(TxLists) /\ SameRows(Now, Now')
    BY <1>7, <1>9, <1>10 DEF SameRows
<1>12. RegInv'
  <2>1. Regs(kmc', inq', hpc', hcmd', hdesc')
      BY <1>1, <1>3 DEF RegInv, Regs, driver
  <2> QED BY <1>1, <1>3, <2>1 DEF RegInv, RequestPending, driver
<1>13. LineInvs(Now', xbd, rbuf) /\ Given(Now') = Given(Now)
    BY <1>1, <1>11, LinesSame
<1>14. SysTypes' /\ NetInv' /\ MsgsInv' /\ LinesInv'
    BY <1>1, <1>2, <1>9, <1>11, <1>13 DEF SysTypes, NetInv, MsgsInv, LinesInv, driver
<1>15. PlacesInv'
  <2>1. /\ Keys(Entries)' = Keys(Entries) /\ Keys(todo)' = Keys(todo)
        /\ InHand' = InHand /\ Back' = Back /\ OnceEach(inq)' = OnceEach(inq)
      BY <1>2 DEF driver, Entries, InHand, Back, LastDesc
  <2>2. Places(Keys(todo), Keys(Entries), InHand, Given(Now), Back, xbd, rbuf) /\ OnceEach(inq)
      BY DEF SysInv, PlacesInv
  <2>3. Places(Keys(todo)', Keys(Entries)', InHand', Given(Now'), Back', xbd', rbuf')
      BY <1>2, <1>13, <2>1, <2>2
  <2> QED BY <2>1, <2>2, <2>3 DEF PlacesInv
<1> QED BY <1>11, <1>12, <1>14, <1>15 DEF SysInv

\* kmc_svc stores a datagram in the first buffer that is left, which is empty.
LEMMA Stored ==
  ASSUME SysInv, NEW got, KmcSvc(got), NEW i \in Lines
  PROVE  LET q == dup[i].rxqueue
             n == dup[i].rxnext + 1
         IN \/ ~Stores(i, got) /\ rbuf'[i] = rbuf[i]
            \/ /\ Stores(i, got) /\ n \in 1 .. Len(q) /\ q[n][1] \in RxLists
               /\ rbuf'[i] = [rbuf[i] EXCEPT ![q[n][1]] = got[i]]
               /\ rbuf[i][q[n][1]] = None /\ <<i, q[n][1]>> \in Given(Now)
               /\ got[i] \in Messages
               /\ \A j \in n + 1 .. Len(q) : q[j][1] \in RxLists /\ q[j][1] # q[n][1]
<1> DEFINE q == dup[i].rxqueue
           n == dup[i].rxnext + 1
<1>1. /\ rbuf' = [j \in Lines |->
           IF Stores(j, got) THEN [rbuf[j] EXCEPT ![dup[j].rxqueue[dup[j].rxnext + 1][1]] = got[j]]
           ELSE rbuf[j]]
      /\ got[i] \in net[i] \cup {None}
    BY DEF KmcSvc
<1>2. CASE ~Stores(i, got)
    BY <1>1, <1>2
<1>3. CASE Stores(i, got)
  <2>1. Len(q) > dup[i].rxnext /\ got[i] \in Messages
      BY <1>1, <1>3 DEF Stores, SysInv, NetInv
  <2>2. /\ Now \in Works(TxLists) /\ Now.d = dup /\ dup[i] \in Blocks(TxLists)
        /\ LineInv(Now, i, xbd[i], rbuf[i]) /\ xbd[i] \in [TxLists -> Msgs \cup {0}]
      BY SysParts DEF SysInv, SysTypes, LinesInv, LineInvs
  <2>3. RxRow(q)
      BY <2>2, QueueRows DEF LineInv
  <2>4. /\ n \in 1 .. Len(q) /\ n \in dup[i].rxnext + 1 .. Len(q) /\ Len(q) \in Nat
        /\ \A j \in n + 1 .. Len(q) : j \in 1 .. Len(q) /\ j # n
    <3>1. dup[i].rxnext \in Nat /\ Len(q) \in Nat
        BY <2>2, <2>3, LenProperties DEF Blocks, RxRow
    <3> QED BY <2>1, <3>1
  <2>5. \A j \in 1 .. Len(q) : q[j] = <<q[j][1], 1>> /\ q[j][1] \in RxLists
    <3>1. \A j \in 1 .. Len(q) : q[j] \in RxPlace
        BY <2>3, ElementOfSeq DEF RxRow
    <3>2. \A e \in RxPlace : e = <<e[1], e[2]>> /\ e[2] = 1 /\ e[1] \in RxLists
        BY Pairs DEF RxPlace
    <3> QED BY <3>1, <3>2
  <2>6. \A j \in n + 1 .. Len(q) : q[j][1] \in RxLists /\ q[j][1] # q[n][1]
    <3>1. SUFFICES ASSUME NEW j \in n + 1 .. Len(q), q[j][1] = q[n][1] PROVE FALSE
        BY <2>4, <2>5
    <3>2. q[j] = q[n]
        BY <2>4, <2>5, <3>1
    <3> QED BY <2>3, <2>4, <3>2 DEF RxRow, Distinct
  <2>7. rbuf[i][q[n][1]] = None
      BY <2>2, <2>4 DEF LineInv, Vacant
  <2>8. <<i, q[n][1]>> \in Given(Now)
    <3>1. ~Without(q, q[n][1])
        BY <2>4 DEF Without
    <3>2. \/ Row(Now, i, TRUE) = Queue(Now, i, TRUE)
          \/ Row(Now, i, TRUE) # <<>> /\ Queue(Now, i, TRUE) = Tail(Row(Now, i, TRUE))
      <4> DEFINE rx == TRUE
      <4>1. rx \in BOOLEAN
          OBVIOUS
      <4> HIDE DEF rx
      <4>2. \/ Row(Now, i, rx) = Queue(Now, i, rx)
            \/ Row(Now, i, rx) # <<>> /\ Queue(Now, i, rx) = Tail(Row(Now, i, rx))
          BY <2>2, <4>1, RowIsQueue, RowReported
      <4> QED BY <4>2 DEF rx
    <3>3. ~Without(Row(Now, i, TRUE), q[n][1])
      <4>1. q = Queue(Now, i, TRUE) /\ RxRow(Row(Now, i, TRUE))
          BY <2>2 DEF Queue, LineInv
      <4> DEFINE l == q[n][1]
      <4> HIDE DEF q, l
      <4> QED BY <3>1, <3>2, <4>1, RxRowTail DEF l
    <3>4. q[n][1] \in TxLists \cup RxLists
        BY <2>4, <2>5
    <3> HIDE DEF q, n
    <3> QED BY <3>3, <3>4, GivenIs
  <2>9. rbuf'[i] = [rbuf[i] EXCEPT ![q[n][1]] = got[i]]
      BY <1>1, <1>3
  <2> QED BY <1>3, <2>1, <2>4, <2>5, <2>6, <2>7, <2>8, <2>9
<1> QED BY <1>2, <1>3

\* No buffer of a line is filled, or one that is empty and with the processor.
LEMMA StoredOnce ==
  ASSUME SysInv, NEW got, KmcSvc(got), NEW i \in Lines
  PROVE  \/ rbuf'[i] = rbuf[i]
         \/ \E f \in RxLists : /\ rbuf'[i] = [rbuf[i] EXCEPT ![f] = got[i]]
                               /\ rbuf[i][f] = None /\ got[i] \in Messages
                               /\ <<i, f>> \in Given(Now)
<1> DEFINE f == dup[i].rxqueue[dup[i].rxnext + 1][1]
<1>1. \/ rbuf'[i] = rbuf[i]
      \/ /\ f \in RxLists /\ rbuf'[i] = [rbuf[i] EXCEPT ![f] = got[i]]
         /\ rbuf[i][f] = None /\ got[i] \in Messages /\ <<i, f>> \in Given(Now)
    BY Stored, ZenonT(30)
<1> HIDE DEF f
<1> QED BY <1>1

LEMMA SysKmcSvcStep ==
  ASSUME SysInv, NEW got, KmcSvc(got), UNCHANGED driver
  PROVE  /\ SysInv' /\ SameRows(Now, Now')
         /\ \A i \in Lines, l \in RxLists : rbuf'[i][l] # rbuf[i][l] => rbuf[i][l] = None
<1> DEFINE any == \E i \in Lines : got[i] # None
           k   == [kmc EXCEPT !.output = @ \/ any]
           e(i) == IF Stores(i, got) THEN [dup[i] EXCEPT !.rxnext = @ + 1] ELSE dup[i]
           d   == [i \in Lines |-> e(i)]
           w   == [k |-> k, d |-> d]
           o   == TryOutput(w)
<1>1. /\ SysTypes /\ RegInv /\ NetInv /\ MsgsInv /\ LineInvs(Now, xbd, rbuf)
      /\ kmc \in KmcBlocks(TxLists) /\ dup \in [Lines -> DupBlocks(TxLists)]
      /\ Now \in Works(TxLists) /\ Now.k = kmc /\ Now.d = dup
    BY SysParts DEF SysInv, LinesInv
<1>2. kmc' = o.k /\ dup' = o.d /\ UNCHANGED <<xbd, net>>
    BY DEF KmcSvc, Become
<1>3. rbuf' \in [Lines -> [RxLists -> Messages \cup {None}]]
      /\ \A i \in Lines, l \in RxLists : rbuf'[i][l] # rbuf[i][l] => rbuf[i][l] = None
  <2>1. rbuf' = [i \in Lines |-> rbuf'[i]]
      BY DEF KmcSvc
  <2>2. rbuf \in [Lines -> [RxLists -> Messages \cup {None}]]
      BY <1>1 DEF NetInv
  <2>3. ASSUME NEW i \in Lines
        PROVE  /\ rbuf'[i] \in [RxLists -> Messages \cup {None}]
               /\ \A l \in RxLists : rbuf'[i][l] # rbuf[i][l] => rbuf[i][l] = None
    <3>0. \/ rbuf'[i] = rbuf[i]
          \/ \E f \in RxLists : /\ rbuf'[i] = [rbuf[i] EXCEPT ![f] = got[i]]
                                /\ rbuf[i][f] = None /\ got[i] \in Messages
                                /\ <<i, f>> \in Given(Now)
      <4> HIDE DEF any, k, d, w, o
      <4> QED BY StoredOnce, ZenonT(30)
    <3>1. CASE rbuf'[i] = rbuf[i]
        BY <2>2, <3>1
    <3>2. CASE rbuf'[i] # rbuf[i]
      <4>1. PICK f \in RxLists : /\ rbuf'[i] = [rbuf[i] EXCEPT ![f] = got[i]]
                                 /\ rbuf[i][f] = None /\ got[i] \in Messages
          BY <3>0, <3>2
      <4>2. rbuf[i] \in [RxLists -> Messages \cup {None}]
          BY <2>2
      <4>3. rbuf'[i] \in [RxLists -> Messages \cup {None}]
          BY <4>1, <4>2
      <4>4. \A l \in RxLists \ {f} : rbuf'[i][l] = rbuf[i][l]
          BY <4>1, <4>2
      <4> QED BY <4>1, <4>3, <4>4
    <3> QED BY <3>1, <3>2
  <2> QED BY <2>1, <2>3
<1>4. /\ k \in KmcBlocks(TxLists) /\ k.sel0 = kmc.sel0 /\ k.sel2 = kmc.sel2
      /\ k.sel46 = kmc.sel46 /\ k.int = kmc.int
  <2>1. any \in BOOLEAN
      OBVIOUS
  <2> HIDE DEF any
  <2> QED BY <1>1, <2>1, OutputSet
<1> HIDE DEF k
<1>5. ASSUME NEW i \in Lines
      PROVE  /\ e(i) \in DupBlocks(TxLists) /\ e(i).rxqueue = dup[i].rxqueue
             /\ e(i).txqueue = dup[i].txqueue /\ e(i).txnext = dup[i].txnext
             /\ e(i).txnow = dup[i].txnow
             /\ \A r : Vacant(dup[i], r) => Vacant(e(i), r)
             /\ Vacant(e(i), rbuf'[i])
  <2>1. dup[i] \in Blocks(TxLists) /\ Fits(dup[i]) /\ dup[i] \in DupBlocks(TxLists)
        /\ Len(dup[i].rxqueue) \in Nat
      BY <1>1, LenProperties DEF DupBlocks, Blocks
  <2>2. Vacant(dup[i], rbuf[i])
      BY <1>1 DEF LineInvs, LineInv
  <2>3. CASE ~Stores(i, got)
    <3>1. rbuf'[i] = rbuf[i]
        BY <2>3, Stored
    <3>2. e(i) = dup[i]
        BY <2>3
    <3> QED BY <2>1, <2>2, <3>1, <3>2
  <2>4. CASE Stores(i, got)
    <3> DEFINE n == dup[i].rxnext + 1
               b == [dup[i] EXCEPT !.rxnext = n]
    <3>1. n \in Nat /\ n <= Len(dup[i].rxqueue)
        BY <2>1, <2>4 DEF Stores, Blocks
    <3>2. e(i) = b
        BY <2>4
    <3>3. \A j \in n + 1 .. Len(dup[i].rxqueue) :
            j \in dup[i].rxnext + 1 .. Len(dup[i].rxqueue) /\ j # n
        BY <2>1 DEF Blocks
    <3>4. \A j \in n + 1 .. Len(dup[i].rxqueue) : rbuf'[i][dup[i].rxqueue[j][1]] = None
      <4>1. SUFFICES ASSUME NEW j \in n + 1 .. Len(dup[i].rxqueue)
                     PROVE  rbuf'[i][dup[i].rxqueue[j][1]] = None
          OBVIOUS
      <4> DEFINE l == dup[i].rxqueue[j][1]
                 f == dup[i].rxqueue[n][1]
      <4>2. l \in RxLists /\ l # f /\ rbuf'[i] = [rbuf[i] EXCEPT ![f] = got[i]]
          BY <2>4, Stored
      <4>3. rbuf[i][l] = None
          BY <2>2, <3>3 DEF Vacant
      <4>4. rbuf[i] \in [RxLists -> Messages \cup {None}]
          BY <1>1 DEF NetInv
      <4> HIDE DEF l, f
      <4>5. rbuf'[i][l] = None
          BY <4>2, <4>3, <4>4
      <4> QED BY <4>5 DEF l
    <3> HIDE DEF n
    <3>5. /\ b \in Blocks(TxLists) /\ b.rxnext = n /\ b.rxqueue = dup[i].rxqueue
          /\ b.txqueue = dup[i].txqueue /\ b.txnext = dup[i].txnext /\ b.txnow = dup[i].txnow
        BY <2>1, <3>1 DEF Blocks
    <3> HIDE DEF b
    <3>6. b \in DupBlocks(TxLists)
        BY <2>1, <3>1, <3>5 DEF DupBlocks, Fits
    <3>7. \A r : Vacant(dup[i], r) => Vacant(b, r)
        BY <3>3, <3>5 DEF Vacant
    <3>8. Vacant(b, rbuf'[i])
        BY <3>4, <3>5 DEF Vacant
    <3> QED BY <3>2, <3>5, <3>6, <3>7, <3>8
  <2> QED BY <2>3, <2>4
<1>6. d \in [Lines -> DupBlocks(TxLists)] /\ \A i \in Lines : d[i] = e(i)
    BY <1>5
<1> HIDE DEF e, d
<1>7. w \in Works(TxLists) /\ w.k = k /\ w.d = d
    BY <1>4, <1>6 DEF Works
<1>8. KmcSvc(got) => kmc' = TryOutput(w).k
    BY <1>2
<1> HIDE DEF w
<1>9. SameRows(Now, w)
  <2>1. SUFFICES ASSUME NEW i \in Lines
                 PROVE  /\ \A rx \in BOOLEAN : Row(w, i, rx) = Row(Now, i, rx)
                        /\ AtStart(Now.d[i]) => AtStart(w.d[i])
                        /\ \A r : Vacant(Now.d[i], r) => Vacant(w.d[i], r)
      BY DEF SameRows
  <2>2. /\ w.d[i].txqueue = Now.d[i].txqueue /\ w.d[i].rxqueue = Now.d[i].rxqueue
        /\ w.d[i].txnext = Now.d[i].txnext /\ w.d[i].txnow = Now.d[i].txnow
        /\ \A r : Vacant(Now.d[i], r) => Vacant(w.d[i], r)
      BY <1>1, <1>5, <1>6, <1>7
  <2> QED BY <1>1, <1>4, <1>7, <2>2 DEF Row, Held, Queue, AtStart
<1>10. LineInvs(w, xbd, rbuf')
  <2>1. LineInvs(w, xbd, rbuf)
      BY <1>1, <1>9, LinesSame
  <2> QED BY <1>5, <1>6, <1>7, <2>1 DEF LineInvs, LineInv
<1>11. o \in Works(TxLists) /\ SameRows(w, o)
    BY <1>7, TryOutputWork, TryOutputRows
<1>12. RegInv'
    BY <1>1, <1>4, <1>7, <1>8, SvcRegInv
<1> HIDE DEF o
<1>13. Now' = o
    BY <1>2, <1>11 DEF Now, With, Works
<1>14. SameRows(Now, Now') /\ Now' \in Works(TxLists)
    BY <1>9, <1>11, <1>13 DEF SameRows
<1>15. LineInvs(Now', xbd, rbuf')
    BY <1>10, <1>11, <1>13, LinesSame
<1>16. Given(Now') = Given(Now)
    BY <1>1, <1>14, LinesSame
<1>17. SysTypes' /\ NetInv' /\ MsgsInv' /\ LinesInv'
    BY <1>1, <1>2, <1>3, <1>14, <1>15 DEF SysTypes, NetInv, MsgsInv, LinesInv, driver
<1>18. PlacesInv'
  <2>1. /\ Keys(Entries)' = Keys(Entries) /\ Keys(todo)' = Keys(todo)
        /\ InHand' = InHand /\ Back' = Back /\ OnceEach(inq)' = OnceEach(inq)
      BY <1>2 DEF driver, Entries, InHand, Back, LastDesc
  <2>2. Places(Keys(todo), Keys(Entries), InHand, Given(Now), Back, xbd, rbuf) /\ OnceEach(inq)
      BY DEF SysInv, PlacesInv
  <2>3. ASSUME NEW p \in Keys(Entries) \cup InHand, p[2] \in RxLists
        PROVE  rbuf'[p[1]][p[2]] = None
    <3>1. p[1] \in Lines /\ p = <<p[1], p[2]>>
      <4>1. \A c \in Entries : c \in Commands
          BY <1>1, ElementOfSeq DEF SysTypes, Entries, Elems
      <4>2. p \in InHand => \E c \in {hcmd} : p = Key(c) /\ c \in Command
          BY <1>1 DEF InHand, Keys, SysTypes
      <4>3. p \in Keys(Entries) => \E c \in Entries : p = Key(c) /\ c \in Command
          BY <4>1, CommandIs DEF Keys
      <4> QED BY <4>2, <4>3 DEF Key, Command
    <3>2. rbuf[p[1]][p[2]] = None /\ p \notin Given(Now)
        BY <2>2, <2>3 DEF Places
    <3> DEFINE i == p[1]
               l == p[2]
    <3>3. rbuf'[i] = rbuf[i] \/ \E f \in RxLists : /\ rbuf'[i] = [rbuf[i] EXCEPT ![f] = got[i]]
                                                  /\ <<i, f>> \in Given(Now)
        BY <3>1, StoredOnce
    <3>4. rbuf[i] \in [RxLists -> Messages \cup {None}]
        BY <1>1, <3>1 DEF NetInv
    <3> QED BY <2>3, <3>1, <3>2, <3>3, <3>4
  <2>4. Places(Keys(todo), Keys(Entries), InHand, Given(Now), Back, xbd, rbuf')
      BY <2>2, <2>3 DEF Places
  <2>5. Places(Keys(todo)', Keys(Entries)', InHand', Given(Now'), Back', xbd', rbuf')
      BY <1>2, <1>16, <2>1, <2>4
  <2> QED BY <2>1, <2>2, <2>5 DEF PlacesInv
<1> QED BY <1>3, <1>12, <1>14, <1>17, <1>18 DEF SysInv

-----------------------------------------------------------------------------
(* The steps that give and take descriptors. *)

\* Nothing is anywhere when all the queues are empty and no report is there.
LEMMA NoRows ==
  ASSUME NEW w \in Works(TxLists), ~w.k.sel2.rdo, \A i \in Lines : w.d[i] = NoDup
  PROVE  /\ \A i \in Lines, rx \in BOOLEAN : Row(w, i, rx) = <<>>
         /\ Given(w) = {} /\ \A x, r : LineInvs(w, x, r)
<1>1. \A i \in Lines, rx \in BOOLEAN : Queue(w, i, rx) = <<>>
    BY DEF Queue, NoDup
<1>2. \A i \in Lines, rx \in BOOLEAN : Row(w, i, rx) = <<>>
    BY <1>1, RowIsQueue
<1>3. Given(w) = {}
  <2>1. SUFFICES ASSUME NEW p \in Given(w) PROVE FALSE
      OBVIOUS
  <2>2. PICK rx \in BOOLEAN : \E j \in 1 .. Len(Row(w, p[1], rx)) : Row(w, p[1], rx)[j][1] = p[2]
      BY <2>1 DEF Given
  <2>3. Row(w, p[1], rx) = <<>>
      BY <1>2, <2>1 DEF Given
  <2> QED BY <2>2, <2>3
<1>4. ASSUME NEW x, NEW r, NEW i \in Lines PROVE LineInv(w, i, x, r)
  <2>1. TxRow(x, <<>>) /\ RxRow(<<>>)
      BY DEF TxRow, RxRow, Distinct
  <2>2. /\ w.d[i].txqueue = <<>> /\ w.d[i].rxqueue = <<>>
        /\ w.d[i].txnext = 0 /\ w.d[i].txnow = 0 /\ w.d[i].rxnext = 0
      BY DEF NoDup
  <2>3. AtStart(w.d[i]) /\ Vacant(w.d[i], r)
      BY <2>2 DEF AtStart, Vacant
  <2> QED BY <1>2, <2>1, <2>3 DEF LineInv
<1> QED BY <1>2, <1>3, <1>4 DEF LineInvs

LEMMA MLoadStep ==
  ASSUME SysInv, MLoad
  PROVE  /\ SysInv' /\ hpc = "off" /\ hpc' = "off"
         /\ \A i \in Lines, rx \in BOOLEAN : Row(Now', i, rx) = <<>>
<1> DEFINE m == Mclear(Now)
           w == TryOutput(m)
           v == [w EXCEPT !.k.sel0 = {"RUN"}, !.k.unit = TRUE]
           k == [kmc EXCEPT !.sel0 = {"MRC"}, !.sel2 = Clear2, !.sel46 = None, !.unit = FALSE]
<1>1. /\ SysTypes /\ NetInv /\ RegInv /\ kmc \in KmcBlocks(TxLists) /\ Now \in Works(TxLists)
      /\ Now.k = kmc /\ Now.d = dup
    BY SysParts DEF SysInv
<1>2. /\ hpc = "off" /\ hpc' = "off" /\ kmc.int = {} /\ UNCHANGED <<hcmd, hdesc>>
      /\ Become(v) /\ xbd' = [i \in Lines |-> [l \in TxLists |-> 0]] /\ up' = TRUE
      /\ todo' = Startup /\ inq' = <<>> /\ UNCHANGED <<rbuf, net, msgs>>
    BY DEF MLoad, Main
<1>3. /\ m \in Works(TxLists) /\ m.k = k /\ m.d = [i \in Lines |-> NoDup]
    BY <1>1, MclearWork DEF Mclear
<1> HIDE DEF m
<1>4. /\ m.k \in KmcBlocks(TxLists) /\ m.k.sel2 = Clear2 /\ m.k.sel46 = None /\ m.k.int = {}
  <2>1. k.sel2 = Clear2 /\ k.sel46 = None /\ k.int = kmc.int
      BY <1>1 DEF KmcBlocks
  <2> HIDE DEF k
  <2>2. m.k \in KmcBlocks(TxLists)
      BY <1>3 DEF Works
  <2> QED BY <1>2, <1>3, <2>1, <2>2
<1> HIDE DEF k
<1>5. \A i \in Lines : m.d[i].rxnext = 0 /\ m.d[i].txnext = 0
    BY <1>3 DEF NoDup
<1>6. /\ w \in Works(TxLists) /\ w.d = m.d
      /\ w.k = m.k \/ w.k = [m.k EXCEPT !.output = FALSE]
    BY <1>3, <1>5, TryOutputWork, TryOutputCases
<1> HIDE DEF w
<1>7. /\ w.k \in KmcBlocks(TxLists) /\ w.k.sel2 = Clear2 /\ w.k.sel46 = None /\ w.k.int = {}
    BY <1>4, <1>6 DEF KmcBlocks, Works
<1>8. v.d = w.d /\ v.k = [w.k EXCEPT !.sel0 = {"RUN"}, !.unit = TRUE]
    BY <1>6 DEF Works
<1>9. kmc' = v.k /\ dup' = v.d
    BY <1>2 DEF Become
<1> HIDE DEF v
<1>10. /\ kmc' \in KmcBlocks(TxLists) /\ kmc'.sel0 = {"RUN"} /\ kmc'.sel2 = Clear2
       /\ kmc'.sel46 = None /\ kmc'.int = {}
    BY <1>7, <1>8, <1>9 DEF KmcBlocks, Sel0Bits
<1>11. /\ Now' \in Works(TxLists) /\ Now'.k = kmc' /\ Now'.d = [i \in Lines |-> NoDup]
    BY <1>3, <1>6, <1>8, <1>9, <1>10 DEF Now, With, Works
<1>12. ~Clear2.rdo /\ ~Clear2.rdi
    BY DEF Clear2
<1>13. /\ \A i \in Lines, rx \in BOOLEAN : Row(Now', i, rx) = <<>>
       /\ Given(Now') = {} /\ \A x, r : LineInvs(Now', x, r)
    BY <1>10, <1>11, <1>12, NoRows
<1>14. RegInv'
  <2>1. Regs(kmc', inq', hpc', hcmd', hdesc')
      BY <1>2, <1>10, <1>12 DEF Regs
  <2> QED BY <1>10, <1>12, <2>1 DEF RegInv, RequestPending
<1>15. SysTypes'
  <2>1. xbd' \in [Lines -> [TxLists -> Msgs \cup {0}]] /\ inq' \in Seq(Commands)
      BY <1>2
  <2> QED BY <1>1, <1>2, <1>11, <2>1 DEF SysTypes
<1>16. MsgsInv' /\ NetInv' /\ LinesInv'
    BY <1>1, <1>2, <1>13 DEF MsgsInv, Owns, NetInv, LinesInv, SysTypes
<1>17. PlacesInv'
  <2>1. Keys(Entries)' = {} /\ InHand' = {} /\ Back' = {} /\ OnceEach(inq)'
      BY <1>2 DEF Keys, Entries, Elems, InHand, Back, OnceEach
  <2>2. Places(Keys(todo)', {}, {}, {}, {}, xbd', rbuf')
      BY DEF Places
  <2>3. Places(Keys(todo)', Keys(Entries)', InHand', Given(Now'), Back', xbd', rbuf')
      BY <1>13, <2>1, <2>2
  <2> QED BY <2>1, <2>3 DEF PlacesInv
<1> QED BY <1>2, <1>13, <1>14, <1>15, <1>16, <1>17 DEF SysInv

LEMMA SysInvInit == SysInit => SysInv /\ \A i \in Lines, rx \in BOOLEAN : Row(Now, i, rx) = <<>>
<1> SUFFICES ASSUME SysInit
             PROVE  SysInv /\ \A i \in Lines, rx \in BOOLEAN : Row(Now, i, rx) = <<>>
    OBVIOUS
<1>1. /\ kmc = [sel0 |-> {}, sel2 |-> Clear2, sel46 |-> None, int |-> {}, output |-> FALSE,
                unit |-> FALSE]
      /\ dup = [i \in Lines |-> NoDup] /\ xbd = [i \in Lines |-> [l \in TxLists |-> 0]]
      /\ rbuf = [i \in Lines |-> [l \in RxLists |-> None]] /\ net = [i \in Lines |-> {}]
      /\ todo = {} /\ inq = <<>> /\ hpc = "off" /\ hcmd = NoCmd /\ hdesc = None
      /\ up = FALSE /\ msgs = 0
    BY DEF SysInit, Init
<1>2. kmc \in KmcBlocks(TxLists)
    BY <1>1, Clear2Type DEF KmcBlocks
<1>3. NoDup \in DupBlocks(TxLists)
  <2>1. /\ NoDup \in Blocks(TxLists) /\ NoDup.rxqueue = <<>> /\ NoDup.txqueue = <<>>
        /\ NoDup.rxnext = 0 /\ NoDup.txnext = 0 /\ NoDup.txnow = 0
      BY DEF NoDup, Blocks
  <2> QED BY <2>1, QueueSize DEF DupBlocks, Fits
<1>4. Now \in Works(TxLists) /\ Now.k = kmc /\ Now.d = dup
    BY <1>1, <1>2, <1>3 DEF Now, With, Works
<1>5. ~Clear2.rdo /\ ~Clear2.rdi
    BY DEF Clear2
<1>6. /\ \A i \in Lines, rx \in BOOLEAN : Row(Now, i, rx) = <<>>
      /\ Given(Now) = {} /\ \A x, r : LineInvs(Now, x, r)
    BY <1>1, <1>4, <1>5, NoRows, SMTT(30)
<1>7. RegInv
  <2>1. Regs(kmc, inq, hpc, hcmd, hdesc)
      BY <1>1, <1>5 DEF Regs
  <2> QED BY <1>1, <1>5, <2>1 DEF RegInv, RequestPending
<1>8. SysTypes
  <2>1. Min(Lines) \in Lines
      BY KmcAssumption, MinIsLeast
  <2>2. hcmd \in Command
      BY <1>1, <2>1 DEF NoCmd, Command
  <2>3. xbd \in [Lines -> [TxLists -> Msgs \cup {0}]] /\ inq \in Seq(Commands)
      BY <1>1
  <2> QED BY <1>1, <1>4, <2>2, <2>3 DEF SysTypes
<1>9. MsgsInv /\ NetInv /\ LinesInv
    BY <1>1, <1>6 DEF MsgsInv, Owns, NetInv, LinesInv
<1>10. PlacesInv
  <2>1. Keys(Entries) = {} /\ InHand = {} /\ Back = {} /\ OnceEach(inq)
      BY <1>1 DEF Keys, Entries, Elems, InHand, Back, OnceEach
  <2>2. Places(Keys(todo), {}, {}, {}, {}, xbd, rbuf)
      BY DEF Places
  <2> QED BY <1>6, <2>1, <2>2 DEF PlacesInv
<1> QED BY <1>6, <1>7, <1>8, <1>9, <1>10 DEF SysInv

\* A report is over: its row loses the descriptor.
ReportedRows(w, v, i, rx) ==
  /\ Row(w, i, rx) # <<>> /\ Row(v, i, rx) = Tail(Row(w, i, rx))
  /\ \A j \in Lines, r \in BOOLEAN : <<j, r>> # <<i, rx>> => Row(v, j, r) = Row(w, j, r)

LEMMA ReportedParts ==
  ASSUME SysTypes, LineInvs(Now, xbd, rbuf), NEW u \in Works(TxLists), u.d = dup, ~u.k.sel2.rdo,
         NEW i \in Lines, NEW rx \in BOOLEAN,
         kmc.sel2.rdo, kmc.sel2.line = i, kmc.sel2.iot = rx
  PROVE  /\ ReportedRows(Now, u, i, rx) /\ LineInvs(u, xbd, rbuf)
         /\ kmc.sel46 \in (IF rx THEN RxPlace ELSE TxPlace)
         /\ Given(u) \subseteq Given(Now) /\ <<i, kmc.sel46[1]>> \in Given(Now)
         /\ rx \/ LastDesc(i, kmc.sel46) => <<i, kmc.sel46[1]>> \notin Given(u)
<1> DEFINE q == Row(Now, i, rx)
           l == kmc.sel46[1]
<1>1. /\ Now \in Works(TxLists) /\ Now.k = kmc /\ Now.d = dup
      /\ xbd \in [Lines -> [TxLists -> Msgs \cup {0}]]
    BY SysParts DEF SysTypes
<1>2. q # <<>> /\ q[1] = kmc.sel46 /\ Tail(q) = Queue(Now, i, rx)
    BY <1>1, RowReported
<1>3. \A j \in Lines, r \in BOOLEAN : Row(u, j, r) = Queue(Now, j, r)
  <2>1. \A j \in Lines, r \in BOOLEAN : Row(u, j, r) = Queue(u, j, r)
      BY RowIsQueue
  <2> QED BY <1>1, <2>1 DEF Queue
<1>4. ASSUME NEW j \in Lines, NEW r \in BOOLEAN, <<j, r>> # <<i, rx>>
      PROVE  Row(u, j, r) = Row(Now, j, r)
  <2>1. ~(kmc.sel2.rdo /\ kmc.sel2.line = j /\ kmc.sel2.iot = r)
      BY <1>4
  <2>2. Row(Now, j, r) = Queue(Now, j, r)
      BY <1>1, <2>1, RowIsQueue
  <2> QED BY <1>3, <2>2
<1>5. ReportedRows(Now, u, i, rx)
    BY <1>2, <1>3, <1>4 DEF ReportedRows
<1>6. LineInv(Now, i, xbd[i], rbuf[i])
    BY DEF LineInvs
<1>7. /\ kmc.sel46 \in (IF rx THEN RxPlace ELSE TxPlace)
      /\ IF rx THEN RxRow(Tail(q)) ELSE TxRow(xbd[i], Tail(q))
      /\ \A m : Without(q, m) => Without(Tail(q), m)
      /\ rx \/ LastDesc(i, kmc.sel46) => Without(Tail(q), l)
  <2>1. CASE rx
    <3>1. RxRow(q)
        BY <1>6, <2>1 DEF LineInv
    <3> HIDE DEF q
    <3>2. /\ q[1] \in RxPlace /\ RxRow(Tail(q))
          /\ \A m : Without(q, m) => Without(Tail(q), m)
          /\ Without(Tail(q), q[1][1])
        BY <1>2, <3>1, RxRowTail
    <3> QED BY <1>2, <2>1, <3>2
  <2>2. CASE ~rx
    <3>1. TxRow(xbd[i], q) /\ xbd[i] \in [TxLists -> Msgs \cup {0}]
        BY <1>1, <1>6, <2>2 DEF LineInv
    <3> HIDE DEF q
    <3>2. /\ q[1] \in TxPlace /\ TxRow(xbd[i], Tail(q))
          /\ \A m : Without(q, m) => Without(Tail(q), m)
          /\ q[1][2] = Segs[xbd[i][q[1][1]]] => Without(Tail(q), q[1][1])
        BY <1>2, <3>1, TxRowTail
    <3> QED BY <1>2, <2>2, <3>2 DEF LastDesc
  <2> QED BY <2>1, <2>2
<1>8. LineInvs(u, xbd, rbuf)
  <2>1. SUFFICES ASSUME NEW j \in Lines PROVE LineInv(u, j, xbd[j], rbuf[j])
      BY DEF LineInvs
  <2>2. LineInv(Now, j, xbd[j], rbuf[j])
      BY DEF LineInvs
  <2>3. TxRow(xbd[j], Row(u, j, FALSE))
    <3>1. CASE <<j, FALSE>> = <<i, rx>>
        BY <1>5, <1>7, <3>1 DEF ReportedRows
    <3>2. CASE <<j, FALSE>> # <<i, rx>>
      <4>1. Row(u, j, FALSE) = Row(Now, j, FALSE)
          BY <1>5, <3>2 DEF ReportedRows
      <4> QED BY <2>2, <4>1 DEF LineInv
    <3> QED BY <3>1, <3>2
  <2>4. RxRow(Row(u, j, TRUE))
    <3>1. CASE <<j, TRUE>> = <<i, rx>>
        BY <1>5, <1>7, <3>1 DEF ReportedRows
    <3>2. CASE <<j, TRUE>> # <<i, rx>>
      <4>1. Row(u, j, TRUE) = Row(Now, j, TRUE)
          BY <1>5, <3>2 DEF ReportedRows
      <4> QED BY <2>2, <4>1 DEF LineInv
    <3> QED BY <3>1, <3>2
  <2> QED BY <1>1, <2>2, <2>3, <2>4 DEF LineInv
<1>9. \A j \in Lines, m \in TxLists \cup RxLists : <<j, m>> \in Given(u) => <<j, m>> \in Given(Now)
  <2>1. SUFFICES ASSUME NEW j \in Lines, NEW m \in TxLists \cup RxLists, <<j, m>> \in Given(u)
                 PROVE  <<j, m>> \in Given(Now)
      OBVIOUS
  <2>2. PICK r \in BOOLEAN : ~Without(Row(u, j, r), m)
      BY <2>1, GivenIs
  <2>3. ~Without(Row(Now, j, r), m)
    <3>1. CASE <<j, r>> = <<i, rx>>
        BY <1>5, <1>7, <2>2, <3>1 DEF ReportedRows
    <3>2. CASE <<j, r>> # <<i, rx>>
        BY <1>4, <2>2, <3>2
    <3> QED BY <3>1, <3>2
  <2> QED BY <2>3, GivenIs
<1>10. Given(u) \subseteq Given(Now)
  <2>1. \A p \in Given(u) : p[1] \in Lines /\ p[2] \in TxLists \cup RxLists /\ p = <<p[1], p[2]>>
      BY Pairs DEF Given
  <2> QED BY <1>9, <2>1
<1>11. l \in (IF rx THEN RxLists ELSE TxLists)
    BY <1>7 DEF RxPlace, TxPlace
<1>12. <<i, l>> \in Given(Now)
  <2>1. ~Without(q, l)
    <3>1. q \in Seq(RxPlace) \/ q \in Seq(TxPlace)
        BY <1>6 DEF LineInv, TxRow, RxRow
    <3> HIDE DEF q
    <3>2. 1 \in 1 .. Len(q)
        BY <1>2, <3>1, EmptySeq, LenProperties
    <3> QED BY <1>2, <3>2 DEF Without
  <2> QED BY <1>11, <2>1, GivenIs
<1>13. ASSUME rx \/ LastDesc(i, kmc.sel46) PROVE <<i, l>> \notin Given(u)
  <2>1. Without(Row(u, i, rx), l)
      BY <1>3, <1>2, <1>7, <1>13
  <2>2. Without(Row(u, i, ~rx), l)
    <3>1. LineInv(u, i, xbd[i], rbuf[i])
        BY <1>8 DEF LineInvs
    <3>2. /\ \A m \in RxLists : Without(Row(u, i, FALSE), m)
          /\ \A m \in TxLists : Without(Row(u, i, TRUE), m)
        BY <3>1, RowLists
    <3> QED BY <1>11, <3>2
  <2>3. \A r \in BOOLEAN : r = rx \/ r = ~rx
      OBVIOUS
  <2> QED BY <1>11, <2>1, <2>2, <2>3, GivenIs
<1> QED BY <1>5, <1>7, <1>8, <1>10, <1>12, <1>13

LEMMA BAckStep ==
  ASSUME SysInv, BAck
  PROVE  /\ SysInv' /\ hcmd.line \in Lines /\ hcmd.iot \in BOOLEAN
         /\ ReportedRows(Now, Now', hcmd.line, hcmd.iot)
<1> DEFINE i == hcmd.line
           rx == hcmd.iot
           k == [kmc EXCEPT !.sel2 = Clear2]
           u == With(k)
           w == TryOutput(u)
<1>1. /\ SysTypes /\ RegInv /\ NetInv /\ MsgsInv /\ LineInvs(Now, xbd, rbuf)
      /\ kmc \in KmcBlocks(TxLists) /\ dup \in [Lines -> DupBlocks(TxLists)]
      /\ i \in Lines /\ rx \in BOOLEAN
    BY SysParts DEF SysInv, LinesInv, SysTypes, Command
<1>2. /\ hpc = "ack" /\ hpc' = "done" /\ WriteSel2(Clear2)
      /\ UNCHANGED <<xbd, rbuf, todo, inq, hcmd, hdesc, up, msgs>>
    BY DEF BAck
<1>3. /\ kmc.sel2.rdo /\ ~kmc.sel2.rdi /\ kmc.sel2.line = i /\ kmc.sel2.iot = rx
      /\ kmc.sel46 = hdesc /\ ~Clear2.rdo /\ ~Clear2.rdi
    BY <1>1, <1>2 DEF RegInv, Regs, Clear2
<1>4. Finish(w) /\ UNCHANGED net
    BY <1>2, <1>3 DEF WriteSel2, OutputDone
<1>5. /\ k \in KmcBlocks(TxLists) /\ k.sel2 = Clear2 /\ k.sel0 = kmc.sel0
      /\ k.sel46 = kmc.sel46 /\ k.int = kmc.int
    BY <1>1, Clear2Type DEF KmcBlocks
<1> HIDE DEF k
<1>6. u \in Works(TxLists) /\ u.k = k /\ u.d = dup
    BY <1>1, <1>5 DEF With, Works
<1> HIDE DEF u
<1>7. /\ ReportedRows(Now, u, i, rx) /\ LineInvs(u, xbd, rbuf)
      /\ hdesc \in (IF rx THEN RxPlace ELSE TxPlace)
      /\ Given(u) \subseteq Given(Now) /\ <<i, hdesc[1]>> \in Given(Now)
      /\ rx \/ LastDesc(i, hdesc) => <<i, hdesc[1]>> \notin Given(u)
  <2> HIDE DEF i, rx
  <2>1. ~u.k.sel2.rdo
      BY <1>3, <1>5, <1>6
  <2> QED BY <1>1, <1>3, <1>6, <2>1, ReportedParts
<1>8. w \in Works(TxLists) /\ SameRows(u, w)
    BY <1>6, TryOutputWork, TryOutputRows
<1>9. /\ Registers(k, w.k) /\ ~w.k.sel2.rdi
      /\ Requested(k, w.k) \/ w.k.int = k.int
    BY <1>3, <1>5, <1>6, TryOutputRegs
<1> HIDE DEF w
<1>10. Now' \in Works(TxLists) /\ SameRows(w, Now')
    BY <1>4, <1>8, FinishRows
<1>11. LineInvs(Now', xbd, rbuf) /\ Given(Now') = Given(u) /\ SameRows(u, Now')
  <2>1. SameRows(u, Now')
      BY <1>8, <1>10 DEF SameRows
  <2> QED BY <1>7, <2>1, LinesSame
<1>12. ReportedRows(Now, Now', i, rx)
    BY <1>1, <1>7, <1>11 DEF ReportedRows, SameRows
<1>13. RegInv'
  <2>1. Regs(w.k, inq', hpc', hcmd', hdesc')
      BY <1>1, <1>2, <1>5, <1>9 DEF RegInv, Regs, Registers
  <2>2. w.k.int \subseteq {"KMCA", "KMCB"} /\ w.k.sel0 = kmc.sel0
      BY <1>5, <1>8, <1>9 DEF Works, KmcBlocks, Registers
  <2>3. /\ "IEI" \in w.k.sel0 <=> "IEO" \in w.k.sel0
        /\ w.k.int # {} => "IEI" \in w.k.sel0
      BY <1>1, <1>5, <1>9, <2>2 DEF RegInv, Requested
  <2> QED BY <1>4, <1>8, <2>1, <2>3, FinishRegInv
<1>14. SysTypes' /\ NetInv' /\ MsgsInv' /\ LinesInv'
    BY <1>1, <1>2, <1>4, <1>7, <1>10, <1>11 DEF SysTypes, NetInv, MsgsInv, LinesInv
<1>15. PlacesInv'
  <2> DEFINE T == Keys(todo)
             E == Keys(Entries)
             G == Given(Now)
             g == Given(u)
             B == IF rx \/ LastDesc(i, hdesc) THEN {<<i, hdesc[1]>>} ELSE {}
  <2>1. Places(T, E, {}, G, {}, xbd, rbuf) /\ OnceEach(inq)
    <3>1. InHand = {} /\ Back = {}
        BY <1>2 DEF InHand, Back
    <3> QED BY <3>1 DEF SysInv, PlacesInv
  <2>2. /\ InHand' = {} /\ Back' = B /\ Keys(todo)' = T /\ Keys(Entries)' = E
        /\ OnceEach(inq)'
      BY <1>2, <2>1 DEF InHand, Back, Entries, LastDesc
  <2>3. g \subseteq G /\ B \subseteq G /\ g \cap B = {}
      BY <1>7
  <2>4. Places(T, E, {}, g, B, xbd, rbuf)
    <3> HIDE DEF T, E, G, g, B
    <3> QED BY <2>1, <2>3 DEF Places
  <2>5. Places(Keys(todo)', Keys(Entries)', InHand', Given(Now'), Back', xbd', rbuf')
      BY <1>2, <1>11, <2>2, <2>4
  <2> QED BY <2>2, <2>5 DEF PlacesInv
<1> QED BY <1>1, <1>12, <1>13, <1>14, <1>15 DEF SysInv

\* A command is carried out: a list is put behind its row.
Gave(w, v, c) ==
  \A j \in Lines, r \in BOOLEAN :
    Row(v, j, r) = IF c.buf /\ <<j, r>> = <<c.line, c.iot>>
                   THEN Row(w, j, r) \o Chain(c.line, c.desc, c.iot) ELSE Row(w, j, r)

\* A queue with room takes all of a list.
LEMMA AllAdded ==
  ASSUME NEW S, NEW q \in Seq(S), NEW c \in Seq(S), Len(q \o c) <= MaxQueue
  PROVE  Added(q, c) = q \o c
  BY DEF Added

LEMMA RxQueued ==
  ASSUME SysTypes, LineInvs(Now, xbd, rbuf), NEW i \in Lines, NEW l \in RxLists, rbuf[i][l] = None,
         RxRow(dup[i].rxqueue), Without(dup[i].rxqueue, l)
  PROVE  LET q == dup[i].rxqueue
             c == <<<<l, 1>>>>
             b == [dup[i] EXCEPT !.rxqueue = Added(q, c)]
         IN /\ b \in DupBlocks(TxLists) /\ b.rxqueue = q \o c /\ b.txqueue = dup[i].txqueue
            /\ RxRow(q \o c) /\ AtStart(b) /\ Vacant(b, rbuf[i])
            /\ \A m : Without(q, m) /\ m # l => Without(q \o c, m)
<1> DEFINE q == dup[i].rxqueue
           c == <<<<l, 1>>>>
           a == q \o c
           n == Added(q, c)
           b == [dup[i] EXCEPT !.rxqueue = n]
<1>1. /\ dup[i] \in Blocks(TxLists) /\ Fits(dup[i]) /\ q \in Seq(RxDesc) /\ Len(q) \in Nat
      /\ AtStart(dup[i]) /\ Vacant(dup[i], rbuf[i]) /\ dup[i].rxnext \in Nat
    BY SysParts, LenProperties DEF LineInvs, LineInv, Blocks
<1>2. /\ RxRow(a) /\ \A m : Without(q, m) /\ m # l => Without(a, m)
    BY RxRowAdd
<1>3. <<l, 1>> \in RxDesc
    BY DEF RxDesc
<1>4. /\ a \in Seq(RxDesc) /\ Len(a) = Len(q) + 1 /\ a[Len(q) + 1] = <<l, 1>>
      /\ \A j \in 1 .. Len(q) : a[j] = q[j]
  <2> DEFINE e == <<l, 1>>
  <2>1. e \in RxDesc
      BY <1>3
  <2> HIDE DEF e, q
  <2>2. /\ Append(q, e) \in Seq(RxDesc) /\ Len(Append(q, e)) = Len(q) + 1
        /\ Append(q, e)[Len(q) + 1] = e /\ \A j \in 1 .. Len(q) : Append(q, e)[j] = q[j]
      BY <1>1, <2>1, AppendProperties
  <2>3. Append(q, e) = q \o <<e>>
      BY <1>1, <2>1, AppendIsConcat
  <2> QED BY <2>2, <2>3 DEF e
<1>5. Len(a) <= MaxQueue
    BY <1>2, RxRoom
<1>6. n = a
  <2>1. c \in Seq(RxDesc)
      BY <1>3
  <2> HIDE DEF c, q
  <2> QED BY <1>1, <1>5, <2>1, AllAdded
<1> HIDE DEF n
<1>7. /\ b \in Blocks(TxLists) /\ b.rxqueue = a /\ b.txqueue = dup[i].txqueue
      /\ b.rxnext = dup[i].rxnext /\ b.txnext = dup[i].txnext /\ b.txnow = dup[i].txnow
  <2> HIDE DEF a
  <2> QED BY <1>1, <1>4, <1>6 DEF Blocks
<1> HIDE DEF b
<1>8. b \in DupBlocks(TxLists) /\ AtStart(b)
  <2> HIDE DEF a
  <2>1. b.rxnext <= Len(a)
      BY <1>1, <1>4, <1>7 DEF Fits
  <2> QED BY <1>1, <1>5, <1>7, <2>1 DEF DupBlocks, Fits, AtStart
<1>9. Vacant(b, rbuf[i])
  <2>1. SUFFICES ASSUME NEW j \in dup[i].rxnext + 1 .. Len(a) PROVE rbuf[i][a[j][1]] = None
      BY <1>7 DEF Vacant
  <2>2. j \in dup[i].rxnext + 1 .. Len(q) \/ j = Len(q) + 1
      BY <1>1, <1>4
  <2>3. CASE j \in dup[i].rxnext + 1 .. Len(q)
    <3>1. j \in 1 .. Len(q)
        BY <1>1, <2>3
    <3>2. a[j] = q[j]
        BY <1>4, <3>1
    <3> QED BY <1>1, <2>3, <3>2 DEF Vacant
  <2>4. CASE j = Len(q) + 1
    <3>1. a[j] = <<l, 1>>
        BY <1>4, <2>4
    <3> HIDE DEF a
    <3> QED BY <3>1
  <2> QED BY <2>2, <2>3, <2>4
<1> QED BY <1>2, <1>6, <1>7, <1>8, <1>9 DEF b, n

LEMMA TxQueued ==
  ASSUME SysTypes, LineInvs(Now, xbd, rbuf), Owns(xbd, msgs), NEW i \in Lines, NEW l \in TxLists,
         xbd[i][l] # 0, TxRow(xbd[i], dup[i].txqueue), Without(dup[i].txqueue, l)
  PROVE  LET q == dup[i].txqueue
             c == Chain(i, <<l, 1>>, FALSE)
             b == [dup[i] EXCEPT !.txqueue = Added(q, c)]
         IN /\ b \in DupBlocks(TxLists) /\ b.txqueue = q \o c /\ b.rxqueue = dup[i].rxqueue
            /\ TxRow(xbd[i], q \o c) /\ AtStart(b) /\ Vacant(b, rbuf[i])
            /\ \A m : Without(q, m) /\ m # l => Without(q \o c, m)
<1> DEFINE q == dup[i].txqueue
           c == Chain(i, <<l, 1>>, FALSE)
           s == Segs[xbd[i][l]]
           a == q \o c
           n == Added(q, c)
           b == [dup[i] EXCEPT !.txqueue = n]
           x == xbd[i]
<1>1. /\ dup[i] \in Blocks(TxLists) /\ Fits(dup[i]) /\ q \in Seq(TxDesc(TxLists)) /\ Len(q) \in Nat
      /\ AtStart(dup[i]) /\ Vacant(dup[i], rbuf[i])
      /\ dup[i].txnext \in Nat /\ dup[i].txnow \in Nat
    BY SysParts, LenProperties DEF LineInvs, LineInv, Blocks
<1>2. x \in [TxLists -> Msgs \cup {0}] /\ xbd \in [Lines -> [TxLists -> Msgs \cup {0}]]
    BY DEF SysTypes
<1>3. s \in {1, 2} /\ c \in Seq(TxPlace) /\ Len(c) = s /\ \A k \in 1 .. s : c[k] = <<l, k>>
    BY <1>2, ChainIs
<1> HIDE DEF c
<1>4. TxRow(x, a) /\ \A m : Without(q, m) /\ m # l => Without(a, m)
  <2> HIDE DEF a, q
  <2>1. TxRow(x, q) /\ x[l] # 0 /\ Without(q, l)
      BY DEF q
  <2> HIDE DEF x
  <2>2. s = Segs[x[l]]
      BY DEF x
  <2> HIDE DEF s
  <2> QED BY <1>2, <1>3, <2>1, <2>2, TxRowAdd DEF a
<1>5. /\ a \in Seq(TxDesc(TxLists)) /\ Len(a) = Len(q) + s /\ a[Len(q) + 1] = <<l, 1>>
      /\ \A j \in 1 .. Len(q) : a[j] = q[j]
  <2> HIDE DEF q, s
  <2>1. c \in Seq(TxDesc(TxLists))
      BY <1>3 DEF TxDesc, TxPlace
  <2>2. /\ a \in Seq(TxDesc(TxLists)) /\ Len(a) = Len(q) + Len(c)
        /\ \A j \in 1 .. Len(q) + Len(c) : a[j] = IF j <= Len(q) THEN q[j] ELSE c[j - Len(q)]
      BY <1>1, <2>1, ConcatProperties
  <2> HIDE DEF a
  <2>3. /\ Len(q) + 1 \in 1 .. Len(q) + Len(c) /\ ~(Len(q) + 1 <= Len(q))
        /\ (Len(q) + 1) - Len(q) = 1 /\ 1 \in 1 .. s
        /\ \A j \in 1 .. Len(q) : j \in 1 .. Len(q) + Len(c) /\ j <= Len(q)
      BY <1>1, <1>3
  <2> QED BY <1>3, <2>2, <2>3
<1>6. Len(a) <= MaxQueue
  <2>1. \A m, o \in TxLists : x[m] = x[o] /\ x[m] # 0 => m = o
      BY DEF Owns
  <2> HIDE DEF x, a
  <2> QED BY <1>2, <1>4, <2>1, TxRoom
<1>7. n = a
  <2>1. c \in Seq(TxDesc(TxLists))
      BY <1>3 DEF TxDesc, TxPlace
  <2> QED BY <1>1, <1>6, <2>1, AllAdded
<1> HIDE DEF n
<1>8. /\ b \in Blocks(TxLists) /\ b.txqueue = a /\ b.rxqueue = dup[i].rxqueue
      /\ b.rxnext = dup[i].rxnext /\ b.txnext = dup[i].txnext /\ b.txnow = dup[i].txnow
  <2> HIDE DEF a
  <2> QED BY <1>1, <1>5, <1>7 DEF Blocks
<1> HIDE DEF b
<1>9. b \in DupBlocks(TxLists) /\ Vacant(b, rbuf[i])
  <2> HIDE DEF a, s
  <2>1. b.txnext + b.txnow <= Len(a)
      BY <1>1, <1>3, <1>5, <1>8, SMTT(30) DEF Fits
  <2> QED BY <1>1, <1>6, <1>8, <2>1 DEF DupBlocks, Fits, Vacant
<1>10. AtStart(b)
  <2> DEFINE p == dup[i].txnext + dup[i].txnow
  <2>1. SUFFICES ASSUME p < Len(a) PROVE a[p + 1][2] = 1
      BY <1>8 DEF AtStart
  <2>2. p \in Nat /\ p <= Len(q)
      BY <1>1 DEF Fits
  <2>3. CASE p < Len(q)
    <3>1. q[p + 1][2] = 1
        BY <1>1, <2>3 DEF AtStart
    <3>2. p + 1 \in 1 .. Len(q)
        BY <1>1, <2>2, <2>3
    <3>3. a[p + 1] = q[p + 1]
        BY <1>5, <3>2
    <3> QED BY <3>1, <3>3
  <2>4. CASE p = Len(q)
    <3>1. a[p + 1] = <<l, 1>>
        BY <1>5, <2>4
    <3> QED BY <3>1
  <2>5. p < Len(q) \/ p = Len(q)
    <3> HIDE DEF p, q
    <3> QED BY <1>1, <2>2
  <2> QED BY <2>3, <2>4, <2>5
<1> QED BY <1>4, <1>7, <1>8, <1>9, <1>10 DEF b, n, c

\* The queue rx of line i becomes q, which has list l besides.
Grows(v, i, rx, l, q) ==
  /\ v \in Works(TxLists) /\ ~v.k.sel2.rdo
  /\ \A j \in Lines \ {i} : v.d[j] = dup[j]
  /\ Queue(v, i, rx) = q /\ Queue(v, i, ~rx) = Queue(Now, i, ~rx)
  /\ IF rx THEN RxRow(q) ELSE TxRow(xbd[i], q)
  /\ AtStart(v.d[i]) /\ Vacant(v.d[i], rbuf[i])
  /\ \A m : Without(Queue(Now, i, rx), m) /\ m # l => Without(q, m)

LEMMA RowGrows ==
  ASSUME SysTypes, LineInvs(Now, xbd, rbuf), ~kmc.sel2.rdo,
         NEW v, NEW i \in Lines, NEW rx \in BOOLEAN, NEW l, NEW q, Grows(v, i, rx, l, q)
  PROVE  /\ LineInvs(v, xbd, rbuf) /\ Given(v) \subseteq Given(Now) \cup {<<i, l>>}
         /\ \A j \in Lines, r \in BOOLEAN :
              Row(v, j, r) = IF <<j, r>> = <<i, rx>> THEN q ELSE Row(Now, j, r)
<1>0. /\ v \in Works(TxLists) /\ ~v.k.sel2.rdo /\ \A j \in Lines \ {i} : v.d[j] = dup[j]
      /\ Queue(v, i, rx) = q /\ Queue(v, i, ~rx) = Queue(Now, i, ~rx)
      /\ IF rx THEN RxRow(q) ELSE TxRow(xbd[i], q)
      /\ AtStart(v.d[i]) /\ Vacant(v.d[i], rbuf[i])
      /\ \A m : Without(Queue(Now, i, rx), m) /\ m # l => Without(q, m)
    BY DEF Grows
<1>1. Now \in Works(TxLists) /\ Now.k = kmc /\ Now.d = dup
    BY SysParts
<1>2. \A j \in Lines, r \in BOOLEAN :
        Row(v, j, r) = Queue(v, j, r) /\ Row(Now, j, r) = Queue(Now, j, r)
    BY <1>0, <1>1, RowIsQueue
<1>3. \A j \in Lines, r \in BOOLEAN :
        Row(v, j, r) = IF <<j, r>> = <<i, rx>> THEN q ELSE Row(Now, j, r)
  <2>1. SUFFICES ASSUME NEW j \in Lines, NEW r \in BOOLEAN
                 PROVE  Queue(v, j, r) = IF <<j, r>> = <<i, rx>> THEN q ELSE Queue(Now, j, r)
      BY <1>2
  <2>2. CASE j # i
      BY <1>0, <1>1, <2>2 DEF Queue
  <2>3. CASE j = i /\ r = rx
      BY <1>0, <2>3
  <2>4. CASE j = i /\ r = ~rx
      BY <1>0, <2>4
  <2> QED BY <2>2, <2>3, <2>4
<1>4. LineInvs(v, xbd, rbuf)
  <2>1. SUFFICES ASSUME NEW j \in Lines PROVE LineInv(v, j, xbd[j], rbuf[j])
      BY DEF LineInvs
  <2>2. LineInv(Now, j, xbd[j], rbuf[j])
      BY DEF LineInvs
  <2>3. CASE j # i
    <3>1. Row(v, j, TRUE) = Row(Now, j, TRUE) /\ Row(v, j, FALSE) = Row(Now, j, FALSE)
        BY <1>3, <2>3
    <3> QED BY <1>0, <1>1, <2>2, <2>3, <3>1 DEF LineInv
  <2>4. CASE j = i /\ rx
    <3>1. Row(v, j, TRUE) = q /\ Row(v, j, FALSE) = Row(Now, j, FALSE)
        BY <1>3, <2>4
    <3> QED BY <1>0, <2>2, <2>4, <3>1 DEF LineInv
  <2>5. CASE j = i /\ ~rx
    <3>1. Row(v, j, FALSE) = q /\ Row(v, j, TRUE) = Row(Now, j, TRUE)
        BY <1>3, <2>5
    <3> QED BY <1>0, <2>2, <2>5, <3>1 DEF LineInv
  <2> QED BY <2>3, <2>4, <2>5
<1>5. ASSUME NEW j \in Lines, NEW m \in TxLists \cup RxLists, <<j, m>> \in Given(v),
             <<j, m>> # <<i, l>>
      PROVE  <<j, m>> \in Given(Now)
  <2>1. PICK r \in BOOLEAN : ~Without(Row(v, j, r), m)
      BY <1>5, GivenIs
  <2>2. ~Without(Row(Now, j, r), m)
    <3>1. CASE <<j, r>> = <<i, rx>>
      <4>1. j = i /\ r = rx /\ m # l
          BY <1>5, <3>1
      <4>2. Row(v, j, r) = q /\ Row(Now, j, r) = Queue(Now, i, rx)
          BY <1>2, <1>3, <4>1
      <4> QED BY <1>0, <2>1, <4>1, <4>2
    <3>2. CASE <<j, r>> # <<i, rx>>
        BY <1>3, <2>1, <3>2
    <3> QED BY <3>1, <3>2
  <2> QED BY <2>2, GivenIs
<1>6. Given(v) \subseteq Given(Now) \cup {<<i, l>>}
  <2>1. \A p \in Given(v) : p[1] \in Lines /\ p[2] \in TxLists \cup RxLists /\ p = <<p[1], p[2]>>
      BY Pairs DEF Given
  <2> QED BY <1>5, <2>1
<1> QED BY <1>3, <1>4, <1>6

\* dup_newrxbuf and dup_newtxbuf with all the room they need.
LEMMA QueuedParts ==
  ASSUME SysTypes, LineInvs(Now, xbd, rbuf), Owns(xbd, msgs), ~kmc.sel2.rdo,
         NEW w \in Works(TxLists), w.d = dup, ~w.k.sel2.rdo,
         NEW c \in Commands, w.k.sel2.line = c.line, w.k.sel2.iot = c.iot, w.k.sel2.buf = c.buf,
         w.k.sel46 = c.desc,
         c.buf => /\ Key(c) \notin Given(Now)
                  /\ IF c.iot THEN rbuf[c.line][c.desc[1]] = None ELSE xbd[c.line][c.desc[1]] # 0
  PROVE  LET v == [k |-> w.k, d |-> Queued(w)]
         IN /\ v \in Works(TxLists) /\ LineInvs(v, xbd, rbuf)
            /\ Given(v) \subseteq Given(Now) \cup Keys({c}) /\ Gave(Now, v, c)
<1> DEFINE v == [k |-> w.k, d |-> Queued(w)]
           i == c.line
           l == c.desc[1]
<1>1. /\ Now \in Works(TxLists) /\ Now.k = kmc /\ Now.d = dup
      /\ dup \in [Lines -> DupBlocks(TxLists)] /\ w.k \in KmcBlocks(TxLists)
      /\ v.k = w.k /\ v.d = Queued(w)
    BY SysParts DEF Works
<1>2. /\ i \in Lines /\ c.iot \in BOOLEAN
      /\ c.buf /\ c.iot => c.desc = <<l, 1>> /\ l \in RxLists
      /\ c.buf /\ ~c.iot => c.desc = <<l, 1>> /\ l \in TxLists
  <2>1. /\ i \in Lines /\ c.iot \in BOOLEAN
        /\ c.buf /\ c.iot => c.desc \in RxPlace
        /\ c.buf /\ ~c.iot => c.desc \in TxLists \X {1}
      BY CommandIs
  <2>2. /\ \A e \in RxPlace : e = <<e[1], e[2]>> /\ e[2] = 1 /\ e[1] \in RxLists
        /\ \A e \in TxLists \X {1} : e = <<e[1], e[2]>> /\ e[2] = 1 /\ e[1] \in TxLists
      BY Pairs DEF RxPlace
  <2> QED BY <2>1, <2>2
<1>3. c.buf => c.desc # None
  <2>1. c.buf => c.desc \in RxPlace \/ c.desc \in TxLists \X {1}
      BY CommandIs
  <2>2. RxPlace \subseteq Desc /\ TxLists \X {1} \subseteq Desc
      BY DEF Desc, RxPlace
  <2> QED BY <2>1, <2>2, NoneAssumption
<1>4. ASSUME c.buf
      PROVE  /\ Keys({c}) = {<<i, l>>} /\ Key(c) = <<i, l>>
             /\ Row(Now, i, TRUE) = dup[i].rxqueue /\ Row(Now, i, FALSE) = dup[i].txqueue
  <2>1. \A r \in BOOLEAN : Row(Now, i, r) = Queue(Now, i, r)
      BY <1>1, <1>2, RowIsQueue
  <2>2. Keys({c}) = {<<i, l>>} /\ Key(c) = <<i, l>>
      BY <1>4, KeysOf DEF Key
  <2> QED BY <1>1, <2>1, <2>2 DEF Queue
<1> HIDE DEF v, i, l
<1>5. CASE ~c.buf
  <2>1. v.d = dup
      BY <1>1, <1>5 DEF Queued
  <2>2. \A j \in Lines, r \in BOOLEAN : Row(w, j, r) = Queue(w, j, r)
                                        /\ Row(Now, j, r) = Queue(Now, j, r)
      BY <1>1, RowIsQueue
  <2>3. v = w
      BY <2>1 DEF v, Works
  <2>4. SameRows(Now, v)
      BY <1>1, <2>2, <2>3 DEF SameRows, Queue
  <2>5. LineInvs(v, xbd, rbuf) /\ Given(v) = Given(Now)
      BY <2>4, LinesSame
  <2> QED BY <1>5, <2>3, <2>4, <2>5 DEF SameRows, Gave, v
<1>6. CASE c.buf /\ c.iot
  <2> DEFINE q == dup[i].rxqueue
             b == [dup[i] EXCEPT !.rxqueue = Added(q, <<<<l, 1>>>>)]
             rx == TRUE
  <2>1. Chain(i, c.desc, c.iot) = <<<<l, 1>>>>
      BY <1>2, <1>6 DEF Chain
  <2>2. Queued(w) = [dup EXCEPT ![i] = b]
      BY <1>3, <1>6, <2>1 DEF Queued, i
  <2>3. <<i, l>> \notin Given(Now) /\ rbuf[i][l] = None /\ i \in Lines /\ l \in RxLists
      BY <1>2, <1>4, <1>6 DEF i, l
  <2>4. RxRow(q) /\ Without(q, l)
    <3>1. RxRow(q)
        BY <1>4, <1>6, <2>3 DEF LineInvs, LineInv
    <3>2. Without(Row(Now, i, TRUE), l)
        BY <2>3, GivenIs
    <3> QED BY <1>4, <1>6, <3>1, <3>2
  <2>5. /\ b \in DupBlocks(TxLists) /\ b.rxqueue = q \o <<<<l, 1>>>> /\ b.txqueue = dup[i].txqueue
        /\ RxRow(q \o <<<<l, 1>>>>) /\ AtStart(b) /\ Vacant(b, rbuf[i])
        /\ \A m : Without(q, m) /\ m # l => Without(q \o <<<<l, 1>>>>, m)
      BY <2>3, <2>4, RxQueued
  <2> DEFINE a == q \o <<<<l, 1>>>>
  <2> HIDE DEF b
  <2>6. v.d \in [Lines -> DupBlocks(TxLists)] /\ v.d[i] = b /\ \A j \in Lines \ {i} : v.d[j] = dup[j]
      BY <1>1, <2>2, <2>3, <2>5
  <2>7. v \in Works(TxLists)
      BY <1>1, <2>6 DEF Works, v
  <2>8. rx \in BOOLEAN /\ Grows(v, i, rx, l, a)
    <3>1. /\ Queue(v, i, rx) = a /\ Queue(v, i, ~rx) = Queue(Now, i, ~rx)
          /\ IF rx THEN RxRow(a) ELSE TxRow(xbd[i], a)
          /\ \A m : Without(Queue(Now, i, rx), m) /\ m # l => Without(a, m)
          /\ AtStart(v.d[i]) /\ Vacant(v.d[i], rbuf[i]) /\ ~v.k.sel2.rdo
        BY <1>1, <2>5, <2>6 DEF Queue
    <3> HIDE DEF a
    <3> QED BY <2>6, <2>7, <3>1 DEF Grows
  <2>9. rx = c.iot /\ a = Row(Now, i, c.iot) \o Chain(i, c.desc, c.iot)
      BY <1>4, <1>6, <2>1
  <2> HIDE DEF a, rx
  <2>10. /\ LineInvs(v, xbd, rbuf) /\ Given(v) \subseteq Given(Now) \cup {<<i, l>>}
         /\ \A j \in Lines, r \in BOOLEAN :
              Row(v, j, r) = IF <<j, r>> = <<i, rx>> THEN a ELSE Row(Now, j, r)
      BY <2>3, <2>8, RowGrows, SMTT(30)
  <2>11. Gave(Now, v, c)
      BY <1>6, <2>9, <2>10 DEF Gave, i
  <2> QED BY <1>4, <1>6, <2>7, <2>10, <2>11 DEF v
<1>7. CASE c.buf /\ ~c.iot
  <2> DEFINE q == dup[i].txqueue
             f == Chain(i, <<l, 1>>, FALSE)
             b == [dup[i] EXCEPT !.txqueue = Added(q, f)]
             rx == FALSE
  <2>1. Chain(i, c.desc, c.iot) = f
      BY <1>2, <1>7 DEF i, l
  <2>2. Queued(w) = [dup EXCEPT ![i] = b]
      BY <1>3, <1>7, <2>1 DEF Queued, i
  <2>3. <<i, l>> \notin Given(Now) /\ xbd[i][l] # 0 /\ i \in Lines /\ l \in TxLists
      BY <1>2, <1>4, <1>7 DEF i, l
  <2>4. TxRow(xbd[i], q) /\ Without(q, l)
    <3>1. TxRow(xbd[i], q)
        BY <1>4, <1>7, <2>3 DEF LineInvs, LineInv
    <3>2. Without(Row(Now, i, FALSE), l)
        BY <2>3, GivenIs
    <3> QED BY <1>4, <1>7, <3>1, <3>2
  <2>5. /\ b \in DupBlocks(TxLists) /\ b.txqueue = q \o f /\ b.rxqueue = dup[i].rxqueue
        /\ TxRow(xbd[i], q \o f) /\ AtStart(b) /\ Vacant(b, rbuf[i])
        /\ \A m : Without(q, m) /\ m # l => Without(q \o f, m)
      BY <2>3, <2>4, TxQueued
  <2> DEFINE a == q \o f
  <2> HIDE DEF b
  <2>6. v.d \in [Lines -> DupBlocks(TxLists)] /\ v.d[i] = b /\ \A j \in Lines \ {i} : v.d[j] = dup[j]
      BY <1>1, <2>2, <2>3, <2>5
  <2>7. v \in Works(TxLists)
      BY <1>1, <2>6 DEF Works, v
  <2>8. rx \in BOOLEAN /\ Grows(v, i, rx, l, a)
    <3>1. /\ Queue(v, i, rx) = a /\ Queue(v, i, ~rx) = Queue(Now, i, ~rx)
          /\ IF rx THEN RxRow(a) ELSE TxRow(xbd[i], a)
          /\ \A m : Without(Queue(Now, i, rx), m) /\ m # l => Without(a, m)
          /\ AtStart(v.d[i]) /\ Vacant(v.d[i], rbuf[i]) /\ ~v.k.sel2.rdo
        BY <1>1, <2>5, <2>6 DEF Queue
    <3> HIDE DEF a
    <3> QED BY <2>6, <2>7, <3>1 DEF Grows
  <2>9. rx = c.iot /\ a = Row(Now, i, c.iot) \o Chain(i, c.desc, c.iot)
    <3>1. rx = c.iot
        BY <1>2, <1>7
    <3> QED BY <1>4, <1>7, <2>1, <3>1
  <2> HIDE DEF a, rx
  <2>10. /\ LineInvs(v, xbd, rbuf) /\ Given(v) \subseteq Given(Now) \cup {<<i, l>>}
         /\ \A j \in Lines, r \in BOOLEAN :
              Row(v, j, r) = IF <<j, r>> = <<i, rx>> THEN a ELSE Row(Now, j, r)
      BY <2>3, <2>8, RowGrows
  <2>11. Gave(Now, v, c)
      BY <1>7, <2>9, <2>10 DEF Gave, i
  <2> QED BY <1>4, <1>7, <2>7, <2>10, <2>11 DEF v
<1> QED BY <1>2, <1>5, <1>6, <1>7 DEF v

\* An input transaction ends: its command is carried out, and a transmission
\* may start.
LEMMA ASel2Step ==
  ASSUME SysInv, ASel2
  PROVE  SysInv' /\ hcmd \in Commands /\ hpc' = "off" /\ Gave(Now, Now', hcmd)
<1> DEFINE s == Sel2Of(hcmd)
           k == [kmc EXCEPT !.sel2 = s]
           w == With(k)
           v == [k |-> w.k, d |-> Queued(w)]
           y == [k |-> v.k, d |-> TryXmit(v.d, hcmd.line)]
<1>1. /\ SysTypes /\ RegInv /\ NetInv /\ MsgsInv /\ LineInvs(Now, xbd, rbuf) /\ Owns(xbd, msgs)
      /\ kmc \in KmcBlocks(TxLists) /\ dup \in [Lines -> DupBlocks(TxLists)]
      /\ xbd \in [Lines -> [TxLists -> Msgs \cup {0}]]
    BY SysParts DEF SysInv, LinesInv, SysTypes, MsgsInv
<1>2. /\ hpc = "sel2" /\ hpc' = "off" /\ hcmd' = NoCmd /\ WriteSel2(s)
      /\ UNCHANGED <<xbd, rbuf, todo, inq, hdesc, up, msgs>>
    BY DEF ASel2
<1>3. hcmd \in Commands /\ hcmd \in Command
    BY <1>1, <1>2 DEF SysTypes
<1>4. kmc.sel2.rdi /\ ~kmc.sel2.rdo /\ kmc.sel46 = hcmd.desc
    BY <1>1, <1>2 DEF RegInv, Regs
<1>5. /\ s \in Sel2 /\ ~s.rdo /\ ~s.rdi /\ s.line = hcmd.line /\ s.iot = hcmd.iot
      /\ s.buf = hcmd.buf
    BY <1>3 DEF Sel2Of, Sel2, Command
<1>6. InputDone(s)
    BY <1>2, <1>4, <1>5 DEF WriteSel2
<1> HIDE DEF s
<1>7. /\ k \in KmcBlocks(TxLists) /\ k.sel2 = s /\ k.sel0 = kmc.sel0
      /\ k.sel46 = kmc.sel46 /\ k.int = kmc.int
    BY <1>1, <1>5 DEF KmcBlocks
<1>8. /\ Starts(w) => Xmit(v.d, hcmd.line) /\ Finish(y)
      /\ ~Starts(w) => UNCHANGED net /\ Finish(v)
    BY <1>5, <1>6 DEF InputDone
<1> HIDE DEF k
<1>9. w \in Works(TxLists) /\ w.k = k /\ w.d = dup
    BY <1>1, <1>7 DEF With, Works
<1>10. Starts(w) <=> hcmd.buf /\ ~hcmd.iot
    BY <1>5, <1>7, <1>9 DEF Starts
<1> HIDE DEF w
<1>11. /\ Places(Keys(todo), Keys(Entries), Keys({hcmd}), Given(Now), {}, xbd, rbuf)
       /\ OnceEach(inq)
  <2>1. InHand = Keys({hcmd}) /\ Back = {}
      BY <1>2 DEF InHand, Back
  <2> QED BY <2>1 DEF SysInv, PlacesInv
<1>12. hcmd.buf => /\ Key(hcmd) \notin Given(Now)
                   /\ IF hcmd.iot THEN rbuf[hcmd.line][hcmd.desc[1]] = None
                      ELSE xbd[hcmd.line][hcmd.desc[1]] # 0
  <2>1. SUFFICES ASSUME hcmd.buf
                 PROVE  /\ Key(hcmd) \notin Given(Now)
                        /\ IF hcmd.iot THEN rbuf[hcmd.line][hcmd.desc[1]] = None
                           ELSE xbd[hcmd.line][hcmd.desc[1]] # 0
      OBVIOUS
  <2> DEFINE e == Key(hcmd)
  <2>2. e \in Keys({hcmd})
      BY <2>1, KeysOf
  <2>3. e[1] = hcmd.line /\ e[2] = hcmd.desc[1]
      BY DEF Key
  <2>4. e[2] \in (IF hcmd.iot THEN RxLists ELSE TxLists)
      BY <1>3, <2>1, <2>3, CommandIs DEF RxPlace
  <2> HIDE DEF e
  <2>5. /\ e \notin Given(Now)
        /\ e[2] \in TxLists => xbd[e[1]][e[2]] # 0
        /\ e[2] \in RxLists => rbuf[e[1]][e[2]] = None
      BY <1>11, <2>2 DEF Places
  <2> QED BY <2>3, <2>4, <2>5 DEF e
<1>13. /\ v \in Works(TxLists) /\ LineInvs(v, xbd, rbuf)
       /\ Given(v) \subseteq Given(Now) \cup Keys({hcmd}) /\ Gave(Now, v, hcmd)
  <2>1. /\ ~w.k.sel2.rdo /\ w.k.sel2.line = hcmd.line /\ w.k.sel2.iot = hcmd.iot
        /\ w.k.sel2.buf = hcmd.buf /\ w.k.sel46 = hcmd.desc
      BY <1>4, <1>5, <1>7, <1>9
  <2> QED BY <1>1, <1>3, <1>4, <1>9, <1>12, <2>1, QueuedParts
<1>14. v.k = k
    BY <1>9
<1> HIDE DEF v
<1>15. PICK x \in Works(TxLists) :
         x.k = k /\ SameRows(v, x) /\ Finish(x) /\ net' \in [Lines -> SUBSET Messages]
  <2>1. CASE Starts(w)
    <3>1. Xmit(v.d, hcmd.line) /\ Finish(y) /\ hcmd.line \in Lines
        BY <1>3, <1>8, <2>1 DEF Command
    <3>2. TxRow(xbd[hcmd.line], Row(v, hcmd.line, FALSE)) /\ AtStart(v.d[hcmd.line])
        BY <1>13, <3>1 DEF LineInvs, LineInv
    <3>3. y \in Works(TxLists) /\ SameRows(v, y) /\ net' \in [Lines -> SUBSET Messages]
        BY <1>1, <1>13, <3>1, <3>2, TryXmitStep
    <3>4. y.k = k
        BY <1>14
    <3> HIDE DEF y
    <3> QED BY <3>1, <3>3, <3>4
  <2>2. CASE ~Starts(w)
    <3>1. SameRows(v, v)
        BY DEF SameRows
    <3> QED BY <1>1, <1>8, <1>13, <1>14, <2>2, <3>1 DEF NetInv
  <2> QED BY <2>1, <2>2
<1>16. Now' \in Works(TxLists) /\ SameRows(x, Now')
    BY <1>15, FinishRows
<1>17. SameRows(v, Now')
    BY <1>15, <1>16 DEF SameRows
<1>18. LineInvs(Now', xbd, rbuf) /\ Given(Now') = Given(v)
    BY <1>13, <1>17, LinesSame
<1>19. Gave(Now, Now', hcmd)
    BY <1>13, <1>17 DEF Gave, SameRows
<1>20. RegInv'
  <2>1. Regs(k, inq', hpc', hcmd', hdesc')
      BY <1>1, <1>2, <1>5, <1>7 DEF RegInv, Regs
  <2>2. /\ "IEI" \in x.k.sel0 <=> "IEO" \in x.k.sel0
        /\ x.k.int # {} => "IEI" \in x.k.sel0
      BY <1>1, <1>7, <1>15 DEF RegInv
  <2> QED BY <1>15, <2>1, <2>2, FinishRegInv
<1>21. SysTypes' /\ NetInv' /\ MsgsInv' /\ LinesInv'
  <2>1. hcmd' \in Command
    <3>1. Min(Lines) \in Lines
        BY KmcAssumption, MinIsLeast
    <3> QED BY <1>2, <3>1 DEF NoCmd, Command
  <2> QED BY <1>1, <1>2, <1>15, <1>16, <1>18, <2>1 DEF SysTypes, NetInv, MsgsInv, LinesInv
<1>22. PlacesInv'
  <2> DEFINE T == Keys(todo)
             E == Keys(Entries)
             H == Keys({hcmd})
             G == Given(Now)
             g == Given(v)
  <2>1. Places(T, E, H, G, {}, xbd, rbuf) /\ g \subseteq G \cup H
      BY <1>11, <1>13
  <2>2. /\ InHand' = {} /\ Back' = {} /\ Keys(todo)' = T /\ Keys(Entries)' = E
        /\ OnceEach(inq)'
      BY <1>2, <1>11 DEF InHand, Back, Entries
  <2>3. Places(T, E, {}, g, {}, xbd, rbuf)
    <3> HIDE DEF T, E, H, G, g
    <3> QED BY <2>1 DEF Places
  <2>4. Places(Keys(todo)', Keys(Entries)', InHand', Given(Now'), Back', xbd', rbuf')
      BY <1>2, <1>18, <2>2, <2>3
  <2> QED BY <2>2, <2>4 DEF PlacesInv
<1> QED BY <1>2, <1>3, <1>19, <1>20, <1>21, <1>22 DEF SysInv

-----------------------------------------------------------------------------
(* Every step. *)

LEMMA SysInvStep ==
  ASSUME SysInv, SysNext
  PROVE  SysInv'
<1>1. CASE SysDevice
    BY <1>1, SysDupSvcStep, SysKmcSvcStep DEF SysDevice, DeviceStep
<1>2. CASE Handler
    BY <1>2, ATakeStep, ANextStep, ASel46Step, ASel2Step, BTakeStep, BSel46Step, BAckStep,
       BReplyStep, BReceivedStep, BSentStep DEF Handler
<1>3. CASE MLoad \/ MInit \/ MHalt \/ \E i \in Lines, l \in TxLists : MSend(i, l)
    BY <1>3, MLoadStep, MInitStep, MHaltStep, MSendStep
<1> QED BY <1>1, <1>2, <1>3 DEF SysNext

LEMMA SysInvStutter ==
  ASSUME SysInv, UNCHANGED sysvars
  PROVE  SysInv' /\ SameRows(Now, Now')
<1>1. /\ UNCHANGED <<kmc, dup, xbd, rbuf, net>>
      /\ UNCHANGED <<todo, inq, hpc, hcmd, hdesc, up, msgs>>
    BY DEF sysvars, kdpvars, driver
<1>2. /\ Now' = Now /\ Now' \in Works(TxLists) /\ SameRows(Now, Now')
    BY <1>1 DEF Now, With, SysInv, SysTypes, SameRows
<1>3. RegInv'
    BY <1>1 DEF SysInv, RegInv, Regs, RequestPending
<1>4. InHand' = InHand /\ Back' = Back /\ hcmd' \in Command
    BY <1>1 DEF InHand, Back, LastDesc, SysInv, SysTypes
<1> QED BY <1>1, <1>2, <1>3, <1>4, QuietStep DEF SysInv, SysTypes

LEMMA SysInvAlways == SysSpec => []SysInv
<1>1. SysInit => SysInv
    BY SysInvInit
<1>2. SysInv /\ [SysNext]_sysvars => SysInv'
    BY SysInvStep, SysInvStutter
<1> QED BY <1>1, <1>2, PTL DEF SysSpec

-----------------------------------------------------------------------------
(* The theorems. *)

\* The interrupt KMCVCA comes only for a granted input transaction, with a
\* command to give: the BUG check KMCIII never fires.
THEOREM InputIsExpected == SysSpec => []InputExpected
<1>1. SysInv => InputExpected
    BY DEF SysInv, RegInv, Regs, InputExpected
<1> QED BY <1>1, SysInvAlways, PTL

\* Between two accesses of the handlers KMCVCA and KMCVCB no routine of the
\* simulator changes the registers of their transaction.
THEOREM RegistersAreHeld == SysSpec => []RegistersHeld
<1>1. SysInv => RegistersHeld
    BY DEF SysInv, RegInv, Regs, RegistersHeld
<1> QED BY <1>1, SysInvAlways, PTL

\* An enabled ready bit of the KMC has its interrupt request, or its handler is
\* at work.
THEOREM RequestIsPending == SysSpec => []RequestPending
<1>1. SysInv => RequestPending
    BY DEF SysInv, RegInv
<1> QED BY <1>1, SysInvAlways, PTL

\* The network carries, and the receive buffers hold, whole messages only.
THEOREM FramesAreWhole == SysSpec => []WholeFrames
<1>1. SysInv => WholeFrames
  <2> SUFFICES ASSUME SysInv, NEW i \in Lines
               PROVE  /\ \A dg \in net[i] : Whole(dg)
                      /\ \A l \in RxLists : rbuf[i][l] # None => Whole(rbuf[i][l])
      BY DEF WholeFrames
  <2>1. net[i] \subseteq Messages /\ \A l \in RxLists : rbuf[i][l] \in Messages \cup {None}
      BY DEF SysInv, NetInv
  <2>2. \A dg \in Messages : Whole(dg)
      BY DEF Messages, Whole
  <2> QED BY <2>1, <2>2
<1> QED BY <1>1, SysInvAlways, PTL

\* A transmit list that the driver takes for free is neither with the processor
\* nor among the commands to come.
THEOREM FreeListsAreBack == SysSpec => []FreeListsBack
<1>1. SysInv => FreeListsBack
  <2> SUFFICES ASSUME SysInv, NEW i \in Lines, NEW l \in TxLists, xbd[i][l] = 0
               PROVE  /\ \A j \in 1 .. Len(dup[i].txqueue) : dup[i].txqueue[j][1] # l
                      /\ \A j \in 1 .. Len(inq) :
                           ~(inq[j].line = i /\ inq[j].desc # None /\ inq[j].desc[1] = l)
      BY DEF FreeListsBack
  <2>1. /\ Now \in Works(TxLists) /\ Now.d = dup /\ inq \in Seq(Commands)
        /\ xbd[i] \in [TxLists -> Msgs \cup {0}]
      BY SysParts DEF SysInv, SysTypes
  <2>2. ASSUME NEW j \in 1 .. Len(dup[i].txqueue) PROVE dup[i].txqueue[j][1] # l
    <3>1. TxRow(xbd[i], Row(Now, i, FALSE))
        BY DEF SysInv, LinesInv, LineInvs, LineInv
    <3>2. TxRow(xbd[i], dup[i].txqueue)
        BY <2>1, <3>1, QueueRows
    <3> QED BY <3>2 DEF TxRow
  <2>3. ASSUME NEW j \in 1 .. Len(inq), inq[j].line = i, inq[j].desc # None, inq[j].desc[1] = l
        PROVE  FALSE
    <3> DEFINE c == inq[j]
               e == Key(c)
    <3>1. c \in Commands
        BY <2>1, ElementOfSeq
    <3>2. c.buf
        BY <2>3, <3>1, CommandIs
    <3>3. e \in Keys(Entries)
      <4>1. c \in Entries
          BY DEF Entries, Elems
      <4> QED BY <3>2, <4>1 DEF Keys
    <3>4. e[1] = i /\ e[2] = l
        BY <2>3 DEF Key
    <3> HIDE DEF c, e
    <3>5. Places(Keys(todo), Keys(Entries), InHand, Given(Now), Back, xbd, rbuf)
        BY DEF SysInv, PlacesInv
    <3>6. xbd[e[1]][e[2]] # 0
        BY <3>3, <3>4, <3>5 DEF Places
    <3> QED BY <3>4, <3>6
  <2> QED BY <2>2, <2>3
<1> QED BY <1>1, SysInvAlways, PTL

\* A receive buffer is filled by kmc_svc and emptied by the driver, and it is
\* filled only when it is empty.
THEOREM NeverOverwritten == SysSpec => NoOverwrite
<1> DEFINE Kept == \A i \in Lines, l \in RxLists :
                     rbuf'[i][l] # rbuf[i][l] => rbuf[i][l] = None \/ rbuf'[i][l] = None
<1>1. ASSUME SysInv, SysNext PROVE [Kept]_rbuf
  <2>0. rbuf \in [Lines -> [RxLists -> Messages \cup {None}]]
      BY <1>1 DEF SysInv, NetInv
  <2>1. CASE SysDevice
    <3>1. ASSUME NEW i \in Lines, DupSvc(i) PROVE UNCHANGED rbuf
        BY <3>1 DEF DupSvc
    <3>2. ASSUME NEW got, KmcSvc(got), UNCHANGED driver PROVE Kept
        BY <1>1, <3>2, SysKmcSvcStep
    <3> HIDE DEF Kept
    <3> QED BY <2>1, <3>1, <3>2 DEF SysDevice, DeviceStep
  <2>2. ASSUME BReceived PROVE Kept
    <3>1. rbuf' = [rbuf EXCEPT ![hcmd.line][hdesc[1]] = None]
        BY <2>2 DEF BReceived
    <3> QED BY <2>0, <3>1
  <2>3. ASSUME MInit PROVE [Kept]_rbuf
    <3>1. PICK c \in todo :
            rbuf' = IF c.iot THEN [rbuf EXCEPT ![c.line][c.desc[1]] = None] ELSE rbuf
        BY <2>3 DEF MInit
    <3>2. CASE c.iot
        BY <2>0, <3>1, <3>2
    <3>3. CASE ~c.iot
        BY <3>1, <3>3
    <3> QED BY <3>2, <3>3
  <2>4. CASE Handler
    <3>1. ATake \/ ANext \/ ASel46 \/ ASel2 \/ BTake \/ BSel46 \/ BAck \/ BReply \/ BSent
            => UNCHANGED rbuf
        BY DEF ATake, ANext, ASel46, ASel2, BTake, BSel46, BAck, BReply, BSent, kdpvars
    <3> HIDE DEF Kept
    <3> QED BY <2>2, <2>4, <3>1 DEF Handler
  <2>5. MLoad \/ MHalt \/ (\E i \in Lines, l \in TxLists : MSend(i, l)) => UNCHANGED rbuf
      BY DEF MLoad, MHalt, MSend
  <2> HIDE DEF Kept
  <2> QED BY <1>1, <2>1, <2>3, <2>4, <2>5 DEF SysNext
<1>2. SysInv /\ [SysNext]_sysvars => [Kept]_rbuf
  <2>1. UNCHANGED sysvars => UNCHANGED rbuf
      BY DEF sysvars, kdpvars
  <2> HIDE DEF Kept
  <2> QED BY <1>1, <2>1
<1> QED BY <1>2, SysInvAlways, PTL DEF SysSpec, NoOverwrite

-----------------------------------------------------------------------------
(* The processor implements BufferService. *)

\* The state functions of the refinement mapping.
Offering == IF hpc = "sel2" /\ hcmd.buf
            THEN [queue |-> <<hcmd.line, hcmd.iot>>,
                  list |-> Chain(hcmd.line, hcmd.desc, hcmd.iot)]
            ELSE None

Rows     == [q \in Lines \X BOOLEAN |->
               Reporting(q[1], q[2]) \o
               (IF q[2] THEN dup[q[1]].rxqueue ELSE dup[q[1]].txqueue)]

LEMMA RowsAre ==
  /\ \A q \in Lines \X BOOLEAN : Rows[q] = Row(Now, q[1], q[2])
  /\ \A q \in Lines \X BOOLEAN : Rows'[q] = Row(Now', q[1], q[2])
<1>1. /\ Now.k = kmc /\ Now.d = dup
      /\ Now'.k = kmc' /\ Now'.d = dup'
    BY DEF Now, With
<1> QED BY <1>1 DEF Rows, Reporting, Row, Held, Queue

LEMMA RowsSame ==
  ASSUME SameRows(Now, Now')
  PROVE  Rows' = Rows
<1>1. \A q \in Lines \X BOOLEAN : Rows'[q] = Rows[q]
    BY RowsAre DEF SameRows
<1>2. Rows = [q \in Lines \X BOOLEAN |-> Rows[q]]
    BY DEF Rows
<1>3. Rows' = [q \in Lines \X BOOLEAN |-> Rows'[q]]
    BY DEF Rows
<1> HIDE DEF Rows
<1> QED BY <1>1, <1>2, <1>3

\* Outside KMCVCA, and there until SEL2 is written, nothing is given.
LEMMA QuietServes ==
  ASSUME SameRows(Now, Now'), Offering' = Offering
  PROVE  UNCHANGED Buffers!vars
<1>1. Rows' = Rows
    BY RowsSame
<1> QED BY <1>1 DEF Buffers!vars, Rows, Offering

\* The list in the hand of KMCVCA is one of descriptors.
LEMMA GivenList ==
  ASSUME SysInv, hpc \in {"sel6", "sel2"}, hcmd.buf
  PROVE  Chain(hcmd.line, hcmd.desc, hcmd.iot) \in Seq(Desc)
<1> DEFINE c == Chain(hcmd.line, hcmd.desc, hcmd.iot)
<1> SUFFICES c \in Seq(Desc)
    OBVIOUS
<1>1. hcmd \in Commands /\ hcmd.line \in Lines /\ hcmd.iot \in BOOLEAN
  <2>1. hcmd \in Commands
      BY DEF SysInv, SysTypes
  <2> QED BY <2>1, CommandIs
<1>2. CASE hcmd.iot
  <2>1. hcmd.desc \in Desc
      BY <1>1, <1>2, CommandIs DEF RxPlace, Desc
  <2>2. c = <<hcmd.desc>>
      BY <1>2 DEF Chain
  <2> HIDE DEF c
  <2> QED BY <2>1, <2>2
<1>3. CASE ~hcmd.iot
  <2>1. PICK l \in TxLists : hcmd.desc = <<l, 1>>
      BY <1>1, <1>3, CommandIs
  <2>2. xbd[hcmd.line][l] # 0
    <3> DEFINE e == Key(hcmd)
    <3>1. e \in Keys({hcmd})
        BY KeysOf
    <3>2. e[1] = hcmd.line /\ e[2] = l
        BY <2>1 DEF Key
    <3> HIDE DEF e
    <3>3. Places(Keys(todo), Keys(Entries), Keys({hcmd}), Given(Now), Back, xbd, rbuf)
        BY DEF SysInv, PlacesInv, InHand
    <3>4. xbd[e[1]][e[2]] # 0
        BY <3>1, <3>2, <3>3 DEF Places
    <3> QED BY <3>2, <3>4
  <2>3. xbd \in [Lines -> [TxLists -> Msgs \cup {0}]]
      BY DEF SysInv, SysTypes
  <2>4. Chain(hcmd.line, <<l, 1>>, FALSE) \in Seq(TxPlace)
      BY <1>1, <2>2, <2>3, ChainIs
  <2>5. c \in Seq(TxPlace)
    <3>1. hcmd.iot = FALSE
        BY <1>1, <1>3
    <3>2. c = Chain(hcmd.line, <<l, 1>>, FALSE)
        BY <2>1, <3>1
    <3> QED BY <2>4, <3>2
  <2>6. TxPlace \subseteq Desc
      BY DEF TxPlace, Desc
  <2> HIDE DEF c
  <2> QED BY <2>5, <2>6, SeqMonotonic
<1> QED BY <1>2, <1>3

\* With SEL4 and SEL6 written the list is what will be given.
LEMMA OfferServes ==
  ASSUME SysInv, ASel46
  PROVE  Buffers!Offer \/ UNCHANGED Buffers!vars
<1>1. Rows' = Rows
    BY ASel46Step, RowsSame
<1>2. hpc = "sel6" /\ hpc' = "sel2" /\ UNCHANGED <<hcmd, xbd>>
    BY DEF ASel46
<1>3. hcmd \in Commands
    BY <1>2 DEF SysInv, SysTypes
<1>4. Offering = None
    BY <1>2 DEF Offering
<1>5. CASE ~hcmd.buf
  <2>1. Offering' = None
      BY <1>2, <1>5 DEF Offering
  <2> QED BY <1>1, <1>4, <2>1 DEF Buffers!vars, Rows, Offering
<1>6. CASE hcmd.buf
  <2> DEFINE c == Chain(hcmd.line, hcmd.desc, hcmd.iot)
  <2>1. hcmd.line \in Lines /\ hcmd.iot \in BOOLEAN
      BY <1>3, CommandIs
  <2>2. c \in Seq(Desc)
      BY <1>2, <1>3, <1>6, GivenList
  <2>3. c' = c
      BY <1>2 DEF Chain
  <2>4. Offering' = [queue |-> <<hcmd.line, hcmd.iot>>, list |-> c]
      BY <1>2, <1>6, <2>3 DEF Offering
  <2> HIDE DEF c
  <2>5. Offering' \in [queue : Lines \X BOOLEAN, list : Seq(Desc)]
      BY <2>1, <2>2, <2>4
  <2>6. Offering' # None
      BY <2>5, NoneAssumption
  <2> QED BY <1>1, <1>4, <2>6 DEF Buffers!Offer, Rows, Offering
<1> QED BY <1>5, <1>6

\* The list is given with the write of SEL2.
LEMMA GiveServes ==
  ASSUME SysInv, ASel2
  PROVE  Buffers!Give \/ UNCHANGED Buffers!vars
<1> DEFINE e == <<hcmd.line, hcmd.iot>>
           c == Chain(hcmd.line, hcmd.desc, hcmd.iot)
<1>1. hcmd \in Commands /\ hpc = "sel2" /\ hpc' = "off" /\ Gave(Now, Now', hcmd)
    BY ASel2Step DEF ASel2
<1>2. Offering' = None
    BY <1>1 DEF Offering
<1>3. /\ \A q \in Lines \X BOOLEAN :
           Rows'[q] = IF hcmd.buf /\ q = e THEN Rows[q] \o c ELSE Rows[q]
      /\ Rows = [q \in Lines \X BOOLEAN |-> Rows[q]]
      /\ Rows' = [q \in Lines \X BOOLEAN |-> Rows'[q]]
  <2>1. ASSUME NEW q \in Lines \X BOOLEAN
        PROVE  Rows'[q] = IF hcmd.buf /\ q = e THEN Rows[q] \o c ELSE Rows[q]
    <3>1. q[1] \in Lines /\ q[2] \in BOOLEAN /\ q = <<q[1], q[2]>>
        BY Pairs
    <3>2. Row(Now', q[1], q[2]) = IF hcmd.buf /\ <<q[1], q[2]>> = e
                                  THEN Row(Now, q[1], q[2]) \o c ELSE Row(Now, q[1], q[2])
        BY <1>1, <3>1 DEF Gave
    <3>3. Rows[q] = Row(Now, q[1], q[2]) /\ Rows'[q] = Row(Now', q[1], q[2])
        BY RowsAre
    <3> HIDE DEF e, c
    <3> QED BY <3>1, <3>2, <3>3
  <2>2. /\ Rows = [q \in Lines \X BOOLEAN |-> Rows[q]]
        /\ Rows' = [q \in Lines \X BOOLEAN |-> Rows'[q]]
      BY DEF Rows
  <2> QED BY <2>1, <2>2
<1>4. CASE ~hcmd.buf
  <2>1. Offering = None
      BY <1>4 DEF Offering
  <2>2. Rows' = Rows
    <3> HIDE DEF e, c, Rows
    <3> QED BY <1>3, <1>4
  <2> QED BY <1>2, <2>1, <2>2 DEF Buffers!vars, Rows, Offering
<1>5. CASE hcmd.buf
  <2>1. Offering = [queue |-> e, list |-> c]
      BY <1>1, <1>5 DEF Offering
  <2>2. e \in Lines \X BOOLEAN /\ c \in Seq(Desc)
      BY <1>1, <1>5, CommandIs, GivenList
  <2> HIDE DEF e, c
  <2>3. Offering \in [queue : Lines \X BOOLEAN, list : Seq(Desc)]
      BY <2>1, <2>2
  <2>4. Offering # None
      BY <2>3, NoneAssumption
  <2>5. Rows' = [Rows EXCEPT ![Offering.queue] = @ \o Offering.list]
    <3>1. Offering.queue = e /\ Offering.list = c
        BY <2>1
    <3> HIDE DEF Rows, Offering
    <3> QED BY <1>3, <1>5, <2>2, <3>1
  <2> QED BY <1>2, <2>4, <2>5 DEF Buffers!Give, Rows, Offering
<1> QED BY <1>4, <1>5

\* A report is over when RDO is cleared.
LEMMA ReportServes ==
  ASSUME SysInv, BAck
  PROVE  Buffers!Report
<1> DEFINE e == <<hcmd.line, hcmd.iot>>
<1>1. /\ hcmd.line \in Lines /\ hcmd.iot \in BOOLEAN
      /\ ReportedRows(Now, Now', hcmd.line, hcmd.iot)
    BY BAckStep
<1>2. hpc = "ack" /\ hpc' = "done"
    BY DEF BAck
<1>3. Offering' = Offering
    BY <1>2 DEF Offering
<1>4. e \in Lines \X BOOLEAN /\ e[1] = hcmd.line /\ e[2] = hcmd.iot
    BY <1>1
<1>5. /\ Rows[e] # <<>>
      /\ \A q \in Lines \X BOOLEAN : Rows'[q] = IF q = e THEN Tail(Rows[q]) ELSE Rows[q]
  <2>1. Rows[e] # <<>>
      BY <1>1, <1>4, RowsAre DEF ReportedRows
  <2>2. ASSUME NEW q \in Lines \X BOOLEAN
        PROVE  Rows'[q] = IF q = e THEN Tail(Rows[q]) ELSE Rows[q]
    <3>1. q[1] \in Lines /\ q[2] \in BOOLEAN /\ q = <<q[1], q[2]>>
        BY Pairs
    <3>2. Rows[q] = Row(Now, q[1], q[2]) /\ Rows'[q] = Row(Now', q[1], q[2])
        BY RowsAre
    <3> QED BY <1>1, <3>1, <3>2 DEF ReportedRows
  <2> QED BY <2>1, <2>2
<1>6. Rows' = [Rows EXCEPT ![e] = Tail(@)]
  <2>1. /\ Rows = [q \in Lines \X BOOLEAN |-> Rows[q]]
        /\ Rows' = [q \in Lines \X BOOLEAN |-> Rows'[q]]
      BY DEF Rows
  <2> HIDE DEF e, Rows
  <2> QED BY <1>4, <1>5, <2>1
<1> HIDE DEF e
<1> QED BY <1>3, <1>4, <1>5, <1>6 DEF Buffers!Report, Rows, Offering

\* Loading the KMC takes everything away.
LEMMA ClearServes ==
  ASSUME SysInv, MLoad
  PROVE  Buffers!MasterClear
<1>1. hpc' = "off" /\ \A i \in Lines, rx \in BOOLEAN : Row(Now', i, rx) = <<>>
    BY MLoadStep
<1>2. Offering' = None
    BY <1>1 DEF Offering
<1>3. \A q \in Lines \X BOOLEAN : Rows'[q] = <<>>
    BY <1>1, RowsAre
<1>4. Rows' = [q \in Lines \X BOOLEAN |-> <<>>]
  <2>1. Rows' = [q \in Lines \X BOOLEAN |-> Rows'[q]]
      BY DEF Rows
  <2> HIDE DEF Rows
  <2> QED BY <1>3, <2>1
<1> QED BY <1>2, <1>4 DEF Buffers!MasterClear, Rows, Offering

LEMMA BuffersStep == SysInv /\ [SysNext]_sysvars => [Buffers!Next]_(Buffers!vars)
<1> SUFFICES ASSUME SysInv, [SysNext]_sysvars
             PROVE  Buffers!Next \/ UNCHANGED Buffers!vars
    OBVIOUS
<1> DEFINE Quiet == SameRows(Now, Now') /\ Offering' = Offering
<1>1. Quiet => UNCHANGED Buffers!vars
    BY QuietServes
<1>2. CASE SysDevice
  <2>1. UNCHANGED <<hpc, hcmd>> /\ xbd' = xbd
      BY <1>2 DEF SysDevice, DeviceStep, driver, DupSvc, KmcSvc
  <2>2. Offering' = Offering
      BY <2>1 DEF Offering, Chain
  <2>3. SameRows(Now, Now')
      BY <1>2, SysDupSvcStep, SysKmcSvcStep DEF SysDevice, DeviceStep
  <2> QED BY <1>1, <2>2, <2>3
<1>3. CASE ATake \/ ANext \/ BTake \/ BSel46 \/ BReply \/ BReceived \/ BSent
  <2>1. SameRows(Now, Now')
      BY <1>3, ATakeStep, ANextStep, BTakeStep, BSel46Step, BReplyStep, BReceivedStep, BSentStep
  <2>2. hpc # "sel2" /\ hpc' # "sel2"
      BY <1>3 DEF ATake, ANext, BTake, BSel46, BReply, BReceived, BSent, BEnd
  <2>3. Offering' = Offering
      BY <2>2 DEF Offering
  <2> QED BY <1>1, <2>1, <2>3
<1>4. CASE MInit \/ MHalt \/ \E i \in Lines, l \in TxLists : MSend(i, l)
  <2>1. SameRows(Now, Now')
      BY <1>4, MInitStep, MHaltStep, MSendStep
  <2>2. hpc = "off" /\ hpc' = "off"
      BY <1>4 DEF MInit, MHalt, MSend, Main
  <2>3. Offering' = Offering
      BY <2>2 DEF Offering
  <2> QED BY <1>1, <2>1, <2>3
<1>5. CASE ASel46
    BY <1>5, OfferServes DEF Buffers!Next
<1>6. CASE ASel2
    BY <1>6, GiveServes DEF Buffers!Next
<1>7. CASE BAck
    BY <1>7, ReportServes DEF Buffers!Next
<1>8. CASE MLoad
    BY <1>8, ClearServes DEF Buffers!Next
<1>9. CASE UNCHANGED sysvars
  <2>1. Offering' = Offering
      BY <1>9 DEF Offering, Chain, sysvars, kdpvars, driver
  <2> QED BY <1>1, <1>9, <2>1, SysInvStutter
<1> QED BY <1>2, <1>3, <1>4, <1>5, <1>6, <1>7, <1>8, <1>9 DEF SysNext, Handler

\* The KMC reports every descriptor of every list the driver gives it, once and
\* in the order given, on each line and in each direction; only a master clear
\* takes them away.
THEOREM BuffersServed == SysSpec => BufferServiceSpec
<1>1. SysInit => Buffers!Init
  <2> SUFFICES ASSUME SysInit
               PROVE  Buffers!Init
      OBVIOUS
  <2>1. hpc = "off" /\ \A i \in Lines, rx \in BOOLEAN : Row(Now, i, rx) = <<>>
      BY SysInvInit DEF SysInit
  <2>2. Offering = None
      BY <2>1 DEF Offering
  <2>3. \A q \in Lines \X BOOLEAN : Rows[q] = <<>>
      BY <2>1, RowsAre
  <2>4. Rows = [q \in Lines \X BOOLEAN |-> <<>>]
    <3>1. Rows = [q \in Lines \X BOOLEAN |-> Rows[q]]
        BY DEF Rows
    <3> HIDE DEF Rows
    <3> QED BY <2>3, <3>1
  <2> QED BY <2>2, <2>4 DEF Buffers!Init, Rows, Offering
<1> QED BY <1>1, BuffersStep, SysInvAlways, PTL
    DEF SysSpec, BufferServiceSpec, Buffers!Spec
=============================================================================
