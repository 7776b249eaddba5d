---------------------------- MODULE UnaRxProofs ----------------------------
(***************************************************************************)
(* The TOPS-10 driver on the DEUNA, continued: the receiver's part of the  *)
(* inductive invariant, and the theorems of the composed system; last, the *)
(* polling demands, with an invariant of their own (StallInv) on top of it.*)
(***************************************************************************)
EXTENDS UnaProofs

-----------------------------------------------------------------------------
(* Places of the ring. *)

\* One step around the ring at most.
LEMMA Around ==
  ASSUME NEW a \in RxIdx, NEW j \in 0 .. RxLen
  PROVE  (a + j) % RxLen = IF a + j < RxLen THEN a + j ELSE a + j - RxLen
<1>1. RxLen \in Nat \ {0} /\ a \in 0 .. RxLen - 1
    BY Consts
<1> QED BY <1>1

\* A place is in the ring.
LEMMA AroundType ==
  ASSUME NEW a \in RxIdx, NEW j \in 0 .. RxLen
  PROVE  (a + j) % RxLen \in RxIdx
<1>1. RxLen \in Nat \ {0} /\ a \in 0 .. RxLen - 1 /\ RxIdx = 0 .. RxLen - 1
    BY Consts
<1> QED BY <1>1, Around

\* Two walks along the ring are one.
LEMMA AroundTwice ==
  ASSUME NEW a \in RxIdx, NEW n \in 0 .. RxLen, NEW j \in 0 .. RxLen, n + j <= RxLen
  PROVE  (((a + n) % RxLen) + j) % RxLen = (a + (n + j)) % RxLen
<1>1. RxLen \in Nat \ {0} /\ a \in 0 .. RxLen - 1 /\ RxIdx = 0 .. RxLen - 1
    BY Consts
<1>2. (a + n) % RxLen = IF a + n < RxLen THEN a + n ELSE a + n - RxLen
    BY Around
<1>3. (a + (n + j)) % RxLen = IF a + (n + j) < RxLen THEN a + (n + j) ELSE a + (n + j) - RxLen
  <2>1. n + j \in 0 .. RxLen
      BY <1>1
  <2> QED BY <2>1, Around
<1> DEFINE b == (a + n) % RxLen
<1>4. b \in RxIdx
    BY AroundType
<1>5. (b + j) % RxLen = IF b + j < RxLen THEN b + j ELSE b + j - RxLen
  <2> HIDE DEF b
  <2> QED BY <1>4, Around
<1>6. n \in Nat /\ j \in Nat /\ a \in Nat /\ a < RxLen /\ RxLen \in Nat
    BY <1>1
<1>7. CASE a + n < RxLen
  <2>1. b = a + n /\ b + j = a + (n + j)
      BY <1>2, <1>6, <1>7
  <2> QED BY <1>3, <1>5, <1>6, <2>1
<1>8. CASE ~(a + n < RxLen)
  <2>1. b = a + n - RxLen /\ b + j = a + (n + j) - RxLen
      BY <1>2, <1>6, <1>8
  <2>2. b + j < RxLen /\ ~(a + (n + j) < RxLen)
      BY <1>6, <1>8, <2>1
  <2> HIDE DEF b
  <2>3. (b + j) % RxLen = b + j
      BY <1>5, <2>2
  <2>4. (a + (n + j)) % RxLen = a + (n + j) - RxLen
      BY <1>3, <2>2
  <2>5. (b + j) % RxLen = (a + (n + j)) % RxLen
      BY <2>1, <2>3, <2>4
  <2> QED BY <2>5 DEF b
<1> QED BY <1>7, <1>8

\* Different distances below the ring length end in different places.
LEMMA AroundOnce ==
  ASSUME NEW a \in RxIdx, NEW i \in RxIdx, NEW j \in RxIdx, (a + i) % RxLen = (a + j) % RxLen
  PROVE  i = j
<1>1. RxLen \in Nat \ {0} /\ a \in 0 .. RxLen - 1 /\ i \in 0 .. RxLen - 1 /\ j \in 0 .. RxLen - 1
    BY Consts
<1> QED BY <1>1, Around

\* Every entry is at some distance from any other.
LEMMA AroundAll ==
  ASSUME NEW a \in RxIdx, NEW i \in RxIdx
  PROVE  \E j \in RxIdx : (a + j) % RxLen = i
<1>1. RxLen \in Nat \ {0} /\ a \in 0 .. RxLen - 1 /\ i \in 0 .. RxLen - 1 /\ RxIdx = 0 .. RxLen - 1
    BY Consts
<1> DEFINE j == IF i >= a THEN i - a ELSE i - a + RxLen
<1>2. j \in RxIdx /\ j \in 0 .. RxLen
    BY <1>1
<1>3. (a + j) % RxLen = IF a + j < RxLen THEN a + j ELSE a + j - RxLen
    BY <1>2, Around
<1>4. (a + j) % RxLen = i
    BY <1>1, <1>3
<1> QED BY <1>2, <1>4

\* The first filled entry is the one at unarxn.
LEMMA PlaceZero ==
  ASSUME SysTypeOK
  PROVE  Place(0) = unarxn /\ 0 \in RxIdx /\ unarxn \in RxIdx
<1>1. RxLen \in Nat \ {0} /\ unarxn \in RxIdx /\ RxIdx = 0 .. RxLen - 1
    BY Consts DEF SysTypeOK
<1>2. unarxn \in 0 .. RxLen - 1 /\ 0 \in 0 .. RxLen - 1
    BY <1>1
<1>3. (unarxn + 0) % RxLen = unarxn
    BY <1>1, <1>2
<1> QED BY <1>1, <1>2, <1>3 DEF Place

-----------------------------------------------------------------------------
(* Steps that leave the ring alone. *)

\* Steps that leave both ring pointers, the ring and the wire alone.
LEMMA RxStill ==
  ASSUME RxInv, UNCHANGED <<rxside, ring, rxring, unarxn, wire, given, narr>>,
         AtEntry' <=> AtEntry, Prepared' => Prepared, RxNoticed'
  PROVE  RxInv'
<1>1. UNCHANGED <<Held, AllMapped, LastFrame>>
    BY DEF Held, AllMapped, LastFrame, R, rxside
<1>2. LastFrame' \in MaxPkts .. MaxPkts + narr'
    BY <1>1 DEF RxInv
<1>3. PICK n \in 0 .. RxLen : Segment(n) /\ Pipe(n)
    BY DEF RxInv, RxOrder
<1>4. Segment(n)'
  <2>1. UNCHANGED rxnext /\ \A j : UNCHANGED R(Place(j)) /\ UNCHANGED Place(j)
      BY DEF Place, R, rxside
  <2>2. rxnext' = Place(n)' /\ (AtEntry' => n # 0)
      BY <1>3, <2>1 DEF Segment
  <2>3. ASSUME NEW j \in RxIdx
        PROVE  /\ j < n => ~R(Place(j))'.own /\ R(Place(j))'.frame # None
               /\ j >= n => R(Place(j))'.frame = None /\ (Prepared' => R(Place(j))'.own)
      BY <1>3, <2>1 DEF Segment
  <2> QED BY <2>2, <2>3 DEF Segment
<1>5. Pipe(n)'
    BY <1>1, <1>3 DEF Pipe, PipeAt, PipeIdx, Place, R
<1> QED BY <1>1, <1>2, <1>3, <1>4, <1>5 DEF RxInv, RxOrder

\* Frames that wait in the filter are lost: the first, or all.
LEMMA WireLost ==
  ASSUME SysTypeOK, NEW n \in 0 .. RxLen, Pipe(n), AtEntry => n # 0,
         UNCHANGED <<rxring, unarxn, given, narr>>, AtEntry' <=> AtEntry,
         wire' = <<>> \/ (wire # <<>> /\ wire' = Tail(wire))
  PROVE  Pipe(n)'
<1>1. LastFrame' = LastFrame /\ n \in Nat
    BY Consts DEF LastFrame
<1>2. CASE wire' = <<>>
  <2>1. Len(wire') = 0 /\ Len(wire) \in Nat
      BY <1>2, LenProperties DEF SysTypeOK, TypeOK, TypeEth
  <2>2. \A i \in PipeIdx(n)' : i \in PipeIdx(n) /\ PipeAt(n, i)' = PipeAt(n, i)
      BY <1>1, <2>1 DEF PipeIdx, PipeAt, Place, R
  <2> QED BY <1>1, <2>2 DEF Pipe
<1>3. CASE wire # <<>> /\ wire' = Tail(wire)
  <2>1. /\ Len(wire) \in Nat \ {0} /\ Len(wire') = Len(wire) - 1
        /\ \A i \in 1 .. Len(wire') : wire'[i] = wire[i + 1]
      BY <1>3, HeadTailProperties, EmptySeq DEF SysTypeOK, TypeOK, TypeEth
  <2> DEFINE To(i) == IF i < n THEN i ELSE i + 1
  <2>2. \A i \in PipeIdx(n)' : i \in Nat /\ To(i) \in PipeIdx(n) /\ PipeAt(n, i)' = PipeAt(n, To(i))
    <3>1. SUFFICES ASSUME NEW i \in 0 .. n + Len(wire') - 1
                   PROVE  To(i) \in 0 .. n + Len(wire) - 1 /\ PipeAt(n, i)' = PipeAt(n, To(i))
        BY <1>1, <2>1 DEF PipeIdx
    <3>2. CASE i < n
        BY <1>1, <2>1, <3>2 DEF PipeAt, Place, R
    <3>3. CASE ~(i < n)
      <4>1. i - n + 1 \in 1 .. Len(wire') /\ ~(To(i) < n) /\ To(i) - n + 1 = i - n + 1 + 1
          BY <1>1, <2>1, <3>3
      <4> QED BY <1>1, <2>1, <3>3, <4>1 DEF PipeAt
    <3> QED BY <3>2, <3>3
  <2>3. \A i, j \in PipeIdx(n)' : i < j => To(i) < To(j)
      BY <1>1, <2>2
  <2>4. AtEntry => To(0) = 0
      BY <1>1
  <2> HIDE DEF To
  <2>5. ASSUME NEW i \in PipeIdx(n)'
        PROVE  LastFrame' < PipeAt(n, i)' \/ (AtEntry' /\ i = 0 /\ LastFrame' = PipeAt(n, i)')
    <3>1. \/ LastFrame < PipeAt(n, To(i))
          \/ AtEntry /\ To(i) = 0 /\ LastFrame = PipeAt(n, To(i))
        BY <2>2 DEF Pipe
    <3>2. To(i) = 0 => i = 0
        BY <1>1, <2>2 DEF To
    <3> QED BY <1>1, <2>2, <3>1, <3>2
  <2>6. \A i, j \in PipeIdx(n)' : i < j => PipeAt(n, i)' < PipeAt(n, j)'
      BY <2>2, <2>3 DEF Pipe
  <2>7. \A i \in PipeIdx(n)' : PipeAt(n, i)' <= MaxPkts + narr'
      BY <2>2 DEF Pipe
  <2> QED BY <2>5, <2>6, <2>7 DEF Pipe
<1> QED BY <1>2, <1>3

-----------------------------------------------------------------------------
(* The service routine. *)

\* deuna_poll takes hold of the next descriptor of the driver's ring.
LEMMA FetchNext ==
  ASSUME Inv, FetchRx, UNCHANGED <<ring, rxring>>
  PROVE  Held' /\ rxhdr'.dma /\ UNCHANGED rxnext
<1>0. Held /\ AllMapped /\ ring \in {NoFormat, Format} /\ SysTypeOK
  BY DEF Inv, RxInv, BootInv
<1>1. CASE rxactive
  BY <1>0, <1>1 DEF FetchRx, Held, AllMapped, R, rxside
<1>2. CASE ~rxactive
  <2>1. rxactive' /\ rxea' = <<ring.rdrb, rxnext>> /\ UNCHANGED rxnext
      BY <1>2 DEF FetchRx
  <2>2. CASE ring.rdrb = Hole
    <3>1. rxhdr' = rxhdr /\ ~rxhdr.own
        BY <1>0, <1>2, <2>2 DEF FetchRx, Held
    <3> QED BY <1>0, <2>1, <3>1 DEF Held, AllMapped
  <2>3. CASE ring.rdrb # Hole
    <3>1. ring = Format /\ ring.rdrb = Rdr
        BY <1>0, <2>3 DEF NoFormat, Rdr
    <3>2. rxhdr' = [own |-> R(rxnext).own, dma |-> R(rxnext).dma]
        BY <1>2, <2>3, <3>1 DEF FetchRx, R
    <3>3. rxnext \in RxIdx /\ Rdr \in RxRings
        BY <1>0, Consts DEF SysTypeOK, TypeOK, TypeRx
    <3> QED BY <1>0, <2>1, <3>1, <3>2, <3>3 DEF Held, AllMapped, R
  <2> QED BY <2>2, <2>3
<1> QED BY <1>1, <1>2

\* Every run but one that stores frames leaves the ring alone, and what waits
\* in the filter is kept, or lost from its front.
WireKept == wire' = wire \/ wire' = <<>> \/ (wire # <<>> /\ wire' = Tail(wire))

\* A step of the controller that fetches a descriptor, or loses frames.
LEMMA RxKeeps ==
  ASSUME Inv, SysDevice, ~ \E k \in 1 .. MaxWire : SvcReceiveStore(k)
  PROVE  Held' /\ rxhdr'.dma /\ UNCHANGED <<rxring, rxnext>> /\ WireKept
<1>0. /\ Held /\ AllMapped /\ ring \in {NoFormat, Format} /\ Svc(pcb) /\ pcmd \in DriverCmds
      /\ pcb.fmt = Format
  BY DEF Inv, RxInv, BootInv, SysDevice
<1>a. ASSUME UNCHANGED <<rxside, ring, rxring>>
      PROVE  Held' /\ rxhdr'.dma /\ UNCHANGED rxnext
  BY <1>0, <1>a DEF Held, AllMapped, R, rxside
<1> USE DEF WireKept
<1>1. CASE SvcReset \/ SvcGetPcb \/ SvcNoop \/ SvcPollError
  BY <1>1, <1>a DEF SvcReset, SvcGetPcb, SvcNoop, SvcPollError, port, mem, eth
<1>2. CASE SvcAux(pcb)
  <2>1. UNCHANGED <<rxside, mem, eth>> /\ ring' \in {ring, Format}
      BY <1>0, <1>2 DEF SvcAux
  <2> QED BY <1>0, <2>1 DEF Held, AllMapped, R, rxside, mem, eth
<1>3. CASE SvcSelfTest \/ SvcStop
  BY <1>0, <1>3 DEF SvcSelfTest, SvcStop, Command, DriverCmds
<1>4. CASE SvcStart
  <2>1. UNCHANGED <<port, rxactive, rxea, rxhdr, mem>>
      BY <1>4 DEF SvcStart
  <2>2. CASE state = "RUNNING"
    <3>1. UNCHANGED <<eth, rxnext>>
        BY <1>4, <2>2 DEF SvcStart
    <3> QED BY <1>a, <2>1, <3>1 DEF port, rxside, mem, eth
  <2>3. CASE state # "RUNNING"
    <3>1. wire = <<>> /\ rxnext = 0
        BY <2>3 DEF Inv, QuietInv
    <3>2. rxnext' = 0 /\ \E k \in 0 .. Len(wire) : wire' = SubSeq(wire, 1, k)
        BY <1>4, <2>3 DEF SvcStart, EthFilter
    <3>3. wire' = <<>>
      <4>1. Len(wire) = 0 /\ wire' = SubSeq(wire, 1, 0)
          BY <3>1, <3>2, EmptySeq
      <4> QED BY <4>1, SubSeqEmpty
    <3> QED BY <1>a, <2>1, <3>1, <3>2, <3>3 DEF port, rxside, mem
  <2> QED BY <2>2, <2>3
<1>5. CASE SvcPollRunt \/ SvcTxDone
  BY <1>5, <1>a DEF SvcPollRunt, SvcTxDone, port, eth
<1>6. CASE SvcPollSend \/ SvcPollIdle
  <2>1. FetchRx /\ UNCHANGED <<ring, rxring, wire>>
      BY <1>6 DEF SvcPollSend, SvcPollIdle, port, mem, eth
  <2> QED BY <2>1, FetchNext
<1>7. CASE SvcReceiveNone \/ SvcReceiveDrop
  BY <1>7, <1>a DEF SvcReceiveNone, SvcReceiveDrop, Receiving, port, eth
<1>8. CASE SvcReceiveRcbi
  BY <1>0, <1>8 DEF SvcReceiveRcbi, Receiving, port, Held, AllMapped
<1> QED BY <1>0, <1>1, <1>2, <1>3, <1>4, <1>5, <1>6, <1>7, <1>8 DEF Svc, SvcReceive

\* The bits the handler looks for stay where they are.
LEMMA NoticedDevice ==
  ASSUME Inv, SysDevice, rxring' = rxring \/ "RXI" \in status'
  PROVE  RxNoticed'
<1>1. RxNoticed /\ status \subseteq status' /\ UNCHANGED <<p4, hpc, hret>>
  BY DeviceCsrs DEF Inv, RxInv
<1> QED BY <1>1 DEF RxNoticed, InHandler

\* Every branch of deuna_svc but the one that stores frames.
LEMMA RxKeepsStep ==
  ASSUME Inv, SysDevice, ~ \E k \in 1 .. MaxWire : SvcReceiveStore(k)
  PROVE  RxInv'
<1>0. SysTypeOK /\ RxInv
  BY DEF Inv
<1>1. Held' /\ rxhdr'.dma /\ UNCHANGED <<rxring, rxnext>> /\ WireKept
  BY RxKeeps
<1>2. UNCHANGED <<unacmq, unarxn, hpc, hret, mpc, narr, given>>
  BY DeviceCsrs DEF queues
<1>3. (AtEntry' <=> AtEntry) /\ (Prepared' <=> Prepared) /\ LastFrame' = LastFrame
  BY <1>2 DEF AtEntry, Prepared, LastFrame
<1>4. PICK n \in 0 .. RxLen : Segment(n) /\ Pipe(n)
  BY <1>0 DEF RxInv, RxOrder
<1>5. Segment(n)'
  <2>1. rxnext' = Place(n)' /\ (AtEntry' => n # 0)
      BY <1>1, <1>2, <1>3, <1>4 DEF Segment, Place
  <2>2. \A j : R(Place(j))' = R(Place(j))
      BY <1>1, <1>2 DEF Place, R
  <2>3. ASSUME NEW j \in RxIdx
        PROVE  /\ j < n => ~R(Place(j))'.own /\ R(Place(j))'.frame # None
               /\ j >= n => R(Place(j))'.frame = None /\ (Prepared' => R(Place(j))'.own)
      BY <1>3, <1>4, <2>2 DEF Segment
  <2> QED BY <2>1, <2>3 DEF Segment
<1>6. Pipe(n)'
  <2>1. CASE wire' = wire
    <3>1. PipeIdx(n)' = PipeIdx(n) /\ \A i : PipeAt(n, i)' = PipeAt(n, i)
        BY <1>1, <1>2, <2>1 DEF PipeAt, PipeIdx, Place, R
    <3> QED BY <1>2, <1>3, <1>4, <3>1 DEF Pipe
  <2>2. CASE wire' # wire
    <3>1. AtEntry => n # 0
        BY <1>4 DEF Segment
    <3>2. wire' = <<>> \/ (wire # <<>> /\ wire' = Tail(wire))
        BY <1>1, <2>2 DEF WireKept
    <3> QED BY <1>0, <1>1, <1>2, <1>3, <1>4, <3>1, <3>2, WireLost
  <2> QED BY <2>1, <2>2
<1>7. RxNoticed'
  BY <1>1, NoticedDevice
<1>8. AllMapped'
  BY <1>0, <1>1 DEF RxInv, AllMapped
<1>9. LastFrame' \in MaxPkts .. MaxPkts + narr'
  BY <1>0, <1>2, <1>3 DEF RxInv
<1> QED BY <1>1, <1>5, <1>6, <1>7, <1>8, <1>9 DEF RxInv, RxOrder

\* rxstore begins at the descriptor held, which is the driver's next, and ends
\* at the latest where the entries begin that the driver has not returned.
Stores(j) == (rxnext + j) % RxLen

\* rxstore puts frame j + 1 into the j-th free entry after the filled ones.
LEMMA StorePlaces ==
  ASSUME Inv, NEW k \in 1 .. MaxWire, SvcReceiveStore(k), NEW n \in 0 .. RxLen, Segment(n)
  PROVE  /\ ring = Format /\ rxactive /\ rxhdr.own /\ rxhdr.dma
         /\ \A j \in Nat : StoreAt(j) = <<Rdr, Stores(j)>>
         /\ \A j \in 0 .. k - 1 : R(Stores(j)).own
         /\ \A i \in 0 .. k - 1, j \in 0 .. k - 1 : i < j => Stores(i) # Stores(j)
         /\ n + k <= RxLen
<1>0. Held /\ AllMapped /\ SysTypeOK /\ k \in Nat \ {0} /\ n \in Nat
  BY Consts, DeunaAssumption DEF Inv, RxInv
<1>1. \A j \in 0 .. k - 1 : OwnedAt(j)
  BY DEF SvcReceiveStore
<1>2. rxhdr.own
  <2>1. 0 \in 0 .. k - 1
      BY <1>0
  <2> QED BY <1>1, <2>1 DEF OwnedAt
<1>3. ring = Format /\ rxactive /\ rxea = <<Rdr, rxnext>> /\ R(rxnext).own /\ rxhdr.dma
  BY <1>0, <1>2 DEF Held, AllMapped
<1>4. rxnext \in RxIdx /\ RxIdx = 0 .. RxLen - 1 /\ RxLen \in Nat \ {0} /\ ring.rdrb = Rdr
  BY <1>0, <1>3, Consts DEF SysTypeOK, TypeOK, TypeRx, Rdr
<1>5. Stores(0) = rxnext
  <2>1. rxnext \in 0 .. RxLen - 1 /\ rxnext + 0 = rxnext
      BY <1>4
  <2> QED BY <1>4, <2>1 DEF Stores
<1>6. \A j \in Nat : StoreAt(j) = <<Rdr, Stores(j)>>
  BY <1>3, <1>4, <1>5 DEF StoreAt, Stores
<1>7. ASSUME NEW j \in 0 .. k - 1
      PROVE  R(Stores(j)).own
  <2>1. CASE j = 0
      BY <1>3, <1>5, <2>1
  <2>2. CASE j # 0
      BY <1>1, <1>4, <2>2 DEF OwnedAt, R, Stores
  <2> QED BY <2>1, <2>2
<1>8. ASSUME NEW i \in 0 .. k - 1, NEW j \in 0 .. k - 1, i < j
      PROVE  Stores(i) # Stores(j)
  <2>1. j # 0 /\ i \in 0 .. j - 1 /\ i \in Nat /\ j \in Nat
      BY <1>0, <1>8
  <2>2. StoreAt(i) # StoreAt(j)
      BY <1>1, <2>1 DEF OwnedAt
  <2> QED BY <1>6, <2>1, <2>2
<1>9. n + k <= RxLen
  <2> SUFFICES ASSUME RxLen - n \in 0 .. k - 1 PROVE FALSE
      BY <1>0, <1>4
  <2> DEFINE j == RxLen - n
  <2>1. Stores(j) = unarxn
    <3>1. rxnext = Place(n) /\ unarxn \in RxIdx
        BY <1>0 DEF Segment, SysTypeOK
    <3>2. j \in 0 .. RxLen /\ n + j = RxLen
        BY <1>0, <1>4
    <3>3. Stores(j) = (unarxn + RxLen) % RxLen
        BY <3>1, <3>2, AroundTwice DEF Stores, Place
    <3>4. (unarxn + RxLen) % RxLen = IF unarxn + RxLen < RxLen THEN unarxn + RxLen ELSE unarxn + RxLen - RxLen
      <4>1. RxLen \in 0 .. RxLen
          BY <1>4
      <4> QED BY <3>1, <4>1, Around
    <3> QED BY <1>4, <3>1, <3>3, <3>4
  <2>2. R(unarxn).own
      BY <1>7, <2>1
  <2>3. CASE n = 0
    <3>1. j = RxLen /\ j \in 0 .. k - 1 /\ 0 \in 0 .. k - 1 /\ 0 < j
        BY <1>4, <2>3
    <3>2. Stores(0) = Stores(j)
      <4>1. rxnext = Place(0)
          BY <2>3 DEF Segment
      <4> QED BY <1>0, <1>5, <2>1, <4>1, PlaceZero
    <3> QED BY <1>8, <3>1, <3>2
  <2>4. CASE n # 0
    <3>1. 0 \in RxIdx /\ 0 < n /\ Place(0) = unarxn
        BY <1>0, <1>4, <2>4, PlaceZero
    <3>2. ~R(Place(0)).own
        BY <3>1 DEF Segment
    <3> QED BY <2>2, <3>1, <3>2
  <2> QED BY <2>3, <2>4
<1> QED BY <1>2, <1>3, <1>6, <1>7, <1>8, <1>9

\* What rxstore leaves in the driver's ring.
LEMMA StoreRing ==
  ASSUME Inv, NEW k \in 1 .. MaxWire, SvcReceiveStore(k), NEW n \in 0 .. RxLen, Segment(n)
  PROVE  /\ \A j \in 0 .. k - 1 : ~rxring'[Rdr][Stores(j)].own /\ rxring'[Rdr][Stores(j)].frame = wire[j + 1]
         /\ \A i \in RxIdx : (\A j \in 0 .. k - 1 : Stores(j) # i) => rxring'[Rdr][i] = R(i)
         /\ \A r \in RxRings, i \in RxIdx : rxring'[r][i].dma
<1> DEFINE Js(r, i) == {j \in 0 .. k - 1 : StoreAt(j) = <<r, i>>}
           New(r, i) == LET js == Js(r, i)
                            e  == rxring[r][i]
                        IN IF js = {} THEN e
                           ELSE LET j == CHOOSE j \in js : TRUE
                                IN Filled(e, IF j = 0 THEN rxhdr.dma ELSE e.dma, wire[j + 1])
<1>0. AllMapped /\ SysTypeOK /\ k \in Nat \ {0} /\ Rdr \in RxRings
  BY Consts, DeunaAssumption DEF Inv, RxInv
<1>1. \A r \in RxRings, i \in RxIdx : rxring'[r][i] = New(r, i)
  BY DEF SvcReceiveStore
<1>2. \A r \in RxRings, i \in RxIdx : rxring[r][i] \in RxEntry /\ rxring[r][i].dma
  BY <1>0 DEF SysTypeOK, TypeOK, TypeMem, AllMapped
<1>3. \A j \in 0 .. k - 1 : StoreAt(j) = <<Rdr, Stores(j)>> /\ Stores(j) \in RxIdx
  <2>1. \A j \in Nat : StoreAt(j) = <<Rdr, Stores(j)>>
      BY StorePlaces
  <2>2. n + k <= RxLen /\ n \in Nat /\ RxLen \in Nat
      BY StorePlaces, Consts
  <2>3. \A j \in 0 .. k - 1 : j \in 0 .. RxLen
      BY <1>0, <2>2
  <2>4. rxnext \in RxIdx
      BY <1>0 DEF SysTypeOK, TypeOK, TypeRx
  <2>5. \A j \in 0 .. k - 1 : Stores(j) \in RxIdx
      BY <2>3, <2>4, AroundType DEF Stores
  <2> QED BY <1>0, <2>1, <2>5
<1>4. rxhdr.dma
  BY <1>0 DEF AllMapped
<1>5. ASSUME NEW r \in RxRings, NEW i \in RxIdx, Js(r, i) # {}
      PROVE  \E j \in 0 .. k - 1 : /\ StoreAt(j) = <<r, i>>
                                   /\ rxring'[r][i] = Filled(rxring[r][i], TRUE, wire[j + 1])
  <2> DEFINE j == CHOOSE j \in Js(r, i) : TRUE
  <2>1. j \in Js(r, i)
      BY <1>5
  <2>2. New(r, i) = Filled(rxring[r][i], IF j = 0 THEN rxhdr.dma ELSE rxring[r][i].dma, wire[j + 1])
      BY <1>5
  <2>3. (IF j = 0 THEN rxhdr.dma ELSE rxring[r][i].dma) = TRUE
    <3>1. rxhdr.dma = TRUE
        BY <1>0, <1>4 DEF SysTypeOK, TypeOK, TypeRx
    <3>2. rxring[r][i].dma = TRUE
        BY <1>2 DEF RxEntry
    <3> QED BY <3>1, <3>2
  <2>4. rxring'[r][i] = Filled(rxring[r][i], TRUE, wire[j + 1])
      BY <1>1, <2>2, <2>3
  <2> HIDE DEF j
  <2> QED BY <2>1, <2>4
<1>6. ASSUME NEW r \in RxRings, NEW i \in RxIdx, Js(r, i) = {}
      PROVE  rxring'[r][i] = rxring[r][i]
  BY <1>1, <1>6
<1> HIDE DEF New
<1>7. \A f : \A e \in RxEntry : /\ ~Filled(e, TRUE, f).own /\ Filled(e, TRUE, f).frame = f
                                /\ Filled(e, TRUE, f).dma = e.dma
  BY DEF Filled, RxEntry
<1>8. ASSUME NEW j \in 0 .. k - 1
      PROVE  ~rxring'[Rdr][Stores(j)].own /\ rxring'[Rdr][Stores(j)].frame = wire[j + 1]
  <2> DEFINE i == Stores(j)
  <2>1. i \in RxIdx /\ j \in Js(Rdr, i)
      BY <1>3
  <2>2. PICK jj \in 0 .. k - 1 : /\ StoreAt(jj) = <<Rdr, i>>
                                 /\ rxring'[Rdr][i] = Filled(rxring[Rdr][i], TRUE, wire[jj + 1])
      BY <1>0, <1>5, <2>1
  <2>3. Stores(jj) = Stores(j)
      BY <1>3, <2>2
  <2>4. jj = j
    <3>1. ~(jj < j) /\ ~(j < jj)
        BY <2>3, StorePlaces
    <3> QED BY <1>0, <3>1
  <2>5. ~rxring'[Rdr][i].own /\ rxring'[Rdr][i].frame = wire[j + 1]
    <3>1. rxring'[Rdr][i] = Filled(rxring[Rdr][i], TRUE, wire[j + 1])
        BY <2>2, <2>4
    <3>2. rxring[Rdr][i] \in RxEntry
        BY <1>0, <1>2, <2>1
    <3> HIDE DEF i
    <3> DEFINE e == rxring[Rdr][i]
    <3>3. ~Filled(e, TRUE, wire[j + 1]).own /\ Filled(e, TRUE, wire[j + 1]).frame = wire[j + 1]
        BY <1>7, <3>2
    <3> QED BY <3>1, <3>3
  <2> QED BY <2>5
<1>9. ASSUME NEW i \in RxIdx, \A j \in 0 .. k - 1 : Stores(j) # i
      PROVE  rxring'[Rdr][i] = R(i)
  <2>1. Js(Rdr, i) = {}
      BY <1>3, <1>9
  <2> QED BY <1>0, <1>6, <2>1 DEF R
<1>10. ASSUME NEW r \in RxRings, NEW i \in RxIdx
       PROVE  rxring'[r][i].dma
  <2>1. rxring[r][i] \in RxEntry /\ rxring[r][i].dma
      BY <1>2
  <2>2. CASE Js(r, i) = {}
      BY <1>6, <2>1, <2>2
  <2>3. CASE Js(r, i) # {}
    <3>1. PICK j \in 0 .. k - 1 : rxring'[r][i] = Filled(rxring[r][i], TRUE, wire[j + 1])
        BY <1>5, <2>3
    <3> QED BY <1>7, <2>1, <3>1
  <2> QED BY <2>2, <2>3
<1> QED BY <1>8, <1>9, <1>10

\* The descriptor that the port holds after storing.
LEMMA StoreHeader ==
  ASSUME Inv, NEW k \in 1 .. MaxWire, SvcReceiveStore(k), NEW n \in 0 .. RxLen, Segment(n)
  PROVE  Held' /\ AllMapped'
<1>0. k \in Nat \ {0} /\ SysTypeOK /\ AllMapped /\ Rdr \in RxRings /\ Rdr # Hole
  BY Consts, DeunaAssumption DEF Inv, RxInv
<1>1. ring = Format /\ rxactive /\ \A j \in Nat : StoreAt(j) = <<Rdr, Stores(j)>>
  BY StorePlaces
<1>2. /\ rxnext' = Stores(k) /\ rxea' = <<Rdr, rxnext'>> /\ ring' = ring /\ rxactive' = rxactive
      /\ rxhdr' = [own |-> OwnedAt(k), dma |-> R(rxnext').dma]
  BY <1>0, <1>1 DEF SvcReceiveStore, Receiving, port, Stores, Rdr, R
<1>3. rxnext' \in RxIdx
  <2>1. n + k <= RxLen /\ n \in Nat /\ RxLen \in Nat
      BY StorePlaces, Consts
  <2>2. k \in 0 .. RxLen /\ rxnext \in RxIdx
      BY <1>0, <2>1 DEF SysTypeOK, TypeOK, TypeRx
  <2> QED BY <1>2, <2>2, AroundType DEF Stores
<1>4. ASSUME rxhdr'.own
      PROVE  R(rxnext)'.own
  <2>1. OwnedAt(k)
      BY <1>2, <1>4
  <2>2. R(rxnext').own /\ \A i \in 0 .. k - 1 : StoreAt(i) # StoreAt(k)
      BY <1>0, <1>1, <1>2, <2>1 DEF OwnedAt, Stores, Rdr, R
  <2>3. \A i \in 0 .. k - 1 : Stores(i) # rxnext'
      BY <1>0, <1>1, <1>2, <2>2
  <2>4. rxring'[Rdr][rxnext'] = R(rxnext')
      BY <1>3, <2>3, StoreRing DEF R
  <2> QED BY <2>2, <2>4 DEF R
<1>5. Held'
  BY <1>1, <1>2, <1>4 DEF Held
<1>6. rxhdr'.dma
  BY <1>0, <1>2, <1>3 DEF AllMapped, R
<1>7. \A r \in RxRings, i \in RxIdx : rxring'[r][i].dma
  BY StoreRing
<1> QED BY <1>5, <1>6, <1>7 DEF AllMapped

\* Storing k frames lengthens the run of filled entries by k.
LEMMA RxStoreStep ==
  ASSUME Inv, SysDevice, NEW k \in 1 .. MaxWire, SvcReceiveStore(k)
  PROVE  RxInv'
<1>0. SysTypeOK /\ RxInv /\ k \in Nat \ {0} /\ RxLen \in Nat /\ RxIdx = 0 .. RxLen - 1
  BY Consts, DeunaAssumption DEF Inv
<1>1. UNCHANGED <<unacmq, unarxn, hpc, hret, mpc, narr, given>>
  BY DeviceCsrs DEF queues
<1>2. (AtEntry' <=> AtEntry) /\ (Prepared' <=> Prepared) /\ LastFrame' = LastFrame
  BY <1>1 DEF AtEntry, Prepared, LastFrame
<1>3. PICK n \in 0 .. RxLen : Segment(n) /\ Pipe(n)
  BY <1>0 DEF RxInv, RxOrder
<1> DEFINE m == n + k
<1>4. m \in 0 .. RxLen /\ m \in Nat /\ n \in Nat
  BY <1>0, <1>3, StorePlaces
<1>5. unarxn \in RxIdx /\ rxnext = Place(n) /\ \A j : Place(j)' = Place(j)
  BY <1>0, <1>1, <1>3 DEF Segment, SysTypeOK, Place
<1>6. ASSUME NEW j \in 0 .. k
      PROVE  Stores(j) = Place(n + j)
  <2>1. j \in 0 .. RxLen /\ n + j <= RxLen
      BY <1>0, <1>4
  <2> QED BY <1>5, <2>1, AroundTwice DEF Stores, Place
<1>7. rxnext' = Place(m) /\ wire' = SubSeq(wire, k + 1, Len(wire)) /\ k \in 1 .. Len(wire)
      /\ "RXI" \in status'
  <2>1. rxnext' = Stores(k) /\ k \in 0 .. k
      BY <1>0 DEF SvcReceiveStore, Stores
  <2> QED BY <1>6, <2>1 DEF SvcReceiveStore, Report, SetInt
<1>8. /\ Len(wire) \in Nat /\ Len(wire') = Len(wire) - k
      /\ \A i \in 1 .. Len(wire) - k : wire'[i] = wire[k + i]
      /\ \A i \in 1 .. Len(wire) : wire[i] \in Frames
  <2>1. wire \in Seq(Frames) /\ Len(wire) \in Nat
      BY <1>0, LenProperties DEF SysTypeOK, TypeOK, TypeEth
  <2>2. k + 1 \in 1 .. Len(wire) + 1 /\ Len(wire) \in k .. Len(wire)
      BY <1>0, <1>7, <2>1
  <2>3. /\ Len(wire') = Len(wire) - (k + 1) + 1
        /\ \A i \in 1 .. Len(wire) - (k + 1) + 1 : wire'[i] = wire[k + 1 + i - 1]
      BY <1>0, <1>7, <2>1, <2>2, SubSeqProperties
  <2>4. Len(wire) - (k + 1) + 1 = Len(wire) - k /\ \A i \in 1 .. Len(wire) - k : k + 1 + i - 1 = k + i
      BY <1>0, <2>1
  <2>5. \A i \in 1 .. Len(wire) : wire[i] \in Frames
      BY <2>1, ElementOfSeq
  <2> QED BY <2>1, <2>3, <2>4, <2>5
<1>9. ASSUME NEW i \in RxIdx, i < n \/ i >= m
      PROVE  R(Place(i))' = R(Place(i))
  <2>1. Place(i) \in RxIdx
    <3>1. i \in 0 .. RxLen
        BY <1>0
    <3> QED BY <1>5, <3>1, AroundType DEF Place
  <2>2. ASSUME NEW j \in 0 .. k - 1
        PROVE  Stores(j) # Place(i)
    <3>1. n + j \in RxIdx /\ n + j # i /\ j \in 0 .. k
        BY <1>0, <1>4, <1>9
    <3>2. Place(n + j) # Place(i)
        BY <1>5, <3>1, AroundOnce DEF Place
    <3> QED BY <1>6, <3>1, <3>2
  <2>3. rxring'[Rdr][Place(i)] = rxring[Rdr][Place(i)]
    <3> DEFINE p == Place(i)
    <3>1. p \in RxIdx /\ \A j \in 0 .. k - 1 : Stores(j) # p
        BY <2>1, <2>2
    <3> HIDE DEF p
    <3>2. rxring'[Rdr][p] = R(p)
        BY <1>3, <3>1, StoreRing
    <3> QED BY <3>2 DEF p, R
  <2> QED BY <1>5, <2>3 DEF R
<1>10. ASSUME NEW i \in RxIdx, n <= i, i < m
       PROVE  ~R(Place(i))'.own /\ R(Place(i))'.frame = wire[i - n + 1]
  <2>1. i - n \in 0 .. k - 1 /\ i - n \in 0 .. k /\ n + (i - n) = i
      BY <1>0, <1>4, <1>10
  <2>2. Stores(i - n) = Place(i)
      BY <1>6, <2>1
  <2>3. ~rxring'[Rdr][Stores(i - n)].own /\ rxring'[Rdr][Stores(i - n)].frame = wire[i - n + 1]
      BY <1>3, <2>1, StoreRing
  <2> QED BY <1>5, <2>2, <2>3 DEF R
<1>11. Segment(m)'
  <2>1. ASSUME NEW j \in RxIdx, j < m
        PROVE  ~R(Place(j))'.own /\ R(Place(j))'.frame # None
    <3>1. CASE j < n
        BY <1>3, <1>9, <3>1 DEF Segment
    <3>2. CASE ~(j < n)
      <4>1. n <= j /\ j - n + 1 \in 1 .. Len(wire)
          BY <1>0, <1>4, <1>7, <1>8, <2>1, <3>2
      <4>2. wire[j - n + 1] # None
          BY <1>8, <4>1, Consts
      <4> QED BY <1>10, <2>1, <4>1, <4>2
    <3> QED BY <3>1, <3>2
  <2>2. ASSUME NEW j \in RxIdx, j >= m
        PROVE  R(Place(j))'.frame = None /\ (Prepared' => R(Place(j))'.own)
    <3>1. j >= n
        BY <1>0, <1>4, <2>2
    <3>2. R(Place(j))' = R(Place(j))
        BY <1>9, <2>2
    <3> QED BY <1>2, <1>3, <3>1, <3>2 DEF Segment
  <2>3. rxnext' = Place(m)' /\ m # 0
      BY <1>0, <1>4, <1>5, <1>7
  <2>4. \A j \in RxIdx : j < m => ~R(Place(j))'.own /\ R(Place(j))'.frame # None
      BY <2>1
  <2>5. \A j \in RxIdx : j >= m => R(Place(j))'.frame = None /\ (Prepared' => R(Place(j))'.own)
      BY <2>2
  <2> HIDE DEF m
  <2> QED BY <2>3, <2>4, <2>5 DEF Segment
<1>12. PipeIdx(m)' = PipeIdx(n)
  <2>1. m + Len(wire') - 1 = n + Len(wire) - 1
      BY <1>0, <1>4, <1>8
  <2> QED BY <2>1 DEF PipeIdx
<1>13. ASSUME NEW i \in PipeIdx(n)
       PROVE  PipeAt(m, i)' = PipeAt(n, i)
  <2>0. i \in 0 .. n + Len(wire) - 1 /\ i \in Nat
      BY <1>4, <1>8 DEF PipeIdx
  <2>1. CASE i < m
    <3>1. i \in RxIdx /\ PipeAt(m, i)' = R(Place(i))'.frame
        BY <1>0, <1>4, <2>0, <2>1 DEF PipeAt
    <3>2. CASE i < n
        BY <1>9, <3>1, <3>2 DEF PipeAt
    <3>3. CASE ~(i < n)
        BY <1>4, <1>10, <2>0, <2>1, <3>1, <3>3 DEF PipeAt
    <3> QED BY <3>2, <3>3
  <2>2. CASE ~(i < m)
    <3>1. i - m + 1 \in 1 .. Len(wire) - k /\ k + (i - m + 1) = i - n + 1 /\ ~(i < n)
        BY <1>0, <1>4, <1>8, <2>0, <2>2
    <3>2. wire'[i - m + 1] = wire[k + (i - m + 1)]
        BY <1>8, <3>1
    <3>3. PipeAt(m, i)' = wire'[i - m + 1] /\ PipeAt(n, i) = wire[i - n + 1]
        BY <2>2, <3>1 DEF PipeAt
    <3> QED BY <3>1, <3>2, <3>3
  <2> QED BY <2>1, <2>2
<1>14. Pipe(m)'
  BY <1>1, <1>2, <1>3, <1>12, <1>13 DEF Pipe
<1>15. RxOrder'
  BY <1>4, <1>11, <1>14 DEF RxOrder
<1>16. RxNoticed'
  BY <1>7, NoticedDevice
<1>17. Held' /\ AllMapped'
  BY <1>3, StoreHeader
<1>18. LastFrame' \in MaxPkts .. MaxPkts + narr'
  BY <1>0, <1>1, <1>2 DEF RxInv
<1> QED BY <1>15, <1>16, <1>17, <1>18 DEF RxInv

-----------------------------------------------------------------------------
(* The network and the handler. *)

\* Filled entries and wire hold frames.
LEMMA PipeType ==
  ASSUME SysTypeOK, NEW n \in 0 .. RxLen, Segment(n)
  PROVE  \A i \in PipeIdx(n) : PipeAt(n, i) \in Frames /\ PipeAt(n, i) \in Nat
<1>1. Frames \subseteq Nat /\ n \in Nat /\ n <= RxLen /\ RxLen \in Nat /\ RxIdx = 0 .. RxLen - 1
  BY Consts
<1>2. wire \in Seq(Frames) /\ Len(wire) \in Nat /\ unarxn \in RxIdx
  BY LenProperties DEF SysTypeOK, TypeOK, TypeEth
<1>3. SUFFICES ASSUME NEW i \in 0 .. n + Len(wire) - 1
               PROVE  PipeAt(n, i) \in Frames
  BY <1>1 DEF PipeIdx
<1>4. CASE i < n
  <2>1. i \in RxIdx /\ i \in 0 .. RxLen
      BY <1>1, <1>2, <1>4
  <2>2. Place(i) \in RxIdx
      BY <1>2, <2>1, AroundType DEF Place
  <2>3. R(Place(i)) \in RxEntry
      BY <2>2, Consts DEF SysTypeOK, TypeOK, TypeMem, R
  <2>4. R(Place(i)).frame # None
      BY <1>4, <2>1 DEF Segment
  <2> QED BY <1>4, <2>3, <2>4 DEF PipeAt, RxEntry
<1>5. CASE ~(i < n)
  <2>1. i - n + 1 \in 1 .. Len(wire)
      BY <1>1, <1>2, <1>5
  <2> QED BY <1>2, <1>5, <2>1, ElementOfSeq DEF PipeAt
<1> QED BY <1>4, <1>5

\* The first entry that the driver has not returned is filled, or none is.
LEMMA FirstEntry ==
  ASSUME Inv, NEW n \in 0 .. RxLen, Segment(n)
  PROVE  /\ n # 0 => ~R(unarxn).own /\ R(unarxn).frame \in Frames /\ 0 \in PipeIdx(n)
                     /\ PipeAt(n, 0) = R(unarxn).frame
         /\ n = 0 => /\ \A i \in RxIdx : R(i).frame = None
                     /\ Prepared => R(unarxn).own
<1>0. SysTypeOK /\ Place(0) = unarxn /\ 0 \in RxIdx /\ unarxn \in RxIdx /\ n \in Nat
      /\ Len(wire) \in Nat
  BY PlaceZero, Consts, LenProperties DEF Inv, SysTypeOK, TypeOK, TypeEth
<1>1. ASSUME n # 0
      PROVE  ~R(unarxn).own /\ R(unarxn).frame \in Frames /\ 0 \in PipeIdx(n)
             /\ PipeAt(n, 0) = R(unarxn).frame
  <2>1. 0 < n /\ 0 \in PipeIdx(n)
      BY <1>0, <1>1 DEF PipeIdx
  <2>2. ~R(unarxn).own /\ PipeAt(n, 0) = R(unarxn).frame
      BY <1>0, <2>1 DEF Segment, PipeAt
  <2> QED BY <1>0, <2>1, <2>2, PipeType
<1>2. ASSUME n = 0
      PROVE  /\ \A i \in RxIdx : R(i).frame = None
             /\ Prepared => R(unarxn).own
  <2>1. \A j \in RxIdx : j >= n
      BY <1>2, Consts
  <2>2. ASSUME NEW i \in RxIdx
        PROVE  R(i).frame = None
    <3>1. PICK j \in RxIdx : Place(j) = i
        BY <1>0, AroundAll DEF Place
    <3> QED BY <2>1, <3>1 DEF Segment
  <2> QED BY <1>0, <2>1, <2>2 DEF Segment
<1> QED BY <1>1, <1>2

\* A frame that arrives is later than all others.
LEMMA RxArrive ==
  ASSUME Inv, SysArrive
  PROVE  RxInv'
<1>0. SysTypeOK /\ RxInv /\ narr \in Nat /\ MaxPkts \in Nat /\ wire \in Seq(Frames) /\ Len(wire) \in Nat
  BY Consts, LenProperties DEF Inv, SysTypeOK, TypeOK, TypeEth
<1> DEFINE f == MaxPkts + narr + 1
<1>1. wire' = Append(wire, f) /\ narr' = narr + 1 /\ f \in Frames
  BY <1>0, Consts DEF SysArrive, FrameArrives
<1>2. UNCHANGED <<rxside, ring, rxring, status, queues, p4, hpc, hret, mpc, given>>
  BY DEF SysArrive, FrameArrives, csrs, port, mem
<1>3. PICK n \in 0 .. RxLen : Segment(n) /\ Pipe(n)
  BY <1>0 DEF RxInv, RxOrder
<1>4. UNCHANGED <<Held, AllMapped, LastFrame, AtEntry, Prepared, RxNoticed>>
  BY <1>2 DEF Held, AllMapped, LastFrame, AtEntry, Prepared, RxNoticed, InHandler, R, rxside, queues
<1>5. Segment(n)'
  <2>1. UNCHANGED rxnext /\ \A j : UNCHANGED R(Place(j)) /\ UNCHANGED Place(j)
      BY <1>2 DEF Place, R, rxside, queues
  <2>2. rxnext' = Place(n)' /\ (AtEntry' => n # 0)
      BY <1>3, <1>4, <2>1 DEF Segment
  <2>3. ASSUME NEW j \in RxIdx
        PROVE  /\ j < n => ~R(Place(j))'.own /\ R(Place(j))'.frame # None
               /\ j >= n => R(Place(j))'.frame = None /\ (Prepared' => R(Place(j))'.own)
      BY <1>3, <1>4, <2>1 DEF Segment
  <2> QED BY <2>2, <2>3 DEF Segment
<1>6. /\ n \in Nat /\ Len(wire') = Len(wire) + 1 /\ wire'[Len(wire) + 1] = f
      /\ \A i \in 1 .. Len(wire) : wire'[i] = wire[i]
  BY <1>0, <1>1, Consts, AppendProperties
<1>6a. PICK last \in Nat : last = n + Len(wire)
  BY <1>0, <1>6
<1>7. PipeIdx(n)' = PipeIdx(n) \cup {last} /\ \A i \in PipeIdx(n) : i < last /\ i \in Nat
  BY <1>0, <1>6, <1>6a DEF PipeIdx
<1>8. ASSUME NEW i \in PipeIdx(n)
      PROVE  PipeAt(n, i)' = PipeAt(n, i)
  <2>1. CASE i < n
      BY <1>2, <2>1 DEF PipeAt, Place, R, queues
  <2>2. CASE ~(i < n)
    <3>1. i - n + 1 \in 1 .. Len(wire)
        BY <1>0, <1>6, <2>2 DEF PipeIdx
    <3> QED BY <1>6, <2>2, <3>1 DEF PipeAt
  <2> QED BY <2>1, <2>2
<1>9. PipeAt(n, last)' = f
  <2>1. ~(last < n) /\ last - n + 1 = Len(wire) + 1
      BY <1>0, <1>6, <1>6a
  <2> QED BY <1>6, <2>1 DEF PipeAt
<1>10. \A i \in PipeIdx(n) : PipeAt(n, i) \in Nat /\ PipeAt(n, i) <= MaxPkts + narr
  BY <1>0, <1>3, PipeType DEF Pipe
<1>11. LastFrame \in Nat /\ LastFrame < f
  BY <1>0 DEF RxInv
<1>12. Pipe(n)'
  <2>1. \A i, j \in PipeIdx(n)' : i < j => PipeAt(n, i)' < PipeAt(n, j)'
    <3> SUFFICES ASSUME NEW i \in PipeIdx(n)', NEW j \in PipeIdx(n)', i < j
                 PROVE  PipeAt(n, i)' < PipeAt(n, j)'
        OBVIOUS
    <3>1. i \in PipeIdx(n)
        BY <1>0, <1>6, <1>7
    <3>2. CASE j \in PipeIdx(n)
        BY <1>3, <1>8, <3>1, <3>2 DEF Pipe
    <3>3. CASE j = last
        BY <1>0, <1>8, <1>9, <1>10, <3>1, <3>3
    <3> QED BY <1>7, <3>2, <3>3
  <2>2. \A i \in PipeIdx(n)' : PipeAt(n, i)' <= MaxPkts + narr'
      BY <1>0, <1>1, <1>7, <1>8, <1>9, <1>10
  <2>3. \A i \in PipeIdx(n)' : \/ LastFrame' < PipeAt(n, i)'
                               \/ AtEntry' /\ i = 0 /\ LastFrame' = PipeAt(n, i)'
      BY <1>3, <1>4, <1>7, <1>8, <1>9, <1>11 DEF Pipe
  <2> QED BY <2>1, <2>2, <2>3 DEF Pipe
<1>13. LastFrame' \in MaxPkts .. MaxPkts + narr'
  BY <1>0, <1>1, <1>4 DEF RxInv
<1> QED BY <1>0, <1>3, <1>4, <1>5, <1>12, <1>13 DEF RxInv, RxOrder

\* The frame at the head goes to its protocol.
LEMMA RxGive ==
  ASSUME Inv, HRxiGive
  PROVE  RxInv' /\ given' \in Seq(Frames)
<1>0. SysTypeOK /\ RxInv /\ narr \in Nat /\ MaxPkts \in Nat /\ given \in Seq(Frames)
  BY Consts DEF Inv, SysTypeOK
<1> DEFINE f == R(unarxn).frame
<1>1. /\ hpc = "rxi" /\ ~R(unarxn).own /\ given' = Append(given, f)
      /\ UNCHANGED <<vars, unacmq, unarxn, p4, mpc, narr>>
  BY DEF HRxiGive, R
<1>2. AtEntry' /\ ~AtEntry /\ (Prepared' <=> Prepared)
  BY <1>1 DEF HRxiGive, AtEntry, Prepared
<1>3. PICK n \in 0 .. RxLen : Segment(n) /\ Pipe(n)
  BY <1>0 DEF RxInv, RxOrder
<1>4. Prepared
  BY <1>0, <1>1 DEF Inv, QuietInv, BootInv, Booting, Prepared
<1>5. n # 0
  BY <1>1, <1>3, <1>4, FirstEntry
<1>6. f \in Frames /\ PipeAt(n, 0) = f /\ 0 \in PipeIdx(n)
  BY <1>3, <1>5, FirstEntry
<1>7. given' \in Seq(Frames) /\ LastFrame' = f
  <2>1. /\ Append(given, f) \in Seq(Frames) /\ Append(given, f) # <<>>
        /\ Len(Append(given, f)) = Len(given) + 1 /\ Append(given, f)[Len(given) + 1] = f
      BY <1>0, <1>6, AppendProperties
  <2> QED BY <1>1, <2>1 DEF LastFrame
<1>8. UNCHANGED <<rxside, ring, rxring, wire, status>>
  BY <1>1 DEF vars, csrs, port, mem, eth
<1>9. UNCHANGED <<Held, AllMapped>>
  BY <1>8 DEF Held, AllMapped, R, rxside
<1>10. Segment(n)'
  <2>1. UNCHANGED rxnext /\ \A j : UNCHANGED R(Place(j)) /\ UNCHANGED Place(j)
      BY <1>1, <1>8 DEF Place, R, rxside
  <2>2. rxnext' = Place(n)' /\ (AtEntry' => n # 0)
      BY <1>3, <1>5, <2>1 DEF Segment
  <2>3. ASSUME NEW j \in RxIdx
        PROVE  /\ j < n => ~R(Place(j))'.own /\ R(Place(j))'.frame # None
               /\ j >= n => R(Place(j))'.frame = None /\ (Prepared' => R(Place(j))'.own)
      BY <1>2, <1>3, <2>1 DEF Segment
  <2> QED BY <2>2, <2>3 DEF Segment
<1>11. PipeIdx(n)' = PipeIdx(n) /\ \A i : PipeAt(n, i)' = PipeAt(n, i)
  BY <1>1, <1>8 DEF PipeAt, PipeIdx, Place, R
<1>12. Pipe(n)'
  <2>1. \A i \in PipeIdx(n) : i = 0 \/ f < PipeAt(n, i)
    <3>1. \A i \in PipeIdx(n) : i = 0 \/ 0 < i
        BY <1>0, Consts, LenProperties DEF PipeIdx
    <3> QED BY <1>3, <1>6, <3>1 DEF Pipe
  <2> QED BY <1>1, <1>2, <1>3, <1>6, <1>7, <1>11, <2>1 DEF Pipe
<1>13. LastFrame' \in MaxPkts .. MaxPkts + narr'
  <2>1. LastFrame \in Nat /\ LastFrame >= MaxPkts /\ LastFrame < f /\ f <= MaxPkts + narr
      BY <1>0, <1>2, <1>3, <1>6 DEF RxInv, Pipe
  <2>2. f \in Nat
      BY <1>6, Consts
  <2> QED BY <1>0, <1>1, <1>7, <2>1, <2>2
<1>14. RxNoticed'
  BY <1>0, <1>1, <1>8 DEF RxInv, RxNoticed, InHandler, HRxiGive
<1> QED BY <1>0, <1>3, <1>7, <1>9, <1>10, <1>12, <1>13, <1>14 DEF RxInv, RxOrder

\* The entry goes back, and the filled entries begin one further.
LEMMA RxReturn ==
  ASSUME Inv, HRxiReturn
  PROVE  RxInv'
<1>0. /\ SysTypeOK /\ RxInv /\ unarxn \in RxIdx /\ rxnext \in RxIdx /\ Rdr \in RxRings
      /\ RxLen \in Nat /\ RxLen >= 2 /\ RxIdx = 0 .. RxLen - 1 /\ Len(wire) \in Nat
  BY Consts, LenProperties DEF Inv, SysTypeOK, TypeOK, TypeRx, TypeEth
<1>1. /\ hpc = "rxi.2" /\ hpc' = "rxi" /\ unarxn' = (unarxn + 1) % RxLen
      /\ UNCHANGED <<rxside, ring, status, wire, unacmq, p4, hret, mpc, narr, given>>
  BY DEF HRxiReturn, NextRx, device, csrs, port, eth, seen
<1>2. AtEntry /\ ~AtEntry' /\ (Prepared' <=> Prepared) /\ LastFrame' = LastFrame
  BY <1>1 DEF AtEntry, Prepared, LastFrame
<1>3. PICK n \in 0 .. RxLen : Segment(n) /\ Pipe(n)
  BY <1>0 DEF RxInv, RxOrder
<1>4. PICK m \in Nat : n = m + 1 /\ m \in 0 .. RxLen
  <2>1. n \in Nat \ {0} /\ n <= RxLen
      BY <1>0, <1>2, <1>3 DEF Segment
  <2>2. n - 1 \in Nat /\ n = n - 1 + 1 /\ n - 1 \in 0 .. RxLen
      BY <1>0, <2>1
  <2> QED BY <2>2
<1> DEFINE Free(e) == [e EXCEPT !.own = TRUE, !.err = FALSE, !.frame = None]
<1>5. /\ rxring' = [rxring EXCEPT ![Rdr][unarxn] = Free(@)]
      /\ \A r \in RxRings, i \in RxIdx : rxring[r][i] \in RxEntry /\ rxring[r][i].dma
  BY <1>0 DEF HRxiReturn, SysTypeOK, TypeOK, TypeMem, RxInv, AllMapped
<1>6. \A e \in RxEntry : Free(e).own /\ Free(e).frame = None /\ Free(e).dma = e.dma
  BY DEF RxEntry
<1> HIDE DEF Free
<1>7. \A r \in RxRings, i \in RxIdx :
        rxring'[r][i] = IF r = Rdr /\ i = unarxn THEN Free(rxring[r][i]) ELSE rxring[r][i]
  BY <1>0, <1>5 DEF SysTypeOK, TypeOK, TypeMem
<1>8. rxring'[Rdr][unarxn].own /\ rxring'[Rdr][unarxn].frame = None
  <2>1. rxring'[Rdr][unarxn] = Free(rxring[Rdr][unarxn]) /\ rxring[Rdr][unarxn] \in RxEntry
      BY <1>0, <1>5, <1>7
  <2> QED BY <1>6, <2>1
<1>9. ASSUME NEW j \in RxIdx
      PROVE  Place(j)' = Place(j + 1)
  <2>1. j \in 0 .. RxLen /\ 1 \in 0 .. RxLen /\ 1 + j <= RxLen /\ 1 + j = j + 1
      BY <1>0
  <2>2. (((unarxn + 1) % RxLen) + j) % RxLen = (unarxn + (1 + j)) % RxLen
      BY <1>0, <2>1, AroundTwice
  <2> QED BY <1>1, <2>1, <2>2 DEF Place
<1>10. Place(RxLen) = unarxn
  <2>1. RxLen \in 0 .. RxLen
      BY <1>0
  <2>2. (unarxn + RxLen) % RxLen = IF unarxn + RxLen < RxLen THEN unarxn + RxLen ELSE unarxn + RxLen - RxLen
      BY <1>0, <2>1, Around
  <2> QED BY <1>0, <2>2 DEF Place
<1>11. ASSUME NEW j \in RxIdx, j + 1 \in RxIdx
       PROVE  R(Place(j))' = R(Place(j + 1))
  <2>1. Place(j + 1) # unarxn /\ Place(j + 1) \in RxIdx
    <3>1. 0 \in RxIdx /\ Place(0) = unarxn /\ j + 1 # 0 /\ j + 1 \in 0 .. RxLen
        BY <1>0, PlaceZero
    <3> DEFINE i == j + 1
    <3>2. i \in RxIdx /\ i # 0 /\ i \in 0 .. RxLen
        BY <1>11, <3>1
    <3> HIDE DEF i
    <3>3. Place(i) # Place(0) /\ Place(i) \in RxIdx
        BY <1>0, <3>1, <3>2, AroundOnce, AroundType DEF Place
    <3> QED BY <3>1, <3>3 DEF i
  <2>2. rxring'[Rdr][Place(j + 1)] = rxring[Rdr][Place(j + 1)]
      BY <1>0, <1>7, <2>1
  <2> QED BY <1>9, <2>2 DEF R
<1>12. rxnext' = Place(m)'
  <2>1. rxnext' = Place(m + 1)
      BY <1>1, <1>3, <1>4 DEF Segment, rxside
  <2>2. m \in RxIdx
      BY <1>0, <1>4
  <2> QED BY <1>9, <2>1, <2>2
<1>13. Segment(m)'
  <2>1. ASSUME NEW j \in RxIdx, j < m
        PROVE  ~R(Place(j))'.own /\ R(Place(j))'.frame # None
    <3>1. j + 1 \in RxIdx /\ j + 1 < n
        BY <1>0, <1>4, <2>1
    <3> QED BY <1>3, <1>11, <3>1 DEF Segment
  <2>2. ASSUME NEW j \in RxIdx, j >= m
        PROVE  R(Place(j))'.frame = None /\ (Prepared' => R(Place(j))'.own)
    <3>1. CASE j + 1 \in RxIdx
      <4>1. j + 1 >= n
          BY <1>0, <1>4, <2>2
      <4> QED BY <1>2, <1>3, <1>11, <3>1, <4>1 DEF Segment
    <3>2. CASE j + 1 \notin RxIdx
      <4>1. j + 1 = RxLen
          BY <1>0, <3>2
      <4> QED BY <1>8, <1>9, <1>10, <4>1 DEF R
    <3> QED BY <3>1, <3>2
  <2>3. \A j \in RxIdx : j < m => ~R(Place(j))'.own /\ R(Place(j))'.frame # None
      BY <2>1
  <2>4. \A j \in RxIdx : j >= m => R(Place(j))'.frame = None /\ (Prepared' => R(Place(j))'.own)
      BY <2>2
  <2> QED BY <1>2, <1>12, <2>3, <2>4 DEF Segment
<1>14. ASSUME NEW i \in PipeIdx(m)'
       PROVE  i \in Nat /\ i + 1 \in PipeIdx(n) /\ PipeAt(m, i)' = PipeAt(n, i + 1)
  <2>0. i \in Nat /\ i \in 0 .. m + Len(wire) - 1
      BY <1>0, <1>1, <1>4 DEF PipeIdx
  <2>1. i + 1 \in PipeIdx(n)
      BY <1>0, <1>4, <2>0 DEF PipeIdx
  <2>2. CASE i < m
    <3>1. i \in RxIdx /\ i + 1 \in RxIdx /\ i + 1 < n
        BY <1>0, <1>4, <2>0, <2>2
    <3> QED BY <1>11, <2>0, <2>1, <2>2, <3>1 DEF PipeAt
  <2>3. CASE ~(i < m)
    <3>1. ~(i + 1 < n) /\ i + 1 - n + 1 = i - m + 1
        BY <1>4, <2>0, <2>3
    <3> QED BY <1>1, <2>0, <2>1, <2>3, <3>1 DEF PipeAt
  <2> QED BY <2>2, <2>3
<1>15. Pipe(m)'
  <2>1. \A i, j \in PipeIdx(m)' : i < j => PipeAt(m, i)' < PipeAt(m, j)'
    <3>1. \A i, j \in PipeIdx(m)' : i < j => i + 1 < j + 1
        BY <1>14
    <3> QED BY <1>3, <1>14, <3>1 DEF Pipe
  <2>2. \A i \in PipeIdx(m)' : PipeAt(m, i)' <= MaxPkts + narr'
      BY <1>1, <1>3, <1>14 DEF Pipe
  <2>3. ASSUME NEW i \in PipeIdx(m)'
        PROVE  LastFrame' < PipeAt(m, i)'
    <3>1. i + 1 # 0 /\ i + 1 \in PipeIdx(n)
        BY <1>14
    <3>2. LastFrame < PipeAt(n, i + 1)
        BY <1>3, <3>1 DEF Pipe
    <3> QED BY <1>2, <1>14, <3>2
  <2> QED BY <2>1, <2>2, <2>3 DEF Pipe
<1>16. Held'
  <2>1. ASSUME R(rxnext).own PROVE rxring'[Rdr][rxnext].own
      BY <1>0, <1>7, <1>8, <2>1 DEF R
  <2> QED BY <1>0, <1>1, <2>1 DEF RxInv, Held, R, rxside
<1>17. AllMapped'
  <2>1. ASSUME NEW r \in RxRings, NEW i \in RxIdx
        PROVE  rxring'[r][i].dma
      BY <1>5, <1>6, <1>7
  <2> QED BY <1>0, <1>1, <2>1 DEF RxInv, AllMapped, rxside
<1>18. RxNoticed'
  <2>1. ASSUME NEW i \in RxIdx, rxring'[Rdr][i].frame # None
        PROVE  rxring[Rdr][i].frame # None
      BY <1>0, <1>7, <1>8, <2>1
  <2> QED BY <1>0, <1>1, <2>1 DEF RxInv, RxNoticed, InHandler
<1>19. LastFrame' \in MaxPkts .. MaxPkts + narr'
  BY <1>0, <1>1, <1>2 DEF RxInv
<1> QED BY <1>4, <1>13, <1>15, <1>16, <1>17, <1>18, <1>19 DEF RxInv, RxOrder

\* q1wfm builds the rings anew while nothing has been received yet.
LEMMA RxBuild ==
  ASSUME Inv, HDniCommand, unacmq[1] = "qf.wfm"
  PROVE  RxInv'
<1>0. SysTypeOK /\ RxInv /\ Rdr \in RxRings /\ RxLen \in Nat /\ RxLen >= 2 /\ RxIdx = 0 .. RxLen - 1
  BY Consts DEF Inv
<1>1. /\ Build /\ unarxn' = 0 /\ unacmq # <<>> /\ hpc = "dni" /\ hpc' \in {"pcsr", "cmd"}
      /\ UNCHANGED <<rxside, ring, wire, status, given, narr>>
  BY <1>0, DniCommand DEF device, csrs, port, eth, seen
<1>2. wire = <<>> /\ rxnext = 0
  BY <1>1 DEF Inv, BootInv, Booting, QuietInv
<1>3. \A i \in RxIdx : rxring'[Rdr][i].own /\ rxring'[Rdr][i].frame = None /\ rxring'[Rdr][i].dma
  BY <1>0, <1>1 DEF Build, SysTypeOK, TypeOK, TypeMem
<1>4. \A j \in RxIdx : Place(j)' = j
  <2>1. \A j \in RxIdx : j \in 0 .. RxLen /\ 0 + j = j /\ j < RxLen /\ 0 \in RxIdx
      BY <1>0
  <2> QED BY <1>1, <2>1, Around DEF Place
<1>5. Segment(0)'
  <2>1. 0 \in RxIdx /\ ~AtEntry'
      BY <1>0, <1>1 DEF AtEntry
  <2>2. \A j \in RxIdx : ~(j < 0)
      BY <1>0
  <2>3. \A j \in RxIdx : R(Place(j))'.frame = None /\ R(Place(j))'.own
      BY <1>3, <1>4 DEF R
  <2>4. rxnext' = Place(0)'
      BY <1>1, <1>2, <1>4, <2>1 DEF rxside
  <2> QED BY <2>1, <2>2, <2>3, <2>4 DEF Segment
<1>6. Pipe(0)'
  <2>1. PipeIdx(0)' = {}
      BY <1>1, <1>2, EmptySeq DEF PipeIdx
  <2> QED BY <2>1 DEF Pipe
<1>7. RxOrder'
  <2>1. 0 \in 0 .. RxLen
      BY <1>0
  <2> QED BY <1>5, <1>6, <2>1 DEF RxOrder
<1>8. Held'
  <2>1. 0 \in RxIdx /\ rxnext' = 0
      BY <1>0, <1>1, <1>2 DEF rxside
  <2>2. rxring'[Rdr][rxnext'].own
      BY <1>3, <2>1
  <2> QED BY <1>0, <1>1, <2>2 DEF RxInv, Held, R, rxside
<1>9. AllMapped'
  <2>1. ASSUME NEW r \in RxRings, NEW i \in RxIdx
        PROVE  rxring'[r][i].dma
    <3>1. CASE r = Rdr
        BY <1>3, <3>1
    <3>2. CASE r # Rdr
        BY <1>0, <1>1, <3>2 DEF Build, SysTypeOK, TypeOK, TypeMem, RxInv, AllMapped
    <3> QED BY <3>1, <3>2
  <2> QED BY <1>0, <1>1, <2>1 DEF RxInv, AllMapped, rxside
<1>10. RxNoticed'
  BY <1>3 DEF RxNoticed
<1>11. LastFrame' \in MaxPkts .. MaxPkts + narr'
  BY <1>0, <1>1 DEF RxInv, LastFrame
<1> QED BY <1>7, <1>8, <1>9, <1>10, <1>11 DEF RxInv

\* Each step of the system keeps the receiver in order.
LEMMA RxStep == Inv /\ [SysNext]_sysvars => RxInv'
<1> SUFFICES ASSUME Inv, [SysNext]_sysvars
             PROVE  RxInv'
    OBVIOUS
<1>0. RxInv /\ SysTypeOK /\ RxNoticed
  BY DEF Inv, RxInv
<1>a. \A bits : /\ "RXI" \in bits => Dispatch(bits) = "rxi"
                /\ "RXI" \notin bits => Dispatch(bits) \in {"txi", "dni", "off"}
  BY DEF Dispatch
<1>b. ASSUME NEW w1c, NEW ie, NEW cmd, WritePcsr0(w1c, ie, cmd)
      PROVE  UNCHANGED <<rxside, ring>> /\ status' = status \ w1c
  BY <1>b DEF WritePcsr0, SetInt, port
<1>c. ASSUME NEW ie, NEW cmd, WritePcsr0({}, ie, cmd)
      PROVE  UNCHANGED <<rxside, ring, status>>
  <2>1. status' = status \ {}
      BY <1>b, <1>c
  <2> QED BY <1>b, <1>c, <2>1
\* Neither the rings nor what the driver knows of them changes.
<1> DEFINE Ring == UNCHANGED <<rxside, ring, rxring, unarxn, wire, given, narr>>
<1> USE DEF queues, polling, seen, csrs, port, eth, mem, device, AtEntry, Prepared, InHandler
<1>1. CASE SysDevice
  <2>1. CASE \E k \in 1 .. MaxWire : SvcReceiveStore(k)
      BY <1>1, <2>1, RxStoreStep
  <2>2. CASE ~ \E k \in 1 .. MaxWire : SvcReceiveStore(k)
      BY <1>1, <2>2, RxKeepsStep
  <2> QED BY <2>1, <2>2
<1>2. CASE SysArrive
  BY <1>2, RxArrive
<1>3. CASE HTake
  <2>1. Ring /\ hpc = "off" /\ hpc' = "rdio" /\ UNCHANGED <<status, unacmq, mpc>>
      BY <1>3 DEF HTake, TakeInterrupt
  <2>2. RxNoticed'
      BY <1>0, <2>1 DEF RxNoticed
  <2> QED BY <1>0, <2>1, <2>2, RxStill
<1>4. CASE HRead
  <2>1. Ring /\ hpc = "rdio" /\ hpc' = "wrio" /\ UNCHANGED <<status, unacmq, mpc>>
      BY <1>4 DEF HRead, vars
  <2>2. RxNoticed'
      BY <1>0, <2>1 DEF RxNoticed
  <2> QED BY <1>0, <2>1, <2>2, RxStill
<1>5. CASE HAck
  <2>1. Ring /\ hpc = "wrio" /\ hpc' = Dispatch(p4) /\ UNCHANGED <<p4, unacmq, mpc>>
        /\ status' = status \ p4
      BY <1>5, <1>b DEF HAck
  <2>2. hpc' \in {"rxi", "txi", "dni", "off"} /\ ("RXI" \in p4 => hpc' = "rxi")
      BY <1>a, <2>1
  <2>3. RxNoticed'
      BY <1>0, <2>1, <2>2 DEF RxNoticed
  <2> QED BY <1>0, <2>1, <2>2, <2>3, RxStill
<1>6. CASE HRxiEnd
  <2>1. Ring /\ hpc = "rxi" /\ hpc' = Dispatch(p4 \ {"RXI"}) /\ UNCHANGED <<unacmq, mpc>>
        /\ R(unarxn).own
      BY <1>6 DEF HRxiEnd, vars, R
  <2>2. hpc' \in {"txi", "dni", "off"}
      BY <1>a, <2>1
  <2>3. \A i \in RxIdx : R(i).frame = None
    <3>1. PICK n \in 0 .. RxLen : Segment(n)
        BY <1>0 DEF RxInv, RxOrder
    <3> QED BY <2>1, <3>1, FirstEntry
  <2>4. RxNoticed'
      BY <2>1, <2>3 DEF RxNoticed, R
  <2> QED BY <1>0, <2>1, <2>2, <2>4, RxStill
<1>7. CASE HRxiIgnore
  <2>1. Ring /\ hpc = "rxi" /\ hpc' = "rxi.2" /\ UNCHANGED <<unacmq, mpc, p4, status>>
        /\ ~R(unarxn).own
      BY <1>7 DEF HRxiIgnore, vars, R
  <2>2. PICK n \in 0 .. RxLen : Segment(n) /\ Pipe(n)
      BY <1>0 DEF RxInv, RxOrder
  <2>3. n # 0
    <3>1. Prepared
        BY <1>0, <2>1 DEF Inv, QuietInv, BootInv, Booting
    <3> QED BY <2>1, <2>2, <3>1, FirstEntry
  <2>4. UNCHANGED <<Held, AllMapped, LastFrame>>
      BY <2>1 DEF Held, AllMapped, LastFrame, R, rxside
  <2>5. Segment(n)'
    <3>1. UNCHANGED rxnext /\ \A j : UNCHANGED R(Place(j)) /\ UNCHANGED Place(j)
        BY <2>1 DEF Place, R, rxside
    <3>2. rxnext' = Place(n)' /\ (Prepared' <=> Prepared)
        BY <2>1, <2>2, <3>1 DEF Segment
    <3>3. ASSUME NEW j \in RxIdx
          PROVE  /\ j < n => ~R(Place(j))'.own /\ R(Place(j))'.frame # None
                 /\ j >= n => R(Place(j))'.frame = None /\ (Prepared' => R(Place(j))'.own)
        BY <2>2, <3>1, <3>2 DEF Segment
    <3> QED BY <2>3, <3>2, <3>3 DEF Segment
  <2>6. PipeIdx(n)' = PipeIdx(n) /\ \A i : PipeAt(n, i)' = PipeAt(n, i)
      BY <2>1 DEF PipeAt, PipeIdx, Place, R
  <2>7. Pipe(n)'
      BY <2>1, <2>2, <2>4, <2>6 DEF Pipe
  <2>8. RxNoticed'
      BY <1>0, <2>1 DEF RxNoticed
  <2> QED BY <1>0, <2>1, <2>2, <2>4, <2>5, <2>7, <2>8 DEF RxInv, RxOrder
<1>8. CASE HRxiGive
  BY <1>8, RxGive
<1>9. CASE HRxiReturn
  BY <1>9, RxReturn
<1>10. CASE HTxi
  <2>1. Ring /\ hpc = "txi" /\ UNCHANGED <<unacmq, mpc, p4, status>>
        /\ IF xip' THEN hpc' = "tdr" /\ hret' = Dispatch(p4 \ {"RXI", "TXI"})
           ELSE hpc' = Dispatch(p4 \ {"RXI", "TXI"})
      BY <1>10 DEF HTxi, vars
  <2>2. Dispatch(p4 \ {"RXI", "TXI"}) \in {"txi", "dni", "off"}
      BY <1>a
  <2>3. ~AtEntry /\ ~AtEntry'
      BY <2>1, <2>2
  <2>4. RxNoticed'
      BY <1>0, <2>1, <2>2 DEF RxNoticed
  <2> QED BY <1>0, <2>1, <2>3, <2>4, RxStill
<1>11. CASE HTdr
  <2>1. Ring /\ hpc = "tdr" /\ hpc' = "poll" /\ UNCHANGED <<unacmq, mpc, p4, hret, status>>
      BY <1>11 DEF HTdr, FillTdr
  <2>2. RxNoticed'
      BY <1>0, <2>1 DEF RxNoticed
  <2> QED BY <1>0, <2>1, <2>2, RxStill
<1>12. CASE HPoll
  <2>1. hpc = "poll" /\ hpc' = hret /\ UNCHANGED <<unacmq, mpc, p4, hret, unarxn, given, narr>>
      BY <1>12 DEF HPoll
  <2>2. Ring /\ UNCHANGED status
      BY <1>12, <1>c, <2>1 DEF HPoll, PollDemand, vars
  <2>3. hret \in {"off", "rxi.2", "dni"}
      BY <1>0 DEF SysTypeOK
  <2>4. RxNoticed'
      BY <1>0, <2>1, <2>2, <2>3 DEF RxNoticed
  <2>5. AtEntry' <=> AtEntry
      BY <2>1, <2>3
  <2> QED BY <1>0, <2>1, <2>2, <2>4, <2>5, RxStill
<1>13. CASE HDniCommand
  <2>1. CASE unacmq[1] = "qf.wfm"
      BY <1>13, <2>1, RxBuild
  <2>2. CASE unacmq[1] # "qf.wfm"
    <3>1. Ring /\ hpc = "dni" /\ hpc' \in {"pcsr", "cmd"} /\ UNCHANGED <<status, mpc, p4>>
          /\ unacmq # <<>> /\ unacmq' = Tail(unacmq)
        BY <1>0, <1>13, <2>2, DniCommand
    <3>2. Prepared' => Prepared
      <4>1. Len(unacmq) \in Nat \ {0} /\ Len(unacmq') = Len(unacmq) - 1
          BY <1>0, <3>1, HeadTailProperties, EmptySeq DEF SysTypeOK
      <4>2. Len(unacmq) # 2
        <5> SUFFICES ASSUME Len(unacmq) = 2 PROVE FALSE
            OBVIOUS
        <5>1. 1 \in 1 .. Len(unacmq) /\ 1 = Len(unacmq) - 1
            OBVIOUS
        <5> QED BY <2>2, <5>1 DEF Inv, BootInv, BootQueue
      <4> QED BY <3>1, <4>1, <4>2
    <3>3. RxNoticed'
        BY <1>0, <3>1 DEF RxNoticed
    <3>4. ~AtEntry /\ ~AtEntry'
        BY <3>1
    <3> HIDE DEF Prepared, AtEntry
    <3> QED BY <1>0, <3>1, <3>2, <3>3, <3>4, RxStill
  <2> QED BY <2>1, <2>2
<1>14. CASE HDniPoll \/ HPcsr \/ HCmd
  <2>1. hpc \in {"dni", "pcsr", "cmd"} /\ hpc' \in {"off", "cmd"}
        /\ UNCHANGED <<unacmq, mpc, p4, unarxn, given, narr>>
      BY <1>14 DEF HDniPoll, HPcsr, HCmd
  <2>2. Ring /\ UNCHANGED status
      BY <1>14, <1>c, <2>1 DEF HDniPoll, HPcsr, HCmd, WritePcsr23, PollDemand, vars
  <2>3. RxNoticed'
      BY <1>0, <2>1, <2>2 DEF RxNoticed
  <2> QED BY <1>0, <2>1, <2>2, <2>3, RxStill
<1>15. CASE MOnce
  <2>1. hpc = "off" /\ UNCHANGED <<hpc, hret, p4, unarxn, given, narr>>
        /\ unacmq' = <<"qf.pcb", "qf.rha", "qf.wfm", "qf.sta">>
      BY <1>15 DEF MOnce, Main
  <2>2. Ring /\ UNCHANGED status
      BY <1>15, <1>c, <2>1 DEF MOnce
  <2>3. RxNoticed'
      BY <1>0, <2>1, <2>2 DEF RxNoticed
  <2>4. ~Prepared'
    <3>1. Len(unacmq') = 4
        BY <2>1
    <3> QED BY <3>1
  <2> QED BY <1>0, <2>1, <2>2, <2>3, <2>4, RxStill
<1>16. CASE MSend \/ MXip \/ MTdr \/ MPol \/ MTest \/ MPoll \/ MSetPip \/ MClrPol
  <2>1. /\ hpc = "off" /\ UNCHANGED <<hpc, hret, p4, unarxn, given, narr, unacmq>>
        /\ mpc # "onc"
      BY <1>16 DEF MSend, MXip, MTdr, MPol, MTest, MPoll, MSetPip, MClrPol, Main
  <2>2. Ring /\ UNCHANGED status
      BY <1>16, <1>c, <2>1
         DEF MSend, MXip, MTdr, MPol, MTest, MPoll, MSetPip, MClrPol, Main, FillTdr, PollDemand, vars
  <2>3. RxNoticed'
      BY <1>0, <2>1, <2>2 DEF RxNoticed
  <2> QED BY <1>0, <2>1, <2>2, <2>3, RxStill
<1>17. CASE UNCHANGED sysvars
  <2>1. Ring /\ UNCHANGED <<hpc, hret, p4, unacmq, mpc, status>>
      BY <1>17 DEF sysvars, vars
  <2>2. RxNoticed'
      BY <1>0, <2>1 DEF RxNoticed
  <2> QED BY <1>0, <2>1, <2>2, RxStill
<1> QED BY <1>1, <1>2, <1>3, <1>4, <1>5, <1>6, <1>7, <1>8, <1>9, <1>10, <1>11, <1>12, <1>13,
   <1>14, <1>15, <1>16, <1>17 DEF SysNext, Handler, MFinish

-----------------------------------------------------------------------------
(* The driver's variables, and the invariant as a whole. *)

\* Each step keeps the types of the driver.
LEMMA DriverTypesStep == Inv /\ [SysNext]_sysvars => DriverTypes'
<1> SUFFICES ASSUME Inv, [SysNext]_sysvars
             PROVE  DriverTypes'
    OBVIOUS
<1>0. SysTypeOK /\ DriverTypes /\ TypeOK
  BY SysTypes DEF Inv
<1>a. \A bits : Dispatch(bits) \in {"rxi", "txi", "dni", "off"}
  BY DEF Dispatch
<1>b. Dispatch(p4 \ {"RXI", "TXI"}) \in {"dni", "off"}
  BY DEF Dispatch
<1>c. MaxPkts \in Nat /\ MaxArrive \in Nat /\ npkt \in Nat /\ narr \in Nat
  BY <1>0, Consts DEF DriverTypes
<1>d. ASSUME xmq # <<>>
      PROVE  Tail(xmq) \in Seq(1 .. MaxPkts)
  BY <1>0, <1>d, HeadTailProperties DEF DriverTypes
<1>e. ASSUME npkt < MaxPkts
      PROVE  npkt + 1 \in 0 .. MaxPkts /\ Append(xmq, npkt + 1) \in Seq(1 .. MaxPkts)
  <2>1. npkt + 1 \in 1 .. MaxPkts
      BY <1>c, <1>e
  <2> QED BY <1>0, <1>c, <2>1, AppendProperties DEF DriverTypes
<1> USE DEF DriverTypes, queues, polling, seen
<1>1. CASE SysDevice
  <2>1. UNCHANGED <<queues, polling, p4, hpc, hret, mpc, npkt, narr, given, lost>>
      BY <1>1 DEF SysDevice
  <2>2. sent' \in Seq(Frames)
    <3>1. CASE TxSame \/ TxEnds
        BY <1>0, <3>1 DEF TxSame, TxEnds
    <3>2. CASE TxStarts
      <4>1. Tx.frame = Head(xmq) /\ xmq # <<>>
          BY <1>0, <3>2, HeadIsFrame DEF TxStarts, Inv, TxInv, TxPlaces, TxQueue
      <4> QED BY <1>0, <3>2, <4>1, HeadIsFrame, AppendProperties DEF TxStarts
    <3> QED BY <1>1, <3>1, <3>2, TxDevice
  <2> QED BY <1>0, <2>1, <2>2
<1>2. CASE SysArrive
  <2>1. narr' \in 0 .. MaxArrive
      BY <1>0, <1>2, <1>c DEF SysArrive
  <2>2. UNCHANGED <<queues, polling, p4, hpc, hret, mpc, npkt, sent, given, lost>>
      BY <1>2 DEF SysArrive
  <2> QED BY <1>0, <2>1, <2>2
<1>3. CASE HTake \/ HPcsr \/ HCmd
  <2>1. hpc' \in {"rdio", "cmd", "off"} /\ UNCHANGED <<queues, polling, p4, hret, mpc, seen, lost>>
      BY <1>3 DEF HTake, HPcsr, HCmd
  <2> QED BY <1>0, <2>1
<1>4. CASE HRead
  BY <1>0, <1>4 DEF HRead, TypeOK, TypeCsrs
<1>5. CASE HAck
  <2>1. lost' \subseteq Stalls
      BY <1>0, <1>5 DEF HAck, Stalls
  <2> QED BY <1>0, <1>5, <1>a, <2>1 DEF HAck
<1>6. CASE HRxiEnd \/ HRxiIgnore
  BY <1>0, <1>6, <1>a DEF HRxiEnd, HRxiIgnore
<1>7. CASE HRxiGive
  <2>1. given' \in Seq(Frames)
      BY <1>7, RxGive
  <2>2. UNCHANGED <<unacmq, unacip, unarxn, pcb, polling, p4, mpc, narr, sent, lost>>
      BY <1>7 DEF HRxiGive
  <2>3. npkt' \in 0 .. MaxPkts /\ xmq' \in Seq(1 .. MaxPkts)
      BY <1>0, <1>7, <1>e DEF HRxiGive
  <2>4. xip' \in BOOLEAN /\ hpc' \in {"tdr", "rxi.2"} /\ hret' \in {hret, "rxi.2"}
      BY <1>0, <1>7 DEF HRxiGive
  <2> QED BY <1>0, <2>1, <2>2, <2>3, <2>4
<1>8. CASE HRxiReturn
  <2>1. unarxn' \in RxIdx
    <3>1. 1 \in 0 .. RxLen
        BY Consts
    <3> QED BY <1>0, <1>8, <3>1, AroundType DEF HRxiReturn, NextRx
  <2> QED BY <1>0, <1>8, <2>1 DEF HRxiReturn
<1>9. CASE HTxi
  <2>1. xmq # <<>> /\ xip
      BY <1>9 DEF HTxi, Inv, TxInv, TxPlaces, TxHandler, TxHand, TxQueue
  <2>2. xmq' = Tail(xmq) /\ xip' = (Tail(xmq) # <<>>)
      BY <1>9, <2>1 DEF HTxi
  <2>3. hpc' \in {"tdr", "dni", "off"} /\ hret' \in {hret, "dni", "off"}
      BY <1>9, <1>b DEF HTxi
  <2> QED BY <1>0, <1>9, <1>d, <2>1, <2>2, <2>3 DEF HTxi
<1>10. CASE HTdr
  BY <1>0, <1>10 DEF HTdr
<1>11. CASE HPoll
  <2>1. unapol' \in BOOLEAN /\ unapip' \in BOOLEAN
      BY <1>0, <1>11 DEF HPoll
  <2> QED BY <1>0, <1>11, <2>1 DEF HPoll
<1>12. CASE HDniCommand
  <2>1. /\ unacmq # <<>> /\ unapip' = FALSE /\ unacip' = unacmq[1] /\ unacmq' = Tail(unacmq)
        /\ hpc' \in {"pcsr", "cmd"} /\ pcb' \in {pcb, Block("plain"), Block("wr_ring")}
        /\ UNCHANGED <<xmq, xip, unapol, p4, hret, mpc, seen, lost>>
        /\ (unarxn' = unarxn \/ unarxn' = 0)
      BY <1>0, <1>12, DniCommand
  <2>2. unacip' \in Functions /\ unacmq' \in Seq(Functions)
    <3>1. unacmq \in Seq(Functions) /\ 1 \in 1 .. Len(unacmq)
        BY <1>0, <2>1, EmptySeq
    <3> QED BY <2>1, <3>1, HeadTailProperties, ElementOfSeq
  <2>3. pcb' \in AuxCmd /\ unarxn' \in RxIdx
      BY <1>0, <2>1, BlockType, Consts
  <2> QED BY <1>0, <2>1, <2>2, <2>3
<1>13. CASE HDniPoll
  <2>1. unapol' \in BOOLEAN /\ unapip' \in BOOLEAN
      BY <1>0, <1>13 DEF HDniPoll
  <2> QED BY <1>0, <1>13, <2>1 DEF HDniPoll
<1>14. CASE MOnce
  <2>1. unacmq' \in Seq(Functions)
      BY <1>14 DEF MOnce, Functions
  <2> QED BY <1>0, <1>14, <2>1 DEF MOnce, Main
<1>15. CASE MSend
  <2>1. npkt' \in 0 .. MaxPkts /\ xmq' \in Seq(1 .. MaxPkts)
      BY <1>15, <1>e DEF MSend
  <2> QED BY <1>0, <1>15, <2>1 DEF MSend, Main
<1>16. CASE MXip \/ MTdr \/ MPol \/ MTest \/ MPoll
  BY <1>0, <1>16 DEF MXip, MTdr, MPol, MTest, MPoll, Main
<1>17. CASE MSetPip \/ MClrPol
  <2>1. lost' \subseteq Stalls
      BY <1>0, <1>17 DEF MSetPip, MClrPol, Stalls
  <2> QED BY <1>0, <1>17, <2>1 DEF MSetPip, MClrPol, Main
<1>18. CASE UNCHANGED sysvars
  BY <1>0, <1>18 DEF sysvars
<1> QED BY <1>1, <1>2, <1>3, <1>4, <1>5, <1>6, <1>7, <1>8, <1>9, <1>10, <1>11, <1>12, <1>13,
   <1>14, <1>15, <1>16, <1>17, <1>18 DEF SysNext, Handler, MFinish

\* The invariant is inductive.
LEMMA InvStep == Inv /\ [SysNext]_sysvars => Inv'
<1> SUFFICES ASSUME Inv, [SysNext]_sysvars
             PROVE  Inv'
    OBVIOUS
<1>1. TypeOK' /\ DriverTypes'
  BY ControllerTypes, DriverTypesStep
<1>2. SysTypeOK'
  BY <1>1 DEF SysTypeOK, DriverTypes
<1> QED BY <1>2, BootStep, QuietStep, RxStep, TxStep DEF Inv

-----------------------------------------------------------------------------
(* The theorems of the composed system. *)

\* Power-on: the reset has run, the driver has done nothing.
LEMMA InvInit == SysInit => Inv
<1> SUFFICES ASSUME SysInit
             PROVE  Inv
    OBVIOUS
<1>0. Init /\ unacmq = <<>> /\ unacip = None /\ xmq = <<>> /\ xip = FALSE /\ unarxn = 0
      /\ hpc = "off" /\ mpc = "onc" /\ p4 = {} /\ hret = "off" /\ wire = <<>>
      /\ npkt = 0 /\ narr = 0 /\ sent = <<>> /\ given = <<>> /\ lost = {}
  BY DEF SysInit, Init
<1>1. SysTypeOK
  <2>1. TypeOK
      BY <1>0, InitType
  <2>2. DriverTypes
    <3>1. /\ unacmq \in Seq(Functions) /\ xmq \in Seq(1 .. MaxPkts)
          /\ sent \in Seq(Frames) /\ given \in Seq(Frames)
        BY <1>0, EmptySeq
    <3>2. unarxn \in RxIdx /\ npkt \in 0 .. MaxPkts /\ narr \in 0 .. MaxArrive
        BY <1>0, Consts
    <3>3. pcb \in AuxCmd
        BY BlockType DEF SysInit
    <3> QED BY <1>0, <3>1, <3>2, <3>3 DEF SysInit, DriverTypes
  <2> QED BY <2>1, <2>2, SysTypes
<1>2. \A i \in RxIdx : R(i).frame = None /\ R(i).dma /\ ~R(i).own
  BY <1>0, Consts DEF Init, EmptyRx, R
<1>3. ~Tx.own
  BY <1>0, Consts DEF Init, EmptyTx, Tx
<1>4. BootInv
  <2>1. BootQueue
      BY <1>0 DEF BootQueue
  <2>2. pcb.fmt = Format
      BY DEF SysInit, Block
  <2>3. ring = NoFormat /\ pcmd = "NOOP" /\ state = "RESET" /\ ~inte /\ ~intreq
      BY <1>0 DEF Init, NoFormat
  <2> QED BY <1>0, <2>1, <2>2, <2>3, Consts DEF BootInv, Booting, DriverCmds, Functions
<1>5. QuietInv
  BY <1>0, <1>2 DEF QuietInv, Init
<1>6. RxInv
  <2>1. Held /\ AllMapped
      BY <1>0 DEF Init, Held, AllMapped, EmptyRx
  <2>2. RxNoticed
      BY <1>2 DEF RxNoticed, R
  <2>3. LastFrame \in MaxPkts .. MaxPkts + narr
      BY <1>0, Consts DEF LastFrame
  <2>4. Segment(0)
    <3>1. Place(0) = 0 /\ rxnext = 0 /\ ~AtEntry /\ ~Prepared
        BY <1>0, <1>1, PlaceZero DEF Init, AtEntry, Prepared
    <3>2. ASSUME NEW j \in RxIdx
          PROVE  ~(j < 0) /\ R(Place(j)).frame = None
      <4>1. j \in 0 .. RxLen /\ 0 \in RxIdx
          BY Consts
      <4>2. Place(j) \in RxIdx
          BY <1>1, <4>1, PlaceZero, AroundType DEF Place
      <4>3. ~(j < 0)
          BY <4>1, Consts
      <4> QED BY <1>2, <4>2, <4>3
    <3> QED BY <3>1, <3>2 DEF Segment
  <2>5. Pipe(0)
    <3>1. PipeIdx(0) = {}
        BY <1>0, EmptySeq DEF PipeIdx
    <3> QED BY <3>1 DEF Pipe
  <2>6. 0 \in 0 .. RxLen
      BY Consts
  <2> QED BY <2>1, <2>2, <2>3, <2>4, <2>5, <2>6 DEF RxInv, RxOrder
<1>7. TxInv
  <2>1. status = {} /\ ~txflag
      BY <1>0 DEF Init
  <2>2. TxPlaces
      BY <1>0, <1>3, <2>1 DEF TxPlaces, TxReady, TxHand
  <2>3. TxHandler
      BY <1>0 DEF TxHandler
  <2>4. TxQueue
      BY <1>0, <1>3, <2>1 DEF TxQueue, TxReady, TxHand
  <2> QED BY <2>2, <2>3, <2>4 DEF TxInv
<1> QED BY <1>1, <1>4, <1>5, <1>6, <1>7 DEF Inv

\* The invariant holds throughout: the driver and the controller agree on where
\* the packet in progress is, and on which receive entries are filled, in what
\* order, whichever way the handler, unasnd and deuna_svc fall.
THEOREM SysInvAlways == SysSpec => []Inv
<1>1. SysInit => Inv
  BY InvInit
<1>2. Inv /\ [SysNext]_sysvars => Inv'
  BY InvStep
<1> QED BY <1>1, <1>2, PTL DEF SysSpec

\* Type correctness of the composed system: the driver's ring pointer stays in
\* the ring that q1wfm closes, and all that it transmits are queued packets.
THEOREM SysTypeCorrect == SysSpec => []SysTypeOK
<1>1. Inv => SysTypeOK
  BY DEF Inv
<1> QED BY <1>1, SysInvAlways, PTL

\* i.rxi finds every frame that rxstore has put in the ring: a filled entry is
\* announced by RXI or ahead of the handler's loop, for every ring length.
THEOREM ReceiptNoticed == SysSpec => []RxNoticed
<1>1. Inv => RxNoticed
  BY DEF Inv, RxInv
<1> QED BY <1>1, SysInvAlways, PTL

\* The end of a transmission reaches i.txi, although steptx and the driver's
\* two writers of the single transmit entry know of one another by TXI alone.
THEOREM TransmitNoticed == SysSpec => []TxNoticed
<1>1. Inv => TxNoticed
  BY DEF Inv, TxInv, TxPlaces, TxNoticed, TxHand, TxReady, Tx, InHandler
<1> QED BY <1>1, SysInvAlways, PTL

-----------------------------------------------------------------------------
(* The system implements EtherService. *)

\* Arrivals, numbered from 1, in a sequence of frames.
Arrivals(g) == [i \in 1 .. Len(g) |-> g[i] - MaxPkts]

\* The sequence of arrivals has the length of the sequence of frames.
LEMMA ArrivalsType ==
  ASSUME NEW g \in Seq(Frames)
  PROVE  /\ Arrivals(g) \in Seq(Int) /\ Len(Arrivals(g)) = Len(g)
         /\ \A i \in 1 .. Len(g) : Arrivals(g)[i] = g[i] - MaxPkts
<1>1. Len(g) \in Nat /\ \A i \in 1 .. Len(g) : g[i] \in Frames
  BY LenProperties, ElementOfSeq
<1>2. \A i \in 1 .. Len(g) : g[i] - MaxPkts \in Int
  BY <1>1, Consts
<1>3. Arrivals(g) \in [1 .. Len(g) -> Int]
  BY <1>2 DEF Arrivals
<1>4. Arrivals(g) \in Seq(Int)
  BY <1>1, <1>3, SeqDef
<1>5. 1 .. Len(Arrivals(g)) = 1 .. Len(g) /\ Len(Arrivals(g)) \in Nat
  BY <1>3, <1>4, LenProperties
<1>6. Len(Arrivals(g)) = Len(g)
  BY <1>1, <1>5
<1> QED BY <1>4, <1>6 DEF Arrivals

\* A frame given is an arrival appended.
LEMMA ArrivalsAppend ==
  ASSUME NEW g \in Seq(Frames), NEW f \in Frames
  PROVE  Arrivals(Append(g, f)) = Append(Arrivals(g), f - MaxPkts)
<1> DEFINE h == Append(g, f)
<1>1. /\ h \in Seq(Frames) /\ Len(g) \in Nat /\ Len(h) = Len(g) + 1
      /\ h[Len(g) + 1] = f /\ \A i \in 1 .. Len(g) : h[i] = g[i]
  BY AppendProperties, LenProperties
<1>2. f - MaxPkts \in Int
  BY Consts
<1> DEFINE a == Arrivals(g)
           b == Append(a, f - MaxPkts)
<1>3. a \in Seq(Int) /\ Len(a) = Len(g) /\ \A i \in 1 .. Len(g) : a[i] = g[i] - MaxPkts
  BY ArrivalsType
<1>4. /\ b \in Seq(Int) /\ Len(b) = Len(g) + 1
      /\ b[Len(g) + 1] = f - MaxPkts /\ \A i \in 1 .. Len(g) : b[i] = a[i]
  <2> HIDE DEF a
  <2> QED BY <1>2, <1>3, AppendProperties
<1> HIDE DEF h
<1>5. Arrivals(h) \in Seq(Int) /\ Len(Arrivals(h)) = Len(h)
      /\ \A i \in 1 .. Len(h) : Arrivals(h)[i] = h[i] - MaxPkts
  BY <1>1, ArrivalsType
<1> HIDE DEF a, b
<1>6. \A i \in 1 .. Len(h) : Arrivals(h)[i] = b[i]
  <2> TAKE i \in 1 .. Len(h)
  <2>1. i \in 1 .. Len(g) \/ i = Len(g) + 1
      BY <1>1
  <2> QED BY <1>1, <1>3, <1>4, <1>5, <2>1
<1>7. Arrivals(h) = b
  BY <1>1, <1>4, <1>5, <1>6, SeqEqual
<1> QED BY <1>7 DEF a, b, h

\* The frame given last, in the service's terms.
LEMMA LastArrival ==
  ASSUME NEW g \in Seq(Frames)
  PROVE  /\ g = <<>> => Arrivals(g) = <<>>
         /\ g # <<>> => Arrivals(g) # <<>>
                        /\ Arrivals(g)[Len(Arrivals(g))] = g[Len(g)] - MaxPkts
<1>1. /\ Arrivals(g) \in Seq(Int) /\ Len(Arrivals(g)) = Len(g)
      /\ \A i \in 1 .. Len(g) : Arrivals(g)[i] = g[i] - MaxPkts
  BY ArrivalsType
<1>2. (g = <<>> <=> Len(g) = 0) /\ (Arrivals(g) = <<>> <=> Len(Arrivals(g)) = 0)
  BY <1>1, EmptySeq
<1>3. ASSUME g # <<>>
      PROVE  Len(g) \in 1 .. Len(g)
  <2>1. Len(g) \in Nat \ {0}
      BY <1>3, EmptySeq
  <2> QED BY <2>1
<1> QED BY <1>1, <1>2, <1>3

\* A packet that the controller begins to send is the next one in order.
LEMMA SendsNext ==
  ASSUME Inv, TxStarts
  PROVE  Len(sent) < npkt /\ sent' = Append(sent, Len(sent) + 1)
<1>1. Tx.own /\ ~txflag /\ sent' = Append(sent, Tx.frame)
  BY DEF TxStarts
<1>2. xip /\ ~TxReady /\ ~TxHand /\ Tx.frame = xmq[1]
  BY <1>1 DEF Inv, TxInv, TxPlaces, TxQueue
<1>3. xmq # <<>> /\ xmq \in Seq(1 .. MaxPkts) /\ npkt \in Nat
  BY <1>2, Consts DEF Inv, SysTypeOK, TxInv, TxQueue
<1>4. Len(xmq) \in Nat \ {0} /\ 1 \in 1 .. Len(xmq)
  <2>1. Len(xmq) \in Nat \ {0}
      BY <1>3, EmptySeq
  <2> QED BY <2>1
<1>5. xmq[1] = npkt - Len(xmq) + 1 /\ Len(xmq) <= npkt /\ Len(sent) = npkt - Len(xmq) + 0
  BY <1>1, <1>2, <1>4 DEF Inv, TxInv, TxQueue
<1>6. Len(sent) < npkt /\ Tx.frame = Len(sent) + 1
  BY <1>2, <1>3, <1>4, <1>5
<1> QED BY <1>1, <1>6

\* A frame that the handler gives came later than those it has given before.
LEMMA GivesLater ==
  ASSUME Inv, HRxiGive
  PROVE  \E f \in Frames : /\ given' = Append(given, f)
                           /\ LastFrame < f /\ f <= MaxPkts + narr
<1> DEFINE f == R(unarxn).frame
<1>1. hpc = "rxi" /\ ~R(unarxn).own /\ given' = Append(given, f)
  BY DEF HRxiGive, R
<1>2. PICK n \in 0 .. RxLen : Segment(n) /\ Pipe(n)
  BY DEF Inv, RxInv, RxOrder
<1>3. Prepared
  BY <1>1 DEF Inv, QuietInv, BootInv, Booting, Prepared
<1>4. n # 0
  BY <1>1, <1>2, <1>3, FirstEntry
<1>5. f \in Frames /\ 0 \in PipeIdx(n) /\ PipeAt(n, 0) = f
  BY <1>2, <1>4, FirstEntry
<1>6. ~AtEntry
  BY <1>1 DEF AtEntry
<1>7. LastFrame < f /\ f <= MaxPkts + narr
  BY <1>2, <1>5, <1>6 DEF Pipe
<1> QED BY <1>1, <1>5, <1>7

\* Every step of the controller, the handler and the main program is a step of
\* the service, or none.
LEMMA ServesStep == Inv /\ [SysNext]_sysvars => [Service!Next]_(Service!vars)
<1> SUFFICES ASSUME Inv, [SysNext]_sysvars
             PROVE  Service!Next \/ UNCHANGED Service!vars
    OBVIOUS
<1>0. SysTypeOK /\ given \in Seq(Frames) /\ narr \in Nat /\ MaxPkts \in Nat
  BY Consts DEF Inv, SysTypeOK
<1> DEFINE Quiet == UNCHANGED <<npkt, sent, narr, given>>
<1>a. ASSUME Quiet
      PROVE  UNCHANGED Service!vars
  BY <1>a DEF Service!vars
<1>1. CASE SysDevice
  <2>1. UNCHANGED <<npkt, narr, given>>
      BY <1>1 DEF SysDevice
  <2>2. CASE TxSame \/ TxEnds
      BY <1>a, <2>1, <2>2 DEF TxSame, TxEnds
  <2>3. CASE TxStarts
      BY <2>1, <2>3, SendsNext DEF Service!Next, Service!Send
  <2> QED BY <1>1, <2>2, <2>3, TxDevice
<1>2. CASE SysArrive
  <2>1. narr' = narr + 1 /\ UNCHANGED <<npkt, sent, given>>
      BY <1>2 DEF SysArrive
  <2> QED BY <2>1 DEF Service!Next, Service!Arrive
<1>3. CASE MSend
  <2>1. npkt' = npkt + 1 /\ UNCHANGED <<narr, sent, given>>
      BY <1>3 DEF MSend, Main
  <2> QED BY <2>1 DEF Service!Next, Service!Accept
<1>4. CASE HRxiGive
  <2>1. PICK f \in Frames : given' = Append(given, f) /\ LastFrame < f /\ f <= MaxPkts + narr
      BY <1>4, GivesLater
  <2>2. npkt' \in {npkt, npkt + 1} /\ UNCHANGED <<narr, sent>>
      BY <1>4 DEF HRxiGive
  <2> DEFINE last == IF Arrivals(given) = <<>> THEN 0 ELSE Arrivals(given)[Len(Arrivals(given))]
  <2>3. last = LastFrame - MaxPkts
    <3>1. CASE given = <<>>
      <4>1. Arrivals(given) = <<>>
          BY <1>0, <3>1, LastArrival
      <4>2. LastFrame - MaxPkts = 0
          BY <1>0, <3>1 DEF LastFrame
      <4> HIDE DEF LastFrame
      <4> QED BY <4>1, <4>2
    <3>2. CASE given # <<>>
        BY <1>0, <3>2, LastArrival DEF LastFrame
    <3> QED BY <3>1, <3>2
  <2>4. LastFrame \in Nat /\ f \in Nat
      BY <1>0, <2>1, Consts DEF Inv, RxInv
  <2> HIDE DEF last
  <2>5. f - MaxPkts \in last + 1 .. narr
      BY <1>0, <2>1, <2>3, <2>4
  <2>6. Arrivals(given') = Append(Arrivals(given), f - MaxPkts)
      BY <1>0, <2>1, ArrivalsAppend
  <2>7. \E g \in last + 1 .. narr : Arrivals(given') = Append(Arrivals(given), g)
      BY <2>5, <2>6
  <2>8. Service!Give
      BY <2>2, <2>7 DEF Service!Give, Service!LastGiven, Arrivals, last
  <2> QED BY <2>8 DEF Service!Next
<1>5. CASE HTake \/ HRead \/ HAck \/ HRxiEnd \/ HRxiIgnore \/ HRxiReturn \/ HTxi
  BY <1>5, <1>a DEF HTake, HRead, HAck, HRxiEnd, HRxiIgnore, HRxiReturn, HTxi, seen
<1>6. CASE HTdr \/ HPoll \/ HDniCommand \/ HDniPoll \/ HPcsr \/ HCmd
  <2>1. CASE HDniCommand
      BY <1>0, <1>a, <2>1, DniCommand DEF seen
  <2> QED BY <1>6, <1>a, <2>1 DEF HTdr, HPoll, HDniPoll, HPcsr, HCmd, seen
<1>7. CASE MFinish
  BY <1>7, <1>a DEF MFinish, MOnce, MXip, MTdr, MPol, MTest, MPoll, MSetPip, MClrPol, Main
<1>8. CASE UNCHANGED sysvars
  BY <1>8, <1>a DEF sysvars, seen
<1> QED BY <1>1, <1>2, <1>3, <1>4, <1>5, <1>6, <1>7, <1>8 DEF SysNext, Handler

\* The driver on the controller implements EtherService: for every number of
\* packets, arrivals and receive entries, packets leave in order and once, and
\* frames come up in order and once, whatever the handler interrupts.
THEOREM Serves == SysSpec => ServiceSpec
<1>1. SysInit => Service!Init
  <2> SUFFICES ASSUME SysInit
               PROVE  Service!Init
      OBVIOUS
  <2>1. npkt = 0 /\ narr = 0 /\ sent = <<>> /\ given = <<>>
      BY DEF SysInit
  <2>2. given \in Seq(Frames)
      BY <2>1, EmptySeq
  <2>3. Arrivals(given) = <<>>
      BY <2>1, <2>2, LastArrival
  <2> QED BY <2>1, <2>3 DEF Service!Init, Arrivals
<1> QED BY <1>1, ServesStep, SysInvAlways, PTL DEF SysSpec, ServiceSpec, Service!Spec
-----------------------------------------------------------------------------
(* The polling demand: how the interface comes up, and what remains of a     *)
(* demand.                                                                   *)

\* The commands of unaonc are done one after the other, with interrupts on.
OrderInv ==
  /\ mpc # "onc" => inte
  /\ unacmq = <<>> => unacip \in {None, "qf.sta"}
  /\ Len(unacmq) = 1 => unacip = "qf.wfm"
  /\ unacip = "qf.sta" => ring = Format
  /\ unacip = "qf.wfm" => pcb.fnc = "wr_ring"

\* Before START there is one thing under way: the reset, a command, or the
\* report of its end, which only a command that was done gives.
DownInv == state # "RUNNING" =>
  /\ ~xip /\ ~unapip /\ mpc \in {"onc", "idle"}
  /\ hpc \in {"off", "rdio", "wrio", "dni", "pcsr", "cmd"}
  /\ mpc = "onc" \/ unacmq # <<>> \/ unacip # None
  /\ hpc \in {"pcsr", "cmd"} => unacip # None
  /\ cmdflag => hpc = "off" /\ unacip # None /\ pcmd = PortCommand(unacip)
  /\ resetflag => hpc = "off" /\ unacip = None /\ ~cmdflag
  /\ cmdflag \/ resetflag \/ hpc \in {"dni", "pcsr", "cmd"} => status = {} /\ ~intreq
  /\ hpc = "wrio" => status \subseteq p4
  /\ "DNI" \in status \/ hpc = "dni" =>
       unacip # "qf.sta" /\ (unacip = "qf.wfm" => ring = Format)

\* From START on the port has the ring format, and no command but a demand; the
\* end of START is yet to be seen while START is in progress.
UpInv == state = "RUNNING" =>
  /\ ring = Format /\ hpc \notin {"pcsr", "cmd"}
  /\ cmdflag => pcmd \in {"NOOP", "PDMD"}
  /\ unacip # None => DoneComes
  /\ mpc \notin {"onc", "idle"} => unacip = None

Demanded == cmdflag /\ pcmd = "PDMD"

\* A poll that is in progress ends, and sndmsg stops asking for one only when
\* another is on its way or will be made.
FlagInv ==
  /\ hpc = "poll" => unapol
  /\ lost = {} =>
       /\ unapip => DoneComes
       /\ EntryWaits /\ mpc \in {"cip", "pip"} => unapol \/ Demanded
       /\ FlagIsEnough

StallInv == OrderInv /\ DownInv /\ UpInv /\ FlagInv

LEMMA StallInit == SysInit => StallInv
<1> SUFFICES ASSUME SysInit PROVE StallInv
    OBVIOUS
<1>1. /\ Init /\ unacmq = <<>> /\ unacip = None /\ ~xip /\ ~unapip /\ hpc = "off" /\ mpc = "onc"
      /\ state = "RESET" /\ ~cmdflag /\ resetflag /\ status = {} /\ ~intreq
    BY DEF SysInit, Init
<1>2. None # "qf.sta" /\ None # "qf.wfm"
    BY Consts DEF Functions
<1>3. OrderInv
    BY <1>1, <1>2 DEF OrderInv
<1>4. DownInv /\ UpInv
    BY <1>1 DEF DownInv, UpInv
<1>5. FlagInv
    BY <1>1 DEF FlagInv, FlagIsEnough, EntryWaits
<1> QED BY <1>3, <1>4, <1>5 DEF StallInv

\* A write of PCSR0 that leaves INTE set.
LEMMA Written ==
  ASSUME inte, NEW w1c, NEW cmd, WritePcsr0(w1c, TRUE, cmd)
  PROVE  /\ pcmd' = cmd /\ cmdflag' = (cmdflag \/ cmd # "NOOP") /\ inte'
         /\ status' = status \ w1c /\ intreq' = (status \ w1c # {})
         /\ UNCHANGED <<state, ring, resetflag, txflag>>
  BY DEF WritePcsr0, SetInt, port, txside

\* Before START nothing waits in the transmit entry.
LEMMA DownFlag ==
  ASSUME Inv, Inv', StallInv, state # "RUNNING", ~xip', ~unapip', hpc' # "poll"
  PROVE  FlagInv'
<1>1. ~Tx'.own
    BY DEF Inv, TxInv, TxPlaces
<1>2. ~EntryWaits'
    BY <1>1 DEF EntryWaits, Tx
<1> QED BY <1>2 DEF FlagInv, FlagIsEnough

-----------------------------------------------------------------------------
(* Before START. *)

\* The service routine ends the reset or the command that is under way.
LEMMA DownDevice ==
  ASSUME Inv, Inv', StallInv, state # "RUNNING", SysDevice
  PROVE  StallInv'
<1>0. /\ Svc(pcb) /\ UNCHANGED <<queues, polling, p4, hpc, hret, mpc>> /\ ~resetflag'
      /\ (state' = "RUNNING" => pcmd = "START") /\ pcmd' = pcmd /\ inte' = inte
    BY DeviceCsrs DEF SysDevice
<1>1. OrderInv /\ DownInv
    BY DEF StallInv
<1>2. /\ ~xip /\ ~unapip /\ mpc \in {"onc", "idle"} /\ ~txflag /\ wire = <<>>
      /\ hpc \in {"off", "rdio", "wrio", "dni", "pcsr", "cmd"} /\ pcb.fmt = Format
      /\ mpc = "onc" \/ unacmq # <<>> \/ unacip # None
      /\ inte \in BOOLEAN /\ intreq \in BOOLEAN /\ status \subseteq Bits
    BY <1>1 DEF DownInv, Inv, TxInv, TxQueue, TxPlaces, QuietInv, BootInv, SysTypeOK, TypeOK,
                TypeCsrs, TypeFlags
<1>3. FlagInv'
    BY <1>0, <1>2, DownFlag DEF queues, polling
<1>4. ASSUME ring' = ring \/ ring' = Format
      PROVE  OrderInv'
    BY <1>0, <1>1, <1>4 DEF OrderInv, queues
<1>5. None # "qf.sta" /\ None # "qf.wfm"
    BY Consts DEF Functions
<1>6. CASE SvcReset
  <2>1. /\ resetflag /\ hpc = "off" /\ unacip = None /\ ~cmdflag /\ status = {}
      BY <1>1, <1>6 DEF SvcReset, DownInv
  <2>2. state' = "READY" /\ cmdflag' = cmdflag /\ ring' = ring
      BY <1>6 DEF SvcReset, port
  <2>3. DownInv'
      BY <1>0, <1>2, <1>5, <2>1, <2>2 DEF DownInv, queues, polling
  <2> QED BY <1>3, <1>4, <2>2, <2>3 DEF StallInv, UpInv
<1>7. CASE cmdflag /\ ~resetflag
  <2>1. /\ hpc = "off" /\ unacip # None /\ pcmd = PortCommand(unacip) /\ status = {} /\ ~intreq
        /\ pcmd \in {"GETPCB", "START", "GETCMD"}
      BY <1>1, <1>7 DEF DownInv, PortCommand
  <2>2. CASE SvcGetPcb
    <3>1. unacip = "qf.pcb"
        BY <2>1, <2>2 DEF SvcGetPcb, Command, PortCommand
    <3>2. state' = state /\ ring' = ring /\ ~cmdflag'
        BY <2>2 DEF SvcGetPcb, Command
    <3>3. DownInv'
        BY <1>0, <1>2, <2>1, <3>1, <3>2 DEF DownInv, queues, polling
    <3> QED BY <1>3, <1>4, <3>2, <3>3 DEF StallInv, UpInv
  <2>3. CASE SvcAux(pcb)
    <3> DEFINE failed == AuxTimeout(pcb) \/ AuxRejected(pcb)
    <3>1. /\ ~cmdflag' /\ state' = state
          /\ ring' = (IF pcb.fnc = "wr_ring" /\ ~failed THEN pcb.fmt ELSE ring)
          /\ Report({IF failed THEN "PCEI" ELSE "DNI"}, AuxTimeout(pcb))
        BY <2>3 DEF SvcAux, Command
    <3>2. "DNI" \in status' => ~failed
        BY <2>1, <3>1 DEF Report, SetInt
    <3>3. unacip # "qf.sta"
        BY <2>1, <2>3 DEF SvcAux, Command, PortCommand
    <3> HIDE DEF failed
    <3>4. "DNI" \in status' /\ unacip = "qf.wfm" => ring' = Format
        BY <1>1, <1>2, <3>1, <3>2 DEF OrderInv
    <3>5. DownInv'
        BY <1>0, <1>2, <2>1, <3>1, <3>3, <3>4 DEF DownInv, queues, polling
    <3>6. ring' = ring \/ ring' = Format
        BY <1>2, <3>1
    <3> QED BY <1>3, <1>4, <3>1, <3>5, <3>6 DEF StallInv, UpInv
  <2>4. CASE SvcStart
    <3>1. unacip = "qf.sta"
        BY <2>1, <2>4 DEF SvcStart, Command, PortCommand
    <3>2. ring' = ring /\ ~cmdflag' /\ "DNI" \in status' /\ state' = "RUNNING"
        BY <2>4 DEF SvcStart, Command, Report, SetInt, port
    <3>3. ring = Format
        BY <1>1, <3>1 DEF OrderInv
    <3>4. UpInv'
        BY <1>0, <1>2, <2>1, <3>2, <3>3 DEF UpInv, DoneComes
    <3> QED BY <1>3, <1>4, <3>2, <3>4 DEF StallInv, DownInv
  <2>5. ~(SvcReset \/ SvcSelfTest \/ SvcStop \/ SvcNoop \/ SvcPollError \/ SvcPollRunt
          \/ SvcPollSend \/ SvcPollIdle \/ SvcTxDone \/ SvcReceive)
      BY <1>7, <2>1 DEF SvcReset, SvcSelfTest, SvcStop, SvcNoop, SvcPollError, SvcPollRunt,
         SvcPollSend, SvcPollIdle, SvcTxDone, SvcReceive, SvcReceiveNone, SvcReceiveDrop,
         SvcReceiveRcbi, SvcReceiveStore, Receiving, Command
  <2> QED BY <1>0, <2>2, <2>3, <2>4, <2>5 DEF Svc
<1>8. CASE ~cmdflag /\ ~resetflag
  <2>1. SvcReceive
      BY <1>0, <1>2, <1>8 DEF Svc, SvcReset, SvcGetPcb, SvcAux, SvcSelfTest, SvcStart, SvcStop,
         SvcNoop, SvcPollError, SvcPollRunt, SvcPollSend, SvcPollIdle, SvcTxDone, Command
  <2>2. SvcReceiveNone
    <3>1. Len(wire) = 0
        BY <1>2, EmptySeq
    <3>2. \A k \in 1 .. MaxWire : ~SvcReceiveStore(k)
        BY <3>1 DEF SvcReceiveStore
    <3> QED BY <1>2, <2>1, <3>2 DEF SvcReceive, SvcReceiveDrop, SvcReceiveRcbi
  <2>3. UNCHANGED <<status, intreq, state, ring, cmdflag, resetflag>>
      BY <1>8, <2>2 DEF SvcReceiveNone, Receiving, Serving, port
  <2>4. DownInv'
      BY <1>0, <1>1, <2>3 DEF DownInv, queues, polling
  <2> QED BY <1>3, <1>4, <2>3, <2>4 DEF StallInv, UpInv
<1>9. resetflag => SvcReset
    BY <1>0 DEF Svc, SvcGetPcb, SvcAux, SvcSelfTest, SvcStart, SvcStop,
       SvcNoop, SvcPollError, SvcPollRunt, SvcPollSend, SvcPollIdle, SvcTxDone, Command,
       SvcReceive, SvcReceiveNone, SvcReceiveDrop, SvcReceiveRcbi, SvcReceiveStore, Receiving,
       Serving
<1>10. resetflag \in BOOLEAN /\ cmdflag \in BOOLEAN
    BY DEF Inv, SysTypeOK, TypeOK, TypeFlags
<1> QED BY <1>6, <1>7, <1>8, <1>9, <1>10
\* The handler acknowledges all that is reported, and goes on to the command.
LEMMA DownAck ==
  ASSUME Inv, Inv', StallInv, state # "RUNNING", HAck
  PROVE  StallInv'
<1>1. /\ hpc = "wrio" /\ WritePcsr0(p4, inte, "NOOP") /\ hpc' = Dispatch(p4) /\ ring' = ring
      /\ UNCHANGED <<queues, polling, p4, hret, mpc>> /\ resetflag' = resetflag
    BY DEF HAck, WritePcsr0, port
<1>2. OrderInv /\ DownInv /\ inte /\ mpc # "onc"
    BY <1>1 DEF StallInv, OrderInv, Inv, BootInv
<1>3. /\ ~cmdflag /\ ~resetflag /\ status \subseteq p4 /\ ~xip /\ ~unapip
    BY <1>1, <1>2 DEF DownInv
<1>4. /\ status' = {} /\ ~intreq' /\ ~cmdflag' /\ inte' /\ state' = state
    BY <1>1, <1>2, <1>3, Written
<1>5. "TXI" \notin p4 /\ "RXI" \notin p4
    BY <1>1, <1>3 DEF Inv, TxInv, TxHandler, TxPlaces, TxReady, QuietInv
<1>6. hpc' \in {"dni", "off"} /\ (hpc' = "dni" => "DNI" \in p4)
    BY <1>1, <1>5 DEF Dispatch
<1>7. p4 \subseteq status
    BY <1>1 DEF Inv, TxInv, TxHandler
<1>8. OrderInv'
    BY <1>1, <1>2, <1>4 DEF OrderInv, queues
<1>9. DownInv'
    BY <1>1, <1>2, <1>3, <1>4, <1>6, <1>7 DEF DownInv, queues, polling
<1>10. FlagInv'
    BY <1>1, <1>3, <1>6, DownFlag DEF queues, polling
<1> QED BY <1>4, <1>8, <1>9, <1>10 DEF StallInv, UpInv

\* The next command of unaonc is prepared: there is one, since START is not done.
LEMMA DownCommand ==
  ASSUME Inv, Inv', StallInv, HDniCommand
  PROVE  StallInv'
<1>1. /\ hpc = "dni" /\ unacmq # <<>> /\ unapip' = FALSE
      /\ unacip' = unacmq[1] /\ unacmq' = Tail(unacmq) /\ hpc' \in {"pcsr", "cmd"}
      /\ UNCHANGED <<device, eth, xmq, xip, unapol, p4, hret, mpc>>
    BY DniCommand DEF Inv
<1>2. /\ inte' = inte /\ ring' = ring /\ cmdflag' = cmdflag /\ resetflag' = resetflag
      /\ status' = status /\ intreq' = intreq /\ state' = state
    BY <1>1 DEF device, csrs, port
<1>3. state # "RUNNING"
    BY <1>1 DEF Inv, BootInv, Booting
<1>4. OrderInv /\ DownInv
    BY DEF StallInv
<1>5. /\ Len(unacmq') = Len(unacmq) - 1 /\ Len(unacmq) \in Nat \ {0}
      /\ (unacmq' = <<>> => Len(unacmq) = 1)
  <2>1. unacmq \in Seq(Functions)
      BY DEF Inv, SysTypeOK
  <2>2. /\ Len(unacmq') = Len(unacmq) - 1 /\ Len(unacmq) \in Nat \ {0}
        /\ unacmq' \in Seq(Functions)
      BY <1>1, <2>1, HeadTailProperties, EmptySeq
  <2>3. unacmq' = <<>> => Len(unacmq') = 0
      BY <2>2, EmptySeq
  <2> QED BY <2>2, <2>3
<1>6. /\ unacmq[1] = "qf.sta" <=> Len(unacmq) = 1
      /\ unacmq[1] = "qf.wfm" <=> Len(unacmq) = 2
    BY <1>5 DEF Inv, BootInv, BootQueue
<1>7. unacip' = "qf.wfm" => pcb'.fnc = "wr_ring"
    BY DEF HDniCommand, Block
<1>8. unacip' # None
    BY <1>1, <1>5, Consts DEF Inv, SysTypeOK
<1>9. OrderInv'
  <2>1. unacip' = "qf.sta" => ring' = Format
    <3>1. unacip' = "qf.sta" => unacip = "qf.wfm"
        BY <1>1, <1>4, <1>6 DEF OrderInv
    <3> QED BY <1>1, <1>2, <1>3, <1>4, <3>1 DEF DownInv
  <2> QED BY <1>1, <1>2, <1>4, <1>5, <1>6, <1>7, <2>1 DEF OrderInv
<1>10. DownInv'
    BY <1>1, <1>2, <1>3, <1>4, <1>8 DEF DownInv
<1>11. FlagInv'
    BY <1>1, <1>3, <1>4, DownFlag DEF DownInv
<1> QED BY <1>2, <1>3, <1>9, <1>10, <1>11 DEF StallInv, UpInv

\* No step of the driver before START asks for a poll.
LEMMA DownStep ==
  ASSUME Inv, Inv', StallInv, state # "RUNNING", [SysNext]_sysvars
  PROVE  StallInv'
<1>0. OrderInv /\ DownInv
    BY DEF StallInv
<1>1. /\ ~xip /\ ~unapip /\ mpc \in {"onc", "idle"}
      /\ hpc \in {"off", "rdio", "wrio", "dni", "pcsr", "cmd"}
      /\ mpc = "onc" \/ unacmq # <<>> \/ unacip # None
    BY <1>0 DEF DownInv
<1>2. CASE SysDevice
    BY <1>2, DownDevice
<1>3. ~SysArrive
    BY DEF SysArrive, FrameArrives, Inv, QuietInv
<1>4. CASE HTake
  <2>1. /\ intreq /\ ~intreq' /\ hpc = "off" /\ hpc' = "rdio"
        /\ UNCHANGED <<queues, polling, mpc, status, inte, state, ring, cmdflag, resetflag>>
      BY <1>4 DEF HTake, TakeInterrupt, csrs, port
  <2>2. OrderInv' /\ DownInv'
      BY <1>0, <2>1 DEF OrderInv, DownInv, queues, polling
  <2>3. FlagInv'
      BY <1>1, <2>1, DownFlag DEF queues, polling
  <2> QED BY <2>1, <2>2, <2>3 DEF StallInv, UpInv
<1>5. CASE HRead
  <2>1. /\ hpc = "rdio" /\ hpc' = "wrio" /\ p4' = status
        /\ UNCHANGED <<queues, polling, mpc, status, inte, intreq, state, ring, cmdflag,
                       pcmd, resetflag>>
      BY <1>5 DEF HRead, vars, csrs, port
  <2>2. OrderInv' /\ DownInv'
      BY <1>0, <2>1 DEF OrderInv, DownInv, queues, polling
  <2>3. FlagInv'
      BY <1>1, <2>1, DownFlag DEF queues, polling
  <2> QED BY <2>1, <2>2, <2>3 DEF StallInv, UpInv
<1>6. CASE HAck
    BY <1>6, DownAck
<1>7. CASE HDniCommand
    BY <1>7, DownCommand
<1>8. ~HDniPoll
  <2>1. SUFFICES ASSUME HDniPoll PROVE FALSE
      OBVIOUS
  <2>2. hpc = "dni" /\ unacmq = <<>> /\ mpc # "onc"
      BY <2>1 DEF HDniPoll, Inv, BootInv
  <2> QED BY <1>0, <1>1, <2>2 DEF OrderInv, DownInv
<1>9. CASE HPcsr
  <2>1. /\ hpc = "pcsr" /\ hpc' = "cmd"
        /\ UNCHANGED <<queues, polling, mpc, status, inte, intreq, state, ring, cmdflag,
                       pcmd, resetflag>>
      BY <1>9 DEF HPcsr, WritePcsr23, port
  <2>2. OrderInv' /\ DownInv'
      BY <1>0, <2>1 DEF OrderInv, DownInv, queues, polling
  <2>3. FlagInv'
      BY <1>1, <2>1, DownFlag DEF queues, polling
  <2> QED BY <2>1, <2>2, <2>3 DEF StallInv, UpInv
<1>10. CASE HCmd
  <2> DEFINE c == PortCommand(unacip)
  <2>1. /\ hpc = "cmd" /\ hpc' = "off" /\ WritePcsr0({}, TRUE, c)
        /\ UNCHANGED <<queues, polling, mpc>> /\ mpc # "onc" /\ c # "NOOP"
      BY <1>10 DEF HCmd, Inv, BootInv, PortCommand
  <2>2. inte /\ status = {} /\ ~resetflag
      BY <1>0, <2>1 DEF OrderInv, DownInv
  <2>3. /\ status' = {} /\ ~intreq' /\ cmdflag' /\ pcmd' = c /\ inte'
        /\ UNCHANGED <<state, ring, resetflag>>
    <3> HIDE DEF c
    <3> QED BY <2>1, <2>2, Written
  <2>4. unacip # None
      BY <1>0, <2>1 DEF DownInv
  <2>5. OrderInv' /\ DownInv'
      BY <1>0, <2>1, <2>2, <2>3, <2>4 DEF OrderInv, DownInv, queues, polling
  <2>6. FlagInv'
      BY <1>1, <2>1, DownFlag DEF queues, polling
  <2> QED BY <1>1, <2>3, <2>5, <2>6 DEF StallInv, UpInv
<1>11. CASE MOnce
  <2>1. /\ mpc = "onc" /\ mpc' = "idle" /\ hpc = "off" /\ hpc' = "off"
        /\ unacmq' = <<"qf.pcb", "qf.rha", "qf.wfm", "qf.sta">>
        /\ WritePcsr0({}, TRUE, "NOOP") /\ UNCHANGED <<unacip, pcb, xip, unapip>>
      BY <1>11 DEF MOnce, Main
  <2>2. ~inte /\ unacip = None /\ ~intreq
      BY <2>1 DEF Inv, BootInv
  <2>3. /\ inte' /\ status' = status /\ UNCHANGED <<state, ring, resetflag, cmdflag, pcmd>>
        /\ intreq' = (status # {})
    BY <2>1, <2>2 DEF WritePcsr0, SetInt, port
  <2>4. Len(unacmq') = 4 /\ unacmq' # <<>> /\ None # "qf.sta" /\ None # "qf.wfm"
      BY <2>1, Consts DEF Functions
  <2>5. mpc = "onc" /\ mpc' = "idle" /\ hpc = "off" /\ hpc' = "off" /\ UNCHANGED <<unacip, pcb, xip, unapip>>
      BY <2>1
  <2>7. OrderInv'
      BY <2>2, <2>3, <2>4, <2>5 DEF OrderInv
  <2>8. DownInv'
      BY <1>0, <2>2, <2>3, <2>4, <2>5 DEF DownInv
  <2>6. FlagInv'
      BY <1>1, <2>1, DownFlag
  <2> QED BY <2>3, <2>6, <2>7, <2>8 DEF StallInv, UpInv
<1>12. ~(HRxiEnd \/ HRxiIgnore \/ HRxiGive \/ HRxiReturn \/ HTxi \/ HTdr \/ HPoll)
    BY <1>1 DEF HRxiEnd, HRxiIgnore, HRxiGive, HRxiReturn, HTxi, HTdr, HPoll
<1>13. ~(MSend \/ MXip \/ MTdr \/ MPol \/ MTest \/ MPoll \/ MSetPip \/ MClrPol)
    BY <1>1 DEF MSend, MXip, MTdr, MPol, MTest, MPoll, MSetPip, MClrPol, Main
<1>14. CASE UNCHANGED sysvars
  <2>1. UNCHANGED <<queues, polling, mpc, hpc, p4, status, inte, intreq, state, ring, cmdflag,
                    pcmd, resetflag>>
      BY <1>14 DEF sysvars, vars, csrs, port
  <2>2. OrderInv' /\ DownInv'
      BY <1>0, <2>1 DEF OrderInv, DownInv, queues, polling
  <2>3. FlagInv'
      BY <1>1, <2>1, DownFlag DEF queues, polling
  <2> QED BY <2>1, <2>2, <2>3 DEF StallInv, UpInv
<1> QED BY <1>2, <1>3, <1>4, <1>5, <1>6, <1>7, <1>8, <1>9, <1>10, <1>11, <1>12, <1>13, <1>14
        DEF SysNext, Handler, MFinish
-----------------------------------------------------------------------------
(* From START on. *)

\* What is known once the port runs.
LEMMA Running ==
  ASSUME Inv, StallInv, state = "RUNNING"
  PROVE  /\ inte /\ unacmq = <<>> /\ mpc # "onc" /\ ~resetflag /\ ring = Format
         /\ hpc \notin {"pcsr", "cmd"} /\ (cmdflag => pcmd \in {"NOOP", "PDMD"})
  BY DEF StallInv, OrderInv, UpInv, Inv, BootInv, Booting

\* It is known as long as the end of a command stays in sight.
LEMMA UpKept ==
  ASSUME Inv, StallInv, state = "RUNNING", state' = "RUNNING", ring' = ring, inte' = inte,
         mpc' # "onc", UNCHANGED <<unacmq, pcb>>, hpc' \notin {"pcsr", "cmd"},
         cmdflag' => pcmd' \in {"NOOP", "PDMD"},
         unacip' = None \/ unacip' = unacip,
         unacip' # None => DoneComes',
         mpc' \notin {"onc", "idle"} => unacip' = None
  PROVE  OrderInv' /\ DownInv' /\ UpInv'
<1>1. inte /\ unacmq = <<>> /\ ring = Format
    BY Running
<1>2. None # "qf.sta" /\ None # "qf.wfm"
    BY Consts DEF Functions
<1>3. OrderInv'
    BY <1>1, <1>2 DEF StallInv, OrderInv
<1> QED BY <1>1, <1>3 DEF DownInv, UpInv

\* The places of the handler from which it comes to i.dni.
ToDni == {"wrio", "rxi", "rxi.2", "txi", "dni"}

\* The handler goes from one of them to another.
LEMMA DoneKept ==
  ASSUME DoneComes, resetflag' = resetflag, cmdflag => cmdflag',
         "DNI" \in status => "DNI" \in status' \/ InHandler("DNI", ToDni)',
         InHandler("DNI", ToDni) => InHandler("DNI", ToDni)'
  PROVE  DoneComes'
  BY DEF DoneComes, ToDni

\* Where the handler goes if DNI is among the bits that it has read.
LEMMA Dispatched ==
  ASSUME NEW bits, "DNI" \in bits
  PROVE  /\ Dispatch(bits) \in ToDni
         /\ Dispatch(bits \ {"RXI"}) \in ToDni
         /\ Dispatch(bits \ {"RXI", "TXI"}) = "dni"
  BY DEF Dispatch, ToDni

\* The service routine: the end of a command is reported, a demand is met, and
\* no transmission starts to wait.
LEMMA UpDevice ==
  ASSUME Inv, Inv', StallInv, state = "RUNNING", SysDevice
  PROVE  StallInv'
<1>0. /\ Svc(pcb) /\ UNCHANGED <<queues, polling, p4, hpc, hret, mpc, lost>> /\ ~resetflag'
      /\ status \subseteq status' /\ pcmd' = pcmd /\ inte' = inte /\ state' = "RUNNING"
    BY DeviceCsrs DEF SysDevice
<1>1. /\ inte /\ mpc # "onc" /\ ~resetflag /\ ring = Format /\ ring.tdrb # Hole
      /\ hpc \notin {"pcsr", "cmd"} /\ (cmdflag => pcmd \in {"NOOP", "PDMD"})
    BY Running, Consts
<1>2. TxFound = IF Tx.own THEN "send" ELSE "free"
    BY <1>1, EntryInOrder
<1>3. /\ ring' = ring /\ (cmdflag' => cmdflag) /\ (cmdflag => cmdflag' \/ "DNI" \in status')
      /\ (EntryWaits' => EntryWaits /\ (Demanded => Demanded'))
  <2>1. CASE SvcReset \/ SvcGetPcb \/ SvcAux(pcb) \/ SvcSelfTest \/ SvcStart \/ SvcStop
      BY <1>1, <2>1 DEF SvcReset, SvcGetPcb, SvcAux, SvcSelfTest, SvcStart, SvcStop, Command
  <2>2. CASE SvcPollError \/ SvcPollRunt
      BY <1>2, <2>2 DEF SvcPollError, SvcPollRunt
  <2>3. CASE SvcNoop
    <3>1. /\ ring' = ring /\ ~cmdflag' /\ "DNI" \in status' /\ ~Demanded
          /\ UNCHANGED <<state, txring, txflag>>
        BY <2>3 DEF SvcNoop, Command, Report, SetInt, port, txside, mem, Demanded
    <3> QED BY <3>1 DEF EntryWaits
  <2>4. CASE SvcPollSend
    <3>1. ring' = ring /\ ~cmdflag' /\ "DNI" \in status' /\ txflag'
        BY <2>4 DEF SvcPollSend, Command, Report, SetInt, port
    <3> QED BY <2>4, <3>1 DEF EntryWaits, SvcPollSend, Command
  <2>5. CASE SvcPollIdle
    <3>1. /\ ring' = ring /\ ~cmdflag' /\ "DNI" \in status' /\ cmdflag
          /\ UNCHANGED <<txring, txflag>>
        BY <2>5 DEF SvcPollIdle, Command, Report, SetInt, port, mem
    <3>2. txflag \/ ~Tx.own
        BY <1>2, <2>5 DEF SvcPollIdle
    <3> QED BY <3>1, <3>2 DEF EntryWaits, Tx
  <2>6. CASE SvcTxDone
    <3>1. ring' = ring /\ cmdflag' = cmdflag /\ ~cmdflag /\ txflag /\ ~txflag'
        BY <2>6 DEF SvcTxDone, port
    <3>2. TxEnds
        BY <3>1, TxDevice DEF TxSame, TxStarts
    <3>3. ~Tx'.own
      <4>1. Tx \in TxEntry /\ Tdr \in DOMAIN txring /\ 0 \in DOMAIN txring[Tdr]
          BY Consts DEF Inv, SysTypeOK, TypeOK, TypeMem, Tx
      <4> QED BY <3>2, <4>1 DEF TxEnds, Tx, TxEntry
    <3> QED BY <3>1, <3>3 DEF EntryWaits, Tx
  <2>7. CASE SvcReceive
    <3>1. ring' = ring /\ cmdflag' = cmdflag /\ ~cmdflag /\ UNCHANGED <<txring, txflag>>
        BY <2>7 DEF SvcReceive, SvcReceiveNone, SvcReceiveDrop, SvcReceiveRcbi,
                    SvcReceiveStore, Receiving, port, txside
    <3> QED BY <1>0, <3>1 DEF EntryWaits, Demanded
  <2> QED BY <1>0, <2>1, <2>2, <2>3, <2>4, <2>5, <2>6, <2>7 DEF Svc
<1>4. DoneComes => DoneComes'
    BY <1>0, <1>1, <1>3 DEF DoneComes, InHandler
<1>5. OrderInv' /\ DownInv' /\ UpInv'
  <2>1. UpInv
      BY DEF StallInv
  <2> QED BY <1>0, <1>1, <1>3, <1>4, <2>1, UpKept DEF UpInv, queues
<1>6. FlagInv'
    BY <1>0, <1>3, <1>4 DEF StallInv, FlagInv, FlagIsEnough, Demanded, polling
<1> QED BY <1>5, <1>6 DEF StallInv

\* A step that leaves polls, commands and the transmit entry alone, and from
\* which the handler still comes to i.dni.
LEMMA UpStill ==
  ASSUME Inv, StallInv, state = "RUNNING",
         UNCHANGED <<state, ring, inte, cmdflag, pcmd, resetflag, txring, txflag, status,
                     unacmq, unacip, pcb, polling, mpc, lost>>,
         hpc # "poll", hpc' \notin {"pcsr", "cmd", "poll"},
         InHandler("DNI", ToDni) => InHandler("DNI", ToDni)'
  PROVE  StallInv'
<1>1. DoneComes => DoneComes'
    BY DoneKept
<1>2. UpInv /\ FlagInv
    BY DEF StallInv
<1>3. OrderInv' /\ DownInv' /\ UpInv'
  <2>1. mpc # "onc" /\ (cmdflag => pcmd \in {"NOOP", "PDMD"})
      BY Running
  <2> QED BY <1>1, <1>2, <2>1, UpKept DEF UpInv
<1>4. UNCHANGED <<EntryWaits, Demanded>>
    BY DEF EntryWaits, Demanded
<1>5. FlagInv'
    BY <1>1, <1>2, <1>4 DEF FlagInv, FlagIsEnough, Demanded, polling
<1> QED BY <1>3, <1>5 DEF StallInv

\* The handler's steps that read, and those of i.rxi and i.txi.
LEMMA UpHandler ==
  ASSUME Inv, StallInv, state = "RUNNING",
         HTake \/ HRead \/ HRxiEnd \/ HRxiIgnore \/ HRxiGive \/ HRxiReturn \/ HTxi
  PROVE  StallInv'
<1>1. /\ UNCHANGED <<state, ring, inte, cmdflag, pcmd, resetflag, txring, txflag, status,
                     unacmq, unacip, pcb, polling, mpc, lost>>
      /\ hpc \in {"off", "rdio", "rxi", "rxi.2", "txi"}
  <2>1. CASE HTake
      BY <2>1 DEF HTake, TakeInterrupt, csrs, port, txside, mem, queues
  <2>2. CASE HRead \/ HRxiEnd \/ HRxiIgnore
      BY <2>2 DEF HRead, HRxiEnd, HRxiIgnore, vars, csrs, port, txside, mem, queues
  <2>3. CASE HRxiGive \/ HTxi
      BY <2>3 DEF HRxiGive, HTxi, vars, csrs, port, txside, mem
  <2>4. CASE HRxiReturn
      BY <2>4 DEF HRxiReturn, device, csrs, port, txside
  <2> QED BY <2>1, <2>2, <2>3, <2>4
<1>2. \A bits : Dispatch(bits) \in {"rxi", "txi", "dni", "off"}
    BY DEF Dispatch
<1>3. hpc' \notin {"pcsr", "cmd", "poll"}
    BY <1>2 DEF HTake, HRead, HRxiEnd, HRxiIgnore, HRxiGive, HRxiReturn, HTxi
<1>4. ASSUME InHandler("DNI", ToDni) PROVE InHandler("DNI", ToDni)'
  <2>1. "DNI" \in p4 /\ hpc \in {"rxi", "rxi.2", "txi"}
      BY <1>1, <1>4 DEF InHandler, ToDni
  <2>2. UNCHANGED p4
      BY <2>1 DEF HTake, HRead, HRxiEnd, HRxiIgnore, HRxiGive, HRxiReturn, HTxi
  <2>3. /\ Dispatch(p4 \ {"RXI"}) \in ToDni /\ Dispatch(p4 \ {"RXI", "TXI"}) = "dni"
      BY <2>1, Dispatched
  <2>4. hpc' \in ToDni \/ (hpc' = "tdr" /\ hret' \in ToDni)
      BY <2>1, <2>3 DEF HTake, HRead, HRxiEnd, HRxiIgnore, HRxiGive, HRxiReturn, HTxi, ToDni
  <2> QED BY <2>1, <2>2, <2>4 DEF InHandler
<1> QED BY <1>1, <1>3, <1>4, UpStill
\* An acknowledge: the command field becomes 0, which loses a demand that waits.
LEMMA UpAck ==
  ASSUME Inv, StallInv, state = "RUNNING", HAck
  PROVE  StallInv'
<1>1. /\ inte = TRUE /\ mpc # "onc" /\ ~resetflag /\ UpInv /\ FlagInv
      /\ (cmdflag => pcmd \in {"NOOP", "PDMD"})
    BY Running DEF StallInv, Inv, SysTypeOK, TypeOK, TypeCsrs
<1>2. /\ hpc = "wrio" /\ WritePcsr0(p4, inte, "NOOP") /\ hpc' = Dispatch(p4)
      /\ UNCHANGED <<queues, polling, p4, hret, mpc, txring>>
      /\ lost' = (IF Demanded THEN lost \cup {"ack"} ELSE lost)
    BY DEF HAck, mem, Demanded
<1>3. /\ status' = status \ p4 /\ inte' = inte /\ cmdflag' = cmdflag /\ pcmd' = "NOOP"
      /\ UNCHANGED <<state, ring, resetflag, txflag>>
  <2>1. WritePcsr0(p4, TRUE, "NOOP")
      BY <1>1, <1>2
  <2>2. /\ status' = status \ p4 /\ inte' /\ cmdflag' = cmdflag /\ pcmd' = "NOOP"
        /\ UNCHANGED <<state, ring, resetflag, txflag>>
      BY <1>1, <2>1, Written DEF Inv, SysTypeOK, TypeOK, TypeFlags
  <2>3. inte' = inte
      BY <2>1, <1>1 DEF WritePcsr0
  <2> QED BY <2>2, <2>3
<1>4. hpc' \in {"rxi", "txi", "dni", "off"}
    BY <1>2 DEF Dispatch
<1>5. "DNI" \in p4 => InHandler("DNI", ToDni)'
    BY <1>2, Dispatched DEF InHandler
<1>6. DoneComes => DoneComes'
    BY <1>3, <1>5, DoneKept DEF InHandler
<1>7. OrderInv' /\ DownInv' /\ UpInv'
    BY <1>1, <1>2, <1>3, <1>4, <1>6, UpKept DEF UpInv, queues
<1>8. FlagInv'
  <2>1. lost' = {} => lost = {} /\ ~Demanded
      BY <1>2
  <2>2. EntryWaits' <=> EntryWaits
      BY <1>2, <1>3 DEF EntryWaits
  <2> QED BY <1>1, <1>2, <1>4, <1>6, <2>1, <2>2 DEF FlagInv, FlagIsEnough, Demanded, polling
<1> QED BY <1>7, <1>8 DEF StallInv

\* sndmsg in the handler: it asks for a poll when it has filled the entry, ...
LEMMA UpTdr ==
  ASSUME Inv, StallInv, state = "RUNNING", HTdr
  PROVE  StallInv'
<1>1. /\ mpc # "onc" /\ UpInv /\ FlagInv /\ (cmdflag => pcmd \in {"NOOP", "PDMD"})
    BY Running DEF StallInv
<1>2. /\ hpc = "tdr" /\ hpc' = "poll" /\ unapol'
      /\ UNCHANGED <<queues, unapip, p4, hret, mpc, lost, status, inte, cmdflag, pcmd, state,
                     ring, resetflag>>
    BY DEF HTdr, FillTdr, device, csrs, port
<1>3. DoneComes => DoneComes'
    BY <1>2, DoneKept DEF InHandler, ToDni
<1>4. OrderInv' /\ DownInv' /\ UpInv'
    BY <1>1, <1>2, <1>3, UpKept DEF UpInv, queues
<1>5. FlagInv'
    BY <1>1, <1>2, <1>3 DEF FlagInv, FlagIsEnough
<1> QED BY <1>4, <1>5 DEF StallInv

\* A polling demand is flagged.
LEMMA DemandMade ==
  ASSUME Inv, StallInv, state = "RUNNING", PollDemand
  PROVE  /\ Demanded' /\ DoneComes' /\ inte' = inte
         /\ UNCHANGED <<state, ring, resetflag, txflag, txring, status>>
<1>1. inte
    BY Running
<1>2. /\ pcmd' = "PDMD" /\ cmdflag' /\ inte' /\ status' = status
      /\ UNCHANGED <<state, ring, resetflag, txflag>>
    BY <1>1 DEF PollDemand, WritePcsr0, SetInt, port, txside
<1> QED BY <1>1, <1>2 DEF Demanded, DoneComes, PollDemand, mem

\* After which unapol may be cleared and unapip set.
LEMMA DemandStep ==
  ASSUME Inv, StallInv, state = "RUNNING", PollDemand, lost' = lost,
         UNCHANGED <<unacmq, pcb>>, unacip' = None \/ unacip' = unacip,
         hpc' \notin {"pcsr", "cmd", "poll"}, mpc' # "onc",
         mpc' \notin {"onc", "idle"} => unacip' = None
  PROVE  StallInv'
<1>1. /\ Demanded' /\ DoneComes' /\ state' = "RUNNING" /\ ring' = ring /\ inte' = inte
    BY DemandMade
<1>2. OrderInv' /\ DownInv' /\ UpInv'
    BY <1>1, UpKept DEF Demanded
<1>3. FlagInv'
    BY <1>1 DEF FlagInv, FlagIsEnough, Demanded
<1> QED BY <1>2, <1>3 DEF StallInv

\* ... and makes one unless a function or a poll is in progress.
LEMMA UpPoll ==
  ASSUME Inv, StallInv, state = "RUNNING", HPoll
  PROVE  StallInv'
<1>1. /\ mpc # "onc" /\ UpInv /\ FlagInv /\ (cmdflag => pcmd \in {"NOOP", "PDMD"})
    BY Running DEF StallInv
<1>2. /\ hpc = "poll" /\ hpc' = hret /\ hret \in {"off", "rxi.2", "dni"}
      /\ UNCHANGED <<queues, p4, hret, mpc, lost>>
    BY DEF HPoll, Inv, SysTypeOK
<1>3. CASE PollDemand
    BY <1>1, <1>2, <1>3, DemandStep DEF UpInv, queues
<1>4. CASE (unacip # None \/ unapip) /\ UNCHANGED <<vars, polling>>
  <2>1. UNCHANGED <<status, inte, cmdflag, pcmd, state, ring, resetflag, txring, txflag, polling>>
      BY <1>4 DEF vars, csrs, port, txside, mem
  <2>2. DoneComes => DoneComes'
      BY <1>2, <2>1, DoneKept DEF InHandler, ToDni
  <2>3. OrderInv' /\ DownInv' /\ UpInv'
      BY <1>1, <1>2, <2>1, <2>2, UpKept DEF UpInv, queues
  <2>4. unapol /\ (lost = {} => DoneComes)
      BY <1>1, <1>2, <1>4 DEF FlagInv, UpInv
  <2>5. FlagInv'
      BY <1>1, <1>2, <2>1, <2>2, <2>4 DEF FlagInv, FlagIsEnough, polling
  <2> QED BY <2>3, <2>5 DEF StallInv
<1> QED BY <1>3, <1>4 DEF HPoll

\* i.dni: the end of START, or of a poll.
LEMMA UpDni ==
  ASSUME Inv, StallInv, state = "RUNNING", HDniPoll
  PROVE  StallInv'
<1>1. /\ mpc # "onc" /\ UpInv /\ FlagInv /\ (cmdflag => pcmd \in {"NOOP", "PDMD"})
    BY Running DEF StallInv
<1>2. /\ hpc = "dni" /\ hpc' = "off" /\ unacip' = None
      /\ UNCHANGED <<unacmq, pcb, mpc, lost>>
    BY DEF HDniPoll
<1>3. CASE PollDemand
    BY <1>1, <1>2, <1>3, DemandStep
<1>4. CASE ~unapol /\ UNCHANGED <<vars, unapol>> /\ unapip' = FALSE
  <2>1. UNCHANGED <<status, inte, cmdflag, pcmd, state, ring, resetflag, txring, txflag>>
      BY <1>4 DEF vars, csrs, port, txside, mem
  <2>2. OrderInv' /\ DownInv' /\ UpInv'
      BY <1>1, <1>2, <2>1, UpKept
  <2>3. EntryWaits' <=> EntryWaits
      BY <2>1 DEF EntryWaits
  <2>4. FlagInv'
      BY <1>1, <1>2, <1>4, <2>1, <2>3 DEF FlagInv, FlagIsEnough, Demanded
  <2> QED BY <2>2, <2>4 DEF StallInv
<1> QED BY <1>3, <1>4 DEF HDniPoll

\* unasnd: it relies on the end of the poll that is in progress, or demands one.
LEMMA UpMain ==
  ASSUME Inv, StallInv, state = "RUNNING",
         MSend \/ MXip \/ MTdr \/ MPol \/ MTest \/ MPoll \/ MSetPip \/ MClrPol
  PROVE  StallInv'
<1>1. /\ mpc # "onc" /\ UpInv /\ FlagInv /\ (cmdflag => pcmd \in {"NOOP", "PDMD"})
    BY Running DEF StallInv
<1>2. /\ hpc = "off" /\ hpc' = "off" /\ mpc' # "onc" /\ UNCHANGED <<p4, hret, pcb, unacmq, unacip>>
      /\ unacip = None
  <2>1. unacip = None
      BY <1>1 DEF MSend, MXip, MTdr, MPol, MTest, MPoll, MSetPip, MClrPol, Main, UpInv
  <2> QED BY <2>1 DEF MSend, MXip, MTdr, MPol, MTest, MPoll, MSetPip, MClrPol, Main
<1>3. CASE MPoll
    BY <1>2, <1>3, DemandStep DEF MPoll
<1>4. CASE MSend \/ MXip \/ MTdr \/ MPol \/ MTest \/ MSetPip \/ MClrPol
  <2>1. UNCHANGED <<status, inte, cmdflag, pcmd, state, ring, resetflag, txflag>>
    <3>1. CASE MTdr
        BY <3>1 DEF MTdr, FillTdr, device, csrs, port, txside
    <3>2. CASE MSend \/ MXip \/ MPol \/ MTest \/ MSetPip \/ MClrPol
        BY <3>2 DEF MSend, MXip, MPol, MTest, MSetPip, MClrPol, vars, csrs, port, txside
    <3> QED BY <1>4, <3>1, <3>2
  <2>2. DoneComes' <=> DoneComes
      BY <1>2, <2>1 DEF DoneComes, InHandler
  <2>3. OrderInv' /\ DownInv' /\ UpInv'
      BY <1>1, <1>2, <2>1, <2>2, UpKept
  <2>4. Demanded' <=> Demanded
      BY <2>1 DEF Demanded
  <2>5. ASSUME UNCHANGED txring PROVE EntryWaits' <=> EntryWaits
      BY <2>1, <2>5 DEF EntryWaits
  <2>6. CASE MSend \/ MXip
    <3>1. UNCHANGED <<txring, polling, lost>> /\ mpc \notin {"pol", "cip", "pip", "wrio"}
          /\ mpc' \notin {"cip", "pip"}
        BY <2>6 DEF MSend, MXip, Main, vars, mem
    <3> QED BY <1>1, <1>2, <2>2, <2>3, <2>4, <2>5, <3>1
            DEF StallInv, FlagInv, FlagIsEnough, Demanded, polling
  <2>7. CASE MTdr
    <3>1. UNCHANGED <<polling, lost>> /\ mpc' = "pol"
        BY <2>7 DEF MTdr
    <3> QED BY <1>1, <1>2, <2>2, <2>3, <3>1 DEF StallInv, FlagInv, FlagIsEnough, polling
  <2>8. CASE MPol
    <3>1. UNCHANGED <<unapip, lost>> /\ unapol' /\ mpc' = "cip"
        BY <2>8 DEF MPol
    <3> QED BY <1>1, <1>2, <2>2, <2>3, <3>1 DEF StallInv, FlagInv, FlagIsEnough
  <2>9. CASE MTest
    <3>1. /\ UNCHANGED <<txring, polling, lost>> /\ mpc \in {"cip", "pip"}
          /\ mpc' \in {"idle", "pip", "wrio"}
          /\ (mpc' = "idle" => unapip)
        BY <1>2, <2>9 DEF MTest, Main, vars, mem
    <3> QED BY <1>1, <1>2, <2>2, <2>3, <2>4, <2>5, <3>1
            DEF StallInv, FlagInv, FlagIsEnough, Demanded, polling
  <2>10. CASE MSetPip
    <3>1. /\ UNCHANGED <<txring, unapol>> /\ mpc = "setpip" /\ mpc' = "clrpol"
          /\ lost' = (IF DoneComes THEN lost ELSE lost \cup {"pip"})
        BY <2>10 DEF MSetPip, Main, vars, mem
    <3>2. lost' = {} => lost = {} /\ DoneComes
        BY <3>1
    <3> QED BY <1>1, <1>2, <2>2, <2>3, <2>4, <2>5, <3>1, <3>2
            DEF StallInv, FlagInv, FlagIsEnough, Demanded
  <2>11. CASE MClrPol
    <3>1. /\ UNCHANGED <<txring, unapip>> /\ mpc = "clrpol" /\ mpc' = "idle"
          /\ lost' = (IF EntryWaits /\ ~Demanded THEN lost \cup {"pol"} ELSE lost)
        BY <2>11 DEF MClrPol, Main, vars, mem, Demanded
    <3>2. lost' = {} => lost = {} /\ (EntryWaits => Demanded)
        BY <3>1
    <3> QED BY <1>1, <1>2, <2>2, <2>3, <2>4, <2>5, <3>1, <3>2
            DEF StallInv, FlagInv, FlagIsEnough, Demanded
  <2> QED BY <1>4, <2>6, <2>7, <2>8, <2>9, <2>10, <2>11
<1> QED BY <1>3, <1>4

LEMMA UpStep ==
  ASSUME Inv, Inv', StallInv, state = "RUNNING", [SysNext]_sysvars
  PROVE  StallInv'
<1>0. /\ mpc # "onc" /\ unacmq = <<>> /\ hpc \notin {"pcsr", "cmd"}
      /\ (cmdflag => pcmd \in {"NOOP", "PDMD"}) /\ UpInv /\ FlagInv
    BY Running DEF StallInv
<1>1. CASE SysDevice
    BY <1>1, UpDevice
<1>2. CASE SysArrive \/ UNCHANGED sysvars
  <2>1. UNCHANGED <<state, ring, inte, cmdflag, pcmd, resetflag, txring, txflag, status,
                    unacmq, unacip, pcb, polling, p4, hpc, hret, mpc, lost>>
    <3>1. CASE SysArrive
        BY <3>1 DEF SysArrive, FrameArrives, csrs, port, txside, mem, queues
    <3>2. CASE UNCHANGED sysvars
        BY <3>2 DEF sysvars, vars, csrs, port, txside, mem, queues
    <3> QED BY <1>2, <3>1, <3>2
  <2>2. (DoneComes' <=> DoneComes) /\ (EntryWaits' <=> EntryWaits)
      BY <2>1 DEF DoneComes, InHandler, EntryWaits
  <2>3. OrderInv' /\ DownInv' /\ UpInv'
      BY <1>0, <2>1, <2>2, UpKept DEF UpInv
  <2>4. FlagInv'
      BY <1>0, <2>1, <2>2 DEF FlagInv, FlagIsEnough, Demanded, polling
  <2> QED BY <2>3, <2>4 DEF StallInv
<1>3. CASE HTake \/ HRead \/ HRxiEnd \/ HRxiIgnore \/ HRxiGive \/ HRxiReturn \/ HTxi
    BY <1>3, UpHandler
<1>4. CASE HAck
    BY <1>4, UpAck
<1>5. CASE HTdr
    BY <1>5, UpTdr
<1>6. CASE HPoll
    BY <1>6, UpPoll
<1>7. CASE HDniPoll
    BY <1>7, UpDni
<1>8. CASE MSend \/ MXip \/ MTdr \/ MPol \/ MTest \/ MPoll \/ MSetPip \/ MClrPol
    BY <1>8, UpMain
<1>9. ~(HDniCommand \/ HPcsr \/ HCmd \/ MOnce)
    BY <1>0 DEF HDniCommand, HPcsr, HCmd, MOnce, Main
<1> QED BY <1>1, <1>2, <1>3, <1>4, <1>5, <1>6, <1>7, <1>8, <1>9 DEF SysNext, Handler, MFinish

LEMMA StallStep == Inv /\ Inv' /\ StallInv /\ [SysNext]_sysvars => StallInv'
  BY DownStep, UpStep

\* sndmsg's "the flag is enough", for any number of packets, arrivals and
\* receive entries: unless a demand has been lost in one of the three ways that
\* lost records, a filled entry is sent, or a demand is on its way.  There is
\* no fourth way: neither the look at unacip and then at unapip, nor the
\* handler between any two steps of unasnd, nor the start-up loses one.
THEOREM StallsAreExplained == SysSpec => []StallsExplained
<1>1. StallInv => StallsExplained
    BY DEF StallInv, FlagInv, StallsExplained
<1> QED BY <1>1, StallInit, StallStep, SysInvAlways, PTL DEF SysSpec
=============================================================================
