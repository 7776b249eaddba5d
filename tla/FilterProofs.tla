---------------------------- MODULE FilterProofs ----------------------------
(***************************************************************************)
(* The packet filter, for buffers and frames of any number: FramesNoticed  *)
(* always holds, and the three buffers together are one queue, so that     *)
(* Spec implements FrameChannel.                                           *)
(***************************************************************************)
EXTENDS PacketFilter, SequenceTheorems, TLAPS

\* What a frame's origin says of its addresses.
Honest == {f \in Frame : /\ f.by = "net" => f.src \notin Macs
                         /\ f.by = "guest" => f.from # HostIp}

\* The flag is up, will be put up, or is about to be justified: eth_read has
\* still to ask the kernel.
Noticed ==
  batch \o hold \o store # <<>> =>
    interrupt \/ signal \/ pc \in {"clear", "loop", "copy"}

\* eth_read asks the kernel only when its batch is used up, and is told that
\* there is nothing only after all three buffers were empty.
Inv ==
  /\ TypeOK
  /\ batch \in Seq(Honest) /\ hold \in Seq(Honest) /\ store \in Seq(Honest)
  /\ pc \in {"copy", "none"} => batch = <<>>
  /\ Noticed

-----------------------------------------------------------------------------
(* Three sequences in a row. *)

LEMMA Rows ==
  ASSUME NEW F, NEW s \in Seq(F), NEW t \in Seq(F), NEW u \in Seq(F)
  PROVE  /\ s \o t \o u \in Seq(F)
         /\ s \o t \o u = <<>> <=> s = <<>> /\ t = <<>> /\ u = <<>>
<1>1. s \o t \in Seq(F) /\ (s \o t) \o u \in Seq(F)
    BY ConcatProperties
<1>2. (s \o t) \o u = <<>> <=> s \o t = <<>> /\ u = <<>>
    BY <1>1, ConcatEqualIffEmpty
<1>3. s \o t = <<>> <=> s = <<>> /\ t = <<>>
    BY ConcatEqualIffEmpty
<1> QED BY <1>1, <1>2, <1>3

\* A frame added to the last of them is added to the row.
LEMMA RowAppend ==
  ASSUME NEW F, NEW s \in Seq(F), NEW t \in Seq(F), NEW u \in Seq(F), NEW f \in F
  PROVE  s \o t \o Append(u, f) = Append(s \o t \o u, f)
<1> DEFINE v == s \o t
<1>1. v \in Seq(F) /\ v \o u \in Seq(F) /\ <<f>> \in Seq(F)
    BY ConcatProperties
<1>2. Append(u, f) = u \o <<f>> /\ Append(v \o u, f) = (v \o u) \o <<f>>
    BY <1>1, AppendIsConcat
<1> HIDE DEF v
<1>3. v \o (u \o <<f>>) = (v \o u) \o <<f>>
    BY <1>1, ConcatAssociative
<1> QED BY <1>2, <1>3 DEF v

\* Moving a sequence up to an empty place leaves the row as it is.
LEMMA RowMove ==
  ASSUME NEW F, NEW s \in Seq(F), NEW t \in Seq(F)
  PROVE  s \o t \o <<>> = s \o <<>> \o t /\ <<>> \o s \o t = s \o <<>> \o t
<1>1. s \o t \in Seq(F)
    BY ConcatProperties
<1>2. (s \o t) \o <<>> = s \o t /\ s \o <<>> = s /\ <<>> \o s = s
    BY <1>1, ConcatEmptySeq
<1> QED BY <1>2

NextInRow(s, t, u) == /\ Head(s \o t \o u) = Head(s)
                      /\ Tail(s \o t \o u) = Tail(s) \o t \o u

\* The head of the row is the head of its first sequence.
LEMMA RowHead ==
  ASSUME NEW F, NEW s \in Seq(F), NEW t \in Seq(F), NEW u \in Seq(F), s # <<>>
  PROVE  NextInRow(s, t, u)
<1>1. s \o t \o u = s \o (t \o u) /\ t \o u \in Seq(F)
    BY ConcatAssociative, ConcatProperties
<1> DEFINE r == t \o u
<1>2. Tail(s) \in Seq(F) /\ Len(Tail(s)) = Len(s) - 1 /\ Len(s) \in Nat /\ Len(s) > 0
    BY HeadTailProperties, EmptySeq, LenProperties
<1>3. Tail(s) \o t \o u = Tail(s) \o r
  <2>1. Tail(s) \in Seq(F)
      BY <1>2
  <2> QED BY <2>1, ConcatAssociative
<1> HIDE DEF r
<1>4. r \in Seq(F)
    BY <1>1 DEF r
<1>5. /\ s \o r \in Seq(F) /\ Len(s \o r) = Len(s) + Len(r)
      /\ \A i \in 1 .. Len(s) + Len(r) : (s \o r)[i] = IF i <= Len(s) THEN s[i] ELSE r[i - Len(s)]
    BY <1>4, ConcatProperties
<1>6. s \o r # <<>>
    BY <1>4, ConcatEqualIffEmpty
<1>7. Len(r) \in Nat
    BY <1>4, LenProperties
<1>8. Head(s \o r) = Head(s)
    BY <1>2, <1>5, <1>6, <1>7
<1>9. Tail(s \o r) = Tail(s) \o r
  <2>1. /\ Tail(s) \o r \in Seq(F) /\ Len(Tail(s) \o r) = Len(s) - 1 + Len(r)
        /\ \A i \in 1 .. Len(s) - 1 + Len(r) :
             (Tail(s) \o r)[i] = IF i <= Len(s) - 1 THEN Tail(s)[i] ELSE r[i - (Len(s) - 1)]
      BY <1>2, <1>4, ConcatProperties
  <2>2. /\ Tail(s \o r) \in Seq(F) /\ Len(Tail(s \o r)) = Len(s) + Len(r) - 1
        /\ \A i \in 1 .. Len(s) + Len(r) - 1 : Tail(s \o r)[i] = (s \o r)[i + 1]
      BY <1>5, <1>6, HeadTailProperties
  <2>3. \A i \in 1 .. Len(s) - 1 : Tail(s)[i] = s[i + 1]
      BY <1>2, HeadTailProperties
  <2>4. \A i \in 1 .. Len(s) + Len(r) - 1 : Tail(s \o r)[i] = (Tail(s) \o r)[i]
      BY <1>2, <1>5, <1>7, <2>1, <2>2, <2>3
  <2> QED BY <2>1, <2>2, <2>4, <1>2, <1>7, SeqEqual
<1> QED BY <1>1, <1>3, <1>8, <1>9 DEF r, NextInRow

\* What is left when the two buffers of the kernel are emptied.
LEMMA RowCut ==
  ASSUME NEW F, NEW s \in Seq(F), NEW t \in Seq(F), NEW u \in Seq(F)
  PROVE  /\ Len(s) \in 0 .. Len(s \o t \o u)
         /\ s \o <<>> \o <<>> = SubSeq(s \o t \o u, 1, Len(s))
<1> DEFINE r == t \o u
<1>1. s \o t \o u = s \o r /\ r \in Seq(F)
  <2>1. s \o t \o u = s \o r
      BY ConcatAssociative
  <2> QED BY <2>1, ConcatProperties
<1>2. s \o <<>> \o <<>> = s
    BY ConcatEmptySeq
<1>3. Len(s) \in Nat
    BY LenProperties
<1> HIDE DEF r
<1>4. Len(r) \in Nat /\ Len(s \o r) = Len(s) + Len(r)
    BY <1>1, ConcatProperties, LenProperties
<1>5. s = SubSeq(s \o r, 1, Len(s))
  <2>1. CASE s = <<>>
      BY <2>1, <1>1, SubSeqEmpty
  <2>2. CASE s # <<>>
    <3>1. 1 \in 1 .. Len(s) /\ Len(s) \in 1 .. Len(s)
        BY <2>2, <1>3, EmptySeq
    <3> QED BY <3>1, <1>1, SubSeqOfConcat1, SubSeqFull
  <2> QED BY <2>1, <2>2
<1>6. Len(s) \in 0 .. Len(s \o r)
    BY <1>3, <1>4
<1> QED BY <1>1, <1>2, <1>5, <1>6

-----------------------------------------------------------------------------
(* The invariant, step by step. *)

LEMMA InitInv == Init => Inv
<1> SUFFICES ASSUME Init PROVE Inv
    OBVIOUS
<1>1. <<>> \o <<>> \o <<>> = <<>>
    OBVIOUS
<1>2. 0 \in 0 .. MaxFrames /\ Bia \in Macs
    BY FilterAssumption DEF FilterAssumption
<1>3. <<>> \in Seq(Frame) /\ <<>> \in Seq(Honest) /\ <<>> \in Seq(1 .. MaxFrames)
    BY EmptySeq
<1>4. TypeOK
    BY <1>2, <1>3 DEF Init, TypeOK
<1> QED BY <1>1, <1>3, <1>4 DEF Init, Inv, Noticed

\* Frames are what the interface says they are, whoever sends them.
LEMMA FrameHonest ==
  ASSUME TypeOK, seen < MaxFrames, NEW h, NEW src, NEW by,
         \/ h \in NetFrames /\ src = h.src /\ by = "net"
         \/ h \in HostFrames /\ src = Bia /\ by = "host"
         \/ h \in GuestFrames /\ src = mac /\ by = "guest"
  PROVE  FrameOf(h, src, by) \in Honest
<1>1. h \in Headers /\ seen + 1 \in 1 .. MaxFrames
    BY FilterAssumption DEF Headers, TypeOK, FilterAssumption
<1>2. src \in Macs \cup {g.src : g \in NetFrames} /\ by \in {"net", "host", "guest"}
    BY FilterAssumption DEF TypeOK, FilterAssumption
<1>3. h.proto \in {"ip", "arp", "other"}
    BY <1>1, FilterAssumption DEF FilterAssumption
<1>4. FrameOf(h, src, by) \in Frame
    BY <1>1, <1>2, <1>3 DEF FrameOf, Frame
<1>5. /\ FrameOf(h, src, by).by = by /\ FrameOf(h, src, by).src = src
      /\ FrameOf(h, src, by).from = h.from
    BY DEF FrameOf
<1>6. by = "net" => src \notin Macs
    BY FilterAssumption DEF FilterAssumption
<1>7. by = "guest" => h.from # HostIp
    BY FilterAssumption DEF FilterAssumption
<1> QED BY <1>4, <1>5, <1>6, <1>7 DEF Honest

\* bpf_catchpacket puts the frame at the end of the row, or drops it; a frame
\* that is there now has been signalled.
LEMMA CatchRow ==
  ASSUME Inv, NEW f \in Honest, CatchPacket(f), UNCHANGED batch
  PROVE  /\ store' \in Seq(Honest) /\ hold' \in Seq(Honest)
         /\ \/ Waiting' = Append(Waiting, f) /\ signal' = TRUE
            \/ Waiting' = Waiting /\ UNCHANGED signal
<1>1. batch \in Seq(Honest) /\ hold \in Seq(Honest) /\ store \in Seq(Honest)
    BY DEF Inv
<1>2. CASE UNCHANGED <<store, hold, signal>>
    BY <1>1, <1>2 DEF Waiting
<1>3. CASE store' = Append(store, f) /\ signal' = TRUE /\ UNCHANGED hold
  <2>1. Append(store, f) \in Seq(Honest)
      BY <1>1, AppendProperties
  <2>2. batch \o hold \o Append(store, f) = Append(batch \o hold \o store, f)
      BY <1>1, RowAppend
  <2>3. Waiting' = batch \o hold \o Append(store, f)
      BY <1>3 DEF Waiting
  <2> QED BY <1>1, <1>3, <2>1, <2>2, <2>3 DEF Waiting
<1>4. CASE hold = <<>> /\ hold' = store /\ store' = <<f>> /\ signal' = TRUE
  <2>1. <<f>> = Append(<<>>, f) /\ <<>> \in Seq(Honest)
      OBVIOUS
  <2>2. batch \o store \o Append(<<>>, f) = Append(batch \o store \o <<>>, f)
      BY <1>1, <2>1, RowAppend
  <2>3. batch \o store \o <<>> = batch \o <<>> \o store
      BY <1>1, RowMove
  <2>4. Waiting' = batch \o store \o Append(<<>>, f)
      BY <1>4, <2>1 DEF Waiting
  <2>5. Append(<<>>, f) \in Seq(Honest)
      BY <2>1, AppendProperties
  <2> QED BY <1>1, <1>4, <2>1, <2>2, <2>3, <2>4, <2>5 DEF Waiting
<1> QED BY <1>2, <1>3, <1>4 DEF CatchPacket

LEMMA TapStep ==
  ASSUME Inv, NEW f \in Honest, f.id = seen + 1, Tap(f),
         UNCHANGED <<mac, interrupt, batch, pc, reading, given>>
  PROVE  Inv' /\ Channel!Put
<1>1. TypeOK /\ Noticed /\ batch \in Seq(Honest)
    BY DEF Inv
<1>2. /\ store' \in Seq(Honest) /\ hold' \in Seq(Honest)
      /\ \/ Waiting' = Append(Waiting, f) /\ signal' = TRUE
         \/ Waiting' = Waiting /\ UNCHANGED signal
  <2>1. CASE CatchPacket(f)
      BY <2>1, CatchRow
  <2>2. CASE UNCHANGED <<store, hold, signal>>
      BY <2>2 DEF Waiting, Inv
  <2> QED BY <2>1, <2>2 DEF Tap
<1>3. seen' = seen + 1 /\ seen' \in 0 .. MaxFrames /\ UNCHANGED filter
    BY <1>1, FilterAssumption DEF Tap, TypeOK, FilterAssumption
<1>4. store' \in Seq(Frame) /\ hold' \in Seq(Frame)
    BY <1>2, SeqMonotonic DEF Honest
<1>5. TypeOK'
    BY <1>1, <1>2, <1>3, <1>4 DEF TypeOK
<1>6. Noticed'
    BY <1>1, <1>2 DEF Noticed, Waiting
<1>7. Inv'
    BY <1>1, <1>2, <1>5, <1>6 DEF Inv
<1>8. f \in Frame
    BY DEF Honest
<1>9. Channel!Put
    BY <1>2, <1>3, <1>8 DEF Channel!Put, Tap
<1> QED BY <1>7, <1>9

\* What a step does to the specification above.
Refines == Channel!Next \/ UNCHANGED Channel!vars

\* A step that leaves the frames where they are.
LEMMA StillStep ==
  ASSUME Inv, TypeOK', Noticed', UNCHANGED <<batch, hold, store, seen, given>>,
         pc' \in {"copy", "none"} => batch = <<>>
  PROVE  Inv' /\ Channel!SetUp
<1>1. Waiting' = Waiting /\ Waiting \in Seq(Honest)
    BY Rows DEF Waiting, Inv
<1>2. Waiting = SubSeq(Waiting, 1, Len(Waiting)) /\ Len(Waiting) \in 0 .. Len(Waiting)
    BY <1>1, SubSeqFull, LenProperties
<1>3. Channel!SetUp
    BY <1>1, <1>2 DEF Channel!SetUp
<1> QED BY <1>3 DEF Inv

\* The kernel's two buffers, emptied.
LEMMA CutStep ==
  ASSUME Inv, SetFilter("active") \/ SetFilter("passive"), pc = "idle", mac' \in Macs,
         reading' \in BOOLEAN, UNCHANGED <<interrupt, batch, pc, signal, seen, given>>
  PROVE  Inv' /\ Channel!SetUp
<1>1. /\ TypeOK /\ Noticed
      /\ batch \in Seq(Honest) /\ hold \in Seq(Honest) /\ store \in Seq(Honest)
    BY DEF Inv
<1>2. /\ batch' = batch /\ store' = <<>> /\ hold' = <<>> /\ filter' \in {"active", "passive"}
      /\ <<>> \in Seq(Honest) /\ <<>> \in Seq(Frame)
    BY EmptySeq DEF SetFilter
<1>3. Waiting' = batch \o <<>> \o <<>>
    BY <1>2 DEF Waiting
<1>4. \E k \in 0 .. Len(Waiting) : Waiting' = SubSeq(Waiting, 1, k)
  <2>1. /\ Len(batch) \in 0 .. Len(batch \o hold \o store)
        /\ batch \o <<>> \o <<>> = SubSeq(batch \o hold \o store, 1, Len(batch))
      BY <1>1, RowCut
  <2> QED BY <1>3, <2>1 DEF Waiting
<1>5. Waiting' = batch
    BY <1>1, <1>3, ConcatEmptySeq
<1>6. batch # <<>> => Waiting # <<>>
    BY <1>1, Rows DEF Waiting
<1>7. Noticed'
    BY <1>1, <1>5, <1>6 DEF Noticed, Waiting
<1>8. TypeOK'
  <2>1. /\ batch' \in Seq(Frame) /\ store' \in Seq(Frame) /\ hold' \in Seq(Frame)
        /\ given' \in Seq(1 .. MaxFrames)
      BY <1>1, <1>2 DEF TypeOK
  <2> QED BY <1>1, <1>2, <2>1 DEF TypeOK
<1>9. Inv'
    BY <1>1, <1>2, <1>7, <1>8 DEF Inv
<1> QED BY <1>4, <1>9 DEF Channel!SetUp

\* ROTATE_BUFFERS moves frames up in the row.
LEMMA RotateRow ==
  ASSUME NEW F, batch \in Seq(F), hold \in Seq(F), store \in Seq(F), Rotate, batch' = batch
  PROVE  hold' \in Seq(F) /\ store' \in Seq(F) /\ Waiting' = Waiting
<1>1. CASE hold # <<>>
    BY <1>1 DEF Rotate, Waiting
<1>2. CASE hold = <<>>
  <2>1. hold' = store /\ store' = <<>> /\ <<>> \in Seq(F)
      BY <1>2, EmptySeq DEF Rotate
  <2>2. batch \o store \o <<>> = batch \o <<>> \o store
      BY RowMove
  <2> QED BY <1>2, <2>1, <2>2 DEF Waiting
<1> QED BY <1>1, <1>2

\* bpfread finds frames: its row stays, and eth_read is in the kernel.
LEMMA TakeStep ==
  ASSUME Inv, BpfTake
  PROVE  Inv' /\ UNCHANGED Channel!vars
<1>1. /\ TypeOK /\ Noticed /\ batch = <<>> /\ batch \in Seq(Honest)
      /\ hold \in Seq(Honest) /\ store \in Seq(Honest)
      /\ Rotate /\ UNCHANGED <<mac, filter, reading, seen, interrupt, batch, signal, given>>
      /\ pc' = "copy"
    BY DEF Inv, BpfTake, At
<1>2. hold' \in Seq(Honest) /\ store' \in Seq(Honest) /\ Waiting' = Waiting
    BY <1>1, RotateRow
<1>3. hold' \in Seq(Frame) /\ store' \in Seq(Frame)
    BY <1>2, SeqMonotonic DEF Honest
<1>4. TypeOK'
    BY <1>1, <1>3 DEF TypeOK
<1>5. Noticed'
    BY <1>1 DEF Noticed
<1> QED BY <1>1, <1>2, <1>4, <1>5 DEF Inv, Channel!vars

LEMMA CopyStep ==
  ASSUME Inv, BpfCopied
  PROVE  Inv' /\ UNCHANGED Channel!vars
<1>1. /\ TypeOK /\ batch = <<>> /\ hold \in Seq(Honest) /\ store \in Seq(Honest)
      /\ hold \in Seq(Frame)
    BY DEF Inv, TypeOK, BpfCopied, At
<1>2. /\ batch' = hold /\ hold' = <<>> /\ store' = store /\ pc' = "loop"
      /\ <<>> \in Seq(Honest) /\ <<>> \in Seq(Frame)
    BY EmptySeq DEF BpfCopied, At
<1>3. Waiting' = Waiting
    BY <1>1, <1>2, RowMove DEF Waiting
<1>4. TypeOK' /\ UNCHANGED <<mac, seen, given>>
    BY <1>1, <1>2 DEF TypeOK, BpfCopied, At
<1>5. Noticed'
    BY <1>2 DEF Noticed
<1> QED BY <1>1, <1>2, <1>3, <1>4, <1>5 DEF Inv, Channel!vars

\* A frame leaves the batch, handed up or passed over.
LEMMA NextFrame ==
  ASSUME Inv, batch # <<>>, batch' = Tail(batch), UNCHANGED <<hold, store>>
  PROVE  /\ Waiting # <<>> /\ Head(Waiting) = Head(batch) /\ Waiting' = Tail(Waiting)
         /\ batch' \in Seq(Honest) /\ Head(batch) \in Honest /\ batch' \in Seq(Frame)
<1>1. batch \in Seq(Honest) /\ hold \in Seq(Honest) /\ store \in Seq(Honest)
    BY DEF Inv
<1>2. batch' \in Seq(Honest) /\ Head(batch) \in Honest
    BY <1>1, HeadTailProperties
<1>3. batch' \in Seq(Frame)
    BY <1>2, SeqMonotonic DEF Honest
<1>4. Waiting # <<>>
    BY <1>1, Rows DEF Waiting
<1>5. Head(Waiting) = Head(batch) /\ Waiting' = Tail(Waiting)
  <2>1. NextInRow(batch, hold, store)
      BY <1>1, RowHead
  <2>2. Waiting' = Tail(batch) \o hold \o store
      BY DEF Waiting
  <2> QED BY <2>1, <2>2 DEF Waiting, NextInRow
<1> QED BY <1>2, <1>3, <1>4, <1>5

LEMMA HandUpStep ==
  ASSUME Inv, HandUp
  PROVE  Inv' /\ Channel!Give
<1>1. /\ batch # <<>> /\ batch' = Tail(batch) /\ UNCHANGED <<hold, store, mac, seen>>
      /\ given' = Append(given, Head(batch).id) /\ CheckPacket(Head(batch))
      /\ interrupt' = TRUE /\ pc' = "idle" /\ UNCHANGED <<filter, reading, signal>>
    BY DEF HandUp, At
<1>2. /\ Waiting # <<>> /\ Head(Waiting) = Head(batch) /\ Waiting' = Tail(Waiting)
      /\ batch' \in Seq(Honest) /\ Head(batch) \in Honest /\ batch' \in Seq(Frame)
    BY <1>1, NextFrame
<1>3. Head(batch).id \in 1 .. MaxFrames /\ (Head(batch).by = "guest" => Head(batch).from # HostIp)
    BY <1>2 DEF Honest, Frame
<1>4. given' \in Seq(1 .. MaxFrames)
    BY <1>1, <1>3, AppendProperties DEF Inv, TypeOK
<1>5. TypeOK'
    BY <1>1, <1>2, <1>4 DEF Inv, TypeOK
<1>6. Inv'
    BY <1>1, <1>2, <1>5 DEF Inv, Noticed
<1>7. Channel!Give
    BY <1>1, <1>2, <1>3 DEF Channel!Give, Channel!ForHost, CheckPacket
<1> QED BY <1>6, <1>7

LEMMA PassOverStep ==
  ASSUME Inv, PassOver
  PROVE  Inv' /\ Channel!Skip
<1>1. /\ batch # <<>> /\ batch' = Tail(batch) /\ UNCHANGED <<hold, store, mac, seen, given>>
      /\ ~CheckPacket(Head(batch)) /\ pc' = "loop"
      /\ UNCHANGED <<filter, reading, signal, interrupt>>
    BY DEF PassOver, At
<1>2. /\ Waiting # <<>> /\ Head(Waiting) = Head(batch) /\ Waiting' = Tail(Waiting)
      /\ batch' \in Seq(Honest) /\ Head(batch) \in Honest /\ batch' \in Seq(Frame)
    BY <1>1, NextFrame
<1>3. Head(batch).by = "net" => Head(batch).src # mac
    BY <1>2 DEF Honest, Inv, TypeOK
<1>4. TypeOK'
    BY <1>1, <1>2 DEF Inv, TypeOK
<1>5. Inv'
    BY <1>1, <1>2, <1>4 DEF Inv, Noticed
<1>6. Channel!Skip
    BY <1>1, <1>2, <1>3 DEF Channel!Skip, Channel!ForHost, CheckPacket
<1> QED BY <1>5, <1>6

\* Every step keeps the invariant, and is a step of the queue or none.
LEMMA InvStep == Inv /\ [Next]_vars => Inv' /\ Refines
<1> SUFFICES ASSUME Inv, [Next]_vars
             PROVE  Inv' /\ Refines
    OBVIOUS
<1>0. TypeOK /\ Noticed /\ Bia \in Macs /\ MaxFrames \in Nat
    BY FilterAssumption DEF Inv, FilterAssumption
<1>1. CASE Arrive
  <2>1. PICK f \in Honest : f.id = seen + 1 /\ Tap(f)
    <3>1. \A h, src, by : FrameOf(h, src, by).id = seen + 1
        BY DEF FrameOf
    <3> QED BY <1>0, <1>1, <3>1, FrameHonest DEF Arrive, Tap
  <2> QED BY <1>1, <2>1, TapStep DEF Arrive, Refines, Channel!Next
<1>2. CASE EthWrite
  <2>1. PICK f \in Honest : f.id = seen + 1 /\ Tap(f)
    <3>1. \A h, src, by : FrameOf(h, src, by).id = seen + 1
        BY DEF FrameOf
    <3> QED BY <1>0, <1>2, <3>1, FrameHonest DEF EthWrite, Tap
  <2> QED BY <1>2, <2>1, TapStep DEF EthWrite, Refines, Channel!Next
<1>3. CASE InputDone
  <2>1. TypeOK' /\ Noticed'
      BY <1>0, <1>3 DEF InputDone, kernel, TypeOK, Noticed
  <2> QED BY <1>3, <2>1, StillStep DEF InputDone, kernel, Inv, Refines, Channel!Next
<1>4. CASE EthStart \/ EthStop \/ EthReset
  <2>1. /\ SetFilter("active") \/ SetFilter("passive")
        /\ pc = "idle" /\ mac' \in Macs /\ reading' \in BOOLEAN
        /\ UNCHANGED <<interrupt, batch, pc, signal, seen, given>>
      BY <1>0, <1>4 DEF EthStart, EthStop, EthReset, TypeOK
  <2> QED BY <2>1, CutStep DEF Refines, Channel!Next
<1>5. CASE EthSetmac \/ PortReset
  <2>1. /\ UNCHANGED <<interrupt, batch, pc, filter, store, hold, signal, seen, given>>
        /\ mac' \in Macs /\ reading' \in BOOLEAN
      BY <1>0, <1>5 DEF EthSetmac, PortReset, kernel, TypeOK
  <2>2. TypeOK' /\ Noticed'
      BY <1>0, <2>1 DEF TypeOK, Noticed
  <2> QED BY <2>1, <2>2, StillStep DEF Inv, Refines, Channel!Next
<1>6. CASE Call \/ Clear \/ Nothing
  <2>1. UNCHANGED <<batch, hold, store, seen, given, mac, filter, reading>>
      BY <1>6 DEF Call, Clear, Nothing, At
  <2>2. /\ pc' \in {"idle", "clear", "loop", "copy", "none"}
        /\ interrupt' \in BOOLEAN /\ signal' \in BOOLEAN
      BY <1>0, <1>6 DEF Call, Clear, Nothing, At, TypeOK
  <2>3. TypeOK'
      BY <1>0, <2>1, <2>2 DEF TypeOK
  <2>4. Noticed'
      BY <1>0, <1>6, <2>1 DEF Call, Clear, Nothing, At, Noticed
  <2>5. pc' \in {"copy", "none"} => batch = <<>>
      BY <1>6 DEF Call, Clear, Nothing, At, Inv
  <2> QED BY <2>1, <2>3, <2>4, <2>5, StillStep DEF Refines, Channel!Next
<1>7. CASE BpfTake
    BY <1>7, TakeStep DEF Refines
<1>8. CASE BpfNothing
  <2>1. /\ UNCHANGED <<interrupt, batch, store, hold, signal, given, mac, filter, reading, seen>>
        /\ pc' = "none" /\ batch = <<>> /\ hold = <<>> /\ store = <<>>
      BY <1>8 DEF BpfNothing, At
  <2>2. <<>> \o <<>> \o <<>> = <<>>
      OBVIOUS
  <2>3. TypeOK' /\ Noticed'
      BY <1>0, <2>1, <2>2 DEF TypeOK, Noticed
  <2> QED BY <2>1, <2>3, StillStep DEF Refines, Channel!Next
<1>9. CASE BpfCopied
    BY <1>9, CopyStep DEF Refines
<1>10. CASE HandUp
    BY <1>10, HandUpStep DEF Refines, Channel!Next
<1>11. CASE PassOver
    BY <1>11, PassOverStep DEF Refines, Channel!Next
<1>12. CASE UNCHANGED vars
  <2>1. UNCHANGED <<mac, interrupt, batch, pc, filter, store, hold, signal, reading, seen, given>>
      BY <1>12 DEF vars, kernel
  <2>2. TypeOK' /\ Noticed'
      BY <1>0, <2>1 DEF TypeOK, Noticed
  <2> QED BY <2>1, <2>2, StillStep DEF Inv, Refines, Channel!Next
<1> QED BY <1>1, <1>2, <1>3, <1>4, <1>5, <1>6, <1>7, <1>8, <1>9, <1>10, <1>11, <1>12
        DEF Next, EthRead

-----------------------------------------------------------------------------
(* The theorems. *)

LEMMA InvAlways == Spec => []Inv
  BY InitInv, InvStep, PTL DEF Spec

\* The buffers hold frames, and at most MaxFrames have passed.
THEOREM FilterTypeCorrect == Spec => []TypeOK
<1>1. Inv => TypeOK
    BY DEF Inv
<1> QED BY <1>1, InvAlways, PTL

\* inputdone, eth_read and bpf_catchpacket together never leave a frame behind a
\* flag that is down with no signal on its way.
THEOREM FramesAlwaysNoticed == Spec => []FramesNoticed
<1>1. Inv => FramesNoticed
    BY DEF Inv, Noticed, FramesNoticed, Waiting
<1> QED BY <1>1, InvAlways, PTL

\* The buffers of bpf.c and eth_bpf.h implement one queue of frames, out of
\* which eth_read hands up the network's and none of the machine's own.
THEOREM FiltersServe == Spec => ChannelSpec
<1>1. Init => Channel!Init
  <2>1. <<>> \o <<>> \o <<>> = <<>>
      OBVIOUS
  <2> QED BY <2>1 DEF Init, Channel!Init, Waiting
<1>2. Inv /\ [Next]_vars => [Channel!Next]_(Channel!vars)
    BY InvStep DEF Refines
<1> QED BY <1>1, <1>2, InvAlways, PTL DEF Spec, ChannelSpec, Channel!Spec
=============================================================================
