----------------------------- MODULE DdcmpProofs -----------------------------
(***************************************************************************)
(* The two stations of a line for any width of the message numbers, any    *)
(* window, any limit of REPs and any faults: the fields of a station stay  *)
(* in their ranges, its timer runs, the window agrees with the queue, and  *)
(* an NSP server knows whether the line is up.                             *)
(*                                                                         *)
(* The routines of KDPSRV are functions on a station, so there is a lemma  *)
(* for each of them: it keeps Sound, and leaves what the server is told.   *)
(***************************************************************************)
EXTENDS Ddcmp, SequenceTheorems, TLAPS

-----------------------------------------------------------------------------
(* The inductive invariant. *)

\* In the gaps of DEDLIN the numbers do not follow the queue.
Window(d) ==
  d.dlmx # 0 /\ d.flush = 0 =>
    /\ d.dlmx <= MaxOut /\ d.dlmx <= Len(d.queue)
    /\ Behind(d.hxm, d.hma) = d.dlmx

\* A station whose line has gone down does not run until KDPTSK has told so.
Sound(d) ==
  /\ d \in StationType
  /\ d.sta # "DWN" => d.tim = TRUE
  /\ d.dchng = "down" => d.sta # "RUN"
  /\ Window(d)

Told(d) == d.up <=> (d.sta = "RUN" \/ d.dchng = "down")

Inv ==
  /\ st \in [Station -> StationType]
  /\ \A s \in Station : Sound(st[s])
  /\ \A s \in Station \ UserLines : Told(st[s])
  /\ faults \in 0 .. MaxFaults
  /\ stops \in 0 .. MaxStops

\* e differs from d only in what it has sent and wants to send.
Same(d, e) ==
  /\ e.sta = d.sta /\ e.dchng = d.dchng /\ e.up = d.up /\ e.tim = d.tim
  /\ e.queue = d.queue /\ e.rmn = d.rmn /\ e.flush = d.flush

-----------------------------------------------------------------------------
(* Message numbers. *)

LEMMA Sizes ==
  /\ Modulus \in Nat /\ MaxOut \in Nat /\ 1 <= MaxOut /\ MaxOut < Modulus
  /\ RepMax \in Nat /\ A # B
  BY DdcmpAssumption

LEMMA ModAbove ==
  ASSUME NEW M \in Nat \ {0}, NEW x \in Int, x >= M, x < 2 * M
  PROVE  x % M = x - M
  OBVIOUS

LEMMA AddIs ==
  ASSUME NEW n \in Number, NEW k \in 0 .. Modulus
  PROVE  /\ Add(n, k) \in Number
         /\ Add(n, k) = IF n + k < Modulus THEN n + k ELSE n + k - Modulus
<1>1. CASE n + k < Modulus
  <2>1. n + k \in 0 .. Modulus - 1
      BY <1>1, Sizes DEF Number
  <2>2. (n + k) % Modulus = n + k
      BY <2>1, Sizes
  <2> QED BY <1>1, <2>1, <2>2 DEF Add, Number
<1>2. CASE n + k >= Modulus
  <2>1. Modulus \in Nat \ {0} /\ n + k \in Int /\ n + k < 2 * Modulus
      BY <1>2, Sizes DEF Number
  <2> DEFINE x == n + k
  <2>2. x % Modulus = x - Modulus
    <3>1. x \in Int /\ x >= Modulus /\ x < 2 * Modulus
        BY <1>2, <2>1
    <3> HIDE DEF x
    <3> QED BY <2>1, <3>1, ModAbove
  <2> QED BY <1>2, <2>1, <2>2, Sizes DEF Add, Number
<1> QED BY <1>1, <1>2, Sizes DEF Number

LEMMA BehindIs ==
  ASSUME NEW n \in Number, NEW m \in Number
  PROVE  /\ Behind(n, m) \in Number
         /\ Behind(n, m) = IF m <= n THEN n - m ELSE n - m + Modulus
<1>1. CASE m <= n
  <2>1. n - m \in 0 .. Modulus - 1
      BY <1>1, Sizes DEF Number
  <2>2. (n - m) % Modulus = n - m
      BY <2>1, Sizes
  <2> QED BY <1>1, <2>1, <2>2 DEF Behind, Number
<1>2. CASE m > n
  <2>1. n - m \in Int /\ n - m < 0 /\ n - m >= -Modulus
      BY <1>2, Sizes DEF Number
  <2>2. (n - m) % Modulus = n - m + Modulus
      BY <2>1, Sizes
  <2> QED BY <1>2, <2>1, <2>2, Sizes DEF Behind, Number
<1> QED BY <1>1, <1>2, Sizes DEF Number

\* The number of the next message is one further ahead.
LEMMA NextAhead ==
  ASSUME NEW n \in Number, NEW m \in Number, Behind(n, m) < MaxOut
  PROVE  Behind(Add(n, 1), m) = Behind(n, m) + 1
<1> DEFINE a == Add(n, 1)
<1>1. 1 \in 0 .. Modulus
    BY Sizes
<1>2. a \in Number /\ a = IF n + 1 < Modulus THEN n + 1 ELSE n + 1 - Modulus
    BY <1>1, AddIs
<1>3. Behind(n, m) = IF m <= n THEN n - m ELSE n - m + Modulus
    BY BehindIs
<1> HIDE DEF a
<1>4. Behind(a, m) = IF m <= a THEN a - m ELSE a - m + Modulus
    BY <1>2, BehindIs
<1>5. Behind(a, m) = Behind(n, m) + 1
    BY <1>2, <1>3, <1>4, Sizes DEF Number
<1> QED BY <1>5 DEF a

LEMMA FirstAhead ==
  ASSUME NEW m \in Number
  PROVE  Behind(Add(m, 1), m) = 1
<1>1. Behind(m, m) = 0
    BY BehindIs DEF Number
<1> QED BY <1>1, NextAhead, Sizes

\* An acknowledgement of k messages brings the last one k nearer.
LEMMA AckedNearer ==
  ASSUME NEW n \in Number, NEW m \in Number, NEW k \in Nat, k <= Behind(n, m)
  PROVE  Behind(n, Add(m, k)) = Behind(n, m) - k
<1> DEFINE a == Add(m, k)
<1>1. /\ Behind(n, m) \in Number
      /\ Behind(n, m) = IF m <= n THEN n - m ELSE n - m + Modulus
    BY BehindIs
<1>2. k \in 0 .. Modulus
    BY <1>1, Sizes DEF Number
<1>3. a \in Number /\ a = IF m + k < Modulus THEN m + k ELSE m + k - Modulus
    BY <1>2, AddIs
<1> HIDE DEF a
<1>4. Behind(n, a) = IF a <= n THEN n - a ELSE n - a + Modulus
    BY <1>3, BehindIs
<1>5. Behind(n, a) = Behind(n, m) - k
    BY <1>1, <1>3, <1>4, Sizes DEF Number
<1> QED BY <1>5 DEF a

-----------------------------------------------------------------------------
(* The transmitter. *)

LEMMA EmitSound ==
  ASSUME NEW d, Sound(d), d.busy < 2, NEW f \in Frame
  PROVE  Sound(Emit(d, f)) /\ Same(d, Emit(d, f))
<1> DEFINE e == Emit(d, f)
<1>1. d.busy + 1 \in 0 .. 2 /\ Append(d.line, f) \in Seq(Frame)
    BY DEF Sound, StationType
<1>2. e \in StationType
    BY <1>1 DEF Emit, Sound, StationType
<1>3. Same(d, e) /\ e.dlmx = d.dlmx /\ e.hxm = d.hxm /\ e.hma = d.hma
    BY DEF Emit, Same, Sound, StationType
<1> QED BY <1>2, <1>3 DEF Sound, Same, Window

LEMMA ControlFrame ==
  ASSUME NEW kind \in {"ACK", "NAK", "REP", "STRT", "STACK"},
         NEW n \in Number, NEW r \in Number
  PROVE  Control(kind, n, r) \in Frame
  BY DEF Control, Frame, Message, NoMsg

LEMMA XmtCtlSound ==
  ASSUME NEW d, Sound(d), NEW f \in Frame
  PROVE  Sound(XmtCtl(d, f)) /\ Same(d, XmtCtl(d, f))
<1>1. CASE d.busy < 2
    BY <1>1, EmitSound DEF XmtCtl
<1>2. CASE ~(d.busy < 2)
    BY <1>2 DEF XmtCtl, Same
<1> QED BY <1>1, <1>2

\* The flags DDXAK and DDNCD are free.
LEMMA FlagSound ==
  ASSUME NEW d, Sound(d), NEW b \in BOOLEAN
  PROVE  /\ Sound([d EXCEPT !.ncd = b]) /\ Same(d, [d EXCEPT !.ncd = b])
         /\ Sound([d EXCEPT !.xak = b]) /\ Same(d, [d EXCEPT !.xak = b])
<1> DEFINE e == [d EXCEPT !.ncd = b]
           g == [d EXCEPT !.xak = b]
<1>1. e \in StationType /\ g \in StationType
    BY DEF Sound, StationType
<1>2. Same(d, e) /\ e.dlmx = d.dlmx /\ e.hxm = d.hxm /\ e.hma = d.hma
    BY DEF Same, Sound, StationType
<1>3. Same(d, g) /\ g.dlmx = d.dlmx /\ g.hxm = d.hxm /\ g.hma = d.hma
    BY DEF Same, Sound, StationType
<1> QED BY <1>1, <1>2, <1>3 DEF Sound, Same, Window

LEMMA SameTrans ==
  ASSUME NEW d, NEW e, NEW g, Same(d, e), Same(e, g)
  PROVE  Same(d, g)
  BY DEF Same

LEMMA SameAgain == ASSUME NEW d PROVE Same(d, d)
  BY DEF Same

LEMMA NumberOf ==
  ASSUME NEW d, Sound(d)
  PROVE  d.rmn \in Number /\ d.hma \in Number /\ d.hxm \in Number /\ 0 \in Number
  BY Sizes DEF Sound, StationType, Number

LEMMA XmtNakSound ==
  ASSUME NEW d, Sound(d)
  PROVE  Sound(XmtNak(d)) /\ Same(d, XmtNak(d))
<1> DEFINE f == Control("NAK", 0, d.rmn)
           e == Emit(d, f)
<1>1. f \in Frame
    BY NumberOf, ControlFrame
<1>2. CASE d.busy < 2
  <2>1. Sound(e) /\ Same(d, e)
      BY <1>1, <1>2, EmitSound
  <2> HIDE DEF e
  <2>2. Sound([e EXCEPT !.ncd = FALSE]) /\ Same(e, [e EXCEPT !.ncd = FALSE])
      BY <2>1, FlagSound
  <2>3. XmtNak(d) = [e EXCEPT !.ncd = FALSE]
      BY <1>2 DEF XmtNak, e
  <2> QED BY <2>1, <2>2, <2>3, SameTrans
<1>3. CASE ~(d.busy < 2)
    BY <1>3, FlagSound DEF XmtNak
<1> QED BY <1>2, <1>3

LEMMA XmtAk3Sound ==
  ASSUME NEW d, Sound(d)
  PROVE  Sound(XmtAk3(d)) /\ Same(d, XmtAk3(d))
<1> DEFINE f == Control("ACK", 0, d.rmn)
           e == Emit(d, f)
<1>1. f \in Frame
    BY NumberOf, ControlFrame
<1>2. CASE d.busy = 0 /\ d.xak
  <2>1. Sound(e) /\ Same(d, e)
      BY <1>1, <1>2, EmitSound
  <2> HIDE DEF e
  <2>2. Sound([e EXCEPT !.xak = FALSE]) /\ Same(e, [e EXCEPT !.xak = FALSE])
      BY <2>1, FlagSound
  <2>3. XmtAk3(d) = [e EXCEPT !.xak = FALSE]
      BY <1>2 DEF XmtAk3, e
  <2> QED BY <2>1, <2>2, <2>3, SameTrans
<1>3. CASE ~(d.busy = 0 /\ d.xak)
    BY <1>3, SameAgain DEF XmtAk3
<1> QED BY <1>2, <1>3

LEMMA XmtAckSound ==
  ASSUME NEW d, Sound(d)
  PROVE  Sound(XmtAck(d)) /\ Same(d, XmtAck(d))
<1> DEFINE e == [d EXCEPT !.xak = TRUE]
<1>1. CASE d.ncd
    BY <1>1, XmtNakSound DEF XmtAck
<1>2. CASE ~d.ncd
  <2>1. Sound(e) /\ Same(d, e)
      BY FlagSound
  <2>2. XmtAck(d) = XmtAk3(e)
      BY <1>2 DEF XmtAck
  <2> HIDE DEF e
  <2> QED BY <2>1, <2>2, XmtAk3Sound, SameTrans
<1> QED BY <1>1, <1>2

\* The message that goes out is within the window, under the next number.
LEMMA SendNextSound ==
  ASSUME NEW d, Sound(d), MaySend(d), d.busy < 2
  PROVE  Sound(SendNext(d)) /\ Same(d, SendNext(d))
<1> DEFINE n == Add(IF d.dlmx = 0 THEN d.hma ELSE d.hxm, 1)
           b == NextBlock(d)
           f == [kind |-> "DATA", n |-> n, r |-> d.rmn, msg |-> d.queue[b]]
           e == Emit(d, f)
           g == SendNext(d)
<1>1. /\ d.dlmx \in Nat /\ d.flush \in Nat /\ d.queue \in Seq(Message)
      /\ b \in 1 .. Len(d.queue) /\ (d.flush = 0 => b = d.dlmx + 1)
    BY DEF Sound, StationType, MaySend, NextBlock
<1>2. 1 \in 0 .. Modulus /\ n \in Number
    BY NumberOf, AddIs, Sizes
<1> HIDE DEF b
<1>3. d.queue[b] \in Message
    BY <1>1
<1>4. f \in Frame
    BY <1>2, <1>3, NumberOf DEF Frame
<1>5. d.flush = 0 => Behind(n, d.hma) = b /\ b <= MaxOut
  <2>1. CASE d.dlmx = 0
      BY <1>1, <2>1, NumberOf, FirstAhead, Sizes
  <2>2. CASE d.dlmx # 0 /\ d.flush = 0
    <3>1. Behind(d.hxm, d.hma) = d.dlmx /\ Behind(d.hxm, d.hma) < MaxOut
        BY <2>2 DEF Sound, Window, MaySend
    <3>2. Behind(Add(d.hxm, 1), d.hma) = Behind(d.hxm, d.hma) + 1
        BY <3>1, NumberOf, NextAhead
    <3> QED BY <1>1, <2>2, <3>1, <3>2, Sizes
  <2> QED BY <2>1, <2>2
<1> HIDE DEF n, f
<1>6. Sound(e) /\ Same(d, e) /\ e.hma = d.hma
  <2>1. e.hma = d.hma
      BY DEF Emit, Sound, StationType
  <2> QED BY <1>4, <2>1, EmitSound
<1>7. g = [e EXCEPT !.xak = FALSE, !.dlmx = b, !.hxm = n]
    BY DEF SendNext, n, f, b
<1> HIDE DEF e, g
<1>8. /\ g \in StationType /\ Same(e, g)
      /\ g.dlmx = b /\ g.hxm = n /\ g.hma = e.hma
  <2>1. e \in StationType /\ b \in Nat
      BY <1>1, <1>6 DEF Sound
  <2> QED BY <1>2, <1>7, <2>1 DEF StationType, Same
<1>9. Same(d, g)
    BY <1>6, <1>8, SameTrans
<1>10. Window(g)
    BY <1>1, <1>5, <1>6, <1>8, <1>9 DEF Window, Same
<1>11. Sound(g)
    BY <1>8, <1>9, <1>10 DEF Sound, Same
<1> QED BY <1>9, <1>11 DEF g

LEMMA XmtDatSound ==
  ASSUME NEW d, Sound(d)
  PROVE  Sound(XmtDat(d)) /\ Same(d, XmtDat(d))
<1>1. CASE ~MaySend(d)
    BY <1>1, XmtAk3Sound DEF XmtDat
<1>2. CASE MaySend(d) /\ d.busy < 2
    BY <1>2, SendNextSound DEF XmtDat
<1>3. CASE MaySend(d) /\ ~(d.busy < 2)
    BY <1>3, SameAgain DEF XmtDat
<1> QED BY <1>1, <1>2, <1>3

-----------------------------------------------------------------------------
(* The end of a line, and the timers. *)

\* What a routine may do to a station that must stay as its server sees it.
Keeps(d, e) == Sound(e) /\ (Told(d) => Told(e))

LEMMA SameKeeps ==
  ASSUME NEW d, NEW e, Sound(e), Same(d, e)
  PROVE  Keeps(d, e)
  BY DEF Keeps, Same, Told

LEMMA KeepsTrans ==
  ASSUME NEW d, NEW e, NEW g, Keeps(d, e), Keeps(e, g)
  PROVE  Keeps(d, g)
  BY DEF Keeps

LEMMA DyingKeeps ==
  ASSUME NEW d, Sound(d), NEW state \in {"DWN", "STR"}
  PROVE  Keeps(d, Dying(d, state)) /\ Dying(d, state).sta = state
<1> DEFINE e == Dying(d, state)
<1>1. e \in StationType
  <2> DEFINE t == state # "DWN"
             c == IF d.sta = "RUN" THEN "down" ELSE d.dchng
  <2>1. t \in BOOLEAN /\ c \in {"none", "up", "down"}
      BY DEF Sound, StationType
  <2>2. e = [d EXCEPT !.sta = state, !.tim = t, !.first = d.next, !.dchng = c]
      BY DEF Dying, Sound, StationType
  <2> HIDE DEF t, c, e
  <2> QED BY <2>1, <2>2 DEF Sound, StationType
<1>2. /\ e.sta = state /\ e.tim = (state # "DWN") /\ e.up = d.up
      /\ e.dchng = (IF d.sta = "RUN" THEN "down" ELSE d.dchng)
      /\ e.queue = d.queue /\ e.dlmx = d.dlmx /\ e.hxm = d.hxm /\ e.hma = d.hma
      /\ e.flush = d.flush
    BY DEF Dying, Sound, StationType
<1>3. Sound(e)
    BY <1>1, <1>2 DEF Sound, Window
<1>4. Told(d) => Told(e)
    BY <1>2 DEF Told, Sound
<1> QED BY <1>2, <1>3, <1>4 DEF Keeps

\* Where flush points matters to Window only, which says nothing of the gaps.
LEMMA FlushedKeeps ==
  ASSUME NEW d, Sound(d), NEW k \in Nat
  PROVE  /\ Keeps(d, Flushed(d)) /\ Flushed(d).sta = d.sta
         /\ Keeps(d, [Flushed(d) EXCEPT !.flush = k])
         /\ [Flushed(d) EXCEPT !.flush = k].sta = d.sta
         /\ k # 0 => Keeps(d, [d EXCEPT !.flush = k])
<1> DEFINE e == Flushed(d)
           g == [e EXCEPT !.flush = k]
           h == [d EXCEPT !.flush = k]
<1>1. 0 \in Number /\ 0 \in 0 .. RepMax /\ <<>> \in Seq(Message)
    BY Sizes DEF Number
<1>2. e \in StationType /\ h \in StationType
    BY <1>1 DEF Flushed, Sound, StationType
<1>3. g \in StationType
    BY <1>2 DEF StationType
<1>4. /\ e.sta = d.sta /\ e.tim = d.tim /\ e.up = d.up /\ e.dchng = d.dchng
      /\ e.dlmx = 0
    BY DEF Flushed, Sound, StationType
<1>5. /\ g.sta = d.sta /\ g.tim = d.tim /\ g.up = d.up /\ g.dchng = d.dchng
      /\ g.dlmx = 0
    BY DEF Flushed, Sound, StationType
<1>6. /\ h.sta = d.sta /\ h.tim = d.tim /\ h.up = d.up /\ h.dchng = d.dchng
      /\ h.flush = k
    BY DEF Sound, StationType
<1> QED BY <1>2, <1>3, <1>4, <1>5, <1>6 DEF Keeps, Sound, Told, Window

LEMMA DedLinKeeps ==
  ASSUME NEW d, Sound(d), NEW state \in {"DWN", "STR"}
  PROVE  Keeps(d, DedLin(d, state)) /\ DedLin(d, state).sta = state
<1> DEFINE e == Dying(d, state)
           g == [Flushed(e) EXCEPT !.flush = d.flush]
<1>1. Keeps(d, e) /\ e.sta = state
    BY DyingKeeps
<1>2. d.flush \in Nat
    BY DEF Sound, StationType
<1> HIDE DEF e
<1>3. Keeps(e, g) /\ g.sta = state
    BY <1>1, <1>2, FlushedKeeps DEF Keeps
<1>4. DedLin(d, state) = g
    BY DEF DedLin, e
<1> HIDE DEF g
<1> QED BY <1>1, <1>3, <1>4, KeepsTrans

LEMMA FlushNextKeeps ==
  ASSUME NEW d, Sound(d)
  PROVE  Keeps(d, FlushNext(d))
<1>1. d.flush + 1 \in Nat /\ d.flush + 1 # 0
    BY DEF Sound, StationType
<1>2. FlushNext(d) = [d EXCEPT !.flush = d.flush + 1] \/ FlushNext(d) = Flushed(d)
    BY DEF FlushNext
<1>3. Keeps(d, [d EXCEPT !.flush = d.flush + 1])
    BY <1>1, FlushedKeeps
<1>4. Keeps(d, Flushed(d))
    BY <1>1, FlushedKeeps
<1> QED BY <1>2, <1>3, <1>4

LEMMA DieInStepsKeeps ==
  ASSUME NEW d, Sound(d), NEW state \in {"DWN", "STR"}
  PROVE  Keeps(d, DieInSteps(d, state))
<1> DEFINE e == Dying(d, state)
           g == [e EXCEPT !.flush = 1]
<1>1. Keeps(d, e)
    BY DyingKeeps
<1> HIDE DEF e
<1>2. Keeps(e, g)
  <2>1. Sound(e) /\ 1 \in Nat /\ 1 # 0
      BY <1>1 DEF Keeps
  <2> HIDE DEF g
  <2>2. Keeps(e, [e EXCEPT !.flush = 1])
      BY <2>1, FlushedKeeps
  <2> QED BY <2>2 DEF g
<1> HIDE DEF g
<1>3. Keeps(g, FlushNext(g))
    BY <1>2, FlushNextKeeps DEF Keeps
<1>4. DieInSteps(d, state) = FlushNext(g)
    BY DEF DieInSteps, g, e
<1> QED BY <1>1, <1>2, <1>3, <1>4, KeepsTrans

LEMMA TimSound ==
  ASSUME NEW d, Sound(d)
  PROVE  Keeps(d, [d EXCEPT !.tim = TRUE])
<1> DEFINE e == [d EXCEPT !.tim = TRUE]
<1>1. e \in StationType /\ e.tim = TRUE
    BY DEF Sound, StationType
<1>2. /\ e.sta = d.sta /\ e.dchng = d.dchng /\ e.up = d.up /\ e.queue = d.queue
      /\ e.dlmx = d.dlmx /\ e.hxm = d.hxm /\ e.hma = d.hma /\ e.flush = d.flush
    BY DEF Sound, StationType
<1> QED BY <1>1, <1>2 DEF Keeps, Sound, Told, Window

LEMMA XStartKeeps ==
  ASSUME NEW d, Sound(d)
  PROVE  Keeps(d, XStart(d))
<1> DEFINE c == [d EXCEPT !.xak = FALSE]
           e == [c EXCEPT !.tim = TRUE]
<1>1. Keeps(d, c)
    BY FlagSound, SameKeeps
<1>2. Keeps(c, e)
    BY <1>1, TimSound DEF Keeps
<1>3. [d EXCEPT !.xak = FALSE, !.tim = TRUE] = e
    BY DEF Sound, StationType
<1>4. Control("STRT", 0, 0) \in Frame
    BY NumberOf, ControlFrame
<1> HIDE DEF c, e
<1>5. XStart(d) = XmtCtl(e, Control("STRT", 0, 0))
    BY <1>3 DEF XStart
<1>6. Keeps(e, XmtCtl(e, Control("STRT", 0, 0)))
    BY <1>2, <1>4, XmtCtlSound, SameKeeps DEF Keeps
<1> QED BY <1>1, <1>2, <1>5, <1>6, KeepsTrans

LEMMA RepChkKeeps ==
  ASSUME NEW d, Sound(d)
  PROVE  Keeps(d, RepChk(d))
<1> DEFINE c == [d EXCEPT !.repc = @ + 1]
           e == [c EXCEPT !.tim = TRUE]
           f == Control("REP", IF d.queue = <<>> THEN d.hma ELSE Add(d.hma, MaxOut), 0)
<1>1. CASE d.repc = RepMax
    BY <1>1, DieInStepsKeeps DEF RepChk
<1>2. CASE d.repc # RepMax
  <2>1. d.repc + 1 \in 0 .. RepMax
      BY <1>2, Sizes DEF Sound, StationType
  <2>2. c \in StationType
      BY <2>1 DEF Sound, StationType
  <2>3. /\ Same(d, c) /\ c.dlmx = d.dlmx /\ c.hxm = d.hxm /\ c.hma = d.hma
      BY DEF Sound, StationType, Same
  <2>4. Keeps(d, c)
      BY <2>2, <2>3, SameKeeps DEF Sound, Same, Window
  <2>5. Keeps(c, e)
      BY <2>4, TimSound DEF Keeps
  <2>6. [d EXCEPT !.repc = @ + 1, !.tim = TRUE] = e
      BY DEF Sound, StationType
  <2>7. MaxOut \in 0 .. Modulus
      BY Sizes
  <2>8. Add(d.hma, MaxOut) \in Number
      BY <2>7, NumberOf, AddIs
  <2>9. f \in Frame
      BY <2>8, NumberOf, ControlFrame
  <2>10. RepChk(d) = XmtCtl(e, f)
      BY <1>2, <2>6 DEF RepChk
  <2> HIDE DEF c, e, f
  <2>11. Keeps(e, XmtCtl(e, f))
      BY <2>5, <2>9, XmtCtlSound, SameKeeps DEF Keeps
  <2> QED BY <2>4, <2>5, <2>10, <2>11, KeepsTrans
<1> QED BY <1>1, <1>2

LEMMA TimDspKeeps ==
  ASSUME NEW d, Sound(d)
  PROVE  Keeps(d, TimDsp(d))
<1> DEFINE e == [d EXCEPT !.tim = FALSE]
<1>1. CASE d.sta = "STR"
    BY <1>1, XStartKeeps DEF TimDsp
<1>2. CASE d.sta \in {"STK", "RUN"}
    BY <1>2, RepChkKeeps DEF TimDsp
<1>3. CASE d.sta = "DWN"
  <2>1. TimDsp(d) = e
      BY <1>3 DEF TimDsp
  <2>2. e \in StationType
      BY DEF Sound, StationType
  <2>3. /\ e.sta = d.sta /\ e.dchng = d.dchng /\ e.up = d.up /\ e.queue = d.queue
        /\ e.dlmx = d.dlmx /\ e.hxm = d.hxm /\ e.hma = d.hma /\ e.flush = d.flush
      BY DEF Sound, StationType
  <2> QED BY <1>3, <2>1, <2>2, <2>3 DEF Keeps, Sound, Told, Window
<1> QED BY <1>1, <1>2, <1>3 DEF Sound, StationType

-----------------------------------------------------------------------------
(* The receiver. *)

\* An acknowledgement takes messages off the front of the queue, and brings
\* the last one sent as much nearer in number as in place.
LEMMA RcvAk3Sound ==
  ASSUME NEW d, Sound(d), NEW r \in Number
  PROVE  /\ Sound(RcvAk3(d, r)) /\ Keeps(d, RcvAk3(d, r))
         /\ RcvAk3(d, r).sta = d.sta /\ RcvAk3(d, r).dchng = d.dchng
<1> DEFINE ahead == Behind(r, d.hma)
           new == IF ahead <= MaxOut THEN ahead ELSE 0
           gone == Least(new, Len(d.queue))
           q == SubSeq(d.queue, gone + 1, Len(d.queue))
           hma == Add(d.hma, Least(new, Len(d.queue) + 1))
           dlmx == IF d.dlmx > gone THEN d.dlmx - gone ELSE 0
           e == RcvAk3(d, r)
<1>1. /\ d.queue \in Seq(Message) /\ Len(d.queue) \in Nat /\ d.dlmx \in Nat
      /\ d.hma \in Number /\ d.hxm \in Number
    BY DEF Sound, StationType
<1>2. ahead \in Number
    BY <1>1, BehindIs
<1>3. new \in Nat /\ new < Modulus
    BY <1>2, Sizes DEF Number
<1> HIDE DEF ahead, new
<1>4. gone \in Nat /\ gone <= Len(d.queue)
    BY <1>1, <1>3 DEF Least
<1>5. Least(new, Len(d.queue) + 1) \in 0 .. Modulus
    BY <1>1, <1>3, Sizes DEF Least
<1>6. hma \in Number
    BY <1>1, <1>5, AddIs
<1>7. q \in Seq(Message) /\ Len(q) = Len(d.queue) - gone
    BY <1>1, <1>4
<1>8. dlmx \in Nat
    BY <1>1, <1>4
<1>9. dlmx # 0 /\ d.flush = 0 => /\ dlmx <= MaxOut /\ dlmx <= Len(q)
                                 /\ Behind(d.hxm, hma) = dlmx
  <2>1. SUFFICES ASSUME dlmx # 0, d.flush = 0
                 PROVE  dlmx <= MaxOut /\ dlmx <= Len(q) /\ Behind(d.hxm, hma) = dlmx
      OBVIOUS
  <2>2. d.dlmx > gone /\ dlmx = d.dlmx - gone
      BY <2>1
  <2>3. /\ d.dlmx <= MaxOut /\ d.dlmx <= Len(d.queue)
        /\ Behind(d.hxm, d.hma) = d.dlmx
      BY <1>1, <1>4, <2>1, <2>2 DEF Sound, Window
  <2>4. gone = new /\ hma = Add(d.hma, gone)
      BY <1>1, <1>3, <2>2, <2>3 DEF Least
  <2>5. Behind(d.hxm, Add(d.hma, gone)) = d.dlmx - gone
      BY <1>1, <1>4, <2>2, <2>3, AckedNearer
  <2> QED BY <1>1, <1>4, <1>7, <2>2, <2>3, <2>4, <2>5, Sizes
<1>10. e = [d EXCEPT !.hma = hma,
                     !.repc = IF new > 0 \/ q = <<>> THEN 0 ELSE @,
                     !.tim = @ \/ new > 0 \/ q = <<>>,
                     !.queue = q, !.dlmx = dlmx]
    BY DEF RcvAk3, new, ahead
<1> DEFINE cond == new > 0 \/ q = <<>>
<1> HIDE DEF gone, q, hma, dlmx, e
<1>11. e = [d EXCEPT !.hma = hma, !.repc = IF cond THEN 0 ELSE @,
                     !.tim = @ \/ cond, !.queue = q, !.dlmx = dlmx]
    BY <1>10
<1> HIDE DEF cond
<1>12. (d.tim \/ cond) \in BOOLEAN /\ (d.tim = TRUE => (d.tim \/ cond) = TRUE)
    OBVIOUS
<1>13. (IF cond THEN 0 ELSE d.repc) \in 0 .. RepMax
    BY Sizes DEF Sound, StationType
<1>14. e \in StationType
    BY <1>6, <1>7, <1>8, <1>11, <1>12, <1>13 DEF Sound, StationType
<1>15. /\ e.sta = d.sta /\ e.dchng = d.dchng /\ e.up = d.up /\ e.queue = q
       /\ e.dlmx = dlmx /\ e.hxm = d.hxm /\ e.hma = hma
       /\ e.flush = d.flush /\ (d.tim = TRUE => e.tim = TRUE)
    BY <1>11, <1>12 DEF Sound, StationType
<1>16. Window(e)
    BY <1>9, <1>15 DEF Window
<1>17. Sound(e)
    BY <1>14, <1>15, <1>16 DEF Sound
<1> QED BY <1>15, <1>17 DEF Keeps, Told, e

LEMMA KeepsSelf == ASSUME NEW d, Sound(d) PROVE Keeps(d, d)
  BY DEF Keeps

LEMMA DeliverKeeps ==
  ASSUME NEW d, Sound(d), NEW f \in Frame
  PROVE  Keeps(d, Deliver(d, f))
<1> DEFINE e == [d EXCEPT !.rcvd = Append(@, f.msg), !.rmn = Add(@, 1)]
<1>1. 1 \in 0 .. Modulus
    BY Sizes
<1>2. Add(d.rmn, 1) \in Number
    BY <1>1, NumberOf, AddIs
<1>3. Append(d.rcvd, f.msg) \in Seq(Message)
    BY DEF Sound, StationType, Frame
<1>4. e \in StationType
    BY <1>2, <1>3 DEF Sound, StationType
<1>5. /\ e.sta = d.sta /\ e.dchng = d.dchng /\ e.up = d.up /\ e.queue = d.queue
      /\ e.dlmx = d.dlmx /\ e.hxm = d.hxm /\ e.hma = d.hma
      /\ e.flush = d.flush /\ e.tim = d.tim
    BY DEF Sound, StationType
<1>6. Keeps(d, e)
    BY <1>4, <1>5 DEF Keeps, Sound, Told, Window
<1>7. Deliver(d, f) = XmtAck(e)
    BY DEF Deliver
<1> HIDE DEF e
<1>8. Keeps(e, XmtAck(e))
    BY <1>6, XmtAckSound, SameKeeps DEF Keeps
<1> QED BY <1>6, <1>7, <1>8, KeepsTrans

LEMMA RcvDatKeeps ==
  ASSUME NEW d, Sound(d), NEW f \in Frame, NEW room \in BOOLEAN
  PROVE  Keeps(d, RcvDat(d, f, room))
<1> DEFINE e == RcvAk3(d, f.r)
<1>1. f.r \in Number
    BY DEF Frame
<1>2. Keeps(d, e)
    BY <1>1, RcvAk3Sound
<1>3. Keeps(d, d)
    BY KeepsSelf
<1>4. RcvDat(d, f, room) \in {d, e, Deliver(e, f), XmtNak(e)}
    BY DEF RcvDat
<1> HIDE DEF e
<1>5. Keeps(e, Deliver(e, f)) /\ Keeps(e, XmtNak(e))
    BY <1>2, DeliverKeeps, XmtNakSound, SameKeeps DEF Keeps
<1> QED BY <1>2, <1>3, <1>4, <1>5, KeepsTrans

LEMMA ComeUpKeeps ==
  ASSUME NEW d, Sound(d), d.sta = "STK", d.dchng = "none"
  PROVE  Keeps(d, ComeUp(d))
<1> DEFINE e == XmtAck(d)
           g == [e EXCEPT !.dchng = "up"]
<1>1. Sound(e) /\ Same(d, e)
    BY XmtAckSound
<1>2. ComeUp(d) = g
    BY DEF ComeUp
<1> HIDE DEF e
<1>3. g \in StationType
    BY <1>1 DEF Sound, StationType
<1>4. /\ g.sta = e.sta /\ g.dchng = "up" /\ g.up = e.up /\ g.queue = e.queue
      /\ g.dlmx = e.dlmx /\ g.hxm = e.hxm /\ g.hma = e.hma
      /\ g.flush = e.flush /\ g.tim = e.tim
    BY <1>1 DEF Sound, StationType
<1> QED BY <1>1, <1>2, <1>3, <1>4 DEF Keeps, Sound, Told, Window, Same

LEMMA RcvAckKeeps ==
  ASSUME NEW d, Sound(d), d.dchng = "none", NEW f \in Frame
  PROVE  Keeps(d, RcvAck(d, f))
<1>1. CASE d.sta = "STK"
    BY <1>1, ComeUpKeeps DEF RcvAck
<1>2. CASE d.sta = "RUN"
  <2>1. f.r \in Number
      BY DEF Frame
  <2> QED BY <1>2, <2>1, RcvAk3Sound DEF RcvAck
<1>3. CASE d.sta \notin {"STK", "RUN"}
    BY <1>3, KeepsSelf DEF RcvAck
<1> QED BY <1>1, <1>2, <1>3

LEMMA RcvNakKeeps ==
  ASSUME NEW d, Sound(d), d.dchng = "none", NEW f \in Frame
  PROVE  Keeps(d, RcvNak(d, f))
<1> DEFINE c == [d EXCEPT !.dlmx = 0]
           e == RcvAk3(c, f.r)
<1>1. CASE d.sta = "STK"
    BY <1>1, ComeUpKeeps, XmtNakSound, SameKeeps DEF RcvNak
<1>2. CASE d.sta = "RUN"
  <2>1. c \in StationType
      BY DEF Sound, StationType
  <2>2. /\ c.sta = d.sta /\ c.dchng = d.dchng /\ c.up = d.up /\ c.dlmx = 0
        /\ c.tim = d.tim
      BY DEF Sound, StationType
  <2>3. Keeps(d, c)
      BY <2>1, <2>2 DEF Keeps, Sound, Told, Window
  <2>4. f.r \in Number
      BY DEF Frame
  <2>5. RcvNak(d, f) = XmtDat(e)
      BY <1>2 DEF RcvNak
  <2> HIDE DEF c
  <2>6. Keeps(c, e)
      BY <2>3, <2>4, RcvAk3Sound DEF Keeps
  <2> HIDE DEF e
  <2>7. Keeps(e, XmtDat(e))
      BY <2>6, XmtDatSound, SameKeeps DEF Keeps
  <2> QED BY <2>3, <2>5, <2>6, <2>7, KeepsTrans
<1>3. CASE d.sta \notin {"STK", "RUN"}
    BY <1>3, KeepsSelf DEF RcvNak
<1> QED BY <1>1, <1>2, <1>3

LEMMA RcvRepKeeps ==
  ASSUME NEW d, Sound(d), NEW f \in Frame
  PROVE  Keeps(d, RcvRep(d, f))
<1>1. RcvRep(d, f) \in {d, XmtAck(d), XmtNak(d)}
    BY DEF RcvRep
<1> QED BY <1>1, KeepsSelf, XmtAckSound, XmtNakSound, SameKeeps

LEMMA SendStartKeeps ==
  ASSUME NEW d, Sound(d), d.sta # "RUN"
  PROVE  Keeps(d, SendStart(d))
<1> DEFINE e == SendStart(d)
<1>1. e \in StationType
    BY DEF SendStart, Sound, StationType
<1>2. /\ e.sta = "STR" /\ e.dchng = d.dchng /\ e.up = d.up /\ e.queue = d.queue
      /\ e.dlmx = d.dlmx /\ e.hxm = d.hxm /\ e.hma = d.hma
      /\ e.flush = d.flush /\ e.tim = TRUE
    BY DEF SendStart, Sound, StationType
<1> QED BY <1>1, <1>2 DEF Keeps, Sound, Told, Window

\* A station that does not run may go on to send STACK.
LEMMA StackKeeps ==
  ASSUME NEW d, Sound(d), d.sta \in {"STR", "STK"}, NEW b \in BOOLEAN
  PROVE  /\ Keeps(d, [d EXCEPT !.sta = "STK"])
         /\ Keeps(d, [d EXCEPT !.sta = "STK", !.xak = b])
<1> DEFINE e == [d EXCEPT !.sta = "STK"]
           g == [d EXCEPT !.sta = "STK", !.xak = b]
<1>1. e \in StationType /\ g \in StationType
    BY DEF Sound, StationType
<1>2. /\ e.sta = "STK" /\ e.dchng = d.dchng /\ e.up = d.up /\ e.queue = d.queue
      /\ e.dlmx = d.dlmx /\ e.hxm = d.hxm /\ e.hma = d.hma
      /\ e.flush = d.flush /\ e.tim = d.tim
    BY DEF Sound, StationType
<1>3. /\ g.sta = "STK" /\ g.dchng = d.dchng /\ g.up = d.up /\ g.queue = d.queue
      /\ g.dlmx = d.dlmx /\ g.hxm = d.hxm /\ g.hma = d.hma
      /\ g.flush = d.flush /\ g.tim = d.tim
    BY DEF Sound, StationType
<1> QED BY <1>1, <1>2, <1>3 DEF Keeps, Sound, Told, Window

LEMMA RcvStrKeeps ==
  ASSUME NEW d, Sound(d)
  PROVE  Keeps(d, RcvStr(d))
<1> DEFINE e == Emit(d, Control("STACK", 0, 0))
           g == DedLin(d, "STR")
<1>1. CASE d.sta = "STR" /\ d.busy < 2
  <2>1. Control("STACK", 0, 0) \in Frame
      BY NumberOf, ControlFrame
  <2>2. Sound(e) /\ Same(d, e)
      BY <1>1, <2>1, EmitSound
  <2>3. RcvStr(d) = [e EXCEPT !.sta = "STK", !.xak = TRUE]
      BY <1>1 DEF RcvStr
  <2> HIDE DEF e
  <2>4. e.sta = "STR"
      BY <1>1, <2>2 DEF Same
  <2>5. Keeps(e, [e EXCEPT !.sta = "STK", !.xak = TRUE])
      BY <2>2, <2>4, StackKeeps
  <2> QED BY <2>2, <2>3, <2>5, SameKeeps, KeepsTrans
<1>2. CASE (d.sta = "STR" /\ ~(d.busy < 2)) \/ d.sta = "STK"
    BY <1>2, SendStartKeeps DEF RcvStr
<1>3. CASE d.sta = "RUN"
  <2>1. Keeps(d, g) /\ g.sta = "STR"
      BY DedLinKeeps
  <2>2. RcvStr(d) = SendStart(g)
      BY <1>3 DEF RcvStr
  <2> HIDE DEF g
  <2>3. Keeps(g, SendStart(g))
      BY <2>1, SendStartKeeps DEF Keeps
  <2> QED BY <2>1, <2>2, <2>3, KeepsTrans
<1>4. CASE d.sta = "DWN"
    BY <1>4, KeepsSelf DEF RcvStr
<1> QED BY <1>1, <1>2, <1>3, <1>4 DEF Sound, StationType

LEMMA RcvStkKeeps ==
  ASSUME NEW d, Sound(d)
  PROVE  Keeps(d, RcvStk(d))
<1> DEFINE e == XmtAck(d)
<1>1. CASE d.sta \in {"STR", "STK"}
  <2>1. Sound(e) /\ Same(d, e)
      BY XmtAckSound
  <2>2. RcvStk(d) = [e EXCEPT !.sta = "STK"]
      BY <1>1 DEF RcvStk
  <2> HIDE DEF e
  <2>3. e.sta \in {"STR", "STK"}
      BY <1>1, <2>1 DEF Same
  <2>4. Keeps(e, [e EXCEPT !.sta = "STK"])
      BY <2>1, <2>3, StackKeeps
  <2> QED BY <2>1, <2>2, <2>4, SameKeeps, KeepsTrans
<1>2. CASE d.sta \notin {"STR", "STK"}
    BY <1>2, KeepsSelf DEF RcvStk
<1> QED BY <1>1, <1>2

LEMMA HandleKeeps ==
  ASSUME NEW d, Sound(d), d.dchng = "none", NEW f \in Frame, NEW room \in BOOLEAN
  PROVE  Keeps(d, Handle(d, f, room))
<1>1. Handle(d, f, room) \in {RcvDat(d, f, room), RcvAck(d, f), RcvNak(d, f),
                              RcvRep(d, f), RcvStr(d), RcvStk(d)}
    BY DEF Handle
<1> QED BY <1>1, RcvDatKeeps, RcvAckKeeps, RcvNakKeeps, RcvRepKeeps, RcvStrKeeps,
           RcvStkKeeps

-----------------------------------------------------------------------------
(* The steps. *)

LEMMA Stations == A \in Station /\ B \in Station /\ \A s \in Station : Other(s) \in Station
  BY DEF Station, Other

LEMMA BothOthers == \A s \in Station : Other(s) # s
  BY Sizes DEF Station, Other

LEMMA Counters ==
  ASSUME Inv, Fault \/ Stop \/ Regular
  PROVE  faults' \in 0 .. MaxFaults /\ stops' \in 0 .. MaxStops
  BY DdcmpAssumption DEF Inv, Fault, Stop, Regular

\* A step of one station keeps the invariant if that station stays sound and
\* its server told.
LEMMA ChangeInv ==
  ASSUME Inv, NEW s \in Station, NEW d, Sound(d), s \notin UserLines => Told(d),
         Change(s, d), Fault \/ Stop \/ Regular
  PROVE  Inv'
<1>1. st' \in [Station -> StationType]
    BY DEF Inv, Change, Sound
<1>2. \A t \in Station : st'[t] = IF t = s THEN d ELSE st[t]
    BY DEF Inv, Change
<1>3. \A t \in Station : Sound(st'[t])
    BY <1>2 DEF Inv
<1>4. \A t \in Station \ UserLines : Told(st'[t])
    BY <1>2 DEF Inv
<1> QED BY <1>1, <1>3, <1>4, Counters DEF Inv

\* A frame that goes from the line changes the other station's line only.
LEMMA TakeInv ==
  ASSUME Inv, NEW s \in Station, NEW d, Keeps(st[s], d), Take(s, d),
         Fault \/ Regular
  PROVE  Inv'
<1> DEFINE o == Other(s)
           e == [st[o] EXCEPT !.line = Tail(@)]
<1>1. o \in Station /\ o # s
    BY Stations, BothOthers
<1>2. st[o] \in StationType /\ Sound(st[o]) /\ st \in [Station -> StationType]
    BY <1>1 DEF Inv
<1>3. Tail(st[o].line) \in Seq(Frame)
    BY <1>2 DEF Take, StationType
<1>4. e \in StationType
    BY <1>2, <1>3 DEF StationType
<1>5. /\ e.sta = st[o].sta /\ e.dchng = st[o].dchng /\ e.up = st[o].up
      /\ e.queue = st[o].queue /\ e.dlmx = st[o].dlmx /\ e.hxm = st[o].hxm
      /\ e.hma = st[o].hma /\ e.flush = st[o].flush /\ e.tim = st[o].tim
    BY <1>2 DEF StationType
<1>6. Keeps(st[o], e)
    BY <1>2, <1>4, <1>5 DEF Keeps, Sound, Told, Window
<1>7. \A t \in Station : st'[t] = IF t = s THEN d ELSE IF t = o THEN e ELSE st[t]
    BY <1>1, <1>2 DEF Take
<1>8. st' \in [Station -> StationType]
    BY <1>1, <1>2, <1>4 DEF Take, Keeps, Sound
<1> HIDE DEF e, o
<1>9. \A t \in Station : Sound(st'[t])
    BY <1>6, <1>7 DEF Inv, Keeps
<1>10. \A t \in Station \ UserLines : Told(st'[t])
    BY <1>6, <1>7 DEF Inv, Keeps
<1> QED BY <1>8, <1>9, <1>10, Counters DEF Inv

\* The frame that arrives is one.
LEMMA HeadFrame ==
  ASSUME Inv, NEW s \in Station, st[Other(s)].line # <<>>
  PROVE  Head(st[Other(s)].line) \in Frame
<1>1. st[Other(s)].line \in Seq(Frame)
    BY Stations DEF Inv, StationType
<1> QED BY <1>1

LEMMA ReceiveInv ==
  ASSUME Inv, NEW s \in Station, Receive(s)
  PROVE  Inv'
<1> DEFINE f == Head(st[Other(s)].line)
           d == IF st[s].dchng # "none" THEN st[s] ELSE Handle(st[s], f, TRUE)
<1>1. Take(s, d) /\ Regular
    BY DEF Receive
<1>2. f \in Frame
    BY <1>1, HeadFrame DEF Take
<1>3. Sound(st[s])
    BY DEF Inv
<1> HIDE DEF f
<1>4. Keeps(st[s], d)
    BY <1>2, <1>3, HandleKeeps, KeepsSelf
<1> QED BY <1>1, <1>4, TakeInv

LEMMA LossInv ==
  ASSUME Inv, NEW s \in Station,
         ReceiveNoRoom(s) \/ Lose(s) \/ CntlBadCrc(s) \/ CntlNoBuf(s)
  PROVE  Inv'
<1>1. Sound(st[s])
    BY DEF Inv
<1>2. CASE ReceiveNoRoom(s)
  <2> DEFINE f == Head(st[Other(s)].line)
  <2>1. f \in Frame
      BY <1>2, HeadFrame DEF ReceiveNoRoom
  <2>2. Keeps(st[s], Handle(st[s], f, FALSE))
      BY <1>1, <1>2, <2>1, HandleKeeps DEF ReceiveNoRoom
  <2> QED BY <1>2, <2>2, TakeInv DEF ReceiveNoRoom
<1>3. CASE Lose(s)
    BY <1>1, <1>3, KeepsSelf, TakeInv DEF Lose
<1>4. CASE CntlBadCrc(s)
    BY <1>1, <1>4, XmtNakSound, SameKeeps, TakeInv DEF CntlBadCrc
<1>5. CASE CntlNoBuf(s)
  <2>1. Keeps(st[s], [st[s] EXCEPT !.ncd = TRUE])
      BY <1>1, FlagSound, SameKeeps
  <2> QED BY <1>5, <2>1, TakeInv DEF CntlNoBuf
<1> QED BY <1>2, <1>3, <1>4, <1>5

LEMMA KeepsInv ==
  ASSUME Inv, NEW s \in Station, NEW d, Keeps(st[s], d), Change(s, d),
         Fault \/ Stop \/ Regular
  PROVE  Inv'
  BY ChangeInv DEF Inv, Keeps

LEMMA XmtDneInv ==
  ASSUME Inv, NEW s \in Station, XmtDne(s)
  PROVE  Inv'
<1> DEFINE d == [st[s] EXCEPT !.busy = @ - 1]
           e == [d EXCEPT !.tim = TRUE]
           g == IF e.ncd THEN XmtNak(e) ELSE e
<1>1. PICK mop \in BOOLEAN : /\ Change(s, IF mop THEN d ELSE XmtDat(g))
                             /\ IF mop THEN Fault ELSE Regular
    BY DEF XmtDne
<1>2. st[s].busy > 0 /\ Sound(st[s])
    BY DEF XmtDne, Inv
<1>3. st[s].busy - 1 \in 0 .. 2
    BY <1>2 DEF Sound, StationType
<1>4. d \in StationType
    BY <1>2, <1>3 DEF Sound, StationType
<1>5. Same(st[s], d) /\ d.dlmx = st[s].dlmx /\ d.hxm = st[s].hxm /\ d.hma = st[s].hma
    BY <1>2 DEF Sound, StationType, Same
<1> HIDE DEF d
<1>6. Keeps(st[s], d)
  <2>1. Window(d)
      BY <1>2, <1>5 DEF Sound, Same, Window
  <2>2. Sound(d)
      BY <1>2, <1>4, <1>5, <2>1 DEF Sound, Same
  <2> QED BY <1>5, <2>2, SameKeeps
<1>7. Keeps(d, e)
    BY <1>6, TimSound DEF Keeps
<1> HIDE DEF e
<1>8. Keeps(e, g)
    BY <1>7, XmtNakSound, SameKeeps, KeepsSelf DEF Keeps
<1> HIDE DEF g
<1>9. Keeps(g, XmtDat(g))
    BY <1>8, XmtDatSound, SameKeeps DEF Keeps
<1>10. Keeps(st[s], XmtDat(g))
    BY <1>6, <1>7, <1>8, <1>9, KeepsTrans
<1>11. Keeps(st[s], IF mop THEN d ELSE XmtDat(g))
    BY <1>6, <1>10
<1>12. Fault \/ Regular
    BY <1>1
<1> QED BY <1>1, <1>11, <1>12, KeepsInv

LEMMA TimerInv ==
  ASSUME Inv, NEW s \in Station, Timer(s)
  PROVE  Inv'
  BY TimDspKeeps, KeepsInv DEF Inv, Timer

\* KDPTSK tells the server: it alone changes what the server believes.
LEMMA KdpTskInv ==
  ASSUME Inv, NEW s \in Station, KdpTsk(s)
  PROVE  Inv'
<1> DEFINE d == [st[s] EXCEPT !.dchng = "none"]
           u == [d EXCEPT !.sta = "RUN", !.rcvd = <<>>]
           v == [u EXCEPT !.up = TRUE]
           w == [u EXCEPT !.dchng = "up"]
           x == [d EXCEPT !.up = FALSE]
<1>1. /\ Sound(st[s]) /\ st[s].dchng # "none"
      /\ s \notin UserLines => Told(st[s])
    BY DEF Inv, KdpTsk
<1>2. <<>> \in Seq(Message)
    OBVIOUS
<1>3. CASE st[s].dchng = "up" /\ st[s].sta = "STK" /\ Change(s, v) /\ Regular
  <2>1. /\ v \in StationType
        /\ v.sta = "RUN" /\ v.dchng = "none" /\ v.up = TRUE /\ v.queue = st[s].queue
        /\ v.dlmx = st[s].dlmx /\ v.hxm = st[s].hxm /\ v.hma = st[s].hma
        /\ v.flush = st[s].flush
        /\ v.tim = st[s].tim
      BY <1>1, <1>2 DEF Sound, StationType
  <2>2. Sound(v) /\ Told(v)
      BY <1>1, <1>3, <2>1 DEF Sound, Window, Told
  <2> HIDE DEF v
  <2> QED BY <1>3, <2>2, ChangeInv
<1>4. CASE /\ st[s].dchng = "up" /\ st[s].sta = "STK" /\ s \in UserLines
           /\ Change(s, w) /\ Fault
  <2>1. /\ w \in StationType
        /\ w.sta = "RUN" /\ w.dchng = "up" /\ w.queue = st[s].queue
        /\ w.dlmx = st[s].dlmx /\ w.hxm = st[s].hxm /\ w.hma = st[s].hma
        /\ w.flush = st[s].flush
        /\ w.tim = st[s].tim
      BY <1>1, <1>2 DEF Sound, StationType
  <2>2. Sound(w)
      BY <1>1, <1>4, <2>1 DEF Sound, Window
  <2> HIDE DEF w
  <2> QED BY <1>4, <2>2, ChangeInv
<1>5. CASE st[s].dchng = "up" /\ st[s].sta # "STK" /\ Change(s, d) /\ Regular
  <2>1. /\ d \in StationType
        /\ d.sta = st[s].sta /\ d.dchng = "none" /\ d.up = st[s].up
        /\ d.queue = st[s].queue /\ d.dlmx = st[s].dlmx /\ d.hxm = st[s].hxm
        /\ d.hma = st[s].hma /\ d.flush = st[s].flush /\ d.tim = st[s].tim
      BY <1>1 DEF Sound, StationType
  <2>2. Sound(d) /\ (s \notin UserLines => Told(d))
      BY <1>1, <1>5, <2>1 DEF Sound, Window, Told
  <2> HIDE DEF d
  <2> QED BY <1>5, <2>2, ChangeInv
<1>6. CASE st[s].dchng = "down" /\ Change(s, x) /\ Regular
  <2>1. /\ x \in StationType
        /\ x.sta = st[s].sta /\ x.dchng = "none" /\ x.up = FALSE
        /\ x.queue = st[s].queue /\ x.dlmx = st[s].dlmx /\ x.hxm = st[s].hxm
        /\ x.hma = st[s].hma /\ x.flush = st[s].flush /\ x.tim = st[s].tim
      BY <1>1 DEF Sound, StationType
  <2>2. Sound(x) /\ Told(x)
      BY <1>1, <1>6, <2>1 DEF Sound, Window, Told
  <2> HIDE DEF x
  <2> QED BY <1>6, <2>2, ChangeInv
<1>7. CASE UNCHANGED st /\ Fault
    BY <1>7, Counters DEF Inv
<1> QED BY <1>3, <1>4, <1>5, <1>6, <1>7 DEF KdpTsk

LEMMA SendInv ==
  ASSUME Inv, NEW s \in Station, Ask(s) \/ Queue(s)
  PROVE  Inv'
<1> DEFINE d == st[s]
<1>1. Sound(d)
    BY DEF Inv
<1>2. CASE Ask(s)
  <2> DEFINE a == [d EXCEPT !.asked = TRUE]
  <2>1. /\ a \in StationType
        /\ a.sta = d.sta /\ a.dchng = d.dchng /\ a.up = d.up /\ a.queue = d.queue
        /\ a.dlmx = d.dlmx /\ a.hxm = d.hxm /\ a.hma = d.hma
        /\ a.flush = d.flush /\ a.tim = d.tim
      BY <1>1 DEF Sound, StationType
  <2>2. Keeps(d, a)
      BY <1>1, <2>1 DEF Keeps, Sound, Window, Told
  <2>3. Change(s, a) /\ Regular
      BY <1>2 DEF Ask
  <2> HIDE DEF a
  <2> QED BY <2>2, <2>3, KeepsInv
<1>3. CASE Queue(s)
  <2> DEFINE m == [id |-> d.next, first |-> d.first]
             q == Append(d.queue, m)
             e == [d EXCEPT !.asked = FALSE, !.next = @ + 1, !.queue = q,
                            !.dlmx = IF d.queue = <<>> THEN 0 ELSE @,
                            !.late = @ \/ d.sta # "RUN"]
             x == XmtDat(e)
  <2>1. /\ m \in Message /\ q \in Seq(Message) /\ Len(q) = Len(d.queue) + 1
        /\ d.next + 1 \in Nat /\ Len(d.queue) \in Nat
      BY <1>1 DEF Sound, StationType, Message
  <2>2. Change(s, [x EXCEPT !.tim = TRUE]) /\ Regular
      BY <1>3 DEF Queue
  <2> HIDE DEF q
  <2>3. /\ e \in StationType
        /\ e.sta = d.sta /\ e.dchng = d.dchng /\ e.up = d.up /\ e.queue = q
        /\ e.dlmx = (IF d.queue = <<>> THEN 0 ELSE d.dlmx)
        /\ e.hxm = d.hxm /\ e.hma = d.hma /\ e.flush = d.flush /\ e.tim = d.tim
    <3> DEFINE l == IF d.queue = <<>> THEN 0 ELSE d.dlmx
               late == d.late \/ d.sta # "RUN"
    <3>1. l \in Nat /\ late \in BOOLEAN
        BY <1>1 DEF Sound, StationType
    <3>2. e = [d EXCEPT !.asked = FALSE, !.next = @ + 1, !.queue = q,
                        !.dlmx = l, !.late = late]
        BY <1>1 DEF Sound, StationType
    <3> HIDE DEF l, late, e
    <3>3. e \in StationType
        BY <1>1, <2>1, <3>1, <3>2 DEF Sound, StationType
    <3>4. /\ e.sta = d.sta /\ e.dchng = d.dchng /\ e.up = d.up /\ e.queue = q
          /\ e.dlmx = l /\ e.hxm = d.hxm /\ e.hma = d.hma
          /\ e.flush = d.flush /\ e.tim = d.tim
        BY <1>1, <3>2 DEF Sound, StationType
    <3> QED BY <3>3, <3>4 DEF l
  <2>4. Window(e)
    <3>1. e.dlmx # 0 => e.dlmx = d.dlmx
        BY <2>3
    <3>2. Window(d) /\ d.dlmx \in Nat /\ MaxOut \in Nat
        BY <1>1, Sizes DEF Sound, StationType
    <3>3. e.dlmx # 0 /\ e.flush = 0 =>
            e.dlmx <= MaxOut /\ Behind(e.hxm, e.hma) = e.dlmx
        BY <3>1, <3>2, <2>3 DEF Window
    <3>4. e.dlmx # 0 /\ e.flush = 0 => e.dlmx <= Len(e.queue)
      <4>1. Len(e.queue) = Len(d.queue) + 1 /\ Len(d.queue) \in Nat
          BY <2>1, <2>3
      <4>2. d.dlmx # 0 /\ e.flush = 0 => d.dlmx <= Len(d.queue)
          BY <2>3, <3>2 DEF Window
      <4> HIDE DEF e
      <4> QED BY <4>1, <4>2, <3>1, <3>2
    <3> QED BY <3>3, <3>4 DEF Window
  <2>5. Keeps(d, e)
      BY <1>1, <2>3, <2>4 DEF Keeps, Sound, Told
  <2> HIDE DEF e
  <2>6. Keeps(e, x)
      BY <2>5, XmtDatSound, SameKeeps DEF Keeps
  <2> HIDE DEF x
  <2>7. Keeps(x, [x EXCEPT !.tim = TRUE])
      BY <2>6, TimSound DEF Keeps
  <2> QED BY <2>2, <2>5, <2>6, <2>7, KeepsTrans, KeepsInv
<1> QED BY <1>2, <1>3

LEMMA ReloadInv ==
  ASSUME Inv, NEW s \in Station, Reload(s)
  PROVE  Inv'
<1> DEFINE d == st[s]
           c == DedLin(d, "DWN")
           e == [c EXCEPT !.sta = "STR", !.tim = TRUE, !.busy = 0]
           g(k) == [e EXCEPT !.line = SubSeq(@, 1, Len(@) - k)]
<1>1. PICK k \in 0 .. Least(d.busy, Len(d.line)) : Change(s, g(k))
    BY DEF Reload
<1>2. Sound(d) /\ Stop
    BY DEF Inv, Reload
<1>3. Keeps(d, c) /\ c.sta = "DWN"
    BY <1>2, DedLinKeeps
<1>4. c.line = d.line /\ Len(d.line) \in Nat /\ d.busy \in 0 .. 2
    BY <1>2 DEF DedLin, Flushed, Dying, Sound, StationType
<1> HIDE DEF c
<1>5. /\ e \in StationType
      /\ e.sta = "STR" /\ e.dchng = c.dchng /\ e.up = c.up /\ e.queue = c.queue
      /\ e.dlmx = c.dlmx /\ e.hxm = c.hxm /\ e.hma = c.hma
      /\ e.flush = c.flush /\ e.tim = TRUE
      /\ e.line = d.line
  <2>1. c \in StationType
      BY <1>2, <1>3 DEF Keeps, Sound
  <2>2. [c EXCEPT !.sta = "STR"] \in StationType
      BY <2>1 DEF StationType
  <2>3. [c EXCEPT !.sta = "STR", !.tim = TRUE] \in StationType
      BY <2>2 DEF StationType
  <2>4. 0 \in 0 .. 2
      OBVIOUS
  <2>5. e \in StationType
      BY <2>3, <2>4 DEF StationType
  <2> QED BY <2>1, <2>5, <1>4 DEF StationType
<1>6. k \in Nat /\ k <= Len(d.line)
    BY <1>4 DEF Least
<1>7. SubSeq(e.line, 1, Len(e.line) - k) \in Seq(Frame)
  <2>1. e.line \in Seq(Frame) /\ Len(e.line) \in Nat /\ k <= Len(e.line)
      BY <1>4, <1>5, <1>6 DEF StationType
  <2> DEFINE n == Len(e.line) - k
  <2>2. \A i \in 1 .. n : e.line[i] \in Frame
      BY <1>6, <2>1
  <2> HIDE DEF e
  <2> QED BY <1>6, <2>1, <2>2
<1> DEFINE h == g(k)
<1>8. Change(s, h)
    BY <1>1
<1> HIDE DEF e
<1>9. /\ h \in StationType
      /\ h.sta = e.sta /\ h.dchng = e.dchng /\ h.up = e.up /\ h.queue = e.queue
      /\ h.dlmx = e.dlmx /\ h.hxm = e.hxm /\ h.hma = e.hma
      /\ h.flush = e.flush /\ h.tim = e.tim
    BY <1>5, <1>7 DEF StationType
<1> HIDE DEF h
<1>10. Keeps(c, h)
    BY <1>3, <1>5, <1>9 DEF Keeps, Sound, Told, Window
<1> QED BY <1>2, <1>3, <1>8, <1>10, KeepsTrans, KeepsInv

LEMMA StopInv ==
  ASSUME Inv, NEW s \in Station,
         Terminate(s) \/ Initiate(s) \/ Flush(s) \/ CntlDsr(s)
  PROVE  Inv'
<1>1. Sound(st[s])
    BY DEF Inv
<1>2. \A state \in {"DWN", "STR"} : Keeps(st[s], DieInSteps(st[s], state))
    BY <1>1, DieInStepsKeeps
<1>3. Keeps(st[s], DedLin(st[s], "STR")) /\ Keeps(st[s], FlushNext(st[s]))
    BY <1>1, DedLinKeeps, FlushNextKeeps
<1>4. CASE Terminate(s)
    BY <1>2, <1>4, KeepsInv DEF Terminate, Boot
<1>5. CASE Initiate(s)
    BY <1>2, <1>5, KeepsInv DEF Initiate, Boot
<1>6. CASE CntlDsr(s) \/ Flush(s)
    BY <1>3, <1>6, KeepsInv DEF CntlDsr, Flush
<1> QED BY <1>4, <1>5, <1>6

LEMMA InvInit == Init => Inv
<1> SUFFICES ASSUME Init PROVE Inv
    OBVIOUS
<1>1. /\ 0 \in Number /\ 0 \in 0 .. RepMax /\ <<>> \in Seq(Message) /\ <<>> \in Seq(Frame)
    BY Sizes DEF Number
<1>2. st \in [Station -> StationType]
    BY <1>1 DEF Init, StationType
<1>3. \A s \in Station : /\ st[s].sta = "STR" /\ st[s].tim = TRUE /\ st[s].dlmx = 0
                         /\ st[s].dchng = "none" /\ st[s].up = FALSE
    BY DEF Init
<1>4. \A s \in Station : Sound(st[s]) /\ Told(st[s])
    BY <1>2, <1>3 DEF Sound, Told, Window
<1>5. faults \in 0 .. MaxFaults /\ stops \in 0 .. MaxStops
    BY DdcmpAssumption DEF Init
<1> QED BY <1>2, <1>4, <1>5 DEF Inv

LEMMA InvStep == Inv /\ [Next]_vars => Inv'
<1> SUFFICES ASSUME Inv, [Next]_vars PROVE Inv'
    OBVIOUS
<1>1. CASE UNCHANGED vars
    BY <1>1 DEF vars, Inv
<1>2. CASE Next
  <2>1. PICK s \in Station : Step(s)
      BY <1>2 DEF Next
  <2>2. CASE Receive(s)
      BY <2>2, ReceiveInv
  <2>3. CASE ReceiveNoRoom(s) \/ Lose(s) \/ CntlBadCrc(s) \/ CntlNoBuf(s)
      BY <2>3, LossInv
  <2>4. CASE XmtDne(s)
      BY <2>4, XmtDneInv
  <2>5. CASE Timer(s)
      BY <2>5, TimerInv
  <2>6. CASE KdpTsk(s)
      BY <2>6, KdpTskInv
  <2>7. CASE Ask(s) \/ Queue(s)
      BY <2>7, SendInv
  <2>8. CASE Terminate(s) \/ Initiate(s) \/ Flush(s) \/ CntlDsr(s)
      BY <2>8, StopInv
  <2>9. CASE Reload(s)
      BY <2>9, ReloadInv
  <2> QED BY <2>1, <2>2, <2>3, <2>4, <2>5, <2>6, <2>7, <2>8, <2>9 DEF Step
<1> QED BY <1>1, <1>2

LEMMA InvAlways == Spec => []Inv
  BY InvInit, InvStep, PTL DEF Spec

-----------------------------------------------------------------------------
(* The theorems. *)

\* Every field of a station stays in its range, whatever is lost, damaged or
\* restarted: REPs never exceed REPMAX and no third transmit list is used.
THEOREM StationsTyped == Spec => []TypeOK
<1>1. Inv => TypeOK
    BY DEF Inv, TypeOK
<1> QED BY <1>1, InvAlways, PTL

\* For any width of the numbers and any window, the last message sent lies
\* within the window and the queue, under the number that belongs to its place.
THEOREM WindowAgrees == Spec => []WindowOK
<1>1. Inv => WindowOK
  <2> SUFFICES ASSUME Inv, NEW s \in Station, st[s].dlmx # 0, st[s].flush = 0
               PROVE  /\ st[s].dlmx <= Least(MaxOut, Len(st[s].queue))
                      /\ Behind(st[s].hxm, st[s].hma) = st[s].dlmx
      BY DEF WindowOK
  <2>1. Window(st[s])
      BY DEF Inv, Sound
  <2> QED BY <2>1 DEF Window, Least
<1> QED BY <1>1, InvAlways, PTL

\* A line that is not down has its timer running in every state.
THEOREM TimersRun == Spec => []TimerRuns
<1>1. Inv => TimerRuns
    BY DEF Inv, Sound, TimerRuns
<1> QED BY <1>1, InvAlways, PTL

\* An NSP server believes its line up exactly when it runs, or when KDPTSK has
\* yet to tell that it went down.
THEOREM ServersKnow == Spec => []ServerKnows
<1>1. Inv => ServerKnows
    BY DEF Inv, Told, ServerKnows
<1> QED BY <1>1, InvAlways, PTL
=============================================================================
