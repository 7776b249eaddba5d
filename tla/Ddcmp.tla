------------------------------- MODULE Ddcmp -------------------------------
(***************************************************************************)
(* DDCMP as KDPSRV.MAC runs it on a point-to-point line: the two stations  *)
(* of a line, each with its DDCMP table (the words PGDSTS, PGDMNM, PGDOMQ  *)
(* and PGDLMX), its two transmit lists and the frames it has sent that the *)
(* other has not yet received.  A handler that runs at interrupt level or  *)
(* with PIOFF is one step.  DEDLIN turns interrupts on after each message  *)
(* it gives back: called below interrupt level it is several steps, with   *)
(* interrupts between them but no scheduler and no other process, and      *)
(* flush is the block that it takes next (0: it does not run).  A block    *)
(* that was given back keeps its words until DEDLIN ends.                  *)
(*                                                                         *)
(* The line keeps frames in order and may lose or damage one; a queue of   *)
(* messages is the block list of DCNMSO, and dlmx the position in it of    *)
(* the block that PGDLMX points to (0: none).  The countdown in DDTIM is   *)
(* abstracted to whether it runs: it is set to 1, 2, 3, 5 or 30 seconds,   *)
(* and may expire in any order.  Multidrop lines and maintenance mode are  *)
(* not modelled.                                                           *)
(***************************************************************************)
EXTENDS Integers, Sequences, SequencesExt

CONSTANTS
  A, B,        \* the two stations of the line
  Modulus,     \* message numbers are 8 bits wide: 256
  MaxOut,      \* MAXOUT, 8: messages sent and not acknowledged
  RepMax,      \* REPMAX, 8: REPs without an answer before the line is dropped
  UserLines,   \* the stations whose server is a user program (DCP), not NSP
  MaxMsgs,     \* bound: the messages that the server of each station has to send
  MaxLine,     \* bound: frames that have left a station and not yet arrived
  Patient,     \* no timer expires while anything is under way on the line
  MaxFaults,   \* bound: frames lost or damaged, buffers missing, early timeouts
  MaxStops     \* bound: lines terminated, KMCs reloaded, data sets dropped

ASSUME DdcmpAssumption ==
  /\ A # B
  /\ Modulus \in Nat /\ MaxOut \in Nat \ {0} /\ MaxOut < Modulus
  /\ RepMax \in Nat /\ MaxLine \in Nat /\ MaxMsgs \in [{A, B} -> Nat]
  /\ MaxFaults \in Nat /\ MaxStops \in Nat
  /\ Patient \in BOOLEAN
  /\ UserLines \subseteq {A, B}

VARIABLES
  st,      \* the two stations
  faults,  \* faults so far
  stops    \* stops so far

vars == <<st, faults, stops>>

Station == {A, B}
Other(s) == IF s = A THEN B ELSE A
Number == 0 .. Modulus - 1

\* A message names itself and the first message queued since the line last
\* died: the messages of one session of the sender share it.
Message == [id : Nat, first : Nat]
NoMsg == [id |-> 0, first |-> 0]

\* n is the number of a data message or of a REP, r the response field.
Frame == [kind : {"DATA", "ACK", "NAK", "REP", "STRT", "STACK"},
          n : Number, r : Number, msg : Message]
Control(kind, n, r) == [kind |-> kind, n |-> n, r |-> r, msg |-> NoMsg]

Init ==
  /\ st = [s \in Station |->
       [sta |-> "STR", dchng |-> "none", xak |-> FALSE, ncd |-> FALSE,
        tim |-> TRUE, rmn |-> 0, hxm |-> 0, hma |-> 0, repc |-> 0,
        queue |-> <<>>, dlmx |-> 0, flush |-> 0, busy |-> 0, line |-> <<>>,
        asked |-> FALSE, late |-> FALSE, up |-> FALSE, rcvd |-> <<>>,
        next |-> 1, first |-> 1]]
  /\ faults = 0
  /\ stops = 0

Add(n, k) == (n + k) % Modulus
Behind(n, m) == (n - m) % Modulus      \* how far n is ahead of m
Least(m, n) == IF m < n THEN m ELSE n

-----------------------------------------------------------------------------
\* The transmitter.  Each operator maps a station to what the routine leaves.

Emit(d, f) == [d EXCEPT !.busy = @ + 1, !.line = Append(@, f)]

XmtCtl(d, f) == IF d.busy < 2 THEN Emit(d, f) ELSE d

XmtNak(d) ==
  IF d.busy < 2
  THEN [Emit(d, Control("NAK", 0, d.rmn)) EXCEPT !.ncd = FALSE]
  ELSE [d EXCEPT !.ncd = TRUE]

XmtAk3(d) ==
  IF d.busy = 0 /\ d.xak
  THEN [Emit(d, Control("ACK", 0, d.rmn)) EXCEPT !.xak = FALSE]
  ELSE d

XmtAck(d) == IF d.ncd THEN XmtNak(d) ELSE XmtAk3([d EXCEPT !.xak = TRUE])

\* The block that is sent next: the one that the last sent block links to, also
\* when DEDLIN has given that one back, or the first of the queue.
NextBlock(d) ==
  IF d.dlmx # 0 THEN d.dlmx + 1 ELSE IF d.flush # 0 THEN d.flush ELSE 1

MaySend(d) ==
  /\ NextBlock(d) <= Len(d.queue)
  /\ d.dlmx # 0 => Behind(d.hxm, d.hma) < MaxOut

\* For mutation: a list that starts afresh goes on from the last number sent.
SendNextOn(d) ==
  LET n == Add(d.hxm, 1)
      f == [kind |-> "DATA", n |-> n, r |-> d.rmn, msg |-> d.queue[NextBlock(d)]]
  IN [Emit(d, f) EXCEPT !.xak = FALSE, !.dlmx = NextBlock(d), !.hxm = n]

SendNext(d) ==
  LET n == Add(IF d.dlmx = 0 THEN d.hma ELSE d.hxm, 1)
      f == [kind |-> "DATA", n |-> n, r |-> d.rmn, msg |-> d.queue[NextBlock(d)]]
  IN [Emit(d, f) EXCEPT !.xak = FALSE, !.dlmx = NextBlock(d), !.hxm = n]

XmtDat(d) ==
  IF ~MaySend(d) THEN XmtAk3(d) ELSE IF d.busy < 2 THEN SendNext(d) ELSE d

-----------------------------------------------------------------------------
\* The end of a line, and the timers.

\* For mutation: the server is told only when the line goes down for good.
DyingQuiet(d, state) ==
  [d EXCEPT !.sta = state, !.tim = (state # "DWN"), !.first = d.next,
            !.dchng = IF state = "DWN" THEN "down" ELSE @]

\* DEDLIN up to DEDLN2: the line has its new state.
Dying(d, state) ==
  [d EXCEPT !.sta = state, !.tim = (state # "DWN"), !.first = d.next,
            !.dchng = IF d.sta = "RUN" THEN "down" ELSE @]

\* DEDLN8: the queue is empty.
Flushed(d) ==
  [d EXCEPT !.queue = <<>>, !.dlmx = 0, !.rmn = 0, !.hxm = 0, !.hma = 0,
            !.repc = 0, !.flush = 0]

\* DEDLN2: one message is given back, up to PION, or the queue is empty.
FlushNext(d) ==
  IF d.flush <= Len(d.queue) THEN [d EXCEPT !.flush = @ + 1] ELSE Flushed(d)

\* DEDLIN from below interrupt level, up to its first PION.
DieInSteps(d, state) == FlushNext([Dying(d, state) EXCEPT !.flush = 1])

\* DEDLIN at interrupt level, perhaps in a gap of the one below it.
DedLin(d, state) == [Flushed(Dying(d, state)) EXCEPT !.flush = d.flush]

\* For mutation: one STRT is enough.
XStartOnce(d) ==
  XmtCtl([d EXCEPT !.xak = FALSE, !.tim = FALSE], Control("STRT", 0, 0))

XStart(d) ==
  XmtCtl([d EXCEPT !.xak = FALSE, !.tim = TRUE], Control("STRT", 0, 0))

\* For mutation: the limit is looked at before the count.
RepChkLate(d) ==
  IF d.repc > RepMax THEN DieInSteps(d, "STR")
  ELSE XmtCtl([d EXCEPT !.repc = @ + 1, !.tim = TRUE],
         Control("REP", IF d.queue = <<>> THEN d.hma ELSE Add(d.hma, MaxOut), 0))

RepChk(d) ==
  IF d.repc = RepMax THEN DieInSteps(d, "STR")
  ELSE XmtCtl([d EXCEPT !.repc = @ + 1, !.tim = TRUE],
         Control("REP", IF d.queue = <<>> THEN d.hma ELSE Add(d.hma, MaxOut), 0))

\* For mutation: REPs are sent only when the line runs.
TimDspRunning(d) ==
  CASE d.sta = "STR" -> XStart(d)
    [] d.sta = "RUN" -> RepChk(d)
    [] OTHER -> [d EXCEPT !.tim = FALSE]

TimDsp(d) ==
  CASE d.sta = "STR" -> XStart(d)
    [] d.sta \in {"STK", "RUN"} -> RepChk(d)
    [] OTHER -> [d EXCEPT !.tim = FALSE]

-----------------------------------------------------------------------------
\* The receiver.

\* RCVAK3: a response that is 1 to MAXOUT ahead takes one message after the
\* other off the queue; the number goes one too far when the queue ends first.
RcvAk3(d, r) ==
  LET ahead == Behind(r, d.hma)
      new == IF ahead <= MaxOut THEN ahead ELSE 0
      gone == Least(new, Len(d.queue))
      q == SubSeq(d.queue, gone + 1, Len(d.queue))
  IN [d EXCEPT !.hma = Add(@, Least(new, Len(d.queue) + 1)),
               !.repc = IF new > 0 \/ q = <<>> THEN 0 ELSE @,
               !.tim = @ \/ new > 0 \/ q = <<>>,
               !.queue = q,
               !.dlmx = IF @ > gone THEN @ - gone ELSE 0]

Deliver(d, f) ==
  XmtAck([d EXCEPT !.rcvd = Append(@, f.msg), !.rmn = Add(@, 1)])

\* For mutation: the message number is not compared.
RcvDatAny(d, f, room) ==
  LET e == RcvAk3(d, f.r)
  IN IF d.sta # "RUN" THEN d ELSE IF room THEN Deliver(e, f) ELSE XmtNak(e)

RcvDat(d, f, room) ==
  LET e == RcvAk3(d, f.r)
  IN CASE d.sta # "RUN" -> d
       [] d.sta = "RUN" /\ f.n # Add(e.rmn, 1) -> e
       [] OTHER -> IF room THEN Deliver(e, f) ELSE XmtNak(e)

ComeUp(d) == [XmtAck(d) EXCEPT !.dchng = "up"]

RcvAck(d, f) ==
  CASE d.sta = "STK" -> ComeUp(d)
    [] d.sta = "RUN" -> RcvAk3(d, f.r)
    [] OTHER -> d

RcvNak(d, f) ==
  CASE d.sta = "STK" -> IF f.r = 0 THEN ComeUp(d) ELSE XmtNak(d)
    [] d.sta = "RUN" -> XmtDat(RcvAk3([d EXCEPT !.dlmx = 0], f.r))
    [] OTHER -> d

RcvRep(d, f) ==
  CASE d.sta \in {"STK", "RUN"} -> IF f.n = d.rmn THEN XmtAck(d) ELSE XmtNak(d)
    [] OTHER -> d

SendStart(d) == [d EXCEPT !.sta = "STR", !.tim = TRUE]

RcvStr(d) ==
  CASE d.sta = "STR" ->
         IF d.busy < 2
         THEN [Emit(d, Control("STACK", 0, 0)) EXCEPT !.sta = "STK", !.xak = TRUE]
         ELSE SendStart(d)
    [] d.sta = "STK" -> SendStart(d)
    [] d.sta = "RUN" -> SendStart(DedLin(d, "STR"))
    [] OTHER -> d

RcvStk(d) ==
  IF d.sta \in {"STR", "STK"} THEN [XmtAck(d) EXCEPT !.sta = "STK"] ELSE d

Handle(d, f, room) ==
  CASE f.kind = "DATA" -> RcvDat(d, f, room)
    [] f.kind = "ACK" -> RcvAck(d, f)
    [] f.kind = "NAK" -> RcvNak(d, f)
    [] f.kind = "REP" -> RcvRep(d, f)
    [] f.kind = "STRT" -> RcvStr(d)
    [] OTHER -> RcvStk(d)

-----------------------------------------------------------------------------
\* The steps.

Fault == faults < MaxFaults /\ faults' = faults + 1 /\ UNCHANGED stops
Stop == stops < MaxStops /\ stops' = stops + 1 /\ UNCHANGED faults
Regular == UNCHANGED <<faults, stops>>

Change(s, d) == st' = [st EXCEPT ![s] = d]

\* The next frame from the other station goes, and s becomes d.
Take(s, d) ==
  /\ st[Other(s)].line # <<>>
  /\ st' = [st EXCEPT ![s] = d, ![Other(s)].line = Tail(@)]

\* A received frame: nothing is looked at until KDPTSK has seen DCHNG.
Receive(s) ==
  /\ Regular
  /\ LET f == Head(st[Other(s)].line)
     IN Take(s, IF st[s].dchng # "none" THEN st[s] ELSE Handle(st[s], f, TRUE))

\* A data message for which the server has no buffer.
ReceiveNoRoom(s) ==
  /\ Fault
  /\ st[Other(s)].line # <<>>
  /\ Head(st[Other(s)].line).kind = "DATA"
  /\ st[s].dchng = "none"
  /\ Take(s, Handle(st[s], Head(st[Other(s)].line), FALSE))

\* A frame is lost on the line, or reported by control out 10 (bad header) or 24
\* (receiver underrun) and dismissed.
Lose(s) == Fault /\ Take(s, st[s])

\* Control out 12: a bad CRC.
CntlBadCrc(s) == Fault /\ Take(s, XmtNak(st[s]))

\* Control out 14: the KMC has no buffer for a frame.  The NAK goes out with the
\* next completion or in place of the next ACK.
CntlNoBuf(s) == Fault /\ Take(s, [st[s] EXCEPT !.ncd = TRUE])

\* The transmission of the oldest list is done.  The test for maintenance
\* mode compares AC 0 of the interrupted program, whatever it holds, with
\* STAMAI; when they agree (mop), the completion is taken for one of that mode.
XmtDne(s) ==
  \E mop \in BOOLEAN :
    LET d == [st[s] EXCEPT !.busy = @ - 1]
        e == [d EXCEPT !.tim = TRUE]
    IN /\ st[s].busy > 0
       /\ Len(st[s].line) - st[s].busy < MaxLine
       /\ Change(s, IF mop THEN d ELSE XmtDat(IF e.ncd THEN XmtNak(e) ELSE e))
       /\ IF mop THEN Fault ELSE Regular

\* Nothing is under way on the line; a process may be waiting for core.
Quiet == \A s \in Station :
  st[s].line = <<>> /\ st[s].busy = 0 /\ st[s].dchng = "none"

\* A timer expires.  The times are longer than a message and its answer take:
\* one that expires while anything is under way counts as a fault.
Timer(s) ==
  /\ st[s].tim /\ st[s].flush = 0
  /\ IF Quiet THEN Regular ELSE ~Patient /\ Fault
  /\ Change(s, TimDsp(st[s]))

\* The scheduler's look at DCHNG.  The notice that a line is up or down for a
\* user program takes a buffer; without one the code is stored again.
KdpTsk(s) ==
  LET d == [st[s] EXCEPT !.dchng = "none"]
      Up == [d EXCEPT !.sta = "RUN", !.rcvd = <<>>]
  IN /\ st[s].dchng # "none" /\ st[s].flush = 0
     /\ \/ /\ st[s].dchng = "up" /\ st[s].sta = "STK"
           /\ Change(s, [Up EXCEPT !.up = TRUE])
           /\ Regular
        \/ /\ st[s].dchng = "up" /\ st[s].sta = "STK"
           /\ s \in UserLines
           /\ Change(s, [Up EXCEPT !.dchng = "up"])
           /\ Fault
        \/ /\ st[s].dchng = "up" /\ st[s].sta # "STK"
           /\ Change(s, d)
           /\ Regular
        \/ /\ st[s].dchng = "down"
           /\ Change(s, [d EXCEPT !.up = FALSE])
           /\ Regular
        \/ /\ st[s].dchng = "down" /\ s \in UserLines
           /\ UNCHANGED st
           /\ Fault

\* DCNMSO looks at the state of the line, may wait for core with interrupts
\* on, and queues the message without looking again.
Ask(s) ==
  /\ ~st[s].asked
  /\ st[s].sta = "RUN" /\ st[s].next <= MaxMsgs[s]
  /\ Change(s, [st[s] EXCEPT !.asked = TRUE])
  /\ Regular

Queue(s) ==
  LET d == st[s]
      m == [id |-> d.next, first |-> d.first]
      e == [d EXCEPT !.asked = FALSE, !.next = @ + 1, !.queue = Append(@, m),
                     !.dlmx = IF d.queue = <<>> THEN 0 ELSE @,
                     !.late = @ \/ d.sta # "RUN"]
  IN /\ d.asked /\ d.flush = 0
     /\ Change(s, [XmtDat(e) EXCEPT !.tim = TRUE])
     /\ Regular

\* BOOT JSYS: terminate and initiate protocol.
Boot(s, state) == st[s].flush = 0 /\ Change(s, DieInSteps(st[s], state))
Terminate(s) == st[s].sta # "DWN" /\ Boot(s, "DWN") /\ Stop
Initiate(s) == st[s].sta = "DWN" /\ Boot(s, "STR") /\ Regular

\* DEDLIN goes on.
Flush(s) == st[s].flush # 0 /\ Change(s, FlushNext(st[s])) /\ Regular

\* BOOT JSYS: the KMC is stopped, loaded and started, in one step; frames
\* still in a transmit list may never leave.
Reload(s) ==
  LET d == st[s]
      e == [DedLin(d, "DWN") EXCEPT !.sta = "STR", !.tim = TRUE, !.busy = 0]
  IN /\ d.flush = 0
     /\ \E k \in 0 .. Least(d.busy, Len(d.line)) :
          Change(s, [e EXCEPT !.line = SubSeq(@, 1, Len(@) - k)])
     /\ Stop

\* Control out 16: data set ready went away.
CntlDsr(s) ==
  st[s].sta \in {"STK", "RUN"} /\ Change(s, DedLin(st[s], "STR")) /\ Stop

Step(s) ==
  \/ Receive(s) \/ ReceiveNoRoom(s) \/ Lose(s) \/ CntlBadCrc(s)
  \/ CntlNoBuf(s) \/ Flush(s)
  \/ XmtDne(s) \/ Timer(s) \/ KdpTsk(s) \/ Ask(s) \/ Queue(s)
  \/ Terminate(s) \/ Initiate(s) \/ Reload(s) \/ CntlDsr(s)

Next == \E s \in Station : Step(s)

Spec == Init /\ [][Next]_vars

\* Frames that are not lost arrive, completions are reported, KDPTSK is called
\* on every scheduler cycle while KDPFLG is set, a process that waits for core
\* gets it, DEDLIN goes on, and KDPCHK counts a running timer down every second.
Live == \A s \in Station :
  /\ WF_vars(Receive(s)) /\ WF_vars(XmtDne(s)) /\ WF_vars(KdpTsk(s))
  /\ WF_vars(Queue(s)) /\ WF_vars(Flush(s)) /\ SF_vars(Quiet /\ Timer(s))
LiveSpec == Spec /\ Live
-----------------------------------------------------------------------------
\* Properties.

StationType ==
  [sta : {"DWN", "STR", "STK", "RUN"}, dchng : {"none", "up", "down"},
   xak : BOOLEAN, ncd : BOOLEAN, tim : BOOLEAN,
   rmn : Number, hxm : Number, hma : Number, repc : 0 .. RepMax,
   queue : Seq(Message), dlmx : Nat, flush : Nat, busy : 0 .. 2, line : Seq(Frame),
   asked : BOOLEAN, late : BOOLEAN, up : BOOLEAN, rcvd : Seq(Message),
   next : Nat, first : Nat]

\* Every field of a station stays in its range: REPs never exceed REPMAX, and
\* no more than the two transmit lists are in use.
TypeOK ==
  /\ st \in [Station -> StationType]
  /\ faults \in 0 .. MaxFaults
  /\ stops \in 0 .. MaxStops

\* PGDLMX and the numbers agree: the last message sent lies within MAXOUT and
\* within the queue, and DDHXM - DDHMA is its place in it.  A response that
\* frees messages, a NAK that starts over and the end of a line must each keep
\* the two in step, or XMTDAT sends a message under another one's number; it
\* does so in the gaps of DEDLIN, which are left out.
WindowOK ==
  \A s \in Station : st[s].dlmx # 0 /\ st[s].flush = 0 =>
    /\ st[s].dlmx <= Least(MaxOut, Len(st[s].queue))
    /\ Behind(st[s].hxm, st[s].hma) = st[s].dlmx

\* A line that is not down has its timer running in every state, so that a
\* lost STRT, STACK, ACK or message is always followed by another attempt.
TimerRuns == \A s \in Station : st[s].sta # "DWN" => st[s].tim

\* DCHNG holds one code and is overwritten: still NSP believes that the line
\* is up exactly when it runs or KDPTSK has yet to tell it that it died.
ServerKnows ==
  \A s \in Station \ UserLines :
    st[s].up <=> (st[s].sta = "RUN" \/ st[s].dchng = "down")

\* The two stations implement LinkService, with a station open while its line
\* runs: over lost and damaged frames, missing buffers and restarts of either
\* end a server is given each message of one session of the other once and in
\* order, none missing while that session lasts, and no message is done that
\* the other end, if open, has not given.  A message belongs to the session in
\* which DCNMSO queues it, which may have begun after DCNMSO looked at the line.
\* This holds as long as no timer expires early (Patient) and DCNMSO has queued
\* no message while the line did not run (late); beyond either, frames of an
\* older start are taken for frames of the new one.
Service == INSTANCE LinkService WITH
  open <- [s \in Station |-> st[s].sta = "RUN"],
  waiting <- [s \in Station |->
                IF st[s].flush = 0 THEN st[s].queue ELSE <<>>],
  given <- [s \in Station |-> st[s].rcvd],
  next <- [s \in Station |-> st[s].next],
  first <- [s \in Station |-> st[s].first]
InTime == Patient /\ \A s \in Station : ~st[s].late
LinkServiceSpec ==
  Service!Init /\ [][InTime' => Service!Next]_(Service!serviceVars)

\* Once the last fault is over both ends come to run and stay so, and have
\* sent all they have to send, unless an end is left down: started at
\* different times and with stale frames on the line, they may not chase each
\* other through the start for ever, nor a message stay in a queue.
SomeDown == \E s \in Station : st[s].sta = "DWN"
ComesUp == <>[](SomeDown \/ \A s \in Station :
                  st[s].sta = "RUN" /\ st[s].queue = <<>>)

\* A message that RCVAK3 counts as "transmitted ok" while the line stays up
\* has been given to the server of the other end.
AckedDelivered ==
  [][\A s \in Station :
       \A k \in 1 .. Len(st[s].queue) - Len(st'[s].queue) :
         \/ st'[s].sta # "RUN"
         \/ st[s].queue[k] \in ToSet(st[Other(s)].rcvd)]_vars
=============================================================================
