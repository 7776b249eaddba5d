---------------------------- MODULE LinkService ----------------------------
(***************************************************************************)
(* What a DDCMP line promises the servers at its two ends: while a line is *)
(* open a server is given, in order and once each, the messages of one     *)
(* session of the other end, from the first one on and without a gap until *)
(* that session ends; and a message is done only when it has been given,   *)
(* unless the other end is not open.                                       *)
(***************************************************************************)
EXTENDS Integers, Sequences, SequencesExt

CONSTANT Station, Other(_)

VARIABLES
  open,     \* the server may send and is given messages
  waiting,  \* messages accepted from the server and not done
  given,    \* messages given to the server since the line last opened
  next,     \* the next message
  first     \* the first message of the sender's session

serviceVars == <<open, waiting, given, next, first>>

Init ==
  /\ open = [s \in Station |-> FALSE]
  /\ waiting = [s \in Station |-> <<>>]
  /\ given = [s \in Station |-> <<>>]
  /\ next = [s \in Station |-> 1]
  /\ first = [s \in Station |-> 1]

Open(s) ==
  /\ ~open[s]
  /\ open' = [open EXCEPT ![s] = TRUE]
  /\ given' = [given EXCEPT ![s] = <<>>]
  /\ UNCHANGED <<waiting, next, first>>

\* The messages that wait are given up: a new session begins.
Close(s) ==
  /\ open' = [open EXCEPT ![s] = FALSE]
  /\ waiting' = [waiting EXCEPT ![s] = <<>>]
  /\ first' = [first EXCEPT ![s] = next[s]]
  /\ UNCHANGED <<given, next>>

Accept(s) ==
  /\ waiting' = [waiting EXCEPT ![s] =
                   Append(@, [id |-> next[s], first |-> first[s]])]
  /\ next' = [next EXCEPT ![s] = @ + 1]
  /\ UNCHANGED <<open, given, first>>

\* The message that a server must be given next.  Of a session that is over
\* messages may be missing before it.
Over(s, m) == m.first # first[Other(s)]
Follows(s, m, k) == m.id = k \/ (m.id > k /\ Over(s, m))
Due(s, m) ==
  IF given[s] = <<>> THEN Follows(s, m, m.first)
  ELSE m.first = given[s][1].first /\ Follows(s, m, Last(given[s]).id + 1)

Done(s, m) == ~open[Other(s)] \/ m \in ToSet(given[Other(s)])

\* What a frame brings: messages are done, and at most one is given.
Hear(s) ==
  /\ open[s]
  /\ \E k \in 0 .. Len(waiting[s]) :
       /\ \A i \in 1 .. k : Done(s, waiting[s][i])
       /\ waiting' = [waiting EXCEPT ![s] = SubSeq(@, k + 1, Len(@))]
  /\ \/ UNCHANGED given
     \/ \E id \in 1 .. next[Other(s)] - 1, f \in 1 .. first[Other(s)] :
          LET m == [id |-> id, first |-> f]
          IN Due(s, m) /\ given' = [given EXCEPT ![s] = Append(@, m)]
  /\ UNCHANGED <<open, next, first>>

Next == \E s \in Station : Open(s) \/ Close(s) \/ Accept(s) \/ Hear(s)

Spec == Init /\ [][Next]_serviceVars
=============================================================================
