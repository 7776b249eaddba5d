---------------------------- MODULE EtherService ----------------------------
(***************************************************************************)
(* What the interface promises the protocols above it, whatever happens on *)
(* the wire, in the controller and in its driver:                          *)
(*   - packets leave in the order they were queued, each at most once;     *)
(*   - frames are handed up in the order they arrived, each at most once;  *)
(*     a frame may be lost, but never invented or reordered.               *)
(* Packets are numbered from 1 in the order they are queued, and arrivals  *)
(* in the order the filter passes them.                                    *)
(***************************************************************************)
EXTENDS Naturals, Sequences

VARIABLES accepted,  \* packets queued
          sent,      \* packets that have left, in order
          arrived,   \* frames that have come
          given      \* frames handed up, in order

vars == <<accepted, sent, arrived, given>>

Init == accepted = 0 /\ sent = <<>> /\ arrived = 0 /\ given = <<>>

LastGiven == IF given = <<>> THEN 0 ELSE given[Len(given)]

Accept == accepted' = accepted + 1 /\ UNCHANGED <<sent, arrived, given>>

Send == /\ Len(sent) < accepted
        /\ sent' = Append(sent, Len(sent) + 1)
        /\ UNCHANGED <<accepted, arrived, given>>

Arrive == arrived' = arrived + 1 /\ UNCHANGED <<accepted, sent, given>>

\* Handing a frame up may queue a packet in answer.
Give == \E f \in LastGiven + 1 .. arrived :
          /\ given' = Append(given, f)
          /\ accepted' \in {accepted, accepted + 1}
          /\ UNCHANGED <<sent, arrived>>

Next == Accept \/ Send \/ Arrive \/ Give

Spec == Init /\ [][Next]_vars
=============================================================================
