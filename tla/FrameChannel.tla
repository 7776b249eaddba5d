---------------------------- MODULE FrameChannel ----------------------------
(***************************************************************************)
(* What the DEUNA counts on below eth_read: a queue of frames.             *)
(*   - Frames come out in the order they passed the interface, each once;  *)
(*     a frame may be lost as it comes, but none from among those that     *)
(*     wait, save that setting up the interface may forget the newest.     *)
(*   - A frame of the network is handed up, unless it is an IP packet for  *)
(*     the host itself, which never is.                                    *)
(*   - A frame the simulated machine sent is handed up to it only if it    *)
(*     has changed its address since.                                      *)
(***************************************************************************)
EXTENDS Naturals, Sequences

CONSTANTS Frames,  \* the frames there can be, numbered as they pass
          HostIp   \* the host's Internet address

VARIABLES mac,      \* the address of the simulated machine
          seen,     \* frames that have passed the interface
          waiting,  \* frames caught and not read
          given     \* the numbers of the frames handed up, in order

vars == <<mac, seen, waiting, given>>

Init == seen = 0 /\ waiting = <<>> /\ given = <<>>

Put == /\ seen' = seen + 1
       /\ \/ waiting' = waiting
          \/ \E f \in Frames : f.id = seen' /\ waiting' = Append(waiting, f)
       /\ UNCHANGED <<mac, given>>

ForHost(f) == f.proto = "ip" /\ f.to = HostIp

Give == /\ waiting # <<>> /\ ~ForHost(Head(waiting))
        /\ Head(waiting).by = "guest" => Head(waiting).src # mac
        /\ waiting' = Tail(waiting)
        /\ given' = Append(given, Head(waiting).id)
        /\ UNCHANGED <<mac, seen>>

Skip == /\ waiting # <<>>
        /\ Head(waiting).by = "net" => ForHost(Head(waiting))
        /\ waiting' = Tail(waiting)
        /\ UNCHANGED <<mac, seen, given>>

SetUp == /\ \E k \in 0 .. Len(waiting) : waiting' = SubSeq(waiting, 1, k)
         /\ UNCHANGED <<seen, given>>

Next == Put \/ Give \/ Skip \/ SetUp

Spec == Init /\ [][Next]_vars
=============================================================================
