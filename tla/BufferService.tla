---------------------------- MODULE BufferService ----------------------------
(***************************************************************************)
(* What a communications processor promises the host that gives it         *)
(* buffers: on each line, and for each direction, the descriptors of every *)
(* list the host gives are reported back, each once and in the order       *)
(* given; only a master clear takes them away without a report.            *)
(***************************************************************************)
EXTENDS Naturals, Sequences

CONSTANTS Queues,  \* a queue for each line and direction
          None     \* the host is not giving anything

VARIABLES offer,  \* the queue and the whole list the host is about to give
          given   \* for each queue, the descriptors given and not reported

vars == <<offer, given>>

Init == offer = None /\ given = [q \in Queues |-> <<>>]

Offer == /\ offer = None /\ offer' # None
         /\ UNCHANGED given

Give == /\ offer # None /\ offer' = None
        /\ given' = [given EXCEPT ![offer.queue] = @ \o offer.list]

Report == /\ \E q \in Queues : /\ given[q] # <<>>
                               /\ given' = [given EXCEPT ![q] = Tail(@)]
          /\ UNCHANGED offer

MasterClear == given' = [q \in Queues |-> <<>>] /\ offer' = None

Next == Offer \/ Give \/ Report \/ MasterClear

Spec == Init /\ [][Next]_vars
=============================================================================
