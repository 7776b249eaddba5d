----------------------------- MODULE MCKdpSystem -----------------------------
\* Values of the constants of KdpSystem for model checking: the two lines of a
\* KMC connected to each other on the local host.
EXTENDS KdpSystem

TwoLines == {0, 1}
Crossed  == [i \in TwoLines |-> 1 - i]
MixedSegs == <<2, 1>>
=============================================================================
