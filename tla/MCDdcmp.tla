------------------------------ MODULE MCDdcmp ------------------------------
\* Values of the constants of Ddcmp for model checking.
EXTENDS Ddcmp, TLC

TwoOneWay   == (A :> 2) @@ (B :> 0)
ThreeOneWay == (A :> 3) @@ (B :> 0)
=============================================================================
