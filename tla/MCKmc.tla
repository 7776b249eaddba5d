-------------------------------- MODULE MCKmc --------------------------------
\* Values of the constants of Kmc for model checking.
EXTENDS Kmc

OneLine == {0}
Loop1   == [i \in OneLine |-> i]
TwoSegs == <<2>>
Sel0Values == {{}, {"MRC"}, {"RUN"}, {"RUN", "RQI", "IEO", "IEI"}}
============================================================================
