------------------------------ MODULE MCDeuna ------------------------------
\* Values of the constants of Deuna for model checking.
EXTENDS Deuna

CONSTANTS t1, r1, r2

OneFormat  == {[tdrb |-> t1, rdrb |-> r1]}
OrUnmapped == {[tdrb |-> t1, rdrb |-> r] : r \in {r1, Hole}}
TwoFormats == {[tdrb |-> t1, rdrb |-> r] : r \in {r1, r2}}

\* The command field, which is read only while a command is flagged.
Pending == IF cmdflag THEN pcmd ELSE "NOOP"

\* What the ring properties depend on.  Nothing hidden is read by an action
\* that changes something shown: the status bits, the interrupt system and
\* una_stat are only reported to the host, a transmit descriptor's address is
\* read only while a transmission is in progress, and that of the receive
\* descriptor only while the held copy says that the port owns it.
RingView == <<state, pcbb, ring, pcsr23, resetflag, cmdflag, Pending,
              txflag, IF txflag THEN <<txdone, txea>> ELSE <<>>, txnext,
              rxactive, rxhdr, IF rxhdr.own THEN rxea ELSE <<>>, rxnext,
              active, mem, eth>>

\* What the interrupt properties depend on: una_stat, PCTO and the frame last
\* written are reported and never read back.
ControlView == <<status, intr, inte, Pending, state, pcsr23, pcbb, ring, resetflag,
                 cmdflag, txside, rxside, active, intreq, vectored, mem>>
=============================================================================
