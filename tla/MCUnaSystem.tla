---------------------------- MODULE MCUnaSystem ----------------------------
\* Values of the constants of UnaSystem for model checking.
EXTENDS UnaSystem

CONSTANTS t1, r1

OneFormat == {[tdrb |-> t1, rdrb |-> r1]}
AllFrames == 1 .. MaxPkts + MaxArrive
FirstArrival == {MaxPkts + 1}

\* What the next steps read: the command field only while a command is
\* flagged, p4 and hret only inside an interrupt; una_stat, PCTO and the frame
\* last written never.
SysView ==
  <<status, inte, IF cmdflag THEN pcmd ELSE "NOOP", state, pcsr23, pcbb, ring,
    resetflag, cmdflag, txside, rxside, active, intreq, vectored, mem, ethon, wire,
    queues, polling, IF hpc = "off" THEN {} ELSE p4, hpc,
    IF hpc \in {"tdr", "poll"} THEN hret ELSE "off", mpc, seen, lost>>
=============================================================================
