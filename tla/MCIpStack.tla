----------------------------- MODULE MCIpStack -----------------------------
(***************************************************************************)
(* Constants for TLC.                                                      *)
(***************************************************************************)
EXTENDS IpStack

CONSTANTS d1, d2, h1, e1, e2

Few == [open |-> 2, send |-> 3, arp |-> 2, dgram |-> 2, tick |-> 1, clear |-> 1]
=============================================================================
