------------------------------ MODULE ArpCache ------------------------------
(***************************************************************************)
(* The ARP cache of arpser.mac: the list %arlst of arp blocks, newest in   *)
(* front, and the count %arcnt.  Replies and queries are stored at the     *)
(* interrupt level of the UNA, which runs to its end once it has started;  *)
(* the main program looks addresses up, sweeps the list once a second and  *)
(* clears it, and is interrupted between any two of its steps.             *)
(*                                                                         *)
(* The main program walks the list with a pointer.  New blocks are put in  *)
(* front and only the main program gives blocks back, so the pointer is    *)
(* the number of blocks from the one it points to up to the end: `left'.   *)
(* The interlock %arndl is held within an interrupt only, so that GIVAB    *)
(* and ARPCLA, which test it in the main program, never find it set.       *)
(***************************************************************************)
EXTENDS Integers, Sequences, SequencesExt

CONSTANTS
  Hosts,      \* IP addresses of the Ethernet
  Eths,       \* Ethernet addresses
  None,       \* no address
  ArTtl,      \* %arttl, 300 seconds
  ArItl,      \* %aritl, 5 seconds
  MaxBlocks   \* bound: blocks there is memory for

ASSUME ArpAssumption ==
  /\ None \notin Eths \cup Hosts
  /\ ArTtl \in Nat \ {0} /\ ArItl \in Nat \ {0} /\ MaxBlocks \in Nat

VARIABLES
  arlst,  \* the list
  arcnt,  \* %arcnt
  gone,   \* the list that ARPCLA has taken off and not yet begun to give back
  last    \* the Ethernet address stored last for each host, while it is kept

arpVars == <<arlst, arcnt, gone, last>>

\* ic: the flag abf.ic.  Nothing sets abf.pm, abf.rw or abf.rf, and ab.pak
\* stays zero.
Block == [ipa : Hosts, eth : Eths \cup {None}, ttl : Int, ic : BOOLEAN]

ArpInit ==
  /\ arlst = <<>> /\ gone = <<>>
  /\ arcnt = 0
  /\ last = [h \in Hosts |-> None]

\* The position of the first block of a host, 0 if it has none.
ArpLuk(list, h) ==
  LET found == {i \in 1 .. Len(list) : list[i].ipa = h}
  IN IF found = {} THEN 0 ELSE CHOOSE i \in found : \A j \in found : i <= j

Known(list, h) == ArpLuk(list, h) # 0 /\ ~list[ArpLuk(list, h)].ic
Address(list, h) == list[ArpLuk(list, h)].eth

Infant(h) == [ipa |-> h, eth |-> None, ttl |-> ArItl, ic |-> TRUE]
Room == Len(arlst) + Len(gone) < MaxBlocks

GetAb(h) ==
  /\ arlst' = <<Infant(h)>> \o arlst
  /\ arcnt' = arcnt + 1

\* For mutation: a block that is complete keeps its address.
StoreFirst(h, e) ==
  LET k == ArpLuk(arlst, h)
      b == [ipa |-> h, eth |-> e, ttl |-> ArTtl, ic |-> FALSE]
  IN /\ IF k # 0 THEN /\ arlst' = IF arlst[k].ic THEN [arlst EXCEPT ![k] = b]
                                                 ELSE [arlst EXCEPT ![k].ttl = ArTtl]
                      /\ UNCHANGED arcnt
                 ELSE /\ arlst' = <<b>> \o arlst
                      /\ arcnt' = arcnt + 1
     /\ last' = [last EXCEPT ![h] = e]

Store(h, e) ==
  LET k == ArpLuk(arlst, h)
      b == [ipa |-> h, eth |-> e, ttl |-> ArTtl, ic |-> FALSE]
  IN /\ IF k # 0 THEN arlst' = [arlst EXCEPT ![k] = b] /\ UNCHANGED arcnt
                 ELSE arlst' = <<b>> \o arlst /\ arcnt' = arcnt + 1
     /\ last' = [last EXCEPT ![h] = e]

Whole(list, h) == {i \in 1 .. Len(list) : list[i].ipa = h /\ ~list[i].ic}
Newest(list, k) == /\ k \in Whole(list, list[k].ipa)
                   /\ \A i \in Whole(list, list[k].ipa) : k <= i

\* GIVA.1 for the block at position k of the list.
GivAb(k) ==
  /\ arlst' = RemoveAt(arlst, k)
  /\ arcnt' = arcnt - 1
  /\ last' = IF Newest(arlst, k) THEN [last EXCEPT ![arlst[k].ipa] = None] ELSE last

\* ARPSEC counts the block at position k down: is it dead?
Decrement(k) == arlst' = [arlst EXCEPT ![k].ttl = @ - 1]
Dies(k) == arlst[k].ttl <= 1

\* ARPCLA takes the list off ...
TakeOff ==
  /\ gone' = arlst /\ arlst' = <<>> /\ arcnt' = 0
  /\ last' = [h \in Hosts |-> None]

\* ... and gives its first block back: that block has none before it, so
\* GIVA.1 makes the others the list, whatever an interrupt has put there.
GivFirst ==
  /\ arlst' = Tail(gone) /\ gone' = <<>>
  /\ arcnt' = arcnt - 1
  /\ last' = [h \in Hosts |-> None]

-----------------------------------------------------------------------------
ArpTypeOK ==
  /\ arlst \in Seq(Block) /\ gone \in Seq(Block)
  /\ arcnt \in Int
  /\ last \in [Hosts -> Eths \cup {None}]

\* As long as the address stored last for a host is kept, it is the one that
\* the first complete block of the host has: a second block, which ARPFND adds
\* when the reply comes before GETAB, may hide it, but never offers an address
\* that the host no longer has (STORE, ARPFND, ARPSEC).
FreshAnswer ==
  \A h \in Hosts : last[h] # None =>
    \E i \in Whole(arlst, h) : Newest(arlst, i) /\ arlst[i].eth = last[h]
=============================================================================
