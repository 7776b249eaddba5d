------------------------------ MODULE IpProofs ------------------------------
(***************************************************************************)
(* The input queues of the UDP devices, for any number of devices, ports   *)
(* and hosts and for any limits: InputCounted and OwnInput always hold.    *)
(* Neither is inductive.  The count needs that the queue still has room    *)
(* when the main program stands between the look at udpiql and the queue;  *)
(* the ownership, that a device without a user has no port.                *)
(*                                                                         *)
(* Then FreshAnswer, for any number of hosts, addresses and blocks: a lemma*)
(* for each operation on the list, and the steps of the main program, whose*)
(* pointer must lie in the list for the blocks that it counts down or gives*)
(* back to be the ones it looked at.                                       *)
(*                                                                         *)
(* Last OutputCounted, for any number of devices: it is inductive together *)
(* with the limit on udpoql, with Inv, and with the fact that the main     *)
(* program names a device only while it has a packet of it.  What remains  *)
(* of IpTypeOK, that the counts stay in range, follows from the sum.       *)
(***************************************************************************)
EXTENDS IpStack, FiniteSetTheorems, SequenceTheorems, WellFoundedInduction, TLAPS

Device == [open : BOOLEAN, port : AllPorts, in : Seq(Dgram), iql : Nat, oql : Int]

\* A device without a user has no port, and what is in its queue came for 0.
Good(u) ==
  /\ u.iql = Len(u.in) /\ Len(u.in) <= InLimit + 1
  /\ ~u.open => u.port = 0
  /\ \A i \in 1 .. Len(u.in) : u.in[i].port = 0 \/ (u.open /\ u.in[i].own)

GoodAll(u) == u \in [Devs -> Device] /\ \A d \in Devs : Good(u[d])

\* A device that is being released has no port any more.
\* The queue that U.STOR has looked at belongs to a user and has room.
StorReady ==
  /\ main.dev \in Devs /\ main.to \in Devs /\ main.port \in AllPorts
  /\ udp[main.to].open /\ Len(udp[main.to].in) <= InLimit

MainOK == /\ main.pc = "stor" => StorReady
          /\ main.pc = "rel" => main.dev \in Devs /\ udp[main.dev].port = 0

Inv == GoodAll(udp) /\ main \in MainType /\ MainOK

\* Nothing is claimed of the devices at the other places of the main program.
Calm(m) == m \in MainType /\ m.pc \notin {"stor", "rel"}

\* Two states of a device that differ in its output at most.
SameInput(u, v) == v.open = u.open /\ v.port = u.port /\ v.in = u.in /\ v.iql = u.iql

LEMMA IdleCalm == Calm(Idle)
  BY DEF Calm, Idle, MainType, Tag, AllPorts

LEMMA Limits == InLimit \in Nat /\ InLimit # 0 /\ None \notin Devs
  BY IpAssumption DEF IpAssumption

-----------------------------------------------------------------------------
\* Giving packets back does not touch the input of a device (GIVPD, U.CBK).
LEMMA GivPdInput ==
  ASSUME NEW u \in [Devs -> Device], NEW tag
  PROVE  /\ GivPd(u, tag) \in [Devs -> Device]
         /\ \A d \in Devs : SameInput(u[d], GivPd(u, tag)[d])
<1>1. CASE tag \in Devs
  <2> DEFINE v == [u[tag] EXCEPT !.oql = @ - 1]
  <2>1. v \in Device /\ SameInput(u[tag], v)
      BY <1>1 DEF Device, SameInput
  <2>2. GivPd(u, tag) = [u EXCEPT ![tag] = v]
      BY <1>1, Limits DEF GivPd
  <2> HIDE DEF v
  <2> QED BY <1>1, <2>1, <2>2 DEF SameInput
<1>2. CASE tag \notin Devs
    BY <1>2 DEF GivPd, SameInput
<1> QED BY <1>1, <1>2

LEMMA TaggedType ==
  ASSUME NEW q \in Seq(Dgram), NEW d
  PROVE  Tagged(q, d) \in Nat
<1> DEFINE S == {i \in 1 .. Len(q) : q[i].tag = d}
<1>1. IsFiniteSet(1 .. Len(q))
    BY FS_Interval
<1>2. IsFiniteSet(S)
    BY <1>1, FS_Subset
<1> QED BY <1>2, FS_CardinalityType DEF Tagged

LEMMA GivAllInput ==
  ASSUME NEW u \in [Devs -> Device], NEW q \in Seq(Dgram)
  PROVE  /\ GivAll(u, q) \in [Devs -> Device]
         /\ \A d \in Devs : SameInput(u[d], GivAll(u, q)[d])
<1> DEFINE v(d) == [u[d] EXCEPT !.oql = @ - Tagged(q, d)]
<1>1. ASSUME NEW d \in Devs
      PROVE  v(d) \in Device /\ SameInput(u[d], v(d))
  <2> DEFINE n == Tagged(q, d)
  <2>1. n \in Nat /\ u[d] \in Device
      BY TaggedType
  <2> HIDE DEF n
  <2>2. u[d].oql - n \in Int
      BY <2>1 DEF Device
  <2>3. v(d) = [u[d] EXCEPT !.oql = u[d].oql - n]
      BY DEF n
  <2> HIDE DEF v
  <2> QED BY <2>1, <2>2, <2>3 DEF Device, SameInput
<1>2. GivAll(u, q) = [d \in Devs |-> v(d)]
    BY DEF GivAll
<1> HIDE DEF v
<1> QED BY <1>1, <1>2 DEF SameInput

LEMMA SameInputGood ==
  ASSUME NEW u, NEW v, GoodAll(u), v \in [Devs -> Device],
         \A d \in Devs : SameInput(u[d], v[d])
  PROVE  GoodAll(v)
  BY DEF GoodAll, Good, SameInput

\* A step that may change the output of devices only, and leaves the main
\* program where it is or brings it to where nothing is claimed.
LEMMA OutputInv ==
  ASSUME Inv, udp' \in [Devs -> Device],
         \A d \in Devs : SameInput(udp[d], udp'[d]),
         main' = main \/ Calm(main')
  PROVE  Inv'
<1>1. GoodAll(udp)'
    BY SameInputGood DEF Inv
<1>2. CASE main' = main
    BY <1>1, <1>2 DEF Inv, MainOK, StorReady, SameInput
<1>3. CASE Calm(main')
    BY <1>1, <1>3 DEF Inv, MainOK, Calm
<1> QED BY <1>2, <1>3

LEMMA QuietInv ==
  ASSUME Inv, udp' = udp, main' = main \/ Calm(main')
  PROVE  Inv'
  BY OutputInv DEF Inv, GoodAll, SameInput

\* One device changes, while the main program is idle before and after.
LEMMA DeviceInv ==
  ASSUME Inv, main.pc = "idle", main' = main,
         NEW d \in Devs, NEW v \in Device, Good(v), udp' = [udp EXCEPT ![d] = v]
  PROVE  Inv'
  BY DEF Inv, GoodAll, MainOK

-----------------------------------------------------------------------------
\* A datagram that finds room is queued (U.STOR).
LEMMA StorGood ==
  ASSUME GoodAll(udp), NEW d \in Devs, NEW g \in Dgram, Len(udp[d].in) <= InLimit,
         g.port = 0 \/ (udp[d].open /\ g.own)
  PROVE  /\ GoodAll(Stor(d, g))
         /\ Len(Stor(d, g)[d].in) = Len(udp[d].in) + 1
         /\ \A x \in Devs : /\ Stor(d, g)[x].open = udp[x].open
                            /\ Stor(d, g)[x].port = udp[x].port
         /\ \A x \in Devs : x # d => Stor(d, g)[x].in = udp[x].in
<1> DEFINE u == udp[d]
           q == Append(u.in, g)
           n == IF u.in = <<>> THEN 1 ELSE u.iql + 1
           v == [u EXCEPT !.in = q, !.iql = n]
<1>1. u \in Device /\ Good(u)
    BY DEF GoodAll
<1>2. /\ q \in Seq(Dgram) /\ Len(q) = Len(u.in) + 1
      /\ \A i \in 1 .. Len(u.in) : q[i] = u.in[i]
      /\ q[Len(u.in) + 1] = g
    BY <1>1 DEF Device
<1>3. n = Len(q) /\ n \in Nat
    BY <1>1, <1>2 DEF Device, Good
<1>4. Stor(d, g) = [udp EXCEPT ![d] = v]
    BY DEF Stor, GoodAll
<1> HIDE DEF q, n
<1>5. /\ v \in Device /\ v.open = u.open /\ v.port = u.port
      /\ v.in = q /\ v.iql = n
    BY <1>1, <1>2, <1>3 DEF Device
<1>6. Good(v)
  <2>1. \A i \in 1 .. Len(q) : q[i].port = 0 \/ (u.open /\ q[i].own)
      BY <1>1, <1>2, SMTT(30) DEF Good, Device
  <2> HIDE DEF v
  <2> QED BY <1>1, <1>2, <1>3, <1>5, <2>1, Limits DEF Good
<1> HIDE DEF v
<1> QED BY <1>2, <1>4, <1>5, <1>6 DEF GoodAll

LEMMA OpenInv ==
  ASSUME Inv, NEW d \in Devs, Open(d)
  PROVE  Inv'
<1> DEFINE u == udp[d]
           q == [i \in DOMAIN u.in |-> [u.in[i] EXCEPT !.own = FALSE]]
           v == [u EXCEPT !.open = TRUE, !.in = q]
<1>1. u \in Device /\ Good(u) /\ ~u.open
    BY DEF Inv, GoodAll, Open
<1>2. \A i \in 1 .. Len(u.in) : u.in[i] \in Dgram
    BY <1>1 DEF Device
<1>3. \A i \in 1 .. Len(u.in) :
         [u.in[i] EXCEPT !.own = FALSE] \in Dgram
         /\ [u.in[i] EXCEPT !.own = FALSE].port = u.in[i].port
    BY <1>2 DEF Dgram
<1>4. Len(u.in) \in Nat /\ DOMAIN u.in = 1 .. Len(u.in)
    BY <1>1 DEF Device
<1>5. q \in Seq(Dgram) /\ Len(q) = Len(u.in)
    BY <1>3, <1>4
<1>6. \A i \in 1 .. Len(q) : q[i].port = 0
    BY <1>1, <1>3, <1>4, <1>5 DEF Good
<1> HIDE DEF q
<1>7. v \in Device /\ v.in = q /\ v.iql = u.iql /\ v.open
    BY <1>1, <1>5 DEF Device
<1>8. Good(v)
    BY <1>1, <1>5, <1>6, <1>7 DEF Good
<1>9. udp' = [udp EXCEPT ![d] = v] /\ main.pc = "idle" /\ main' = main
    BY DEF Open, q
<1> HIDE DEF v
<1> QED BY <1>7, <1>8, <1>9, DeviceInv

LEMMA BindInv ==
  ASSUME Inv, NEW d \in Devs, NEW port \in Ports, Bind(d, port)
  PROVE  Inv'
<1> DEFINE v == [udp[d] EXCEPT !.port = port]
<1>1. udp[d] \in Device /\ Good(udp[d]) /\ udp[d].open
    BY DEF Inv, GoodAll, Bind
<1>2. v \in Device /\ Good(v)
    BY <1>1 DEF Device, Good, AllPorts
<1>3. udp' = [udp EXCEPT ![d] = v] /\ main.pc = "idle" /\ main' = main
    BY DEF Bind
<1> HIDE DEF v
<1> QED BY <1>2, <1>3, DeviceInv

LEMMA ReadInv ==
  ASSUME Inv, NEW d \in Devs, Read(d)
  PROVE  Inv'
<1> DEFINE u == udp[d]
           q == Tail(u.in)
           v == [u EXCEPT !.in = q, !.iql = @ - 1]
           w == [udp EXCEPT ![d] = v]
<1>1. u \in Device /\ Good(u) /\ u.in # <<>> /\ main.pc = "idle" /\ main' = main
    BY DEF Inv, GoodAll, Read
<1>2. /\ q \in Seq(Dgram) /\ Len(q) = Len(u.in) - 1 /\ Len(u.in) \in Nat \ {0}
      /\ \A i \in 1 .. Len(q) : q[i] = u.in[i + 1]
    BY <1>1 DEF Device
<1> HIDE DEF q
<1>3. /\ v \in Device /\ v.in = q /\ v.iql = Len(q) /\ v.open = u.open
      /\ v.port = u.port
  <2> DEFINE a == [u EXCEPT !.in = q]
  <2>1. a \in Device /\ a.in = q /\ a.open = u.open /\ a.port = u.port
        /\ a.iql = u.iql
      BY <1>1, <1>2 DEF Device
  <2>2. u.iql - 1 = Len(q) /\ Len(q) \in Nat
      BY <1>1, <1>2 DEF Good, Device
  <2>3. v = [a EXCEPT !.iql = Len(q)]
      BY <2>1, <2>2
  <2> HIDE DEF a, v
  <2> QED BY <2>1, <2>2, <2>3 DEF Device
<1>4. \A i \in 1 .. Len(q) : q[i].port = 0 \/ (u.open /\ q[i].own)
    BY <1>1, <1>2 DEF Good
<1>5. Good(v)
  <2> HIDE DEF v
  <2> QED BY <1>1, <1>2, <1>3, <1>4, Limits DEF Good
<1>6. udp' = GivPd(w, Head(u.in).tag)
    BY DEF Read, q
<1> HIDE DEF v
<1>7. GoodAll(w)
    BY <1>3, <1>5 DEF Inv, GoodAll
<1> HIDE DEF w
<1>8. GoodAll(udp')
    BY <1>6, <1>7, GivPdInput, SameInputGood DEF GoodAll
<1> QED BY <1>1, <1>8 DEF Inv, MainOK

LEMMA ReleaseInv ==
  ASSUME Inv, NEW d \in Devs, Release(d)
  PROVE  Inv'
<1> DEFINE v == [udp[d] EXCEPT !.port = 0]
<1>1. udp[d] \in Device /\ Good(udp[d])
    BY DEF Inv, GoodAll
<1>2. v \in Device /\ Good(v)
    BY <1>1 DEF Device, Good, AllPorts
<1>3. udp' = [udp EXCEPT ![d] = v]
    BY DEF Release
<1>4. main' \in MainType /\ main'.pc = "rel" /\ main'.dev = d
    BY DEF Release, Go, MainType, Tag, AllPorts
<1> HIDE DEF v
<1>5. GoodAll(udp') /\ udp'[d] = v
    BY <1>2, <1>3 DEF Inv, GoodAll
<1>6. v.port = 0
    BY <1>1 DEF v, Device
<1> QED BY <1>4, <1>5, <1>6 DEF Inv, MainOK

LEMMA RelStepInv ==
  ASSUME Inv, RelStep
  PROVE  Inv'
<1> DEFINE d == main.dev
           u == udp[d]
           v == [u EXCEPT !.in = <<>>, !.iql = 0, !.open = FALSE]
           w == [udp EXCEPT ![d] = v]
<1>1. d \in Devs /\ u \in Device /\ Good(u) /\ u.port = 0
    BY DEF Inv, GoodAll, RelStep, MainOK
<1>2. v \in Device /\ v.in = <<>> /\ v.iql = 0 /\ ~v.open /\ v.port = 0
  <2>1. <<>> \in Seq(Dgram) /\ 0 \in Nat /\ FALSE \in BOOLEAN
      OBVIOUS
  <2> DEFINE a == [u EXCEPT !.in = <<>>]
             b == [a EXCEPT !.iql = 0]
  <2>2. a \in Device /\ a.in = <<>> /\ a.port = 0
      BY <1>1, <2>1 DEF Device
  <2> HIDE DEF a
  <2>3. b \in Device /\ b.in = <<>> /\ b.port = 0 /\ b.iql = 0
      BY <2>1, <2>2 DEF Device
  <2>4. v = [b EXCEPT !.open = FALSE]
      BY DEF a
  <2> HIDE DEF b, v
  <2> QED BY <2>3, <2>4 DEF Device
<1>3. Good(v)
  <2> HIDE DEF v
  <2> QED BY <1>2, Limits DEF Good
<1>4. w = [udp EXCEPT ![main.dev].in = <<>>, ![main.dev].iql = 0,
                      ![main.dev].open = FALSE]
    BY <1>1 DEF Inv, GoodAll
<1>5. udp' = GivAll(w, u.in) /\ Calm(main')
    BY <1>4, IdleCalm DEF RelStep
<1> HIDE DEF v
<1>6. GoodAll(w)
    BY <1>1, <1>2, <1>3 DEF Inv, GoodAll
<1>7. u.in \in Seq(Dgram)
    BY <1>1 DEF Device
<1> HIDE DEF w
<1>8. GoodAll(udp')
    BY <1>5, <1>6, <1>7, GivAllInput, SameInputGood DEF GoodAll
<1> QED BY <1>5, <1>8 DEF Inv, MainOK, Calm

\* To ourselves the datagram goes on only where the queue has room.
LEMMA SendInv ==
  ASSUME Inv, NEW d \in Devs, NEW to \in Hosts \cup {Self},
         NEW port \in AllPorts \ {0}, Send(d, to, port)
  PROVE  Inv'
<1> DEFINE t == Target(d, port)
           v == [udp[d] EXCEPT !.oql = @ + 1]
           out == [udp EXCEPT ![d] = v]
<1>1. /\ main.pc = "idle" /\ udp[d].port # 0
      /\ udp[d] \in Device /\ udp \in [Devs -> Device]
    BY DEF Send, MaySend, Inv, GoodAll
<1>2. v \in Device /\ SameInput(udp[d], v)
    BY <1>1 DEF Device, SameInput
<1>3. out = [udp EXCEPT ![d].oql = @ + 1]
    BY <1>1
<1> HIDE DEF v
<1>4. out \in [Devs -> Device] /\ \A x \in Devs : SameInput(udp[x], out[x])
    BY <1>1, <1>2 DEF SameInput
<1>5. \/ udp' = udp /\ main' = main
      \/ udp' = out /\ main' = main
      \/ udp' = out /\ Calm(main')
      \/ udp' = out /\ t # None /\ ~Full(t) /\ Go("stor", d, t, port)
    BY <1>3 DEF Send, ToUs, IcmpE, Go, Calm, MainType, Tag
<1> HIDE DEF out
<1>6. CASE udp' = udp /\ main' = main
    BY <1>6, QuietInv
<1>7. CASE udp' = out /\ (main' = main \/ Calm(main'))
    BY <1>4, <1>7, OutputInv
<1>8. CASE udp' = out /\ t # None /\ ~Full(t) /\ Go("stor", d, t, port)
  <2>1. t \in Devs /\ udp[t].port # 0
      BY <1>1, <1>8 DEF Target, Listener
  <2> HIDE DEF t
  <2>2. udp[t].open /\ udp[t].iql = Len(udp[t].in) /\ udp[t].iql \in Nat
      BY <2>1 DEF Inv, GoodAll, Good, Device
  <2>3. Len(udp[t].in) <= InLimit
      BY <1>8, <2>2, Limits DEF Full
  <2>4. main' = [pc |-> "stor", dev |-> d, to |-> t, port |-> port]
      BY <1>8 DEF Go
  <2>5. out[t].open /\ Len(out[t].in) <= InLimit
      BY <1>4, <2>1, <2>2, <2>3 DEF SameInput
  <2>6. MainOK'
      BY <1>8, <2>1, <2>4, <2>5 DEF MainOK, StorReady
  <2>7. main' \in MainType
      BY <2>1, <2>4 DEF MainType, Tag
  <2> QED BY <1>4, <1>8, <2>6, <2>7, SameInputGood DEF Inv
<1> QED BY <1>5, <1>6, <1>7, <1>8

LEMMA StorStepInv ==
  ASSUME Inv, StorStep
  PROVE  Inv'
<1> DEFINE g == [tag |-> main.dev, port |-> main.port, own |-> TRUE]
<1>1. StorReady /\ GoodAll(udp)
    BY DEF Inv, MainOK, StorStep
<1>2. g \in Dgram
    BY <1>1 DEF StorReady, Dgram, Tag
<1>3. udp' = Stor(main.to, g) /\ Calm(main')
    BY IdleCalm DEF StorStep
<1>4. g.own
    OBVIOUS
<1> HIDE DEF g
<1>5. GoodAll(udp')
    BY <1>1, <1>2, <1>3, <1>4, StorGood DEF StorReady
<1> QED BY <1>3, <1>5 DEF Inv, MainOK, Calm

LEMMA RxUdpInv ==
  ASSUME Inv, NEW h \in Hosts, NEW port \in AllPorts, RxUdp(h, port)
  PROVE  Inv'
<1> DEFINE t == Listener(port)
           g == [tag |-> None, port |-> port, own |-> udp[t].open]
<1>1. GoodAll(udp) /\ main' = main
    BY DEF Inv, RxUdp
<1>2. udp' = udp \/ (t # None /\ ~Full(t) /\ udp' = Stor(t, g))
    BY DEF RxUdp
<1>3. CASE udp' = udp
    BY <1>1, <1>3, QuietInv
<1>4. CASE t # None /\ ~Full(t) /\ udp' = Stor(t, g)
  <2>1. t \in Devs /\ udp[t].port = port
      BY <1>4 DEF Listener
  <2>2. /\ udp[t] \in Device /\ Good(udp[t])
      BY <1>1, <2>1 DEF GoodAll
  <2> HIDE DEF t
  <2>3. g \in Dgram /\ (g.port = 0 \/ (udp[t].open /\ g.own))
    <3>1. g \in Dgram
        BY <2>2 DEF Dgram, Tag, Device
    <3>2. ~udp[t].open => port = 0
        BY <2>1, <2>2 DEF Good
    <3> QED BY <3>1, <3>2
  <2> HIDE DEF g
  <2>4. Len(udp[t].in) \in Nat /\ Len(udp[t].in) < InLimit
      BY <1>4, <2>2, Limits DEF Full, Good, Device
  <2>5. /\ GoodAll(udp')
        /\ Len(udp'[t].in) = Len(udp[t].in) + 1
        /\ \A x \in Devs : udp'[x].open = udp[x].open /\ udp'[x].port = udp[x].port
        /\ \A x \in Devs : x # t => udp'[x].in = udp[x].in
      BY <1>1, <1>4, <2>1, <2>3, <2>4, StorGood, Limits
  <2>6. Len(udp'[t].in) <= InLimit
      BY <2>4, <2>5, Limits
  <2>7. MainOK'
      BY <1>1, <2>5, <2>6 DEF Inv, MainOK, StorReady
  <2> QED BY <1>1, <2>5, <2>7 DEF Inv
<1> QED BY <1>2, <1>3, <1>4

\* The steps that give the packet of the main program back, or one that the
\* UNA has sent.
LEMMA GivStepInv ==
  ASSUME Inv, NEW tag, udp' = GivPd(udp, tag),
         main' = main \/ Calm(main')
  PROVE  Inv'
  BY GivPdInput, OutputInv DEF Inv, GoodAll

LEMMA GoCalm ==
  ASSUME NEW m \in MainType, NEW pc \in {"snd", "ask", "getab", "sec", "giv", "cla"}
  PROVE  Calm([m EXCEPT !.pc = pc])
  BY DEF Calm, MainType

LEMMA DropInv == ASSUME Inv, Drop PROVE Inv'
  BY GivStepInv, IdleCalm DEF Drop

LEMMA FndStepInv == ASSUME Inv, FndStep PROVE Inv'
<1>1. \/ Drop
      \/ udp' = udp /\ main' = [main EXCEPT !.pc = "snd"]
      \/ udp' = udp /\ main' = [main EXCEPT !.pc = "ask"]
    BY DEF FndStep
<1>2. Calm([main EXCEPT !.pc = "snd"]) /\ Calm([main EXCEPT !.pc = "ask"])
    BY GoCalm DEF Inv
<1>3. Drop \/ (udp' = udp /\ Calm(main'))
    BY <1>1, <1>2
<1>4. CASE Drop
    BY <1>4, DropInv
<1>5. CASE udp' = udp /\ Calm(main')
    BY <1>5, QuietInv
<1> QED BY <1>3, <1>4, <1>5

\* The steps of the main program that do not touch a device.
LEMMA WalkInv ==
  ASSUME Inv, AskStep \/ SndStep \/ SecStep \/ SecGiv \/ ClaStep \/ Tick \/ Clear
  PROVE  Inv'
<1>1. udp' = udp
    BY DEF AskStep, SndStep, SecStep, SecGiv, ClaStep, Tick, Clear, ipVars
<1>2. \/ main' = main \/ main' = Idle
      \/ \E pc \in {"getab", "sec", "giv"} : main' = [main EXCEPT !.pc = pc]
      \/ Go("sec", None, None, 0) \/ Go("cla", None, None, 0)
    BY DEF AskStep, SndStep, SecStep, SecGiv, ClaStep, Tick, Clear, SecNext
<1>3. ASSUME NEW pc \in {"sec", "cla"}, Go(pc, None, None, 0)
      PROVE  Calm(main')
    BY <1>3 DEF Go, Calm, MainType, Tag, AllPorts
<1>4. main' = main \/ Calm(main')
    BY <1>2, <1>3, GoCalm, IdleCalm DEF Inv
<1> QED BY <1>1, <1>4, QuietInv

LEMMA MainStepInv == ASSUME Inv, MainStep PROVE Inv'
<1>1. CASE StorStep
    BY <1>1, StorStepInv
<1>2. CASE FndStep
    BY <1>2, FndStepInv
<1>3. CASE GetAbStep
    BY <1>3, DropInv DEF GetAbStep
<1>4. CASE RelStep
    BY <1>4, RelStepInv
<1>5. CASE AskStep \/ SndStep \/ SecStep \/ SecGiv \/ ClaStep
    BY <1>5, WalkInv
<1> QED BY <1>1, <1>2, <1>3, <1>4, <1>5 DEF MainStep

-----------------------------------------------------------------------------
LEMMA InvInit == Init => Inv
<1> SUFFICES ASSUME Init PROVE Inv
    OBVIOUS
<1>1. main \in MainType /\ MainOK
    BY IdleCalm DEF Init, Calm, MainOK
<1> DEFINE u == [open |-> FALSE, port |-> 0, in |-> <<>>, iql |-> 0, oql |-> 0]
<1>2. u \in Device /\ Good(u)
    BY Limits DEF Device, Good, AllPorts
<1>3. udp = [d \in Devs |-> u]
    BY DEF Init
<1> HIDE DEF u
<1> QED BY <1>1, <1>2, <1>3 DEF Inv, GoodAll

LEMMA InvStep == Inv /\ [Next]_vars => Inv'
<1> SUFFICES ASSUME Inv, [Next]_vars PROVE Inv'
    OBVIOUS
<1>1. CASE UNCHANGED vars
    BY <1>1, QuietInv DEF vars
<1>2. ASSUME NEW d \in Devs, Open(d) PROVE Inv'
    BY <1>2, OpenInv
<1>3. ASSUME NEW d \in Devs, Read(d) PROVE Inv'
    BY <1>3, ReadInv
<1>4. ASSUME NEW d \in Devs, Release(d) PROVE Inv'
    BY <1>4, ReleaseInv
<1>5. ASSUME NEW d \in Devs, NEW p \in Ports, Bind(d, p) PROVE Inv'
    BY <1>5, BindInv
<1>6. ASSUME NEW d \in Devs, NEW to \in Hosts \cup {Self}, NEW p \in AllPorts \ {0},
             Send(d, to, p)
      PROVE  Inv'
    BY <1>6, SendInv
<1>7. CASE Tick \/ Clear
    BY <1>7, WalkInv
<1>8. CASE MainStep
    BY <1>8, MainStepInv
<1>9. CASE TxDone
    BY <1>9, GivStepInv DEF TxDone
<1>10. ASSUME NEW h \in Hosts, NEW e \in Eths, RxArp(h, e) PROVE Inv'
    BY <1>10, QuietInv DEF RxArp
<1>11. ASSUME NEW h \in Hosts, NEW p \in AllPorts, RxUdp(h, p) PROVE Inv'
    BY <1>11, RxUdpInv
<1> QED
    BY <1>1, <1>2, <1>3, <1>4, <1>5, <1>6, <1>7, <1>8, <1>9, <1>10, <1>11 DEF Next

LEMMA InvAlways == Spec => []Inv
  BY InvInit, InvStep, PTL DEF Spec

-----------------------------------------------------------------------------
\* udpiql is the length of the input queue, which never exceeds its limit by
\* more than one, whatever comes in between U.STOR's look and its queueing.
THEOREM InputsCounted == Spec => []InputCounted
<1>1. Inv => InputCounted
    BY DEF Inv, GoodAll, Good, InputCounted
<1> QED BY <1>1, InvAlways, PTL

\* A user is given only what came for him, or for port 0 (U.REL, UDPIN).
THEOREM InputsOwned == Spec => []OwnInput
<1>1. Inv => OwnInput
    BY DEF Inv, GoodAll, Good, OwnInput
<1> QED BY <1>1, InvAlways, PTL
-----------------------------------------------------------------------------
(* The ARP cache. *)

\* Where the pointer of a walk stands.
Walking ==
  /\ left \in Nat /\ left <= Len(arlst)
  /\ main.pc \notin {"sec", "giv", "cla"} => left = 0
  /\ main.pc \in {"sec", "giv"} => left # 0
  /\ main.pc = "cla" => gone # <<>> \/ left # 0
  /\ main.pc \in {"fnd", "ask", "getab"} => main.to \in Hosts

ArpInv == ArpTypeOK /\ FreshAnswer /\ Walking

LEMMA Ttl == ArTtl \in Int /\ ArItl \in Int /\ None \notin Eths /\ None \notin Hosts
  BY ArpAssumption DEF ArpAssumption

-----------------------------------------------------------------------------
\* A set of positions has a first one.
LEMMA FirstOf ==
  ASSUME NEW S \in SUBSET Nat, S # {}
  PROVE  \E i \in S : \A j \in S : i <= j
<1>1. PICK i \in S : \A j \in S : ~(<<j, i>> \in OpToRel(<, Nat))
    BY NatLessThanWellFounded, WFMin
<1>2. \A j \in S : ~(j < i)
    BY <1>1 DEF OpToRel
<1> QED BY <1>2

\* ARPLUK finds the first block of a host.
LEMMA Lookup ==
  ASSUME NEW list \in Seq(Block), NEW h
  PROVE  \/ /\ ArpLuk(list, h) = 0
            /\ \A i \in 1 .. Len(list) : list[i].ipa # h
         \/ /\ ArpLuk(list, h) \in 1 .. Len(list)
            /\ list[ArpLuk(list, h)].ipa = h
            /\ \A i \in 1 .. Len(list) : list[i].ipa = h => ArpLuk(list, h) <= i
<1> DEFINE found == {i \in 1 .. Len(list) : list[i].ipa = h}
<1>1. CASE found = {}
    BY <1>1 DEF ArpLuk
<1>2. CASE found # {}
  <2>. found \in SUBSET Nat
      OBVIOUS
  <2>1. \E i \in found : \A j \in found : i <= j
      BY <1>2, FirstOf
  <2>2. ArpLuk(list, h) = CHOOSE i \in found : \A j \in found : i <= j
      BY <1>2 DEF ArpLuk
  <2>3. /\ ArpLuk(list, h) \in found
        /\ \A j \in found : ArpLuk(list, h) <= j
      BY <2>1, <2>2
  <2> QED BY <2>3
<1> QED BY <1>1, <1>2

\* A block in front of a list.
LEMMA PutFront ==
  ASSUME NEW list \in Seq(Block), NEW b \in Block
  PROVE  /\ <<b>> \o list \in Seq(Block)
         /\ Len(<<b>> \o list) = Len(list) + 1
         /\ (<<b>> \o list)[1] = b
         /\ \A i \in 1 .. Len(list) : (<<b>> \o list)[i + 1] = list[i]
         /\ \A j \in 2 .. Len(list) + 1 : (<<b>> \o list)[j] = list[j - 1]
  OBVIOUS

\* What FreshAnswer says of one host.
FreshOf(list, h, e) == \E i \in Whole(list, h) : Newest(list, i) /\ list[i].eth = e

\* A first complete block, by its position.
LEMMA FreshAt ==
  ASSUME NEW list \in Seq(Block), NEW h, NEW e
  PROVE  FreshOf(list, h, e) <=>
           \E i \in 1 .. Len(list) :
              /\ list[i].ipa = h /\ ~list[i].ic /\ list[i].eth = e
              /\ \A j \in 1 .. Len(list) : list[j].ipa = h /\ ~list[j].ic => i <= j
  BY DEF FreshOf, Newest, Whole

\* An incomplete block, or one of another host, in front changes nothing.
LEMMA FreshFront ==
  ASSUME NEW list \in Seq(Block), NEW b \in Block, NEW h, NEW e,
         FreshOf(list, h, e), b.ic \/ b.ipa # h
  PROVE  FreshOf(<<b>> \o list, h, e)
<1> DEFINE new == <<b>> \o list
<1>1. PICK i \in 1 .. Len(list) :
         /\ list[i].ipa = h /\ ~list[i].ic /\ list[i].eth = e
         /\ \A j \in 1 .. Len(list) : list[j].ipa = h /\ ~list[j].ic => i <= j
    BY FreshAt
<1>2. /\ new \in Seq(Block) /\ Len(new) = Len(list) + 1 /\ new[1] = b
      /\ new[i + 1] = list[i]
      /\ \A j \in 2 .. Len(list) + 1 : new[j] = list[j - 1]
    BY PutFront
<1> HIDE DEF new
<1>3. ASSUME NEW j \in 1 .. Len(new), new[j].ipa = h, ~new[j].ic
      PROVE  i + 1 <= j
  <2>1. j # 1 /\ j \in 2 .. Len(list) + 1
      BY <1>2, <1>3
  <2>2. j - 1 \in 1 .. Len(list) /\ new[j] = list[j - 1]
      BY <1>2, <2>1
  <2> QED BY <1>1, <1>3, <2>2
<1>4. i + 1 \in 1 .. Len(new)
    BY <1>2
<1>5. FreshOf(new, h, e)
    BY <1>1, <1>2, <1>3, <1>4, FreshAt
<1> QED BY <1>5 DEF new

\* A complete block of the host in front is the one.
LEMMA FreshNew ==
  ASSUME NEW list \in Seq(Block), NEW b \in Block, ~b.ic
  PROVE  FreshOf(<<b>> \o list, b.ipa, b.eth)
<1> DEFINE new == <<b>> \o list
<1>1. /\ new \in Seq(Block) /\ Len(new) = Len(list) + 1
      /\ new[1] = b /\ Len(list) \in Nat
    BY PutFront
<1> HIDE DEF new
<1>2. 1 \in 1 .. Len(new) /\ \A j \in 1 .. Len(new) : 1 <= j
    BY <1>1
<1>3. FreshOf(new, b.ipa, b.eth)
    BY <1>1, <1>2, FreshAt
<1> QED BY <1>3 DEF new

\* A block that is replaced by one with the same host, flag and address.
LEMMA FreshSame ==
  ASSUME NEW list \in Seq(Block), NEW k \in 1 .. Len(list), NEW b \in Block, NEW h, NEW e,
         b.ipa = list[k].ipa, h # b.ipa \/ (b.ic = list[k].ic /\ b.eth = list[k].eth),
         FreshOf(list, h, e)
  PROVE  FreshOf([list EXCEPT ![k] = b], h, e)
<1> DEFINE new == [list EXCEPT ![k] = b]
<1>1. /\ new \in Seq(Block) /\ Len(new) = Len(list) /\ new[k] = b
      /\ \A j \in 1 .. Len(list) : j # k => new[j] = list[j]
    OBVIOUS
<1>2. PICK i \in 1 .. Len(list) :
         /\ list[i].ipa = h /\ ~list[i].ic /\ list[i].eth = e
         /\ \A j \in 1 .. Len(list) : list[j].ipa = h /\ ~list[j].ic => i <= j
    BY FreshAt
<1> HIDE DEF new
<1>3. FreshOf(new, h, e)
    BY <1>1, <1>2, FreshAt, SMTT(30)
<1> QED BY <1>3 DEF new

\* The first block of the host becomes a complete one.
LEMMA FreshStored ==
  ASSUME NEW list \in Seq(Block), NEW k \in 1 .. Len(list), NEW b \in Block, ~b.ic,
         \A i \in 1 .. Len(list) : list[i].ipa = b.ipa => k <= i
  PROVE  FreshOf([list EXCEPT ![k] = b], b.ipa, b.eth)
<1> DEFINE new == [list EXCEPT ![k] = b]
<1>1. /\ new \in Seq(Block) /\ Len(new) = Len(list) /\ new[k] = b
      /\ \A j \in 1 .. Len(list) : j # k => new[j] = list[j]
    OBVIOUS
<1> HIDE DEF new
<1>2. FreshOf(new, b.ipa, b.eth)
    BY <1>1, FreshAt
<1> QED BY <1>2 DEF new

\* A list without its block k.
LEMMA Without ==
  ASSUME NEW list \in Seq(Block), NEW k \in 1 .. Len(list)
  PROVE  /\ RemoveAt(list, k) \in Seq(Block)
         /\ Len(RemoveAt(list, k)) = Len(list) - 1
         /\ \A i \in 1 .. Len(list) - 1 :
              RemoveAt(list, k)[i] = IF i < k THEN list[i] ELSE list[i + 1]
<1> DEFINE a == SubSeq(list, 1, k - 1)
           b == SubSeq(list, k + 1, Len(list))
<1>1. /\ a \in Seq(Block) /\ Len(a) = k - 1
      /\ \A i \in 1 .. k - 1 : a[i] = list[i]
    BY SubSeqProperties
<1>2. /\ b \in Seq(Block) /\ Len(b) = Len(list) - k
      /\ \A i \in 1 .. Len(list) - k : b[i] = list[k + i]
    BY SubSeqProperties
<1>3. RemoveAt(list, k) = a \o b
    BY DEF RemoveAt
<1> HIDE DEF a, b
<1>4. /\ a \o b \in Seq(Block) /\ Len(a \o b) = Len(list) - 1
      /\ \A i \in 1 .. Len(list) - 1 :
           (a \o b)[i] = IF i <= k - 1 THEN a[i] ELSE b[i - (k - 1)]
    BY <1>1, <1>2, ConcatProperties
<1>5. ASSUME NEW i \in 1 .. Len(list) - 1
      PROVE  (a \o b)[i] = IF i < k THEN list[i] ELSE list[i + 1]
  <2>1. CASE i < k
      BY <1>1, <1>4, <2>1
  <2>2. CASE ~(i < k)
    <3>1. i - (k - 1) \in 1 .. Len(list) - k /\ k + (i - (k - 1)) = i + 1
        BY <2>2
    <3> QED BY <1>2, <1>4, <2>2, <3>1
  <2> QED BY <2>1, <2>2
<1> QED BY <1>3, <1>4, <1>5

\* A block is taken out that is not the first complete one of the host.
LEMMA FreshRemoved ==
  ASSUME NEW list \in Seq(Block), NEW k \in 1 .. Len(list), NEW h, NEW e,
         FreshOf(list, h, e), h # list[k].ipa \/ ~Newest(list, k)
  PROVE  FreshOf(RemoveAt(list, k), h, e)
<1> DEFINE new == RemoveAt(list, k)
<1>1. /\ new \in Seq(Block) /\ Len(new) = Len(list) - 1
      /\ \A i \in 1 .. Len(list) - 1 : new[i] = IF i < k THEN list[i] ELSE list[i + 1]
    BY Without
<1>2. PICK i \in 1 .. Len(list) :
         /\ list[i].ipa = h /\ ~list[i].ic /\ list[i].eth = e
         /\ \A j \in 1 .. Len(list) : list[j].ipa = h /\ ~list[j].ic => i <= j
    BY FreshAt
<1>3. i # k
    BY <1>2 DEF Newest, Whole
<1> HIDE DEF new
<1> DEFINE at == IF i < k THEN i ELSE i - 1
<1>4. at \in 1 .. Len(new) /\ new[at] = list[i]
    BY <1>1, <1>3
<1>5. ASSUME NEW j \in 1 .. Len(new), new[j].ipa = h, ~new[j].ic
      PROVE  at <= j
  <2>1. CASE j < k
    <3>1. j \in 1 .. Len(list) /\ new[j] = list[j]
        BY <1>1, <2>1
    <3>2. i <= j
        BY <1>2, <1>5, <3>1
    <3> QED BY <3>2
  <2>2. CASE ~(j < k)
    <3>1. j + 1 \in 1 .. Len(list) /\ new[j] = list[j + 1]
        BY <1>1, <2>2
    <3>2. i <= j + 1
        BY <1>2, <1>5, <3>1
    <3> QED BY <3>2, <2>2, <1>3
  <2> QED BY <2>1, <2>2
<1> HIDE DEF at
<1>6. FreshOf(new, h, e)
    BY <1>1, <1>2, <1>4, <1>5, FreshAt
<1> QED BY <1>6 DEF new
-----------------------------------------------------------------------------
\* The operations on the list.

LEMMA FreshAnswerOf ==
  FreshAnswer <=> \A h \in Hosts : last[h] # None => FreshOf(arlst, h, last[h])
  BY DEF FreshAnswer, FreshOf

LEMMA GetAbFresh ==
  ASSUME ArpTypeOK, FreshAnswer, NEW h \in Hosts, GetAb(h), UNCHANGED <<gone, last>>
  PROVE  ArpTypeOK' /\ FreshAnswer' /\ Len(arlst') = Len(arlst) + 1
<1>1. Infant(h) \in Block /\ Infant(h).ic
    BY Ttl DEF Infant, Block
<1>2. arlst \in Seq(Block) /\ arlst' = <<Infant(h)>> \o arlst
    BY DEF ArpTypeOK, GetAb
<1>3. arlst' \in Seq(Block) /\ Len(arlst') = Len(arlst) + 1
    BY <1>1, <1>2, PutFront
<1>4. ArpTypeOK'
    BY <1>3 DEF ArpTypeOK, GetAb
<1>5. ASSUME NEW x \in Hosts, last'[x] # None
      PROVE  FreshOf(arlst', x, last'[x])
  <2>1. FreshOf(arlst, x, last[x])
      BY <1>5, FreshAnswerOf
  <2> QED BY <1>1, <1>2, <2>1, FreshFront
<1>6. FreshAnswer'
    BY <1>5 DEF FreshAnswer, FreshOf
<1> QED BY <1>3, <1>4, <1>6

LEMMA StoreFresh ==
  ASSUME ArpTypeOK, FreshAnswer, NEW h \in Hosts, NEW e \in Eths, Store(h, e),
         UNCHANGED gone
  PROVE  ArpTypeOK' /\ FreshAnswer' /\ Len(arlst') >= Len(arlst)
<1> DEFINE k == ArpLuk(arlst, h)
           b == [ipa |-> h, eth |-> e, ttl |-> ArTtl, ic |-> FALSE]
<1>1. b \in Block /\ ~b.ic /\ b.ipa = h /\ b.eth = e
    BY Ttl DEF Block
<1>2. /\ arlst \in Seq(Block) /\ arcnt \in Int /\ gone \in Seq(Block)
      /\ last \in [Hosts -> Eths \cup {None}]
    BY DEF ArpTypeOK
<1>3. last' = [last EXCEPT ![h] = e]
    BY DEF Store
<1>4. last' \in [Hosts -> Eths \cup {None}] /\ last'[h] = e
      /\ \A x \in Hosts \ {h} : last'[x] = last[x]
    BY <1>2, <1>3
<1>5. ASSUME NEW x \in Hosts \ {h}, last'[x] # None
      PROVE  FreshOf(arlst, x, last'[x])
    BY <1>4, <1>5, FreshAnswerOf
<1>6. CASE k # 0
  <2>1. /\ k \in 1 .. Len(arlst) /\ arlst[k].ipa = h
        /\ \A i \in 1 .. Len(arlst) : arlst[i].ipa = h => k <= i
      BY <1>2, <1>6, Lookup
  <2>2. arlst' = [arlst EXCEPT ![k] = b] /\ arcnt' = arcnt
      BY <1>6 DEF Store
  <2> HIDE DEF k, b
  <2>3. FreshOf(arlst', h, e)
      BY <1>1, <1>2, <2>1, <2>2, FreshStored
  <2>4. ASSUME NEW x \in Hosts \ {h}, last'[x] # None
        PROVE  FreshOf(arlst', x, last'[x])
      BY <1>1, <1>2, <1>5, <2>1, <2>2, <2>4, FreshSame
  <2>5. FreshAnswer'
      BY <1>4, <2>3, <2>4 DEF FreshAnswer, FreshOf
  <2>6. arlst' \in Seq(Block) /\ Len(arlst') = Len(arlst)
      BY <1>1, <1>2, <2>1, <2>2
  <2> QED BY <1>2, <1>4, <2>2, <2>5, <2>6 DEF ArpTypeOK
<1>7. CASE k = 0
  <2>1. arlst' = <<b>> \o arlst /\ arcnt' = arcnt + 1
      BY <1>7 DEF Store
  <2> HIDE DEF k, b
  <2>2. FreshOf(arlst', h, e)
      BY <1>1, <1>2, <2>1, FreshNew
  <2>3. ASSUME NEW x \in Hosts \ {h}, last'[x] # None
        PROVE  FreshOf(arlst', x, last'[x])
      BY <1>1, <1>2, <1>5, <2>1, <2>3, FreshFront
  <2>4. FreshAnswer'
      BY <1>4, <2>2, <2>3 DEF FreshAnswer, FreshOf
  <2>5. arlst' \in Seq(Block) /\ Len(arlst') = Len(arlst) + 1
      BY <1>1, <1>2, <2>1, PutFront
  <2> QED BY <1>2, <1>4, <2>1, <2>4, <2>5 DEF ArpTypeOK
<1> QED BY <1>6, <1>7

LEMMA GivAbFresh ==
  ASSUME ArpTypeOK, FreshAnswer, NEW k \in 1 .. Len(arlst), GivAb(k), UNCHANGED gone
  PROVE  ArpTypeOK' /\ FreshAnswer' /\ Len(arlst') = Len(arlst) - 1
<1>1. /\ arlst \in Seq(Block) /\ arcnt \in Int /\ gone \in Seq(Block)
      /\ last \in [Hosts -> Eths \cup {None}]
    BY DEF ArpTypeOK
<1>2. arlst' = RemoveAt(arlst, k) /\ arcnt' = arcnt - 1
    BY DEF GivAb
<1>3. arlst' \in Seq(Block) /\ Len(arlst') = Len(arlst) - 1
    BY <1>1, <1>2, Without
<1>4. arlst[k] \in Block
    BY <1>1
<1>5. arlst[k].ipa \in Hosts
    BY <1>4 DEF Block
<1>6. last' \in [Hosts -> Eths \cup {None}]
    BY <1>1, <1>5 DEF GivAb
<1>7. ASSUME NEW x \in Hosts, last'[x] # None
      PROVE  last'[x] = last[x] /\ (x # arlst[k].ipa \/ ~Newest(arlst, k))
  <2>1. CASE Newest(arlst, k)
    <3>1. last' = [last EXCEPT ![arlst[k].ipa] = None]
        BY <2>1 DEF GivAb
    <3> QED BY <1>1, <1>5, <1>7, <3>1
  <2>2. CASE ~Newest(arlst, k)
      BY <2>2 DEF GivAb
  <2> QED BY <2>1, <2>2
<1>8. ASSUME NEW x \in Hosts, last'[x] # None
      PROVE  FreshOf(arlst', x, last'[x])
  <2>1. FreshOf(arlst, x, last[x])
      BY <1>7, <1>8, FreshAnswerOf
  <2> QED BY <1>1, <1>2, <1>7, <1>8, <2>1, FreshRemoved
<1>9. FreshAnswer'
    BY <1>8 DEF FreshAnswer, FreshOf
<1> QED BY <1>1, <1>2, <1>3, <1>6, <1>9 DEF ArpTypeOK

LEMMA WithTtl ==
  ASSUME NEW r \in Block, NEW n \in Int
  PROVE  LET b == [r EXCEPT !.ttl = n]
         IN b \in Block /\ b.ipa = r.ipa /\ b.ic = r.ic /\ b.eth = r.eth
  BY DEF Block

LEMMA DecrementFresh ==
  ASSUME ArpTypeOK, FreshAnswer, NEW k \in 1 .. Len(arlst), Decrement(k),
         UNCHANGED <<arcnt, gone, last>>
  PROVE  ArpTypeOK' /\ FreshAnswer' /\ Len(arlst') = Len(arlst)
<1> DEFINE b == [arlst[k] EXCEPT !.ttl = @ - 1]
<1>1. /\ arlst \in Seq(Block) /\ arlst[k] \in Block
      /\ arlst' = [arlst EXCEPT ![k] = b]
    BY DEF ArpTypeOK, Decrement
<1>2. /\ b \in Block /\ b.ipa = arlst[k].ipa /\ b.ic = arlst[k].ic
      /\ b.eth = arlst[k].eth
  <2>1. arlst[k].ttl - 1 \in Int
      BY <1>1 DEF Block
  <2> QED BY <1>1, <2>1, WithTtl
<1> HIDE DEF b
<1>3. arlst' \in Seq(Block) /\ Len(arlst') = Len(arlst)
    BY <1>1, <1>2
<1>4. ASSUME NEW x \in Hosts, last'[x] # None
      PROVE  FreshOf(arlst', x, last'[x])
  <2>1. FreshOf(arlst, x, last[x])
      BY <1>4, FreshAnswerOf
  <2> QED BY <1>1, <1>2, <2>1, FreshSame
<1>5. FreshAnswer'
    BY <1>4 DEF FreshAnswer, FreshOf
<1> QED BY <1>3, <1>5 DEF ArpTypeOK

\* Nothing is known once ARPCLA has begun.
LEMMA ClearFresh ==
  ASSUME ArpTypeOK, arlst' \in Seq(Block), gone' \in Seq(Block), arcnt' \in Int,
         last' = [h \in Hosts |-> None]
  PROVE  ArpTypeOK' /\ FreshAnswer'
  BY DEF ArpTypeOK, FreshAnswer

-----------------------------------------------------------------------------
\* The steps of the main program and the interrupts.

\* The main program at another place.
LEMMA Placed ==
  ASSUME NEW m \in MainType, NEW pc
  PROVE  [m EXCEPT !.pc = pc].pc = pc /\ [m EXCEPT !.pc = pc].to = m.to
  BY DEF MainType

\* Nothing happens to the list.
LEMMA StillInv ==
  ASSUME ArpInv, UNCHANGED arpVars, Walking'
  PROVE  ArpInv'
  BY DEF ArpInv, ArpTypeOK, FreshAnswer, Whole, Newest, arpVars

\* The main program is not on a walk, before and after.
LEMMA CalmWalk ==
  ASSUME Walking, UNCHANGED <<arpVars, left>>,
         main.pc \notin {"sec", "giv", "cla"}, main'.pc \notin {"sec", "giv", "cla"},
         main'.pc \in {"fnd", "ask", "getab"} => main'.to \in Hosts
  PROVE  Walking'
  BY DEF Walking, arpVars

\* What an interrupt puts in front does not move the pointer.
LEMMA GrowWalk ==
  ASSUME Walking, arlst \in Seq(Block), arlst' \in Seq(Block), Len(arlst') >= Len(arlst),
         UNCHANGED <<main, left, gone>>
  PROVE  Walking'
<1>1. Len(arlst) \in Nat /\ Len(arlst') \in Nat /\ left \in Nat /\ left <= Len(arlst)
    BY DEF Walking
<1>2. left <= Len(arlst')
    BY <1>1
<1> QED BY <1>1, <1>2 DEF Walking

\* The calls of the users, and the steps that leave the list alone.
LEMMA UserInv ==
  ASSUME Inv, ArpInv,
         \/ \E d \in Devs : \/ Open(d) \/ Read(d) \/ Release(d)
                            \/ \E p \in Ports : Bind(d, p)
                            \/ \E to \in Hosts \cup {Self}, p \in AllPorts \ {0} :
                                 Send(d, to, p)
         \/ StorStep \/ FndStep \/ AskStep \/ SndStep \/ RelStep
         \/ TxDone \/ UNCHANGED vars
  PROVE  ArpInv'
<1> DEFINE Elsewhere == /\ main.pc \notin {"sec", "giv", "cla"}
                        /\ main'.pc \notin {"sec", "giv", "cla"}
                        /\ main'.pc \in {"fnd", "ask", "getab"} => main'.to \in Hosts
<1>1. UNCHANGED <<arpVars, left>>
    BY DEF Open, Read, Release, Bind, Send, StorStep, FndStep, AskStep, SndStep,
           RelStep, TxDone, vars, arpVars
<1>2. main' = main \/ Elsewhere
  <2>1. ASSUME NEW d \in Devs, NEW to \in Hosts \cup {Self}, NEW p \in AllPorts \ {0},
               Send(d, to, p)
        PROVE  main' = main \/ Elsewhere
      BY <2>1 DEF Send, ToUs, Go
  <2>2. ASSUME NEW d \in Devs, Release(d) PROVE Elsewhere
      BY <2>2 DEF Release, Go
  <2>3. CASE StorStep \/ SndStep \/ RelStep
      BY <2>3 DEF StorStep, SndStep, RelStep, Idle
  <2>4. CASE FndStep \/ AskStep
    <3>1. main \in MainType /\ (main.pc \in {"fnd", "ask"} => main.to \in Hosts)
        BY DEF Inv, ArpInv, Walking
    <3>2. main.pc \in {"fnd", "ask"}
        BY <2>4 DEF FndStep, AskStep
    <3>3. main' = Idle \/ \E pc \in {"snd", "ask", "getab"} : main' = [main EXCEPT !.pc = pc]
        BY <2>4 DEF FndStep, AskStep, Drop
    <3>4. CASE main' = Idle
        BY <3>2, <3>4 DEF Idle
    <3>5. ASSUME NEW pc \in {"snd", "ask", "getab"}, main' = [main EXCEPT !.pc = pc]
          PROVE  Elsewhere
      <4>1. main'.pc = pc /\ main'.to = main.to
          BY <3>1, <3>5, Placed
      <4> QED BY <3>1, <3>2, <4>1
    <3> QED BY <3>3, <3>4, <3>5
  <2>5. ASSUME NEW d \in Devs, Open(d) \/ Read(d) \/ \E p \in Ports : Bind(d, p)
        PROVE  main' = main
    <3>1. ASSUME NEW p \in Ports, Bind(d, p) PROVE main' = main
        BY <3>1 DEF Bind
    <3>2. ASSUME Open(d) \/ Read(d) PROVE main' = main
        BY <3>2 DEF Open, Read
    <3> QED BY <2>5, <3>1, <3>2
  <2>6. CASE TxDone \/ UNCHANGED vars
      BY <2>6 DEF TxDone, vars
  <2> QED BY <2>1, <2>2, <2>3, <2>4, <2>5, <2>6
<1>3. CASE main' = main
    BY <1>1, <1>3, StillInv DEF ArpInv, Walking, arpVars
<1>4. CASE main' # main
  <2>1. Walking'
      BY <1>1, <1>2, <1>4, CalmWalk DEF ArpInv
  <2> QED BY <1>1, <2>1, StillInv DEF arpVars
<1> QED BY <1>3, <1>4

\* The query is out: its block is added.
LEMMA GetAbInv ==
  ASSUME Inv, ArpInv, GetAbStep
  PROVE  ArpInv'
<1>1. /\ main.pc = "getab" /\ main.to \in Hosts /\ left = 0
      /\ arlst \in Seq(Block)
    BY DEF GetAbStep, ArpInv, Walking, ArpTypeOK
<1>2. main' = Idle /\ UNCHANGED <<gone, last, left>>
    BY DEF GetAbStep, Drop
<1>3. CASE GetAb(main.to)
  <2>1. ArpTypeOK' /\ FreshAnswer'
      BY <1>1, <1>2, <1>3, GetAbFresh DEF ArpInv
  <2>2. Walking'
      BY <1>1, <1>2, <2>1 DEF Walking, Idle, ArpTypeOK
  <2> QED BY <2>1, <2>2 DEF ArpInv
<1>4. CASE UNCHANGED <<arlst, arcnt>>
  <2>1. Walking'
      BY <1>1, <1>2, <1>4 DEF Walking, Idle
  <2> QED BY <1>2, <1>4, <2>1, StillInv DEF arpVars
<1> QED BY <1>3, <1>4 DEF GetAbStep

\* A reply or a query of another host, or an answer that asks for an address.
LEMMA RxInv ==
  ASSUME Inv, ArpInv,
         \/ \E h \in Hosts, e \in Eths : RxArp(h, e)
         \/ \E h \in Hosts, p \in AllPorts : RxUdp(h, p)
  PROVE  ArpInv'
<1>1. UNCHANGED <<main, left, gone>> /\ arlst \in Seq(Block)
    BY DEF RxArp, RxUdp, ArpInv, ArpTypeOK
<1>2. \/ \E h \in Hosts, e \in Eths : Store(h, e)
      \/ \E h \in Hosts : GetAb(h) /\ last' = last
      \/ UNCHANGED arpVars
    BY <1>1 DEF RxArp, RxUdp, Answer, arpVars
<1>3. ASSUME NEW h \in Hosts, NEW e \in Eths, Store(h, e) PROVE ArpInv'
  <2>1. ArpTypeOK' /\ FreshAnswer' /\ Len(arlst') >= Len(arlst)
      BY <1>1, <1>3, StoreFresh DEF ArpInv
  <2>2. arlst' \in Seq(Block)
      BY <2>1 DEF ArpTypeOK
  <2> QED BY <1>1, <2>1, <2>2, GrowWalk DEF ArpInv
<1>4. ASSUME NEW h \in Hosts, GetAb(h), last' = last PROVE ArpInv'
  <2>1. ArpTypeOK' /\ FreshAnswer' /\ Len(arlst') = Len(arlst) + 1
      BY <1>1, <1>4, GetAbFresh DEF ArpInv
  <2>2. arlst' \in Seq(Block) /\ Len(arlst') >= Len(arlst)
      BY <1>1, <2>1 DEF ArpTypeOK
  <2> QED BY <1>1, <2>1, <2>2, GrowWalk DEF ArpInv
<1>5. CASE UNCHANGED arpVars
    BY <1>1, <1>5, StillInv DEF ArpInv, Walking, arpVars
<1> QED BY <1>2, <1>3, <1>4, <1>5

\* ARPSEC: the pointer goes over the list, from its first block to its end.
LEMMA TickInv ==
  ASSUME Inv, ArpInv, Tick
  PROVE  ArpInv'
<1>1. /\ arlst \in Seq(Block) /\ arlst # <<>> /\ left' = Len(arlst)
      /\ main'.pc = "sec" /\ UNCHANGED arpVars
    BY DEF Tick, Go, ArpInv, ArpTypeOK
<1>2. Walking'
    BY <1>1 DEF Walking, arpVars
<1> QED BY <1>1, <1>2, StillInv

LEMMA HereType ==
  ASSUME ArpInv, left # 0
  PROVE  Here \in 1 .. Len(arlst) /\ left - 1 \in Nat /\ left - 1 <= Len(arlst) - 1
  BY DEF ArpInv, Walking, Here, ArpTypeOK

LEMMA SecNextPlace ==
  ASSUME Inv, SecNext(left - 1), left - 1 \in Nat
  PROVE  left' = left - 1 /\ main'.pc = IF left' = 0 THEN "idle" ELSE "sec"
  BY Placed DEF SecNext, Idle, Inv

LEMMA SecInv ==
  ASSUME Inv, ArpInv, SecStep \/ SecGiv
  PROVE  ArpInv'
<1>1. left # 0 /\ UNCHANGED gone
    BY DEF SecStep, SecGiv, ArpInv, Walking
<1>2. Here \in 1 .. Len(arlst) /\ left - 1 \in Nat /\ left - 1 <= Len(arlst) - 1
      /\ arlst \in Seq(Block)
    BY <1>1, HereType DEF ArpInv, ArpTypeOK
<1>3. CASE SecStep
  <2>1. ArpTypeOK' /\ FreshAnswer' /\ Len(arlst') = Len(arlst)
      BY <1>2, <1>3, DecrementFresh DEF SecStep, ArpInv
  <2>2. CASE main' = [main EXCEPT !.pc = "giv"] /\ UNCHANGED left
    <3>1. main'.pc = "giv"
        BY <2>2, Placed DEF Inv
    <3>2. Walking'
        BY <1>1, <2>1, <2>2, <3>1 DEF Walking, ArpInv
    <3> QED BY <2>1, <3>2 DEF ArpInv
  <2>3. CASE SecNext(left - 1)
    <3>1. left' = left - 1 /\ main'.pc = IF left' = 0 THEN "idle" ELSE "sec"
        BY <1>2, <2>3, SecNextPlace
    <3>2. Walking'
        BY <1>2, <2>1, <3>1 DEF Walking
    <3> QED BY <2>1, <3>2 DEF ArpInv
  <2> QED BY <1>3, <2>2, <2>3 DEF SecStep
<1>4. CASE SecGiv
  <2>1. ArpTypeOK' /\ FreshAnswer' /\ Len(arlst') = Len(arlst) - 1
      BY <1>1, <1>2, <1>4, GivAbFresh DEF SecGiv, ArpInv
  <2>2. left' = left - 1 /\ main'.pc = IF left' = 0 THEN "idle" ELSE "sec"
      BY <1>2, <1>4, SecNextPlace DEF SecGiv
  <2>3. Walking'
      BY <1>2, <2>1, <2>2 DEF Walking
  <2> QED BY <2>1, <2>3 DEF ArpInv
<1> QED BY <1>3, <1>4

\* ARPCLA: first the whole list is taken off, then its blocks go one by one.
LEMMA ClearInv ==
  ASSUME Inv, ArpInv, Clear
  PROVE  ArpInv'
<1>1. /\ arlst' = <<>> /\ gone' = arlst /\ arcnt' = 0
      /\ last' = [h \in Hosts |-> None] /\ left' = left /\ left = 0
      /\ arlst \in Seq(Block)
    BY DEF Clear, TakeOff, ArpInv, Walking, ArpTypeOK
<1>2. ArpTypeOK' /\ FreshAnswer'
    BY <1>1, ClearFresh DEF ArpInv
<1>3. \/ arlst = <<>> /\ main' = main /\ main.pc = "idle"
      \/ arlst # <<>> /\ main'.pc = "cla"
    BY DEF Clear, Go
<1>4. Walking'
    BY <1>1, <1>3 DEF Walking
<1> QED BY <1>2, <1>4 DEF ArpInv

LEMMA ClaInv ==
  ASSUME Inv, ArpInv, ClaStep
  PROVE  ArpInv'
<1>1. main.pc = "cla" /\ main' = IF left' = 0 THEN Idle ELSE main
    BY DEF ClaStep
<1>2. CASE gone # <<>>
  <2>1. /\ arlst' = Tail(gone) /\ gone' = <<>> /\ arcnt' = arcnt - 1
        /\ last' = [h \in Hosts |-> None] /\ left' = Len(gone) - 1
      BY <1>2 DEF ClaStep, GivFirst
  <2>2. gone \in Seq(Block) /\ arcnt \in Int
      BY DEF ArpInv, ArpTypeOK
  <2>3. Tail(gone) \in Seq(Block) /\ Len(Tail(gone)) = Len(gone) - 1
        /\ Len(gone) - 1 \in Nat
      BY <1>2, <2>2
  <2>4. ArpTypeOK' /\ FreshAnswer'
      BY <2>1, <2>2, <2>3, ClearFresh DEF ArpInv
  <2>5. Walking'
      BY <1>1, <2>1, <2>3 DEF Walking, Idle
  <2> QED BY <2>4, <2>5 DEF ArpInv
<1>3. CASE gone = <<>>
  <2>1. left # 0 /\ GivAb(Here) /\ UNCHANGED gone /\ left' = left - 1
      BY <1>1, <1>3 DEF ClaStep, ArpInv, Walking
  <2>2. Here \in 1 .. Len(arlst) /\ left - 1 \in Nat /\ left - 1 <= Len(arlst) - 1
      BY <2>1, HereType
  <2>3. ArpTypeOK' /\ FreshAnswer' /\ Len(arlst') = Len(arlst) - 1
      BY <2>1, <2>2, GivAbFresh DEF ArpInv
  <2>4. Walking'
      BY <1>1, <2>1, <2>2, <2>3 DEF Walking, Idle
  <2> QED BY <2>3, <2>4 DEF ArpInv
<1> QED BY <1>2, <1>3

-----------------------------------------------------------------------------
LEMMA ArpInvInit == Init => ArpInv
  BY DEF Init, ArpInit, ArpInv, ArpTypeOK, FreshAnswer, Walking, Idle

LEMMA ArpInvStep == Inv /\ ArpInv /\ [Next]_vars => ArpInv'
<1> SUFFICES ASSUME Inv, ArpInv, [Next]_vars PROVE ArpInv'
    OBVIOUS
<1>1. CASE Tick \/ Clear
    BY <1>1, TickInv, ClearInv
<1>2. CASE GetAbStep \/ SecStep \/ SecGiv \/ ClaStep
    BY <1>2, GetAbInv, SecInv, ClaInv
<1>3. CASE \/ \E h \in Hosts, e \in Eths : RxArp(h, e)
           \/ \E h \in Hosts, p \in AllPorts : RxUdp(h, p)
    BY <1>3, RxInv
<1>4. CASE \/ \E d \in Devs : \/ Open(d) \/ Read(d) \/ Release(d)
                              \/ \E p \in Ports : Bind(d, p)
                              \/ \E to \in Hosts \cup {Self}, p \in AllPorts \ {0} :
                                   Send(d, to, p)
           \/ StorStep \/ FndStep \/ AskStep \/ SndStep \/ RelStep
           \/ TxDone \/ UNCHANGED vars
    BY <1>4, UserInv
<1> QED BY <1>1, <1>2, <1>3, <1>4 DEF Next, MainStep

\* A complete ARP block that ARPFND finds holds the address stored last,
\* however replies, the sweep and the clearing of the cache interleave.
THEOREM FreshAnswers == Spec => []FreshAnswer
<1>1. ArpInv => FreshAnswer
    BY DEF ArpInv
<1> QED BY <1>1, InvAlways, ArpInvInit, ArpInvStep, PTL DEF Spec
-----------------------------------------------------------------------------
(* The count of the datagrams under way. *)

\* The places of a sequence that hold an element of T.
Hits(q, T) == {i \in 1 .. Len(q) : q[i] \in T}

LEMMA HitsType ==
  ASSUME NEW S, NEW q \in Seq(S), NEW T
  PROVE  IsFiniteSet(Hits(q, T)) /\ Cardinality(Hits(q, T)) \in Nat
<1>1. IsFiniteSet(1 .. Len(q))
    BY FS_Interval
<1>2. IsFiniteSet(Hits(q, T))
    BY <1>1, FS_Subset DEF Hits
<1> QED BY <1>2, FS_CardinalityType

\* One more at the end.
LEMMA HitsAppend ==
  ASSUME NEW S, NEW q \in Seq(S), NEW e \in S, NEW T
  PROVE  Cardinality(Hits(Append(q, e), T)) =
           Cardinality(Hits(q, T)) + (IF e \in T THEN 1 ELSE 0)
<1> DEFINE a == Append(q, e)
           n == Len(q) + 1
<1>1. /\ Len(a) = n /\ n \in Nat /\ Len(q) \in Nat /\ a[n] = e
      /\ \A i \in 1 .. Len(q) : a[i] = q[i]
    BY DEF a
<1>2. IsFiniteSet(Hits(q, T)) /\ Cardinality(Hits(q, T)) \in Nat /\ n \notin Hits(q, T)
  <2>1. IsFiniteSet(Hits(q, T)) /\ Cardinality(Hits(q, T)) \in Nat
      BY HitsType
  <2>2. n \notin Hits(q, T)
      BY <1>1 DEF Hits
  <2> QED BY <2>1, <2>2
<1> HIDE DEF a
<1>3. Hits(a, T) = IF e \in T THEN Hits(q, T) \cup {n} ELSE Hits(q, T)
  <2>1. 1 .. n = (1 .. Len(q)) \cup {n}
      BY <1>1
  <2> HIDE DEF n
  <2>2. \A i \in 1 .. Len(q) : i \in Hits(a, T) <=> i \in Hits(q, T)
      BY <1>1, <2>1 DEF Hits
  <2>3. n \in Hits(a, T) <=> e \in T
      BY <1>1, <2>1 DEF Hits
  <2>4. Hits(a, T) \subseteq (1 .. Len(q)) \cup {n} /\ Hits(q, T) \subseteq 1 .. Len(q)
      BY <1>1, <2>1 DEF Hits
  <2>5. n \notin Hits(q, T)
      BY <1>2
  <2>6. CASE e \in T
    <3>1. Hits(a, T) = Hits(q, T) \cup {n}
        BY <2>2, <2>3, <2>4, <2>6
    <3> QED BY <2>6, <3>1
  <2>7. CASE e \notin T
    <3>1. Hits(a, T) = Hits(q, T)
        BY <2>2, <2>3, <2>4, <2>5, <2>7
    <3> QED BY <2>7, <3>1
  <2> QED BY <2>6, <2>7
<1> HIDE DEF n
<1>4. Cardinality(Hits(q, T) \cup {n}) = Cardinality(Hits(q, T)) + 1
    BY <1>2, FS_AddElement
<1>5. Cardinality(Hits(a, T)) = Cardinality(Hits(q, T)) + (IF e \in T THEN 1 ELSE 0)
    BY <1>2, <1>3, <1>4
<1> QED BY <1>5 DEF a

\* One less in front: the others move up.
LEMMA HitsTail ==
  ASSUME NEW S, NEW q \in Seq(S), q # <<>>, NEW T
  PROVE  Cardinality(Hits(Tail(q), T)) =
           Cardinality(Hits(q, T)) - (IF Head(q) \in T THEN 1 ELSE 0)
<1> DEFINE t == Tail(q)
           A == Hits(t, T)
           B == Hits(q, T) \ {1}
           f == [i \in A |-> i + 1]
<1>1. /\ t \in Seq(S) /\ Len(t) = Len(q) - 1 /\ Len(q) \in Nat \ {0} /\ Head(q) = q[1]
      /\ \A i \in 1 .. Len(t) : t[i] = q[i + 1]
    OBVIOUS
<1> HIDE DEF t
<1>2. \A i \in A : i \in Nat /\ i + 1 \in B
    BY <1>1 DEF Hits
<1>3. \A j \in B : \E i \in A : i + 1 = j
  <2> SUFFICES ASSUME NEW j \in B
               PROVE  \E i \in A : i + 1 = j
      OBVIOUS
  <2>1. j \in 1 .. Len(q) /\ j # 1 /\ q[j] \in T
      BY DEF Hits
  <2>2. j - 1 \in 1 .. Len(t) /\ (j - 1) + 1 = j
      BY <1>1, <2>1
  <2>3. t[j - 1] = q[j]
      BY <1>1, <2>2
  <2> QED BY <2>1, <2>2, <2>3 DEF Hits
<1>4. IsFiniteSet(A) /\ IsFiniteSet(Hits(q, T)) /\ Cardinality(Hits(q, T)) \in Nat
    BY <1>1, HitsType
<1> HIDE DEF A, B
<1>5. f \in Bijection(A, B)
  <2>1. f \in [A -> B]
      BY <1>2
  <2>2. \A i, j \in A : f[i] = f[j] => i = j
      BY <1>2
  <2>3. \A j \in B : \E i \in A : f[i] = j
      BY <1>3
  <2>4. DOMAIN f = A
      OBVIOUS
  <2> HIDE DEF f
  <2> QED BY <2>1, <2>2, <2>3, <2>4 DEF Bijection, Injection, Surjection, IsInjective
<1>6. Cardinality(A) = Cardinality(B)
    BY <1>4, <1>5, FS_Bijection DEF ExistsBijection
<1>7. 1 \in Hits(q, T) <=> Head(q) \in T
    BY <1>1 DEF Hits
<1>8. Cardinality(B) = IF 1 \in Hits(q, T) THEN Cardinality(Hits(q, T)) - 1
                       ELSE Cardinality(Hits(q, T))
    BY <1>4, FS_RemoveElement DEF B
<1>9. Cardinality(A) = Cardinality(Hits(q, T)) - (IF Head(q) \in T THEN 1 ELSE 0)
    BY <1>4, <1>6, <1>7, <1>8
<1> QED BY <1>9 DEF A, t

\* The datagrams of device d.
Tags(d) == {g \in Dgram : g.tag = d}

LEMMA TaggedHits ==
  ASSUME NEW q \in Seq(Dgram), NEW d
  PROVE  /\ {i \in 1 .. Len(q) : q[i].tag = d} = Hits(q, Tags(d))
         /\ Tagged(q, d) = Cardinality(Hits(q, Tags(d)))
         /\ Tagged(q, d) \in Nat
<1>1. \A i \in 1 .. Len(q) : q[i] \in Dgram
    OBVIOUS
<1>2. {i \in 1 .. Len(q) : q[i].tag = d} = Hits(q, Tags(d))
    BY <1>1 DEF Hits, Tags
<1> QED BY <1>2, HitsType DEF Tagged

\* What a queue has, and what the others have.
LEMMA QueuesSplit ==
  ASSUME NEW u, GoodAll(u), NEW x \in Devs, NEW d
  PROVE  LET R == {p \in InQueues(u, d) : p[1] # x}
         IN /\ IsFiniteSet(R) /\ Cardinality(R) \in Nat
            /\ Cardinality(InQueues(u, d)) = Cardinality(R) + Tagged(u[x].in, d)
            /\ Tagged(u[x].in, d) \in Nat
<1> DEFINE n == InLimit + 1
           P(y) == {i \in 1 .. Len(u[y].in) : u[y].in[i].tag = d}
           Q == {x} \X P(x)
           R == {p \in InQueues(u, d) : p[1] # x}
<1>1. ASSUME NEW y \in Devs PROVE P(y) \subseteq 1 .. n
  <2>1. u[y] \in Device /\ Len(u[y].in) <= n
      BY DEF GoodAll, Good
  <2>2. Len(u[y].in) \in Nat
      BY <2>1 DEF Device
  <2> QED BY <2>1, <2>2, Limits
<1>2. InQueues(u, d) = UNION {{y} \X P(y) : y \in Devs}
    BY DEF InQueues
<1>3. u[x].in \in Seq(Dgram)
    BY DEF GoodAll, Device
<1>4. Tagged(u[x].in, d) = Cardinality(P(x)) /\ Tagged(u[x].in, d) \in Nat
    BY <1>3, TaggedHits DEF Tagged
<1> HIDE DEF P
<1>5. InQueues(u, d) \subseteq Devs \X (1 .. n)
    BY <1>1, <1>2
<1>6. IsFiniteSet(Devs) /\ IsFiniteSet(1 .. n) /\ n \in Nat
    BY IpAssumption, Limits, FS_Interval
<1> HIDE DEF n
<1>7. IsFiniteSet(InQueues(u, d)) /\ IsFiniteSet(P(x))
  <2>1. IsFiniteSet(Devs \X (1 .. n))
      BY <1>6, FS_Product
  <2> QED BY <1>1, <1>5, <1>6, <2>1, FS_Subset
<1>8. IsFiniteSet(R) /\ Cardinality(R) \in Nat
    BY <1>7, FS_Subset, FS_CardinalityType
<1>9. IsFiniteSet(Q) /\ Cardinality(Q) = Cardinality(P(x)) /\ Cardinality(P(x)) \in Nat
  <2>1. IsFiniteSet({x}) /\ Cardinality({x}) = 1
      BY FS_Singleton
  <2>2. Cardinality(P(x)) \in Nat
      BY <1>7, FS_CardinalityType
  <2>3. IsFiniteSet(Q) /\ Cardinality(Q) = Cardinality({x}) * Cardinality(P(x))
      BY <1>7, <2>1, FS_Product
  <2> QED BY <2>1, <2>2, <2>3
<1>10. InQueues(u, d) = R \cup Q /\ R \cap Q = {}
  <2>1. Q \subseteq InQueues(u, d)
      BY <1>2
  <2>2. \A p \in Q : p[1] = x
      OBVIOUS
  <2>3. ASSUME NEW p \in InQueues(u, d), p[1] = x PROVE p \in Q
    <3>1. PICK y \in Devs : p \in {y} \X P(y)
        BY <1>2
    <3>2. y = x
        BY <2>3, <3>1
    <3> QED BY <3>1, <3>2
  <2> QED BY <2>1, <2>2, <2>3
<1> HIDE DEF R, Q
<1>11. Cardinality(InQueues(u, d)) = Cardinality(R) + Cardinality(Q) - Cardinality({})
    BY <1>8, <1>9, <1>10, FS_Union
<1>12. Cardinality({}) = 0
    BY FS_EmptySet
<1>13. Cardinality(InQueues(u, d)) = Cardinality(R) + Tagged(u[x].in, d)
    BY <1>4, <1>8, <1>9, <1>11, <1>12
<1> QED BY <1>4, <1>8, <1>13 DEF R

\* One queue changes.
LEMMA QueuesChange ==
  ASSUME NEW u, NEW w, GoodAll(u), GoodAll(w), NEW x \in Devs, NEW d,
         \A y \in Devs : y # x => w[y].in = u[y].in
  PROVE  /\ Cardinality(InQueues(w, d)) =
              Cardinality(InQueues(u, d)) - Tagged(u[x].in, d) + Tagged(w[x].in, d)
         /\ Cardinality(InQueues(u, d)) \in Nat /\ Tagged(u[x].in, d) \in Nat
         /\ Cardinality(InQueues(w, d)) \in Nat /\ Tagged(w[x].in, d) \in Nat
<1> DEFINE R == {p \in InQueues(u, d) : p[1] # x}
           S == {p \in InQueues(w, d) : p[1] # x}
           a == Tagged(u[x].in, d)
           b == Tagged(w[x].in, d)
<1>1. /\ Cardinality(R) \in Nat /\ Cardinality(InQueues(u, d)) = Cardinality(R) + a
      /\ a \in Nat
    BY QueuesSplit
<1>2. /\ Cardinality(S) \in Nat /\ Cardinality(InQueues(w, d)) = Cardinality(S) + b
      /\ b \in Nat
    BY QueuesSplit
<1>3. R = S
  <2>1. ASSUME NEW v, NEW p
        PROVE  p \in InQueues(v, d) /\ p[1] # x <=>
                 \E y \in Devs \ {x} : p \in {y} \X {i \in 1 .. Len(v[y].in) : v[y].in[i].tag = d}
      BY DEF InQueues
  <2> QED BY <2>1
<1> HIDE DEF R, S, a, b
<1>4. /\ Cardinality(InQueues(w, d)) = Cardinality(InQueues(u, d)) - a + b
      /\ Cardinality(InQueues(u, d)) \in Nat /\ Cardinality(InQueues(w, d)) \in Nat
    BY <1>1, <1>2, <1>3
<1> QED BY <1>1, <1>2, <1>4 DEF a, b

\* No queue changes but in what it says of the user.
LEMMA QueuesSame ==
  ASSUME NEW u, NEW w, NEW d,
         \A x \in Devs : /\ Len(w[x].in) = Len(u[x].in)
                         /\ \A i \in 1 .. Len(u[x].in) : w[x].in[i].tag = u[x].in[i].tag
  PROVE  InQueues(w, d) = InQueues(u, d)
<1>1. \A x \in Devs : {i \in 1 .. Len(w[x].in) : w[x].in[i].tag = d} =
                      {i \in 1 .. Len(u[x].in) : u[x].in[i].tag = d}
    OBVIOUS
<1> QED BY <1>1 DEF InQueues
-----------------------------------------------------------------------------
(* The datagrams of a device, wherever they are. *)

One(a, b)    == IF a = b THEN 1 ELSE 0
InMain(m, d) == IF m.pc = "rel" THEN 0 ELSE One(m.dev, d)
WithUna(d)   == Cardinality(Hits(txq, {d}))
Queued(d)    == Cardinality(InQueues(udp, d))
Balanced(d)  == /\ udp[d].oql = lost[d] + WithUna(d) + InMain(main, d) + Queued(d)
                /\ udp[d].oql <= OutLimit

\* The main program has a packet only while it sends one.
OutInv ==
  /\ lost \in [Devs -> Nat] /\ txq \in Seq(Tag)
  /\ main.pc \in {"idle", "sec", "giv", "cla"} => main.dev = None
  /\ \A d \in Devs : Balanced(d)

LEMMA Numbers ==
  ASSUME Inv, OutInv, NEW d \in Devs
  PROVE  /\ lost[d] \in Nat /\ WithUna(d) \in Nat /\ InMain(main, d) \in {0, 1}
         /\ Queued(d) \in Nat /\ udp[d].oql \in Nat /\ OutLimit \in Nat
<1>1. GoodAll(udp) /\ OutLimit \in Nat /\ udp[d] \in Device
    BY IpAssumption DEF Inv, GoodAll
<1>2. Queued(d) \in Nat
    BY <1>1, QueuesChange DEF Queued
<1>3. WithUna(d) \in Nat
    BY HitsType DEF OutInv, WithUna
<1>4. InMain(main, d) \in {0, 1}
    BY DEF InMain, One
<1>5. lost[d] \in Nat /\ Balanced(d)
    BY DEF OutInv
<1> QED BY <1>1, <1>2, <1>3, <1>4, <1>5 DEF Balanced

\* The changes of the four places add up to the change of the count.
LEMMA Balance ==
  ASSUME Inv, OutInv, NEW d \in Devs,
         lost'[d] \in Int, WithUna(d)' \in Int, Queued(d)' \in Int, udp'[d].oql \in Int,
         udp'[d].oql - udp[d].oql =
           (lost'[d] - lost[d]) + (WithUna(d)' - WithUna(d))
             + (InMain(main', d) - InMain(main, d)) + (Queued(d)' - Queued(d)),
         udp'[d].oql <= OutLimit
  PROVE  Balanced(d)'
<1> DEFINE L == lost[d]
           W == WithUna(d)
           M == InMain(main, d)
           Q == Queued(d)
           n == udp[d].oql
           l == lost'[d]
           w == WithUna(d)'
           m == InMain(main', d)
           q == Queued(d)'
           k == udp'[d].oql
<1>1. L \in Nat /\ W \in Nat /\ M \in Int /\ Q \in Nat /\ n \in Nat /\ n = L + W + M + Q
    BY Numbers DEF OutInv, Balanced
<1>2. l \in Int /\ w \in Int /\ m \in Int /\ q \in Int /\ k \in Int /\ k <= OutLimit
    BY DEF InMain, One
<1>3. k - n = (l - L) + (w - W) + (m - M) + (q - Q)
    OBVIOUS
<1>4. k = l + w + m + q
  <2> HIDE DEF L, W, M, Q, n, l, w, m, q, k
  <2> QED BY <1>1, <1>2, <1>3
<1> QED BY <1>2, <1>4 DEF Balanced

\* Nothing that counts changes.
LEMMA BalanceSame ==
  ASSUME Inv, OutInv, NEW d \in Devs, lost'[d] = lost[d], WithUna(d)' = WithUna(d),
         InMain(main', d) = InMain(main, d), Queued(d)' = Queued(d), udp'[d].oql = udp[d].oql
  PROVE  Balanced(d)'
  BY DEF OutInv, Balanced

\* A packet is given back (GIVPD, U.CBK).
LEMMA GivPdOql ==
  ASSUME NEW u \in [Devs -> Device], NEW tag \in Tag, NEW d \in Devs
  PROVE  GivPd(u, tag)[d].oql = u[d].oql - One(tag, d) /\ GivPd(u, tag)[d].in = u[d].in
<1>1. u[d] \in Device /\ u[d].oql \in Int
    BY DEF Device
<1>2. CASE tag = None
    BY <1>1, <1>2, Limits DEF GivPd, One
<1>3. CASE tag # None
  <2>1. tag \in Devs /\ GivPd(u, tag) = [u EXCEPT ![tag].oql = @ - 1]
      BY <1>3 DEF GivPd, Tag
  <2>2. CASE tag = d
      BY <1>1, <2>1, <2>2 DEF One, Device
  <2>3. CASE tag # d
      BY <1>1, <2>1, <2>3 DEF One
  <2> QED BY <2>2, <2>3
<1> QED BY <1>2, <1>3

\* One more with the UNA.
LEMMA UnaAppend ==
  ASSUME OutInv, NEW tag \in Tag, txq' = Append(txq, tag), NEW d \in Devs
  PROVE  WithUna(d)' = WithUna(d) + One(tag, d) /\ txq' \in Seq(Tag)
<1>1. txq \in Seq(Tag)
    BY DEF OutInv
<1>2. Cardinality(Hits(Append(txq, tag), {d})) =
        Cardinality(Hits(txq, {d})) + (IF tag \in {d} THEN 1 ELSE 0)
    BY <1>1, HitsAppend
<1> QED BY <1>1, <1>2 DEF WithUna, One

\* The queues are what they were.
LEMMA QueuedSame ==
  ASSUME NEW d, \A x \in Devs : udp'[x].in = udp[x].in
  PROVE  Queued(d)' = Queued(d)
<1>1. InQueues(udp', d) = InQueues(udp, d)
    BY QueuesSame
<1> QED BY <1>1 DEF Queued

\* The main program gives its packet back (ARPFND, GETAB).
LEMMA DropOut ==
  ASSUME Inv, OutInv, Drop, main.pc # "rel", UNCHANGED <<lost, txq>>
  PROVE  OutInv'
<1>1. /\ udp' = GivPd(udp, main.dev) /\ main' = Idle /\ main.dev \in Tag
      /\ udp \in [Devs -> Device]
    BY DEF Drop, Inv, GoodAll, MainType
<1>2. ASSUME NEW d \in Devs PROVE Balanced(d)'
  <2>1. udp'[d].oql = udp[d].oql - One(main.dev, d) /\ \A x \in Devs : udp'[x].in = udp[x].in
      BY <1>1, GivPdOql
  <2>2. InMain(main', d) = 0 /\ InMain(main, d) = One(main.dev, d)
      BY <1>1, Limits DEF InMain, Idle, One
  <2>3. Queued(d)' = Queued(d)
      BY <2>1, QueuedSame
  <2>4. WithUna(d)' = WithUna(d)
      BY DEF WithUna
  <2> DEFINE o == One(main.dev, d)
  <2>5. o \in {0, 1}
      BY DEF One
  <2>6. lost[d] \in Nat /\ WithUna(d) \in Nat /\ Queued(d) \in Nat /\ udp[d].oql \in Nat
        /\ udp[d].oql <= OutLimit /\ OutLimit \in Nat
      BY Numbers DEF OutInv, Balanced
  <2>7. udp'[d].oql = udp[d].oql - o /\ InMain(main, d) = o
      BY <2>1, <2>2
  <2> HIDE DEF o
  <2>8. /\ udp'[d].oql - udp[d].oql =
             (lost'[d] - lost[d]) + (WithUna(d)' - WithUna(d))
               + (InMain(main', d) - InMain(main, d)) + (Queued(d)' - Queued(d))
        /\ udp'[d].oql <= OutLimit /\ udp'[d].oql \in Int
      BY <2>2, <2>3, <2>4, <2>5, <2>6, <2>7
  <2> QED BY <2>3, <2>4, <2>6, <2>8, Balance
<1> QED BY <1>1, <1>2 DEF OutInv, Idle

\* A step that changes neither counts nor queues, and after which the main
\* program has the packet it had.
LEMMA StillOut ==
  ASSUME Inv, OutInv, UNCHANGED lost, txq' = txq \/ txq' = Append(txq, None),
         \A d \in Devs : udp'[d].oql = udp[d].oql /\ Queued(d)' = Queued(d)
                         /\ InMain(main', d) = InMain(main, d),
         main'.pc \in {"idle", "sec", "giv", "cla"} => main'.dev = None
  PROVE  OutInv'
<1>1. txq' \in Seq(Tag) /\ \A d \in Devs : WithUna(d)' = WithUna(d)
  <2>1. CASE txq' = txq
      BY <2>1 DEF OutInv, WithUna
  <2>2. CASE txq' = Append(txq, None)
    <3>1. None \in Tag /\ \A d \in Devs : One(None, d) = 0
        BY Limits DEF Tag, One
    <3>2. txq' \in Seq(Tag)
        BY <2>2, <3>1 DEF OutInv
    <3>3. ASSUME NEW d \in Devs PROVE WithUna(d)' = WithUna(d)
      <4>1. WithUna(d)' = WithUna(d) + 0 /\ WithUna(d) \in Nat
          BY <2>2, <3>1, UnaAppend, Numbers
      <4> QED BY <4>1
    <3> QED BY <3>2, <3>3
  <2> QED BY <2>1, <2>2
<1>2. ASSUME NEW d \in Devs PROVE Balanced(d)'
    BY <1>1, BalanceSame
<1> QED BY <1>1, <1>2 DEF OutInv

\* The main program goes on with its packet.
LEMMA SamePacket ==
  ASSUME NEW pc, NEW d, main \in MainType, main.pc # "rel", pc # "rel",
         main' = [main EXCEPT !.pc = pc]
  PROVE  InMain(main', d) = InMain(main, d) /\ main'.pc = pc /\ main'.dev = main.dev
  BY DEF InMain, MainType
-----------------------------------------------------------------------------
(* The steps. *)

\* The main program without a packet.
LEMMA NoPacket ==
  ASSUME NEW m, m.dev = None, NEW d \in Devs
  PROVE  InMain(m, d) = 0
  BY Limits DEF InMain, One

LEMMA OpenOut ==
  ASSUME Inv, OutInv, NEW d \in Devs, Open(d)
  PROVE  OutInv'
<1> DEFINE u == udp[d]
           q == [i \in DOMAIN u.in |-> [u.in[i] EXCEPT !.own = FALSE]]
<1>1. u \in Device /\ udp \in [Devs -> Device] /\ u.in \in Seq(Dgram)
    BY DEF Inv, GoodAll, Device
<1>2. /\ udp' = [udp EXCEPT ![d] = [u EXCEPT !.open = TRUE, !.in = q]]
      /\ main' = main /\ txq' = txq /\ lost' = lost
    BY DEF Open
<1>3. DOMAIN u.in = 1 .. Len(u.in) /\ \A i \in 1 .. Len(u.in) : u.in[i] \in Dgram
    BY <1>1
<1>4. \A i \in 1 .. Len(u.in) :
        [u.in[i] EXCEPT !.own = FALSE] \in Dgram /\ [u.in[i] EXCEPT !.own = FALSE].tag = u.in[i].tag
    BY <1>3 DEF Dgram
<1>5. q \in Seq(Dgram) /\ Len(q) = Len(u.in)
    BY <1>1, <1>3, <1>4
<1>6. \A i \in 1 .. Len(u.in) : q[i].tag = u.in[i].tag
    BY <1>3, <1>4
<1> HIDE DEF q
<1>7. /\ udp'[d].in = q /\ udp'[d].oql = u.oql
      /\ \A x \in Devs : x # d => udp'[x] = udp[x]
    BY <1>1, <1>2 DEF Device
<1>8. ASSUME NEW x \in Devs
      PROVE  /\ Len(udp'[x].in) = Len(udp[x].in)
             /\ \A i \in 1 .. Len(udp[x].in) : udp'[x].in[i].tag = udp[x].in[i].tag
    BY <1>5, <1>6, <1>7
<1>9. ASSUME NEW e \in Devs PROVE udp'[e].oql = udp[e].oql /\ Queued(e)' = Queued(e)
  <2>1. InQueues(udp', e) = InQueues(udp, e)
      BY <1>8, QueuesSame
  <2> QED BY <1>7, <2>1 DEF Queued
<1> QED BY <1>2, <1>9, StillOut DEF OutInv

\* Only the port of a device changes.
LEMMA PortOut ==
  ASSUME Inv, OutInv, NEW d \in Devs, NEW p, udp' = [udp EXCEPT ![d].port = p],
         UNCHANGED <<lost, txq>>, \A e \in Devs : InMain(main', e) = InMain(main, e),
         main'.pc \in {"idle", "sec", "giv", "cla"} => main'.dev = None
  PROVE  OutInv'
<1>1. udp \in [Devs -> Device]
    BY DEF Inv, GoodAll
<1>2. \A x \in Devs : udp'[x].in = udp[x].in /\ udp'[x].oql = udp[x].oql
    BY <1>1 DEF Device
<1>3. \A e \in Devs : Queued(e)' = Queued(e)
    BY <1>2, QueuedSame
<1> QED BY <1>2, <1>3, StillOut

LEMMA BindOut ==
  ASSUME Inv, OutInv, NEW d \in Devs, NEW p \in Ports, Bind(d, p)
  PROVE  OutInv'
<1>1. udp' = [udp EXCEPT ![d].port = p] /\ main' = main /\ UNCHANGED <<lost, txq>>
    BY DEF Bind
<1> QED BY <1>1, PortOut DEF OutInv

LEMMA ReleaseOut ==
  ASSUME Inv, OutInv, NEW d \in Devs, Release(d)
  PROVE  OutInv'
<1>1. /\ udp' = [udp EXCEPT ![d].port = 0] /\ UNCHANGED <<lost, txq>>
      /\ main.pc = "idle" /\ main'.pc = "rel"
    BY DEF Release, Go
<1>2. \A e \in Devs : InMain(main', e) = 0 /\ InMain(main, e) = 0
    BY <1>1, NoPacket DEF InMain, OutInv
<1> QED BY <1>1, <1>2, PortOut

\* A datagram is sent (MAKUDP, IPOUT): it is with the main program, or lost.
LEMMA SendOut ==
  ASSUME Inv, OutInv, NEW d \in Devs, NEW to \in Hosts \cup {Self}, NEW port \in AllPorts \ {0},
         Send(d, to, port)
  PROVE  OutInv'
<1> DEFINE out == [udp EXCEPT ![d].oql = @ + 1]
<1>1. /\ main.pc = "idle" /\ main.dev = None /\ udp[d].oql < OutLimit /\ txq' = txq
      /\ udp \in [Devs -> Device] /\ lost \in [Devs -> Nat] /\ txq \in Seq(Tag)
    BY DEF Send, MaySend, OutInv, Inv, GoodAll
<1>2. \/ UNCHANGED <<udp, main, lost>>
      \/ udp' = out /\ main' = main /\ lost' = [lost EXCEPT ![d] = @ + 1]
      \/ udp' = out /\ lost' = lost /\ main'.dev = d /\ main'.pc \in {"fnd", "stor"}
    BY DEF Send, IcmpE, Go
<1>3. \A e \in Devs : out[e].in = udp[e].in /\ out[e].oql = udp[e].oql + One(d, e)
  <2>1. udp[d] \in Device /\ udp[d].oql \in Int
      BY <1>1 DEF Device
  <2>2. ASSUME NEW e \in Devs, e # d
        PROVE  out[e].in = udp[e].in /\ out[e].oql = udp[e].oql + One(d, e)
    <3>1. out[e] = udp[e] /\ One(d, e) = 0 /\ udp[e].oql \in Int
        BY <1>1, <2>2 DEF One, Device
    <3> HIDE DEF out
    <3> QED BY <3>1
  <2>3. out[d].in = udp[d].in /\ out[d].oql = udp[d].oql + 1 /\ One(d, d) = 1
      BY <1>1, <2>1 DEF One, Device
  <2> HIDE DEF out
  <2> QED BY <2>2, <2>3
<1> HIDE DEF out
<1>4. CASE UNCHANGED <<udp, main, lost>>
  <2>1. \A e \in Devs : Queued(e)' = Queued(e)
      BY <1>4, QueuedSame
  <2> QED BY <1>1, <1>4, <2>1, StillOut
<1>5. ASSUME udp' = out, lost' \in [Devs -> Nat],
             main'.pc \in {"idle", "sec", "giv", "cla"} => main'.dev = None,
             \A e \in Devs : (lost'[e] - lost[e]) + (InMain(main', e) - InMain(main, e)) = One(d, e)
      PROVE  OutInv'
  <2>1. ASSUME NEW e \in Devs PROVE Balanced(e)'
    <3> DEFINE o == One(d, e)
               i == InMain(main', e)
    <3>1. WithUna(e)' = WithUna(e) /\ Queued(e)' = Queued(e)
        BY <1>1, <1>3, <1>5, QueuedSame DEF WithUna
    <3>2. /\ udp'[e].oql = udp[e].oql + o /\ o \in {0, 1} /\ i \in {0, 1}
          /\ o = 1 => e = d
        BY <1>3, <1>5 DEF One, InMain
    <3>3. /\ lost[e] \in Nat /\ WithUna(e) \in Nat /\ InMain(main, e) \in {0, 1}
          /\ Queued(e) \in Nat /\ udp[e].oql \in Nat /\ udp[e].oql <= OutLimit
          /\ OutLimit \in Nat /\ lost'[e] \in Nat
        BY <1>5, Numbers DEF OutInv, Balanced
    <3>4. (lost'[e] - lost[e]) + (i - InMain(main, e)) = o
        BY <1>5
    <3>5. udp'[e].oql <= OutLimit
        BY <1>1, <3>2, <3>3
    <3>6. udp'[e].oql - udp[e].oql =
            (lost'[e] - lost[e]) + (WithUna(e)' - WithUna(e))
              + (i - InMain(main, e)) + (Queued(e)' - Queued(e))
      <4> HIDE DEF o, i
      <4> QED BY <3>1, <3>2, <3>3, <3>4
    <3>7. udp'[e].oql \in Int /\ lost'[e] \in Int /\ WithUna(e)' \in Int /\ Queued(e)' \in Int
        BY <3>1, <3>2, <3>3
    <3> QED BY <3>5, <3>6, <3>7, Balance
  <2> QED BY <1>1, <1>5, <2>1 DEF OutInv
<1>6. CASE udp' = out /\ main' = main /\ lost' = [lost EXCEPT ![d] = @ + 1]
  <2>1. lost' \in [Devs -> Nat] /\ \A e \in Devs : lost'[e] - lost[e] = One(d, e)
      BY <1>1, <1>6 DEF One
  <2>2. \A e \in Devs : InMain(main', e) - InMain(main, e) = 0 /\ One(d, e) \in Int
      BY <1>6 DEF InMain, One
  <2>3. \A e \in Devs : (lost'[e] - lost[e]) + (InMain(main', e) - InMain(main, e)) = One(d, e)
      BY <2>1, <2>2
  <2> QED BY <1>1, <1>5, <1>6, <2>1, <2>3
<1>7. CASE udp' = out /\ lost' = lost /\ main'.dev = d /\ main'.pc \in {"fnd", "stor"}
  <2>1. \A e \in Devs : InMain(main, e) = 0 /\ InMain(main', e) = One(d, e)
      BY <1>1, <1>7, NoPacket DEF InMain
  <2>2. \A e \in Devs : lost'[e] - lost[e] = 0 /\ One(d, e) \in Int
      BY <1>1, <1>7 DEF One
  <2>3. \A e \in Devs : (lost'[e] - lost[e]) + (InMain(main', e) - InMain(main, e)) = One(d, e)
      BY <2>1, <2>2
  <2> QED BY <1>1, <1>5, <1>7, <2>3
<1> QED BY <1>2, <1>4, <1>6, <1>7
\* A datagram is queued.
LEMMA StorQueued ==
  ASSUME GoodAll(udp), GoodAll(udp'), NEW x \in Devs, NEW g \in Dgram, udp' = Stor(x, g),
         NEW d \in Devs
  PROVE  Queued(d)' = Queued(d) + One(g.tag, d) /\ udp'[d].oql = udp[d].oql
<1>1. udp \in [Devs -> Device] /\ udp[x].in \in Seq(Dgram)
    BY DEF GoodAll, Device
<1>2. /\ udp'[x].in = Append(udp[x].in, g) /\ udp'[x].oql = udp[x].oql
      /\ \A y \in Devs : y # x => udp'[y] = udp[y]
    BY <1>1 DEF Stor, Device
<1>3. Tagged(udp'[x].in, d) = Tagged(udp[x].in, d) + One(g.tag, d)
  <2>1. Append(udp[x].in, g) \in Seq(Dgram)
      BY <1>1
  <2>2. Tagged(Append(udp[x].in, g), d) = Cardinality(Hits(Append(udp[x].in, g), Tags(d)))
        /\ Tagged(udp[x].in, d) = Cardinality(Hits(udp[x].in, Tags(d)))
      BY <1>1, <2>1, TaggedHits
  <2>3. Cardinality(Hits(Append(udp[x].in, g), Tags(d))) =
          Cardinality(Hits(udp[x].in, Tags(d))) + (IF g \in Tags(d) THEN 1 ELSE 0)
      BY <1>1, HitsAppend
  <2>4. (IF g \in Tags(d) THEN 1 ELSE 0) = One(g.tag, d)
      BY DEF Tags, One
  <2> QED BY <1>2, <2>2, <2>3, <2>4
<1>4. /\ Cardinality(InQueues(udp', d)) =
           Cardinality(InQueues(udp, d)) - Tagged(udp[x].in, d) + Tagged(udp'[x].in, d)
      /\ Cardinality(InQueues(udp, d)) \in Nat /\ Tagged(udp[x].in, d) \in Nat
  <2>1. \A y \in Devs : y # x => udp'[y].in = udp[y].in
      BY <1>2
  <2> QED BY <2>1, QueuesChange
<1>5. One(g.tag, d) \in Int
    BY DEF One
<1>6. Cardinality(InQueues(udp', d)) = Cardinality(InQueues(udp, d)) + One(g.tag, d)
    BY <1>3, <1>4, <1>5
<1> QED BY <1>2, <1>6 DEF Queued

LEMMA StorStepOut ==
  ASSUME Inv, Inv', OutInv, StorStep
  PROVE  OutInv'
<1> DEFINE g == [tag |-> main.dev, port |-> main.port, own |-> TRUE]
<1>1. /\ GoodAll(udp) /\ GoodAll(udp') /\ main.dev \in Devs /\ main.to \in Devs
      /\ main.port \in AllPorts /\ main.pc = "stor"
    BY DEF StorStep, Inv, MainOK, StorReady
<1>2. g \in Dgram /\ g.tag = main.dev
    BY <1>1 DEF Dgram, Tag
<1>3. udp' = Stor(main.to, g) /\ main' = Idle /\ UNCHANGED <<lost, txq>>
    BY DEF StorStep
<1> HIDE DEF g
<1>4. ASSUME NEW d \in Devs PROVE Balanced(d)'
  <2> DEFINE o == One(main.dev, d)
  <2>1. Queued(d)' = Queued(d) + o /\ udp'[d].oql = udp[d].oql
      BY <1>1, <1>2, <1>3, StorQueued
  <2>2. InMain(main, d) = o /\ InMain(main', d) = 0 /\ WithUna(d)' = WithUna(d)
      BY <1>1, <1>3, Limits DEF InMain, Idle, One, WithUna
  <2>3. /\ lost[d] \in Nat /\ WithUna(d) \in Nat /\ Queued(d) \in Nat /\ udp[d].oql \in Nat
        /\ udp[d].oql <= OutLimit
      BY Numbers DEF OutInv, Balanced
  <2>4. o \in {0, 1}
      BY DEF One
  <2> HIDE DEF o
  <2>5. udp'[d].oql - udp[d].oql =
          (lost'[d] - lost[d]) + (WithUna(d)' - WithUna(d))
            + (InMain(main', d) - InMain(main, d)) + (Queued(d)' - Queued(d))
      BY <1>3, <2>1, <2>2, <2>3, <2>4
  <2>6. lost'[d] \in Int /\ WithUna(d)' \in Int /\ Queued(d)' \in Int /\ udp'[d].oql \in Int
      BY <1>3, <2>1, <2>2, <2>3, <2>4
  <2> QED BY <2>1, <2>3, <2>5, <2>6, Balance
<1> QED BY <1>3, <1>4 DEF OutInv, Idle

\* What comes from the network counts for no device.
LEMMA RxUdpOut ==
  ASSUME Inv, Inv', OutInv, NEW h \in Hosts, NEW port \in AllPorts, RxUdp(h, port)
  PROVE  OutInv'
<1> DEFINE t == Listener(port)
           g == [tag |-> None, port |-> port, own |-> udp[t].open]
<1>2. main' = main /\ lost' = lost /\ (txq' = txq \/ txq' = Append(txq, None))
    BY DEF RxUdp, Answer
<1>3. udp' = udp \/ (t # None /\ udp' = Stor(t, g))
    BY DEF RxUdp
<1>4. \A d \in Devs : udp'[d].oql = udp[d].oql /\ Queued(d)' = Queued(d)
  <2>1. CASE udp' = udp
      BY <2>1, QueuedSame
  <2>2. CASE t # None /\ udp' = Stor(t, g)
    <3>1. t \in Devs
        BY <2>2 DEF Listener
    <3> HIDE DEF t
    <3>2. GoodAll(udp) /\ GoodAll(udp') /\ udp[t] \in Device
        BY <3>1 DEF Inv, GoodAll
    <3>3. g \in Dgram /\ g.tag = None
        BY <3>2 DEF Dgram, Tag, Device
    <3> HIDE DEF g
    <3>4. ASSUME NEW d \in Devs
          PROVE  udp'[d].oql = udp[d].oql /\ Queued(d)' = Queued(d)
      <4>1. Queued(d)' = Queued(d) + One(None, d) /\ udp'[d].oql = udp[d].oql
          BY <2>2, <3>1, <3>2, <3>3, StorQueued
      <4>2. One(None, d) = 0 /\ Queued(d) \in Nat
          BY Limits, Numbers DEF One
      <4> QED BY <4>1, <4>2
    <3> QED BY <3>4
  <2> QED BY <1>3, <2>1, <2>2
<1>5. main'.pc \in {"idle", "sec", "giv", "cla"} => main'.dev = None
    BY <1>2 DEF OutInv
<1> QED BY <1>2, <1>4, <1>5, StillOut

\* A datagram leaves the queues, or the UNA, and is given back.
LEMMA GivenBack ==
  ASSUME Inv, OutInv, NEW d \in Devs, NEW o \in {0, 1},
         udp'[d].oql = udp[d].oql - o, UNCHANGED <<lost, main>>,
         \/ WithUna(d)' = WithUna(d) - o /\ Queued(d)' = Queued(d)
         \/ WithUna(d)' = WithUna(d) /\ Queued(d)' = Queued(d) - o
  PROVE  Balanced(d)'
<1>1. /\ lost[d] \in Nat /\ WithUna(d) \in Nat /\ Queued(d) \in Nat /\ udp[d].oql \in Nat
      /\ udp[d].oql <= OutLimit /\ OutLimit \in Nat /\ InMain(main, d) \in {0, 1}
    BY Numbers DEF OutInv, Balanced
<1>2. InMain(main', d) = InMain(main, d)
    OBVIOUS
<1>3. /\ udp'[d].oql - udp[d].oql =
           (lost'[d] - lost[d]) + (WithUna(d)' - WithUna(d))
             + (InMain(main', d) - InMain(main, d)) + (Queued(d)' - Queued(d))
      /\ udp'[d].oql <= OutLimit /\ udp'[d].oql \in Int
    BY <1>1, <1>2
<1>4. lost'[d] \in Int /\ WithUna(d)' \in Int /\ Queued(d)' \in Int
    BY <1>1
<1> QED BY <1>3, <1>4, Balance

LEMMA TxDoneOut ==
  ASSUME Inv, OutInv, TxDone
  PROVE  OutInv'
<1> DEFINE tag == Head(txq)
<1>1. /\ txq \in Seq(Tag) /\ txq # <<>> /\ udp' = GivPd(udp, tag) /\ txq' = Tail(txq)
      /\ UNCHANGED <<lost, main>> /\ udp \in [Devs -> Device]
    BY DEF TxDone, OutInv, Inv, GoodAll
<1>2. tag \in Tag /\ txq' \in Seq(Tag)
    BY <1>1
<1> HIDE DEF tag
<1>3. ASSUME NEW d \in Devs PROVE Balanced(d)'
  <2>1. udp'[d].oql = udp[d].oql - One(tag, d) /\ \A x \in Devs : udp'[x].in = udp[x].in
      BY <1>1, <1>2, GivPdOql
  <2>2. Queued(d)' = Queued(d)
      BY <2>1, QueuedSame
  <2>3. Cardinality(Hits(Tail(txq), {d})) =
          Cardinality(Hits(txq, {d})) - (IF Head(txq) \in {d} THEN 1 ELSE 0)
      BY <1>1, HitsTail
  <2>4. WithUna(d)' = WithUna(d) - One(tag, d) /\ One(tag, d) \in {0, 1}
      BY <1>1, <2>3 DEF WithUna, One, tag
  <2> QED BY <1>1, <2>1, <2>2, <2>4, GivenBack
<1> QED BY <1>1, <1>2, <1>3 DEF OutInv

LEMMA ReadOut ==
  ASSUME Inv, Inv', OutInv, NEW x \in Devs, Read(x)
  PROVE  OutInv'
<1> DEFINE u == udp[x]
           g == Head(u.in)
           w == [udp EXCEPT ![x].in = Tail(@), ![x].iql = @ - 1]
<1>1. /\ udp \in [Devs -> Device] /\ u \in Device /\ u.in \in Seq(Dgram) /\ u.in # <<>>
      /\ u.iql = Len(u.in) /\ GoodAll(udp) /\ GoodAll(udp')
    BY DEF Inv, GoodAll, Good, Device, Read
<1>2. udp' = GivPd(w, g.tag) /\ UNCHANGED <<lost, main, txq>>
    BY DEF Read
<1>3. g \in Dgram /\ g.tag \in Tag /\ Tail(u.in) \in Seq(Dgram) /\ u.iql - 1 \in Nat
  <2>1. g \in Dgram
      BY <1>1
  <2>2. Tail(u.in) \in Seq(Dgram) /\ u.iql - 1 \in Nat
      BY <1>1
  <2> QED BY <2>1, <2>2 DEF Dgram
<1> HIDE DEF g
<1>4. /\ w \in [Devs -> Device] /\ w[x].in = Tail(u.in)
      /\ \A y \in Devs : w[y].oql = udp[y].oql /\ (y # x => w[y].in = udp[y].in)
  <2> DEFINE n == u.iql - 1
             t == Tail(u.in)
             v == [u EXCEPT !.in = t, !.iql = n]
  <2>1. w = [udp EXCEPT ![x] = v]
      BY <1>1
  <2> HIDE DEF w
  <2>2. n \in Nat /\ t \in Seq(Dgram)
      BY <1>3
  <2> HIDE DEF n, t
  <2>3. v \in Device /\ v.in = t /\ v.oql = u.oql
      BY <1>1, <2>2 DEF Device
  <2> HIDE DEF v
  <2> QED BY <1>1, <2>1, <2>3 DEF t
<1> HIDE DEF w
<1>5. ASSUME NEW d \in Devs PROVE Balanced(d)'
  <2>1. udp'[d].oql = udp[d].oql - One(g.tag, d)
      BY <1>2, <1>3, <1>4, GivPdOql
  <2>2. udp'[x].in = Tail(u.in) /\ \A y \in Devs : y # x => udp'[y].in = udp[y].in
      BY <1>2, <1>3, <1>4, GivPdOql
  <2>3. One(g.tag, d) \in {0, 1}
      BY DEF One
  <2>4. Tagged(udp'[x].in, d) = Tagged(u.in, d) - One(g.tag, d)
    <3>1. Cardinality(Hits(Tail(u.in), Tags(d))) =
            Cardinality(Hits(u.in, Tags(d))) - (IF g \in Tags(d) THEN 1 ELSE 0)
        BY <1>1, HitsTail DEF g
    <3>2. (IF g \in Tags(d) THEN 1 ELSE 0) = One(g.tag, d)
        BY <1>3 DEF Tags, One
    <3>3. /\ Tagged(Tail(u.in), d) = Cardinality(Hits(Tail(u.in), Tags(d)))
          /\ Tagged(u.in, d) = Cardinality(Hits(u.in, Tags(d)))
        BY <1>1, <1>3, TaggedHits
    <3> QED BY <2>2, <3>1, <3>2, <3>3
  <2>5. /\ Cardinality(InQueues(udp', d)) =
             Cardinality(InQueues(udp, d)) - Tagged(u.in, d) + Tagged(udp'[x].in, d)
        /\ Cardinality(InQueues(udp, d)) \in Nat /\ Tagged(u.in, d) \in Nat
      BY <1>1, <2>2, QueuesChange
  <2>6. Cardinality(InQueues(udp', d)) = Cardinality(InQueues(udp, d)) - One(g.tag, d)
      BY <2>3, <2>4, <2>5
  <2>7. Queued(d)' = Queued(d) - One(g.tag, d) /\ WithUna(d)' = WithUna(d)
      BY <1>2, <2>6 DEF Queued, WithUna
  <2> QED BY <1>2, <2>1, <2>3, <2>7, GivenBack
<1> QED BY <1>2, <1>5 DEF OutInv

\* The queue of a released device is given back at once (U.REL).
LEMMA RelStepOut ==
  ASSUME Inv, Inv', OutInv, RelStep
  PROVE  OutInv'
<1> DEFINE x == main.dev
           q == udp[x].in
           w == [udp EXCEPT ![x].in = <<>>, ![x].iql = 0, ![x].open = FALSE]
<1>1. /\ x \in Devs /\ main.pc = "rel" /\ udp \in [Devs -> Device] /\ q \in Seq(Dgram)
      /\ GoodAll(udp) /\ GoodAll(udp')
    BY DEF RelStep, Inv, GoodAll, MainOK, Device
<1>2. udp' = GivAll(w, q) /\ main' = Idle /\ UNCHANGED <<lost, txq>>
    BY DEF RelStep
<1>3. /\ w \in [Devs -> Device]
      /\ \A y \in Devs : w[y].oql = udp[y].oql /\ w[y].in = IF y = x THEN <<>> ELSE udp[y].in
  <2> DEFINE a == [udp[x] EXCEPT !.in = <<>>]
             b == [a EXCEPT !.iql = 0]
             v == [b EXCEPT !.open = FALSE]
  <2>1. udp[x] \in Device /\ <<>> \in Seq(Dgram)
      BY <1>1
  <2>2. w = [udp EXCEPT ![x] = v]
      BY <1>1
  <2> HIDE DEF w, x
  <2>3. a \in Device /\ a.in = <<>> /\ a.oql = udp[x].oql
      BY <2>1 DEF Device
  <2> HIDE DEF a
  <2>4. b \in Device /\ b.in = <<>> /\ b.oql = udp[x].oql
      BY <2>3 DEF Device
  <2> HIDE DEF b
  <2>5. v \in Device /\ v.in = <<>> /\ v.oql = udp[x].oql
      BY <2>4 DEF Device
  <2> HIDE DEF v
  <2> QED BY <1>1, <2>2, <2>5
<1> HIDE DEF w
<1>4. \A y \in Devs : /\ udp'[y].oql = udp[y].oql - Tagged(q, y)
                      /\ udp'[y].in = IF y = x THEN <<>> ELSE udp[y].in
  <2> SUFFICES ASSUME NEW y \in Devs
               PROVE  /\ udp'[y].oql = udp[y].oql - Tagged(q, y)
                      /\ udp'[y].in = IF y = x THEN <<>> ELSE udp[y].in
      OBVIOUS
  <2> HIDE DEF x
  <2>1. udp'[y] = [w[y] EXCEPT !.oql = @ - Tagged(q, y)] /\ w[y] \in Device
      BY <1>2, <1>3 DEF GivAll
  <2>2. udp'[y].oql = w[y].oql - Tagged(q, y)
      BY <2>1 DEF Device
  <2>3. udp'[y].in = w[y].in
      BY <1>1, <1>2, <1>3, GivAllInput DEF SameInput
  <2> QED BY <1>3, <2>2, <2>3
<1>5. ASSUME NEW d \in Devs PROVE Balanced(d)'
  <2>1. Tagged(q, d) \in Nat
      BY <1>1, TaggedHits
  <2>2. Tagged(<<>>, d) = 0
    <3>1. {i \in 1 .. Len(<<>>) : <<>>[i].tag = d} = {}
        OBVIOUS
    <3> QED BY <3>1, FS_EmptySet DEF Tagged
  <2>3. udp'[x].in = <<>> /\ \A y \in Devs : y # x => udp'[y].in = udp[y].in
      BY <1>1, <1>4
  <2>4. /\ Cardinality(InQueues(udp', d)) =
             Cardinality(InQueues(udp, d)) - Tagged(q, d) + Tagged(udp'[x].in, d)
        /\ Cardinality(InQueues(udp, d)) \in Nat
    <3> HIDE DEF x
    <3> QED BY <1>1, <2>3, QueuesChange
  <2>5. Queued(d)' = Queued(d) - Tagged(q, d) /\ WithUna(d)' = WithUna(d)
    <3>1. Tagged(udp'[x].in, d) = 0
        BY <2>2, <2>3
    <3>2. Cardinality(InQueues(udp', d)) = Cardinality(InQueues(udp, d)) - Tagged(q, d)
      <4> DEFINE n == Tagged(q, d)
                 Q == Cardinality(InQueues(udp, d))
                 r == Cardinality(InQueues(udp', d))
                 z == Tagged(udp'[x].in, d)
      <4>1. r = Q - n + z /\ z = 0 /\ Q \in Nat /\ n \in Nat
          BY <2>1, <2>4, <3>1
      <4>2. r = Q - n
        <5> HIDE DEF n, Q, r, z
        <5> QED BY <4>1
      <4> QED BY <4>2
    <3> QED BY <1>2, <3>2 DEF Queued, WithUna
  <2> DEFINE n == Tagged(q, d)
  <2>6. /\ lost[d] \in Nat /\ WithUna(d) \in Nat /\ Queued(d) \in Nat /\ udp[d].oql \in Nat
        /\ udp[d].oql <= OutLimit /\ OutLimit \in Nat
      BY Numbers DEF OutInv, Balanced
  <2>7. InMain(main, d) = 0 /\ InMain(main', d) = 0
      BY <1>1, <1>2, NoPacket DEF InMain, Idle
  <2>8. udp'[d].oql = udp[d].oql - n /\ n \in Nat /\ Queued(d)' = Queued(d) - n
      BY <1>4, <2>1, <2>5
  <2> HIDE DEF n
  <2>9. /\ udp'[d].oql - udp[d].oql =
             (lost'[d] - lost[d]) + (WithUna(d)' - WithUna(d))
               + (InMain(main', d) - InMain(main, d)) + (Queued(d)' - Queued(d))
        /\ udp'[d].oql <= OutLimit /\ udp'[d].oql \in Int
      BY <1>2, <2>5, <2>6, <2>7, <2>8
  <2>10. lost'[d] \in Int /\ WithUna(d)' \in Int /\ Queued(d)' \in Int
      BY <1>2, <2>5, <2>6, <2>8
  <2> QED BY <2>9, <2>10, Balance
<1> QED BY <1>2, <1>5 DEF OutInv, Idle
\* ARPIPO hands the packet to the UNA.
LEMMA SndStepOut ==
  ASSUME Inv, OutInv, SndStep
  PROVE  OutInv'
<1>1. /\ main.pc = "snd" /\ main.dev \in Tag /\ main' = Idle
      /\ txq' = Append(txq, main.dev) /\ UNCHANGED <<udp, lost>>
    BY DEF SndStep, Inv, MainType
<1>2. ASSUME NEW d \in Devs PROVE Balanced(d)'
  <2> DEFINE o == One(main.dev, d)
  <2>1. InMain(main, d) = o /\ InMain(main', d) = 0 /\ o \in {0, 1}
      BY <1>1, NoPacket DEF InMain, Idle, One
  <2>2. WithUna(d)' = WithUna(d) + o
      BY <1>1, UnaAppend
  <2>3. Queued(d)' = Queued(d)
      BY <1>1, QueuedSame
  <2>4. /\ lost[d] \in Nat /\ WithUna(d) \in Nat /\ Queued(d) \in Nat /\ udp[d].oql \in Nat
        /\ udp[d].oql <= OutLimit
      BY Numbers DEF OutInv, Balanced
  <2>5. udp'[d].oql = udp[d].oql /\ lost'[d] = lost[d]
      BY <1>1
  <2> HIDE DEF o
  <2>6. /\ udp'[d].oql - udp[d].oql =
             (lost'[d] - lost[d]) + (WithUna(d)' - WithUna(d))
               + (InMain(main', d) - InMain(main, d)) + (Queued(d)' - Queued(d))
        /\ WithUna(d)' \in Int
      BY <2>1, <2>2, <2>3, <2>4, <2>5
  <2> QED BY <2>3, <2>4, <2>5, <2>6, Balance
<1>3. txq' \in Seq(Tag)
    BY <1>1 DEF OutInv
<1> QED BY <1>1, <1>2, <1>3 DEF OutInv, Idle

\* The devices stay as they are, and the main program has the packet it had,
\* or none before and after.
LEMMA DevicesOut ==
  ASSUME Inv, OutInv, UNCHANGED <<udp, lost>>, txq' = txq \/ txq' = Append(txq, None),
         \/ main' = main
         \/ main.dev = None /\ main'.dev = None
         \/ main.pc # "rel" /\ \E pc \in {"snd", "ask", "getab"} : main' = [main EXCEPT !.pc = pc]
  PROVE  OutInv'
<1>1. \A d \in Devs : Queued(d)' = Queued(d)
    BY QueuedSame
<1>2. CASE main' = main
    BY <1>1, <1>2, StillOut DEF OutInv
<1>3. CASE main.dev = None /\ main'.dev = None
  <2>1. \A d \in Devs : InMain(main', d) = InMain(main, d)
      BY <1>3, NoPacket
  <2> QED BY <1>1, <1>3, <2>1, StillOut
<1>4. ASSUME main.pc # "rel", NEW pc \in {"snd", "ask", "getab"}, main' = [main EXCEPT !.pc = pc]
      PROVE  OutInv'
  <2>1. main \in MainType /\ pc # "rel"
      BY DEF Inv
  <2>2. main'.pc = pc /\ \A d \in Devs : InMain(main', d) = InMain(main, d)
    <3>1. main'.pc = pc
        BY <1>4, <2>1 DEF MainType
    <3> QED BY <1>4, <2>1, <3>1, SamePacket
  <2>3. main'.pc \notin {"idle", "sec", "giv", "cla"}
      BY <2>2
  <2> QED BY <1>1, <1>4, <2>2, <2>3, StillOut
<1> QED BY <1>2, <1>3, <1>4

LEMMA FndStepOut ==
  ASSUME Inv, OutInv, FndStep
  PROVE  OutInv'
<1>1. main.pc = "fnd" /\ UNCHANGED <<lost, txq>>
    BY DEF FndStep
<1>2. \/ Drop
      \/ UNCHANGED udp /\ \E pc \in {"snd", "ask", "getab"} : main' = [main EXCEPT !.pc = pc]
    BY DEF FndStep
<1> QED BY <1>1, <1>2, DropOut, DevicesOut

\* The once-a-second routine and the clearing of the cache have no packet.
LEMMA WalkOut ==
  ASSUME Inv, OutInv, SecStep \/ SecGiv \/ ClaStep \/ Tick \/ Clear
  PROVE  OutInv'
<1>1. UNCHANGED <<udp, lost>> /\ txq' = txq /\ main.dev = None
    BY DEF SecStep, SecGiv, ClaStep, Tick, Clear, ipVars, OutInv
<1>2. \/ main' = main \/ main' = Idle
      \/ \E pc \in {"sec", "giv"} : main' = [main EXCEPT !.pc = pc]
      \/ Go("sec", None, None, 0) \/ Go("cla", None, None, 0)
    BY DEF SecStep, SecGiv, ClaStep, Tick, Clear, SecNext
<1>3. main'.dev = None
  <2>1. ASSUME NEW pc, main' = [main EXCEPT !.pc = pc] PROVE main'.dev = None
      BY <1>1, <2>1 DEF Inv, MainType
  <2> QED BY <1>1, <1>2, <2>1 DEF Idle, Go
<1> QED BY <1>1, <1>3, DevicesOut

LEMMA MainStepOut ==
  ASSUME Inv, Inv', OutInv, MainStep
  PROVE  OutInv'
<1>1. CASE StorStep
    BY <1>1, StorStepOut
<1>2. CASE FndStep
    BY <1>2, FndStepOut
<1>3. CASE AskStep
  <2>1. main.pc # "rel" /\ UNCHANGED <<udp, lost>> /\ txq' = Append(txq, None)
        /\ main' = [main EXCEPT !.pc = "getab"]
      BY <1>3 DEF AskStep
  <2> QED BY <2>1, DevicesOut
<1>4. CASE GetAbStep
    BY <1>4, DropOut DEF GetAbStep
<1>5. CASE SndStep
    BY <1>5, SndStepOut
<1>6. CASE RelStep
    BY <1>6, RelStepOut
<1>7. CASE SecStep \/ SecGiv \/ ClaStep
    BY <1>7, WalkOut
<1> QED BY <1>1, <1>2, <1>3, <1>4, <1>5, <1>6, <1>7 DEF MainStep

-----------------------------------------------------------------------------
LEMMA OutInvInit == Init => OutInv
<1> SUFFICES ASSUME Init PROVE OutInv
    OBVIOUS
<1> DEFINE u == [open |-> FALSE, port |-> 0, in |-> <<>>, iql |-> 0, oql |-> 0]
<1>1. /\ udp = [d \in Devs |-> u] /\ txq = <<>> /\ main.dev = None
      /\ lost = [d \in Devs |-> 0]
    BY DEF Init, Idle
<1>2. \A d \in Devs : udp[d].in = <<>> /\ udp[d].oql = 0 /\ lost[d] = 0
    BY <1>1
<1> HIDE DEF u
<1>3. Cardinality({}) = 0
    BY FS_EmptySet
<1>4. ASSUME NEW d \in Devs PROVE Balanced(d)
  <2>1. \A x \in Devs : {x} \X {i \in 1 .. Len(udp[x].in) : udp[x].in[i].tag = d} = {}
    <3> SUFFICES ASSUME NEW x \in Devs
                 PROVE  {x} \X {i \in 1 .. Len(udp[x].in) : udp[x].in[i].tag = d} = {}
        OBVIOUS
    <3>1. Len(udp[x].in) = 0
        BY <1>2
    <3> QED BY <3>1
  <2>2. InQueues(udp, d) = {}
      BY <2>1 DEF InQueues
  <2>3. Queued(d) = 0
      BY <1>3, <2>2 DEF Queued
  <2>4. Hits(txq, {d}) = {}
    <3>1. Len(txq) = 0
        BY <1>1
    <3> QED BY <3>1 DEF Hits
  <2>5. WithUna(d) = 0
      BY <1>3, <2>4 DEF WithUna
  <2>6. InMain(main, d) = 0 /\ OutLimit \in Nat
      BY <1>1, NoPacket, IpAssumption
  <2> QED BY <1>2, <2>3, <2>5, <2>6 DEF Balanced
<1> QED BY <1>1, <1>4 DEF OutInv

LEMMA OutInvStep == Inv /\ Inv' /\ OutInv /\ [Next]_vars => OutInv'
<1> SUFFICES ASSUME Inv, Inv', OutInv, [Next]_vars PROVE OutInv'
    OBVIOUS
<1>1. CASE UNCHANGED vars
    BY <1>1, DevicesOut DEF vars
<1>2. ASSUME NEW d \in Devs, Open(d) PROVE OutInv'
    BY <1>2, OpenOut
<1>3. ASSUME NEW d \in Devs, Read(d) PROVE OutInv'
    BY <1>3, ReadOut
<1>4. ASSUME NEW d \in Devs, Release(d) PROVE OutInv'
    BY <1>4, ReleaseOut
<1>5. ASSUME NEW d \in Devs, NEW p \in Ports, Bind(d, p) PROVE OutInv'
    BY <1>5, BindOut
<1>6. ASSUME NEW d \in Devs, NEW to \in Hosts \cup {Self}, NEW p \in AllPorts \ {0},
             Send(d, to, p)
      PROVE  OutInv'
    BY <1>6, SendOut
<1>7. CASE Tick \/ Clear
    BY <1>7, WalkOut
<1>8. CASE MainStep
    BY <1>8, MainStepOut
<1>9. CASE TxDone
    BY <1>9, TxDoneOut
<1>10. ASSUME NEW h \in Hosts, NEW e \in Eths, RxArp(h, e) PROVE OutInv'
    BY <1>10, DevicesOut DEF RxArp
<1>11. ASSUME NEW h \in Hosts, NEW p \in AllPorts, RxUdp(h, p) PROVE OutInv'
    BY <1>11, RxUdpOut
<1> QED
    BY <1>1, <1>2, <1>3, <1>4, <1>5, <1>6, <1>7, <1>8, <1>9, <1>10, <1>11 DEF Next

LEMMA OutInvAlways == Spec => []OutInv
  BY InvAlways, OutInvInit, OutInvStep, PTL DEF Spec

\* udpoql counts the datagrams of the device that are with the main program,
\* with the UNA, in an input queue, or lost by ICMP.E: none is given back
\* twice and no other is kept (MAKUDP, U.CBK and every GIVPD on the way).
THEOREM OutputsCounted == Spec => []OutputCounted
<1>1. OutInv => OutputCounted
  <2> SUFFICES ASSUME OutInv, NEW d \in Devs
               PROVE  udp[d].oql = lost[d] + Cardinality({i \in 1 .. Len(txq) : txq[i] = d})
                        + (IF main.dev = d /\ main.pc # "rel" THEN 1 ELSE 0)
                        + Cardinality(InQueues(udp, d))
      BY DEF OutputCounted
  <2>1. {i \in 1 .. Len(txq) : txq[i] = d} = Hits(txq, {d})
      BY DEF Hits
  <2>2. (IF main.dev = d /\ main.pc # "rel" THEN 1 ELSE 0) = InMain(main, d)
      BY DEF InMain, One
  <2> QED BY <2>1, <2>2 DEF OutInv, Balanced, WithUna, Queued
<1> QED BY <1>1, OutInvAlways, PTL

\* Every variable stays in its range: no device has more under way than
\* OutLimit or less than nothing, and the pointer of ARPSEC and ARPCLA stays
\* in the list.
THEOREM IpTypesCorrect == Spec => []IpTypeOK
<1>1. Inv /\ ArpInv /\ OutInv => IpTypeOK
  <2> SUFFICES ASSUME Inv, ArpInv, OutInv PROVE IpTypeOK
      OBVIOUS
  <2>1. ASSUME NEW d \in Devs PROVE udp[d].oql \in 0 .. OutLimit /\ lost[d] \in 0 .. OutLimit
    <3>1. /\ lost[d] \in Nat /\ WithUna(d) \in Nat /\ InMain(main, d) \in {0, 1}
          /\ Queued(d) \in Nat /\ udp[d].oql \in Nat /\ OutLimit \in Nat
        BY Numbers
    <3>2. /\ udp[d].oql = lost[d] + WithUna(d) + InMain(main, d) + Queued(d)
          /\ udp[d].oql <= OutLimit
        BY DEF OutInv, Balanced
    <3> QED BY <3>1, <3>2
  <2>2. ASSUME NEW d \in Devs
        PROVE  udp[d] \in [open : BOOLEAN, port : AllPorts, in : Seq(Dgram),
                           iql : Nat, oql : 0 .. OutLimit]
      BY <2>1 DEF Inv, GoodAll, Device
  <2>3. udp = [d \in Devs |-> udp[d]] /\ lost = [d \in Devs |-> lost[d]]
      BY DEF Inv, GoodAll, OutInv
  <2>4. left \in 0 .. Len(arlst)
    <3>1. Len(arlst) \in Nat
        BY DEF ArpInv, ArpTypeOK
    <3> QED BY <3>1 DEF ArpInv, Walking
  <2> QED BY <2>1, <2>2, <2>3, <2>4 DEF IpTypeOK, Inv, ArpInv, OutInv
<1> QED BY <1>1, InvAlways, ArpInvInit, ArpInvStep, OutInvAlways, PTL DEF Spec
=============================================================================
