------------------------------ MODULE IpStack ------------------------------
(***************************************************************************)
(* IP for TOPS-10: the UDP devices of udpser.mac, the routing of ipser.mac *)
(* and iprout.mac, and ARPFND and ARPIPO of arpser.mac, above the transmit *)
(* queue of the UNA (EtherService says what the UNA does with it).         *)
(*                                                                         *)
(* The main program executes one call of a user, or the once-a-second      *)
(* routine, at a time; `main' holds where it is.  Calls of different users *)
(* do not overlap: the monitor does not reschedule inside one.  An         *)
(* interrupt of the UNA comes between any two steps of it, never inside a  *)
(* region between ip4off and ip4on, and runs to its end.                   *)
(*                                                                         *)
(* A packet is what the counters must know of it: `tag' is the device its  *)
(* callback goes to, `port' the destination port, `own' whether it came    *)
(* for the present user of the device.  Asleep jobs, the copying of data   *)
(* and fragments are not modelled.                                         *)
(***************************************************************************)
EXTENDS ArpCache

CONSTANTS
  Devs,              \* the devices UDP0:, UDP1:, ...
  Ports,             \* the local ports that users ask for
  Echo, Discard,     \* the well-known ports 7 and 9
  InLimit,           \* datagrams in an input queue, 5
  OutLimit,          \* datagrams of a device under way, 2
  MaxTx,             \* bound: packets in the transmit queue
  MaxInputs, MaxAll  \* bounds: inputs of each kind, and all of them

ASSUME IpAssumption ==
  /\ IsFiniteSet(Devs) /\ None \notin Devs
  /\ 0 \notin Ports /\ {Echo, Discard} \cap (Ports \cup {0}) = {}
  /\ InLimit \in Nat \ {0} /\ OutLimit \in Nat \ {0} /\ MaxTx \in Nat
  /\ MaxInputs \in [{"open", "send", "arp", "dgram", "tick", "clear"} -> Nat]
  /\ MaxAll \in Nat

VARIABLES
  udp,   \* the device data blocks
  txq,   \* the tags of the packets the UNA has been given
  main,  \* the main program
  left,  \* blocks of the ARP list that its walk has before it
  lost,  \* for each device the datagrams that were never given back
  used   \* the inputs so far

vars == <<arlst, arcnt, gone, last, udp, txq, main, left, lost, used>>
ipVars == <<udp, txq, lost>>

Self == None                     \* our own IP address, ouripa
AllPorts == Ports \cup {0, Echo, Discard}
Tag == Devs \cup {None}
Dgram == [tag : Tag, port : AllPorts, own : BOOLEAN]

MainType == [pc : {"idle", "stor", "fnd", "ask", "getab", "snd", "rel", "sec",
                  "giv", "cla"},
             dev : Tag, to : Tag \cup Hosts, port : AllPorts]
Idle == [pc |-> "idle", dev |-> None, to |-> None, port |-> 0]
Input == {"open", "send", "arp", "dgram", "tick", "clear"}
Use(k) ==
  /\ used[k] < MaxInputs[k]
  /\ FoldFunction(+, 0, used) < MaxAll
  /\ used' = [used EXCEPT ![k] = @ + 1]

Init ==
  /\ ArpInit
  /\ udp = [d \in Devs |-> [open |-> FALSE, port |-> 0, in |-> <<>>,
                            iql |-> 0, oql |-> 0]]
  /\ txq = <<>>
  /\ main = Idle /\ left = 0
  /\ lost = [d \in Devs |-> 0]
  /\ used = [k \in Input |-> 0]

-----------------------------------------------------------------------------
\* Packets.  Each operator maps the devices to what the routine leaves.

\* GIVPD with the callback U.CBK, for one packet and for a queue of them.
GivPd(u, tag) == IF tag = None THEN u ELSE [u EXCEPT ![tag].oql = @ - 1]
Tagged(q, d) == Cardinality({i \in 1 .. Len(q) : q[i].tag = d})

\* For mutation: a queue is given back without its callbacks.
GivSilent(u, q) == u

GivAll(u, q) == [d \in Devs |-> [u[d] EXCEPT !.oql = @ - Tagged(q, d)]]

\* UDPIN: two devices have the same port only if it is 0.
Listener(port) ==
  IF \E d \in Devs : udp[d].port = port
  THEN CHOOSE d \in Devs : udp[d].port = port ELSE None

\* For mutation: one more fits.
FullLate(d) == udp[d].iql > InLimit

Full(d) == udp[d].iql >= InLimit

\* U.STOR with interrupts off.
Stor(d, g) ==
  [udp EXCEPT ![d].in = Append(@, g),
              ![d].iql = IF udp[d].in = <<>> THEN 1 ELSE @ + 1]

-----------------------------------------------------------------------------
\* Calls of users.

\* The monitor gives a device to a job.
Open(d) ==
  /\ main.pc = "idle" /\ ~udp[d].open /\ Use("open")
  /\ udp' = [udp EXCEPT ![d].open = TRUE,
               ![d].in = [i \in DOMAIN @ |-> [@[i] EXCEPT !.own = FALSE]]]
  /\ UNCHANGED <<arpVars, txq, main, left, lost>>

\* UDFSET, ISFREE, FPORT.  UDPUUO does not check that the device is the
\* user's; here users name their own.
Bind(d, port) ==
  /\ main.pc = "idle" /\ udp[d].open
  /\ \A x \in Devs \ {d} : udp[x].port # port
  /\ udp' = [udp EXCEPT ![d].port = port]
  /\ UNCHANGED <<arpVars, txq, main, left, lost, used>>

Go(pc, d, to, port) == main' = [pc |-> pc, dev |-> d, to |-> to, port |-> port]

\* For mutation: one more may be under way.
MaySendLate(d) == udp[d].port # 0 /\ udp[d].oql <= OutLimit

MaySend(d) == udp[d].port # 0 /\ udp[d].oql < OutLimit

\* IPROUT: a datagram for our own address goes to IPIN, any other to ARPIPO.
ToUs(to) == to = Self

\* UDPIN for a datagram of device d: the device whose queue it goes to.  An
\* echo comes back to d.
Target(d, port) ==
  IF Listener(port) # None THEN Listener(port) ELSE IF port = Echo THEN d ELSE None

\* ICMP.E gives back P2, the data, instead of P1, the packet.
IcmpE(d) == lost' = [lost EXCEPT ![d] = @ + 1]

\* UDFWRI or U.OUT, MAKUDP and IPOUT.
Send(d, to, port) ==
  LET t == Target(d, port)
      out == [udp EXCEPT ![d].oql = @ + 1]
  IN /\ main.pc = "idle" /\ MaySend(d) /\ Use("send")
     /\ CASE ~ToUs(to) ->
               udp' = out /\ Go("fnd", d, to, port) /\ UNCHANGED lost
          [] ToUs(to) /\ t # None ->
               IF Full(t) THEN UNCHANGED <<udp, main, lost>>
               ELSE udp' = out /\ Go("stor", d, t, port) /\ UNCHANGED lost
          [] ToUs(to) /\ t = None /\ port = Discard ->
               UNCHANGED <<udp, main, lost>>
          [] OTHER -> udp' = out /\ IcmpE(d) /\ UNCHANGED main
     /\ UNCHANGED <<arpVars, txq, left>>

\* U.STOR, after it has looked at the length of the queue.
StorStep ==
  /\ main.pc = "stor"
  /\ udp' = Stor(main.to, [tag |-> main.dev, port |-> main.port, own |-> TRUE])
  /\ main' = Idle
  /\ UNCHANGED <<arpVars, txq, left, lost, used>>

\* For mutation: the packet is forgotten.
DropKeeps == UNCHANGED udp /\ main' = Idle

\* The packet of the main program is given back.
Drop == udp' = GivPd(udp, main.dev) /\ main' = Idle

\* ARPFND looks the address up; there may be no memory for a query.
FndStep ==
  /\ main.pc = "fnd"
  /\ CASE Known(arlst, main.to) ->
            main' = [main EXCEPT !.pc = "snd"] /\ UNCHANGED udp
       [] ArpLuk(arlst, main.to) = 0 ->
            Drop \/ (main' = [main EXCEPT !.pc = "ask"] /\ UNCHANGED udp)
       [] OTHER -> Drop
  /\ UNCHANGED <<arpVars, txq, left, lost, used>>

\* UNASND for the query.
AskStep ==
  /\ main.pc = "ask" /\ Len(txq) < MaxTx
  /\ txq' = Append(txq, None) /\ main' = [main EXCEPT !.pc = "getab"]
  /\ UNCHANGED <<arpVars, udp, left, lost, used>>

\* The query is out; a reply may be in the cache already.
GetAbStep ==
  /\ main.pc = "getab"
  /\ IF Room THEN GetAb(main.to) ELSE UNCHANGED <<arlst, arcnt>>
  /\ Drop
  /\ UNCHANGED <<gone, last, txq, left, lost, used>>

\* ARPIPO found the address: UNASND.
SndStep ==
  /\ main.pc = "snd" /\ Len(txq) < MaxTx
  /\ txq' = Append(txq, main.dev) /\ main' = Idle
  /\ UNCHANGED <<arpVars, udp, left, lost, used>>

\* UDFREA or U.IN.
Read(d) ==
  /\ main.pc = "idle" /\ udp[d].open /\ udp[d].in # <<>>
  /\ udp' = GivPd([udp EXCEPT ![d].in = Tail(@), ![d].iql = @ - 1],
                  Head(udp[d].in).tag)
  /\ UNCHANGED <<arpVars, txq, main, left, lost, used>>

\* U.REL: first the port, ...
Release(d) ==
  /\ main.pc = "idle" /\ udp[d].open
  /\ udp' = [udp EXCEPT ![d].port = 0]
  /\ Go("rel", d, None, 0)
  /\ UNCHANGED <<arpVars, txq, left, lost, used>>

\* For mutation: what is queued stays for the next user.
RelKeeps ==
  /\ main.pc = "rel"
  /\ udp' = [udp EXCEPT ![main.dev].open = FALSE]
  /\ main' = Idle
  /\ UNCHANGED <<arpVars, txq, left, lost, used>>

\* ... then the queue.
RelStep ==
  LET d == main.dev
  IN /\ main.pc = "rel"
     /\ udp' = GivAll([udp EXCEPT ![d].in = <<>>, ![d].iql = 0, ![d].open = FALSE],
                      udp[d].in)
     /\ main' = Idle
     /\ UNCHANGED <<arpVars, txq, left, lost, used>>

-----------------------------------------------------------------------------
\* ARPSEC once a second, and ARPCLA.

Here == Len(arlst) - left + 1
SecNext(n) == left' = n /\ main' = IF n = 0 THEN Idle ELSE [main EXCEPT !.pc = "sec"]

Tick ==
  /\ main.pc = "idle" /\ arlst # <<>> /\ Use("tick")
  /\ Go("sec", None, None, 0) /\ left' = Len(arlst)
  /\ UNCHANGED <<arpVars, ipVars>>

SecStep ==
  /\ main.pc = "sec"
  /\ Decrement(Here)
  /\ IF Dies(Here) THEN main' = [main EXCEPT !.pc = "giv"] /\ UNCHANGED left
                   ELSE SecNext(left - 1)
  /\ UNCHANGED <<arcnt, gone, last, ipVars, used>>

\* GIVAB, with interrupts off; the block may have been refreshed since.
SecGiv ==
  /\ main.pc = "giv"
  /\ GivAb(Here) /\ SecNext(left - 1)
  /\ UNCHANGED <<gone, ipVars, used>>

Clear ==
  /\ main.pc = "idle" /\ Use("clear")
  /\ TakeOff
  /\ IF arlst = <<>> THEN UNCHANGED main ELSE Go("cla", None, None, 0)
  /\ UNCHANGED <<ipVars, left>>

ClaStep ==
  /\ main.pc = "cla"
  /\ IF gone # <<>> THEN GivFirst /\ left' = Len(gone) - 1
     ELSE GivAb(Here) /\ UNCHANGED gone /\ left' = left - 1
  /\ main' = IF left' = 0 THEN Idle ELSE main
  /\ UNCHANGED <<ipVars, used>>

-----------------------------------------------------------------------------
\* Interrupts of the UNA.

\* I.TXI: a packet has left.
TxDone ==
  /\ txq # <<>>
  /\ udp' = GivPd(udp, Head(txq)) /\ txq' = Tail(txq)
  /\ UNCHANGED <<arpVars, main, left, lost, used>>

\* ARPINP: a reply, a query for another host or a query for us.
RxArp(h, e) ==
  /\ Use("arp")
  /\ \/ UNCHANGED txq
     \/ Len(txq) < MaxTx /\ txq' = Append(txq, None)
  /\ IF ArpLuk(arlst, h) # 0 \/ Room THEN Store(h, e)
     ELSE UNCHANGED <<arlst, arcnt, last>>
  /\ UNCHANGED <<gone, udp, main, left, lost>>

\* ARPIPO and ARPFND for an answer that goes out in the interrupt.
Answer(h) ==
  /\ Len(txq) < MaxTx
  /\ CASE Known(arlst, h) -> txq' = Append(txq, None) /\ UNCHANGED <<arlst, arcnt>>
       [] ArpLuk(arlst, h) = 0 ->
            /\ txq' = Append(txq, None)
            /\ IF Room THEN GetAb(h) ELSE UNCHANGED <<arlst, arcnt>>
       [] OTHER -> UNCHANGED <<txq, arlst, arcnt>>

\* UNAIPI, IPROUT, IPIN, UDPIN; ICMPIN answers an echo as U.ECHO does.
RxUdp(h, port) ==
  LET t == Listener(port)
      g == [tag |-> None, port |-> port, own |-> udp[t].open]
  IN /\ Use("dgram")
     /\ IF t # None
        THEN /\ udp' = IF Full(t) THEN udp ELSE Stor(t, g)
             /\ UNCHANGED <<arlst, arcnt, txq>>
        ELSE /\ UNCHANGED udp
             /\ IF port = Echo THEN Answer(h) ELSE UNCHANGED <<arlst, arcnt, txq>>
     /\ UNCHANGED <<gone, last, main, left, lost>>

MainStep ==
  \/ StorStep \/ FndStep \/ AskStep \/ GetAbStep \/ SndStep
  \/ RelStep \/ SecStep \/ SecGiv \/ ClaStep

Next ==
  \/ \E d \in Devs : \/ Open(d) \/ Read(d) \/ Release(d)
                     \/ \E p \in Ports : Bind(d, p)
                     \/ \E to \in Hosts \cup {Self}, p \in AllPorts \ {0} : Send(d, to, p)
  \/ Tick \/ Clear \/ MainStep
  \/ TxDone
  \/ \E h \in Hosts, e \in Eths : RxArp(h, e)
  \/ \E h \in Hosts, p \in AllPorts : RxUdp(h, p)

\* A transmission ends, and the main program goes on with what it has begun.
Spec == Init /\ [][Next]_vars /\ WF_vars(TxDone) /\ WF_vars(MainStep)

-----------------------------------------------------------------------------
\* Every variable stays in its range, and a pointer into the list in the list.
IpTypeOK ==
  /\ ArpTypeOK
  /\ udp \in [Devs -> [open : BOOLEAN, port : AllPorts, in : Seq(Dgram),
                       iql : Nat, oql : 0 .. OutLimit]]
  /\ txq \in Seq(Tag)
  /\ main \in MainType
  /\ left \in 0 .. Len(arlst)
  /\ lost \in [Devs -> 0 .. OutLimit]

\* udpiql is the length of the input queue, which exceeds its limit by no more
\* than the datagram that came from the network while one from our own host
\* was between the look at udpiql and the queue (U.STOR, UDFREA, U.REL).
InputCounted ==
  \A d \in Devs : /\ udp[d].iql = Len(udp[d].in)
                  /\ Len(udp[d].in) <= InLimit + 1

\* The datagrams of device d in the input queues, each by the queue and its
\* place there.
InQueues(u, d) ==
  UNION {{x} \X {i \in 1 .. Len(u[x].in) : u[x].in[i].tag = d} : x \in Devs}

\* udpoql counts the datagrams of the device that are with the main program,
\* with the UNA, in an input queue, or lost: each is given back once (MAKUDP,
\* U.CBK and every GIVPD on the way).
OutputCounted ==
  \A d \in Devs :
    udp[d].oql = lost[d] + Cardinality({i \in 1 .. Len(txq) : txq[i] = d})
       + (IF main.dev = d /\ main.pc # "rel" THEN 1 ELSE 0)
       + Cardinality(InQueues(udp, d))

\* A datagram in the queue of a device came for its present user, unless it
\* was sent to port 0, which is the port of a device without one (U.REL, UDPIN).
OwnInput ==
  \A d \in Devs : udp[d].open =>
    \A i \in 1 .. Len(udp[d].in) : udp[d].in[i].own \/ udp[d].in[i].port = 0

\* A device with too much under way can send again in the end, unless ICMP.E
\* has lost a datagram of it, or a user does not read what it has been sent
\* (UDFWRI, U.CBK, I.TXI).
SlotsReturn ==
  \A d \in Devs :
    []<>(\/ udp[d].oql < OutLimit \/ lost[d] > 0
         \/ \E x \in Devs : Tagged(udp[x].in, d) > 0)
=============================================================================
