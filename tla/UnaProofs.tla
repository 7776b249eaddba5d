----------------------------- MODULE UnaProofs -----------------------------
(***************************************************************************)
(* The TOPS-10 driver on the DEUNA, for any number of packets, arrivals    *)
(* and receive entries: the inductive invariant Inv, and the part of the   *)
(* proof that concerns the start-up of the port and the transmitter.       *)
(***************************************************************************)
EXTENDS UnaSystem, DeunaProofs

R(i) == rxring[Rdr][i]      \* the driver's receive entries
Tx   == txring[Tdr][0]      \* its one transmit entry

-----------------------------------------------------------------------------
(* The invariant: its part on the start-up. *)

\* The commands of unaonc, as far as they still wait, end in START, which comes
\* after the ring format.
BootQueue ==
  \A i \in 1 .. Len(unacmq) : /\ unacmq[i] = "qf.sta" <=> i = Len(unacmq)
                              /\ unacmq[i] = "qf.wfm" <=> i = Len(unacmq) - 1

Booting  == unacmq # <<>> \/ mpc = "onc"
Prepared == Len(unacmq) <= 1 /\ mpc # "onc"    \* the rings have been built

DriverCmds == {"NOOP", "GETPCB", "GETCMD", "START", "PDMD"}
NoFormat   == [tdrb |-> Hole, rdrb |-> Hole]

BootInv ==
  /\ BootQueue
  /\ mpc = "onc" => hpc = "off" /\ unacmq = <<>> /\ unacip = None /\ ~inte /\ ~intreq
  /\ Booting => /\ state # "RUNNING" /\ pcmd # "START" /\ unacip # "qf.sta"
                /\ xmq = <<>> /\ ~xip /\ mpc \in {"onc", "idle"}
  /\ resetflag => state = "RESET"
  /\ pcmd \in DriverCmds
  /\ pcb.fmt = Format
  /\ ring \in {NoFormat, Format}

\* Before START there is no reception.
QuietInv ==
  state # "RUNNING" =>
    /\ ~ethon /\ wire = <<>> /\ rxnext = 0 /\ unarxn = 0
    /\ "RXI" \notin status /\ "RXI" \notin p4
    /\ hpc # "rxi" /\ hpc # "rxi.2" /\ hret # "rxi.2"
    /\ \A i \in RxIdx : R(i).frame = None

-----------------------------------------------------------------------------
(* Its part on the receiver. *)

\* The descriptor that the port holds is the next one of the driver's ring.
Held == rxhdr.own =>
  rxactive /\ ring = Format /\ rxea = <<Rdr, rxnext>> /\ R(rxnext).own
AllMapped == rxhdr.dma /\ \A r \in RxRings, i \in RxIdx : rxring[r][i].dma

\* The handler has seen that the entry at unarxn is filled.
AtEntry == hpc = "rxi.2" \/ (hpc \in {"tdr", "poll"} /\ hret = "rxi.2")

\* From unarxn on there are n filled entries, and then free ones.
Place(j) == (unarxn + j) % RxLen
Segment(n) ==
  /\ rxnext = Place(n)
  /\ \A j \in RxIdx : j < n => ~R(Place(j)).own /\ R(Place(j)).frame # None
  /\ \A j \in RxIdx : j >= n => R(Place(j)).frame = None /\ (Prepared => R(Place(j)).own)
  /\ AtEntry => n # 0

\* The frames in these entries and then on the wire come in order, after the
\* one that was given last.
LastFrame    == IF given = <<>> THEN MaxPkts ELSE given[Len(given)]
PipeAt(n, j) == IF j < n THEN R(Place(j)).frame ELSE wire[j - n + 1]
PipeIdx(n)   == 0 .. n + Len(wire) - 1
Pipe(n) ==
  /\ \A i, j \in PipeIdx(n) : i < j => PipeAt(n, i) < PipeAt(n, j)
  /\ \A i \in PipeIdx(n) : PipeAt(n, i) <= MaxPkts + narr
  /\ \A i \in PipeIdx(n) : \/ LastFrame < PipeAt(n, i)
                           \/ AtEntry /\ i = 0 /\ LastFrame = PipeAt(n, i)
RxOrder == \E n \in 0 .. RxLen : Segment(n) /\ Pipe(n)

RxInv == Held /\ AllMapped /\ RxOrder /\ RxNoticed /\ LastFrame \in MaxPkts .. MaxPkts + narr

-----------------------------------------------------------------------------
(* Its part on the transmitter. *)

\* The packet in progress is in one place: to be filled into the entry, in the
\* entry, reported by TXI, or with the handler that has cleared TXI.
TxHand  == "TXI" \in p4 /\ hpc \in {"rxi", "rxi.2", "txi"}
TxReady == "TXI" \in status
TxPlaces ==
  /\ Tx.own  => ~TxReady /\ ~TxHand /\ xip /\ mpc # "tdr" /\ hpc # "tdr"
  /\ TxReady => ~TxHand /\ xip /\ mpc # "tdr" /\ hpc # "tdr"
  /\ TxHand  => xip /\ mpc # "tdr"
  /\ hpc = "tdr" => xip /\ mpc # "tdr"
  /\ mpc = "tdr" => xip
  /\ xip => Tx.own \/ TxReady \/ TxHand \/ mpc = "tdr" \/ hpc = "tdr"

\* What the handler knows of the bits it has read.
TxHandler ==
  /\ hpc = "wrio" => p4 \subseteq status
  /\ hpc = "txi" => "TXI" \in p4
  /\ hpc \in {"tdr", "poll"} /\ hret = "rxi.2" => "TXI" \notin p4

\* The queue holds the last packets, and those before them have left; its head
\* has left as well when it is with the controller or behind it.
TxQueue ==
  /\ xip \/ mpc = "xip" => xmq # <<>>
  /\ mpc = "xip" => ~xip
  /\ Len(xmq) <= npkt
  /\ \A i \in 1 .. Len(xmq) : xmq[i] = npkt - Len(xmq) + i
  /\ Tx.own => Tx.frame = xmq[1]
  /\ txflag => Tx.own /\ txea = <<Tdr, 0>>
  /\ Len(sent) = npkt - Len(xmq) + (IF txflag \/ TxReady \/ TxHand THEN 1 ELSE 0)

TxInv == TxPlaces /\ TxHandler /\ TxQueue

Inv == SysTypeOK /\ BootInv /\ QuietInv /\ RxInv /\ TxInv

-----------------------------------------------------------------------------
\* The driver's own rings.
LEMMA Consts ==
  /\ Format \in Formats /\ Format = [tdrb |-> Tdr, rdrb |-> Rdr]
  /\ Tdr \in TxRings /\ Rdr \in RxRings /\ Hole \notin TxRings /\ Hole \notin RxRings
  /\ MaxPkts \in Nat /\ MaxArrive \in Nat /\ Frames = 1 .. MaxPkts + MaxArrive
  /\ RxLen \in Nat /\ RxLen >= 2 /\ RxIdx = 0 .. RxLen - 1 /\ TxIdx = {0}
  /\ None \notin Frames /\ None \notin Functions
<1>1. Format \in Formats
    BY UnaAssumption DEF Format
<1>2. Format \in [tdrb : TxRings, rdrb : RxRings]
    BY <1>1, UnaAssumption
<1>3. TxIdx = {0}
    BY UnaAssumption DEF TxIdx
<1> QED BY <1>1, <1>2, <1>3, UnaAssumption, DeunaAssumption DEF Tdr, Rdr, RxIdx

\* The command blocks that the driver writes.
LEMMA BlockType == Block("plain") \in AuxCmd /\ Block("wr_ring") \in AuxCmd
  BY Consts, UnaAssumption DEF Block, AuxCmd

DriverTypes ==
  /\ unacmq \in Seq(Functions) /\ unacip \in Functions \cup {None}
  /\ xmq \in Seq(1 .. MaxPkts) /\ xip \in BOOLEAN
  /\ unarxn \in RxIdx /\ unapol \in BOOLEAN /\ unapip \in BOOLEAN
  /\ pcb \in AuxCmd /\ p4 \subseteq Bits
  /\ hpc \in {"off", "rdio", "wrio", "rxi", "rxi.2", "txi", "dni", "tdr", "poll", "pcsr", "cmd"}
  /\ hret \in {"off", "rxi.2", "dni"}
  /\ mpc \in {"onc", "idle", "xip", "tdr", "pol", "cip", "pip", "wrio", "setpip", "clrpol"}
  /\ npkt \in 0 .. MaxPkts /\ narr \in 0 .. MaxArrive
  /\ sent \in Seq(Frames) /\ given \in Seq(Frames)
  /\ lost \subseteq Stalls

\* The type invariant is that of the controller and that of the driver.
LEMMA SysTypes == SysTypeOK <=> TypeOK /\ DriverTypes
  BY DEF SysTypeOK, DriverTypes

-----------------------------------------------------------------------------
(* Types of the controller under the driver's accesses. *)

\* A word write of PCSR0 by the driver.
LEMMA WritePcsr0Type ==
  ASSUME TypeOK, NEW w1c, NEW ie \in BOOLEAN, NEW cmd \in Cmds,
         WritePcsr0(w1c, ie, cmd), UNCHANGED <<mem, eth>>
  PROVE  TypeOK'
<1>1. TypeCsrs'
    BY DEF WritePcsr0, SetInt, TypeOK, TypeCsrs
<1>2. TypeFlags'
  <2>1. resetflag' \in BOOLEAN /\ vectored' \in BOOLEAN
      BY DEF WritePcsr0, TypeOK, TypeFlags
  <2>2. intreq' \in BOOLEAN
      BY DEF WritePcsr0, SetInt, TypeOK, TypeFlags
  <2>3. cmdflag' \in BOOLEAN /\ active' \in BOOLEAN
      BY DEF WritePcsr0, TypeOK, TypeFlags
  <2> QED BY <2>1, <2>2, <2>3 DEF TypeFlags
<1>3. TypePort' /\ TypeTx' /\ TypeRx'
    BY DEF WritePcsr0, port, txside, rxside, TypeOK, TypePort, TypeTx, TypeRx
<1>4. TypeMem' /\ TypeEth'
    BY DEF mem, eth, TypeOK, TypeMem, TypeEth
<1> QED BY <1>1, <1>2, <1>3, <1>4 DEF TypeOK

\* A write of the address register, an interrupt taken.
LEMMA HostType ==
  ASSUME TypeOK, (WritePcsr23("pcb") \/ TakeInterrupt), UNCHANGED <<mem, eth>>
  PROVE  TypeOK'
<1>1. HostPcsr23 \/ HostInterrupt
    BY DEF HostPcsr23, HostInterrupt
<1> QED BY <1>1, TypeStep DEF Next, HostStep

\* A step of the driver that touches nothing of the controller.
LEMMA Untouched == ASSUME TypeOK, UNCHANGED vars PROVE TypeOK'
  BY TypeStep

\* A step that changes the rings alone.
LEMMA RingsType ==
  ASSUME TypeOK, UNCHANGED <<device, eth>>, TypeMem'
  PROVE  TypeOK'
<1>1. TypeCsrs' /\ TypeFlags' /\ TypePort'
    BY DEF device, csrs, port, TypeOK, TypeCsrs, TypeFlags, TypePort
<1>2. TypeTx' /\ TypeRx'
    BY DEF device, txside, rxside, TypeOK, TypeTx, TypeRx
<1>3. TypeEth'
    BY DEF eth, TypeOK, TypeEth
<1> QED BY <1>1, <1>2, <1>3 DEF TypeOK

\* sndmsg fills the transmit entry with a frame.
LEMMA FillTdrType ==
  ASSUME TypeOK, FillTdr, Head(xmq) \in Frames
  PROVE  TypeOK'
<1> DEFINE e == [own |-> TRUE, err |-> FALSE, frame |-> Head(xmq)]
<1>1. e \in TxEntry
    BY DEF TxEntry
<1>2. txring' = [txring EXCEPT ![Tdr][0] = e]
    BY DEF FillTdr
<1> HIDE DEF e
<1>3. txring' \in [TxRings -> [TxIdx -> TxEntry]]
    BY <1>1, <1>2 DEF TypeOK, TypeMem
<1>4. UNCHANGED <<device, eth, rxring>>
    BY DEF FillTdr
<1>5. TypeMem'
    BY <1>3, <1>4 DEF TypeOK, TypeMem
<1> QED BY <1>4, <1>5, RingsType

\* rxi.2 returns a receive entry.
LEMMA ReturnType ==
  ASSUME TypeOK, HRxiReturn
  PROVE  TypeOK'
<1> DEFINE New(x) == [x EXCEPT !.own = TRUE, !.err = FALSE, !.frame = None]
<1>1. \A x \in RxEntry : New(x) \in RxEntry
    BY DEF RxEntry
<1>2. rxring' = [rxring EXCEPT ![Rdr][unarxn] = New(@)]
    BY DEF HRxiReturn
<1> HIDE DEF New
<1>3. rxring' \in [RxRings -> [RxIdx -> RxEntry]]
    BY <1>1, <1>2 DEF TypeOK, TypeMem
<1>4. UNCHANGED <<device, eth, txring>>
    BY DEF HRxiReturn
<1>5. TypeMem'
    BY <1>3, <1>4 DEF TypeOK, TypeMem
<1> QED BY <1>4, <1>5, RingsType

\* q1rha and q1wfm: the command block is written, or the rings are built too.
Build ==
  /\ rxring' = [rxring EXCEPT ![Rdr] = [i \in RxIdx |->
       [own |-> TRUE, err |-> FALSE, dma |-> TRUE, frame |-> None]]]
  /\ txring' = [txring EXCEPT ![Tdr][0].own = FALSE]

\* What nxtcmd does for each function: only q1wfm touches the rings.
LEMMA DniCommand ==
  ASSUME SysTypeOK, HDniCommand
  PROVE  /\ hpc = "dni" /\ unacmq # <<>> /\ unapip' = FALSE
         /\ unacip' = unacmq[1] /\ unacmq' = Tail(unacmq)
         /\ hpc' \in {"pcsr", "cmd"} /\ pcb' \in {pcb, Block("plain"), Block("wr_ring")}
         /\ UNCHANGED <<device, eth, xmq, xip, unapol, p4, hret, mpc, seen, lost>>
         /\ unacmq[1] # "qf.wfm" => UNCHANGED <<mem, unarxn>>
         /\ unacmq[1] = "qf.wfm" => Build /\ unarxn' = 0
<1>1. unacip' = unacmq[1] /\ unacmq # <<>>
    BY HeadTailProperties DEF HDniCommand, SysTypeOK
<1>2. CASE unacip' = "qf.rha"
    BY <1>1, <1>2 DEF HDniCommand
<1>3. CASE unacip' = "qf.wfm"
    BY <1>1, <1>3 DEF HDniCommand, Build
<1>4. CASE unacip' # "qf.rha" /\ unacip' # "qf.wfm"
    BY <1>1, <1>4 DEF HDniCommand
<1> QED BY <1>1, <1>2, <1>3, <1>4

\* The rings that q1wfm builds.
LEMMA BuildType ==
  ASSUME TypeOK, Build, UNCHANGED <<device, eth>>
  PROVE  TypeOK'
<1> DEFINE New(x) == [x EXCEPT !.own = FALSE]
           Ring   == [i \in RxIdx |-> [own |-> TRUE, err |-> FALSE, dma |-> TRUE, frame |-> None]]
<1>1. \A x \in TxEntry : New(x) \in TxEntry
    BY DEF TxEntry
<1>2. txring' = [txring EXCEPT ![Tdr][0] = New(@)] /\ rxring' = [rxring EXCEPT ![Rdr] = Ring]
    BY DEF Build
<1>3. Ring \in [RxIdx -> RxEntry]
    BY DEF RxEntry
<1> HIDE DEF New, Ring
<1>4. txring' \in [TxRings -> [TxIdx -> TxEntry]]
    BY <1>1, <1>2 DEF TypeOK, TypeMem
<1>5. rxring' \in [RxRings -> [RxIdx -> RxEntry]]
    BY <1>2, <1>3 DEF TypeOK, TypeMem
<1>6. TypeMem'
    BY <1>4, <1>5 DEF TypeMem
<1> QED BY <1>6, RingsType

\* A polling demand.
LEMMA PollDemandType ==
  ASSUME TypeOK, PollDemand
  PROVE  TypeOK'
  BY WritePcsr0Type DEF PollDemand, Cmds

\* The packet at the head of the queue is a frame the entry can hold.
LEMMA HeadIsFrame ==
  ASSUME SysTypeOK, xmq # <<>>
  PROVE  Head(xmq) = xmq[1] /\ Head(xmq) \in Frames
<1>1. Head(xmq) \in 1 .. MaxPkts
    BY HeadTailProperties DEF SysTypeOK
<1> QED BY <1>1, Consts DEF SysTypeOK

\* Every step of the system keeps the types of the controller.
LEMMA ControllerTypes == Inv /\ [SysNext]_sysvars => TypeOK'
<1> SUFFICES ASSUME Inv, [SysNext]_sysvars
             PROVE  TypeOK'
    OBVIOUS
<1>0. SysTypeOK /\ TypeOK /\ DriverTypes
  BY SysTypes DEF Inv
<1> USE DEF sysvars
<1>1. CASE SysDevice
  <2>1. DeviceStep
      BY <1>0, <1>1 DEF SysDevice, DeviceStep, DriverTypes
  <2> QED BY <1>0, <2>1, TypeStep DEF Next
<1>2. CASE SysArrive
  <2>1. MaxPkts + narr + 1 \in Frames
      BY <1>0, <1>2, Consts DEF SysArrive, DriverTypes
  <2>2. FrameArrives(MaxPkts + narr + 1)
      BY <1>2 DEF SysArrive
  <2> QED BY <1>0, <2>1, <2>2, TypeStep DEF Next
<1>3. CASE HTake \/ HPcsr
  BY <1>0, <1>3, HostType DEF HTake, HPcsr
<1>4. CASE HAck
  <2>1. inte \in BOOLEAN /\ "NOOP" \in Cmds
      BY <1>0 DEF TypeOK, TypeCsrs, Cmds
  <2> QED BY <1>0, <1>4, <2>1, WritePcsr0Type DEF HAck
<1>5. CASE HRead \/ HRxiEnd \/ HRxiIgnore \/ HRxiGive \/ HTxi
  BY <1>0, <1>5, Untouched DEF HRead, HRxiEnd, HRxiIgnore, HRxiGive, HTxi
<1>6. CASE HRxiReturn
  BY <1>0, <1>6, ReturnType
<1>7. CASE HTdr
  <2>1. xmq # <<>> /\ FillTdr
      BY <1>7 DEF HTdr, Inv, TxInv, TxPlaces, TxQueue
  <2> QED BY <1>0, <2>1, HeadIsFrame, FillTdrType
<1>8. CASE HPoll \/ HDniPoll
  BY <1>0, <1>8, Untouched, PollDemandType DEF HPoll, HDniPoll
<1>9. CASE HDniCommand
  <2>1. CASE unacmq[1] = "qf.wfm"
      BY <1>0, <1>9, <2>1, DniCommand, BuildType
  <2>2. CASE unacmq[1] # "qf.wfm"
    <3>1. UNCHANGED vars
        BY <1>0, <1>9, <2>2, DniCommand DEF device, vars
    <3> QED BY <1>0, <3>1, Untouched
  <2> QED BY <2>1, <2>2
<1>10. CASE HCmd
  <2>1. PortCommand(unacip) \in Cmds
      BY DEF PortCommand, Cmds
  <2> QED BY <1>0, <1>10, <2>1, WritePcsr0Type DEF HCmd
<1>11. CASE MOnce
  BY <1>0, <1>11, WritePcsr0Type DEF MOnce, Cmds
<1>12. CASE MSend \/ MXip \/ MPol \/ MTest \/ MSetPip \/ MClrPol
  BY <1>0, <1>12, Untouched DEF MSend, MXip, MPol, MTest, MSetPip, MClrPol
<1>13. CASE MTdr
  <2>1. xmq # <<>> /\ FillTdr
      BY <1>13 DEF MTdr, Main, Inv, TxInv, TxPlaces, TxQueue
  <2> QED BY <1>0, <2>1, HeadIsFrame, FillTdrType
<1>14. CASE MPoll
  BY <1>0, <1>14, PollDemandType DEF MPoll
<1>15. CASE UNCHANGED sysvars
  BY <1>0, <1>15, Untouched
<1> QED BY <1>1, <1>2, <1>3, <1>4, <1>5, <1>6, <1>7, <1>8, <1>9, <1>10, <1>11, <1>12, <1>13,
   <1>14, <1>15 DEF SysNext, Handler, MFinish
-----------------------------------------------------------------------------
(* What a run of the service routine does for the driver. *)

\* Status bits are only added, the command field stays, and nothing resets the
\* port again.
LEMMA DeviceCsrs ==
  ASSUME Inv, SysDevice
  PROVE  /\ status \subseteq status' /\ pcmd' = pcmd /\ inte' = inte /\ ~resetflag'
         /\ ~inte => intreq' = intreq
         /\ state' = "RUNNING" => state = "RUNNING" \/ pcmd = "START"
         /\ state = "RUNNING" => state' = "RUNNING"
         /\ ring' \in {NoFormat, Format}
         /\ UNCHANGED <<queues, polling, p4, hpc, hret, mpc, npkt, narr, given>>
<1>0. /\ Svc(pcb) /\ pcmd \in DriverCmds /\ (resetflag => state = "RESET") /\ pcb.fmt = Format
      /\ ring \in {NoFormat, Format}
      /\ UNCHANGED <<queues, polling, p4, hpc, hret, mpc, npkt, narr, given>>
  BY DEF SysDevice, Inv, BootInv
<1>a. inte \in BOOLEAN /\ intreq \in BOOLEAN /\ resetflag \in BOOLEAN /\ cmdflag \in BOOLEAN
  BY DEF Inv, SysTypeOK, TypeOK, TypeCsrs, TypeFlags
<1>b. ASSUME NEW bits, SetInt(status, bits, FALSE) \/ SetInt(status, bits, TRUE), inte' = inte
      PROVE  status \subseteq status' /\ (~inte => intreq' = intreq)
  BY <1>a, <1>b DEF SetInt
<1> DEFINE Csrs == status \subseteq status' /\ (~inte => intreq' = intreq) /\ pcmd' = pcmd
                   /\ inte' = inte /\ ~resetflag'
<1>1. CASE SvcReset
  <2>1. Csrs
      BY <1>1, <1>b DEF SvcReset
  <2> QED BY <1>0, <1>1, <2>1 DEF SvcReset, port
<1>c. ASSUME NEW bits, NEW t \in BOOLEAN, Serving, Report(bits, t)
      PROVE  Csrs
  BY <1>a, <1>b, <1>c DEF Serving, Report
<1>2. CASE SvcGetPcb \/ SvcAux(pcb)
  <2>1. Csrs
    <3>1. CASE SvcGetPcb
      BY <1>c, <3>1 DEF SvcGetPcb, Command
    <3>2. CASE SvcAux(pcb)
      <4>1. AuxTimeout(pcb) \in BOOLEAN
        BY DEF AuxTimeout
      <4> QED BY <1>c, <3>2, <4>1 DEF SvcAux, Command
    <3> QED BY <1>2, <3>1, <3>2
  <2> QED BY <1>0, <1>2, <2>1 DEF SvcGetPcb, SvcAux
<1>3. CASE SvcSelfTest \/ SvcStop
  BY <1>0, <1>3 DEF SvcSelfTest, SvcStop, Command, DriverCmds
<1>4. CASE SvcStart
  <2>1. Csrs /\ pcmd = "START"
      BY <1>4, <1>c DEF SvcStart, Command
  <2> QED BY <1>0, <1>4, <2>1 DEF SvcStart, port
<1>5. CASE SvcNoop \/ SvcPollError \/ SvcPollRunt
  <2>1. Csrs
      BY <1>5, <1>c DEF SvcNoop, SvcPollError, SvcPollRunt, Command
  <2> QED BY <1>0, <1>5, <2>1 DEF SvcNoop, SvcPollError, SvcPollRunt, port
<1>6. CASE SvcPollSend \/ SvcPollIdle \/ SvcTxDone
  <2>1. Csrs
      BY <1>6, <1>c DEF SvcPollSend, SvcPollIdle, SvcTxDone, Command
  <2> QED BY <1>0, <1>6, <2>1 DEF SvcPollSend, SvcPollIdle, SvcTxDone, port
<1>7. CASE SvcReceive
  <2>0. Receiving
      BY <1>7 DEF SvcReceive, SvcReceiveNone, SvcReceiveDrop, SvcReceiveRcbi, SvcReceiveStore
  <2>1. Csrs
    <3>1. CASE SvcReceiveNone \/ SvcReceiveDrop
      BY <2>0, <3>1, <1>a DEF SvcReceiveNone, SvcReceiveDrop, Receiving, Serving
    <3>2. CASE SvcReceiveRcbi \/ \E k \in 1 .. MaxWire : SvcReceiveStore(k)
      BY <2>0, <3>2, <1>c DEF SvcReceiveRcbi, SvcReceiveStore, Receiving
    <3> QED BY <1>7, <3>1, <3>2 DEF SvcReceive
  <2> QED BY <1>0, <2>0, <2>1 DEF Receiving, port
<1> QED BY <1>0, <1>1, <1>2, <1>3, <1>4, <1>5, <1>6, <1>7 DEF Svc

\* The transmitter: nothing happens to the entry, it is sent, or it is returned.
TxSame ==
  /\ UNCHANGED <<txflag, txring, sent>> /\ (TxReady' <=> TxReady)
  /\ txflag => txea' = txea
TxStarts ==
  /\ ~txflag /\ txflag' /\ Tx.own /\ txea' = <<Tdr, 0>>
  /\ txring' = txring /\ sent' = Append(sent, Tx.frame) /\ (TxReady' <=> TxReady)
TxEnds ==
  /\ txflag /\ ~txflag' /\ TxReady' /\ sent' = sent
  /\ txring' = [txring EXCEPT ![Tdr][0] = [@ EXCEPT !.own = FALSE, !.err = FALSE]]

\* The driver's transmit entry never breaks the format.
LEMMA EntryInOrder ==
  ASSUME Inv, ring.tdrb # Hole
  PROVE  /\ ring.tdrb = Tdr /\ txnext = 0 /\ Tx \in TxEntry
         /\ TxFound = IF Tx.own THEN "send" ELSE "free"
<1>1. ring.tdrb = Tdr /\ txnext = 0
    BY Consts DEF Inv, BootInv, NoFormat, SysTypeOK, TypeOK, TypeTx
<1>2. Tx \in TxEntry
    BY Consts DEF Inv, SysTypeOK, TypeOK, TypeMem, Tx
<1>3. Tx.frame \notin BadKinds
    BY <1>2, Consts, UnaAssumption, DeunaAssumption DEF TxEntry
<1>4. Tx.frame # Mbz /\ Tx.frame # Nxm /\ Tx.frame # Runt /\ Tx.own \in BOOLEAN
    BY <1>2, <1>3 DEF BadKinds, TxEntry
<1>5. TxFound = IF Tx.own THEN "send" ELSE "free"
    BY <1>1, <1>4 DEF TxFound, Tx
<1> QED BY <1>1, <1>2, <1>5

\* Each branch of deuna_svc does one of three things to the transmitter.
LEMMA TxDevice ==
  ASSUME Inv, SysDevice
  PROVE  TxSame \/ TxStarts \/ TxEnds
<1> USE DEF TxReady
<1>0. Svc(pcb) /\ sent' = IF ~txflag /\ txflag' THEN Append(sent, out') ELSE sent
  BY DEF SysDevice
<1>a. ASSUME NEW bits, NEW t, SetInt(status, bits, t), "TXI" \notin bits
      PROVE  TxReady' <=> TxReady
  BY <1>a DEF SetInt
<1>b. ASSUME NEW bits, NEW t, Report(bits, t), "TXI" \notin bits
      PROVE  TxReady' <=> TxReady
  BY <1>a, <1>b DEF Report
<1>c. ASSUME UNCHANGED txflag, UNCHANGED txea, UNCHANGED txring, TxReady' <=> TxReady
      PROVE  TxSame
  BY <1>0, <1>c DEF TxSame
<1>1. CASE SvcReset \/ SvcGetPcb \/ SvcAux(pcb) \/ SvcNoop \/ SvcStart \/ SvcStop
  <2>1. UNCHANGED <<txflag, txea, txring>>
      BY <1>1 DEF SvcReset, SvcGetPcb, SvcAux, SvcNoop, SvcStart, SvcStop, txside, mem
  <2>2. TxReady' <=> TxReady
    <3>1. CASE SvcReset
        BY <1>a, <3>1 DEF SvcReset
    <3>2. CASE SvcAux(pcb)
      <4> DEFINE failed == AuxTimeout(pcb) \/ AuxRejected(pcb)
                 bits   == {IF failed THEN "PCEI" ELSE "DNI"}
      <4>1. Report(bits, AuxTimeout(pcb))
          BY <3>2 DEF SvcAux
      <4>2. "TXI" \notin bits
          OBVIOUS
      <4> QED BY <1>b, <4>1, <4>2
    <3>3. CASE SvcGetPcb \/ SvcNoop \/ SvcStart \/ SvcStop
        BY <1>b, <3>3 DEF SvcGetPcb, SvcNoop, SvcStart, SvcStop
    <3> QED BY <1>1, <3>1, <3>2, <3>3
  <2> QED BY <1>c, <2>1, <2>2
<1>2. CASE SvcSelfTest
  BY <1>2 DEF SvcSelfTest, Inv, BootInv, DriverCmds
<1>3. CASE SvcPollError
  <2>1. TxReady' <=> TxReady
      BY <1>b, <1>3 DEF SvcPollError
  <2> QED BY <1>0, <1>3, <2>1 DEF TxSame, SvcPollError, mem
<1>4. CASE SvcPollRunt
  <2>1. ring.tdrb # Hole /\ TxFound = "runt"
      BY <1>4 DEF SvcPollRunt, TxFound
  <2> QED BY <2>1, EntryInOrder
<1>5. CASE SvcPollSend
  <2>1. ring.tdrb # Hole /\ TxFound = "send" /\ txea' = <<ring.tdrb, txnext>>
      BY <1>5 DEF SvcPollSend, TxFound
  <2>2. ring.tdrb = Tdr /\ txnext = 0 /\ Tx.own
      BY <2>1, EntryInOrder
  <2>3. ~txflag /\ txflag' /\ txring' = txring /\ out' = Tx.frame /\ (TxReady' <=> TxReady)
      BY <1>5, <1>b, <2>2 DEF SvcPollSend, mem, Tx
  <2> QED BY <1>0, <2>1, <2>2, <2>3 DEF TxStarts
<1>6. CASE SvcPollIdle
  <2>1. TxReady' <=> TxReady
      BY <1>b, <1>6 DEF SvcPollIdle
  <2> QED BY <1>0, <1>6, <2>1 DEF TxSame, SvcPollIdle, mem
<1>7. CASE SvcTxDone
  <2>1. txea = <<Tdr, 0>> /\ txflag /\ ~txflag' /\ TxReady'
      BY <1>7 DEF SvcTxDone, Report, SetInt, Inv, TxInv, TxQueue
  <2>2. GiveBackTx(<<Tdr, 0>>, FALSE)
      BY <1>7, <2>1 DEF SvcTxDone
  <2> QED BY <1>0, <2>1, <2>2 DEF TxEnds, GiveBackTx
<1>8. CASE SvcReceive
  <2>1. UNCHANGED <<txflag, txea, txring>>
      BY <1>8 DEF SvcReceive, SvcReceiveNone, SvcReceiveDrop, SvcReceiveRcbi, SvcReceiveStore,
         Receiving, txside
  <2>2. TxReady' <=> TxReady
    <3>1. CASE SvcReceiveNone \/ SvcReceiveDrop
        BY <3>1 DEF SvcReceiveNone, SvcReceiveDrop
    <3>2. CASE SvcReceiveRcbi \/ \E k \in 1 .. MaxWire : SvcReceiveStore(k)
        BY <1>b, <3>2 DEF SvcReceiveRcbi, SvcReceiveStore
    <3> QED BY <1>8, <3>1, <3>2 DEF SvcReceive
  <2> QED BY <1>c, <2>1, <2>2
<1> QED BY <1>0, <1>1, <1>2, <1>3, <1>4, <1>5, <1>6, <1>7, <1>8 DEF Svc

-----------------------------------------------------------------------------
(* The start-up. *)

\* A write of PCSR0 leaves the state of the port alone.
LEMMA WriteBoot ==
  ASSUME Inv, NEW w1c, NEW ie, NEW cmd \in DriverCmds, WritePcsr0(w1c, ie, cmd)
  PROVE  /\ pcmd' \in {pcmd, cmd} /\ pcmd' \in DriverCmds
         /\ UNCHANGED <<state, resetflag, ring>>
  BY DEF WritePcsr0, port, Inv, BootInv

\* The start-up: functions are done in order, START after the ring format.
LEMMA BootStep == Inv /\ [SysNext]_sysvars => BootInv'
<1> SUFFICES ASSUME Inv, [SysNext]_sysvars
             PROVE  BootInv'
    OBVIOUS
<1>0. BootInv /\ SysTypeOK /\ (hpc # "off" => mpc # "onc")
  BY DEF Inv, BootInv
<1>a. xip => ~Booting
  BY <1>0 DEF BootInv
<1> USE DEF BootInv, BootQueue, Booting, queues, polling, seen
<1>1. CASE SysDevice
  BY <1>0, <1>1, DeviceCsrs
<1>2. CASE SysArrive
  BY <1>0, <1>2 DEF SysArrive, FrameArrives, csrs, port
<1>3. CASE HTake
  BY <1>0, <1>3 DEF HTake, TakeInterrupt, csrs, port
<1>4. CASE HAck
  <2>1. UNCHANGED <<queues, mpc>> /\ hpc = "wrio" /\ WritePcsr0(p4, inte, "NOOP")
      BY <1>4 DEF HAck
  <2>2. pcmd' \in {pcmd, "NOOP"} /\ pcmd' \in DriverCmds /\ UNCHANGED <<state, resetflag, ring>>
      BY <2>1, WriteBoot DEF DriverCmds
  <2> QED BY <1>0, <2>1, <2>2
<1>5. CASE HRead \/ HRxiEnd \/ HRxiIgnore
  BY <1>0, <1>5 DEF HRead, HRxiEnd, HRxiIgnore, vars, csrs, port
<1>6. CASE HRxiGive
  <2>1. ~Booting /\ mpc # "onc"
      BY <1>0, <1>6 DEF HRxiGive, Inv, QuietInv
  <2>2. UNCHANGED <<vars, unacmq, unacip, pcb, mpc>>
      BY <1>6 DEF HRxiGive
  <2> QED BY <1>0, <2>1, <2>2 DEF vars, csrs, port
<1>7. CASE HRxiReturn
  BY <1>0, <1>7 DEF HRxiReturn, device, csrs, port
<1>8. CASE HTxi
  <2>1. ~Booting /\ mpc # "onc"
      BY <1>0, <1>8, <1>a DEF HTxi, Inv, TxInv, TxHandler, TxPlaces, TxHand
  <2>2. UNCHANGED <<vars, unacmq, unacip, pcb, mpc>>
      BY <1>8 DEF HTxi
  <2> QED BY <1>0, <2>1, <2>2 DEF vars, csrs, port
<1>9. CASE HTdr
  BY <1>0, <1>9 DEF HTdr, FillTdr, device, csrs, port
<1>10. CASE HPoll
  <2>1. UNCHANGED <<queues, mpc>> /\ hpc = "poll"
      BY <1>10 DEF HPoll
  <2>2. CASE UNCHANGED vars
      BY <1>0, <2>1, <2>2 DEF vars, csrs, port
  <2>3. CASE PollDemand
    <3>1. pcmd' \in {pcmd, "PDMD"} /\ pcmd' \in DriverCmds /\ UNCHANGED <<state, resetflag, ring>>
        BY <2>3, WriteBoot DEF PollDemand, DriverCmds
    <3> QED BY <1>0, <2>1, <3>1
  <2> QED BY <1>10, <2>2, <2>3 DEF HPoll
<1>11. CASE HDniCommand
  <2>1. /\ hpc = "dni" /\ unacmq # <<>> /\ unacip' = unacmq[1] /\ unacmq' = Tail(unacmq)
        /\ pcb' \in {pcb, Block("plain"), Block("wr_ring")}
        /\ UNCHANGED <<device, xmq, xip, mpc>>
      BY <1>0, <1>11, DniCommand DEF seen
  <2>2. pcb'.fmt = Format
      BY <1>0, <2>1 DEF Block
  <2>3. /\ Len(unacmq') = Len(unacmq) - 1 /\ Len(unacmq) \in Nat \ {0}
        /\ \A i \in 1 .. Len(unacmq') : unacmq'[i] = unacmq[i + 1]
      BY <1>0, <2>1, HeadTailProperties, EmptySeq DEF SysTypeOK
  <2>4. BootQueue'
      BY <1>0, <2>3
  <2>5. unacmq' # <<>> => unacip' # "qf.sta"
    <3>1. unacmq' # <<>> => Len(unacmq') > 0
        BY <1>0, <2>1, HeadTailProperties, EmptySeq DEF SysTypeOK
    <3>2. ASSUME Len(unacmq) > 1 PROVE unacmq[1] # "qf.sta"
      <4>1. 1 \in 1 .. Len(unacmq)
          BY <2>3
      <4> QED BY <1>0, <3>2, <4>1, <2>3
    <3> QED BY <2>1, <2>3, <3>1, <3>2
  <2> QED BY <1>0, <2>1, <2>2, <2>4, <2>5 DEF device, csrs, port
<1>12. CASE HDniPoll
  <2>1. /\ unacmq = <<>> /\ unacmq' = <<>> /\ hpc = "dni"
        /\ UNCHANGED <<xmq, xip, pcb, mpc>>
      BY <1>12 DEF HDniPoll
  <2>2. CASE UNCHANGED vars
      BY <1>0, <2>1, <2>2 DEF vars, csrs, port
  <2>3. CASE PollDemand
    <3>1. pcmd' \in DriverCmds /\ UNCHANGED <<state, resetflag, ring>>
        BY <2>3, WriteBoot DEF PollDemand, DriverCmds
    <3> QED BY <1>0, <2>1, <3>1
  <2> QED BY <1>12, <2>2, <2>3 DEF HDniPoll
<1>13. CASE HPcsr
  BY <1>0, <1>13 DEF HPcsr, WritePcsr23, port
<1>14. CASE HCmd
  <2>1. UNCHANGED <<queues, mpc>> /\ hpc = "cmd" /\ WritePcsr0({}, TRUE, PortCommand(unacip))
      BY <1>14 DEF HCmd
  <2>2. PortCommand(unacip) \in DriverCmds
      BY DEF PortCommand, DriverCmds
  <2>3. unacip # "qf.sta" => PortCommand(unacip) # "START"
      BY DEF PortCommand
  <2>4. /\ pcmd' \in {pcmd, PortCommand(unacip)} /\ pcmd' \in DriverCmds
        /\ UNCHANGED <<state, resetflag, ring>>
      BY <2>1, <2>2, WriteBoot
  <2> QED BY <1>0, <2>1, <2>3, <2>4
<1>15. CASE MOnce
  <2> DEFINE q == <<"qf.pcb", "qf.rha", "qf.wfm", "qf.sta">>
  <2>1. /\ mpc = "onc" /\ mpc' = "idle" /\ unacmq' = q
        /\ WritePcsr0({}, TRUE, "NOOP") /\ UNCHANGED <<unacip, xmq, xip, pcb>>
      BY <1>15 DEF MOnce, Main
  <2>2. pcmd' = pcmd /\ UNCHANGED <<state, resetflag, ring>>
      BY <1>0, <2>1 DEF WritePcsr0, port
  <2>3. BootQueue'
    <3>1. Len(q) = 4 /\ q[1] = "qf.pcb" /\ q[2] = "qf.rha" /\ q[3] = "qf.wfm" /\ q[4] = "qf.sta"
        OBVIOUS
    <3> HIDE DEF q
    <3>2. \A i \in 1 .. 4 : i = 1 \/ i = 2 \/ i = 3 \/ i = 4
        OBVIOUS
    <3> QED BY <2>1, <3>1, <3>2
  <2>4. None # "qf.sta"
      BY Consts DEF Functions
  <2> QED BY <1>0, <2>1, <2>2, <2>3, <2>4
<1>16. CASE MSend
  BY <1>0, <1>16 DEF MSend, Main, vars, csrs, port
<1>17. CASE MXip \/ MPol \/ MTest \/ MSetPip \/ MClrPol
  BY <1>0, <1>17 DEF MXip, MPol, MTest, MSetPip, MClrPol, Main, vars, csrs, port
<1>18. CASE MTdr
  BY <1>0, <1>18 DEF MTdr, FillTdr, Main, device, csrs, port
<1>19. CASE MPoll
  <2>1. /\ mpc = "wrio" /\ mpc' = "setpip"
        /\ PollDemand /\ UNCHANGED <<unacmq, unacip, xmq, xip, pcb, hpc>>
      BY <1>19 DEF MPoll, Main
  <2>2. pcmd' \in DriverCmds /\ UNCHANGED <<state, resetflag, ring>>
      BY <2>1, WriteBoot DEF PollDemand, DriverCmds
  <2> QED BY <1>0, <2>1, <2>2
<1>20. CASE UNCHANGED sysvars
  BY <1>0, <1>20 DEF sysvars, vars, csrs, port
<1> QED BY <1>1, <1>2, <1>3, <1>4, <1>5, <1>6, <1>7, <1>8, <1>9, <1>10, <1>11, <1>12, <1>13,
   <1>14, <1>15, <1>16, <1>17, <1>18, <1>19, <1>20 DEF SysNext, Handler, MFinish

\* Before START the service routine touches nothing of the receiver.
LEMMA QuietDevice ==
  ASSUME Inv, SysDevice, state' # "RUNNING"
  PROVE  state # "RUNNING" /\ UNCHANGED <<ethon, wire, rxnext, rxring>>
         /\ "RXI" \notin status'
<1>0. state # "RUNNING" /\ Svc(pcb)
  BY DeviceCsrs DEF SysDevice
<1>1. wire = <<>> /\ "RXI" \notin status
  BY <1>0 DEF Inv, QuietInv
<1>a. ASSUME NEW bits, NEW t, SetInt(status, bits, t), "RXI" \notin bits
      PROVE  "RXI" \notin status'
  BY <1>1, <1>a DEF SetInt
<1>b. ASSUME NEW bits, NEW t, Report(bits, t), "RXI" \notin bits
      PROVE  "RXI" \notin status'
  BY <1>a, <1>b DEF Report
<1>2. CASE SvcReset
  BY <1>0, <1>2, <1>a DEF SvcReset, rxside, mem, eth
<1>3. CASE SvcGetPcb \/ SvcNoop
  BY <1>0, <1>3, <1>b DEF SvcGetPcb, SvcNoop, rxside, mem, eth
<1>4. CASE SvcAux(pcb)
  <2> DEFINE failed == AuxTimeout(pcb) \/ AuxRejected(pcb)
             bits   == {IF failed THEN "PCEI" ELSE "DNI"}
  <2>1. Report(bits, AuxTimeout(pcb))
      BY <1>4 DEF SvcAux
  <2>2. "RXI" \notin bits
      OBVIOUS
  <2>3. "RXI" \notin status'
      BY <1>b, <2>1, <2>2
  <2> QED BY <1>0, <1>4, <2>3 DEF SvcAux, rxside, mem, eth
<1>5. CASE SvcSelfTest \/ SvcStop
  BY <1>5 DEF SvcSelfTest, SvcStop, Command, Inv, BootInv, DriverCmds
<1>6. CASE SvcStart
  BY <1>0, <1>6 DEF SvcStart
<1>7. CASE SvcPollError \/ SvcPollIdle
  BY <1>0, <1>7, <1>b DEF SvcPollError, SvcPollIdle, FetchRx, rxside, mem, eth
<1>8. CASE SvcPollRunt
  BY <1>0, <1>8, <1>b DEF SvcPollRunt, rxside, eth
<1>9. CASE SvcPollSend
  BY <1>0, <1>9, <1>b DEF SvcPollSend, FetchRx, rxside, mem
<1>10. CASE SvcTxDone
  BY <1>0, <1>10, <1>b DEF SvcTxDone, rxside, eth
<1>11. CASE SvcReceiveNone
  BY <1>0, <1>1, <1>11 DEF SvcReceiveNone, rxside, eth
<1>12. CASE SvcReceiveDrop \/ SvcReceiveRcbi
  BY <1>1, <1>12 DEF SvcReceiveDrop, SvcReceiveRcbi
<1>13. CASE \E k \in 1 .. MaxWire : SvcReceiveStore(k)
  <2>1. PICK k \in 1 .. MaxWire : k \in 1 .. Len(wire)
      BY <1>13 DEF SvcReceiveStore
  <2>2. Len(wire) = 0
      BY <1>1, EmptySeq
  <2> QED BY <2>1, <2>2
<1> QED BY <1>0, <1>2, <1>3, <1>4, <1>5, <1>6, <1>7, <1>8, <1>9, <1>10, <1>11, <1>12, <1>13
        DEF Svc, SvcReceive

\* Nothing is received before the port runs.
LEMMA QuietStep == Inv /\ [SysNext]_sysvars => QuietInv'
<1> SUFFICES ASSUME Inv, [SysNext]_sysvars, state' # "RUNNING"
             PROVE  /\ ~ethon' /\ wire' = <<>> /\ rxnext' = 0 /\ unarxn' = 0
                    /\ "RXI" \notin status' /\ "RXI" \notin p4'
                    /\ hpc' # "rxi" /\ hpc' # "rxi.2" /\ hret' # "rxi.2"
                    /\ \A i \in RxIdx : R(i)'.frame = None
    BY DEF QuietInv
<1> DEFINE Quiet == /\ ~ethon /\ wire = <<>> /\ rxnext = 0 /\ unarxn = 0
                    /\ "RXI" \notin status /\ "RXI" \notin p4
                    /\ hpc # "rxi" /\ hpc # "rxi.2" /\ hret # "rxi.2"
                    /\ \A i \in RxIdx : R(i).frame = None
<1>0. (state # "RUNNING" => Quiet) /\ SysTypeOK
  BY DEF Inv, QuietInv
<1>a. ASSUME NEW bits, "RXI" \notin bits
      PROVE  Dispatch(bits) \in {"txi", "dni", "off"} /\ Dispatch(bits \ {"RXI", "TXI"}) \in {"dni", "off"}
  BY <1>a DEF Dispatch
<1>b. ASSUME NEW w1c, NEW ie, NEW cmd, WritePcsr0(w1c, ie, cmd)
      PROVE  state' = state /\ status' \subseteq status /\ UNCHANGED rxnext
  BY <1>b DEF WritePcsr0, SetInt, rxside
<1>c. UNCHANGED rxring => \A i \in RxIdx : R(i)' = R(i)
  BY DEF R
<1> USE DEF queues, polling, seen, csrs, eth, mem, device, rxside
<1>1. CASE SysDevice
  BY <1>0, <1>1, <1>c, QuietDevice, DeviceCsrs
<1>2. CASE SysArrive
  BY <1>0, <1>2 DEF SysArrive, FrameArrives
<1>3. CASE HTake
  BY <1>0, <1>c, <1>3 DEF HTake, TakeInterrupt
<1>4. CASE HAck
  <2>1. state # "RUNNING" /\ status' \subseteq status /\ UNCHANGED rxnext
      BY <1>4, <1>b DEF HAck
  <2>2. hpc' \in {"txi", "dni", "off"}
      BY <1>0, <1>4, <1>a, <2>1 DEF HAck
  <2> QED BY <1>0, <1>c, <1>4, <2>1, <2>2 DEF HAck
<1>5. CASE HRead
  BY <1>0, <1>c, <1>5 DEF HRead, vars
<1>6. CASE HRxiEnd \/ HRxiIgnore \/ HRxiGive \/ HRxiReturn
  BY <1>0, <1>6 DEF HRxiEnd, HRxiIgnore, HRxiGive, HRxiReturn, vars
<1>7. CASE HTxi
  <2>1. UNCHANGED <<vars, unarxn, p4>> /\ state # "RUNNING"
      BY <1>7 DEF HTxi, vars
  <2>2. hpc' \in {"tdr", "dni", "off"} /\ hret' \in {hret, "dni", "off"}
      BY <1>0, <1>7, <1>a, <2>1 DEF HTxi
  <2> QED BY <1>0, <1>c, <2>1, <2>2 DEF vars
<1>8. CASE HTdr \/ MTdr
  BY <1>0, <1>c, <1>8 DEF HTdr, MTdr, Main, FillTdr
<1>9. CASE HPoll
  <2>1. hpc' = hret /\ UNCHANGED <<queues, p4, hret>>
      BY <1>9 DEF HPoll
  <2>2. state # "RUNNING" /\ status' \subseteq status /\ UNCHANGED <<rxnext, mem, eth>>
      BY <1>9, <1>b DEF HPoll, PollDemand, vars
  <2> QED BY <1>0, <1>c, <2>1, <2>2 DEF SysTypeOK
<1>10. CASE HDniCommand
  <2>1. UNCHANGED <<device, eth, p4, hret>> /\ hpc' \in {"pcsr", "cmd"} /\ state # "RUNNING"
      BY <1>0, <1>10, DniCommand
  <2>2. CASE unacmq[1] = "qf.wfm"
    <3>1. Build /\ unarxn' = 0
        BY <1>0, <1>10, <2>2, DniCommand
    <3>2. \A i \in RxIdx : R(i)'.frame = None
        BY <1>0, <3>1, Consts DEF Build, R, SysTypeOK, TypeOK, TypeMem
    <3> QED BY <1>0, <2>1, <3>1, <3>2
  <2>3. CASE unacmq[1] # "qf.wfm"
    <3>1. UNCHANGED <<mem, unarxn>>
        BY <1>0, <1>10, <2>3, DniCommand
    <3> QED BY <1>0, <1>c, <2>1, <3>1
  <2> QED BY <2>2, <2>3
<1>11. CASE HDniPoll
  <2>1. hpc' = "off" /\ UNCHANGED <<unarxn, p4, hret>>
      BY <1>11 DEF HDniPoll
  <2>2. state # "RUNNING" /\ status' \subseteq status /\ UNCHANGED <<rxnext, mem, eth>>
      BY <1>11, <1>b DEF HDniPoll, PollDemand, vars
  <2> QED BY <1>0, <1>c, <2>1, <2>2
<1>12. CASE HPcsr
  BY <1>0, <1>c, <1>12 DEF HPcsr, WritePcsr23
<1>13. CASE HCmd
  <2>1. state # "RUNNING" /\ status' \subseteq status /\ UNCHANGED rxnext
      BY <1>13, <1>b DEF HCmd
  <2> QED BY <1>0, <1>c, <1>13, <2>1 DEF HCmd
<1>14. CASE MOnce \/ MPoll
  <2>1. state # "RUNNING" /\ status' \subseteq status /\ UNCHANGED <<rxnext, mem, eth>>
      BY <1>14, <1>b DEF MOnce, MPoll, PollDemand
  <2> QED BY <1>0, <1>c, <1>14, <2>1 DEF MOnce, MPoll, Main
<1>15. CASE MSend \/ MXip \/ MPol \/ MTest \/ MSetPip \/ MClrPol
  BY <1>0, <1>c, <1>15 DEF MSend, MXip, MPol, MTest, MSetPip, MClrPol, Main, vars
<1>16. CASE UNCHANGED sysvars
  BY <1>0, <1>c, <1>16 DEF sysvars, vars
<1> QED BY <1>1, <1>2, <1>3, <1>4, <1>5, <1>6, <1>7, <1>8, <1>9, <1>10, <1>11, <1>12, <1>13,
   <1>14, <1>15, <1>16 DEF SysNext, Handler, MFinish

-----------------------------------------------------------------------------
(* The transmitter. *)

\* A step that moves neither a packet nor a bit of status, and leaves the
\* handler and the main program clear of the transmit entry.
LEMMA TxStill ==
  ASSUME TxInv, UNCHANGED <<txflag, txea, txring, sent, xmq, xip, npkt, status, p4>>,
         TxHand' <=> TxHand, hpc' = "tdr" <=> hpc = "tdr", mpc' = "tdr" <=> mpc = "tdr",
         mpc' # "xip", TxHandler'
  PROVE  TxInv'
<1>1. UNCHANGED <<Tx, TxReady>>
    BY DEF Tx, TxReady
<1>2. TxPlaces'
    BY <1>1 DEF TxInv, TxPlaces
<1>3. TxQueue'
    BY <1>1 DEF TxInv, TxQueue
<1> QED BY <1>2, <1>3 DEF TxInv

\* The service routine moves the packet in progress from the entry to TXI.
LEMMA TxDeviceStep ==
  ASSUME Inv, SysDevice
  PROVE  TxInv'
<1>0. TxInv /\ SysTypeOK /\ status \subseteq status'
      /\ UNCHANGED <<queues, p4, hpc, hret, mpc, npkt>>
  BY DeviceCsrs DEF Inv
<1>a. TxHand' <=> TxHand
  BY <1>0 DEF TxHand
<1>b. TxHandler'
  BY <1>0 DEF TxInv, TxHandler
<1>c. Tx \in TxEntry /\ Len(sent) \in Nat /\ Len(xmq) \in Nat /\ npkt \in Nat
      /\ Tdr \in DOMAIN txring /\ 0 \in DOMAIN txring[Tdr]
  BY <1>0, Consts, LenProperties DEF SysTypeOK, TypeOK, TypeMem, Tx
<1> USE DEF queues
<1>1. CASE TxSame
  <2>1. UNCHANGED <<txflag, sent, Tx>> /\ (TxReady' <=> TxReady) /\ (txflag => txea' = txea)
      BY <1>1 DEF TxSame, Tx
  <2>2. TxPlaces'
      BY <1>0, <1>a, <2>1 DEF TxInv, TxPlaces
  <2>3. TxQueue'
      BY <1>0, <1>a, <2>1 DEF TxInv, TxQueue
  <2> QED BY <1>b, <2>2, <2>3 DEF TxInv
<1>2. CASE TxStarts
  <2>1. UNCHANGED Tx /\ (TxReady' <=> TxReady) /\ Tx.own /\ ~txflag /\ txflag'
        /\ txea' = <<Tdr, 0>>
      BY <1>2 DEF TxStarts, Tx
  <2>2. Len(sent') = Len(sent) + 1
      BY <1>0, <1>2, AppendProperties DEF TxStarts, SysTypeOK
  <2>3. TxPlaces'
      BY <1>0, <1>a, <2>1 DEF TxInv, TxPlaces
  <2>4. ~TxReady /\ ~TxHand
      BY <1>0, <2>1 DEF TxInv, TxPlaces
  <2>5. Len(sent') = npkt - Len(xmq) + 1
      BY <1>0, <1>c, <2>1, <2>2, <2>4 DEF TxInv, TxQueue
  <2>6. TxQueue'
      BY <1>0, <1>a, <2>1, <2>4, <2>5 DEF TxInv, TxQueue
  <2> QED BY <1>b, <2>3, <2>6 DEF TxInv
<1>3. CASE TxEnds
  <2>1. ~Tx'.own /\ TxReady' /\ sent' = sent /\ txflag /\ ~txflag'
      BY <1>c, <1>3 DEF TxEnds, Tx, TxEntry
  <2>2. Tx.own /\ ~TxReady /\ ~TxHand /\ xip /\ mpc # "tdr" /\ hpc # "tdr"
      BY <1>0, <2>1 DEF TxInv, TxPlaces, TxQueue
  <2>3. TxPlaces'
      BY <1>0, <1>a, <2>1, <2>2 DEF TxPlaces
  <2>4. TxQueue'
      BY <1>0, <1>a, <2>1, <2>2 DEF TxInv, TxQueue
  <2> QED BY <1>b, <2>3, <2>4 DEF TxInv
<1> QED BY <1>1, <1>2, <1>3, TxDevice

\* The packet at the head of the queue goes into the entry.
LEMMA TxFilled ==
  ASSUME Inv, FillTdr, hpc = "tdr" \/ mpc = "tdr", hpc' # "tdr", mpc' # "tdr", mpc' # "xip",
         mpc = "tdr" => hpc = "off",
         UNCHANGED <<sent, xmq, xip, npkt, p4>>, ~TxHand', TxHandler'
  PROVE  TxInv'
<1>0. TxInv /\ SysTypeOK
  BY DEF Inv
<1>1. xip /\ ~Tx.own /\ ~TxReady /\ ~TxHand
  BY <1>0 DEF TxInv, TxPlaces, TxHand
<1>2. Head(xmq) = xmq[1]
  BY <1>0, <1>1, HeadIsFrame DEF TxInv, TxQueue
<1>3. UNCHANGED <<status, txflag, txea>>
  BY DEF FillTdr, device, csrs, txside
<1>4. Tx'.own /\ Tx'.frame = xmq[1]
  <2>1. Tdr \in DOMAIN txring /\ 0 \in DOMAIN txring[Tdr]
      BY <1>0, Consts DEF SysTypeOK, TypeOK, TypeMem
  <2> QED BY <1>2, <2>1 DEF FillTdr, Tx
<1>5. TxPlaces'
  BY <1>1, <1>3, <1>4 DEF TxPlaces, TxReady
<1>6. ~txflag
  BY <1>0, <1>1 DEF TxInv, TxQueue
<1>7. TxQueue'
  BY <1>0, <1>1, <1>3, <1>4, <1>6 DEF TxInv, TxQueue, TxReady
<1> QED BY <1>5, <1>7 DEF TxInv

\* One more packet at the end of the queue, which need not have been empty.
LEMMA TxAccepted ==
  ASSUME Inv, npkt' = npkt + 1, xmq' = Append(xmq, npkt'),
         UNCHANGED <<txflag, txea, txring, sent, status, p4>>, TxHand' <=> TxHand,
         \/ xmq # <<>> /\ UNCHANGED xip /\ (hpc' = "tdr" <=> hpc = "tdr")
            /\ (mpc' = "tdr" <=> mpc = "tdr") /\ (mpc' = "xip" => mpc = "xip")
         \/ xmq = <<>> /\ mpc' = "xip" /\ UNCHANGED <<xip, hpc>>
         \/ xmq = <<>> /\ hpc' = "tdr" /\ xip' /\ UNCHANGED mpc,
         TxHandler'
  PROVE  TxInv'
<1>0. TxInv /\ SysTypeOK
  BY DEF Inv
<1>1. UNCHANGED <<Tx, TxReady>>
  BY DEF Tx, TxReady
<1>2. /\ Len(xmq') = Len(xmq) + 1 /\ Len(xmq) \in Nat /\ npkt \in Nat /\ xmq' # <<>>
      /\ \A i \in 1 .. Len(xmq) : xmq'[i] = xmq[i]
      /\ xmq'[Len(xmq) + 1] = npkt + 1
      /\ (xmq # <<>> => Len(xmq) > 0) /\ (xmq = <<>> => Len(xmq) = 0)
  <2>1. npkt' \in Nat /\ xmq \in Seq(Nat)
    <3>1. 1 .. MaxPkts \subseteq Nat
        BY Consts
    <3>2. xmq \in Seq(1 .. MaxPkts) /\ npkt \in Nat
        BY <1>0, Consts DEF SysTypeOK
    <3>3. xmq \in Seq(Nat)
        BY <3>1, <3>2, SeqMonotonic
    <3> QED BY <3>2, <3>3
  <2>2. xmq' = Append(xmq, npkt') /\ npkt' = npkt + 1 /\ npkt \in Nat
      BY <1>0, Consts DEF SysTypeOK
  <2>3. Len(xmq) \in Nat /\ (xmq # <<>> => Len(xmq) > 0) /\ (xmq = <<>> => Len(xmq) = 0)
      BY <2>1, LenProperties, EmptySeq
  <2>4. /\ Len(xmq') = Len(xmq) + 1 /\ xmq' # <<>>
        /\ \A i \in 1 .. Len(xmq) : xmq'[i] = xmq[i]
        /\ xmq'[Len(xmq) + 1] = npkt'
      BY <2>1, <2>2, AppendProperties
  <2> QED BY <2>2, <2>3, <2>4
<1>3. xmq = <<>> => ~xip /\ ~Tx.own /\ ~TxReady /\ ~TxHand /\ mpc # "tdr" /\ hpc # "tdr"
  BY <1>0 DEF TxInv, TxPlaces, TxQueue
<1>4. TxPlaces'
  BY <1>0, <1>1, <1>3 DEF TxInv, TxPlaces
<1>5. Len(xmq') <= npkt' /\ \A i \in 1 .. Len(xmq') : xmq'[i] = npkt' - Len(xmq') + i
  BY <1>0, <1>2 DEF TxInv, TxQueue
<1>6. Tx'.own => Tx'.frame = xmq'[1]
  <2>1. CASE xmq = <<>>
      BY <1>1, <1>3, <2>1
  <2>2. CASE xmq # <<>>
      BY <1>0, <1>1, <1>2, <2>2 DEF TxInv, TxQueue
  <2> QED BY <2>1, <2>2
<1>7. npkt' - Len(xmq') = npkt - Len(xmq)
  BY <1>2
<1>8. Len(sent') = npkt' - Len(xmq') + (IF txflag' \/ TxReady' \/ TxHand' THEN 1 ELSE 0)
  BY <1>0, <1>1, <1>7 DEF TxInv, TxQueue
<1>9. TxQueue'
  <2>1. mpc' = "xip" => ~xip'
      BY <1>0, <1>3 DEF TxInv, TxQueue
  <2>2. txflag' => Tx'.own /\ txea' = <<Tdr, 0>>
      BY <1>0, <1>1 DEF TxInv, TxQueue
  <2> QED BY <1>2, <1>5, <1>6, <1>8, <2>1, <2>2 DEF TxQueue
<1> QED BY <1>4, <1>9 DEF TxInv

\* Each step of the system keeps the packet in progress in one place.
LEMMA TxStep == Inv /\ [SysNext]_sysvars => TxInv'
<1> SUFFICES ASSUME Inv, [SysNext]_sysvars
             PROVE  TxInv'
    OBVIOUS
<1>0. TxInv /\ TxPlaces /\ TxHandler /\ SysTypeOK
  BY DEF Inv, TxInv
<1>a. \A bits : /\ "TXI" \in bits => Dispatch(bits) \in {"rxi", "txi"}
                /\ "TXI" \notin bits => Dispatch(bits) \in {"rxi", "dni", "off"}
                /\ "RXI" \notin bits => Dispatch(bits) # "rxi"
                /\ Dispatch(bits) = "txi" => "TXI" \in bits
  BY DEF Dispatch
<1>b. Dispatch(p4 \ {"RXI", "TXI"}) \in {"dni", "off"}
  BY DEF Dispatch
<1>c. ASSUME NEW ie, NEW cmd, WritePcsr0({}, ie, cmd)
      PROVE  UNCHANGED <<status, txflag, txea>>
  BY <1>c DEF WritePcsr0, SetInt, txside
<1> USE DEF queues, polling, seen, csrs, txside, eth, mem, TxHand, TxHandler
<1>1. CASE SysDevice
  BY <1>1, TxDeviceStep
<1>2. CASE SysArrive
  BY <1>0, <1>2 DEF SysArrive, FrameArrives, TxInv, TxPlaces, TxQueue, Tx, TxReady
<1>3. CASE HTake
  <2>1. UNCHANGED <<txflag, txea, txring, sent, xmq, xip, npkt, status, p4, mpc>>
        /\ hpc = "off" /\ hpc' = "rdio"
      BY <1>3 DEF HTake, TakeInterrupt
  <2>2. TxPlaces'
      BY <1>0, <2>1 DEF TxPlaces, Tx, TxReady
  <2>3. TxQueue'
      BY <1>0, <2>1 DEF TxInv, TxQueue, Tx, TxReady
  <2> QED BY <2>1, <2>2, <2>3 DEF TxInv
<1>4. CASE HRead
  <2>1. UNCHANGED <<txflag, txea, txring, sent, xmq, xip, npkt, status, mpc>>
        /\ hpc = "rdio" /\ hpc' = "wrio" /\ p4' = status
      BY <1>4 DEF HRead, vars
  <2>2. TxPlaces'
      BY <1>0, <2>1 DEF TxPlaces, Tx, TxReady
  <2>3. TxQueue'
      BY <1>0, <2>1 DEF TxInv, TxQueue, Tx, TxReady
  <2> QED BY <2>1, <2>2, <2>3 DEF TxInv
<1>5. CASE HAck
  <2>1. UNCHANGED <<txflag, txea, txring, sent, xmq, xip, npkt, mpc, p4>>
        /\ hpc = "wrio" /\ hpc' = Dispatch(p4) /\ status' = status \ p4
      BY <1>5 DEF HAck, WritePcsr0, SetInt
  <2>2. p4 \subseteq status /\ UNCHANGED Tx
      BY <1>0, <2>1 DEF Tx
  <2>3. /\ ~TxHand /\ hpc' # "tdr" /\ hpc # "tdr"
        /\ TxReady <=> TxReady' \/ TxHand'
        /\ ~(TxReady' /\ TxHand')
      BY <1>a, <2>1, <2>2 DEF TxReady
  <2>4. TxPlaces'
      BY <1>0, <2>1, <2>2, <2>3 DEF TxPlaces
  <2>5. TxQueue'
      BY <1>0, <2>1, <2>2, <2>3 DEF TxInv, TxQueue
  <2>6. TxHandler'
      BY <1>a, <2>1
  <2> QED BY <2>4, <2>5, <2>6 DEF TxInv
<1>6. CASE HRxiEnd \/ HRxiIgnore \/ HRxiReturn
  <2>1. UNCHANGED <<txflag, txea, txring, sent, xmq, xip, npkt, status, mpc, p4>>
        /\ hpc \in {"rxi", "rxi.2"} /\ hpc' \in {"rxi", "rxi.2", Dispatch(p4 \ {"RXI"})}
      BY <1>6 DEF HRxiEnd, HRxiIgnore, HRxiReturn, vars, device
  <2>2. /\ "TXI" \in p4 => hpc' \in {"rxi", "rxi.2", "txi"}
        /\ "TXI" \notin p4 => hpc' \in {"rxi", "rxi.2", "dni", "off"}
      BY <1>a, <2>1
  <2>3. UNCHANGED <<Tx, TxReady>> /\ (TxHand' <=> TxHand) /\ hpc # "tdr" /\ hpc' # "tdr"
      BY <2>1, <2>2 DEF Tx, TxReady
  <2>4. TxPlaces'
      BY <1>0, <2>1, <2>3 DEF TxPlaces
  <2>5. TxQueue'
      BY <1>0, <2>1, <2>3 DEF TxInv, TxQueue
  <2>6. TxHandler'
      BY <2>1, <2>2
  <2> QED BY <2>4, <2>5, <2>6 DEF TxInv
<1>7. CASE HRxiGive
  <2> DEFINE f == rxring[Rdr][unarxn].frame
  <2>1. UNCHANGED <<txflag, txea, txring, sent, status, mpc, p4>> /\ hpc = "rxi"
      BY <1>7 DEF HRxiGive, vars
  <2>2. CASE f \in Answered /\ npkt < MaxPkts
    <3>1. npkt' = npkt + 1 /\ xmq' = Append(xmq, npkt')
        BY <1>7, <2>2 DEF HRxiGive
    <3>2. CASE xmq = <<>>
      <4>1. xip' = TRUE /\ hpc' = "tdr" /\ hret' = "rxi.2"
          BY <1>7, <2>2, <3>2 DEF HRxiGive
      <4>2. "TXI" \notin p4 /\ mpc # "xip"
          BY <1>0, <2>1, <3>2 DEF TxPlaces, TxInv, TxQueue
      <4>3. TxHandler'
          BY <2>1, <4>1, <4>2
      <4>4. TxHand' <=> TxHand
          BY <2>1, <4>1, <4>2
      <4> QED BY <2>1, <3>1, <3>2, <4>1, <4>2, <4>3, <4>4, TxAccepted
    <3>3. CASE xmq # <<>>
      <4>1. hpc' = "rxi.2" /\ UNCHANGED <<xip, hret>>
          BY <1>7, <2>2, <3>3 DEF HRxiGive
      <4>2. TxHandler' /\ (TxHand' <=> TxHand)
          BY <2>1, <4>1
      <4> QED BY <2>1, <3>1, <3>3, <4>1, <4>2, TxAccepted
    <3> QED BY <3>2, <3>3
  <2>3. CASE ~(f \in Answered /\ npkt < MaxPkts)
    <3>1. UNCHANGED <<npkt, xmq, xip, hret>> /\ hpc' = "rxi.2"
        BY <1>7, <2>3 DEF HRxiGive
    <3>2. UNCHANGED <<Tx, TxReady>> /\ (TxHand' <=> TxHand)
        BY <2>1, <3>1 DEF Tx, TxReady
    <3>3. TxPlaces'
        BY <1>0, <2>1, <3>1, <3>2 DEF TxPlaces
    <3>4. TxQueue'
        BY <1>0, <2>1, <3>1, <3>2 DEF TxInv, TxQueue
    <3> QED BY <2>1, <3>1, <3>3, <3>4 DEF TxInv
  <2> QED BY <2>2, <2>3
<1>8. CASE HTxi
  <2>1. UNCHANGED <<txflag, txea, txring, sent, npkt, status, mpc, p4>> /\ hpc = "txi"
      BY <1>8 DEF HTxi, vars
  <2>2. TxHand /\ xip /\ ~Tx.own /\ ~TxReady /\ mpc # "tdr" /\ xmq # <<>> /\ mpc # "xip" /\ ~txflag
      BY <1>0, <2>1 DEF TxPlaces, TxInv, TxQueue
  <2>3. xmq' = Tail(xmq) /\ xip' = (Tail(xmq) # <<>>)
      BY <1>8, <2>2 DEF HTxi
  <2>4. IF xip' THEN hpc' = "tdr" /\ hret' \in {"dni", "off"} ELSE hpc' \in {"dni", "off"}
      BY <1>8, <1>b DEF HTxi
  <2>5. UNCHANGED <<Tx, TxReady>> /\ ~TxHand'
      BY <2>1, <2>4 DEF Tx, TxReady
  <2>6. TxPlaces'
      BY <2>1, <2>2, <2>3, <2>4, <2>5 DEF TxPlaces
  <2>7. Len(xmq) \in Nat /\ Len(xmq') = Len(xmq) - 1 /\ \A i \in 1 .. Len(xmq') : xmq'[i] = xmq[i + 1]
      BY <1>0, <2>2, <2>3, HeadTailProperties, EmptySeq DEF SysTypeOK
  <2>8. Len(xmq') <= npkt' /\ \A i \in 1 .. Len(xmq') : xmq'[i] = npkt' - Len(xmq') + i
    <3>1. npkt' = npkt /\ npkt \in Nat
        BY <1>0, <2>1, Consts DEF SysTypeOK
    <3>2. Len(xmq) <= npkt /\ \A i \in 1 .. Len(xmq) : xmq[i] = npkt - Len(xmq) + i
        BY <1>0 DEF TxInv, TxQueue
    <3>3. Len(xmq') <= npkt'
        BY <2>7, <3>1, <3>2
    <3>4. ASSUME NEW i \in 1 .. Len(xmq')
          PROVE  xmq'[i] = npkt' - Len(xmq') + i
      <4>1. i + 1 \in 1 .. Len(xmq) /\ i \in Nat
          BY <2>7
      <4>2. xmq'[i] = npkt - Len(xmq) + (i + 1)
          BY <2>7, <3>2, <4>1
      <4>3. npkt - Len(xmq) + (i + 1) = npkt' - Len(xmq') + i
          BY <2>7, <3>1, <4>1
      <4> QED BY <4>2, <4>3
    <3> QED BY <3>3, <3>4
  <2>9. Len(sent') = npkt' - Len(xmq')
      BY <1>0, <2>1, <2>2, <2>7, Consts DEF TxInv, TxQueue, SysTypeOK
  <2>10. npkt' - Len(xmq') = npkt' - Len(xmq') + 0
      BY <1>0, <2>1, <2>7, Consts DEF SysTypeOK
  <2>11. Len(sent') = npkt' - Len(xmq') + (IF txflag' \/ TxReady' \/ TxHand' THEN 1 ELSE 0)
      BY <2>1, <2>2, <2>5, <2>9, <2>10
  <2>12. TxQueue'
      BY <2>1, <2>2, <2>3, <2>5, <2>8, <2>11 DEF TxQueue
  <2>13. TxHandler'
      BY <2>1, <2>4
  <2> QED BY <2>6, <2>12, <2>13 DEF TxInv
<1>9. CASE HTdr
  <2>1. FillTdr /\ hpc = "tdr" /\ hpc' = "poll" /\ UNCHANGED <<sent, xmq, xip, npkt, p4, mpc, hret>>
      BY <1>9 DEF HTdr
  <2>2. mpc # "tdr" /\ mpc # "xip"
      BY <1>0, <2>1 DEF TxPlaces, TxInv, TxQueue
  <2>3. ~TxHand' /\ TxHandler'
      BY <1>0, <2>1
  <2> QED BY <2>1, <2>2, <2>3, TxFilled
<1>10. CASE HPoll
  <2>1. UNCHANGED <<txring, sent, xmq, xip, npkt, p4, mpc, hret>> /\ hpc = "poll" /\ hpc' = hret
      BY <1>10 DEF HPoll, PollDemand, vars
  <2>2. UNCHANGED <<status, txflag, txea>>
      BY <1>10, <1>c DEF HPoll, PollDemand, vars
  <2>3. hret \in {"off", "rxi.2", "dni"} /\ (hret = "rxi.2" => "TXI" \notin p4)
      BY <1>0, <2>1 DEF SysTypeOK
  <2>4. UNCHANGED <<Tx, TxReady>> /\ ~TxHand' /\ ~TxHand /\ hpc' # "tdr" /\ TxHandler'
      BY <2>1, <2>2, <2>3 DEF Tx, TxReady
  <2>5. TxPlaces'
      BY <1>0, <2>1, <2>4 DEF TxPlaces
  <2>6. TxQueue'
      BY <1>0, <2>1, <2>2, <2>4 DEF TxInv, TxQueue
  <2> QED BY <2>4, <2>5, <2>6 DEF TxInv
<1>11. CASE HDniCommand
  <2>1. /\ UNCHANGED <<device, sent, xmq, xip, npkt, p4, mpc>> /\ hpc = "dni" /\ hpc' \in {"pcsr", "cmd"}
        /\ unacmq # <<>>
      BY <1>0, <1>11, DniCommand
  <2>2. ~xip /\ xmq = <<>>
      BY <2>1 DEF Inv, BootInv, Booting
  <2>3. ~Tx.own /\ ~TxReady /\ ~TxHand /\ ~txflag /\ mpc # "tdr" /\ mpc # "xip"
      BY <1>0, <2>2 DEF TxPlaces, TxInv, TxQueue
  <2>4. ~Tx'.own
    <3>1. CASE unacmq[1] = "qf.wfm"
      <4>1. Tx \in TxEntry /\ Tdr \in DOMAIN txring /\ 0 \in DOMAIN txring[Tdr]
          BY <1>0, Consts DEF SysTypeOK, TypeOK, TypeMem, Tx
      <4> QED BY <1>0, <1>11, <3>1, <4>1, DniCommand DEF Build, Tx, TxEntry
    <3>2. CASE unacmq[1] # "qf.wfm"
        BY <1>0, <1>11, <2>3, <3>2, DniCommand DEF Tx
    <3> QED BY <3>1, <3>2
  <2>5. UNCHANGED <<status, txflag, txea, TxReady>> /\ ~TxHand'
      BY <2>1 DEF device, TxReady
  <2>6. TxPlaces'
      BY <1>0, <2>1, <2>2, <2>3, <2>4, <2>5 DEF TxPlaces
  <2>7. TxQueue'
      BY <1>0, <2>1, <2>2, <2>3, <2>4, <2>5 DEF TxInv, TxQueue
  <2>8. TxHandler'
      BY <2>1
  <2> QED BY <2>6, <2>7, <2>8 DEF TxInv
<1>12. CASE HDniPoll \/ HPcsr \/ HCmd
  <2>1. UNCHANGED <<txring, sent, xmq, xip, npkt, p4, mpc>> /\ hpc \in {"dni", "pcsr", "cmd"}
        /\ hpc' \in {"off", "cmd"}
      BY <1>12 DEF HDniPoll, HPcsr, HCmd, PollDemand, vars
  <2>2. UNCHANGED <<status, txflag, txea>>
      BY <1>12, <1>c DEF HDniPoll, HPcsr, HCmd, WritePcsr23, PollDemand, vars
  <2>3. UNCHANGED <<Tx, TxReady>> /\ ~TxHand' /\ ~TxHand /\ TxHandler'
      BY <2>1, <2>2 DEF Tx, TxReady
  <2>4. TxPlaces'
      BY <1>0, <2>1, <2>3 DEF TxPlaces
  <2>5. TxQueue'
      BY <1>0, <2>1, <2>2, <2>3 DEF TxInv, TxQueue
  <2> QED BY <2>3, <2>4, <2>5 DEF TxInv
<1>13. CASE MOnce \/ MPol \/ MTest \/ MPoll \/ MSetPip \/ MClrPol
  <2>1. UNCHANGED <<txring, sent, xmq, xip, npkt, p4, hpc, hret>> /\ hpc = "off"
        /\ mpc \notin {"tdr", "xip"} /\ mpc' \notin {"tdr", "xip"}
      BY <1>13 DEF MOnce, MPol, MTest, MPoll, MSetPip, MClrPol, Main, PollDemand, vars
  <2>2. UNCHANGED <<status, txflag, txea>>
      BY <1>13, <1>c DEF MOnce, MPol, MTest, MPoll, MSetPip, MClrPol, PollDemand, vars
  <2> QED BY <1>0, <2>1, <2>2, TxStill
<1>14. CASE MSend
  <2>1. UNCHANGED <<txflag, txea, txring, sent, status, xip, p4, hpc, hret>> /\ hpc = "off"
        /\ mpc = "idle" /\ npkt' = npkt + 1 /\ xmq' = Append(xmq, npkt')
        /\ mpc' = IF xmq = <<>> THEN "xip" ELSE "idle"
      BY <1>14 DEF MSend, Main, vars
  <2>2. TxHandler' /\ (TxHand' <=> TxHand)
      BY <1>0, <2>1
  <2> QED BY <2>1, <2>2, TxAccepted
<1>15. CASE MXip
  <2>1. UNCHANGED <<txflag, txea, txring, sent, status, xmq, npkt, p4, hpc, hret>> /\ hpc = "off"
        /\ mpc = "xip" /\ mpc' = "tdr" /\ xip'
      BY <1>15 DEF MXip, Main, vars
  <2>2. ~xip /\ xmq # <<>>
      BY <1>0, <2>1 DEF TxInv, TxQueue
  <2>3. UNCHANGED <<Tx, TxReady>> /\ ~TxHand' /\ ~TxHand /\ TxHandler' /\ ~Tx.own /\ ~TxReady
      BY <1>0, <2>1, <2>2 DEF Tx, TxReady, TxPlaces
  <2>4. TxPlaces'
      BY <2>1, <2>3 DEF TxPlaces
  <2>5. TxQueue'
      BY <1>0, <2>1, <2>2, <2>3 DEF TxInv, TxQueue
  <2> QED BY <2>3, <2>4, <2>5 DEF TxInv
<1>16. CASE MTdr
  <2>1. FillTdr /\ mpc = "tdr" /\ mpc' = "pol" /\ hpc = "off"
        /\ UNCHANGED <<sent, xmq, xip, npkt, p4, hpc, hret>>
      BY <1>16 DEF MTdr, Main
  <2>2. ~TxHand' /\ TxHandler'
      BY <2>1
  <2> QED BY <2>1, <2>2, TxFilled
<1>17. CASE UNCHANGED sysvars
  BY <1>0, <1>17 DEF sysvars, vars, TxInv, TxPlaces, TxQueue, Tx, TxReady
<1> QED BY <1>1, <1>2, <1>3, <1>4, <1>5, <1>6, <1>7, <1>8, <1>9, <1>10, <1>11, <1>12, <1>13,
   <1>14, <1>15, <1>16, <1>17 DEF SysNext, Handler, MFinish
=============================================================================
