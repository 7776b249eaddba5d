---------------------------- MODULE DeunaProofs ----------------------------
(***************************************************************************)
(* Theorems about the DEUNA for every value of the constants: any number   *)
(* of ring areas, any ring length, any frame set, any bound on the wire.   *)
(***************************************************************************)
EXTENDS Deuna, SequenceTheorems, TLAPS

USE DeunaAssumption

-----------------------------------------------------------------------------
\* Every branch of the service routine that puts back the unit by
\* deuna_activate keeps the rule, whatever the flags were before.
LEMMA ActivateQueues ==
  ASSUME NEW was \in BOOLEAN, Activate(was)
  PROVE  UnitQueued' /\ active' \in BOOLEAN
  BY DEF Activate, UnitQueued

QueueInv == UnitQueued /\ active \in BOOLEAN

LEMMA UnitQueuedStep == QueueInv /\ [Next]_vars => QueueInv'
<1> SUFFICES ASSUME UnitQueued, active \in BOOLEAN, [Next]_vars
             PROVE  UnitQueued' /\ active' \in BOOLEAN
    BY DEF QueueInv
<1>1. CASE DeviceStep
  <2> PICK c \in AuxCmd : Svc(c)
      BY <1>1 DEF DeviceStep
  <2>1. Activate(FALSE)
      BY DEF Svc, SvcReset, SvcGetPcb, SvcAux, SvcSelfTest, SvcStart, SvcStop, SvcNoop,
             SvcPollError, SvcPollRunt, SvcPollSend, SvcPollIdle, SvcTxDone, SvcReceive,
             SvcReceiveNone, SvcReceiveDrop, SvcReceiveRcbi, SvcReceiveStore, Report
  <2> QED BY <2>1, ActivateQueues
<1>2. CASE HostStep
  <2>1. CASE HostPcsr0High
      BY <2>1 DEF HostPcsr0High, WritePcsr0High, UnitQueued, txside
  <2>2. CASE HostPcsr0Rset
      BY <2>2, ActivateQueues DEF HostPcsr0Rset, WritePcsr0Rset
  <2>3. CASE HostPcsr0
    <3> PICK w1c \in SUBSET status, ie \in HostInte, cmd \in HostCmds : WritePcsr0(w1c, ie, cmd)
        BY <2>3 DEF HostPcsr0
    <3>1. UNCHANGED <<state, resetflag, txflag>>
        BY DEF WritePcsr0, txside
    <3>2. CASE ie # inte
      BY <3>1, <3>2 DEF WritePcsr0, UnitQueued
    <3>3. CASE ie = inte
      <4>1. cmdflag' = (cmdflag \/ cmd # "NOOP") /\ active' = (active \/ cmd # "NOOP")
          BY <3>3 DEF WritePcsr0
      <4>2. CASE cmd = "NOOP"
          BY <3>1, <4>1, <4>2, Zenon DEF UnitQueued
      <4>3. CASE cmd # "NOOP"
          BY <4>1, <4>3, Zenon DEF UnitQueued
      <4> QED BY <4>2, <4>3
    <3> QED BY <3>2, <3>3
  <2>4. CASE HostPcsr23
      BY <2>4 DEF HostPcsr23, WritePcsr23, UnitQueued, txside
  <2>5. CASE HostInterrupt
      BY <2>5 DEF HostInterrupt, TakeInterrupt, UnitQueued, txside, csrs
  <2>6. CASE UnaReset
      BY <2>6, ActivateQueues DEF UnaReset
  <2>7. CASE HostRebuild
      BY <2>7 DEF HostRebuild, UnitQueued, txside, csrs
  <2>8. CASE \E r \in TxRings, i \in TxIdx, f \in Frames \cup BadTx : HostTx(r, i, f)
      BY <2>8 DEF HostTx, UnitQueued, txside, csrs
  <2>9. CASE \E r \in RxRings, i \in RxIdx, d \in HostDma : HostRx(r, i, d)
      BY <2>9 DEF HostRx, UnitQueued, txside, csrs
  <2> QED BY <1>2, <2>1, <2>2, <2>3, <2>4, <2>5, <2>6, <2>7, <2>8, <2>9 DEF HostStep
<1>3. CASE \E f \in Frames : FrameArrives(f)
  BY <1>3 DEF FrameArrives, UnitQueued, txside, csrs
<1>4. CASE UNCHANGED vars
  BY <1>4 DEF vars, UnitQueued, txside, csrs
<1> QED BY <1>1, <1>2, <1>3, <1>4 DEF Next

\* The device never goes to sleep with work to do: deuna_activate is reached
\* on every path that sets a flag or leaves the port running.
THEOREM UnitQueuedAlways == Spec => []UnitQueued
<1>1. Init => QueueInv
  BY DEF Init, QueueInv, UnitQueued
<1>2. QueueInv => UnitQueued
  BY DEF QueueInv
<1> QED BY <1>1, <1>2, UnitQueuedStep, PTL DEF Spec

-----------------------------------------------------------------------------
\* After setint the summary bit follows the status bits, and an enabled
\* interrupt has its request.
LEMMA SetIntKeeps ==
  ASSUME NEW base, NEW bits, NEW timeout, SetInt(base, bits, timeout)
  PROVE  /\ intr' = (status' # {})
         /\ inte' /\ status' # {} => intreq'
  BY DEF SetInt

LEMMA InterruptKeptStep == InterruptKept /\ [Next]_vars => InterruptKept'
<1> SUFFICES ASSUME InterruptKept, [Next]_vars
             PROVE  InterruptKept'
    OBVIOUS
<1>1. CASE DeviceStep
  <2> PICK c \in AuxCmd : Svc(c)
      BY <1>1 DEF DeviceStep
  <2>1. CASE SvcReset
      BY <2>1, SetIntKeeps DEF SvcReset, InterruptKept
  <2>2. CASE SvcSelfTest
      BY <2>2 DEF SvcSelfTest, SetReset, InterruptKept
  <2>3. CASE SvcReceiveNone \/ SvcReceiveDrop
    <3>1. UNCHANGED <<status, intr, inte, intreq, vectored>>
        BY <2>3 DEF SvcReceiveNone, SvcReceiveDrop, Receiving, Serving
    <3> QED BY <3>1 DEF InterruptKept
  <2> DEFINE Reported == \E base, bits, timeout : SetInt(base, bits, timeout)
  <2>4. CASE Reported
      BY <2>4, SetIntKeeps DEF InterruptKept
  <2>5. SvcGetPcb \/ SvcAux(c) \/ SvcStart \/ SvcStop \/ SvcNoop => Reported
      BY DEF SvcGetPcb, SvcAux, SvcStart, SvcStop, SvcNoop, Report
  <2>6. SvcPollError \/ SvcPollRunt \/ SvcPollSend \/ SvcPollIdle \/ SvcTxDone => Reported
      BY DEF SvcPollError, SvcPollRunt, SvcPollSend, SvcPollIdle, SvcTxDone, Report
  <2>7. SvcReceive => SvcReceiveNone \/ SvcReceiveDrop \/ Reported
      BY DEF SvcReceive, SvcReceiveRcbi, SvcReceiveStore, Report
  <2> HIDE DEF Reported
  <2> QED BY <2>1, <2>2, <2>3, <2>4, <2>5, <2>6, <2>7 DEF Svc
<1>2. CASE HostStep
  <2>1. CASE HostPcsr0High
      BY <2>1, SetIntKeeps DEF HostPcsr0High, WritePcsr0High, InterruptKept
  <2>2. CASE HostPcsr0Rset
      BY <2>2 DEF HostPcsr0Rset, WritePcsr0Rset, SetReset, InterruptKept
  <2>3. CASE HostPcsr0
      BY <2>3, SetIntKeeps DEF HostPcsr0, WritePcsr0, InterruptKept
  <2>4. CASE HostPcsr23
      BY <2>4 DEF HostPcsr23, WritePcsr23, InterruptKept
  <2>5. CASE HostInterrupt
      BY <2>5 DEF HostInterrupt, TakeInterrupt, csrs, InterruptKept
  <2>6. CASE UnaReset
      BY <2>6 DEF UnaReset, SetReset, InterruptKept
  <2>7. CASE HostRebuild
      BY <2>7 DEF HostRebuild, csrs, InterruptKept
  <2>8. CASE \E r \in TxRings, i \in TxIdx, f \in Frames \cup BadTx : HostTx(r, i, f)
      BY <2>8 DEF HostTx, csrs, InterruptKept
  <2>9. CASE \E r \in RxRings, i \in RxIdx, d \in HostDma : HostRx(r, i, d)
      BY <2>9 DEF HostRx, csrs, InterruptKept
  <2> QED BY <1>2, <2>1, <2>2, <2>3, <2>4, <2>5, <2>6, <2>7, <2>8, <2>9 DEF HostStep
<1>3. CASE \E f \in Frames : FrameArrives(f)
  BY <1>3 DEF FrameArrives, csrs, InterruptKept
<1>4. CASE UNCHANGED vars
  BY <1>4 DEF vars, csrs, InterruptKept
<1> QED BY <1>1, <1>2, <1>3, <1>4 DEF Next

\* No interrupt is lost: whatever register writes and service runs happen in
\* between, an enabled status bit has its request pending or has been taken by
\* a host that has yet to write PCSR0.
THEOREM InterruptKeptAlways == Spec => []InterruptKept
<1>1. Init => InterruptKept
  BY DEF Init, InterruptKept
<1> QED BY <1>1, InterruptKeptStep, PTL DEF Spec

-----------------------------------------------------------------------------
(* Type correctness: lemmas on the helpers, then the registers and flags,    *)
(* then the ring pointers, the rings and the network.                        *)

LEMMA EthFilterType ==
  ASSUME TypeEth, NEW on \in BOOLEAN, EthFilter(on)
  PROVE  TypeEth'
<1> PICK k \in 0 .. Len(wire) : wire' = SubSeq(wire, 1, k)
    BY DEF EthFilter
<1>1. wire \in Seq(Frames) /\ k \in Int /\ \A i \in 1 .. k : wire[i] \in Frames
    BY DEF TypeEth
<1>2. wire' \in Seq(Frames)
    BY <1>1, SubSeqProperties
<1> QED BY <1>2 DEF EthFilter, TypeEth

\* The pointer stays in the ring.
LEMMA NextTxType ==
  ASSUME NEW i \in TxIdx
  PROVE  NextTx(i) \in TxIdx
  BY DEF TxIdx, NextTx

LEMMA TxAtNext ==
  ASSUME TypePort, TypeTx
  PROVE  <<ring.tdrb, txnext>> \in TxAddr
  BY DEF TypePort, TypeTx, TxAddr

LEMMA GiveBackType ==
  ASSUME TypeMem, NEW a, NEW e \in BOOLEAN, GiveBackTx(a, e), UNCHANGED rxring
  PROVE  TypeMem'
<1> DEFINE New(x) == [x EXCEPT !.own = FALSE, !.err = e]
<1>1. \A x \in TxEntry : New(x) \in TxEntry
    BY DEF TxEntry
<1>2. txring' = [txring EXCEPT ![a[1]][a[2]] = New(@)]
    BY DEF GiveBackTx
<1> HIDE DEF New
<1>3. txring' \in [TxRings -> [TxIdx -> TxEntry]]
    BY <1>1, <1>2 DEF TypeMem
<1> QED BY <1>3 DEF TypeMem

LEMMA FetchRxType ==
  ASSUME TypeRx, TypePort, TypeMem, FetchRx
  PROVE  TypeRx'
<1>1. CASE rxactive
  BY <1>1 DEF FetchRx, TypeRx, rxside
<1>2. CASE ~rxactive
  <2>1. ring.rdrb \in RxRings => rxring[ring.rdrb][rxnext] \in RxEntry
      BY DEF TypeRx, TypeMem
  <2>2. ring.rdrb \in RxRings \cup {Hole} /\ rxnext \in RxIdx
      BY DEF TypeRx, TypePort
  <2>3. rxhdr' \in [own : BOOLEAN, dma : BOOLEAN]
      BY <1>2, <2>1, <2>2 DEF FetchRx, TypeRx, RxEntry
  <2> QED BY <1>2, <2>2, <2>3 DEF FetchRx, TypeRx, RxAddr
<1> QED BY <1>1, <1>2 DEF TypeRx

\* What the poll decides to send is a frame of legal length.
LEMMA SentIsFrame ==
  ASSUME TypePort, TypeTx, TypeMem, TxFound = "send"
  PROVE  txring[ring.tdrb][txnext].frame \in Frames \cup {None}
<1> DEFINE e == txring[ring.tdrb][txnext]
<1>1. ring.tdrb \in TxRings
    BY DEF TypePort, TxFound
<1>2. e \in TxEntry
    BY <1>1 DEF TypeMem, TypeTx
<1>3. e.frame # Mbz /\ e.own /\ e.frame # Nxm /\ e.frame # Runt
    BY <1>1, <1>2 DEF TxFound, TxEntry
<1> QED BY <1>2, <1>3 DEF TxEntry, BadKinds

LEMMA WireRest ==
  ASSUME TypeEth, NEW k \in 1 .. Len(wire)
  PROVE  SubSeq(wire, k + 1, Len(wire)) \in Seq(Frames)
<1>1. Len(wire) \in Nat /\ k + 1 \in Int /\ \A i \in k + 1 .. Len(wire) : wire[i] \in Frames
    BY DEF TypeEth
<1> QED BY <1>1, SubSeqProperties

LEMMA StoredRxType ==
  ASSUME TypeOK, NEW k \in 1 .. MaxWire, SvcReceiveStore(k)
  PROVE  TypeRx'
<1>1. rxnext' \in RxIdx
    BY DEF SvcReceiveStore, RxIdx, TypeOK, TypeRx
<1>2. ring.rdrb \in RxRings \cup {Hole}
    BY DEF TypeOK, TypePort
<1>3. rxea' \in RxAddr
    BY <1>1, <1>2 DEF SvcReceiveStore, RxAddr
<1>4. rxhdr.own \in BOOLEAN /\ rxhdr.dma \in BOOLEAN
    BY DEF TypeOK, TypeRx
<1>5. OwnedAt(k) \in BOOLEAN
    BY k # 0, Zenon DEF OwnedAt
<1>6. ring.rdrb # Hole => rxring[ring.rdrb][rxnext'].dma \in BOOLEAN
    BY <1>1, <1>2 DEF TypeOK, TypeMem, RxEntry
<1>7. rxhdr' \in [own : BOOLEAN, dma : BOOLEAN]
    BY <1>4, <1>5, <1>6 DEF SvcReceiveStore
<1> QED BY <1>1, <1>3, <1>7 DEF SvcReceiveStore, TypeOK, TypeRx

\* A filled descriptor is a descriptor.
LEMMA FilledType ==
  ASSUME NEW e \in RxEntry, NEW dma \in BOOLEAN, NEW f \in Frames
  PROVE  Filled(e, dma, f) \in RxEntry
  BY DEF Filled, RxEntry

LEMMA StoredMemType ==
  ASSUME TypeOK, NEW k \in 1 .. MaxWire, SvcReceiveStore(k)
  PROVE  TypeMem'
<1> DEFINE Js(r, i) == {j \in 0 .. k - 1 : StoreAt(j) = <<r, i>>}
           New(r, i) == IF Js(r, i) = {} THEN rxring[r][i]
                        ELSE LET j == CHOOSE j \in Js(r, i) : TRUE
                             IN Filled(rxring[r][i], IF j = 0 THEN rxhdr.dma ELSE rxring[r][i].dma,
                                       wire[j + 1])
<1>1. rxring' = [r \in RxRings |-> [i \in RxIdx |-> New(r, i)]] /\ UNCHANGED txring
    BY DEF SvcReceiveStore, Receiving
<1>2. ASSUME NEW r \in RxRings, NEW i \in RxIdx
      PROVE  New(r, i) \in RxEntry
  <2>1. rxring[r][i] \in RxEntry
      BY DEF TypeOK, TypeMem
  <2>2. CASE Js(r, i) = {}
      BY <2>1, <2>2
  <2>3. CASE Js(r, i) # {}
    <3> DEFINE j == CHOOSE j \in Js(r, i) : TRUE
    <3>1. j \in 0 .. k - 1
        BY <2>3
    <3>2. k \in 1 .. Len(wire)
        BY DEF SvcReceiveStore
    <3>3. wire[j + 1] \in Frames
        BY <3>1, <3>2 DEF TypeOK, TypeEth
    <3>4. rxhdr.dma \in BOOLEAN /\ rxring[r][i].dma \in BOOLEAN
        BY <2>1 DEF TypeOK, TypeRx, RxEntry
    <3> HIDE DEF j
    <3>5. (IF j = 0 THEN rxhdr.dma ELSE rxring[r][i].dma) \in BOOLEAN
        BY <3>4
    <3>6. Filled(rxring[r][i], IF j = 0 THEN rxhdr.dma ELSE rxring[r][i].dma, wire[j + 1]) \in RxEntry
        BY <2>1, <3>3, <3>5, FilledType
    <3> QED BY <2>3, <3>6 DEF j
  <2> QED BY <2>2, <2>3
<1> HIDE DEF New
<1> QED BY <1>1, <1>2 DEF TypeOK, TypeMem

RegTypes == TypeCsrs /\ TypeFlags /\ TypePort

LEMMA RegTypesStep == TypeOK /\ [Next]_vars => RegTypes'
<1> SUFFICES ASSUME TypeOK, [Next]_vars
             PROVE  TypeCsrs' /\ TypeFlags' /\ TypePort'
    BY DEF RegTypes
<1>1. CASE DeviceStep
  <2> PICK c \in AuxCmd : Svc(c)
      BY <1>1 DEF DeviceStep
  <2>1. CASE SvcReset
      BY <2>1 DEF SvcReset, Serving, SetInt, Activate, csrs, port, TypeCsrs, TypeFlags,
         TypePort, TypeOK, Bits, StatBits, Cmds
  <2>2. CASE SvcGetPcb
      BY <2>2 DEF SvcGetPcb, Command, Serving, Report, SetInt, Activate, csrs, port,
         TypeCsrs, TypeFlags, TypePort, TypeOK, Bits, StatBits, Cmds
  <2>3. CASE SvcAux(c)
      BY <2>3 DEF SvcAux, Command, Serving, Report, SetInt, Activate, AuxTimeout,
         AuxRejected, AuxCmd, csrs, port, TypeCsrs, TypeFlags, TypePort, TypeOK, Bits,
         StatBits, Cmds
  <2>4. CASE SvcSelfTest
      BY <2>4 DEF SvcSelfTest, SetReset, Activate, csrs, port, TypeCsrs, TypeFlags,
         TypePort, TypeOK, Bits, StatBits, Cmds
  <2>5. CASE SvcStart
      BY <2>5 DEF SvcStart, Command, Serving, Report, SetInt, Activate, csrs, port,
         TypeCsrs, TypeFlags, TypePort, TypeOK, Bits, StatBits, Cmds
  <2>6. CASE SvcStop
      BY <2>6 DEF SvcStop, Command, Serving, Report, SetInt, Activate, csrs, port, TypeCsrs,
         TypeFlags, TypePort, TypeOK, Bits, StatBits, Cmds
  <2>7. CASE SvcNoop
      BY <2>7 DEF SvcNoop, Command, Serving, Report, SetInt, Activate, csrs, port, TypeCsrs,
         TypeFlags, TypePort, TypeOK, Bits, StatBits, Cmds
  <2>8. CASE SvcPollError
      BY <2>8 DEF SvcPollError, Command, Serving, Report, SetInt, Activate, SetStat, csrs,
         port, TypeCsrs, TypeFlags, TypePort, TypeOK, Bits, StatBits, Cmds
  <2>9. CASE SvcPollRunt
      BY <2>9 DEF SvcPollRunt, Command, Serving, Report, SetInt, Activate, csrs, port,
         TypeCsrs, TypeFlags, TypePort, TypeOK, Bits, StatBits, Cmds
  <2>10. CASE SvcPollSend
      BY <2>10 DEF SvcPollSend, Command, Serving, Report, SetInt, Activate, csrs, port,
         TypeCsrs, TypeFlags, TypePort, TypeOK, Bits, StatBits, Cmds
  <2>11. CASE SvcPollIdle
      BY <2>11 DEF SvcPollIdle, Command, Serving, Report, SetInt, Activate, csrs, port,
         TypeCsrs, TypeFlags, TypePort, TypeOK, Bits, StatBits, Cmds
  <2>12. CASE SvcTxDone
    <3>1. Serving /\ Report({"TXI"}, FALSE) /\ UNCHANGED <<cmdflag, state, port>> /\ ~txflag'
        BY <2>12 DEF SvcTxDone
    <3>2. TypeCsrs'
        BY <3>1 DEF Serving, Report, SetInt, TypeCsrs, TypeOK, Bits
    <3>3. TypeFlags'
        BY <3>1 DEF Serving, Report, SetInt, Activate, TypeFlags, TypeOK
    <3>4. TypePort'
        BY <3>1 DEF port, TypePort, TypeOK
    <3> QED BY <3>2, <3>3, <3>4
  <2>13. CASE SvcReceiveNone
      BY <2>13 DEF SvcReceiveNone, Receiving, Serving, Activate, csrs, port, TypeCsrs,
         TypeFlags, TypePort, TypeOK, Bits, StatBits, Cmds
  <2>14. CASE SvcReceiveDrop
      BY <2>14 DEF SvcReceiveDrop, Receiving, Serving, Activate, csrs, port, TypeCsrs,
         TypeFlags, TypePort, TypeOK, Bits, StatBits, Cmds
  <2>15. CASE SvcReceiveRcbi
    <3>1. Receiving /\ Report({"RCBI"}, FALSE)
        BY <2>15 DEF SvcReceiveRcbi
    <3>2. TypeCsrs'
        BY <3>1 DEF Receiving, Serving, Report, SetInt, TypeCsrs, TypeOK, Bits
    <3>3. TypeFlags'
        BY <3>1 DEF Receiving, Serving, Report, SetInt, Activate, TypeFlags, TypeOK
    <3>4. TypePort'
        BY <3>1 DEF Receiving, port, TypePort, TypeOK
    <3> QED BY <3>2, <3>3, <3>4
  <2>16. CASE \E k \in 1 .. MaxWire : SvcReceiveStore(k)
    <3>1. Receiving /\ Report({"RXI"}, FALSE)
        BY <2>16 DEF SvcReceiveStore
    <3>2. TypeCsrs'
        BY <3>1 DEF Receiving, Serving, Report, SetInt, TypeCsrs, TypeOK, Bits
    <3>3. TypeFlags'
        BY <3>1 DEF Receiving, Serving, Report, SetInt, Activate, TypeFlags, TypeOK
    <3>4. TypePort'
        BY <3>1 DEF Receiving, port, TypePort, TypeOK
    <3> QED BY <3>2, <3>3, <3>4
  <2> QED BY <2>1, <2>2, <2>3, <2>4, <2>5, <2>6, <2>7, <2>8, <2>9, <2>10, <2>11, <2>12, <2>13,
     <2>14, <2>15, <2>16 DEF Svc, SvcReceive
<1>2. CASE HostStep
  <2>1. CASE HostPcsr0High
    <3>1. TypeCsrs'
        BY <2>1 DEF HostPcsr0High, WritePcsr0High, SetInt, csrs, port, TypeOK, Bits, Cmds,
           TypeCsrs, TypeFlags, TypePort
    <3>2. TypeFlags'
        BY <2>1 DEF HostPcsr0High, WritePcsr0High, SetInt, csrs, port, TypeOK, Bits, Cmds,
           TypeCsrs, TypeFlags, TypePort
    <3>3. TypePort'
        BY <2>1 DEF HostPcsr0High, WritePcsr0High, SetInt, csrs, port, TypeOK, Bits, Cmds,
           TypeCsrs, TypeFlags, TypePort
    <3> QED BY <3>1, <3>2, <3>3
  <2>2. CASE HostPcsr0Rset
      BY <2>2 DEF HostPcsr0Rset, WritePcsr0Rset, SetReset, Activate, csrs, port, TypeCsrs,
         TypeFlags, TypePort, TypeOK, Bits, StatBits, Cmds
  <2>3. CASE HostPcsr0
    <3>1. PICK w1c \in SUBSET status, ie \in HostInte, c \in HostCmds : WritePcsr0(w1c, ie, c)
        BY <2>3 DEF HostPcsr0
    <3>2. ie \in BOOLEAN /\ c \in Cmds
        BY DeunaAssumption
    <3>3. TypeCsrs'
        BY <3>1, <3>2 DEF WritePcsr0, SetInt, TypeOK, Bits, TypeCsrs
    <3>4. TypeFlags'
      <4>1. cmdflag' \in BOOLEAN /\ active' \in BOOLEAN
          BY <3>1 DEF WritePcsr0, TypeOK, TypeFlags
      <4>2. intreq' \in BOOLEAN /\ resetflag' \in BOOLEAN /\ vectored' \in BOOLEAN
          BY <3>1 DEF WritePcsr0, SetInt, TypeOK, TypeFlags
      <4> QED BY <4>1, <4>2 DEF TypeFlags
    <3>5. TypePort'
        BY <3>1 DEF WritePcsr0, port, TypeOK, TypePort
    <3> QED BY <3>3, <3>4, <3>5
  <2>4. CASE HostPcsr23
      BY <2>4 DEF HostPcsr23, WritePcsr23, csrs, port, TypeCsrs, TypeFlags, TypePort,
         TypeOK, Bits, StatBits, Cmds
  <2>5. CASE HostInterrupt
    <3>1. TypeCsrs'
        BY <2>5 DEF HostInterrupt, TakeInterrupt, csrs, port, TypeOK, Bits, Cmds, TypeCsrs,
           TypeFlags, TypePort
    <3>2. TypeFlags'
        BY <2>5 DEF HostInterrupt, TakeInterrupt, csrs, port, TypeOK, Bits, Cmds, TypeCsrs,
           TypeFlags, TypePort
    <3>3. TypePort'
        BY <2>5 DEF HostInterrupt, TakeInterrupt, csrs, port, TypeOK, Bits, Cmds, TypeCsrs,
           TypeFlags, TypePort
    <3> QED BY <3>1, <3>2, <3>3
  <2>6. CASE UnaReset
      BY <2>6 DEF UnaReset, SetReset, Activate, csrs, port, TypeCsrs, TypeFlags, TypePort,
         TypeOK, Bits, StatBits, Cmds
  <2>7. CASE HostRebuild
      BY <2>7 DEF HostRebuild, csrs, port, TypeCsrs, TypeFlags, TypePort, TypeOK, Bits,
         StatBits, Cmds
  <2>8. CASE \E r \in TxRings, i \in TxIdx, f \in Frames \cup BadTx : HostTx(r, i, f)
      BY <2>8 DEF HostTx, csrs, port, TypeCsrs, TypeFlags, TypePort, TypeOK, Bits, StatBits,
         Cmds
  <2>9. CASE \E r \in RxRings, i \in RxIdx, d \in HostDma : HostRx(r, i, d)
      BY <2>9 DEF HostRx, csrs, port, TypeCsrs, TypeFlags, TypePort, TypeOK, Bits, StatBits,
         Cmds
  <2> QED BY <1>2, <2>1, <2>2, <2>3, <2>4, <2>5, <2>6, <2>7, <2>8, <2>9 DEF HostStep
<1>3. CASE \E f \in Frames : FrameArrives(f)
      BY <1>3 DEF FrameArrives, csrs, port, TypeCsrs, TypeFlags, TypePort, TypeOK, Bits,
         StatBits, Cmds
<1>4. CASE UNCHANGED vars
      BY <1>4 DEF vars, csrs, port, TypeCsrs, TypeFlags, TypePort, TypeOK, Bits, StatBits,
         Cmds
<1> QED BY <1>1, <1>2, <1>3, <1>4 DEF Next

DataTypes == TypeTx /\ TypeRx /\ TypeMem /\ TypeEth

LEMMA DataTypesStep == TypeOK /\ [Next]_vars => DataTypes'
<1> SUFFICES ASSUME TypeOK, [Next]_vars
             PROVE  TypeTx' /\ TypeRx' /\ TypeMem' /\ TypeEth'
    BY DEF DataTypes
<1>1. CASE DeviceStep
  <2> PICK c \in AuxCmd : Svc(c)
      BY <1>1 DEF DeviceStep
  <2>1. CASE SvcReset
      BY <2>1 DEF SvcReset, Serving, txside, rxside, mem, eth, TypeTx, TypeRx, TypeMem,
         TypeEth, TypeOK
  <2>2. CASE SvcGetPcb
      BY <2>2 DEF SvcGetPcb, Command, txside, rxside, mem, eth, TypeTx, TypeRx, TypeMem,
         TypeEth, TypeOK
  <2>3. CASE SvcAux(c)
      BY <2>3 DEF SvcAux, txside, rxside, mem, eth, TypeTx, TypeRx, TypeMem, TypeEth, TypeOK
  <2>4. CASE SvcSelfTest
      BY <2>4 DEF SvcSelfTest, SetReset, txside, rxside, mem, eth, TypeTx, TypeRx, TypeMem,
         TypeEth, TypeOK
  <2>5. CASE SvcStart
    <3>1. 0 \in TxIdx /\ 0 \in RxIdx
        BY DEF TxIdx, RxIdx
    <3>2. TypeTx'
        BY <2>5, <3>1 DEF SvcStart, TypeOK, TypeTx
    <3>3. TypeRx'
        BY <2>5, <3>1 DEF SvcStart, TypeOK, TypeRx
    <3>4. TypeMem'
        BY <2>5 DEF SvcStart, mem, TypeOK, TypeMem
    <3>5. TypeEth'
        BY <2>5, EthFilterType DEF SvcStart, eth, TypeOK, TypeEth
    <3> QED BY <3>1, <3>2, <3>3, <3>4, <3>5
  <2>6. CASE SvcStop
    <3>1. TypeTx' /\ TypeRx' /\ TypeMem'
        BY <2>6 DEF SvcStop, txside, rxside, mem, eth, TypeOK, TypeTx, TypeRx, TypeMem
    <3>2. TypeEth'
        BY <2>6, EthFilterType DEF SvcStop, eth, TypeOK, TypeEth
    <3> QED BY <3>1, <3>2
  <2>7. CASE SvcNoop
      BY <2>7 DEF SvcNoop, txside, rxside, mem, eth, TypeTx, TypeRx, TypeMem, TypeEth,
         TypeOK
  <2>8. CASE SvcPollError
    <3>1. TypeTx'
        BY <2>8, TxAtNext DEF SvcPollError, TypeOK, TypeTx
    <3>2. TypeRx' /\ TypeMem' /\ TypeEth'
        BY <2>8 DEF SvcPollError, TypeEth, txside, rxside, mem, eth, TypeOK, TypeTx, TypeRx,
           TypeMem
    <3> QED BY <3>1, <3>2
  <2>9. CASE SvcPollRunt
    <3>1. TypeTx'
        BY <2>9, TxAtNext, NextTxType DEF SvcPollRunt, TypeOK, TypeTx
    <3>2. TypeMem'
        BY <2>9, GiveBackType DEF SvcPollRunt, TypeOK, TypeMem
    <3>3. TypeRx' /\ TypeEth'
        BY <2>9 DEF SvcPollRunt, rxside, eth, TypeOK, TypeRx, TypeEth
    <3> QED BY <3>1, <3>2, <3>3
  <2>10. CASE SvcPollSend
    <3>1. TypeTx'
        BY <2>10, TxAtNext DEF SvcPollSend, TypeOK, TypeTx
    <3>2. TypeRx'
        BY <2>10, FetchRxType DEF SvcPollSend, TypeOK
    <3>3. TypeMem'
        BY <2>10 DEF SvcPollSend, mem, TypeOK, TypeMem
    <3>4. TypeEth'
        BY <2>10, SentIsFrame DEF SvcPollSend, TypeOK, TypeEth
    <3> QED BY <3>1, <3>2, <3>3, <3>4
  <2>11. CASE SvcPollIdle
    <3>1. TypeTx'
        BY <2>11, TxAtNext DEF SvcPollIdle, TypeOK, TypeTx
    <3>2. TypeRx'
        BY <2>11, FetchRxType DEF SvcPollIdle, TypeOK
    <3>3. TypeMem' /\ TypeEth'
        BY <2>11 DEF SvcPollIdle, mem, eth, TypeOK, TypeMem, TypeEth
    <3> QED BY <3>1, <3>2, <3>3
  <2>12. CASE SvcTxDone
    <3>1. TypeTx'
        BY <2>12, NextTxType DEF SvcTxDone, TypeOK, TypeTx
    <3>2. TypeMem'
        BY <2>12, GiveBackType DEF SvcTxDone, TypeOK, TypeMem
    <3>3. TypeRx' /\ TypeEth'
        BY <2>12 DEF SvcTxDone, rxside, eth, TypeOK, TypeRx, TypeEth
    <3> QED BY <3>1, <3>2, <3>3
  <2>13. CASE SvcReceiveNone
      BY <2>13 DEF SvcReceiveNone, Receiving, txside, rxside, mem, eth, TypeTx, TypeRx,
         TypeMem, TypeEth, TypeOK
  <2>14. CASE SvcReceiveDrop
      BY <2>14 DEF SvcReceiveDrop, Receiving, txside, rxside, mem, eth, TypeTx, TypeRx,
         TypeMem, TypeEth, TypeOK
  <2>15. CASE SvcReceiveRcbi
    <3>1. TypeTx' /\ TypeRx' /\ TypeMem'
        BY <2>15 DEF SvcReceiveRcbi, Receiving, txside, rxside, mem, eth, TypeOK, TypeTx,
           TypeRx, TypeMem
    <3>2. TypeEth'
        BY <2>15, HeadTailProperties DEF SvcReceiveRcbi, TypeOK, TypeEth
    <3> QED BY <3>1, <3>2
  <2>16. CASE \E k \in 1 .. MaxWire : SvcReceiveStore(k)
    <3> PICK k \in 1 .. MaxWire : SvcReceiveStore(k)
        BY <2>16
    <3>1. TypeTx'
        BY DEF SvcReceiveStore, Receiving, txside, TypeOK, TypeTx
    <3>2. TypeRx'
        BY StoredRxType
    <3>3. TypeMem'
        BY StoredMemType
    <3>4. TypeEth'
        BY WireRest DEF SvcReceiveStore, TypeOK, TypeEth
    <3> QED BY <3>1, <3>2, <3>3, <3>4
  <2> QED BY <2>1, <2>2, <2>3, <2>4, <2>5, <2>6, <2>7, <2>8, <2>9, <2>10, <2>11, <2>12, <2>13,
     <2>14, <2>15, <2>16 DEF Svc, SvcReceive
<1>2. CASE HostStep
  <2>1. CASE HostPcsr0High
      BY <2>1 DEF HostPcsr0High, WritePcsr0High, txside, rxside, mem, eth, TypeTx, TypeRx,
         TypeMem, TypeEth, TypeOK
  <2>2. CASE HostPcsr0Rset
      BY <2>2 DEF HostPcsr0Rset, WritePcsr0Rset, SetReset, txside, rxside, mem, eth, TypeTx,
         TypeRx, TypeMem, TypeEth, TypeOK
  <2>3. CASE HostPcsr0
      BY <2>3 DEF HostPcsr0, WritePcsr0, txside, rxside, mem, eth, TypeTx, TypeRx, TypeMem,
         TypeEth, TypeOK
  <2>4. CASE HostPcsr23
      BY <2>4 DEF HostPcsr23, WritePcsr23, txside, rxside, mem, eth, TypeTx, TypeRx,
         TypeMem, TypeEth, TypeOK
  <2>5. CASE HostInterrupt
      BY <2>5 DEF HostInterrupt, TakeInterrupt, txside, rxside, mem, eth, TypeTx, TypeRx,
         TypeMem, TypeEth, TypeOK
  <2>6. CASE UnaReset
    <3>1. TypeTx' /\ TypeRx' /\ TypeMem'
        BY <2>6 DEF UnaReset, SetReset, txside, rxside, mem, eth, TypeOK, TypeTx, TypeRx,
           TypeMem
    <3>2. TypeEth'
        BY <2>6, EthFilterType DEF UnaReset, TypeOK
    <3> QED BY <3>1, <3>2
  <2>7. CASE HostRebuild
      BY <2>7 DEF HostRebuild, EmptyTx, EmptyRx, TxEntry, RxEntry, txside, rxside, mem, eth,
         TypeTx, TypeRx, TypeMem, TypeEth, TypeOK
  <2>8. CASE \E r \in TxRings, i \in TxIdx, f \in Frames \cup BadTx : HostTx(r, i, f)
      BY <2>8 DEF HostTx, TxEntry, TxIdx, txside, rxside, mem, eth, TypeTx, TypeRx, TypeMem,
         TypeEth, TypeOK
  <2>9. CASE \E r \in RxRings, i \in RxIdx, d \in HostDma : HostRx(r, i, d)
      BY <2>9 DEF HostRx, RxEntry, RxIdx, txside, rxside, mem, eth, TypeTx, TypeRx, TypeMem,
         TypeEth, TypeOK
  <2> QED BY <1>2, <2>1, <2>2, <2>3, <2>4, <2>5, <2>6, <2>7, <2>8, <2>9 DEF HostStep
<1>3. CASE \E f \in Frames : FrameArrives(f)
  <2> PICK f \in Frames : FrameArrives(f)
      BY <1>3
  <2>1. TypeTx' /\ TypeRx' /\ TypeMem'
      BY DEF FrameArrives, txside, rxside, mem, TypeOK, TypeTx, TypeRx, TypeMem
  <2>2. TypeEth'
      BY AppendProperties DEF FrameArrives, TypeOK, TypeEth
  <2> QED BY <2>1, <2>2
<1>4. CASE UNCHANGED vars
      BY <1>4 DEF vars, txside, rxside, mem, eth, TypeTx, TypeRx, TypeMem, TypeEth, TypeOK
<1> QED BY <1>1, <1>2, <1>3, <1>4 DEF Next

LEMMA InitType == Init => TypeOK
<1> SUFFICES ASSUME Init PROVE TypeOK
    OBVIOUS
<1>1. RegTypes
    BY DEF Init, RegTypes, TypeCsrs, TypeFlags, TypePort, Cmds
<1>2. TypeTx /\ TypeRx
  <2>1. 0 \in TxIdx /\ 0 \in RxIdx
      BY DEF TxIdx, RxIdx
  <2>2. <<Hole, 0>> \in TxAddr /\ <<Hole, 0>> \in RxAddr
      BY <2>1 DEF TxAddr, RxAddr
  <2> QED BY <2>1, <2>2 DEF Init, TypeTx, TypeRx
<1>3. EmptyTx \in [TxIdx -> TxEntry] /\ EmptyRx \in [RxIdx -> RxEntry]
    BY DEF EmptyTx, EmptyRx, TxEntry, RxEntry
<1>4. TypeMem
    BY <1>3 DEF Init, TypeMem
<1>5. TypeEth
    BY EmptySeq DEF Init, TypeEth
<1> QED BY <1>1, <1>2, <1>4, <1>5 DEF TypeOK, RegTypes

LEMMA TypeStep == TypeOK /\ [Next]_vars => TypeOK'
  BY RegTypesStep, DataTypesStep DEF RegTypes, DataTypes, TypeOK

\* Every variable keeps its type; in particular both ring pointers stay inside
\* their rings whatever mix of polls, resets and starts moves them.
THEOREM TypeCorrect == Spec => []TypeOK
  BY InitType, TypeStep, PTL DEF Spec

-----------------------------------------------------------------------------
(* Who owns the buffers: for every ring length, every number of ring areas  *)
(* and every ring format, the DEUNA never stores into a buffer that is the  *)
(* host's, provided the host keeps its side (it takes no descriptor back on *)
(* its own: Impatient is FALSE).                                            *)

\* What RxHeld needs to be inductive: a fetch can fail and leave the words of
\* the previous descriptor, but it is tried only when none is held, and the
\* last one was then the host's.
IdleHeader == ~rxactive => ~rxhdr.own

RingInv == TypeOK /\ TxHeld /\ RxHeld /\ IdleHeader

-----------------------------------------------------------------------------
\* Steps that leave the descriptor held, and the rings, alone.
LEMMA TxUntouched ==
  ASSUME TxHeld, UNCHANGED <<txflag, txdone, txea, txring, out>>
  PROVE  TxHeld'
  BY DEF TxHeld

LEMMA RxUntouched ==
  ASSUME RxHeld, IdleHeader, UNCHANGED <<rxactive, rxea, rxhdr, rxring>>
  PROVE  RxHeld' /\ IdleHeader'
  BY DEF RxHeld, IdleHeader

\* What deuna_poll fetches is what memory holds.
LEMMA FetchHeld ==
  ASSUME TypeOK, RxHeld, IdleHeader, FetchRx, UNCHANGED rxring
  PROVE  RxHeld' /\ IdleHeader'
<1>1. CASE rxactive
  BY <1>1, RxUntouched DEF FetchRx, rxside
<1>2. CASE ~rxactive
  <2>1. rxactive' /\ rxea' = <<ring.rdrb, rxnext>>
      BY <1>2 DEF FetchRx
  <2>2. CASE ring.rdrb = Hole
      BY <1>2, <2>1, <2>2 DEF FetchRx, RxHeld, IdleHeader
  <2>3. CASE ring.rdrb # Hole
    <3>1. ring.rdrb \in RxRings
        BY <2>3 DEF TypeOK, TypePort
    <3>2. rxhdr' = [own |-> rxring[ring.rdrb][rxnext].own, dma |-> rxring[ring.rdrb][rxnext].dma]
        BY <1>2, <2>3 DEF FetchRx
    <3> QED BY <2>1, <3>1, <3>2 DEF RxHeld, IdleHeader
  <2> QED BY <2>2, <2>3
<1> QED BY <1>1, <1>2 DEF TypeOK, TypeRx

\* rxstore fills owned descriptors only, one frame each, and the descriptor it
\* goes on to hold is not one of them.
LEMMA StoreFills ==
  ASSUME TypeOK, RxHeld, NEW k \in 1 .. MaxWire, SvcReceiveStore(k),
         NEW r \in RxRings, NEW i \in RxIdx
  PROVE  \/ rxring'[r][i] = rxring[r][i] /\ \A j \in 0 .. k - 1 : StoreAt(j) # <<r, i>>
         \/ rxring[r][i].own /\ ~rxring'[r][i].own
<1> DEFINE Js == {j \in 0 .. k - 1 : StoreAt(j) = <<r, i>>}
           At == CHOOSE j \in Js : TRUE
           e  == rxring[r][i]
<1>1. rxring'[r][i] = IF Js = {} THEN e
                      ELSE Filled(e, IF At = 0 THEN rxhdr.dma ELSE e.dma, wire[At + 1])
    BY DEF SvcReceiveStore
<1>2. CASE Js = {}
    BY <1>1, <1>2
<1>3. CASE Js # {}
  <2>1. At \in 0 .. k - 1 /\ StoreAt(At) = <<r, i>>
      BY <1>3
  <2>2. OwnedAt(At)
      BY <2>1 DEF SvcReceiveStore
  <2> HIDE DEF At
  <2>3. e.own
    <3>1. CASE At = 0
        BY <2>1, <2>2, <3>1 DEF OwnedAt, StoreAt, RxHeld
    <3>2. CASE At # 0
        BY <2>1, <2>2, <3>2 DEF OwnedAt, StoreAt
    <3> QED BY <3>1, <3>2
  <2>4. e \in RxEntry
      BY DEF TypeOK, TypeMem
  <2>5. ~rxring'[r][i].own
      BY <1>1, <1>3, <2>4 DEF Filled, RxEntry
  <2> QED BY <2>3, <2>5
<1> QED BY <1>2, <1>3

LEMMA StoreHeld ==
  ASSUME TypeOK, RxHeld, NEW k \in 1 .. MaxWire, SvcReceiveStore(k)
  PROVE  RxHeld' /\ IdleHeader'
<1> DEFINE n == (rxnext + k) % RxLen
<1>1. /\ rxea' = <<ring.rdrb, n>> /\ rxactive'
      /\ rxhdr' = [own |-> OwnedAt(k),
                   dma |-> IF ring.rdrb = Hole THEN rxhdr.dma ELSE rxring[ring.rdrb][n].dma]
    BY DEF SvcReceiveStore, Receiving
<1>2. IdleHeader'
    BY <1>1 DEF IdleHeader
<1>3. ASSUME rxhdr'.own
      PROVE  /\ rxea'[1] \in RxRings
             /\ rxring'[rxea'[1]][rxea'[2]].own
             /\ rxring'[rxea'[1]][rxea'[2]].dma = rxhdr'.dma
  <2>1. OwnedAt(k) /\ k # 0
    <3>1. rxhdr'.own = OwnedAt(k)
        BY <1>1, Zenon
    <3> QED BY <1>3, <3>1
  <2>2. /\ ring.rdrb \in RxRings /\ rxring[ring.rdrb][n].own
        /\ \A j \in 0 .. k - 1 : StoreAt(j) # StoreAt(k)
    <3>1. ring.rdrb # Hole /\ rxring[ring.rdrb][n].own
        BY <2>1, Zenon DEF OwnedAt
    <3>2. \A j \in 0 .. k - 1 : StoreAt(j) # StoreAt(k)
        BY <2>1, Zenon DEF OwnedAt
    <3> QED BY <3>1, <3>2 DEF TypeOK, TypePort
  <2>3. n \in RxIdx /\ StoreAt(k) = <<ring.rdrb, n>>
    <3>1. n \in RxIdx
        BY DEF RxIdx, TypeOK, TypeRx
    <3>2. StoreAt(k) = <<ring.rdrb, n>>
        BY <2>1, Zenon DEF StoreAt
    <3> QED BY <3>1, <3>2
  <2>4. rxring'[ring.rdrb][n] = rxring[ring.rdrb][n]
    <3>1. \A j \in 0 .. k - 1 : StoreAt(j) # <<ring.rdrb, n>>
        BY <2>2, <2>3
    <3> DEFINE Js == {j \in 0 .. k - 1 : StoreAt(j) = <<ring.rdrb, n>>}
    <3>2. Js = {}
        BY <3>1
    <3> QED BY <2>2, <2>3, <3>2 DEF SvcReceiveStore
  <2> HIDE DEF n
  <2>5. rxhdr'.dma = rxring[ring.rdrb][n].dma
      BY <1>1, <2>2
  <2>6. rxea'[1] = ring.rdrb /\ rxea'[2] = n
      BY <1>1
  <2> QED BY <2>2, <2>4, <2>5, <2>6
<1> QED BY <1>2, <1>3 DEF RxHeld

-----------------------------------------------------------------------------
LEMMA TxHeldStep == Impatient = FALSE /\ RingInv /\ [Next]_vars => TxHeld'
<1> SUFFICES ASSUME Impatient = FALSE, RingInv, [Next]_vars
             PROVE  TxHeld'
    OBVIOUS
<1> USE DEF RingInv
<1>1. CASE DeviceStep
  <2> PICK c \in AuxCmd : Svc(c)
      BY <1>1 DEF DeviceStep
  <2>1. CASE SvcSelfTest
      BY <2>1 DEF SvcSelfTest, SetReset, TxHeld
  <2>2. CASE SvcPollRunt
      BY <2>2 DEF SvcPollRunt, TxHeld
  <2>3. CASE SvcPollError
      BY <2>3 DEF SvcPollError, TxHeld
  <2>4. CASE SvcPollSend
    <3>1. ring.tdrb \in TxRings /\ txring[ring.tdrb][txnext].own
        BY <2>4 DEF SvcPollSend, TxFound, TypeOK, TypePort, TypeTx, TypeMem, TxEntry
    <3>2. /\ txea' = <<ring.tdrb, txnext>> /\ txdone' /\ txring' = txring
          /\ out' = txring[ring.tdrb][txnext].frame
        BY <2>4 DEF SvcPollSend, mem
    <3> QED BY <3>1, <3>2 DEF TxHeld
  <2>5. CASE SvcPollIdle
    <3>1. txflag' = txflag /\ txdone' = txdone /\ txring' = txring /\ out' = out
        BY <2>5 DEF SvcPollIdle, mem, eth
    <3>2. txflag => txea' = txea
        BY <2>5 DEF SvcPollIdle
    <3> QED BY <3>1, <3>2 DEF TxHeld
  <2>6. CASE SvcTxDone
      BY <2>6 DEF SvcTxDone, TxHeld
  <2>7. CASE SvcStart \/ SvcStop
      BY <2>7, TxUntouched DEF SvcStart, SvcStop, EthFilter, mem, eth, txside
  <2>8. CASE SvcReset \/ SvcGetPcb \/ SvcAux(c) \/ SvcNoop
      BY <2>8, TxUntouched DEF SvcReset, SvcGetPcb, SvcAux, SvcNoop, mem, eth, txside
  <2>9. CASE SvcReceive
      BY <2>9, TxUntouched DEF SvcReceive, SvcReceiveNone, SvcReceiveDrop, SvcReceiveRcbi,
         SvcReceiveStore, Receiving, eth, txside
  <2> QED BY <2>1, <2>2, <2>3, <2>4, <2>5, <2>6, <2>7, <2>8, <2>9 DEF Svc
<1>2. CASE HostStep
  <2>1. CASE HostPcsr0High \/ HostPcsr0 \/ HostPcsr23 \/ HostInterrupt
      BY <2>1, TxUntouched DEF HostPcsr0High, HostPcsr0, HostPcsr23, HostInterrupt,
         WritePcsr0High, WritePcsr0, WritePcsr23, TakeInterrupt, mem, eth, txside
  <2>2. CASE HostPcsr0Rset \/ UnaReset
      BY <2>2 DEF HostPcsr0Rset, WritePcsr0Rset, UnaReset, SetReset, TxHeld
  <2>3. CASE \E r \in TxRings, i \in TxIdx, f \in Frames \cup BadTx : HostTx(r, i, f)
    <3> PICK r \in TxRings, i \in TxIdx, f \in Frames \cup BadTx : HostTx(r, i, f)
        BY <2>3
    <3>1. \A q \in TxRings, j \in TxIdx : txring[q][j].own => txring'[q][j] = txring[q][j]
        BY DEF HostTx, TypeOK, TypeMem
    <3>2. UNCHANGED <<txflag, txdone, txea, out>>
        BY DEF HostTx, txside, eth
    <3>3. txea[2] \in TxIdx
        BY DEF TypeOK, TypeTx, TxAddr
    <3> QED BY <3>1, <3>2, <3>3 DEF TxHeld
  <2>4. CASE \E r \in RxRings, i \in RxIdx, d \in HostDma : HostRx(r, i, d)
      BY <2>4, TxUntouched DEF HostRx, eth, txside
  <2> QED BY <1>2, <2>1, <2>2, <2>3, <2>4 DEF HostStep, HostRebuild
<1>3. CASE \E f \in Frames : FrameArrives(f)
  BY <1>3, TxUntouched DEF FrameArrives, mem, txside
<1>4. CASE UNCHANGED vars
  BY <1>4, TxUntouched DEF vars, mem, eth, txside
<1> QED BY <1>1, <1>2, <1>3, <1>4 DEF Next

LEMMA RxHeldStep == Impatient = FALSE /\ RingInv /\ [Next]_vars => RxHeld' /\ IdleHeader'
<1> SUFFICES ASSUME Impatient = FALSE, RingInv, [Next]_vars
             PROVE  RxHeld' /\ IdleHeader'
    OBVIOUS
<1> USE DEF RingInv
<1>1. CASE DeviceStep
  <2> PICK c \in AuxCmd : Svc(c)
      BY <1>1 DEF DeviceStep
  <2>1. CASE SvcReset \/ SvcGetPcb \/ SvcAux(c) \/ SvcSelfTest \/ SvcNoop \/ SvcStop
      BY <2>1, RxUntouched DEF SvcReset, SvcGetPcb, SvcAux, SvcSelfTest, SetReset, SvcNoop,
         SvcStop, mem, rxside
  <2>2. CASE SvcStart
      BY <2>2, RxUntouched DEF SvcStart, mem
  <2>3. CASE SvcPollError \/ SvcPollRunt \/ SvcTxDone
      BY <2>3, RxUntouched DEF SvcPollError, SvcPollRunt, SvcTxDone, mem, rxside
  <2>4. CASE SvcPollSend \/ SvcPollIdle
      BY <2>4, FetchHeld DEF SvcPollSend, SvcPollIdle, mem
  <2>5. CASE SvcReceiveNone \/ SvcReceiveDrop
      BY <2>5, RxUntouched DEF SvcReceiveNone, SvcReceiveDrop, rxside
  <2>6. CASE SvcReceiveRcbi
      BY <2>6 DEF SvcReceiveRcbi, Receiving, RxHeld, IdleHeader
  <2>7. CASE \E k \in 1 .. MaxWire : SvcReceiveStore(k)
      BY <2>7, StoreHeld
  <2> QED BY <2>1, <2>2, <2>3, <2>4, <2>5, <2>6, <2>7 DEF Svc, SvcReceive
<1>2. CASE HostStep
  <2>1. CASE HostPcsr0High \/ HostPcsr0 \/ HostPcsr23 \/ HostInterrupt
      BY <2>1, RxUntouched DEF HostPcsr0High, HostPcsr0, HostPcsr23, HostInterrupt,
         WritePcsr0High, WritePcsr0, WritePcsr23, TakeInterrupt, mem, rxside
  <2>2. CASE HostPcsr0Rset \/ UnaReset
      BY <2>2, RxUntouched DEF HostPcsr0Rset, WritePcsr0Rset, UnaReset, SetReset, mem, rxside
  <2>3. CASE \E r \in TxRings, i \in TxIdx, f \in Frames \cup BadTx : HostTx(r, i, f)
      BY <2>3, RxUntouched DEF HostTx, rxside
  <2>4. CASE \E r \in RxRings, i \in RxIdx, d \in HostDma : HostRx(r, i, d)
    <3> PICK r \in RxRings, i \in RxIdx, d \in HostDma : HostRx(r, i, d)
        BY <2>4
    <3>1. \A q \in RxRings, j \in RxIdx : rxring[q][j].own => rxring'[q][j] = rxring[q][j]
        BY DEF HostRx, TypeOK, TypeMem
    <3>2. UNCHANGED <<rxactive, rxea, rxhdr>>
        BY DEF HostRx, rxside
    <3>3. rxea[2] \in RxIdx
        BY DEF TypeOK, TypeRx, RxAddr
    <3> QED BY <3>1, <3>2, <3>3 DEF RxHeld, IdleHeader
  <2> QED BY <1>2, <2>1, <2>2, <2>3, <2>4 DEF HostStep, HostRebuild
<1>3. CASE \E f \in Frames : FrameArrives(f)
  BY <1>3, RxUntouched DEF FrameArrives, mem, rxside
<1>4. CASE UNCHANGED vars
  BY <1>4, RxUntouched DEF vars, mem, rxside
<1> QED BY <1>1, <1>2, <1>3, <1>4 DEF Next

-----------------------------------------------------------------------------
(* Turn-taking, as an action property. *)

TxAlternates ==
  \A r \in TxRings, i \in TxIdx :
     txring'[r][i] # txring[r][i] => txring'[r][i].own # txring[r][i].own
RxAlternates ==
  \A r \in RxRings, i \in RxIdx :
     rxring'[r][i] # rxring[r][i] => rxring'[r][i].own # rxring[r][i].own

\* Handing one owned descriptor back is a turn.
LEMMA GiveBackAlternates ==
  ASSUME TypeOK, NEW a, NEW e, GiveBackTx(a, e),
         a[1] \in TxRings => txring[a[1]][a[2]].own
  PROVE  TxAlternates
<1> SUFFICES ASSUME NEW r \in TxRings, NEW i \in TxIdx, txring'[r][i] # txring[r][i]
             PROVE  txring'[r][i].own # txring[r][i].own
    BY DEF TxAlternates
<1> DEFINE New(x) == [x EXCEPT !.own = FALSE, !.err = e]
<1>1. txring' = [txring EXCEPT ![a[1]][a[2]] = New(@)]
    BY DEF GiveBackTx
<1>2. txring[r][i] \in TxEntry
    BY DEF TypeOK, TypeMem
<1>3. New(txring[r][i]).own = FALSE
    BY <1>2 DEF TxEntry
<1> HIDE DEF New
<1>4. a[1] = r /\ a[2] = i /\ txring'[r][i] = New(txring[r][i])
    BY <1>1 DEF TypeOK, TypeMem
<1> QED BY <1>3, <1>4

LEMMA AlternatesStep ==
  Impatient = FALSE /\ RingInv /\ [Next]_vars => TxAlternates /\ RxAlternates
<1> SUFFICES ASSUME Impatient = FALSE, RingInv, [Next]_vars
             PROVE  TxAlternates /\ RxAlternates
    OBVIOUS
<1> USE DEF RingInv
<1>0. (txring' = txring => TxAlternates) /\ (rxring' = rxring => RxAlternates)
  BY DEF TxAlternates, RxAlternates
<1>1. CASE DeviceStep
  <2> PICK c \in AuxCmd : Svc(c)
      BY <1>1 DEF DeviceStep
  <2>1. CASE SvcReset \/ SvcGetPcb \/ SvcAux(c) \/ SvcSelfTest \/ SvcNoop \/ SvcStop \/ SvcStart
      BY <2>1, <1>0 DEF SvcReset, SvcGetPcb, SvcAux, SvcSelfTest, SvcNoop, SvcStop, SvcStart, mem
  <2>2. CASE SvcPollError \/ SvcPollSend \/ SvcPollIdle
      BY <2>2, <1>0 DEF SvcPollError, SvcPollSend, SvcPollIdle, mem
  <2>3. CASE SvcPollRunt
    <3>1. ring.tdrb \in TxRings /\ txring[ring.tdrb][txnext].own
        BY <2>3 DEF SvcPollRunt, TxFound, TypeOK, TypePort, TypeTx, TypeMem, TxEntry
    <3>2. GiveBackTx(<<ring.tdrb, txnext>>, TRUE) /\ rxring' = rxring
        BY <2>3 DEF SvcPollRunt, GiveBackTx
    <3> QED BY <1>0, <3>1, <3>2, GiveBackAlternates
  <2>4. CASE SvcTxDone
    <3>1. GiveBackTx(txea, FALSE) /\ rxring' = rxring /\ txring[txea[1]][txea[2]].own
        BY <2>4 DEF SvcTxDone, TxHeld
    <3> QED BY <1>0, <3>1, GiveBackAlternates
  <2>5. CASE SvcReceiveNone \/ SvcReceiveDrop \/ SvcReceiveRcbi
      BY <2>5, <1>0 DEF SvcReceiveNone, SvcReceiveDrop, SvcReceiveRcbi, Receiving
  <2>6. CASE \E k \in 1 .. MaxWire : SvcReceiveStore(k)
    <3> PICK k \in 1 .. MaxWire : SvcReceiveStore(k)
        BY <2>6
    <3>1. txring' = txring
        BY DEF SvcReceiveStore, Receiving
    <3>2. RxAlternates
        BY StoreFills DEF RxAlternates
    <3> QED BY <1>0, <3>1, <3>2
  <2> QED BY <2>1, <2>2, <2>3, <2>4, <2>5, <2>6 DEF Svc, SvcReceive
<1>2. CASE HostStep
  <2>1. CASE HostPcsr0High \/ HostPcsr0Rset \/ HostPcsr0 \/ HostPcsr23 \/ HostInterrupt \/ UnaReset
      BY <2>1, <1>0 DEF HostPcsr0High, HostPcsr0Rset, HostPcsr0, HostPcsr23, HostInterrupt,
         UnaReset, mem
  <2>2. CASE \E r \in TxRings, i \in TxIdx, f \in Frames \cup BadTx : HostTx(r, i, f)
    <3>1. rxring' = rxring
        BY <2>2 DEF HostTx
    <3>2. TxAlternates
      <4> PICK r \in TxRings, i \in TxIdx, f \in Frames \cup BadTx : HostTx(r, i, f)
          BY <2>2
      <4> SUFFICES ASSUME NEW q \in TxRings, NEW j \in TxIdx, txring'[q][j] # txring[q][j]
                   PROVE  txring'[q][j].own # txring[q][j].own
          BY DEF TxAlternates
      <4>1. q = r /\ j = i /\ txring'[q][j].own = TRUE
          BY DEF HostTx, TypeOK, TypeMem
      <4>2. ~txring[r][i].own
          BY DEF HostTx
      <4> QED BY <4>1, <4>2
    <3> QED BY <1>0, <3>1, <3>2
  <2>3. CASE \E r \in RxRings, i \in RxIdx, d \in HostDma : HostRx(r, i, d)
    <3>1. txring' = txring
        BY <2>3 DEF HostRx
    <3>2. RxAlternates
      <4> PICK r \in RxRings, i \in RxIdx, d \in HostDma : HostRx(r, i, d)
          BY <2>3
      <4> SUFFICES ASSUME NEW q \in RxRings, NEW j \in RxIdx, rxring'[q][j] # rxring[q][j]
                   PROVE  rxring'[q][j].own # rxring[q][j].own
          BY DEF RxAlternates
      <4>1. q = r /\ j = i /\ rxring'[q][j].own = TRUE
          BY DEF HostRx, TypeOK, TypeMem
      <4>2. ~rxring[r][i].own
          BY DEF HostRx
      <4> QED BY <4>1, <4>2
    <3> QED BY <1>0, <3>1, <3>2
  <2> QED BY <1>2, <2>1, <2>2, <2>3 DEF HostStep, HostRebuild
<1>3. CASE \E f \in Frames : FrameArrives(f)
  BY <1>3, <1>0 DEF FrameArrives, mem
<1>4. CASE UNCHANGED vars
  BY <1>4, <1>0 DEF vars, mem
<1> QED BY <1>1, <1>2, <1>3, <1>4 DEF Next

-----------------------------------------------------------------------------
LEMMA RingInvInit == Init => TypeOK /\ RingInv
<1> SUFFICES ASSUME Init PROVE TypeOK /\ RingInv
    OBVIOUS
<1>1. TypeOK
    BY InitType
<1> QED BY <1>1 DEF Init, RingInv, TxHeld, RxHeld, IdleHeader

LEMMA RingInvStep == Impatient = FALSE /\ RingInv /\ [Next]_vars => RingInv'
  BY TypeStep, TxHeldStep, RxHeldStep DEF RingInv

\* While a transmission is in progress its descriptor is the port's and holds
\* the frame that went out: resets, starts and polls in between cannot make the
\* completion hand back somebody else's descriptor.
THEOREM TransmitHeld == ASSUME Impatient = FALSE PROVE Spec => []TxHeld
<1>1. RingInv /\ [Next]_vars => RingInv'
    BY RingInvStep
<1>2. RingInv => TxHeld
    BY DEF RingInv
<1> QED BY <1>1, <1>2, RingInvInit, PTL DEF Spec

\* A frame is never stored in a buffer the host has, for every ring length and
\* every batch of frames, although rxstore looks at a copy of the descriptor
\* that deuna_poll may have taken long before.
THEOREM ReceiveHeld == ASSUME Impatient = FALSE PROVE Spec => []RxHeld
<1>1. RingInv /\ [Next]_vars => RingInv'
    BY RingInvStep
<1>2. RingInv => RxHeld
    BY DEF RingInv
<1> QED BY <1>1, <1>2, RingInvInit, PTL DEF Spec

\* Host and port take turns on every descriptor, and each change hands it over.
THEOREM TurnsAlternate == ASSUME Impatient = FALSE PROVE Spec => OwnershipAlternates
<1>1. RingInv /\ [Next]_vars => RingInv'
    BY RingInvStep
<1>2. RingInv /\ [Next]_vars => [TxAlternates /\ RxAlternates]_mem
    BY AlternatesStep
<1> QED BY <1>1, <1>2, RingInvInit, PTL DEF Spec, OwnershipAlternates, TxAlternates, RxAlternates
=============================================================================
