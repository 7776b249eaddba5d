------------------------------- MODULE Deuna -------------------------------
(***************************************************************************)
(* The DEUNA Ethernet controller of the KS10 simulator, dec_deuna.c.       *)
(*                                                                         *)
(* The simulator is one thread: a register access by the CPU (deuna_wr)    *)
(* and a run of the unit's service routine (deuna_svc) are atomic, and     *)
(* they interleave freely, because the routine is queued to run between    *)
(* any two instructions.  Every operation of the file is one action.       *)
(*                                                                         *)
(* Addresses are abstract: a descriptor is a pair <<ring, index>>, and     *)
(* Hole is the address 0 that no mapping register covers after a reset.    *)
(* A frame and the buffer it lies in are identified with the descriptor.   *)
(***************************************************************************)
EXTENDS Naturals, Sequences, FiniteSets

CONSTANTS
  Frames,     \* frames of legal length
  Runt, Mbz, Nxm,  \* what else a transmit descriptor can hold: a frame of
              \* illegal length, bits that must be zero, an unmapped address
  BadTx,      \* those of them that the host produces
  TxRings,    \* areas of host memory that can hold a transmit ring
  RxRings,    \* areas of host memory that can hold a receive ring
  Hole,       \* an unmapped address, where every access fails
  None,       \* no frame
  TxLen,      \* una_trlen
  RxLen,      \* una_rrlen
  Formats,    \* the ring formats the host may write: [tdrb, rdrb]
  HostCmds,   \* port commands the host issues
  HostAux,    \* auxiliary functions the host issues through the PCB
  HostInte,   \* values of the interrupt enable bit the host writes
  HostDma,    \* {TRUE} or BOOLEAN: whether receive buffers are all mapped
  Impatient,  \* the host rebuilds rings as soon as the port is not running
  MaxWire     \* bound on frames waiting in the packet filter's buffers

BadKinds == {Runt, Mbz, Nxm}
Cmds     == {"NOOP", "GETPCB", "GETCMD", "SELFTEST", "START", "PDMD", "STOP",
             "UNUSED"}
AuxFncs  == {"plain", "illegal", "wr_ring", "rd_stat", "rdclr_stat"}
Bits     == {"SERI", "PCEI", "RXI", "TXI", "DNI", "RCBI"}
StatBits == {"ERRS", "MERR", "TMOT", "TRNG"}

ASSUME DeunaAssumption ==
  /\ Runt # Mbz /\ Mbz # Nxm /\ Nxm # Runt
  /\ BadTx \subseteq BadKinds /\ BadKinds \cap Frames = {} /\ Frames # {}
  /\ Hole \notin TxRings \cup RxRings
  /\ None \notin Frames \cup BadKinds
  /\ TxLen \in Nat \ {0} /\ RxLen \in Nat \ {0, 1}
  /\ Formats \subseteq [tdrb : TxRings \cup {Hole}, rdrb : RxRings \cup {Hole}]
  /\ HostCmds \subseteq Cmds /\ HostAux \subseteq AuxFncs
  /\ HostInte \subseteq BOOLEAN /\ HostDma \subseteq BOOLEAN /\ Impatient \in BOOLEAN
  /\ MaxWire \in Nat

VARIABLES
  \* PCSR0: status bits, interrupt summary, interrupt enable, command field;
  \* PCSR1: port state, command timeout; PCSR3/PCSR2: the address register
  status, intr, inte, pcmd, state, pcto, pcsr23,
  \* una_pcbb, una_stat, the descriptor ring format
  pcbb, stat, ring,
  resetflag, cmdflag,
  txflag, txdone, txnext, txea,
  rxactive, rxnext, rxea, rxhdr,
  \* deuna_unit is on the simulator's event queue; its bit of int_req;
  \* the CPU has taken the interrupt and not written PCSR0 since
  active, intreq, vectored,
  \* the rings in host memory
  txring, rxring,
  \* the host's packet filter: passing frames, frames captured, last written
  ethon, wire, out

csrs   == <<status, intr, inte, pcmd, state, pcto, pcsr23>>
port   == <<pcbb, stat, ring>>
txside == <<txflag, txdone, txnext, txea>>
rxside == <<rxactive, rxnext, rxea, rxhdr>>
mem    == <<txring, rxring>>
eth    == <<ethon, wire, out>>
vars   == <<csrs, port, resetflag, cmdflag, txside, rxside, active, intreq,
            vectored, mem, eth>>

TxIdx   == 0 .. TxLen - 1
RxIdx   == 0 .. RxLen - 1
TxEntry == [own : BOOLEAN, err : BOOLEAN, frame : Frames \cup BadTx \cup {None}]
RxEntry == [own : BOOLEAN, err : BOOLEAN, dma : BOOLEAN, frame : Frames \cup {None}]
TxAddr  == (TxRings \cup {Hole}) \X TxIdx
RxAddr  == (RxRings \cup {Hole}) \X RxIdx
AuxCmd  == {c \in [fnc : HostAux, err : {"none", "mbz", "nxm", "udb"}, fmt : Formats] :
              /\ c.err = "nxm" => c.fnc \in {"plain", "wr_ring"}
              /\ c.err = "udb" => c.fnc = "wr_ring"}

TypeCsrs ==
  /\ status \subseteq Bits /\ intr \in BOOLEAN /\ inte \in BOOLEAN /\ pcmd \in Cmds
  /\ state \in {"RESET", "READY", "RUNNING"} /\ pcto \in BOOLEAN
  /\ pcsr23 \in {Hole, "pcb"}
TypeFlags ==
  /\ resetflag \in BOOLEAN /\ cmdflag \in BOOLEAN
  /\ active \in BOOLEAN /\ intreq \in BOOLEAN /\ vectored \in BOOLEAN
TypePort ==
  /\ pcbb \in {Hole, "pcb"} /\ stat \subseteq StatBits
  /\ ring \in [tdrb : TxRings \cup {Hole}, rdrb : RxRings \cup {Hole}]
TypeTx ==
  /\ txflag \in BOOLEAN /\ txdone \in BOOLEAN /\ txnext \in TxIdx /\ txea \in TxAddr
TypeRx ==
  /\ rxactive \in BOOLEAN /\ rxnext \in RxIdx /\ rxea \in RxAddr
  /\ rxhdr \in [own : BOOLEAN, dma : BOOLEAN]
TypeMem ==
  /\ txring \in [TxRings -> [TxIdx -> TxEntry]]
  /\ rxring \in [RxRings -> [RxIdx -> RxEntry]]
TypeEth ==
  /\ ethon \in BOOLEAN /\ wire \in Seq(Frames) /\ out \in Frames \cup {None}

TypeOK == TypeCsrs /\ TypeFlags /\ TypePort /\ TypeTx /\ TypeRx /\ TypeMem /\ TypeEth

-----------------------------------------------------------------------------
(* Helpers of the C file. *)

\* A slip a programmer could make in deuna_activate: the flag of a reset is
\* left out.
ActivateNoReset(was) == active' = (was \/ cmdflag' \/ txflag' \/ state' = "RUNNING")

\* deuna_activate, from a state where the unit is queued iff was: it queues
\* the unit whenever there is work, and sim_activate keeps a queued unit.
Activate(was) ==
  active' = (was \/ resetflag' \/ cmdflag' \/ txflag' \/ state' = "RUNNING")

\* A setint that asks for an interrupt only when it raises a bit itself.
SetIntOnRaise(base, bits, timeout) ==
  /\ status' = base \cup bits
  /\ intr' = (base \cup bits # {})
  /\ pcto' = timeout
  /\ intreq' = IF inte' /\ bits # {} THEN TRUE ELSE intreq

\* setint: bits are raised over the status base; timeout is the virtual bit 0.
\* The request reaches the interrupt system only while INTE is set.
SetInt(base, bits, timeout) ==
  /\ status' = base \cup bits
  /\ intr' = (base \cup bits # {})
  /\ pcto' = timeout
  /\ intreq' = IF inte' THEN base \cup bits # {} ELSE intreq

\* setstat
SetStat(bits) ==
  stat' = stat \cup bits \cup {"ERRS"} \cup (IF "ERRS" \in stat THEN {"MERR"} ELSE {})

\* deuna_setreset.  It forgets the transmission and the command, but neither
\* the ring format, nor the receive descriptor it holds, nor the request.
SetReset ==
  /\ resetflag' = TRUE /\ txflag' = FALSE /\ cmdflag' = FALSE
  /\ status' = {} /\ intr' = FALSE /\ inte' = FALSE /\ pcmd' = "NOOP"
  /\ state' = "RESET" /\ pcto' = FALSE /\ pcsr23' = Hole
  /\ pcbb' = Hole /\ stat' = {}
  /\ UNCHANGED <<txdone, txnext, txea, rxside, ring>>

\* eth_start and eth_stop install a filter, which empties the kernel's buffer;
\* frames already copied into the process stay, at the head of wire.
EthFilter(on) ==
  /\ ethon' = on
  /\ \E k \in 0 .. Len(wire) : wire' = SubSeq(wire, 1, k)
  /\ UNCHANGED out

\* steptx: the next descriptor of the ring, and a step without the wrap.
NextTxNoWrap(i) == i + 1
NextTx(i) == (i + 1) % TxLen

-----------------------------------------------------------------------------
(* Register writes by the host: deuna_wr. *)

\* A write of the high byte of PCSR0: write-one-to-clear only.
WritePcsr0High(w1c) ==
  /\ UNCHANGED inte
  /\ SetInt(status \ w1c, {}, FALSE)
  /\ vectored' = FALSE
  /\ UNCHANGED <<pcmd, state, pcsr23, port, resetflag, cmdflag, txside, rxside, active>>

\* A word write with RSET.
WritePcsr0Rset ==
  /\ SetReset
  /\ Activate(active)
  /\ vectored' = FALSE
  /\ UNCHANGED intreq

\* A word write without RSET.  A write that changes INTE ignores the command
\* field; one that does not replaces it, and a command other than 0 is
\* flagged for the service routine.
WritePcsr0(w1c, ie, cmd) ==
  /\ inte' = ie
  /\ IF ie # inte THEN UNCHANGED <<pcmd, cmdflag, active>>
     ELSE /\ pcmd' = cmd
          /\ cmdflag' = (cmdflag \/ cmd # "NOOP")
          /\ active' = (active \/ cmd # "NOOP")
  /\ SetInt(status \ w1c, {}, FALSE)
  /\ vectored' = FALSE
  /\ UNCHANGED <<state, pcsr23, port, resetflag, txside, rxside>>

\* PCSR2 and PCSR3, the address that GET PCB BASE picks up.
WritePcsr23(a) ==
  /\ pcsr23' = a
  /\ UNCHANGED <<status, intr, inte, pcmd, state, pcto, port, resetflag, cmdflag,
                 txside, rxside, active, intreq, vectored>>

\* pi_ub_vec: the CPU takes the interrupt, which clears the request.
TakeInterrupt ==
  /\ intreq
  /\ intreq' = FALSE
  /\ vectored' = TRUE
  /\ UNCHANGED <<csrs, port, resetflag, cmdflag, txside, rxside, active>>

\* una_reset, from a UNIBUS initialise (ubs_wr) or the operator.
UnaReset ==
  /\ SetReset
  /\ Activate(active)
  /\ EthFilter(FALSE)
  /\ UNCHANGED <<intreq, vectored, mem>>

-----------------------------------------------------------------------------
(* The service routine deuna_svc.  The event queue has removed the unit; a   *)
(* reset comes before a command, a command before a transmission, that       *)
(* before receiving; every branch ends in deuna_activate.                    *)

\* What every branch but the two that touch the registers leaves alone.
Serving ==
  /\ active /\ ~resetflag
  /\ UNCHANGED <<resetflag, inte, pcmd, pcsr23, vectored>>

\* The branch for port command c; it reports bits when it is done.
Command(c) == Serving /\ cmdflag /\ pcmd = c /\ cmdflag' = FALSE

Report(bits, timeout) == SetInt(status, bits, timeout) /\ Activate(FALSE)

SvcReset ==
  /\ active /\ resetflag
  /\ resetflag' = FALSE
  /\ state' = "READY"
  /\ UNCHANGED inte
  /\ SetInt(status, {"DNI"}, FALSE)
  /\ UNCHANGED <<cmdflag, txside>>
  /\ Activate(FALSE)
  /\ UNCHANGED <<pcmd, pcsr23, port, rxside, vectored, mem, eth>>

SvcGetPcb ==
  /\ Command("GETPCB")
  /\ pcbb' = pcsr23
  /\ UNCHANGED <<state, stat, ring, txside, rxside, mem, eth>>
  /\ Report({"DNI"}, FALSE)

\* auxcommand, with c the command block the host has put at the PCB address.
\* A bus timeout sets PCTO beside PCEI.
AuxTimeout(c) ==
  \/ pcbb = Hole
  \/ c.err = "nxm" /\ ~(c.fnc = "wr_ring" /\ state = "RUNNING")
AuxRejected(c) ==
  \/ c.fnc = "illegal" \/ c.err \in {"mbz", "udb"}
  \/ c.fnc = "wr_ring" /\ state = "RUNNING"

SvcAux(c) ==
  LET failed == AuxTimeout(c) \/ AuxRejected(c) IN
  /\ Command("GETCMD")
  /\ ring' = IF c.fnc = "wr_ring" /\ ~failed THEN c.fmt ELSE ring
     \* the test "if (fnc = 017)" is an assignment: both status functions clear
  /\ stat' = IF c.fnc \in {"rd_stat", "rdclr_stat"} /\ ~failed THEN {} ELSE stat
  /\ UNCHANGED <<state, pcbb, txside, rxside, mem, eth>>
  /\ Report({IF failed THEN "PCEI" ELSE "DNI"}, AuxTimeout(c))

SvcSelfTest ==
  /\ active /\ ~resetflag /\ cmdflag /\ pcmd = "SELFTEST"
  /\ SetReset
  /\ Activate(FALSE)
  /\ UNCHANGED <<intreq, vectored, mem, eth>>

SvcStart ==
  /\ Command("START")
  /\ IF state # "RUNNING"
     THEN EthFilter(TRUE) /\ state' = "RUNNING" /\ rxnext' = 0 /\ txnext' = 0
     ELSE UNCHANGED <<eth, state, rxnext, txnext>>
  /\ UNCHANGED <<port, txflag, txdone, txea, rxactive, rxea, rxhdr, mem>>
  /\ Report({"DNI"}, FALSE)

SvcStop ==
  /\ Command("STOP")
  /\ IF state # "READY" THEN EthFilter(FALSE) /\ state' = "READY"
     ELSE UNCHANGED <<eth, state>>
  /\ UNCHANGED <<port, txside, rxside, mem>>
  /\ Report({"DNI"}, FALSE)

\* Command 0, which an acknowledge can leave in the field of a flagged
\* command, and the codes the routine does not know.
SvcNoop ==
  /\ \E c \in {"NOOP", "UNUSED"} : Command(c)
  /\ UNCHANGED <<state, port, txside, rxside, mem, eth>>
  /\ Report({"DNI"}, FALSE)

\* deuna_poll, receive half: hold the descriptor at rxnext unless one is held.
\* A failed read leaves the words of the previous descriptor.
FetchRx ==
  IF rxactive THEN UNCHANGED rxside
  ELSE /\ rxactive' = TRUE
       /\ rxea' = <<ring.rdrb, rxnext>>
       /\ rxhdr' = IF ring.rdrb = Hole THEN rxhdr
                   ELSE LET e == rxring[ring.rdrb][rxnext] IN [own |-> e.own, dma |-> e.dma]
       /\ UNCHANGED rxnext

\* A poll that never looks at the ownership bit.
TxFoundUnchecked == IF ring.tdrb = Hole THEN "nxm" ELSE "send"

\* deuna_poll, transmit half: the kinds of descriptor found at txnext.
TxFound ==
  IF ring.tdrb = Hole THEN "nxm"
  ELSE LET e == txring[ring.tdrb][txnext] IN
       CASE e.frame = Mbz            -> "mbz"
         [] e.frame # Mbz /\ ~e.own  -> "free"
         [] e.own /\ e.frame = Nxm   -> "nxm"
         [] e.own /\ e.frame = Runt  -> "runt"
         [] OTHER                    -> "send"

GiveBackTx(a, e) ==
  txring' = [txring EXCEPT ![a[1]][a[2]] = [@ EXCEPT !.own = FALSE, !.err = e]]

\* A descriptor that cannot be read, or breaks the format, stops the poll.
SvcPollError ==
  /\ Command("PDMD") /\ ~txflag
  /\ txea' = <<ring.tdrb, txnext>>
  /\ TxFound \in {"nxm", "mbz"}
  /\ SetStat({IF TxFound = "nxm" THEN "TMOT" ELSE "TRNG"})
  /\ UNCHANGED <<state, pcbb, ring, txflag, txdone, txnext, rxside, mem, eth>>
  /\ Report({"SERI"}, FALSE)

\* A frame of illegal length is given back with an error, and ends the poll.
SvcPollRunt ==
  /\ Command("PDMD") /\ ~txflag
  /\ txea' = <<ring.tdrb, txnext>>
  /\ TxFound = "runt"
  /\ GiveBackTx(txea', TRUE)
  /\ txnext' = NextTx(txnext)
  /\ UNCHANGED <<state, port, txflag, txdone, rxside, rxring, eth>>
  /\ Report({"DNI", "TXI"}, FALSE)

\* eth_write has called deuna_od by the time the transmission is flagged.
SvcPollSend ==
  /\ Command("PDMD") /\ ~txflag
  /\ txea' = <<ring.tdrb, txnext>>
  /\ TxFound = "send"
  /\ out' = txring[ring.tdrb][txnext].frame
  /\ txdone' = TRUE
  /\ txflag' = TRUE
  /\ FetchRx
  /\ UNCHANGED <<state, port, txnext, mem, ethon, wire>>
  /\ Report({"DNI"}, FALSE)

\* Nothing to send now, or a transmission not yet finished: only receive.
SvcPollIdle ==
  /\ Command("PDMD")
  /\ IF txflag THEN UNCHANGED txea
     ELSE TxFound = "free" /\ txea' = <<ring.tdrb, txnext>>
  /\ FetchRx
  /\ UNCHANGED <<state, port, txflag, txdone, txnext, mem, eth>>
  /\ Report({"DNI"}, FALSE)

\* The transmission is over: steptx.  deuna_od runs inside eth_write, so there
\* is no state with txflag set and txdone clear in which to wait (TxOwned).
SvcTxDone ==
  /\ Serving /\ ~cmdflag /\ txflag /\ txdone
  /\ txflag' = FALSE /\ txdone' = FALSE
  /\ GiveBackTx(txea, FALSE)
  /\ txnext' = NextTx(txnext)
  /\ UNCHANGED <<cmdflag, state, port, txea, rxside, rxring, eth>>
  /\ Report({"TXI"}, FALSE)

Receiving == Serving /\ ~cmdflag /\ ~txflag /\ UNCHANGED <<cmdflag, state, port, txside, txring>>

SvcReceiveNone ==
  /\ Receiving /\ wire = <<>>
  /\ UNCHANGED <<status, intr, pcto, intreq, rxside, rxring, eth>>
  /\ Activate(FALSE)

\* No polling demand since the last RCBI: every waiting frame is discarded.
SvcReceiveDrop ==
  /\ Receiving /\ wire # <<>> /\ ~rxactive
  /\ wire' = <<>>
  /\ UNCHANGED <<status, intr, pcto, intreq, rxside, rxring, ethon, out>>
  /\ Activate(FALSE)

\* The held descriptor was the host's when it was read: the frame is lost.
SvcReceiveRcbi ==
  /\ Receiving /\ wire # <<>> /\ rxactive /\ ~rxhdr.own
  /\ wire' = Tail(wire)
  /\ rxactive' = FALSE
  /\ UNCHANGED <<rxnext, rxea, rxhdr, rxring, ethon, out>>
  /\ Report({"RCBI"}, FALSE)

\* rxstore in a loop: frame j + 1 goes to descriptor StoreAt(j), the held one
\* first, then the ring from rxnext on while its descriptors are owned.
StoreAt(j) == IF j = 0 THEN rxea ELSE <<ring.rdrb, (rxnext + j) % RxLen>>

\* An rxstore that does not look at the descriptors after the held one.
OwnedAtUnchecked(j) == IF j = 0 THEN rxhdr.own ELSE ring.rdrb # Hole

OwnedAt(j) ==
  IF j = 0 THEN rxhdr.own
  ELSE /\ ring.rdrb # Hole
       /\ rxring[ring.rdrb][(rxnext + j) % RxLen].own
       /\ \A i \in 0 .. j - 1 : StoreAt(i) # StoreAt(j)

\* A descriptor filled but not handed back, and as rxstore leaves it.
FilledNotReturned(e, dma, f) ==
  [e EXCEPT !.err = ~dma, !.frame = IF dma THEN f ELSE @]

Filled(e, dma, f) ==
  [e EXCEPT !.own = FALSE, !.err = ~dma, !.frame = IF dma THEN f ELSE @]

SvcReceiveStore(k) ==
  /\ Receiving /\ rxactive
  /\ k \in 1 .. Len(wire)
  /\ \A j \in 0 .. k - 1 : OwnedAt(j)
  /\ k < Len(wire) => ~OwnedAt(k)
  /\ rxring' = [r \in RxRings |-> [i \in RxIdx |->
       LET js == {j \in 0 .. k - 1 : StoreAt(j) = <<r, i>>}
           e  == rxring[r][i]
       IN IF js = {} THEN e
          ELSE LET j == CHOOSE j \in js : TRUE
               IN Filled(e, IF j = 0 THEN rxhdr.dma ELSE e.dma, wire[j + 1])]]
  /\ wire' = SubSeq(wire, k + 1, Len(wire))
  /\ rxnext' = (rxnext + k) % RxLen
  /\ rxea' = <<ring.rdrb, rxnext'>>
  /\ rxhdr' = [own |-> OwnedAt(k),
               dma |-> IF ring.rdrb = Hole THEN rxhdr.dma ELSE rxring[ring.rdrb][rxnext'].dma]
  /\ UNCHANGED <<rxactive, ethon, out>>
  /\ Report({"RXI"}, FALSE)

SvcReceive ==
  \/ SvcReceiveNone \/ SvcReceiveDrop \/ SvcReceiveRcbi
  \/ \E k \in 1 .. MaxWire : SvcReceiveStore(k)

\* The routine, given the command block found at the PCB address.
Svc(c) ==
  \/ SvcReset \/ SvcGetPcb \/ SvcAux(c) \/ SvcSelfTest \/ SvcStart \/ SvcStop
  \/ SvcNoop \/ SvcPollError \/ SvcPollRunt \/ SvcPollSend \/ SvcPollIdle
  \/ SvcTxDone \/ SvcReceive

-----------------------------------------------------------------------------
(* The host and the network. *)

HostPcsr0High == \E w1c \in SUBSET status : WritePcsr0High(w1c) /\ UNCHANGED <<mem, eth>>
HostPcsr0Rset == WritePcsr0Rset /\ UNCHANGED <<mem, eth>>
HostPcsr0 ==
  \E w1c \in SUBSET status, ie \in HostInte, c \in HostCmds :
    WritePcsr0(w1c, ie, c) /\ UNCHANGED <<mem, eth>>
HostPcsr23 == WritePcsr23("pcb") /\ UNCHANGED <<mem, eth>>
HostInterrupt == TakeInterrupt /\ UNCHANGED <<mem, eth>>

\* The host fills a descriptor it owns and hands it to the port.
HostTx(r, i, f) ==
  /\ ~txring[r][i].own
  /\ txring' = [txring EXCEPT ![r][i] = [own |-> TRUE, err |-> FALSE, frame |-> f]]
  /\ UNCHANGED <<csrs, port, resetflag, cmdflag, txside, rxside, active, intreq,
                 vectored, rxring, eth>>

HostRx(r, i, d) ==
  /\ ~rxring[r][i].own
  /\ rxring' = [rxring EXCEPT ![r][i] =
                  [own |-> TRUE, err |-> FALSE, dma |-> d, frame |-> None]]
  /\ UNCHANGED <<csrs, port, resetflag, cmdflag, txside, rxside, active, intreq,
                 vectored, txring, eth>>

EmptyTx == [i \in TxIdx |-> [own |-> FALSE, err |-> FALSE, frame |-> None]]
EmptyRx == [i \in RxIdx |-> [own |-> FALSE, err |-> FALSE, dma |-> TRUE, frame |-> None]]

\* A host that takes its rings back because the port is not running.
HostRebuild ==
  /\ Impatient /\ state # "RUNNING"
  /\ txring' = [r \in TxRings |-> EmptyTx]
  /\ rxring' = [r \in RxRings |-> EmptyRx]
  /\ UNCHANGED <<csrs, port, resetflag, cmdflag, txside, rxside, active, intreq,
                 vectored, eth>>

FrameArrives(f) ==
  /\ ethon /\ Len(wire) < MaxWire
  /\ wire' = Append(wire, f)
  /\ UNCHANGED <<csrs, port, resetflag, cmdflag, txside, rxside, active, intreq,
                 vectored, mem, ethon, out>>

-----------------------------------------------------------------------------
\* Power-on: the reset of all devices has run (deuna_setreset).
Init ==
  /\ status = {} /\ intr = FALSE /\ inte = FALSE /\ pcmd = "NOOP"
  /\ state = "RESET" /\ pcto = FALSE /\ pcsr23 = Hole
  /\ pcbb = Hole /\ stat = {} /\ ring = [tdrb |-> Hole, rdrb |-> Hole]
  /\ resetflag = TRUE /\ cmdflag = FALSE
  /\ txflag = FALSE /\ txdone = FALSE /\ txnext = 0 /\ txea = <<Hole, 0>>
  /\ rxactive = FALSE /\ rxnext = 0 /\ rxea = <<Hole, 0>>
  /\ rxhdr = [own |-> FALSE, dma |-> TRUE]
  /\ active = TRUE /\ intreq = FALSE /\ vectored = FALSE
  /\ txring = [r \in TxRings |-> EmptyTx] /\ rxring = [r \in RxRings |-> EmptyRx]
  /\ ethon = FALSE /\ wire = <<>> /\ out = None

DeviceStep == \E c \in AuxCmd : Svc(c)

HostStep ==
  \/ HostPcsr0High \/ HostPcsr0Rset \/ HostPcsr0 \/ HostPcsr23 \/ HostInterrupt
  \/ UnaReset \/ HostRebuild
  \/ \E r \in TxRings, i \in TxIdx, f \in Frames \cup BadTx : HostTx(r, i, f)
  \/ \E r \in RxRings, i \in RxIdx, d \in HostDma : HostRx(r, i, d)

Next == DeviceStep \/ HostStep \/ \E f \in Frames : FrameArrives(f)

\* Every unit on the event queue is served: the simulator's clock advances.
Fairness == WF_vars(DeviceStep)

Spec == Init /\ [][Next]_vars /\ Fairness

-----------------------------------------------------------------------------
(* Properties. *)

\* The device never goes to sleep with work to do: a reset, a command or a
\* transmission in progress, or a running port, has the unit on the event
\* queue, whatever mix of resets, commands and service runs led there.
UnitQueued == resetflag \/ cmdflag \/ txflag \/ state = "RUNNING" => active

\* No interrupt is lost: the summary bit follows the status bits, and with
\* interrupts enabled a status bit that is set has its request pending, or has
\* been vectored to a host that has yet to write PCSR0.
InterruptKept ==
  /\ intr = (status # {})
  /\ inte /\ status # {} => intreq \/ vectored

\* While a transmission is in progress its descriptor is the port's and still
\* holds the frame that went out, and the callback has run.
TxHeld ==
  txflag => /\ txdone /\ txea[1] \in TxRings
            /\ txring[txea[1]][txea[2]].own
            /\ txring[txea[1]][txea[2]].frame = out

\* The port's copy of a receive descriptor claims ownership only while the
\* descriptor in memory does: a frame is never stored in the host's buffer.
RxHeld ==
  rxhdr.own => /\ rxea[1] \in RxRings
               /\ rxring[rxea[1]][rxea[2]].own
               /\ rxring[rxea[1]][rxea[2]].dma = rxhdr.dma

\* Host and port take turns: whoever changes a descriptor hands it over.
OwnershipAlternates ==
  [][/\ \A r \in TxRings, i \in TxIdx :
          txring'[r][i] # txring[r][i] => txring'[r][i].own # txring[r][i].own
     /\ \A r \in RxRings, i \in RxIdx :
          rxring'[r][i] # rxring[r][i] => rxring'[r][i].own # rxring[r][i].own]_mem

\* Reading the status (function 16, "Read status") is not "Read and clear
\* status" (17): it leaves una_stat as it was.
ReadStatusKeeps ==
  [][\A c \in AuxCmd : c.fnc = "rd_stat" /\ SvcAux(c) => UNCHANGED stat]_vars
=============================================================================
