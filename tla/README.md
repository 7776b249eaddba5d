# Network devices and drivers of the bygg PDP-10 archive

TLA+ specifications, TLC runs and TLAPS proofs for the part of this repository
that is a program of its own: the network devices that Johnny Eriksson added to
the SIMH KS10 simulator, the monitor drivers that run them, and the protocols
above the drivers (DDCMP for TOPS-20, IP for TOPS-10).

Paths: `v29upd/` is `ftp.stacken.kth.se/pub/pdp10/v29upd/`; `unaser.mac`,
`arpser.mac`, `udpser.mac`, `ipser.mac`, `iprout.mac`, `ip4sub.mac` and `slip.mac`
are in `ftp.stacken.kth.se/pub/pdp10/tops10/mon/`; `KDPSRV.MAC` is in
`stacken.kth.se/home/bygg/`.

## 1. Inventory

The repository is an archive of home and FTP directories. Most of it is monitor
source (`kicki`, DEC's code), games, language systems and images. What carries
logic of its own:

| component | state | operations | what makes it correct |
|---|---|---|---|
| DEUNA controller, `v29upd/dec_deuna.c` | four registers, PCB base, ring format, ring pointers, flags `resetflag cmdflag txflag rxactive`, the held descriptors, the unit on the event queue | `deuna_wr`, `deuna_svc`, `una_reset` | no lost interrupt, never asleep with work, host and port take turns on descriptors |
| packet filter, `v29upd/eth_bpf.h` and the kernel's `bpf.c` | filter, address, the signal flag, a batch of frames; store and hold buffer in the kernel | `eth_start stop reset setmac write read`, `inputdone`; `bpf_catchpacket`, `bpfread`, `bpf_setf` | frames are read in order, each once; a captured frame is read in the end; the host's frames and the machine's own stay out |
| TOPS-10 driver, `unaser.mac` | function queue, transmit queue, `unapol`, `unapip`, `unarxn`, the rings | `unaonc`, `unasnd`, `unaint` | packets and frames pass once and in order, the port comes up |
| KMC11/DUP11, `v29upd/dec_kdp.c` | SEL0-SEL6, two descriptor queues and three counters a line, `kmc_output`, timers | `kmc_wr`, `kmc_svc`, `dup_svc`, `kmc_reset` | each descriptor reported once and in order, registers not changed under the host |
| lines, `v29upd/sync_bsd.h` | UDP sockets | `sync_read`, `sync_write` | none: datagrams are lost, repeated, reordered |
| TOPS-20 driver, `KDPSRV.MAC`, towards the KMC | command queue `KMCINQ`, two transmit and two receive lists a line | `BTKML`, `COMINI`, `KMCINP`, `KMCVCA`, `KMCVCB`, `XMTDAT` | lists come back, no buffer is overwritten |
| DDCMP of `KDPSRV.MAC` | per line: state, message numbers, `PGDLMX`, pending ACK, NAK and REP, the queue of messages, the countdown, `DCHNG` | `DDRCV`, `XMTDNE`, `DDTIMR`, `DEDLIN`, `KDPTSK`, `DCNMSO`, the stops of `BOOT` | messages once and in order within a session; the line comes up; the server knows |
| ARP cache, `arpser.mac` | list of blocks, count, sweep pointer | `ARPFND`, `ARPSTO`, `ARPSEC`, `ARPCLA`, input of queries and replies | the first complete block of a host has its last address |
| UDP devices and IP, `udpser.mac`, `ipser.mac`, `iprout.mac`, `ip4sub.mac` | per device: port, user, input queue, two counts | the UUOs of `udpser.mac`, `U.STOR`, callbacks of the layers below | counts agree with packets, a user reads what is his, a full device recovers |
| event queue, `v29upd/scp.c` | list of units with relative times | `sim_activate`, `sim_cancel`, `sim_process_event` | a unit runs at its time, once |
| Unibus adapter, `v29upd/pdp10_ksio.c` | `int_req`, mapping | `pi_ub_vec`, `ubs_wr`, DMA | |

Not modelled, with the reason for each in `PROJECT.json`: the event queue, the
DMR11 stub, the DZ11 and its TCP multiplexer, idle detection, the processor,
hexsim, the BACKUP readers and the command parser. Of the
modelled parts the following is left out: attach and detach of devices;
modes of the packet filter that `eth_open` does not ask for; multidrop lines and
maintenance mode of DDCMP, the KMC's reports of a transmit underrun (22) and of
non-existent memory (20); sleeping and waking of jobs in `udpser.mac`; packet formats, checksums
and the reading of the ARP table; `slip.mac`, whose transmit side is called from
nowhere.

**How they interact.** The simulator is one thread. A register access by the
CPU calls `deuna_wr` or `kmc_wr`; `sim_process_event` runs `deuna_svc`,
`kmc_svc` and `dup_svc` between instructions. Below it the kernel stores frames at
interrupt level and sends a signal for each, at any point of the thread. Devices and drivers share
registers, descriptors in memory and the request word `int_req`. The driver has
two parts, a main program and an interrupt handler that can start between any
two of its instructions. So the interleavings are those of device routines with
single accesses of the driver, and of handler with main program. The protocols
see the same from above: DDCMP runs at interrupt level and on the monitor's
clock, and two stations exchange frames; IP runs in the user's UUO and in the
UNA's interrupt, which share the ARP list, the input queues and the counts. A
packet goes down by calls (`UDPSND`, `IPRSND`, `ARPFND`, `unasnd`) and comes back by
the callback in its descriptor, which lowers the count of its device.

**What is hard.** Flags read before and used after the other side has moved;
registers that mean different things in the two directions; interrupt requests
that a write can drop; completions that must be found again because the
registers were busy; restarts with half of the state kept; bounded queues; the
32-bit delay; message numbers that wrap and are zeroed by one end only; a list
that an interrupt changes between a walk's steps; counts that some layer must
remember to lower. Every such place is listed at its line under `hazards`.

## 2. Modules

    Deuna ----------- UnaSystem ---implements---> EtherService
      |                  |    |
      |                  |    MCUnaSystem
      DeunaProofs ------ UnaProofs --- UnaRxProofs
      |
      MCDeuna
    PacketFilter --------------implements---> FrameChannel
      |   |
      |   FilterProofs
      MCPacketFilter
    Kmc ------------- KdpSystem ---implements---> BufferService
      |   |              |   |
      |   |              |   MCKdpSystem
      |   KmcProofs ---- KdpProofs
      MCKmc
    Ddcmp ---------------------implements---> LinkService
      |   |
      |   DdcmpProofs
      MCDdcmp
    ArpCache ---------- IpStack
                         |   |
                         |   IpProofs
                         MCIpStack

* **Deuna** - the whole of `dec_deuna.c`: one action per register write and per
  branch of `deuna_svc`. Helpers keep the names of the C routines (`SetInt`,
  `SetReset`, `Activate`). A register word is split into its fields; a
  descriptor address is a pair of ring and index; `Hole` is the unmapped
  address. The host is free: it writes any register, resets at any time,
  hands over descriptors it owns.
* **UnaSystem** - `unaser.mac` on top of `Deuna`. `hpc` and `mpc` are the program
  counters of handler and main program; a step is one access to shared state.
* **EtherService** - what the protocols above count on: packets leave once in
  the order given, frames come up once in the order they arrived.
* **PacketFilter** - `eth_bpf.h` and the part of `bpf.c` it uses. `store` and `hold` are the
  buffers of the kernel, `batch` what `eth_read` has fetched and not handed up. `pc` says
  where the simulator is in `eth_read`: a frame may come, and the signal be delivered,
  between any two of its steps.
* **FrameChannel** - what the DEUNA counts on below `eth_read`: one queue of frames.
  `wire` in `Deuna` stands for such a queue; the two modules are not composed.
* **Kmc** - `dec_kdp.c` with a free host. The routines of the C file are functions
  on the pair of `kmc` and `dup`; `Finish` is the tail of `kmc_wr`.
* **KdpSystem** - `KDPSRV.MAC` on top of `Kmc`, with two crossed lines.
* **BufferService** - each line and direction is a queue of descriptors: given
  whole, reported one by one in order, dropped by a master clear only.
* **Ddcmp** - two stations on a point-to-point line that loses and damages frames.
  `st[s]` is the line block of a station: its fields keep the source's offsets as
  names where there is one. A routine of the source (`RcvAck`, `XmtNak`, `DedLin`)
  is a function from line block to line block; an action is one entry from
  outside: a frame received, a transmission done, the KMC's report of a damaged
  frame or a missing buffer, the timer, `KDPTSK`, NSP's message, a stop; `Flush` is
  `DEDLIN` going on after it has let interrupts in.
* **LinkService** - what NSP counts on: an end that opens is given the messages of
  one session of the other, once and in order and none missing while that session
  lasts, and a message is done only when it was given; a failure ends a session at
  either end.
* **ArpCache** - the operations of `arpser.mac` on the list of blocks.
* **IpStack** - jobs that use UDP devices, the clock's sweep, the clearing by an
  operator, and interrupts of the UNA between any two of their steps. `main` says
  where the main program stands and what it has in hand.
* **MC...** - constants for TLC. **DeunaProofs**, **UnaProofs**, **UnaRxProofs**,
  **FilterProofs**, **KmcProofs**, **KdpProofs**, **DdcmpProofs**, **IpProofs** - proofs.

Abstractions worth knowing:

* Frames, messages and addresses are values without inner structure. A DEUNA
  transmit entry holds a legal frame or one of the kinds `Runt` (illegal length),
  `Mbz` (bits that must be zero), `Nxm` (unmapped buffer). Truncation of a frame
  to its buffer is not seen.
* Ring lengths are fixed for a model; WRITE RING FORMAT chooses among `Formats`.
  Auxiliary functions that only read or write addresses, mode and counters are
  one kind, `plain`; the three kinds of failure are told apart.
* `deuna_od` runs inside `eth_write`, so `txdone` is set whenever `txflag` is.
* Mapping registers do not change while a device runs, so a descriptor that could
  be read can be written back.
* A frame that has been captured is seen by the next `eth_read`. Installing a
  filter empties the kernel's buffer and keeps what the process has read.
* A frame of `PacketFilter` has a number, the Ethernet and Internet addresses the filters
  look at and its protocol. Lengths are left out: short frames, which `checkpacket`
  refuses, and the bytes a buffer holds, for which `Room` counts frames. All frames of
  the interface pass the tap, those sent too. `bpf_catchpacket` runs at interrupt level
  to its end, so it does not matter that it signals before it stores (`bpf.c:1158`).
  `bd_rtout` is an unsigned -1, so `bpfread` never sleeps (`:434`) and `bd_rdStart` stays 0.
* The TOPS-10 driver sends only after it has come up. `Holds` says that
  `unasnd` may be called with the UNA's interrupts held off by its caller, which
  makes its instructions run with an interrupt waiting. Otherwise an interrupt
  that is requested is taken before the next instruction of the main program.
* `HRxiIgnore` covers the error, the unknown protocol and the missing packet
  descriptor, which lead to the same place.
* `net` in `Kmc` is a set that only grows: any datagram ever sent to a line may be
  read, never, once, or many times, in any order.
* All lines of `Kmc` are attached. The line number in SEL2 is a line that exists.
  The free host does not touch a list the processor has.
* BASE IN and CONTROL IN do nothing in `kmc_doinput`; the driver's two commands
  for them are one. `MLoad` stands for the writes of `BTKML` up to RUN.
* `COMINI` queues the commands of one line after those of another, the set-up of a line
  before its buffers, and the buffers in any order (`MInit`); `todo` is the set of those
  still to come. That the lists of a line fit into the queues of the processor is the
  assumption `RoomAssumption`, which 16 places and two lists of two descriptors fulfil.
* The DDCMP protocol is reduced to its effect on the lists: messages are sent by
  the main program with interrupts off (`MSend`), as an answer to a received one
  (`BReply`), or when a list becomes free (`BSent`).

* `Ddcmp` leaves the KMC out: a frame that is sent is on the wire (`BufferService` is
  what it relies on) until it is received, lost or damaged. The countdown is a
  boolean, running or not, and may expire at any time; `Patient` says that it
  expires only when nothing is on its way, which the ratio of its seconds to a
  frame's time gives. `BOOT`'s reload (terminate, load, start) is one step, and so
  is `KDPTSK`. `DEDLIN` enables interrupts after each message that it gives back and
  zeroes `PGDLMX` and the numbers only at the end (`DEDLN8`). Called at interrupt level
  (a STRT while running, data set lost) it is one step; called by the timer or by
  `BOOT` it is a step to each `PION` (`DieInSteps`, then `Flush`), and in the gaps
  frames are received and transmissions end, with `XMTDAT` and `RCVAK3` working on what
  is left. Two things are simplified: neither the scheduler nor another process
  runs in a gap, and a block that was given back keeps its words until `DEDLIN` ends,
  so that `PGDLMX` still links to the next one. `LINSR`, whether a line has a server,
  is constant. `rcvd`, `next`, `first`, `up` and `late` are auxiliary: they record what
  the specification above sees, and whether `DCNMSO` has ever queued a message while
  the line did not run.
* Of the KMC's reports of control out, 10 (bad header) and 24 (receiver underrun)
  only give the buffer back and are the loss of a frame (`Lose`); 12 (bad CRC) is
  `CntlBadCrc`, 14 (no buffer) `CntlNoBuf`, 16 (data set ready) `CntlDsr`. 26 does nothing.
* In `IpStack` a UUO runs without another job in between, as the monitor does not
  reschedule in exec mode before it sleeps. An interrupt of the UNA is one step,
  between any two steps of the main program. The pointer with which a routine
  walks the ARP list is the length of the rest of the list, `left`. `%arndl` is held
  inside an interrupt only, so the main program never meets it set. Memory may
  run out for a query and an ARP block; other allocations succeed. `icmp.e` is
  modelled by the loss of the descriptor; what giving back the wrong pointer
  does to the free list is not followed. A user names a device of his own
  (`udpser.mac:425` does not check it). `last`, `lost` and `own` are auxiliary: the
  address stored last, the devices with a lost descriptor, whose input it was.

Operators with names such as `SetIntOnRaise`, `AddedShort` or `FreedEarly` are
wrong variants of the definition that follows them, slips that a programmer
could make. No specification uses them; they serve to check that the properties
tell them from the code.

## 3. Runs

| run | bounds | shows |
|---|---|---|
| `deuna_control` | one entry a ring, all commands, all kinds of auxiliary function, both values of INTE, resets | `InterruptKept`, `UnitQueued`, `TypeOK` |
| `deuna_rings` | two entries a ring, two frames waiting, START, STOP, polls, a receive ring that is mapped or not | `TxHeld`, `RxHeld`, `OwnershipAlternates` |
| `una_service` | 2 packets, 2 arrivals, 2 receive entries, one arrival answered from the handler, senders that hold interrupts off | `ServiceSpec`, `RxNoticed`, `TxNoticed`, `StallsExplained`, `PortComesUp`, `PacketsLeave`, `SysTypeOK` |
| `filter_frames` | buffers of 2 frames, 4 frames: two kinds from the network (one for the host), one from the host, two from the machine (one without an Internet address); two addresses | `FramesNoticed`, `FramesRead`, `ChannelSpec` |
| `kmc_free` | one line looped to itself, room for 3 descriptors, a message of 2 segments, any register write | `QueueBounds`, `TransmissionTimed`, `CompletionFlagged` |
| `kdp_service` | two lines, two transmit lists, one receive list, messages of 2 and 1 segments, room for 3, loaded twice | `BufferServiceSpec`, `RegistersHeld`, `RequestPending`, `InputExpected`, `WholeFrames`, `FreeListsBack`, `NoOverwrite`, `ListsReturn` |
| `ddcmp_link` | numbers modulo 4, `MAXOUT` 2, `REPMAX` 1, 2 messages one way, 1 fault, 1 stop, a server at one end, patient timers | `LinkServiceSpec`, `WindowOK`, `ServerKnows`, `TimerRuns`, `ComesUp`, `TypeOK` |
| `ip_stack` | 2 devices, 1 host with 2 Ethernet addresses, an ARP block lives 2 ticks (1 while incomplete), 2 blocks, an input limit of 1, an output limit of 2, 2 packets in the UNA; 2 opens, 3 sends, 2 ARP packets, 2 datagrams, 1 sweep, 1 clearing, at most 6 of these together | `InputCounted`, `OutputCounted`, `OwnInput`, `FreshAnswer`, `SlotsReturn`, `IpTypeOK` |

Two entries make a ring wrap and let the held entry and the next one be
neighbours in both directions; a third adds no new relation. A queue of three is
exactly what the two lists of the KDPSRV configuration fill, so one place less
loses a descriptor (`AddedShort`); in the program 16 places face four
descriptors. A third packet and a third arrival add nothing to `una_service`: its safety
part holds with 3 and 3 too. Four frames through buffers of two fill both buffers of the
kernel, so that a frame is dropped while the other is being copied. Two loads let a halt fall at every stage of a transfer. Deadlock is
off where the bounds on packets and arrivals let everything come to rest.
`VIEW` in the DEUNA runs leaves out what cannot influence the rest (the address of a
descriptor that is not in use, history). The receive ring of `deuna_rings` may be
unmapped, so that a poll of the running port fails to read the descriptor and keeps
the words of the one before.

Numbers modulo 4 with two messages outstanding leave one number outside the window,
so that a response can be impossible as well as stale: an end that restarted answers
with 0, and that is outside when the other has 1 acknowledged (`RcvAk3`, its
`ahead > MaxOut`). One fault is enough to need a NAK or a REP, one stop to zero the
numbers of one end with frames of the old session on the wire, and two messages to
give `DEDLIN` a gap with a message left to send. In `ddcmp_acked`, numbers modulo 3 and
three messages make them wrap.

`LinkServiceSpec` is restricted, by two exceptions and one weakening that its comment
names: no timer expires early (`Patient`), `DCNMSO` has queued no message while the line did not
run (`late`), and of a session that is over messages may be missing (`Over`). TLC
refutes it without `late` and without `Over` at the bounds of the run, so the run goes
where the promise ends. With them, the bounds are not what makes it hold. TLC finds no
error in any of these, with patient timers and numbers modulo 4:

| messages | faults, stops | distinct states |
|---|---|---|
| 2 one way | 2, 1 / 1, 2 / 2, 2 | 1.7, 1.5 and 6.0 million |
| 3 one way | 1, 1 / 2, 1 | 1.1 and 4.8 million |
| 1 each way | 1, 1 / 2, 1 / 1, 2 | 0.9, 4.4 and 4.3 million |
| 2 one way, 1 the other | 1, 1 | 4.4 million |

With impatient timers it is refuted with two messages and 2 faults and 1 stop, or 1
fault and 2 stops: a line then comes up with frames of an older start on the wire.

In `ip_stack` an input limit of 1 makes the queue exceed it by the
one datagram an interrupt adds, two blocks put the pointer of a walk before, on
and after a block that is stored, refreshed or given back. Without the bound of 6
and with two inputs of each kind, the invariants hold as well (14.7 million
states, too many for a routine run).

**What four runs find.** Each checks one sentence of the source and TLC refutes it:

* `deuna_status` - `if (fnc = 017)` makes Read status clear it as well.
* `una_flag` - the handler's acknowledge writes command 0 over a polling demand
  the controller has not read; "the flag is enough" fails and the frame waits
  for the next packet.
* `kdp_delay` - the delay overflows on a fast host and the line hangs.
* `ddcmp_acked` - "count messages transmitted OK": a station whose line just died
  answers a damaged frame with response number 0, and the other end takes it for
  an acknowledgement of messages that never arrived.

`StallsExplained` and `PacketsLeave` show that the driver stalls in the three
ways recorded by `lost` ("ack", "pip", "pol") and in no other.

**Seen while modelling**, without a run of its own:

* START resets the ring pointers of the DEUNA but not the receive descriptor that
  is held; a reset during a transmission forgets it, and the next START sends the
  frame again (`dec_deuna.c:742`, `:256`).
* A descriptor that cannot be written back is passed over (`dec_deuna.c:702`).
  Commands come before the end of a transmission and before reception, so a host
  that issues them without pause starves both (`:723`). `(pcb[2] << 16) & 3` is
  always 0, a ring format above 64K is looked for below (`:381`).
* `unapip` is set after the poll is over when the interrupt was taken in between,
  and nothing clears it; `i.rcbi` does not make the polling demand its comment
  asks for. SERI and PCEI are never looked at, a command that fails is never
  reported (`unaser.mac:404`).
* The active filter compares the Internet addresses with 0.0.0.0: the code that would
  put the host's there is commented out (`eth_bpf.h:128`), though its comment says "not
  to/from the main IP address". So the host's packets are captured; `checkpacket` keeps
  out those sent to the host, and those the host sends to others only while both use
  the same Ethernet address.
* STOP and reset empty the kernel's buffers and not the batch, so a START may be
  followed by frames from before (`eth_bpf.h:304`). If the address is changed while an
  own frame waits, it is handed up as if it came from another (`:345`). A read that
  fails stores -1 in an unsigned length (`:375`).
* The line number of a KMC command has 7 bits and indexes an array of `MAXDUP`
  lines (`dec_kdp.c:595`); `w3` is used when `unibus_read` failed (`:441`).
* `sim_activate` drops a second request for a unit that is already queued
  (`scp.c:2517`), which `dec_kdp.c` relies on.
* `KDPSRV.MAC`, in a gap of `DEDLIN` (`:2232`): when `PGDLMX` is zero and the first
  message has been given back, `XMTDAT` sends the second under the number of the first.
  The other end, if it still runs, gives it to its server, with one missing (one
  stop is enough; `Over`).
* `KDPSRV.MAC`: `DCNMSO` may queue a message while the line is starting, and `XMTDAT`
  sends it without a look at the state. If the line is then restarted, a frame of the
  old start is taken for one of the new, and its acknowledgement for that of another
  message (one fault and one stop; `late`).
* `KDPSRV.MAC`: `FLUBFR` tests T2 where it should test T3 (`CAIN T2,PGXBD2(P1)`, `:2389`),
  so the second transmit list is not freed after a transmit underrun.
* `icmp.e` gives the data pointer back in place of the descriptor
  (`ipser.mac:203`). So a datagram to an unused port of our own host is counted in
  `udpoql` for ever, and after as many as the limit allows the device answers "Too
  many in transit, please wait." (`udpser.mac:515`) for ever: `u.rel` does not clear
  the count.
* `arpcnt` goes below zero after `ARPCLA` (`arpser.mac:404`, `:93`), and a block
  added meanwhile is dropped; the sweep gives back a block that was refreshed
  between its look and its act (`:449`). Both cost a query, never a wrong address.
* The search for a free port runs past 16 bits (`udpser.mac:579`). Between the look
  at an empty queue and `esleep` an interrupt's wakeup is lost
  (`udpser.mac:192`, `:233`).
* `slip.mac`: after a junk frame `in.set` starts at the advanced pointer, not at the
  start of the buffer (`:93`, `:119`).

**Fairness.** `Deuna` assumes that a queued unit is served; `PacketFilter` that the
signal is delivered, `eth_read` comes to its end and a running port calls it again,
which holds unless the host issues commands without pause; `UnaSystem` and
`KdpSystem` that the CPU executes its handler and finishes what it has begun.
The event queue advances with every instruction and the CPU does not stop while
the simulator runs. Nothing makes a protocol send or a frame come. For
`kmc_svc`, which runs periodically, it is assumed only that it runs when it has
something to report; which datagrams it reads, if any, is never forced. `Ddcmp`
assumes that a frame on the wire is received, a transmission ends, `KDPTSK` and
NSP run and `DEDLIN` goes on after a gap (weak fairness). The countdown expires strongly fairly: under `Patient` it
may expire only when the wire is quiet, which holds again and again but not for
ever. `ComesUp` excuses behaviours in which a station is down with nobody to start
it. `IpStack` assumes that the UNA transmits what it was given and that the main
program goes on; nothing makes a datagram come.

## 4. Proofs

`DeunaProofs` (for every value of the constants):

* `TypeCorrect`: `Spec => []TypeOK`. `TypeOK` is inductive; the proof goes
  through the parts of the type invariant, action by action.
* `UnitQueuedAlways`: inductive, because every action that sets one of the flags
  ends in `Activate`.
* `InterruptKeptAlways`: `InterruptKept` is inductive with the summary bit as one
  of its conjuncts: without it a write of INTE could not tell that a request is
  due.

The theorems about the rings assume `Impatient = FALSE` (the host does not take its
rings back behind the port):

* `TransmitHeld`, `ReceiveHeld`: neither is inductive alone. `RingInv` is the type
  invariant, both of them, and `IdleHeader`: a port that holds no receive
  descriptor has the ownership bit of its copy of one off. The failed read of a
  descriptor keeps the words of the copy, and they must not claim an entry the
  port does not hold.
* `TurnsAlternate`: the action property follows from `RingInv` for each step.

`UnaProofs` and `UnaRxProofs`, for any number of packets, arrivals and receive
entries, any ring format, any set of answered arrivals and any bound of the wire:

* `SysTypeCorrect`, `ReceiptNoticed`, `TransmitNoticed`, and `Serves`: `SysSpec =>
  ServiceSpec`, the refinement of `EtherService`. `SysInvAlways` is what they rest
  on. Its invariant `Inv` has, beside the types, four parts:
  * `BootInv`, `QuietInv`: the functions that still wait end in "write ring format,
    START", in this order; until they are done nothing is queued by the protocols,
    the filter is off and both ring pointers are 0. Without it the driver's pointer
    and the port's could start apart.
  * `RxOrder`: from `unarxn` on there are n filled entries (`Segment`), then free ones
    up to the port's `rxnext`, around the ring. The frames in them, and behind them
    those on the wire, are increasing and later than the last one given (`Pipe`). It
    is what makes `RxNoticed` inductive: the loop of `i.rxi` that ends at an owned entry
    has left no filled one behind. `Held` and `AllMapped` say that the descriptor the
    port holds is the entry at `rxnext`, which it may fill.
  * `TxPlaces`: the packet in progress is in exactly one of five places, the entry,
    TXI, the handler that has read TXI, `sndmsg` in the handler and `sndmsg` in the main
    program; so the entry has one writer at a time. `xip` alone does not tell, because
    main program and handler both start packets.
  * `TxQueue`: the queue holds the last packets that were accepted, in order, and the
    history of packets sent is as long as those before them. From it follows that the
    frame the controller takes is the next one in order.
* `StallsAreExplained`: `SysSpec => []StallsExplained`, by an invariant of its own on
  top of `Inv`. `FlagIsEnough` is not inductive: whether a set `unapol` will be looked at
  depends on what ends a command, in the controller, in PCSR0, or in the handler.
  * `OrderInv`: the commands of `unaonc` are done in order, with interrupts on.
  * `DownInv`: before START exactly one thing is under way, the reset, a command or the
    report of its end. So START is given only after the ring format is really there,
    which is why it cannot fail.
  * `UpInv`: from START on the port has the ring format and no command but demands; an
    `unacip` that is set means that the end of START is still to be seen.
  * `FlagInv`: as long as nothing is recorded in `lost`, `unapip` means that the end of
    a command is in sight, and `sndmsg` passes by its tests only when `unapol` is set or a
    demand is on its way.

  So the losses recorded as "ack", "pip" and "pol" are the only ones, for any number of
  packets, arrivals and receive entries.
* `Serves` maps the start of a transmission to `Send`, an arrival to `Arrive`, `unasnd`
  to `Accept`, a frame given to its protocol to `Give`, and every other step to none.

`FilterProofs`, for any size of the buffers, any number of frames and any headers:

* `FramesAlwaysNoticed`: inductive once the exceptions are named. `Noticed` adds the
  places of `eth_read` from which the kernel is still to be asked, and the invariant
  that the kernel is asked only with an empty batch; so "nothing" is returned only when
  all three buffers are empty, and a frame that comes later signals.
* `FiltersServe`: `Spec => ChannelSpec`. A tap is `Put`, a frame handed up `Give`, one
  passed over `Skip`, an installed filter `SetUp`; rotations and copies leave the row of
  the three buffers as it is. It needs that a frame's origin tells of its source.
* `FilterTypeCorrect`: the types, part of the same invariant.

`KmcProofs`, for any number of lines, places in a queue, lists and messages, and
with a host that writes any register at any time:

* `QueuesBounded`, `CompletionsFlagged`: `KmcInv` says that the pair `Now` of
  registers and dupblocks lies in `Works(Filled)` and that each finished
  descriptor has `kmc_output` set. The invariant is needed because `QueueBounds` is
  not inductive without the types of the queues: `dup_tryxmit` reads the last
  descriptor of a list from memory, so the frame it finds ends inside the queue
  only if every queued transmit list is one the host has filled. `Filled` is the set
  of these lists, and it never shrinks, since a list that the processor has is not
  rewritten and a list is refilled with another message, not emptied.
* `KmcTypeCorrect`: follows from `KmcInv` and the type of the network.
* `TransmissionsTimed`: needs the assumption `NoOverflow`, that no message of 1 to
  `MaxQueue` segments has a delay beyond 31 bits. With it the timer and the count
  of descriptors in transmission change together; without it the run `kdp_delay`
  shows the line that hangs. So the overflow is the only cause.

The proof follows the C file: each routine is a function on that pair, with a
lemma that it maps `Works(F)` to itself and keeps the flag, and a step is the
composition of a few.

`KdpProofs`, for any number of lines, lists, messages and loads, and any room that
`RoomAssumption` allows: `InputIsExpected`, `RegistersAreHeld`, `RequestIsPending`,
`FramesAreWhole`, `FreeListsAreBack`, `NeverOverwritten`, and `BuffersServed`, the
refinement of `BufferService`. They rest on one invariant, `SysInv`:

* `SysTypes` has the types of `KmcProofs` in it (`Works`), for all transmit lists; that
  those in use only are queued is part of `LinesInv`.
* `RegInv`: input and output ready are never up together; a transaction of the handler
  has its bit, and the registers have the values that the handler has read or written.
  Both interrupts are enabled once a command is queued, and a request stands only for a
  ready bit. `RegistersHeld` and `RequestPending` follow; alone they do not say why the
  processor leaves SEL4 and SEL6 between two accesses.
* `LinesInv`: per line and direction the descriptor in the registers and those of the
  queue are one row. In the row of the transmitter no descriptor is there twice, the
  two of a message stand side by side, and the transmission that is next begins with a
  first one (`AtStart`). So what `dup_tryxmit` collects is a whole message, which
  `WholeFrames` needs; with `RoomAssumption` the row has room for the next list, so
  `Added` never cuts one short. In the receiver's row the buffers still to be filled are empty
  (`Vacant`), which gives `NoOverwrite`.
* `PlacesInv`: a list is in one of five places, still to be queued, in `KMCINQ`, in the
  hand of `KMCVCA`, with the processor, or in the hand of `KMCVCB`, and there once. A
  transmit list that is in one of them is in use. That is `FreeListsBack`, and it is
  what makes the rows free of duplicates.
* `MsgsInv`: two lists never have the same message, so `RoomAssumption` applies.
* `BuffersServed` maps the write of SEL4 and SEL6 by `KMCVCA` to `Offer`, that of SEL2 to
  `Give`, the acknowledgement of `KMCVCB` to `Report`, a load to `MasterClear`, and every
  other step to none.

`DdcmpProofs`, for any width of the numbers above `MAXOUT`, any number of messages,
faults and stops, patient or not:

* `StationsTyped`, `WindowAgrees`, `TimersRun`: the invariant `Sound` says of each line
  block that its fields have their ranges, that the queue and `PGDLMX` give the
  numbers in use (`Window`), and that a line that is not down has its timer. In the gaps
  of `DEDLIN` `Window` says nothing: whatever an interrupt does there is undone by
  `DEDLN8`, which zeroes `PGDLMX` and the numbers (`FlushedKeeps`). A lemma for each
  routine of the source says that it maps sound blocks to sound blocks; frames
  need no invariant beyond their type, since a station checks what it receives
  against its own window.
* `ServersKnow`: `Told` relates `DCHNG` to the state of the line and to what NSP was
  last told: NSP believes the line up exactly when it runs or a "down" is pending. It
  needs that a pending "down" excludes RUN. `DEDLIN` stores "down" only when it ends
  RUN, and may so overwrite an "up" that `KDPTSK` has not seen; but a line comes to
  run in `KDPTSK` alone, and only for a code "up", so no start can slip in before the
  server has heard of the death.

`IpProofs`, for any number of devices, jobs, hosts and blocks:

* `InputsCounted`, `InputsOwned`: the inductive invariant adds to the types that a
  main program between its look at `udpiql` and the queueing still has room for
  one, whatever interrupts queue meanwhile, and that a device without a user has
  port 0.
* `FreshAnswers`: one lemma for each list operation (store, refresh, add at the
  front, give back, unlink). The invariant adds `Walking`: the rest of the list that
  a walk has before it is a suffix, so what the walk gives back is a block of the
  list; and a block that is added in front of a complete one of its host is
  incomplete, so the first complete one stays the same.
* `OutputsCounted`: `OutputCounted` is a sum over the places a packet can be in. `OutInv`
  adds the limit on `udpoql` and that the main program names a device only while it
  has a packet of it: otherwise a sweep or a clearing would seem to hold one. Lemmas say
  how each term changes with an append, a removal, and an emptied queue; each step then
  moves packets between two terms, or to `lost`, or lowers the count with one of them.
* `IpTypesCorrect`: the range of the counts follows from the sum.

Model-checked only: the refinement of `LinkService`, and all liveness, which is out of
the prover's reach. The refinement is stated with the exceptions that section 3 names,
and TLC finds no error at any of the bounds listed there; a proof of it is the first
item of the plan. Every invariant and every other action property of a passing run
has a theorem. `TransmissionTimed` has one under `NoOverflow`, without which `kdp_delay`
refutes it. The proofs assume what the modules name: `DeunaAssumption`, `UnaAssumption`,
`FilterAssumption`,
`KmcAssumption`, `KdpAssumption`, `RoomAssumption`, `NoneAssumption`, `DdcmpAssumption`,
`ArpAssumption`, `IpAssumption` (finitely many devices), and for numbers of the delay
`SizeAssumption`.

## 5. Plan

Done: the DEUNA, its driver and the packet filter below it, the KMC and its driver,
DDCMP, IP with its ARP cache, and proofs of each. What is left, in order:

1. `LinkServiceSpec` as a theorem, first for `MaxStops = 0`. The invariant has to
   relate the window of one station to the frames on the wire and to what the other
   has received, through the restarts that an exhausted REP count brings.
2. `EventQueue`: `sim_activate`, `sim_cancel`, `sim_process_event` with relative
   times, refined to a set of absolute times; overflow of the 32-bit sum.
3. Sleeping and waking jobs in `IpStack`; `slip.mac`; pure algorithms of hexsim.
