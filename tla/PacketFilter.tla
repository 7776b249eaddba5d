---------------------------- MODULE PacketFilter ----------------------------
(***************************************************************************)
(* The way of a frame from the host's Ethernet interface to the DEUNA:     *)
(* the kernel's packet filter (bpf.c), its signal, and eth_bpf.h.          *)
(*                                                                         *)
(* The kernel stores frames at interrupt level, between any two steps of   *)
(* the simulator, and signals each; the simulator learns of frames by the  *)
(* flag interrupt alone.  A step of eth_read is an access to the flag or a *)
(* piece of bpfread between two places where interrupts are let in.        *)
(*                                                                         *)
(* The state begins after eth_open: immediate mode, no blocking, SIGUSR1   *)
(* for each frame.                                                         *)
(***************************************************************************)
EXTENDS Naturals, Sequences

CONSTANTS
  Macs,         \* addresses the simulated machine may have
  Bia,          \* the burned-in address, which the host itself uses
  HostIp, NoIp, \* the host's Internet address, and 0.0.0.0
  Everybody,    \* the broadcast address
  NetFrames,    \* headers of frames from other machines
  HostFrames,   \* headers of frames from the host
  GuestFrames,  \* headers of frames from the simulated machine
  Room,         \* frames a buffer of the kernel holds
  MaxFrames     \* bound on frames that pass the interface

\* A header has the Ethernet destination, the protocol and, for IP and ARP, the
\* Internet addresses; that of another machine also its Ethernet source.
Headers == NetFrames \cup HostFrames \cup GuestFrames

ASSUME FilterAssumption ==
  /\ Room \in Nat \ {0} /\ MaxFrames \in Nat /\ Bia \in Macs /\ HostIp # NoIp
  /\ \A h \in Headers : h.proto \in {"ip", "arp", "other"}
  /\ \A h \in NetFrames : h.src \notin Macs
  /\ \A h \in GuestFrames : h.from # HostIp

VARIABLES
  mac,        \* macaddr
  interrupt,  \* set by inputdone
  batch,      \* the frames in buffer from bufpos on
  pc,         \* where the simulator is in eth_read, "idle" outside
  filter,     \* bd_filter: "active" or "passive"
  store,      \* the frames in bd_sbuf
  hold,       \* the frames in bd_hbuf; bd_fbuf is there iff there are none
  signal,     \* SIGUSR1 is pending
  reading,    \* the port runs, so deuna_svc polls eth_read
  seen,       \* number of frames that have passed the interface
  given       \* numbers of the frames handed up, in order

kernel == <<filter, store, hold>>
vars   == <<mac, interrupt, batch, pc, kernel, signal, reading, seen, given>>

-----------------------------------------------------------------------------
(* The kernel: bpf_tap, bpf_catchpacket. *)

\* inst_active; its two comparisons are with 0.0.0.0, since the code that
\* would put the host's address there is commented out.
Passes(f) ==
  \/ f.proto = "arp"
  \/ f.proto = "ip" /\ f.from # NoIp /\ f.to # NoIp

\* A bpf_catchpacket that rotates the buffers without a look at bd_fbuf.
CatchPacketOver(f) ==
  /\ signal' = TRUE
  /\ IF Len(store) < Room THEN store' = Append(store, f) /\ UNCHANGED hold
     ELSE hold' = store /\ store' = <<f>>

\* bpf_catchpacket: a frame that does not fit makes the buffers rotate, or is
\* dropped while the other one is being read.
CatchPacket(f) ==
  \/ /\ Len(store) < Room
     /\ store' = Append(store, f) /\ signal' = TRUE /\ UNCHANGED hold
  \/ /\ Len(store) >= Room /\ hold = <<>>
     /\ hold' = store /\ store' = <<f>> /\ signal' = TRUE
  \/ /\ Len(store) >= Room /\ hold # <<>>
     /\ UNCHANGED <<store, hold, signal>>

Tap(f) ==
  /\ seen < MaxFrames /\ seen' = f.id
  /\ IF filter = "active" /\ Passes(f) THEN CatchPacket(f)
     ELSE UNCHANGED <<store, hold, signal>>
  /\ UNCHANGED filter

\* A frame with header h, from src, that passes the interface now.
FrameOf(h, src, by) ==
  [id |-> seen + 1, by |-> by, src |-> src, dst |-> h.dst, proto |-> h.proto,
   from |-> h.from, to |-> h.to]

Arrive ==
  /\ \/ \E h \in NetFrames : Tap(FrameOf(h, h.src, "net"))
     \/ \E h \in HostFrames : Tap(FrameOf(h, Bia, "host"))
  /\ UNCHANGED <<mac, interrupt, batch, pc, reading, given>>

-----------------------------------------------------------------------------
(* The simulator's calls, other than eth_read. *)

\* inputdone runs when the simulator is not in the kernel.
InputDone ==
  /\ signal /\ pc # "copy"
  /\ interrupt' = TRUE /\ signal' = FALSE
  /\ UNCHANGED <<mac, batch, pc, kernel, reading, seen, given>>

\* eth_write stamps the frame with macaddr; the tap sees what goes out.
EthWrite ==
  /\ pc = "idle"
  /\ \E h \in GuestFrames : Tap(FrameOf(h, mac, "guest"))
  /\ UNCHANGED <<mac, interrupt, batch, pc, reading, given>>

\* BIOCSETF: bpf_setf installs the filter and empties the kernel's buffers
\* (bpf_reset_d), as BIOCFLUSH would; what has been read stays in buffer.
SetFilter(f) == filter' = f /\ store' = <<>> /\ hold' = <<>>

EthStart ==
  /\ pc = "idle" /\ ~reading
  /\ SetFilter("active") /\ reading' = TRUE
  /\ UNCHANGED <<mac, interrupt, batch, pc, signal, seen, given>>

EthStop ==
  /\ pc = "idle"
  /\ SetFilter("passive") /\ reading' = FALSE
  /\ UNCHANGED <<mac, interrupt, batch, pc, signal, seen, given>>

EthReset ==
  /\ pc = "idle"
  /\ SetFilter("passive") /\ reading' = FALSE /\ mac' = Bia
  /\ UNCHANGED <<interrupt, batch, pc, signal, seen, given>>

EthSetmac ==
  /\ pc = "idle"
  /\ mac' \in Macs
  /\ UNCHANGED <<interrupt, batch, pc, kernel, signal, reading, seen, given>>

\* deuna_setreset on a register write or a selftest leaves the filter alone.
PortReset ==
  /\ pc = "idle"
  /\ reading' = FALSE
  /\ UNCHANGED <<mac, interrupt, batch, pc, kernel, signal, seen, given>>

-----------------------------------------------------------------------------
(* eth_read, with bpfread in it. *)

At(from, to) == pc = from /\ pc' = to /\ UNCHANGED <<mac, filter, reading, seen>>

\* The simulator looks at the flag, then takes it down.
Call  == At("idle", "clear") /\ interrupt /\ UNCHANGED <<interrupt, batch, store, hold, signal, given>>
Clear == At("clear", "loop") /\ interrupt' = FALSE /\ UNCHANGED <<batch, store, hold, signal, given>>

\* bpfread at splimp, called when the batch is used up: a full buffer, or what
\* has come so far (ROTATE_BUFFERS).
Rotate == IF hold # <<>> THEN UNCHANGED <<store, hold>> ELSE hold' = store /\ store' = <<>>

BpfTake ==
  /\ At("loop", "copy") /\ batch = <<>> /\ (hold # <<>> \/ store # <<>>)
  /\ Rotate
  /\ UNCHANGED <<interrupt, batch, signal, given>>

\* EWOULDBLOCK, and nothing.  The tsleep before it is never reached: bd_rtout
\* is an unsigned -1.
BpfNothing ==
  /\ At("loop", "none") /\ batch = <<>> /\ hold = <<>> /\ store = <<>>
  /\ UNCHANGED <<interrupt, batch, store, hold, signal, given>>

\* uiomove has copied the buffer, which becomes bd_fbuf.
BpfCopied ==
  /\ At("copy", "loop")
  /\ batch' = hold /\ hold' = <<>>
  /\ UNCHANGED <<interrupt, store, signal, given>>

\* An eth_read that takes the flag down when it has found nothing.
NothingClears ==
  /\ At("none", "idle")
  /\ interrupt' = FALSE
  /\ UNCHANGED <<batch, store, hold, signal, given>>

Nothing ==
  /\ At("none", "idle")
  /\ UNCHANGED <<interrupt, batch, store, hold, signal, given>>

\* checkpacket: a frame with our own source address is an echo, unless the
\* host, which has the same one, sent it to us or to everybody.
CheckPacket(f) ==
  /\ ~(f.proto = "ip" /\ f.to = HostIp)
  /\ f.src = mac => /\ f.from = HostIp
                    /\ \/ f.dst = mac /\ f.proto \in {"ip", "arp"}
                       \/ f.dst = Everybody /\ f.proto = "arp"

\* A frame is handed up, and the flag left down.
HandUpQuiet ==
  /\ At("loop", "idle") /\ batch # <<>> /\ CheckPacket(Head(batch))
  /\ batch' = Tail(batch) /\ given' = Append(given, Head(batch).id)
  /\ UNCHANGED <<interrupt, store, hold, signal>>

\* A frame is handed up, and the flag set again: there may be more.
HandUp ==
  /\ At("loop", "idle") /\ batch # <<>> /\ CheckPacket(Head(batch))
  /\ batch' = Tail(batch) /\ given' = Append(given, Head(batch).id)
  /\ interrupt' = TRUE
  /\ UNCHANGED <<store, hold, signal>>

PassOver ==
  /\ At("loop", "loop") /\ batch # <<>> /\ ~CheckPacket(Head(batch))
  /\ batch' = Tail(batch)
  /\ UNCHANGED <<interrupt, store, hold, signal, given>>

EthRead ==
  \/ Clear \/ BpfTake \/ BpfNothing \/ BpfCopied \/ Nothing \/ HandUp \/ PassOver

-----------------------------------------------------------------------------
Init ==
  /\ mac = Bia /\ interrupt = TRUE /\ batch = <<>> /\ pc = "idle"
  /\ filter = "passive" /\ store = <<>> /\ hold = <<>> /\ signal = FALSE
  /\ reading = FALSE /\ seen = 0 /\ given = <<>>

Next ==
  \/ Arrive \/ InputDone \/ EthWrite \/ EthStart \/ EthStop \/ EthReset \/ EthSetmac
  \/ PortReset \/ Call \/ EthRead

\* A signal is delivered, a call of eth_read comes to its end, and a running
\* port makes the next: deuna_svc runs again as long as it is queued.
Fairness == WF_vars(InputDone) /\ WF_vars(EthRead) /\ WF_vars(reading /\ Call)

Spec == Init /\ [][Next]_vars /\ Fairness

-----------------------------------------------------------------------------
(* Properties. *)

Frame == [id : 1 .. MaxFrames, by : {"net", "host", "guest"},
          src : Macs \cup {h.src : h \in NetFrames}, dst : {h.dst : h \in Headers},
          proto : {"ip", "arp", "other"},
          from : {h.from : h \in Headers}, to : {h.to : h \in Headers}]

TypeOK ==
  /\ mac \in Macs /\ interrupt \in BOOLEAN /\ batch \in Seq(Frame)
  /\ pc \in {"idle", "clear", "loop", "copy", "none"}
  /\ filter \in {"active", "passive"} /\ store \in Seq(Frame) /\ hold \in Seq(Frame)
  /\ signal \in BOOLEAN /\ reading \in BOOLEAN
  /\ seen \in 0 .. MaxFrames /\ given \in Seq(1 .. MaxFrames)

Waiting == batch \o hold \o store

\* No frame waits unnoticed: whenever the simulator is outside eth_read and
\* there is a frame in its buffer or in the kernel's, the flag is set or the
\* signal that will set it is pending.  The flag is taken down before the
\* kernel is asked, and every frame that comes later signals anew.
FramesNoticed == pc = "idle" /\ Waiting # <<>> => interrupt \/ signal

\* The three buffers and the rotations between them are one queue.
Channel == INSTANCE FrameChannel WITH Frames <- Frame, waiting <- Waiting
ChannelSpec == Channel!Spec

\* While the port runs, a frame that is caught is read in the end: handed up
\* or passed over, but not left in a buffer.
FramesRead ==
  \A n \in 1 .. MaxFrames :
    (\E i \in 1 .. Len(Waiting) : Waiting[i].id = n)
      ~> \/ \A i \in 1 .. Len(Waiting) : Waiting[i].id # n
         \/ ~reading
=============================================================================
