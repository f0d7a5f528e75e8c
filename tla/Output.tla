------------------------------- MODULE Output -------------------------------
(***************************************************************************)
(* cOutput::operator<< with the Linux interface (a packet socket) or a     *)
(* file as its backend.  Packets leave at their send time: the interface   *)
(* sleeps for the difference to the packet before, partly in the kernel    *)
(* and partly busy.  Ctrl+C is a counter that the walk looks at before     *)
(* every list element; it does not interrupt a sleep.                      *)
(***************************************************************************)
EXTENDS PacketStream

CONSTANTS
  Delays,          \* Delays[i]: getTime of the list element at index i \in Heads
  realtimeMode,    \* cTcpPump::realtimeMode
  Resolutions,     \* results SleepInit may measure, in ticks of the clock
  Jitter,          \* how much later than asked a sleep may end
  MaxSigint        \* bound on the number of Ctrl+C events

(* The real-time mode is on if there are delays: Compiler!RealtimeIfTimed.  *)
ASSUME OutputAssumption ==
  /\ Delays \in [Heads -> Nat]
  /\ realtimeMode \in BOOLEAN
  /\ ~realtimeMode => \A i \in Heads : Delays[i] = 0
  /\ Resolutions \subseteq Nat \ {0} /\ Resolutions # {}
  /\ Jitter \in Nat
  /\ MaxSigint \in Nat

VARIABLES
  backend,         \* "netif" or "file": which prepare was called
  endless,         \* the local of operator<<, m_repeat = 0; Repeat is then a bound
  pc,              \* where the walk is
  next,            \* number of the packet handed to the backend next
  sendTime,        \* sum of the delays so far
  resolution,      \* measured by SleepInit, 0: not yet
  lastSentPacket,  \* send time of the packet before
  firstPacket,     \* the interface has not sent anything yet
  tStart,          \* when it sent the first packet
  sleepTime,       \* the local of sendPacket
  sigStatus,       \* gSigIntStatus
  sentPackets,
  sentBytes,
  clock,           \* now
  wire,            \* history: numbers of the packets sent
  sentAt,          \* history: when, or with which time stamp
  atSigint,        \* history: next at the first Ctrl+C
  failed           \* history: a send or a write returned an error

optVars  == <<backend, endless>>
netVars  == <<resolution, lastSentPacket, firstPacket, tStart, sleepTime>>
statVars == <<sentPackets, sentBytes, wire, sentAt, failed>>
vars == <<optVars, pc, next, sendTime, netVars, sigStatus, statVars, clock, atSigint>>

Init ==
  /\ backend \in {"netif", "file"}
  /\ endless \in BOOLEAN
  /\ pc = "prepare"
  /\ next = 1
  /\ sendTime = 0
  /\ resolution = 0 /\ lastSentPacket = 0 /\ firstPacket = TRUE
  /\ tStart = 0 /\ sleepTime = 0
  /\ sigStatus = 0
  /\ sentPackets = 0 /\ sentBytes = 0
  /\ clock = 0
  /\ wire = <<>> /\ sentAt = <<>>
  /\ atSigint = 0
  /\ failed = FALSE

PrepareWithoutTimer ==
  /\ pc = "prepare"
  /\ pc' = "check"
  /\ UNCHANGED <<optVars, next, sendTime, netVars, sigStatus, statVars, clock, atSigint>>

(* prepareSendQueue: the timer is only measured in the real-time mode.     *)
Prepare ==
  /\ pc = "prepare"
  /\ IF backend = "netif" /\ realtimeMode
     THEN resolution' \in Resolutions
     ELSE UNCHANGED resolution
  /\ pc' = "check"
  /\ UNCHANGED <<optVars, next, sendTime, lastSentPacket, firstPacket, tStart, sleepTime,
                 sigStatus, statVars, clock, atSigint>>

(* Both loops look at the flag, before every pass and every element.       *)
NeverSignalled == FALSE
OnlyBetweenPasses == sigStatus > 0 /\ PassIndex(next) = 1
SigintSignalled == sigStatus > 0

(* The delay before the list element that begins with packet n.            *)
FirstPassDelay(n) == IF n <= Len(Lengths) THEN Delays[PassIndex(n)] ELSE 0
ElementDelay(n) == Delays[PassIndex(n)]

(* The head of both loops: the end, or the next list element.              *)
CheckSignal ==
  /\ pc = "check"
  /\ \/ /\ SigintSignalled \/ (~endless /\ next > Total)
        /\ pc' = "done"
        /\ UNCHANGED sendTime
     \/ /\ ~SigintSignalled /\ next <= Total
        /\ sendTime' = sendTime + ElementDelay(next)
        /\ pc' = "packet"
  /\ UNCHANGED <<optVars, next, netVars, sigStatus, statVars, clock, atSigint>>

(* processPacket: sendPacket computes how long to sleep.                   *)
SwappedDifference == lastSentPacket - sendTime
Difference == sendTime - lastSentPacket

BeginPacket ==
  /\ pc = "packet" /\ backend = "netif"
  /\ sleepTime' = Difference
  /\ firstPacket' = FALSE
  /\ tStart' = IF firstPacket THEN clock ELSE tStart
  /\ pc' = IF Difference = 0 THEN "sendto" ELSE "sleep"
  /\ UNCHANGED <<optVars, next, sendTime, resolution, lastSentPacket, sigStatus, statVars,
                 clock, atSigint>>

(* tcppump::Sleep.  The kernel sleeps for the part that is a multiple of   *)
(* the resolution, the rest is waited for busily.                          *)
RoundDown(t) == (t \div resolution) * resolution

KernelSleeps(t) == {RoundDown(t) + j : j \in 0 .. Jitter}

BusyWaits(t) == IF t = 0 THEN {0} ELSE {t + j : j \in 0 .. Jitter}

NoBusyWait(t) == KernelSleeps(t)

Sleeps(t) ==
  IF t < resolution THEN BusyWaits(t)
  ELSE UNION {{k + b : b \in (IF t > k THEN BusyWaits(t - k) ELSE {0})}
                : k \in KernelSleeps(t)}

Sleep ==
  /\ pc = "sleep"
  /\ \/ resolution = 0 /\ pc' = "bug" /\ UNCHANGED <<clock, lastSentPacket>>
     \/ /\ resolution > 0
        /\ \E d \in Sleeps(sleepTime) : clock' = clock + d
        /\ lastSentPacket' = lastSentPacket + sleepTime
        /\ pc' = "sendto"
  /\ UNCHANGED <<optVars, next, sendTime, resolution, firstPacket, tStart, sleepTime,
                 sigStatus, statVars, atSigint>>

(* sendto, or cFileBackend::write with sendTime as its time stamp.         *)
SendTo ==
  /\ \/ pc = "sendto" /\ sentAt' = Append(sentAt, clock)
     \/ pc = "packet" /\ backend = "file" /\ sentAt' = Append(sentAt, sendTime)
  /\ wire' = Append(wire, next)
  /\ sentPackets' = sentPackets + 1
  /\ sentBytes' = sentBytes + LengthOf(next)
  /\ next' = next + 1
  /\ pc' = "next"
  /\ UNCHANGED <<optVars, sendTime, netVars, sigStatus, clock, atSigint, failed>>

(* The next fragment of the same IP packet, or the next list element.      *)
Advance ==
  /\ pc = "next"
  /\ pc' = IF IsHead(next) THEN "check" ELSE "packet"
  /\ UNCHANGED <<optVars, next, sendTime, netVars, sigStatus, statVars, clock, atSigint>>

IgnoreError ==
  /\ pc = "sendto" \/ (pc = "packet" /\ backend = "file")
  /\ next' = next + 1
  /\ pc' = "next"
  /\ UNCHANGED <<optVars, sendTime, netVars, sigStatus, statVars, clock, atSigint>>

(* An error throws an exception, which ends the walk.                      *)
SendError ==
  /\ pc = "sendto" \/ (pc = "packet" /\ backend = "file")
  /\ failed' = TRUE
  /\ pc' = "throw"
  /\ UNCHANGED <<optVars, next, sendTime, netVars, sigStatus, sentPackets, sentBytes,
                 wire, sentAt, clock, atSigint>>

Throw ==
  /\ pc = "throw"
  /\ pc' = "done"
  /\ UNCHANGED <<optVars, next, sendTime, netVars, sigStatus, statVars, clock, atSigint>>

Sigint ==
  /\ pc \notin {"done", "bug"} /\ sigStatus < MaxSigint
  /\ sigStatus' = sigStatus + 1
  /\ atSigint' = IF sigStatus = 0 THEN next ELSE atSigint
  /\ UNCHANGED <<optVars, pc, next, sendTime, netVars, statVars, clock>>

Over == pc \in {"done", "bug"} /\ UNCHANGED vars

Walk == Prepare \/ CheckSignal \/ BeginPacket \/ Sleep \/ SendTo \/ Advance
          \/ SendError \/ Throw

Next == Walk \/ Sigint \/ Over

(* Sleeps end and system calls return; Ctrl+C need not be pressed.         *)
Spec == Init /\ [][Next]_vars /\ WF_vars(Walk)

-----------------------------------------------------------------------------
TypeOK ==
  /\ backend \in {"netif", "file"} /\ endless \in BOOLEAN
  /\ pc \in {"prepare", "check", "packet", "sleep", "sendto", "next", "throw",
             "done", "bug"}
  /\ next \in Nat \ {0}
  /\ sendTime \in Nat
  /\ resolution \in Nat /\ lastSentPacket \in Nat
  /\ firstPacket \in BOOLEAN
  /\ tStart \in Nat /\ sleepTime \in Nat
  /\ sigStatus \in 0 .. MaxSigint
  /\ sentPackets \in Nat /\ sentBytes \in Nat
  /\ clock \in Nat
  /\ wire \in Seq(Nat) /\ sentAt \in Seq(Nat)
  /\ atSigint \in Nat
  /\ failed \in BOOLEAN

(* The packet list's own schedule: packet n is due when the delays of all  *)
(* list elements up to its own, over all passes, have elapsed.             *)
DueAt[n \in Nat] ==
  IF n = 0 THEN 0
  ELSE DueAt[n - 1] + (IF IsHead(n) THEN Delays[PassIndex(n)] ELSE 0)

(* No packet leaves before it is due, although the timer only sleeps for   *)
(* multiples of its resolution; it is late by the jitter of the sleeps so  *)
(* far at most, and the time stamps of a file are exact.                   *)
Punctual ==
  \A i \in DOMAIN sentAt :
    LET due == DueAt[wire[i]] IN
    IF backend = "file" THEN sentAt[i] = due
    ELSE sentAt[i] - tStart \in due .. due + 2 * Jitter * i

(* BUG_ON (resolution.isNull()) in tcppump::Sleep is not reached.          *)
NoBug == pc # "bug"

(* After Ctrl+C only the list element begun is finished, its fragments     *)
(* included; no further one is begun, in this pass or the next.            *)
StopsAfterElement ==
  sigStatus > 0 => \A n \in atSigint + 1 .. next - 1 : ~IsHead(n)

(* Ctrl+C ends the walk, also an endless one.                              *)
CtrlCEndsWalk == (sigStatus > 0) ~> (pc = "done")

Abstract == INSTANCE Transmission WITH
  Demand      <- Total,
  Endless     <- endless,
  accepted    <- IF failed \/ pc \in {"packet", "sleep", "sendto"}
                 THEN next ELSE next - 1,
  interrupted <- sigStatus > 0,
  open        <- pc \notin {"done", "bug"}

(* The walk over list elements, fragments and passes sends what the        *)
(* packet list says.                                                       *)
ImplementsTransmission == Abstract!AbsSpec
=============================================================================
