---------------------------- MODULE Output_proofs ----------------------------
(***************************************************************************)
(* Theorems about the walk over the packet list and the Linux interface,   *)
(* for every list, every number of passes, all delays, resolutions and     *)
(* jitters, and any number of Ctrl+C events.                               *)
(***************************************************************************)
EXTENDS Output, NaturalLemmas

-----------------------------------------------------------------------------
(* Lemmas about the packet stream.                                         *)

(* The packets of the walk are those of the list, over and over.           *)
LEMMA PassIndexType ==
  ASSUME Len(Lengths) > 0, NEW n \in Nat \ {0}
  PROVE  PassIndex(n) \in 1 .. Len(Lengths) /\ LengthOf(n) \in Nat
<1>1. Len(Lengths) \in Nat /\ Lengths \in Seq(Nat \ {0})
  BY StreamAssumption
<1>2. PassIndex(n) \in 1 .. Len(Lengths)
  BY <1>1 DEF PassIndex
<1> QED BY <1>1, <1>2 DEF LengthOf

(* A list element begins with the first packet, and with the packet after  *)
(* the last one, where the next pass would begin.                          *)
LEMMA FirstIsHead ==
  ASSUME Len(Lengths) > 0
  PROVE  IsHead(1) /\ IsHead(Total + 1)
<1>1. Len(Lengths) \in Nat \ {0} /\ 1 \in Heads
  BY StreamAssumption
<1>2. PassIndex(1) = 1
  BY <1>1 DEF PassIndex
<1> DEFINE passes == IF Repeat = 0 THEN MaxPasses ELSE Repeat
<1>3. passes \in Nat /\ Total = Len(Lengths) * passes
  BY StreamAssumption DEF Total
<1>4. Total \in Nat /\ Total % Len(Lengths) = 0
  BY <1>1, <1>3, MultipleRemainder
<1>5. PassIndex(Total + 1) = 1
  BY <1>1, <1>4 DEF PassIndex
<1> QED BY <1>1, <1>2, <1>5 DEF IsHead

(* Without packets nothing is to be sent.                                  *)
LEMMA TotalType == Total \in Nat /\ (Total > 0 => Len(Lengths) > 0)
<1> DEFINE passes == IF Repeat = 0 THEN MaxPasses ELSE Repeat
<1>1. passes \in Nat /\ Len(Lengths) \in Nat /\ Total = Len(Lengths) * passes
  BY StreamAssumption DEF Total
<1> QED BY <1>1

(* The delay before a list element; there is none without the real-time    *)
(* mode.                                                                   *)
LEMMA DelayType ==
  ASSUME NEW n \in Nat, IsHead(n)
  PROVE  ElementDelay(n) \in Nat /\ (~realtimeMode => ElementDelay(n) = 0)
BY OutputAssumption DEF IsHead, ElementDelay

(* The recursive definition of the schedule has a solution.                *)
LEMMA Schedule ==
  /\ DueAt \in [Nat -> Nat]
  /\ DueAt[0] = 0
  /\ \A n \in Nat : DueAt[n + 1] =
       DueAt[n] + (IF IsHead(n + 1) THEN ElementDelay(n + 1) ELSE 0)
<1> DEFINE step == [n \in Nat |-> IF IsHead(n) THEN Delays[PassIndex(n)] ELSE 0]
<1>1. step \in [Nat -> Nat]
  BY DelayType DEF ElementDelay
<1>2. \A g : (g = [n \in Nat |-> IF n = 0 THEN 0 ELSE g[n - 1] + step[n]])
             <=> (g = [n \in Nat |-> IF n = 0 THEN 0
                         ELSE g[n - 1] + (IF IsHead(n) THEN Delays[PassIndex(n)] ELSE 0)])
  OBVIOUS
<1> HIDE DEF step
<1>3. \E g : g = [n \in Nat |-> IF n = 0 THEN 0
                    ELSE g[n - 1] + (IF IsHead(n) THEN Delays[PassIndex(n)] ELSE 0)]
  BY <1>1, <1>2, SumRecursion
<1>4. DueAt = [n \in Nat |-> IF n = 0 THEN 0
                 ELSE DueAt[n - 1] + (IF IsHead(n) THEN Delays[PassIndex(n)] ELSE 0)]
  BY <1>3, Zenon DEF DueAt
<1>5. DueAt = [n \in Nat |-> IF n = 0 THEN 0 ELSE DueAt[n - 1] + step[n]]
  BY <1>2, <1>4
<1>6. DueAt \in [Nat -> Nat]
  BY <1>1, <1>5, SumRecursionType
<1>7. DueAt[0] = 0
  BY <1>4
<1>8. ASSUME NEW n \in Nat
      PROVE  DueAt[n + 1] = DueAt[n] + (IF IsHead(n + 1) THEN ElementDelay(n + 1) ELSE 0)
  <2>1. n + 1 \in Nat /\ n + 1 # 0 /\ (n + 1) - 1 = n
    OBVIOUS
  <2>2. DueAt[n + 1] = IF n + 1 = 0 THEN 0
          ELSE DueAt[(n + 1) - 1]
                 + (IF IsHead(n + 1) THEN Delays[PassIndex(n + 1)] ELSE 0)
    BY <1>4, <2>1
  <2> QED BY <2>1, <2>2 DEF ElementDelay
<1> QED BY <1>6, <1>7, <1>8

(* A sleep lasts as long as asked for, and at most the jitter of its two   *)
(* parts longer, although the kernel only sleeps for whole ticks.          *)
LEMMA SleepDuration ==
  ASSUME NEW t \in Nat, resolution \in Nat \ {0}, NEW d \in Sleeps(t)
  PROVE  d \in t .. t + 2 * Jitter
<1>0. Jitter \in Nat
  BY OutputAssumption
<1>1. RoundDown(t) \in Nat /\ RoundDown(t) <= t
  BY RoundedDown DEF RoundDown
<1>2. ASSUME NEW u \in Nat, NEW b \in BusyWaits(u) PROVE b \in u .. u + Jitter
  BY <1>0, <1>2 DEF BusyWaits
<1>3. CASE t < resolution
  <2>1. d \in BusyWaits(t)
    BY <1>3 DEF Sleeps
  <2> QED BY <1>0, <1>2, <2>1
<1>4. CASE ~(t < resolution)
  <2>1. PICK k \in KernelSleeps(t) :
          \E b \in (IF t > k THEN BusyWaits(t - k) ELSE {0}) : d = k + b
    BY <1>4 DEF Sleeps
  <2>2. PICK b \in (IF t > k THEN BusyWaits(t - k) ELSE {0}) : d = k + b
    BY <2>1
  <2>3. k \in Nat /\ k <= t + Jitter
    BY <1>0, <1>1, <2>1 DEF KernelSleeps
  <2>4. CASE t > k
    <3>1. t - k \in Nat /\ b \in BusyWaits(t - k)
      BY <2>2, <2>3, <2>4
    <3>2. b \in t - k .. t - k + Jitter
      BY <1>2, <3>1
    <3> QED BY <1>0, <2>2, <2>3, <3>2
  <2>5. CASE ~(t > k)
    BY <1>0, <2>2, <2>3, <2>5
  <2> QED BY <2>4, <2>5
<1> QED BY <1>3, <1>4

-----------------------------------------------------------------------------
(* The inductive invariant.  While a packet is under way, sendTime is when *)
(* it is due, and before that the time of the packet before.               *)

UnderWay == pc \in {"packet", "sleep", "sendto"}

(* The position of the walk.                                               *)
Position ==
  /\ next <= Total + 1
  /\ pc # "prepare" /\ pc # "check" /\ pc # "done" => Len(Lengths) > 0
  /\ pc \in {"prepare", "check"} /\ Len(Lengths) > 0 => IsHead(next)
  /\ UnderWay => next <= Total
  /\ (pc = "throw") => failed
  /\ failed => pc \in {"throw", "done"}

(* What has been sent: the packets before next, in their order.            *)
SentInOrder ==
  /\ Len(wire) = next - 1 /\ Len(sentAt) = next - 1
  /\ \A i \in 1 .. next - 1 : wire[i] = i

(* The send times, and how far the interface has followed them.            *)
Timing ==
  /\ lastSentPacket <= sendTime
  /\ UnderWay => sendTime = DueAt[next]
  /\ pc \in {"prepare", "check", "next"} => sendTime = DueAt[next - 1]
  /\ backend = "netif" =>
       /\ pc \in {"check", "next", "sendto"} => lastSentPacket = sendTime
       /\ pc = "packet" => lastSentPacket = DueAt[next - 1]
  /\ pc = "sleep" => backend = "netif" /\ sleepTime # 0
                       /\ lastSentPacket + sleepTime = sendTime
  /\ pc = "prepare" => sendTime = 0 /\ lastSentPacket = 0
  /\ pc = "sendto" => backend = "netif"

(* How late packet n may be: every packet may add two jitters.             *)
Lateness(n) == 2 * Jitter * n

(* The clock against the schedule.                                         *)
Clock ==
  backend = "netif" =>
    /\ tStart <= clock
    /\ firstPacket => clock = 0 /\ lastSentPacket = 0 /\ next = 1
    /\ pc \in {"sleep", "sendto", "next"} => ~firstPacket
    /\ ~firstPacket /\ pc \notin {"throw", "done"} =>
         clock - tStart \in lastSentPacket
             .. lastSentPacket + Lateness(IF pc = "sendto" THEN next ELSE next - 1)

(* The timer is measured before it is needed.                              *)
TimerMeasured ==
  /\ backend = "netif" /\ realtimeMode /\ pc # "prepare" => resolution > 0
  /\ ~realtimeMode => sendTime = 0
  /\ NoBug

(* After Ctrl+C only fragments follow.                                     *)
Stopping ==
  sigStatus > 0 =>
    /\ atSigint \in 1 .. next
    /\ UnderWay /\ next > atSigint => ~IsHead(next)

WalkInv ==
  /\ TypeOK /\ Position /\ SentInOrder /\ Timing /\ Clock /\ TimerMeasured /\ Stopping
  /\ Punctual /\ StopsAfterElement

(* The lateness grows by two jitters.                                      *)
LEMMA LatenessGrows ==
  ASSUME NEW n \in Nat
  PROVE  Lateness(n) \in Nat /\ Lateness(n + 1) = Lateness(n) + 2 * Jitter
<1>1. 2 * Jitter \in Nat
  BY OutputAssumption
<1> QED BY <1>1, ProductNext, ProductMonotonic DEF Lateness

(* The walk before its first step.                                         *)
LEMMA WalkInit == Init => WalkInv
<1> SUFFICES ASSUME Init PROVE WalkInv
  OBVIOUS
<1> USE OutputAssumption DEF Init
<1>1. TypeOK
  <2>1. failed \in BOOLEAN /\ firstPacket \in BOOLEAN /\ endless \in BOOLEAN
    BY Zenon
  <2>2. wire \in Seq(Nat) /\ sentAt \in Seq(Nat)
    OBVIOUS
  <2> QED BY <2>1, <2>2 DEF TypeOK
<1>2. Position
  BY TotalType, FirstIsHead DEF Position, UnderWay
<1>3. SentInOrder
  BY DEF SentInOrder
<1>4. Timing
  BY Schedule DEF Timing, UnderWay
<1>6. Clock /\ TimerMeasured /\ Stopping
  BY DEF Clock, TimerMeasured, Stopping, UnderWay, NoBug
<1>5. Punctual /\ StopsAfterElement
  BY DEF Punctual, StopsAfterElement
<1> QED BY <1>1, <1>2, <1>3, <1>4, <1>5, <1>6 DEF WalkInv

(* Steps that neither send nor signal keep what is said of the packets     *)
(* sent.                                                                   *)
LEMMA NothingSent ==
  ASSUME WalkInv, UNCHANGED <<next, wire, sentAt, sigStatus, atSigint, backend>>,
         tStart' = tStart \/ next = 1
  PROVE  SentInOrder' /\ Punctual' /\ StopsAfterElement'
<1>1. SentInOrder' /\ StopsAfterElement'
  BY DEF WalkInv, SentInOrder, StopsAfterElement
<1>2. Punctual'
  <2>1. CASE next = 1
    <3>1. DOMAIN sentAt = {}
      BY <2>1 DEF WalkInv, SentInOrder, TypeOK
    <3> QED BY <3>1 DEF Punctual
  <2>2. CASE tStart' = tStart
    BY <2>2 DEF WalkInv, Punctual
  <2> QED BY <2>1, <2>2
<1> QED BY <1>1, <1>2

(* prepareSendQueue.                                                       *)
LEMMA PrepareInv == WalkInv /\ Prepare => WalkInv'
<1> SUFFICES ASSUME WalkInv, Prepare PROVE WalkInv'
  OBVIOUS
<1> USE DEF Prepare, optVars, statVars
<1>1. TypeOK'
  BY OutputAssumption DEF WalkInv, TypeOK
<1>2. Position' /\ Stopping'
  BY DEF WalkInv, Position, Stopping, UnderWay
<1>3. SentInOrder' /\ Punctual' /\ StopsAfterElement'
  BY NothingSent
<1>4. Timing'
  BY DEF WalkInv, TypeOK, Timing, UnderWay
<1>5. Clock'
  BY DEF WalkInv, Clock
<1>6. TimerMeasured'
  <2>1. \A r \in Resolutions : r > 0
    BY OutputAssumption
  <2>2. backend = "netif" /\ realtimeMode => resolution' > 0
    BY <2>1
  <2> QED BY <2>2 DEF WalkInv, TimerMeasured, NoBug
<1> QED BY <1>1, <1>2, <1>3, <1>4, <1>5, <1>6 DEF WalkInv

(* The head of both loops.                                                 *)
LEMMA CheckInv == WalkInv /\ CheckSignal => WalkInv'
<1> SUFFICES ASSUME WalkInv, CheckSignal PROVE WalkInv'
  OBVIOUS
<1> USE DEF optVars, netVars, statVars
<1>0. SentInOrder' /\ Punctual' /\ StopsAfterElement'
  BY NothingSent DEF CheckSignal
<1>1. CASE pc' = "done" /\ UNCHANGED sendTime
  BY <1>0, <1>1 DEF CheckSignal, WalkInv, TypeOK, Position, Timing, Clock, TimerMeasured,
       Stopping, UnderWay, NoBug
<1>2. CASE /\ ~SigintSignalled /\ next <= Total
           /\ sendTime' = sendTime + ElementDelay(next)
           /\ pc' = "packet"
  <2>1. next \in Nat \ {0} /\ Len(Lengths) > 0 /\ IsHead(next)
    BY <1>2, TotalType DEF CheckSignal, WalkInv, TypeOK, Position
  <2>2. ElementDelay(next) \in Nat /\ (~realtimeMode => ElementDelay(next) = 0)
    BY <2>1, DelayType
  <2>3. DueAt[next] = DueAt[next - 1] + ElementDelay(next)
    <3>1. next - 1 \in Nat /\ (next - 1) + 1 = next
      BY <2>1
    <3> QED BY <2>1, <3>1, Schedule
  <2>4. TypeOK'
    BY <1>2, <2>2 DEF CheckSignal, WalkInv, TypeOK
  <2>5. Position' /\ Stopping'
    BY <1>2, <2>1 DEF CheckSignal, WalkInv, TypeOK, Position, Stopping, UnderWay,
         SigintSignalled
  <2>6. Timing'
    BY <1>2, <2>2, <2>3 DEF CheckSignal, WalkInv, TypeOK, Timing, UnderWay
  <2>7. Clock' /\ TimerMeasured'
    BY <1>2, <2>2 DEF CheckSignal, WalkInv, TypeOK, Clock, TimerMeasured, NoBug
  <2> QED BY <1>0, <2>4, <2>5, <2>6, <2>7 DEF WalkInv
<1> QED BY <1>1, <1>2 DEF CheckSignal

(* sendPacket computes the sleep.                                          *)
LEMMA BeginPacketInv == WalkInv /\ BeginPacket => WalkInv'
<1> SUFFICES ASSUME WalkInv, BeginPacket PROVE WalkInv'
  OBVIOUS
<1> USE DEF optVars, statVars
<1>0. next \in Nat \ {0} /\ next - 1 \in Nat /\ (next - 1) + 1 = next
  BY DEF WalkInv, TypeOK
<1>1. TypeOK'
  <2>1. firstPacket' \in BOOLEAN /\ endless' \in BOOLEAN /\ failed' \in BOOLEAN
    BY DEF BeginPacket, WalkInv, TypeOK
  <2>2. Difference \in Nat
    BY DEF WalkInv, TypeOK, Timing, Difference
  <2>3. tStart' \in Nat
    BY DEF BeginPacket, WalkInv, TypeOK
  <2> QED BY <2>1, <2>2, <2>3 DEF BeginPacket, WalkInv, TypeOK
<1>2. Position' /\ Stopping'
  BY DEF BeginPacket, WalkInv, Position, Stopping, UnderWay
<1>3. Timing'
  BY <1>0, Schedule DEF BeginPacket, WalkInv, TypeOK, Timing, UnderWay, Difference
<1>4. TimerMeasured'
  BY DEF BeginPacket, WalkInv, TimerMeasured, NoBug
<1>5. Clock'
  <2>1. /\ Lateness(next) \in Nat /\ Lateness(next - 1) \in Nat
        /\ Lateness(next) >= Lateness(next - 1)
    BY <1>0, LatenessGrows, OutputAssumption
  <2>2. /\ tStart \in Nat /\ clock \in Nat /\ lastSentPacket \in Nat
        /\ backend = "netif" /\ pc = "packet"
    BY DEF BeginPacket, WalkInv, TypeOK
  <2>3. tStart' <= clock /\ clock - tStart'
          \in lastSentPacket .. lastSentPacket + Lateness(next - 1)
    <3>1. CASE firstPacket
      <4>1. tStart' = clock /\ lastSentPacket = 0
        BY <2>2, <3>1 DEF BeginPacket, WalkInv, Clock
      <4> QED BY <2>1, <2>2, <4>1
    <3>2. CASE ~firstPacket
      <4>1. tStart' = tStart
        BY <3>2 DEF BeginPacket
      <4> QED BY <2>2, <3>2, <4>1 DEF WalkInv, Clock
    <3> QED BY <3>1, <3>2
  <2>4. ~firstPacket' /\ UNCHANGED <<clock, lastSentPacket, next, backend>> /\ tStart' \in Nat
    BY <2>2 DEF BeginPacket
  <2>5. CASE pc' = "sendto"
    <3> DEFINE l == Lateness(next - 1)
               m == Lateness(next)
               d == clock - tStart'
    <3>0. l \in Nat /\ m \in Nat /\ m >= l /\ d \in lastSentPacket .. lastSentPacket + l
      BY <2>1, <2>3
    <3> HIDE DEF l, m, d
    <3>2. d \in lastSentPacket .. lastSentPacket + m
      BY <2>2, <3>0
    <3>1. clock - tStart' \in lastSentPacket .. lastSentPacket + Lateness(next)
      BY <3>2 DEF m, d
    <3> QED BY <2>3, <2>4, <2>5, <3>1 DEF Clock
  <2>6. CASE pc' = "sleep"
    BY <1>0, <2>1, <2>2, <2>3, <2>4, <2>6 DEF Clock
  <2> QED BY <2>5, <2>6 DEF BeginPacket
<1>6. SentInOrder' /\ Punctual' /\ StopsAfterElement'
  BY NothingSent DEF BeginPacket, WalkInv, Clock
<1> QED BY <1>1, <1>2, <1>3, <1>4, <1>5, <1>6 DEF WalkInv

(* tcppump::Sleep.                                                         *)
LEMMA SleepInv == WalkInv /\ Sleep => WalkInv'
<1> SUFFICES ASSUME WalkInv, Sleep PROVE WalkInv'
  OBVIOUS
<1> USE DEF optVars, statVars
<1>1. resolution > 0
  <2>1. sendTime # 0
    BY DEF Sleep, WalkInv, TypeOK, Timing
  <2> QED BY <2>1 DEF Sleep, WalkInv, TypeOK, Timing, TimerMeasured
<1>2. PICK d \in Sleeps(sleepTime) : clock' = clock + d
  BY <1>1 DEF Sleep
<1>3. /\ sleepTime \in Nat /\ resolution \in Nat \ {0} /\ Jitter \in Nat
      /\ next \in Nat \ {0} /\ next - 1 \in Nat /\ (next - 1) + 1 = next
  BY <1>1, OutputAssumption DEF WalkInv, TypeOK
<1>4. d \in sleepTime .. sleepTime + 2 * Jitter
  BY <1>3, SleepDuration
<1>5. Lateness(next - 1) \in Nat /\ Lateness(next) = Lateness(next - 1) + 2 * Jitter
  BY <1>3, LatenessGrows
<1>6. pc' = "sendto" /\ lastSentPacket' = lastSentPacket + sleepTime
  BY <1>1, <1>3 DEF Sleep
<1>7. TypeOK'
  BY <1>2, <1>3, <1>4, <1>6 DEF Sleep, WalkInv, TypeOK
<1>8. Position' /\ Stopping'
  BY <1>6 DEF Sleep, WalkInv, Position, Stopping, UnderWay
<1>9. Timing' /\ TimerMeasured'
  BY <1>3, <1>6 DEF Sleep, WalkInv, TypeOK, Timing, TimerMeasured, UnderWay, NoBug
<1>10. Clock'
  BY <1>2, <1>3, <1>4, <1>5, <1>6, SMTT(30) DEF Sleep, WalkInv, TypeOK, Timing, Clock
<1>11. SentInOrder' /\ Punctual' /\ StopsAfterElement'
  BY NothingSent DEF Sleep
<1> QED BY <1>7, <1>8, <1>9, <1>10, <1>11 DEF WalkInv

(* sendto and write.                                                       *)
LEMMA SendToInv == WalkInv /\ SendTo => WalkInv'
<1> SUFFICES ASSUME WalkInv, SendTo PROVE WalkInv'
  OBVIOUS
<1> USE DEF optVars, netVars
<1>0. /\ next \in Nat \ {0} /\ next' = next + 1 /\ next' - 1 = next /\ next - 1 \in Nat
      /\ UnderWay /\ next <= Total /\ Total \in Nat
      /\ wire \in Seq(Nat) /\ sentAt \in Seq(Nat)
      /\ sendTime \in Nat /\ clock \in Nat
  BY TotalType DEF SendTo, WalkInv, TypeOK, Position, UnderWay
<1> DEFINE t == IF pc = "sendto" THEN clock ELSE sendTime
<1>1. /\ sentAt' = Append(sentAt, t) /\ wire' = Append(wire, next)
      /\ t \in Nat /\ (pc = "sendto" \/ backend = "file")
  BY <1>0 DEF SendTo
<1> HIDE DEF t
<1>2. TypeOK'
  <2>1. LengthOf(next) \in Nat
    BY <1>0, TotalType, PassIndexType
  <2>2. endless' \in BOOLEAN /\ firstPacket' \in BOOLEAN /\ failed' \in BOOLEAN
    BY DEF SendTo, WalkInv, TypeOK
  <2>3. wire' \in Seq(Nat) /\ sentAt' \in Seq(Nat)
    BY <1>0, <1>1
  <2> QED BY <1>0, <2>1, <2>2, <2>3 DEF SendTo, WalkInv, TypeOK
<1>3. Position'
  BY <1>0 DEF SendTo, WalkInv, Position, UnderWay
<1>4. SentInOrder'
  BY <1>0, <1>1 DEF WalkInv, SentInOrder
<1>5. Timing'
  BY <1>0 DEF SendTo, WalkInv, Timing, UnderWay
<1>6. TimerMeasured'
  BY DEF SendTo, WalkInv, TimerMeasured, NoBug
<1>7. Clock'
  <2>1. CASE backend = "file"
    BY <2>1 DEF SendTo, Clock
  <2>2. CASE backend = "netif" /\ pc = "sendto"
    BY <1>0, <2>2 DEF SendTo, WalkInv, Clock
  <2> QED BY <1>1, <2>1, <2>2 DEF WalkInv, TypeOK
<1>8. Stopping' /\ StopsAfterElement'
  <2> SUFFICES ASSUME sigStatus' > 0 PROVE Stopping' /\ StopsAfterElement'
    BY DEF Stopping, StopsAfterElement
  <2>1. sigStatus > 0 /\ UNCHANGED <<sigStatus, atSigint>> /\ ~UnderWay'
    BY DEF SendTo, UnderWay
  <2>2. /\ atSigint \in 1 .. next /\ (next > atSigint => ~IsHead(next))
        /\ \A n \in atSigint + 1 .. next - 1 : ~IsHead(n)
    BY <1>0, <2>1 DEF WalkInv, Stopping, StopsAfterElement
  <2>3. ASSUME NEW n \in atSigint + 1 .. next PROVE ~IsHead(n)
    <3>1. n = next \/ n \in atSigint + 1 .. next - 1
      BY <1>0, <2>2
    <3> QED BY <1>0, <2>2, <3>1
  <2> QED BY <1>0, <2>1, <2>2, <2>3 DEF Stopping, StopsAfterElement
<1>9. Punctual'
  <2> SUFFICES ASSUME NEW i \in DOMAIN sentAt'
               PROVE  LET due == DueAt[wire'[i]] IN
                      IF backend' = "file" THEN sentAt'[i] = due
                      ELSE sentAt'[i] - tStart' \in due .. due + 2 * Jitter * i
    BY DEF Punctual
  <2>0. UNCHANGED <<backend, tStart>>
    BY DEF SendTo
  <2>1. CASE i = next
    <3>1. sentAt'[i] = t /\ wire'[i] = next
      BY <1>0, <1>1, <2>1 DEF WalkInv, SentInOrder
    <3>2. sendTime = DueAt[next]
      BY <1>0 DEF WalkInv, Timing
    <3>3. CASE backend = "file"
      BY <1>1, <2>0, <3>1, <3>2, <3>3 DEF WalkInv, Timing, t
    <3>4. CASE backend # "file"
      <4>1. pc = "sendto" /\ backend = "netif" /\ t = clock
        BY <1>1, <3>4 DEF WalkInv, TypeOK, t
      <4>2. clock - tStart \in sendTime .. sendTime + Lateness(next)
        BY <4>1 DEF WalkInv, Clock, Timing
      <4> QED BY <2>0, <2>1, <3>1, <3>2, <3>4, <4>1, <4>2 DEF Lateness
    <3> QED BY <3>3, <3>4
  <2>2. CASE i # next
    <3>1. i \in DOMAIN sentAt /\ sentAt'[i] = sentAt[i] /\ wire'[i] = wire[i]
      BY <1>0, <1>1, <2>2 DEF WalkInv, SentInOrder
    <3> QED BY <2>0, <3>1 DEF WalkInv, Punctual
  <2> QED BY <2>1, <2>2
<1> QED BY <1>2, <1>3, <1>4, <1>5, <1>6, <1>7, <1>8, <1>9 DEF WalkInv

(* The next fragment, or the next list element.                            *)
LEMMA AdvanceInv == WalkInv /\ Advance => WalkInv'
<1> SUFFICES ASSUME WalkInv, Advance PROVE WalkInv'
  OBVIOUS
<1> USE DEF optVars, netVars, statVars
<1>0. SentInOrder' /\ Punctual' /\ StopsAfterElement'
  BY NothingSent DEF Advance
<1>1. /\ next \in Nat \ {0} /\ next - 1 \in Nat /\ (next - 1) + 1 = next
      /\ Total \in Nat /\ Len(Lengths) > 0
  BY TotalType DEF Advance, WalkInv, TypeOK, Position
<1>2. TypeOK'
  BY DEF Advance, WalkInv, TypeOK
<1>3. Clock' /\ TimerMeasured'
  BY DEF Advance, WalkInv, Clock, TimerMeasured, NoBug
<1>4. CASE IsHead(next)
  BY <1>0, <1>1, <1>2, <1>3, <1>4
     DEF Advance, WalkInv, Position, Timing, Stopping, UnderWay
<1>5. CASE ~IsHead(next)
  <2>1. next <= Total
    BY <1>1, <1>5, FirstIsHead DEF WalkInv, Position
  <2>2. DueAt[next] = DueAt[next - 1]
    <3>1. DueAt[(next - 1) + 1] = DueAt[next - 1] + 0 /\ DueAt[next - 1] \in Nat
      BY <1>1, <1>5, Schedule
    <3> QED BY <1>1, <3>1
  <2>3. Timing'
    BY <1>1, <1>5, <2>2 DEF Advance, WalkInv, Timing, UnderWay
  <2>4. Position' /\ Stopping'
    BY <1>1, <1>5, <2>1 DEF Advance, WalkInv, Position, Stopping, UnderWay
  <2> QED BY <1>0, <1>2, <1>3, <2>3, <2>4 DEF WalkInv
<1> QED BY <1>4, <1>5

(* An error of sendto or write, and the exception.                         *)
LEMMA ErrorInv == WalkInv /\ (SendError \/ Throw) => WalkInv'
<1> SUFFICES ASSUME WalkInv, SendError \/ Throw PROVE WalkInv'
  OBVIOUS
<1> USE DEF optVars, netVars, statVars
<1>0. SentInOrder' /\ Punctual' /\ StopsAfterElement'
  BY NothingSent DEF SendError, Throw
<1>1. failed' = TRUE /\ pc' \in {"throw", "done"} /\ Len(Lengths) > 0
  BY DEF SendError, Throw, WalkInv, TypeOK, Position
<1>2. TypeOK'
  <2>1. failed' \in BOOLEAN
    BY <1>1
  <2> QED BY <1>1, <2>1 DEF SendError, Throw, WalkInv, TypeOK
<1>3. Position' /\ Stopping'
  BY <1>1 DEF SendError, Throw, WalkInv, Position, Stopping, UnderWay
<1>4. Timing' /\ TimerMeasured'
  BY <1>1 DEF SendError, Throw, WalkInv, Timing, TimerMeasured, UnderWay, NoBug
<1>5. Clock'
  BY <1>1 DEF SendError, Throw, WalkInv, Clock
<1> QED BY <1>0, <1>2, <1>3, <1>4, <1>5 DEF WalkInv

(* Ctrl+C.                                                                 *)
LEMMA SigintInv == WalkInv /\ Sigint => WalkInv'
<1> SUFFICES ASSUME WalkInv, Sigint PROVE WalkInv'
  OBVIOUS
<1> USE DEF optVars, netVars, statVars
<1>0. next \in Nat \ {0} /\ MaxSigint \in Nat
  BY OutputAssumption DEF WalkInv, TypeOK
<1>1. TypeOK'
  BY <1>0 DEF Sigint, WalkInv, TypeOK
<1>2. Position' /\ SentInOrder' /\ Timing' /\ Clock' /\ TimerMeasured' /\ Punctual'
  BY DEF Sigint, WalkInv, Position, SentInOrder, Timing, Clock, TimerMeasured, Punctual,
         UnderWay, NoBug
<1>3. CASE sigStatus = 0
  BY <1>0, <1>1, <1>2, <1>3 DEF Sigint, WalkInv, Stopping, StopsAfterElement, UnderWay
<1>4. CASE sigStatus # 0
  BY <1>0, <1>1, <1>2, <1>4
     DEF Sigint, WalkInv, TypeOK, Stopping, StopsAfterElement, UnderWay
<1> QED BY <1>3, <1>4

(* Every step of the walk keeps the invariant.                             *)
THEOREM WalkInvariance == Spec => []WalkInv
<1>1. Init => WalkInv
  BY WalkInit
<1>2. WalkInv /\ [Next]_vars => WalkInv'
  <2> SUFFICES ASSUME WalkInv, [Next]_vars PROVE WalkInv'
    OBVIOUS
  <2>1. CASE UNCHANGED vars
    BY <2>1 DEF vars, optVars, netVars, statVars, WalkInv, TypeOK, Position, SentInOrder,
         Timing, Clock, TimerMeasured, Stopping, Punctual, StopsAfterElement, UnderWay, NoBug
  <2>2. CASE Walk
    BY <2>2, PrepareInv, CheckInv, BeginPacketInv, SleepInv, SendToInv, AdvanceInv, ErrorInv
       DEF Walk
  <2>3. CASE Sigint
    BY <2>3, SigintInv
  <2> QED BY <2>1, <2>2, <2>3 DEF Next, Over
<1> QED BY <1>1, <1>2, PTL DEF Spec

-----------------------------------------------------------------------------
(* The state of the walk has its types.                                    *)
THEOREM WalkTyped == Spec => []TypeOK
<1>1. WalkInv => TypeOK
  BY DEF WalkInv
<1> QED BY <1>1, WalkInvariance, PTL

(* No packet leaves before it is due, none is late by more than the jitter *)
(* of the sleeps so far, and the time stamps of a file are exact.          *)
THEOREM WalkPunctual == Spec => []Punctual
<1>1. WalkInv => Punctual
  BY DEF WalkInv
<1> QED BY <1>1, WalkInvariance, PTL

(* tcppump::Sleep is only called once the timer's resolution is known:     *)
(* delays exist only in the real-time mode, which prepare measures it for. *)
THEOREM TimerMeasuredBeforeSleep == Spec => []NoBug
<1>1. WalkInv => NoBug
  BY DEF WalkInv, TimerMeasured
<1> QED BY <1>1, WalkInvariance, PTL

(* After Ctrl+C no list element is begun, in this pass or the next.        *)
THEOREM CtrlCStops == Spec => []StopsAfterElement
<1>1. WalkInv => StopsAfterElement
  BY DEF WalkInv
<1> QED BY <1>1, WalkInvariance, PTL

-----------------------------------------------------------------------------
(* The refinement.  Walking to a packet accepts it, sendto and write       *)
(* transmit it, an error fails the job, and leaving the loop closes it.    *)

(* What was sent last is the packet before next.                           *)
LEMMA LastSentIsPrevious ==
  ASSUME WalkInv
  PROVE  Abstract!LastSent = next - 1
<1>1. next \in Nat \ {0} /\ wire \in Seq(Nat) /\ Len(wire) = next - 1
  BY DEF WalkInv, TypeOK, SentInOrder
<1>2. CASE wire = <<>>
  BY <1>1, <1>2 DEF Abstract!LastSent
<1>3. CASE wire # <<>>
  <2>1. Len(wire) \in 1 .. next - 1
    BY <1>1, <1>3
  <2>2. wire[Len(wire)] = next - 1
    BY <1>1, <2>1 DEF WalkInv, SentInOrder
  <2> QED BY <1>3, <2>2 DEF Abstract!LastSent
<1> QED BY <1>2, <1>3

(* The walk begins with nothing accepted.                                  *)
LEMMA WalkInitRefines == Init => Abstract!AbsInit
<1> SUFFICES ASSUME Init PROVE Abstract!AbsInit
  OBVIOUS
<1>1. (sigStatus > 0) \in BOOLEAN /\ (pc \notin {"done", "bug"}) = TRUE
  BY DEF Init
<1>2. (IF failed \/ pc \in {"packet", "sleep", "sendto"} THEN next ELSE next - 1) = 0
  BY DEF Init
<1> QED BY <1>1, <1>2 DEF Init, Abstract!AbsInit

(* Every step of the walk is a step of the abstract job, or none.          *)
LEMMA WalkStepRefines ==
  ASSUME WalkInv, [Next]_vars
  PROVE  [Abstract!AbsNext]_(Abstract!absVars)
<1> USE DEF optVars, netVars, statVars
<1>0. /\ next \in Nat \ {0} /\ Total \in Nat /\ Abstract!LastSent = next - 1
      /\ (failed => pc \in {"throw", "done"}) /\ (pc = "throw" => failed)
      /\ pc # "bug" /\ (UnderWay => next <= Total) /\ next <= Total + 1
  BY LastSentIsPrevious, TotalType DEF WalkInv, TypeOK, Position, TimerMeasured, NoBug
<1>1. CASE Prepare \/ BeginPacket \/ Over \/ UNCHANGED vars
  BY <1>0, <1>1 DEF Prepare, BeginPacket, Over, vars, Abstract!absVars
<1>2. CASE Sleep
  <2>1. pc' # "bug" /\ WalkInv'
    BY <1>2, SleepInv DEF WalkInv, TimerMeasured, NoBug
  <2> QED BY <1>0, <1>2, <2>1 DEF Sleep, Abstract!absVars
<1>3. CASE CheckSignal
  <2>1. CASE pc' = "done"
    BY <1>0, <1>3, <2>1 DEF CheckSignal, SigintSignalled, Abstract!AbsNext, Abstract!Close
  <2>2. CASE pc' = "packet"
    BY <1>0, <1>3, <2>2 DEF CheckSignal, Abstract!AbsNext, Abstract!Accept
  <2> QED BY <1>3, <2>1, <2>2 DEF CheckSignal
<1>4. CASE Advance
  BY <1>0, <1>4, AdvanceInv
     DEF Advance, WalkInv, Position, UnderWay, Abstract!AbsNext, Abstract!Accept, Abstract!absVars
<1>5. CASE SendTo
  BY <1>0, <1>5 DEF SendTo, UnderWay, Abstract!AbsNext, Abstract!Transmit
<1>6. CASE SendError
  BY <1>0, <1>6 DEF SendError, Abstract!AbsNext, Abstract!Fail
<1>7. CASE Throw
  BY <1>0, <1>7 DEF Throw, Abstract!AbsNext, Abstract!Close
<1>8. CASE Sigint
  BY <1>0, <1>8 DEF Sigint, WalkInv, TypeOK, Abstract!AbsNext, Abstract!Interrupt
<1> QED BY <1>1, <1>2, <1>3, <1>4, <1>5, <1>6, <1>7, <1>8 DEF Next, Walk

(* The walk over list elements, fragments and passes implements the        *)
(* abstract job: order, no duplicates, no gaps, nothing after the end.     *)
THEOREM WalkImplementsTransmission == Spec => ImplementsTransmission
<1>1. Init => Abstract!AbsInit
  BY WalkInitRefines
<1>2. WalkInv /\ [Next]_vars => [Abstract!AbsNext]_(Abstract!absVars)
  BY WalkStepRefines
<1> QED BY <1>1, <1>2, WalkInvariance, PTL DEF Spec, ImplementsTransmission, Abstract!AbsSpec
=============================================================================
