----------------------------- MODULE SendQueue ------------------------------
(***************************************************************************)
(* The queued transmission of the Windows port (os/win32/interface.cpp):   *)
(* cJob owns a ring of cPcapSendQueue buffers.  The main thread, running   *)
(* cOutput::operator<<, fills the buffer at currSendQueueIn and passes it  *)
(* to a worker thread, which transmits the buffer at currSendQueueOut with *)
(* pcap_sendqueue_transmit.  Two counting semaphores pass the ownership of *)
(* the buffers; the console control handler, a third thread, reports       *)
(* Ctrl+C through a counter and an auto-reset event; ~cJob joins the       *)
(* worker, or terminates it.                                               *)
(***************************************************************************)
EXTENDS PacketStream, SequencesExt

CONSTANTS
  pcapMaxQueueSize,         \* linkspeed / 8
  sizeofPcapPkthdr,         \* sizeof (pcap_pkthdr)
  MAX_DOUBLE_TAGGED_PACKET, \* cEthernetPacket::MAX_DOUBLE_TAGGED_PACKET
  MaxSigint                 \* bound on the number of Ctrl+C events

ASSUME QueueAssumption ==
  /\ pcapMaxQueueSize \in Nat
  /\ sizeofPcapPkthdr \in Nat \ {0}
  /\ MAX_DOUBLE_TAGGED_PACKET \in Nat \ {0}
  /\ MaxSigint \in Nat

MAX_SEND_QUEUES == 3

(* prepareSendQueue is called with the numbers of all passes together;     *)
(* packetCnt = 0 stands for an endless loop.                               *)
packetCnt == PacketCnt * Repeat

totalBytes == TotalPacketBytes * Repeat

wholeNeededMemory ==
  IF packetCnt > 0 THEN packetCnt * sizeofPcapPkthdr + totalBytes
                   ELSE pcapMaxQueueSize

ManyQueues == wholeNeededMemory >= pcapMaxQueueSize

NumQueues == IF ManyQueues THEN MAX_SEND_QUEUES ELSE 1

QueueSize == IF ManyQueues THEN pcapMaxQueueSize ELSE wholeNeededMemory

Queues == 0 .. NumQueues - 1

VARIABLES
  main,         \* where the main thread is
  next,         \* number of the packet the main thread hands over next
  queues,       \* the packets in each cPcapSendQueue
  bytesQueued,  \* bytes in each queue, packet headers included
  packetBytes,  \* packetBytesQueued of each queue
  in, out,      \* currSendQueueIn, currSendQueueOut
  semSpace,     \* semSpaceAvail
  semData,      \* semDataAvail
  finished,     \* the wait for a free queue was ended by Ctrl+C
  sigStatus,    \* gSigIntStatus
  sigEvent,     \* sigintEvent, an auto-reset event
  handler,      \* where the console control handler is
  termEvent,    \* termEvent, an auto-reset event
  worker,       \* where the worker thread is
  sent,         \* packets of the current queue already transmitted
  snapshot,     \* the worker's locals sentPackets and sentBytes
  sentPackets,  \* cInterface::sentPackets
  sentBytes,    \* cInterface::sentBytes
  wire,         \* history: packets transmitted, in order
  failed        \* history: some transmit returned short

mainVars   == <<next, in, finished>>
queueVars  == <<queues, bytesQueued, packetBytes>>
signalVars == <<sigStatus, sigEvent, handler>>
workerVars == <<worker, out, sent, snapshot>>
statVars   == <<sentPackets, sentBytes, wire, failed>>
vars == <<main, mainVars, queueVars, semSpace, semData, signalVars, termEvent,
          workerVars, statVars>>

(* ReleaseSemaphore fails, and changes nothing, at the maximum count.      *)
Release(sem) == IF sem < MAX_SEND_QUEUES THEN sem + 1 ELSE sem

(* The semaphores' initial counts; the first queue is taken from the start.*)
AllSpaceAvail == MAX_SEND_QUEUES
InitialSpaceAvail == MAX_SEND_QUEUES - 1

Init ==
  /\ main = "check"
  /\ next = 1
  /\ queues = [q \in Queues |-> <<>>]
  /\ bytesQueued = [q \in Queues |-> 0]
  /\ packetBytes = [q \in Queues |-> 0]
  /\ in = 0 /\ out = 0
  /\ semSpace = InitialSpaceAvail
  /\ semData = 0
  /\ finished = FALSE
  \* a Ctrl+C before cJob created the event leaves the counter only
  /\ sigStatus \in {n \in 0 .. 1 : n <= MaxSigint}
  /\ sigEvent = FALSE
  /\ handler = "idle"
  /\ termEvent = FALSE
  /\ worker = "wait"
  /\ sent = 0
  /\ snapshot = [packets |-> 0, bytes |-> 0]
  /\ sentPackets = 0 /\ sentBytes = 0
  /\ wire = <<>>
  /\ failed = FALSE

-----------------------------------------------------------------------------
(* The main thread: cOutput::operator<< and cJob::addPacket.               *)

(* The flag is read before every list element and before every pass.  An   *)
(* endless walk has no last packet: past the bound it waits for Ctrl+C.    *)
CheckSignal ==
  /\ main = "check"
  /\ \/ /\ sigStatus > 0 \/ (Repeat # 0 /\ next > Total)
        /\ main' = "flush"
     \/ /\ sigStatus = 0 /\ next <= Total
        /\ main' = "add"
  /\ UNCHANGED <<mainVars, queueVars, semSpace, semData, signalVars, termEvent,
                 workerVars, statVars>>

(* Where the walk continues once packet n - 1 is handed over.              *)
Continue(n) == IF IsHead(n) THEN "check" ELSE "add"

(* pcap_sendqueue_queue refuses a packet that does not fit.                *)
Fits(q, n) == bytesQueued[q] + sizeofPcapPkthdr + LengthOf(n) <= QueueSize

(* No room for a further packet of the assumed maximum length?             *)
NearlyFullWithoutReserve(bytes) == bytes + sizeofPcapPkthdr >= pcapMaxQueueSize
NearlyFull(bytes) ==
  bytes + MAX_DOUBLE_TAGGED_PACKET + sizeofPcapPkthdr >= pcapMaxQueueSize

(* cPcapSendQueue::add: BUG_ON stops the process if the packet does not    *)
(* fit; otherwise the packet is queued, and a nearly full queue is passed  *)
(* to the worker.                                                          *)
AddPacket ==
  /\ main = "add"
  /\ IF ~Fits(in, next)
     THEN main' = "bug" /\ UNCHANGED <<next, queueVars, semData>>
     ELSE /\ queues' = [queues EXCEPT ![in] = Append(@, next)]
          /\ bytesQueued' = [bytesQueued EXCEPT
                               ![in] = @ + sizeofPcapPkthdr + LengthOf(next)]
          /\ packetBytes' = [packetBytes EXCEPT ![in] = @ + LengthOf(next)]
          /\ next' = next + 1
          /\ IF NearlyFull(bytesQueued'[in])
             THEN main' = "acquire" /\ semData' = Release(semData)
             ELSE main' = Continue(next + 1) /\ UNCHANGED semData
  /\ UNCHANGED <<in, finished, semSpace, signalVars, termEvent, workerVars,
                 statVars>>

(* The next position of the ring.                                          *)
MoveWithoutWrap(q) == q + 1
Move(q) == (q + 1) % NumQueues

(* The first handle of both waits of the main thread is the Ctrl+C event.  *)
IgnoreSigint == FALSE
SigintWakes == sigEvent

(* WaitForMultipleObjects on {sigEvent, semSpaceAvail}: the first signalled *)
(* object wins, and waiting on it resets the event or takes a count.       *)
AcquireQueue ==
  /\ main = "acquire"
  /\ \/ /\ SigintWakes
        /\ sigEvent' = FALSE /\ finished' = TRUE
        /\ UNCHANGED <<in, semSpace>>
     \/ /\ ~SigintWakes /\ semSpace > 0
        /\ semSpace' = semSpace - 1 /\ in' = Move(in)
        /\ UNCHANGED <<sigEvent, finished>>
  /\ main' = Continue(next)
  /\ UNCHANGED <<next, queueVars, semData, sigStatus, handler, termEvent,
                 workerVars, statVars>>

(* Is there still something to send?  The queue at in is not passed again  *)
(* if Ctrl+C ended the wait for the next one.                              *)
SomethingQueued == bytesQueued[in] > 0
SomethingToSend == ~finished /\ bytesQueued[in] > 0

(* ~cJob: pass on a partly filled queue, then tell the worker to end.      *)
BeginFlush ==
  /\ main = "flush"
  /\ semData' = IF SomethingToSend THEN Release(semData) ELSE semData
  /\ termEvent' = TRUE
  /\ main' = IF sigStatus > 0 THEN "grace" ELSE "join"
  /\ UNCHANGED <<mainVars, queueVars, semSpace, signalVars, workerVars, statVars>>

(* TerminateThread; a thread that has ended is left alone.                 *)
NotTerminated(w) == w
Terminated(w) == IF w = "done" THEN w ELSE "killed"

(* After Ctrl+C the worker has six seconds to end; then it is terminated.  *)
GraceEnds ==
  /\ main = "grace"
  /\ \/ worker = "done" /\ main' = "join" /\ UNCHANGED worker
     \/ worker # "done" /\ main' = "done" /\ worker' = Terminated(worker)
  /\ UNCHANGED <<mainVars, queueVars, semSpace, semData, signalVars, termEvent,
                 out, sent, snapshot, statVars>>

(* WaitForMultipleObjects on {sigEvent, workerThread}.                     *)
Join ==
  /\ main = "join"
  /\ \/ /\ SigintWakes
        /\ sigEvent' = FALSE
        /\ worker' = Terminated(worker)
     \/ /\ ~SigintWakes /\ worker = "done"
        /\ UNCHANGED <<sigEvent, worker>>
  /\ main' = "done"
  /\ UNCHANGED <<mainVars, queueVars, semSpace, semData, sigStatus, handler,
                 termEvent, out, sent, snapshot, statVars>>

-----------------------------------------------------------------------------
(* The worker: cJob::thread and cPcapSendQueue::flush.                     *)

(* A process that ran into BUG_ON, or has returned from flushSendQueue,    *)
(* takes no further step of the job.                                       *)
Running == main \notin {"done", "bug"}

(* WaitForMultipleObjects on {semDataAvail, termEvent}: data first.        *)
TerminateFirst == termEvent
DataFirst == termEvent /\ semData = 0

WorkerWake ==
  /\ Running /\ worker = "wait"
  /\ \/ /\ semData > 0
        /\ semData' = semData - 1
        /\ snapshot' = [packets |-> Len(queues[out]), bytes |-> packetBytes[out]]
        /\ sent' = 0
        /\ worker' = "transmit"
        /\ UNCHANGED termEvent
     \/ /\ DataFirst
        /\ termEvent' = FALSE
        /\ worker' = "done"
        /\ UNCHANGED <<semData, snapshot, sent>>
  /\ UNCHANGED <<main, mainVars, queueVars, semSpace, signalVars, out, statVars>>

(* pcap_sendqueue_transmit puts the packets of the queue on the wire.      *)
WorkerTransmit ==
  /\ Running /\ worker = "transmit"
  /\ sent < Len(queues[out])
  /\ wire' = Append(wire, queues[out][sent + 1])
  /\ sent' = sent + 1
  /\ UNCHANGED <<main, mainVars, queueVars, semSpace, semData, signalVars,
                 termEvent, worker, out, snapshot, sentPackets, sentBytes, failed>>

(* flush compares the bytes transmitted with the bytes queued.             *)
AlwaysSuccess == TRUE
Success == sent = Len(queues[out])

(* flush: a transmit that returns early has failed; reset in either case.  *)
(* reset clears bytesQueued and packetsQueued but not packetBytesQueued.   *)
WorkerFlushed ==
  /\ Running /\ worker = "transmit"
  /\ worker' = IF Success THEN "bytes" ELSE "advance"
  /\ failed' = (failed \/ ~Success)
  /\ queues' = [queues EXCEPT ![out] = <<>>]
  /\ bytesQueued' = [bytesQueued EXCEPT ![out] = 0]
  /\ UNCHANGED <<main, mainVars, packetBytes, semSpace, semData, signalVars,
                 termEvent, out, sent, snapshot, sentPackets, sentBytes, wire>>

(* The two statistics are updated one after the other; TerminateThread may *)
(* fall between them.                                                      *)
WorkerCountBytes ==
  /\ Running /\ worker = "bytes"
  /\ sentBytes' = sentBytes + snapshot.bytes
  /\ worker' = "packets"
  /\ UNCHANGED <<main, mainVars, queueVars, semSpace, semData, signalVars,
                 termEvent, out, sent, snapshot, sentPackets, wire, failed>>

WorkerCountPackets ==
  /\ Running /\ worker = "packets"
  /\ sentPackets' = sentPackets + snapshot.packets
  /\ worker' = "advance"
  /\ UNCHANGED <<main, mainVars, queueVars, semSpace, semData, signalVars,
                 termEvent, out, sent, snapshot, sentBytes, wire, failed>>

KeepQueue ==
  /\ Running /\ worker = "advance"
  /\ out' = Move(out)
  /\ worker' = "wait"
  /\ UNCHANGED <<main, mainVars, queueVars, semSpace, semData, signalVars,
                 termEvent, sent, snapshot, statVars>>

(* Move the out-pointer, give the queue back.                              *)
WorkerAdvance ==
  /\ Running /\ worker = "advance"
  /\ out' = Move(out)
  /\ semSpace' = Release(semSpace)
  /\ worker' = "wait"
  /\ UNCHANGED <<main, mainVars, queueVars, semData, signalVars, termEvent,
                 sent, snapshot, statVars>>

-----------------------------------------------------------------------------
(* The console control handler: count first, then set the event.           *)
Sigint ==
  /\ Running /\ handler = "idle" /\ sigStatus < MaxSigint
  /\ sigStatus' = sigStatus + 1
  /\ handler' = "set"
  /\ UNCHANGED <<main, mainVars, queueVars, semSpace, semData, sigEvent,
                 termEvent, workerVars, statVars>>

SetSigintEvent ==
  /\ Running /\ handler = "set"
  /\ sigEvent' = TRUE
  /\ handler' = "idle"
  /\ UNCHANGED <<main, mainVars, queueVars, semSpace, semData, sigStatus,
                 termEvent, workerVars, statVars>>

(* The job is over; nothing of it moves any more.                          *)
Over == ~Running /\ UNCHANGED vars

Main == CheckSignal \/ AddPacket \/ AcquireQueue \/ BeginFlush \/ GraceEnds \/ Join

Worker == WorkerWake \/ WorkerTransmit \/ WorkerFlushed \/ WorkerCountBytes
            \/ WorkerCountPackets \/ WorkerAdvance

Handler == Sigint \/ SetSigintEvent

Next == Main \/ Worker \/ Handler \/ Over

Spec == Init /\ [][Next]_vars

(* The main thread and the handler, once called, keep running.  Nothing is *)
(* assumed of the worker, which may hang in the packet driver, nor of the  *)
(* user, who need not press Ctrl+C.                                        *)
MainFairness == WF_vars(Main) /\ WF_vars(SetSigintEvent)

FairSpec == Spec /\ MainFairness

-----------------------------------------------------------------------------
(* Properties                                                              *)

TypeOK ==
  /\ main \in {"check", "add", "acquire", "flush", "grace", "join", "done", "bug"}
  /\ next \in Nat \ {0}
  /\ queues \in [Queues -> Seq(Nat)]
  /\ bytesQueued \in [Queues -> Nat]
  /\ packetBytes \in [Queues -> Nat]
  /\ in \in Queues /\ out \in Queues
  /\ semSpace \in 0 .. MAX_SEND_QUEUES
  /\ semData \in 0 .. MAX_SEND_QUEUES
  /\ finished \in BOOLEAN
  /\ sigStatus \in Nat
  /\ sigEvent \in BOOLEAN
  /\ handler \in {"idle", "set"}
  /\ termEvent \in BOOLEAN
  /\ worker \in {"wait", "transmit", "bytes", "packets", "advance", "done", "killed"}
  /\ sent \in Nat
  /\ snapshot \in [packets : Nat, bytes : Nat]
  /\ sentPackets \in Nat /\ sentBytes \in Nat
  /\ wire \in Seq(Nat)
  /\ failed \in BOOLEAN

WorkerBusy == worker \in {"transmit", "bytes", "packets", "advance"}

(* Queues passed to the worker and not yet given back.                     *)
Pending == semData + (IF WorkerBusy THEN 1 ELSE 0)

Handed == {(out + k) % NumQueues : k \in 0 .. Pending - 1}

(* "semSpaceAvail: at least one slot empty" (interface.cpp:99): the queue  *)
(* cPcapSendQueue::add writes to does not belong to the worker, so that    *)
(* neither thread sees the other's half-done update of it.                 *)
SlotEmpty == main = "add" => in \notin Handed

(* "semDataAvail: at least one slot full" (interface.cpp:100): every queue *)
(* the worker is woken for holds a packet, whatever Ctrl+C interrupted.    *)
SlotFull == (worker = "wait" /\ semData > 0) => queues[out] # <<>>

(* BUG_ON in cPcapSendQueue::add, "can only fail if buffer calculation is  *)
(* wrong" (interface.cpp:62): a queue has room for every packet.           *)
NoBug == main # "bug"

(* What the three threads maintain between them for SlotEmpty and NoBug,   *)
(* in a ring of several queues whose packets are all list elements.        *)

Sending == main \in {"check", "add", "acquire", "flush"}

(* The main thread owns the queue at in.                                   *)
Holding == main \in {"check", "add", "flush"} /\ ~finished

(* The worker is told to end after the last hand-over only, and Ctrl+C is  *)
(* counted before it is noticed, so that it ends the walk at once.         *)
Shutdown ==
  /\ Sending => ~termEvent /\ worker \notin {"done", "killed"}
  /\ (sigEvent \/ handler = "set" \/ finished) => sigStatus > 0
  /\ finished => main \notin {"add", "acquire"}

(* Every queue is either free, handed over, or held by the main thread.    *)
RingShape ==
  Sending =>
    \/ Holding /\ in = (out + Pending) % NumQueues /\ semSpace + Pending = 2
    \/ ~Holding /\ Move(in) = (out + Pending) % NumQueues /\ semSpace + Pending = 3

(* A queue that is neither handed over nor held is empty, the one held has *)
(* room for another packet.                                                *)
RingRoom ==
  Sending =>
    /\ \A q \in Queues : (q \notin Handed /\ ~(Holding /\ q = in)) => bytesQueued[q] = 0
    /\ worker \in {"bytes", "packets", "advance"} => bytesQueued[out] = 0
    /\ Holding => bytesQueued[in] = 0 \/ ~NearlyFull(bytesQueued[in])

(* Jobs that fill the ring, of packets no longer than the assumed maximum, *)
(* with a look at the Ctrl+C flag before every packet.                     *)
RingJob ==
  /\ ManyQueues
  /\ Heads = 1 .. Len(Lengths)
  /\ \A i \in 1 .. Len(Lengths) : Lengths[i] <= MAX_DOUBLE_TAGGED_PACKET
  /\ MAX_DOUBLE_TAGGED_PACKET + sizeofPcapPkthdr <= pcapMaxQueueSize

RingInv == Shutdown /\ RingShape /\ RingRoom /\ NoBug

(* The packets counted are packets sent, and all of them once the worker   *)
(* has ended by itself and no transmit failed.                             *)
PacketStatistic ==
  /\ sentPackets <= Len(wire)
  /\ (worker = "done" /\ ~failed) => sentPackets = Len(wire)

(* The statistic is read, and the handles are closed, only after the       *)
(* worker has stopped (~cJob).                                             *)
WorkerStopped == main = "done" => worker \in {"done", "killed"}

(* Ctrl+C ends the job, although nothing says that the driver ever returns *)
(* from a transmit: "If the event has occurred we can gracefully stop      *)
(* packet transmission jobs." (signal.cpp:31)                              *)
CtrlCEndsJob == (sigStatus > 0) ~> ~Running

(* A job that is not endless ends, without any Ctrl+C and although         *)
(* transmits fail, if the driver returns from each of them                 *)
(* (interface.cpp:217: a queue is given back in either case).              *)
JobEnds == WF_vars(Worker) => <>~Running

Abstract == INSTANCE Transmission WITH
  Demand      <- Total,
  Endless     <- Repeat = 0,
  accepted    <- next - 1,
  interrupted <- sigStatus > 0,
  open        <- Running

(* The two threads, the ring and the semaphores send what a single thread  *)
(* without any buffer would have sent.                                     *)
ImplementsTransmission == Abstract!AbsSpec
=============================================================================
