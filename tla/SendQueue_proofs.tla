-------------------------- MODULE SendQueue_proofs --------------------------
(***************************************************************************)
(* Theorems about the send queue of the Windows port, for every packet     *)
(* list, every queue size and any number of Ctrl+C events.                 *)
(***************************************************************************)
EXTENDS SendQueue, TLAPS

-----------------------------------------------------------------------------
(* Lemmas about the packet stream and the ring.                            *)

(* A packet of a non-empty list has a length: PassIndex stays in the list. *)
LEMMA LengthType ==
  ASSUME Len(Lengths) > 0, NEW n \in Nat \ {0}
  PROVE  LengthOf(n) \in Nat \ {0}
<1>1. Len(Lengths) \in Nat /\ Lengths \in Seq(Nat \ {0})
  BY StreamAssumption
<1>2. PassIndex(n) \in 1 .. Len(Lengths)
  BY <1>1 DEF PassIndex
<1> QED BY <1>1, <1>2 DEF LengthOf

(* The ring has one or three queues.                                       *)
LEMMA RingSize == NumQueues \in {1, 3} /\ Queues = 0 .. NumQueues - 1
BY DEF NumQueues, Queues, MAX_SEND_QUEUES

(* Moving a pointer keeps it in the ring.                                  *)
LEMMA MoveType == ASSUME NEW q \in Queues PROVE Move(q) \in Queues
BY RingSize DEF Move

-----------------------------------------------------------------------------
(* Type correctness.  A packet is only handed over from a non-empty list.  *)

NonEmptyList == main \in {"add", "acquire"} => Len(Lengths) > 0

TypeInv == TypeOK /\ NonEmptyList

(* The types hold when the job is created.                                 *)
LEMMA TypeInit == Init => TypeInv
<1> SUFFICES ASSUME Init PROVE TypeInv
  OBVIOUS
<1>1. 0 \in Queues
  BY RingSize
<1>2. MaxSigint \in Nat
  BY QueueAssumption
<1> QED BY <1>1, <1>2
  DEF Init, TypeInv, TypeOK, NonEmptyList, InitialSpaceAvail, MAX_SEND_QUEUES

(* Every step of every thread keeps the types.                             *)
LEMMA TypeStep == TypeInv /\ [Next]_vars => TypeInv'
<1> SUFFICES ASSUME TypeInv, [Next]_vars PROVE TypeInv'
  OBVIOUS
<1> USE DEF TypeInv, MAX_SEND_QUEUES, Release
<1>1. CASE CheckSignal
  <2>1. next <= Total => Len(Lengths) > 0
    BY StreamAssumption DEF Total, TypeOK
  <2> QED BY <1>1, <2>1 DEF CheckSignal, TypeOK, NonEmptyList, mainVars,
        queueVars, signalVars, workerVars, statVars
<1>2. CASE AddPacket
  <2>1. LengthOf(next) \in Nat \ {0} /\ sizeofPcapPkthdr \in Nat /\ Len(Lengths) > 0
    BY <1>2, LengthType, QueueAssumption DEF AddPacket, TypeOK, NonEmptyList
  <2>2. main' \in {"check", "add", "acquire", "bug"}
    BY <1>2 DEF AddPacket, Continue
  <2>3. next' = next \/ next' = next + 1
    BY <1>2, Zenon DEF AddPacket
  <2>4. next' \in Nat \ {0}
    BY <2>3 DEF TypeOK
  <2>5. semData' = semData \/ semData' = Release(semData)
    BY <1>2, Zenon DEF AddPacket
  <2>7. semData' \in 0 .. 3
    BY <2>5 DEF TypeOK
  <2>8. \/ queues' = queues
        \/ queues' = [queues EXCEPT ![in] = Append(queues[in], next)]
    BY <1>2, Zenon DEF AddPacket, queueVars
  <2>9. queues' \in [Queues -> Seq(Nat)]
    <3>1. queues[in] \in Seq(Nat) /\ next \in Nat
      BY DEF TypeOK
    <3>2. Append(queues[in], next) \in Seq(Nat)
      BY <3>1
    <3> QED BY <2>8, <3>2 DEF TypeOK
  <2>10. \/ bytesQueued' = bytesQueued
         \/ bytesQueued' = [bytesQueued EXCEPT
                        ![in] = bytesQueued[in] + sizeofPcapPkthdr + LengthOf(next)]
    BY <1>2, Zenon DEF AddPacket, queueVars
  <2>11. bytesQueued' \in [Queues -> Nat]
    <3>1. bytesQueued[in] + sizeofPcapPkthdr + LengthOf(next) \in Nat
      BY <2>1, SMTT(30) DEF TypeOK
    <3> QED BY <2>10, <3>1 DEF TypeOK
  <2>12. \/ packetBytes' = packetBytes
         \/ packetBytes' = [packetBytes EXCEPT ![in] = packetBytes[in] + LengthOf(next)]
    BY <1>2, Zenon DEF AddPacket, queueVars
  <2>13. packetBytes' \in [Queues -> Nat]
    BY <2>1, <2>12, SMTT(30) DEF TypeOK
  <2>6. UNCHANGED <<in, finished, semSpace, signalVars, termEvent, workerVars,
                    statVars>>
    BY <1>2 DEF AddPacket
  <2> QED BY <2>1, <2>2, <2>4, <2>6, <2>7, <2>9, <2>11, <2>13
        DEF TypeOK, NonEmptyList, signalVars, workerVars, statVars
<1>3. CASE AcquireQueue
  <2>1. Move(in) \in Queues
    BY MoveType DEF TypeOK
  <2>2. in' \in Queues /\ (semSpace' = semSpace \/ (semSpace > 0 /\ semSpace' = semSpace - 1))
    BY <1>3, <2>1 DEF AcquireQueue, TypeOK
  <2>3. semSpace' \in 0 .. 3
    BY <2>2, SMTT(30) DEF TypeOK
  <2>4. sigEvent' \in BOOLEAN /\ finished' \in BOOLEAN
    BY <1>3, Zenon DEF AcquireQueue, TypeOK
  <2>5. main' \in {"check", "add"} /\ NonEmptyList'
    BY <1>3 DEF AcquireQueue, Continue, NonEmptyList
  <2>6. UNCHANGED <<next, queueVars, semData, sigStatus, handler, termEvent,
                    workerVars, statVars>>
    BY <1>3 DEF AcquireQueue
  <2> QED BY <2>2, <2>3, <2>4, <2>5, <2>6 DEF TypeOK, queueVars, workerVars, statVars
<1>4. CASE BeginFlush
  BY <1>4 DEF BeginFlush, TypeOK, NonEmptyList, mainVars, queueVars,
     signalVars, workerVars, statVars
<1>5. CASE GraceEnds
  BY <1>5 DEF GraceEnds, Terminated, TypeOK, NonEmptyList, mainVars, queueVars,
     signalVars, statVars
<1>6. CASE Join
  BY <1>6 DEF Join, Terminated, TypeOK, NonEmptyList, mainVars, queueVars, statVars
<1>7. CASE WorkerWake
  <2>1. /\ termEvent' \in BOOLEAN /\ worker' \in {"transmit", "done"}
        /\ semData' = semData \/ (semData > 0 /\ semData' = semData - 1)
        /\ sent' = sent \/ sent' = 0
    BY <1>7, Zenon DEF WorkerWake, TypeOK
  <2>2. semData' \in 0 .. 3 /\ sent' \in Nat
    BY <2>1, SMTT(30) DEF TypeOK
  <2>3. queues[out] \in Seq(Nat) /\ packetBytes[out] \in Nat
    BY DEF TypeOK
  <2>4. snapshot' \in [packets : Nat, bytes : Nat]
    BY <1>7, <2>3 DEF WorkerWake, TypeOK
  <2>5. UNCHANGED <<main, mainVars, queueVars, semSpace, signalVars, out, statVars>>
    BY <1>7 DEF WorkerWake
  <2> QED BY <2>1, <2>2, <2>4, <2>5 DEF TypeOK, NonEmptyList, mainVars, queueVars,
        signalVars, statVars
<1>8. CASE WorkerTransmit
  <2>1. queues[out] \in Seq(Nat) /\ sent + 1 \in 1 .. Len(queues[out])
    BY <1>8 DEF WorkerTransmit, TypeOK
  <2>2. wire' \in Seq(Nat) /\ sent' \in Nat
    BY <1>8, <2>1, SMTT(30) DEF WorkerTransmit, TypeOK
  <2> QED BY <1>8, <2>2 DEF WorkerTransmit, TypeOK, NonEmptyList, mainVars,
        queueVars, signalVars
<1>9. CASE WorkerFlushed
  <2>1. queues' \in [Queues -> Seq(Nat)] /\ bytesQueued' \in [Queues -> Nat]
    BY <1>9 DEF WorkerFlushed, TypeOK
  <2>2. failed' \in BOOLEAN /\ worker' \in {"bytes", "advance"}
    BY <1>9 DEF WorkerFlushed, TypeOK
  <2> QED BY <1>9, <2>1, <2>2 DEF WorkerFlushed, TypeOK, NonEmptyList, mainVars,
        signalVars
<1>10. CASE WorkerCountBytes
  BY <1>10 DEF WorkerCountBytes, TypeOK, NonEmptyList, mainVars, queueVars,
     signalVars
<1>11. CASE WorkerCountPackets
  BY <1>11 DEF WorkerCountPackets, TypeOK, NonEmptyList, mainVars, queueVars,
     signalVars
<1>12. CASE WorkerAdvance
  <2>1. Move(out) \in Queues
    BY MoveType DEF TypeOK
  <2> QED BY <1>12, <2>1 DEF WorkerAdvance, TypeOK, NonEmptyList, mainVars, queueVars,
     signalVars, statVars
<1>13. CASE Sigint
  BY <1>13 DEF Sigint, TypeOK, NonEmptyList, mainVars, queueVars, workerVars,
     statVars
<1>14. CASE SetSigintEvent
  BY <1>14 DEF SetSigintEvent, TypeOK, NonEmptyList, mainVars, queueVars,
     workerVars, statVars
<1>15. CASE UNCHANGED vars
  BY <1>15 DEF vars, TypeOK, NonEmptyList, mainVars, queueVars, signalVars,
     workerVars, statVars
<1> QED BY <1>1, <1>2, <1>3, <1>4, <1>5, <1>6, <1>7, <1>8, <1>9, <1>10, <1>11,
      <1>12, <1>13, <1>14, <1>15 DEF Next, Main, Worker, Handler, Over

(* The pointers stay in the ring, the semaphores within their maximum and  *)
(* the counters natural, whatever the three threads do (interface.cpp).    *)
THEOREM TypeCorrect == Spec => []TypeOK
<1>1. Spec => []TypeInv
  BY TypeInit, TypeStep, PTL DEF Spec
<1>2. TypeInv => TypeOK
  BY DEF TypeInv
<1> QED BY <1>1, <1>2, PTL

-----------------------------------------------------------------------------
(* Ownership of the ring.                                                  *)

(* In a ring job the flag is read before every packet, and no packet is    *)
(* longer than the assumed maximum.                                        *)
LEMMA RingPackets ==
  ASSUME RingJob, Len(Lengths) > 0, NEW n \in Nat \ {0}
  PROVE  IsHead(n) /\ LengthOf(n) <= MAX_DOUBLE_TAGGED_PACKET
<1>1. Len(Lengths) \in Nat
  BY StreamAssumption
<1>2. PassIndex(n) \in 1 .. Len(Lengths)
  BY <1>1 DEF PassIndex
<1> QED BY <1>2 DEF RingJob, IsHead, LengthOf

(* A ring job has three queues of the greatest size.                       *)
LEMMA RingOfThree ==
  ASSUME RingJob
  PROVE  NumQueues = 3 /\ Queues = 0 .. 2 /\ QueueSize = pcapMaxQueueSize
BY DEF RingJob, NumQueues, Queues, QueueSize, MAX_SEND_QUEUES

(* The queues passed on are counted by a natural number.                   *)
LEMMA PendingType == TypeOK => Pending \in Nat
BY DEF TypeOK, Pending, MAX_SEND_QUEUES

(* The ring when the job is created: all queues free but the first.        *)
LEMMA RingInit == RingJob /\ Init => RingInv
<1> SUFFICES ASSUME RingJob, Init PROVE RingInv
  OBVIOUS
<1>1. Pending = 0
  BY DEF Init, Pending, WorkerBusy
<1>2. Shutdown /\ NoBug
  BY DEF Init, Shutdown, Sending, NoBug
<1>3. RingShape
  BY <1>1, RingOfThree DEF Init, RingShape, Holding, InitialSpaceAvail, MAX_SEND_QUEUES
<1>4. \A q \in Queues : bytesQueued[q] = 0
  BY DEF Init
<1>5. in \in Queues /\ worker = "wait"
  BY RingOfThree DEF Init
<1>6. RingRoom
  BY <1>4, <1>5 DEF RingRoom
<1> QED BY <1>2, <1>3, <1>6 DEF RingInv

(* Ctrl+C is counted before it is noticed; the worker ends last.           *)
LEMMA ShutdownStep ==
  ASSUME RingJob, TypeInv, RingInv, [Next]_vars
  PROVE  Shutdown'
<1> USE DEF RingInv, Shutdown, Sending
<1>1. CASE CheckSignal
  BY <1>1 DEF CheckSignal, mainVars, signalVars, workerVars
<1>2. CASE AddPacket
  BY <1>2 DEF AddPacket, Continue, signalVars, workerVars
<1>3. CASE AcquireQueue
  <2>1. IsHead(next)
    BY <1>3, RingPackets DEF AcquireQueue, TypeInv, TypeOK, NonEmptyList
  <2> QED BY <1>3, <2>1 DEF AcquireQueue, SigintWakes, Continue, workerVars
<1>4. CASE BeginFlush
  BY <1>4 DEF BeginFlush, mainVars, signalVars, workerVars
<1>5. CASE GraceEnds
  BY <1>5 DEF GraceEnds, mainVars, signalVars
<1>6. CASE Join
  BY <1>6 DEF Join, mainVars
<1>7. CASE WorkerWake
  BY <1>7 DEF WorkerWake, DataFirst, mainVars, signalVars
<1>8. CASE WorkerTransmit
  BY <1>8 DEF WorkerTransmit, mainVars, signalVars
<1>9. CASE WorkerFlushed
  BY <1>9 DEF WorkerFlushed, mainVars, signalVars
<1>10. CASE WorkerCountBytes
  BY <1>10 DEF WorkerCountBytes, mainVars, signalVars
<1>11. CASE WorkerCountPackets
  BY <1>11 DEF WorkerCountPackets, mainVars, signalVars
<1>12. CASE WorkerAdvance
  BY <1>12 DEF WorkerAdvance, mainVars, signalVars
<1>13. CASE Sigint
  <2>1. sigStatus' > 0
    BY <1>13 DEF Sigint, TypeInv, TypeOK
  <2> QED BY <1>13, <2>1 DEF Sigint, mainVars, workerVars
<1>14. CASE SetSigintEvent
  BY <1>14 DEF SetSigintEvent, mainVars, workerVars
<1>15. CASE UNCHANGED vars
  BY <1>15 DEF vars, mainVars, signalVars, workerVars
<1> QED BY <1>1, <1>2, <1>3, <1>4, <1>5, <1>6, <1>7, <1>8, <1>9, <1>10, <1>11,
      <1>12, <1>13, <1>14, <1>15 DEF Next, Main, Worker, Handler, Over

(* Semaphores and pointers go together through every step.                 *)
LEMMA ShapeStep ==
  ASSUME RingJob, TypeInv, RingInv, [Next]_vars
  PROVE  RingShape'
<1> USE RingOfThree DEF RingInv, Shutdown, Sending, Holding, RingShape, Move
<1>0. /\ in \in 0 .. 2 /\ out \in 0 .. 2
      /\ semData \in 0 .. 3 /\ semSpace \in 0 .. 3
  BY DEF TypeInv, TypeOK, MAX_SEND_QUEUES
<1>1. CASE CheckSignal
  <2>1. Pending' = Pending
    BY <1>1 DEF CheckSignal, Pending, WorkerBusy, workerVars
  <2> QED BY <1>1, <2>1 DEF CheckSignal, mainVars, workerVars
<1>2. CASE AddPacket
  <2>1. CASE semData' = Release(semData) /\ main' = "acquire"
    <3>1. Pending \in 0 .. 2 /\ semData < 3
      BY <1>0, <1>2 DEF AddPacket, Pending
    <3>2. Pending' = Pending + 1
      BY <1>0, <1>2, <2>1, <3>1
      DEF AddPacket, Pending, WorkerBusy, Release, workerVars, MAX_SEND_QUEUES
    <3> QED BY <1>0, <1>2, <2>1, <3>1, <3>2 DEF AddPacket, workerVars
  <2>2. CASE semData' = semData /\ main' \in {"check", "add", "bug"}
    <3>1. Pending' = Pending
      BY <1>2, <2>2 DEF AddPacket, Pending, WorkerBusy, workerVars
    <3> QED BY <1>2, <2>2, <3>1 DEF AddPacket, workerVars
  <2> QED BY <1>2, <2>1, <2>2, Zenon DEF AddPacket, Continue
<1>3. CASE AcquireQueue
  <2>1. Pending' = Pending /\ out' = out
    BY <1>3 DEF AcquireQueue, Pending, WorkerBusy, workerVars
  <2>2. main' \in {"check", "add"}
    BY <1>3 DEF AcquireQueue, Continue
  <2>3. CASE finished' = TRUE /\ UNCHANGED <<in, semSpace>>
    BY <1>3, <2>1, <2>2, <2>3 DEF AcquireQueue
  <2>4. CASE finished' = finished /\ in' = Move(in) /\ semSpace' = semSpace - 1
    BY <1>0, <1>3, <2>1, <2>2, <2>4, PendingType DEF AcquireQueue, TypeInv
  <2> QED BY <1>3, <2>3, <2>4 DEF AcquireQueue
<1>4. CASE BeginFlush
  BY <1>4 DEF BeginFlush
<1>5. CASE GraceEnds
  BY <1>5 DEF GraceEnds
<1>6. CASE Join
  BY <1>6 DEF Join
<1>7. CASE WorkerWake
  <2>1. Sending => Pending' = Pending
    BY <1>0, <1>7 DEF WorkerWake, DataFirst, Pending, WorkerBusy
  <2> QED BY <1>7, <2>1 DEF WorkerWake, mainVars
<1>8. CASE WorkerTransmit
  <2>1. Pending' = Pending
    BY <1>8 DEF WorkerTransmit, Pending, WorkerBusy
  <2> QED BY <1>8, <2>1 DEF WorkerTransmit, mainVars
<1>9. CASE WorkerFlushed
  <2>1. Pending' = Pending
    BY <1>9 DEF WorkerFlushed, Pending, WorkerBusy
  <2> QED BY <1>9, <2>1 DEF WorkerFlushed, mainVars
<1>10. CASE WorkerCountBytes
  <2>1. Pending' = Pending
    BY <1>10 DEF WorkerCountBytes, Pending, WorkerBusy
  <2> QED BY <1>10, <2>1 DEF WorkerCountBytes, mainVars
<1>11. CASE WorkerCountPackets
  <2>1. Pending' = Pending
    BY <1>11 DEF WorkerCountPackets, Pending, WorkerBusy
  <2> QED BY <1>11, <2>1 DEF WorkerCountPackets, mainVars
<1>12. CASE WorkerAdvance
  <2>1. Pending' = Pending - 1 /\ Pending \in Nat
    BY <1>0, <1>12 DEF WorkerAdvance, Pending, WorkerBusy
  <2>2. Sending => semSpace' = semSpace + 1
    BY <1>0, <1>12, <2>1 DEF WorkerAdvance, Release, MAX_SEND_QUEUES, Pending, WorkerBusy
  <2>3. out' = (out + 1) % 3 /\ in' = in /\ main' = main /\ finished' = finished
    BY <1>12 DEF WorkerAdvance, mainVars
  <2> QED BY <1>0, <2>1, <2>2, <2>3
<1>13. CASE Sigint
  BY <1>13 DEF Sigint, mainVars, workerVars, Pending, WorkerBusy
<1>14. CASE SetSigintEvent
  BY <1>14 DEF SetSigintEvent, mainVars, workerVars, Pending, WorkerBusy
<1>15. CASE UNCHANGED vars
  BY <1>15 DEF vars, mainVars, workerVars, Pending, WorkerBusy
<1> QED BY <1>1, <1>2, <1>3, <1>4, <1>5, <1>6, <1>7, <1>8, <1>9, <1>10, <1>11,
      <1>12, <1>13, <1>14, <1>15 DEF Next, Main, Worker, Handler, Over

(* The queue held by the main thread is not one of those handed over.      *)
LEMMA HeldNotHanded ==
  ASSUME RingJob, TypeInv, RingShape, Sending, Holding
  PROVE  in \notin Handed
<1>1. in \in 0 .. 2 /\ out \in 0 .. 2 /\ semSpace \in 0 .. 3
  BY RingOfThree DEF TypeInv, TypeOK, MAX_SEND_QUEUES
<1>2. in = (out + Pending) % 3 /\ Pending \in 0 .. 2
  BY <1>1, RingOfThree, PendingType DEF RingShape, TypeInv
<1>3. \A k \in 0 .. Pending - 1 : in # (out + k) % 3
  BY <1>1, <1>2
<1> QED BY <1>3, RingOfThree DEF Handed

(* Steps that keep bytesQueued and the ownership keep RingRoom.            *)
LEMMA RoomKept ==
  ASSUME RingRoom, UNCHANGED <<bytesQueued, in, out>>,
         Sending' => Sending /\ Pending' = Pending /\ Holding' = Holding,
         worker' \in {"bytes", "packets", "advance"} =>
            worker \in {"bytes", "packets", "advance"}
  PROVE  RingRoom'
<1> SUFFICES ASSUME Sending' PROVE RingRoom'
  BY DEF RingRoom
<1>1. Handed' = Handed
  BY DEF Handed
<1> QED BY <1>1 DEF RingRoom, NearlyFull

(* Free queues stay empty and the held one keeps room.                     *)
LEMMA RoomStep ==
  ASSUME RingJob, TypeInv, RingInv, [Next]_vars
  PROVE  RingRoom'
<1> USE DEF RingInv
<1>0. /\ in \in 0 .. 2 /\ out \in 0 .. 2
      /\ semData \in 0 .. 3 /\ semSpace \in 0 .. 3
      /\ bytesQueued \in [0 .. 2 -> Nat]
      /\ Pending \in Nat
  BY RingOfThree, PendingType DEF TypeInv, TypeOK, MAX_SEND_QUEUES
<1>1. CASE CheckSignal
  <2>1. /\ UNCHANGED <<bytesQueued, in, out, worker>>
        /\ Sending /\ Pending' = Pending /\ Holding' = Holding
    BY <1>1 DEF CheckSignal, Sending, Holding, Pending, WorkerBusy, mainVars,
       queueVars, workerVars
  <2> QED BY <2>1, RoomKept
<1>4. CASE BeginFlush
  BY <1>4 DEF BeginFlush, RingRoom, Sending
<1>5. CASE GraceEnds
  BY <1>5 DEF GraceEnds, RingRoom, Sending
<1>6. CASE Join
  BY <1>6 DEF Join, RingRoom, Sending
<1>7. CASE WorkerWake
  <2>1. /\ UNCHANGED <<bytesQueued, in, out>>
        /\ worker' \notin {"bytes", "packets", "advance"}
        /\ Sending' = Sending /\ Holding' = Holding
    BY <1>7 DEF WorkerWake, Sending, Holding, mainVars, queueVars
  <2>2. Sending => Pending' = Pending
    BY <1>0, <1>7 DEF WorkerWake, DataFirst, Pending, WorkerBusy, Sending, Shutdown
  <2> QED BY <2>1, <2>2, RoomKept
<1>8. CASE WorkerTransmit
  <2>1. /\ UNCHANGED <<bytesQueued, in, out, worker>>
        /\ Sending' = Sending /\ Pending' = Pending /\ Holding' = Holding
    BY <1>8 DEF WorkerTransmit, Sending, Holding, Pending, WorkerBusy, mainVars,
       queueVars
  <2> QED BY <2>1, RoomKept
<1>10. CASE WorkerCountBytes
  <2>1. /\ UNCHANGED <<bytesQueued, in, out>> /\ worker = "bytes"
        /\ Sending' = Sending /\ Pending' = Pending /\ Holding' = Holding
    BY <1>10 DEF WorkerCountBytes, Sending, Holding, Pending, WorkerBusy, mainVars,
       queueVars
  <2> QED BY <2>1, RoomKept
<1>11. CASE WorkerCountPackets
  <2>1. /\ UNCHANGED <<bytesQueued, in, out>> /\ worker = "packets"
        /\ Sending' = Sending /\ Pending' = Pending /\ Holding' = Holding
    BY <1>11 DEF WorkerCountPackets, Sending, Holding, Pending, WorkerBusy, mainVars,
       queueVars
  <2> QED BY <2>1, RoomKept
<1>13. CASE Sigint
  <2>1. /\ UNCHANGED <<bytesQueued, in, out, worker>>
        /\ Sending' = Sending /\ Pending' = Pending /\ Holding' = Holding
    BY <1>13 DEF Sigint, Sending, Holding, Pending, WorkerBusy, mainVars,
       queueVars, workerVars
  <2> QED BY <2>1, RoomKept
<1>14. CASE SetSigintEvent
  <2>1. /\ UNCHANGED <<bytesQueued, in, out, worker>>
        /\ Sending' = Sending /\ Pending' = Pending /\ Holding' = Holding
    BY <1>14 DEF SetSigintEvent, Sending, Holding, Pending, WorkerBusy, mainVars,
       queueVars, workerVars
  <2> QED BY <2>1, RoomKept
<1>15. CASE UNCHANGED vars
  <2>1. /\ UNCHANGED <<bytesQueued, in, out, worker>>
        /\ Sending' = Sending /\ Pending' = Pending /\ Holding' = Holding
    BY <1>15 DEF vars, Sending, Holding, Pending, WorkerBusy, mainVars,
       queueVars, workerVars
  <2> QED BY <2>1, RoomKept
<1>2. CASE AddPacket
  <2>1. main = "add" /\ ~finished /\ Holding /\ Sending /\ in \notin Handed
    BY <1>2, HeldNotHanded DEF AddPacket, Shutdown, Holding, Sending
  <2>2. UNCHANGED <<in, out, worker, finished>>
    BY <1>2 DEF AddPacket, workerVars
  <2>3. \A q \in 0 .. 2 : q # in => bytesQueued'[q] = bytesQueued[q]
    BY <1>0, <1>2 DEF AddPacket, queueVars
  <2>4. CASE main' = "acquire" /\ semData' = Release(semData)
    <3>1. Pending \in 0 .. 2 /\ semData < 3 /\ in = (out + Pending) % 3
      BY <1>0, <2>1, RingOfThree DEF RingShape, Pending
    <3>2. Pending' = Pending + 1
      BY <1>0, <2>2, <2>4, <3>1 DEF Pending, WorkerBusy, Release, MAX_SEND_QUEUES
    <3>3. Handed' = Handed \cup {in}
      BY <1>0, <2>2, <3>1, <3>2, RingOfThree DEF Handed
    <3>4. worker \in {"bytes", "packets", "advance"} => out # in
      BY <1>0, <2>1, RingOfThree DEF Handed, Pending, WorkerBusy
    <3> QED BY <1>0, <2>1, <2>2, <2>3, <2>4, <3>3, <3>4, RingOfThree
        DEF RingRoom, Sending, Holding
  <2>5. CASE main' \in {"check", "add"} /\ semData' = semData /\ ~NearlyFull(bytesQueued'[in])
    <3>1. Handed' = Handed
      BY <2>2, <2>5 DEF Handed, Pending, WorkerBusy
    <3>2. worker \in {"bytes", "packets", "advance"} => out # in
      BY <1>0, <2>1, RingOfThree DEF Handed, Pending, WorkerBusy
    <3> QED BY <1>0, <2>1, <2>2, <2>3, <2>5, <3>1, <3>2, RingOfThree
        DEF RingRoom, Sending, Holding, NearlyFull
  <2>6. CASE main' = "bug"
    BY <2>6 DEF RingRoom, Sending
  <2> QED BY <1>2, <2>4, <2>5, <2>6, Zenon DEF AddPacket, Continue
<1>3. CASE AcquireQueue
  <2>1. main = "acquire" /\ Sending /\ ~Holding /\ ~finished
    BY <1>3 DEF AcquireQueue, Sending, Holding, Shutdown
  <2>2. main' \in {"check", "add"} /\ UNCHANGED <<bytesQueued, out, worker, semData>>
    BY <1>3 DEF AcquireQueue, Continue, queueVars, workerVars
  <2>3. Handed' = Handed
    BY <2>2 DEF Handed, Pending, WorkerBusy
  <2>4. CASE finished' = TRUE
    BY <2>1, <2>2, <2>3, <2>4 DEF RingRoom, Holding
  <2>5. CASE finished' = finished /\ in' = Move(in) /\ semSpace > 0
    <3>1. in' = (out + Pending) % 3 /\ Pending \in 0 .. 2
      BY <1>0, <2>1, <2>5, RingOfThree DEF RingShape
    <3>2. in' \in 0 .. 2 /\ in' \notin Handed
      BY <1>0, <3>1, RingOfThree DEF Handed
    <3>3. bytesQueued[in'] = 0
      BY <2>1, <3>2, RingOfThree DEF RingRoom
    <3> QED BY <2>1, <2>2, <2>3, <3>2, <3>3 DEF RingRoom
  <2> QED BY <1>3, <2>4, <2>5, Zenon DEF AcquireQueue
<1>9. CASE WorkerFlushed
  <2>1. UNCHANGED <<in, out, main, finished>> /\ worker = "transmit"
    BY <1>9 DEF WorkerFlushed, mainVars
  <2>2. Pending' = Pending
    BY <1>9 DEF WorkerFlushed, Pending, WorkerBusy
  <2>3. Handed' = Handed
    BY <2>1, <2>2 DEF Handed
  <2>4. /\ bytesQueued'[out] = 0
        /\ \A q \in 0 .. 2 : bytesQueued'[q] = 0 \/ bytesQueued'[q] = bytesQueued[q]
    BY <1>0, <1>9 DEF WorkerFlushed
  <2> QED BY <1>0, <2>1, <2>3, <2>4, RingOfThree DEF RingRoom, Sending, Holding, NearlyFull
<1>12. CASE WorkerAdvance
  <2>1. UNCHANGED <<bytesQueued, in, main, finished>> /\ worker = "advance" /\ worker' = "wait"
    BY <1>12 DEF WorkerAdvance, mainVars, queueVars
  <2>2. out' = (out + 1) % 3 /\ Pending' = Pending - 1 /\ Pending > 0
    BY <1>0, <1>12, RingOfThree DEF WorkerAdvance, Move, Pending, WorkerBusy
  <2>3. Handed \subseteq Handed' \cup {out}
    <3> SUFFICES ASSUME NEW q \in Handed, q # out PROVE q \in Handed'
      OBVIOUS
    <3>0. PICK k \in 0 .. Pending - 1 : q = (out + k) % 3
      BY RingOfThree DEF Handed
    <3>1. k - 1 \in 0 .. Pending' - 1
      BY <1>0, <2>2, <3>0
    <3>2. (out + k) % 3 = (out' + (k - 1)) % 3
      BY <1>0, <2>2
    <3> QED BY <3>0, <3>1, <3>2, RingOfThree DEF Handed
  <2> QED BY <1>0, <2>1, <2>3, RingOfThree DEF RingRoom, Sending, Holding, NearlyFull
<1> QED BY <1>1, <1>2, <1>3, <1>4, <1>5, <1>6, <1>7, <1>8, <1>9, <1>10, <1>11,
      <1>12, <1>13, <1>14, <1>15 DEF Next, Main, Worker, Handler, Over

(* A packet fits into the queue held: no room is missing (interface.cpp:62).*)
LEMMA NoBugStep ==
  ASSUME RingJob, TypeInv, RingInv, [Next]_vars
  PROVE  NoBug'
<1> USE DEF RingInv, NoBug
<1>1. CASE AddPacket
  <2>1. main = "add" /\ Holding /\ Sending
    BY <1>1 DEF AddPacket, Shutdown, Holding, Sending
  <2>2. /\ LengthOf(next) \in Nat /\ LengthOf(next) <= MAX_DOUBLE_TAGGED_PACKET
        /\ bytesQueued[in] \in Nat
    BY <1>1, LengthType, RingPackets DEF AddPacket, TypeInv, TypeOK, NonEmptyList
  <2>3. bytesQueued[in] = 0 \/ ~NearlyFull(bytesQueued[in])
    BY <2>1 DEF RingRoom
  <2>4. Fits(in, next)
    BY <2>2, <2>3, RingOfThree, QueueAssumption DEF Fits, NearlyFull, RingJob
  <2> QED BY <1>1, <2>4 DEF AddPacket, Continue
<1>2. CASE CheckSignal \/ AcquireQueue \/ BeginFlush \/ GraceEnds \/ Join
  BY <1>2 DEF CheckSignal, AcquireQueue, Continue, BeginFlush, GraceEnds, Join
<1>3. CASE Worker \/ Handler \/ UNCHANGED vars
  BY <1>3 DEF Worker, WorkerWake, WorkerTransmit, WorkerFlushed, WorkerCountBytes,
     WorkerCountPackets, WorkerAdvance, Handler, Sigint, SetSigintEvent, vars
<1> QED BY <1>1, <1>2, <1>3 DEF Next, Main, Over

(* The ring invariant is inductive together with the types.                *)
THEOREM RingInvariance == RingJob => (Spec => []RingInv)
<1> SUFFICES ASSUME RingJob PROVE Spec => []RingInv
  OBVIOUS
<1>1. Init => TypeInv /\ RingInv
  BY TypeInit, RingInit
<1>2. TypeInv /\ RingInv /\ [Next]_vars => (TypeInv /\ RingInv)'
  BY TypeStep, ShutdownStep, ShapeStep, RoomStep, NoBugStep DEF RingInv
<1>3. Spec => [](TypeInv /\ RingInv)
  BY <1>1, <1>2, PTL DEF Spec
<1> QED BY <1>3, PTL

(* cPcapSendQueue::add never writes to a queue the worker owns.            *)
THEOREM QueueOwnership == RingJob => (Spec => []SlotEmpty)
<1> SUFFICES ASSUME RingJob PROVE Spec => []SlotEmpty
  OBVIOUS
<1>1. TypeInv /\ RingInv => SlotEmpty
  <2> SUFFICES ASSUME TypeInv, RingInv, main = "add" PROVE in \notin Handed
    BY DEF SlotEmpty
  <2>1. Sending /\ Holding /\ RingShape
    BY DEF RingInv, Shutdown, Sending, Holding
  <2> QED BY <2>1, HeldNotHanded
<1>2. Spec => []TypeInv
  BY TypeInit, TypeStep, PTL DEF Spec
<1> QED BY <1>1, <1>2, RingInvariance, PTL

(* BUG_ON in cPcapSendQueue::add is never reached.                         *)
THEOREM BufferCalculation == RingJob => (Spec => []NoBug)
<1> SUFFICES ASSUME RingJob PROVE Spec => []NoBug
  OBVIOUS
<1>1. RingInv => NoBug
  BY DEF RingInv
<1> QED BY <1>1, RingInvariance, PTL

-----------------------------------------------------------------------------
(* The packets in the ring.                                                *)

Flushed == {"bytes", "packets", "advance"}

(* A queue counts bytes exactly if it holds packets; the queues handed     *)
(* over are full until they are flushed, and once the job is being closed  *)
(* all the others are empty.                                               *)
Contents ==
  /\ \A q \in Queues : bytesQueued[q] = 0 <=> queues[q] = <<>>
  /\ worker \in Flushed => queues[out] = <<>>
  /\ Running => \A q \in Handed : queues[q] # <<>> \/ (q = out /\ worker \in Flushed)
  /\ main \in {"grace", "join"} =>
       /\ worker # "killed"
       /\ ~finished => \A q \in Queues : q \notin Handed => queues[q] = <<>>
  /\ worker = "done" => semData = 0
  /\ Running => Pending <= 3

(* The walk has handed over all packets before next, and leaves the loop   *)
(* at the end of the list or after Ctrl+C.                                 *)
Progress ==
  /\ next <= Total + 1
  /\ main = "add" => next <= Total
  /\ main \in {"flush", "grace", "join"} =>
       sigStatus > 0 \/ (Repeat # 0 /\ next = Total + 1)
  /\ main = "grace" => sigStatus > 0
  /\ main = "done" => worker \in {"done", "killed"}

(* The number of the last packet before those in the ring.                 *)
Second == (out + 1) % 3
Third == (out + 2) % 3
Base == next - 1 - Len(queues[out]) - Len(queues[Second]) - Len(queues[Third])

(* Packets of the current queue that are on the wire.                      *)
Transmitted == IF worker = "transmit" THEN sent ELSE 0

(* A queue that holds the packets after n, in their order.                 *)
After(n, s) == \A i \in 1 .. Len(s) : s[i] = n + i

(* The ring, read from out on, holds the packets up to next without a gap, *)
(* and the wire ends where the ring begins unless a transmit failed.       *)
Numbered ==
  /\ Base \in Nat
  /\ After(Base, queues[out])
  /\ After(Base + Len(queues[out]), queues[Second])
  /\ After(Base + Len(queues[out]) + Len(queues[Second]), queues[Third])
  /\ Transmitted <= Len(queues[out])
  /\ Running => /\ Abstract!LastSent <= Base + Transmitted
                /\ ~failed => Abstract!LastSent = Base + Transmitted

(* What the worker has sent and not yet added to the statistic.            *)
Uncounted ==
  IF worker = "transmit" THEN sent
  ELSE IF worker \in {"bytes", "packets"} THEN snapshot.packets ELSE 0

(* The worker's count of the queue's packets stays right while it sends.   *)
Counted ==
  /\ worker = "transmit" => snapshot.packets = Len(queues[out])
  /\ sentPackets + Uncounted <= Len(wire)
  /\ worker # "killed" /\ ~failed => sentPackets + Uncounted = Len(wire)

StreamInv == Contents /\ Progress /\ Numbered /\ Counted

(* The stream before the first step.                                       *)
LEMMA StreamInit == RingJob /\ Init => StreamInv
<1> SUFFICES ASSUME RingJob, Init PROVE StreamInv
  OBVIOUS
<1>1. Pending = 0 /\ Handed = {}
  <2>1. Pending = 0
    BY DEF Init, Pending, WorkerBusy
  <2> QED BY <2>1 DEF Handed
<1>2. Contents
  BY <1>1 DEF Init, Contents, Flushed
<1>3. Progress
  BY StreamAssumption DEF Init, Progress, Total
<1>4. Numbered
  <2>1. out = 0 /\ Second = 1 /\ Third = 2 /\ Transmitted = 0 /\ next = 1
    BY DEF Init, Second, Third, Transmitted
  <2>2. queues[0] = <<>> /\ queues[1] = <<>> /\ queues[2] = <<>>
    BY RingOfThree DEF Init
  <2>5. Len(queues[0]) = 0 /\ Len(queues[1]) = 0 /\ Len(queues[2]) = 0
    BY <2>2
  <2>3. Base = 0
    BY <2>1, <2>5 DEF Base
  <2>4. Abstract!LastSent = 0
    BY DEF Init, Abstract!LastSent
  <2> QED BY <2>1, <2>2, <2>3, <2>4, <2>5 DEF Numbered, After
<1>5. Counted
  BY DEF Init, Counted, Uncounted
<1> QED BY <1>2, <1>3, <1>4, <1>5 DEF StreamInv

(* The walk of the main thread.                                            *)
LEMMA ProgressStep ==
  ASSUME RingJob, TypeInv, RingInv, StreamInv, [Next]_vars
  PROVE  Progress'
<1> USE DEF StreamInv, Progress
<1>0. next \in Nat \ {0} /\ Total \in Nat /\ sigStatus \in Nat
  BY StreamAssumption DEF TypeInv, TypeOK, Total
<1>1. CASE CheckSignal
  BY <1>0, <1>1 DEF CheckSignal, mainVars, signalVars, workerVars
<1>2. CASE AddPacket
  <2>1. main' \in {"check", "acquire", "bug"}
    <3>1. IsHead(next + 1)
      BY <1>0, <1>2, RingPackets DEF AddPacket, TypeInv, NonEmptyList
    <3> QED BY <1>2, <3>1, Zenon DEF AddPacket, Continue
  <2>2. next' = next \/ next' = next + 1
    BY <1>2, Zenon DEF AddPacket
  <2> QED BY <1>0, <1>2, <2>1, <2>2 DEF AddPacket
<1>3. CASE AcquireQueue
  <2>1. IsHead(next)
    BY <1>0, <1>3, RingPackets DEF AcquireQueue, TypeInv, NonEmptyList
  <2> QED BY <1>3, <2>1 DEF AcquireQueue, Continue
<1>4. CASE BeginFlush
  BY <1>4 DEF BeginFlush, mainVars, signalVars
<1>5. CASE GraceEnds
  BY <1>5 DEF GraceEnds, Terminated, mainVars, signalVars
<1>6. CASE Join
  BY <1>6 DEF Join, Terminated, mainVars, signalVars
<1>7. CASE Worker
  <2>1. UNCHANGED <<main, next, sigStatus>> /\ main # "done"
    BY <1>7 DEF Worker, WorkerWake, WorkerTransmit, WorkerFlushed, WorkerCountBytes,
       WorkerCountPackets, WorkerAdvance, mainVars, signalVars, Running
  <2> QED BY <2>1
<1>8. CASE Handler
  <2>1. UNCHANGED <<main, next, worker>> /\ main # "done" /\ (sigStatus > 0 => sigStatus' > 0)
    BY <1>0, <1>8 DEF Handler, Sigint, SetSigintEvent, mainVars, workerVars, Running
  <2> QED BY <2>1
<1>9. CASE UNCHANGED vars
  BY <1>9 DEF vars, mainVars, signalVars, workerVars
<1> QED BY <1>1, <1>2, <1>3, <1>4, <1>5, <1>6, <1>7, <1>8, <1>9 DEF Next, Main, Over

(* The queues handed over are queues of the ring, the one at out first.    *)
LEMMA HandedInRing ==
  ASSUME RingJob, TypeInv
  PROVE  Handed \subseteq 0 .. 2 /\ (Pending > 0 => out \in Handed)
<1>1. out \in 0 .. 2 /\ Pending \in Nat
  BY RingOfThree, PendingType DEF TypeInv, TypeOK
<1>2. Handed = {(out + k) % 3 : k \in 0 .. Pending - 1}
  BY RingOfThree DEF Handed
<1>3. ASSUME Pending > 0 PROVE out \in Handed
  <2>1. 0 \in 0 .. Pending - 1 /\ out = (out + 0) % 3
    BY <1>1, <1>3
  <2> QED BY <1>2, <2>1
<1>4. ASSUME NEW k \in 0 .. Pending - 1 PROVE (out + k) % 3 \in 0 .. 2
  BY <1>1
<1> QED BY <1>2, <1>3, <1>4

(* A queue with a packet added holds something.                            *)
LEMMA AppendNonEmpty ==
  ASSUME NEW s \in Seq(Nat), NEW e \in Nat
  PROVE  Append(s, e) # <<>>
<1>1. Len(Append(s, e)) = Len(s) + 1 /\ Len(s) \in Nat
  OBVIOUS
<1>2. Len(Append(s, e)) # Len(<<>>)
  BY <1>1
<1> QED BY <1>2

(* A queue handed over joins those of the worker.                          *)
LEMMA HandOver ==
  ASSUME RingJob, TypeInv, Pending \in 0 .. 2, in = (out + Pending) % 3,
         out' = out, Pending' = Pending + 1
  PROVE  Handed' = Handed \cup {in}
<1>0. out \in 0 .. 2
  BY RingOfThree DEF TypeInv, TypeOK
<1>1. Handed = {(out + k) % 3 : k \in 0 .. Pending - 1}
  BY RingOfThree DEF Handed
<1>2. Handed' = {(out + k) % 3 : k \in 0 .. Pending}
  BY RingOfThree DEF Handed
<1>3. 0 .. Pending = (0 .. Pending - 1) \cup {Pending}
  OBVIOUS
<1> QED BY <1>1, <1>2, <1>3

(* A queue given back leaves them.                                         *)
LEMMA GiveBack ==
  ASSUME RingJob, TypeInv, Pending <= 3, WorkerAdvance
  PROVE  /\ Handed' = Handed \ {out} /\ out \in Handed /\ Pending' = Pending - 1
<1>0. out \in 0 .. 2 /\ semData \in 0 .. 3 /\ Pending \in Nat
  BY RingOfThree, PendingType DEF TypeInv, TypeOK, MAX_SEND_QUEUES
<1>1. out' = (out + 1) % 3 /\ Pending' = Pending - 1 /\ Pending \in 1 .. 3
  BY <1>0, RingOfThree DEF WorkerAdvance, Move, Pending, WorkerBusy
<1>2. out \in Handed
  BY <1>0, <1>1, RingOfThree DEF Handed
<1>3. ASSUME NEW q \in Handed, q # out PROVE q \in Handed'
  <2>0. PICK k \in 0 .. Pending - 1 : q = (out + k) % 3
    BY RingOfThree DEF Handed
  <2>1. k - 1 \in 0 .. Pending' - 1
    BY <1>0, <1>1, <1>3, <2>0
  <2>2. (out + k) % 3 = (out' + (k - 1)) % 3
    BY <1>0, <1>1
  <2> QED BY <2>0, <2>1, <2>2, RingOfThree DEF Handed
<1>4. ASSUME NEW q \in Handed' PROVE q \in Handed /\ q # out
  <2>0. PICK k \in 0 .. Pending' - 1 : q = (out' + k) % 3
    BY RingOfThree DEF Handed
  <2>1. k + 1 \in 1 .. Pending - 1 /\ k \in 0 .. 1
    BY <1>1, <2>0
  <2>2. q = (out + (k + 1)) % 3
    BY <1>0, <1>1, <2>0, <2>1
  <2>3. q # out
    BY <1>0, <2>1, <2>2
  <2> QED BY <2>1, <2>2, <2>3, RingOfThree DEF Handed
<1> QED BY <1>1, <1>2, <1>3, <1>4

(* Steps that leave queues and ownership alone.                            *)
LEMMA ContentsKept ==
  ASSUME Contents, UNCHANGED <<queues, bytesQueued, out, semData, finished>>,
         Pending' = Pending, Running,
         worker' \in Flushed <=> worker \in Flushed,
         worker' = "done" => worker = "done" \/ semData = 0,
         main' \in {"grace", "join"} =>
           main \in {"grace", "join"} /\ (worker' = "killed" => worker = "killed")
  PROVE  Contents'
<1>1. Handed' = Handed
  BY DEF Handed
<1>2. (\A q \in Queues : bytesQueued[q] = 0 <=> queues[q] = <<>>)'
  BY DEF Contents
<1> QED BY <1>1, <1>2 DEF Contents

(* Queues are full where the worker expects it, and empty elsewhere.       *)
LEMMA ContentsStep ==
  ASSUME RingJob, TypeInv, RingInv, RingInv', StreamInv, [Next]_vars
  PROVE  Contents'
<1> USE DEF StreamInv
<1>0. /\ in \in 0 .. 2 /\ out \in 0 .. 2
      /\ semData \in 0 .. 3 /\ semSpace \in 0 .. 3
      /\ queues \in [0 .. 2 -> Seq(Nat)] /\ bytesQueued \in [0 .. 2 -> Nat]
      /\ Pending \in Nat
  BY RingOfThree, PendingType DEF TypeInv, TypeOK, MAX_SEND_QUEUES
<1>1. CASE CheckSignal
  BY <1>1, ContentsKept DEF CheckSignal, Pending, WorkerBusy, Running, mainVars,
     queueVars, workerVars
<1>2. CASE AddPacket
  <2>1. main = "add" /\ ~finished /\ Holding /\ Sending /\ Running /\ in \notin Handed
    BY <1>2, HeldNotHanded DEF AddPacket, RingInv, Shutdown, Holding, Sending, Running
  <2>2. UNCHANGED <<in, out, worker, finished>>
    BY <1>2 DEF AddPacket, workerVars
  <2>3. main' \in {"check", "add", "acquire"}
    BY <1>2 DEF AddPacket, Continue, RingInv, NoBug
  <2>4. /\ queues' = [queues EXCEPT ![in] = Append(queues[in], next)]
        /\ bytesQueued' = [bytesQueued EXCEPT
                             ![in] = bytesQueued[in] + sizeofPcapPkthdr + LengthOf(next)]
    BY <1>2, <2>3, Zenon DEF AddPacket
  <2>5. LengthOf(next) \in Nat \ {0} /\ sizeofPcapPkthdr \in Nat /\ next \in Nat
    BY <1>2, LengthType, QueueAssumption DEF AddPacket, TypeInv, TypeOK, NonEmptyList
  <2>6. queues'[in] # <<>> /\ bytesQueued'[in] # 0
    <3>1. queues'[in] = Append(queues[in], next) /\ queues[in] \in Seq(Nat)
      BY <1>0, <2>4
    <3>2. Append(queues[in], next) # <<>>
      BY <2>5, <3>1, AppendNonEmpty
    <3>3. bytesQueued'[in] = bytesQueued[in] + sizeofPcapPkthdr + LengthOf(next)
      BY <1>0, <2>4
    <3>4. bytesQueued'[in] # 0
      BY <1>0, <2>5, <3>3
    <3> QED BY <3>1, <3>2, <3>4
  <2>7. \A q \in 0 .. 2 : q # in => queues'[q] = queues[q] /\ bytesQueued'[q] = bytesQueued[q]
    BY <1>0, <2>4
  <2>8. worker \in Flushed => out # in
    <3> SUFFICES ASSUME worker \in Flushed PROVE out \in Handed
      BY <2>1
    <3>1. Pending > 0
      BY <1>0 DEF Pending, WorkerBusy, Flushed
    <3> QED BY <3>1, HandedInRing
  <2>9. Handed' \in {Handed, Handed \cup {in}} /\ Pending' <= 3
    <3>1. Pending \in 0 .. 2 /\ in = (out + Pending) % 3
      BY <1>0, <2>1, RingOfThree DEF RingInv, RingShape
    <3>2. CASE semData' = Release(semData)
      <4>1. Pending' = Pending + 1
        BY <1>0, <2>2, <3>1, <3>2 DEF Pending, WorkerBusy, Release, MAX_SEND_QUEUES
      <4> QED BY <2>2, <3>1, <4>1, HandOver
    <3>3. CASE semData' = semData
      <4>1. Pending' = Pending
        BY <2>2, <3>3 DEF Pending, WorkerBusy
      <4> QED BY <2>2, <3>1, <4>1 DEF Handed
    <3> QED BY <1>2, <3>2, <3>3, Zenon DEF AddPacket
  <2>10. worker # "done"
    BY <2>1 DEF RingInv, Shutdown
  <2>11. ASSUME NEW q \in Queues PROVE bytesQueued'[q] = 0 <=> queues'[q] = <<>>
    <3>1. CASE q = in
      BY <2>6, <3>1
    <3>2. CASE q # in
      BY <2>7, <3>2, RingOfThree DEF Contents
    <3> QED BY <3>1, <3>2
  <2>12. worker' \in Flushed => queues'[out'] = <<>>
    BY <1>0, <2>2, <2>7, <2>8 DEF Contents
  <2>13. ASSUME NEW q \in Handed'
         PROVE  queues'[q] # <<>> \/ (q = out' /\ worker' \in Flushed)
    <3>1. q \in Handed \/ q = in
      BY <2>9
    <3>2. CASE q \in Handed
      <4>1. q \in 0 .. 2
        BY <3>2, HandedInRing
      <4> QED BY <2>1, <2>2, <2>7, <3>2, <4>1 DEF Contents
    <3>3. CASE q = in
      BY <2>6, <3>3
    <3> QED BY <3>1, <3>2, <3>3
  <2>14. worker' # "done" /\ main' \notin {"grace", "join"} /\ Pending' <= 3
    BY <2>2, <2>3, <2>9, <2>10
  <2> QED BY <2>11, <2>12, <2>13, <2>14 DEF Contents
<1>3. CASE AcquireQueue
  <2>1. main' \in {"check", "add"} /\ UNCHANGED <<queues, bytesQueued, out, worker, semData>>
    BY <1>3 DEF AcquireQueue, Continue, queueVars, workerVars
  <2>2. Pending' = Pending
    BY <2>1 DEF Pending, WorkerBusy
  <2>3. Handed' = Handed
    BY <2>1, <2>2 DEF Handed
  <2>4. Running
    BY <1>3 DEF AcquireQueue, Running
  <2> QED BY <2>1, <2>2, <2>3, <2>4 DEF Contents
<1>4. CASE BeginFlush
  <2>1. main = "flush" /\ Sending /\ Running /\ worker \notin {"done", "killed"}
    BY <1>4 DEF BeginFlush, RingInv, Shutdown, Sending, Running
  <2>2. UNCHANGED <<queues, bytesQueued, in, out, worker, finished>>
    BY <1>4 DEF BeginFlush, mainVars, queueVars, workerVars
  <2>3. CASE SomethingToSend
    <3>1. Holding /\ bytesQueued[in] > 0
      BY <2>1, <2>3 DEF Holding, SomethingToSend
    <3>2. Pending \in 0 .. 2 /\ in = (out + Pending) % 3
      BY <1>0, <2>1, <3>1, RingOfThree DEF RingInv, RingShape
    <3>3. Pending' = Pending + 1
      BY <1>0, <1>4, <2>2, <2>3, <3>2
         DEF BeginFlush, Pending, WorkerBusy, Release, MAX_SEND_QUEUES
    <3>4. Handed' = Handed \cup {in}
      BY <2>2, <3>2, <3>3, HandOver
    <3>5. \A q \in Queues : q \notin Handed' => queues[q] = <<>>
      BY <2>1, <3>4 DEF RingInv, RingRoom, Contents
    <3>6. queues[in] # <<>>
      <4>1. in \in Queues /\ bytesQueued[in] # 0
        BY <1>0, <3>1, RingOfThree
      <4> QED BY <4>1 DEF Contents
    <3> QED BY <2>1, <2>2, <3>2, <3>3, <3>4, <3>5, <3>6 DEF Contents
  <2>4. CASE ~SomethingToSend
    <3>1. Pending' = Pending /\ semData' = semData
      BY <1>4, <2>2, <2>4 DEF BeginFlush, Pending, WorkerBusy
    <3>2. Handed' = Handed
      BY <2>2, <3>1 DEF Handed
    <3>3. ~finished => \A q \in Queues : q \notin Handed => queues[q] = <<>>
      BY <1>0, <2>1, <2>4 DEF SomethingToSend, RingInv, RingRoom, Contents
    <3> QED BY <2>1, <2>2, <3>1, <3>2, <3>3 DEF Contents
  <2> QED BY <2>3, <2>4
<1>5. CASE GraceEnds
  <2>1. CASE main' = "join" /\ UNCHANGED worker
    BY <1>5, <2>1, ContentsKept DEF GraceEnds, Running, Pending, WorkerBusy, mainVars, queueVars
  <2>2. CASE main' = "done" /\ worker' = Terminated(worker)
    BY <1>5, <2>2 DEF GraceEnds, Terminated, Contents, Running, Flushed, mainVars, queueVars
  <2> QED BY <1>5, <2>1, <2>2 DEF GraceEnds
<1>6. CASE Join
  BY <1>6 DEF Join, Terminated, Contents, Running, Flushed, mainVars, queueVars
<1>7. CASE WorkerWake
  <2>1. UNCHANGED <<main, queues, bytesQueued, out, finished>> /\ worker = "wait" /\ Running
    BY <1>7 DEF WorkerWake, mainVars, queueVars
  <2>2. CASE worker' = "transmit"
    <3>1. Pending' = Pending
      BY <1>0, <1>7, <2>1, <2>2 DEF WorkerWake, Pending, WorkerBusy
    <3>2. Handed' = Handed
      BY <2>1, <3>1 DEF Handed
    <3> QED BY <2>1, <2>2, <3>1, <3>2 DEF Contents, Running, Flushed
  <2>3. CASE worker' = "done"
    <3>1. semData' = semData /\ semData = 0 /\ Pending' = Pending
      BY <1>7, <2>1, <2>3 DEF WorkerWake, DataFirst, Pending, WorkerBusy
    <3> QED BY <2>1, <2>3, <3>1, ContentsKept DEF Flushed
  <2> QED BY <1>7, <2>2, <2>3 DEF WorkerWake
<1>8. CASE WorkerTransmit \/ WorkerCountBytes \/ WorkerCountPackets
  BY <1>8, ContentsKept DEF WorkerTransmit, WorkerCountBytes, WorkerCountPackets, Pending,
     WorkerBusy, Flushed, mainVars, queueVars
<1>9. CASE WorkerFlushed
  <2>1. UNCHANGED <<main, out, finished, semData>> /\ worker = "transmit" /\ Running
    BY <1>9 DEF WorkerFlushed, mainVars
  <2>2. Pending' = Pending /\ worker' \in {"bytes", "advance"}
    BY <1>9 DEF WorkerFlushed, Pending, WorkerBusy
  <2>3. Handed' = Handed
    BY <2>1, <2>2 DEF Handed
  <2>4. /\ bytesQueued'[out] = 0 /\ queues'[out] = <<>>
        /\ \A q \in 0 .. 2 : q # out =>
             bytesQueued'[q] = bytesQueued[q] /\ queues'[q] = queues[q]
    BY <1>0, <1>9 DEF WorkerFlushed
  <2>5. ASSUME NEW q \in Handed PROVE q \in 0 .. 2
    BY HandedInRing
  <2> QED BY <1>0, <2>1, <2>2, <2>3, <2>4, <2>5, RingOfThree DEF Contents, Running, Flushed
<1>10. CASE WorkerAdvance
  <2>1. UNCHANGED <<main, queues, bytesQueued, finished, semData>>
          /\ worker = "advance" /\ worker' = "wait" /\ Running
    BY <1>10 DEF WorkerAdvance, mainVars, queueVars
  <2>2. Handed' = Handed \ {out} /\ Pending' = Pending - 1
    BY <1>10, <2>1, GiveBack DEF Contents
  <2> QED BY <1>0, <2>1, <2>2 DEF Contents, Running, Flushed
<1>11. CASE Sigint \/ SetSigintEvent
  BY <1>11, ContentsKept DEF Sigint, SetSigintEvent, Pending, WorkerBusy, mainVars,
     queueVars, workerVars
<1>12. CASE UNCHANGED vars
  <2>1. Handed' = Handed /\ Pending' = Pending
    BY <1>12 DEF vars, workerVars, Handed, Pending, WorkerBusy
  <2> QED BY <1>12, <2>1 DEF vars, Contents, Running, mainVars, queueVars, workerVars
<1> QED BY <1>1, <1>2, <1>3, <1>4, <1>5, <1>6, <1>7, <1>8, <1>9, <1>10, <1>11, <1>12
      DEF Next, Main, Worker, Handler, Over

(* The last packet on the wire.                                            *)
LEMMA LastSentType == TypeOK => Abstract!LastSent \in Nat
<1> SUFFICES ASSUME TypeOK PROVE Abstract!LastSent \in Nat
  OBVIOUS
<1>1. wire \in Seq(Nat)
  BY DEF TypeOK
<1>2. CASE wire = <<>>
  BY <1>2 DEF Abstract!LastSent
<1>3. CASE wire # <<>>
  <2>1. Len(wire) \in 1 .. Len(wire)
    BY <1>1, <1>3
  <2> QED BY <1>1, <1>3, <2>1 DEF Abstract!LastSent
<1> QED BY <1>2, <1>3

(* ... is the one appended last.                                           *)
LEMMA LastSentAppend ==
  ASSUME TypeOK, NEW n \in Nat, wire' = Append(wire, n)
  PROVE  Abstract!LastSent' = n
<1>1. wire \in Seq(Nat)
  BY DEF TypeOK
<1>2. wire' # <<>>
  BY <1>1, AppendNonEmpty
<1>3. wire'[Len(wire')] = n
  BY <1>1
<1> QED BY <1>2, <1>3 DEF Abstract!LastSent

(* The three positions of the ring.                                        *)
LEMMA RingPositions ==
  ASSUME NEW o \in 0 .. 2
  PROVE  /\ (o + 1) % 3 \in 0 .. 2 /\ (o + 2) % 3 \in 0 .. 2 /\ (o + 0) % 3 = o
         /\ (o + 1) % 3 # o /\ (o + 2) % 3 # o /\ (o + 1) % 3 # (o + 2) % 3
         /\ (((o + 1) % 3) + 1) % 3 = (o + 2) % 3
         /\ (((o + 1) % 3) + 2) % 3 = o
<1>1. o = 0 \/ o = 1 \/ o = 2
  OBVIOUS
<1> QED BY <1>1

(* A queue that goes on with the next packet.                              *)
LEMMA AfterAppend ==
  ASSUME NEW s \in Seq(Nat), NEW n \in Nat, After(n, s),
         NEW m \in Nat, m = n + Len(s) + 1, NEW t, t = Append(s, m)
  PROVE  After(n, t) /\ Len(t) = Len(s) + 1
<1>1. Len(s) \in Nat /\ Len(t) = Len(s) + 1 /\ t[Len(s) + 1] = n + Len(s) + 1
  OBVIOUS
<1>2. \A i \in 1 .. Len(s) : t[i] = s[i]
  OBVIOUS
<1>3. ASSUME NEW i \in 1 .. Len(t) PROVE t[i] = n + i
  <2>1. CASE i = Len(s) + 1
    BY <1>1, <2>1
  <2>2. CASE i # Len(s) + 1
    <3>1. i \in 1 .. Len(s)
      BY <1>1, <2>2
    <3> QED BY <1>2, <3>1 DEF After
  <2> QED BY <2>1, <2>2
<1> QED BY <1>1, <1>3 DEF After

(* A packet handed over and a packet queued leave the number before the    *)
(* ring as it was.                                                         *)
LEMMA SameBase ==
  ASSUME NEW n \in Nat, NEW a \in Nat, NEW b \in Nat, NEW c \in Nat,
         NEW a1 \in Nat, NEW b1 \in Nat, NEW c1 \in Nat,
         a1 + b1 + c1 = a + b + c + 1
  PROVE  (n + 1) - 1 - a1 - b1 - c1 = n - 1 - a - b - c
OBVIOUS

(* An empty queue holds the packets after any number.                      *)
LEMMA AfterEmpty == ASSUME NEW n, NEW s, Len(s) = 0 PROVE After(n, s)
BY DEF After

(* Steps that neither queue nor transmit.                                  *)
LEMMA NumberedKept ==
  ASSUME Numbered, UNCHANGED <<queues, out, next, wire>>,
         Running' => Running /\ failed' = failed /\ Transmitted' = Transmitted,
         Transmitted' \in {0, Transmitted}, RingJob, TypeInv
  PROVE  Numbered'
<1>1. Second' = Second /\ Third' = Third
  BY DEF Second, Third
<1>2. Base' = Base /\ Abstract!LastSent' = Abstract!LastSent
  BY <1>1 DEF Base, Abstract!LastSent
<1>3. Len(queues[out]) \in Nat
  BY DEF TypeInv, TypeOK
<1>4. Transmitted' <= Len(queues'[out'])
  BY <1>3 DEF Numbered
<1> QED BY <1>1, <1>2, <1>4 DEF Numbered

(* The ring and the wire hold the packets in their order.                  *)
LEMMA NumberedStep ==
  ASSUME RingJob, TypeInv, RingInv, RingInv', StreamInv, [Next]_vars
  PROVE  Numbered'
<1> USE DEF StreamInv
<1> DEFINE a == Len(queues[out])
           b == Len(queues[Second])
           c == Len(queues[Third])
<1>0. /\ in \in 0 .. 2 /\ out \in 0 .. 2 /\ next \in Nat \ {0} /\ sent \in Nat
      /\ queues \in [0 .. 2 -> Seq(Nat)] /\ semData \in 0 .. 3 /\ semSpace \in 0 .. 3
  BY RingOfThree DEF TypeInv, TypeOK, MAX_SEND_QUEUES
<1>d. Pending \in Nat /\ Abstract!LastSent \in Nat
  BY PendingType, LastSentType DEF TypeInv
<1>a. /\ Second \in 0 .. 2 /\ Third \in 0 .. 2 /\ out # Second /\ out # Third
      /\ Second # Third
  BY <1>0, RingPositions DEF Second, Third
<1>b. /\ a \in Nat /\ b \in Nat /\ c \in Nat /\ Base = next - 1 - a - b - c
      /\ queues[out] \in Seq(Nat) /\ queues[Second] \in Seq(Nat)
      /\ queues[Third] \in Seq(Nat)
  BY <1>0, <1>a DEF Base
<1>c. /\ Base \in Nat /\ Transmitted <= a
      /\ After(Base, queues[out]) /\ After(Base + a, queues[Second])
      /\ After(Base + a + b, queues[Third])
      /\ Running => /\ Abstract!LastSent <= Base + Transmitted
                    /\ ~failed => Abstract!LastSent = Base + Transmitted
  BY DEF Numbered
<1>e. a \in Nat /\ b \in Nat /\ c \in Nat /\ Base \in Nat /\ next \in Nat
  BY <1>0, <1>b, <1>c
<1>f. Base = next - 1 - a - b - c
  BY <1>b
<1>g. queues[out] \in Seq(Nat) /\ queues[Second] \in Seq(Nat) /\ queues[Third] \in Seq(Nat)
  BY <1>b
<1>1. CASE CheckSignal \/ AcquireQueue \/ BeginFlush \/ Sigint \/ SetSigintEvent
             \/ UNCHANGED vars
  <2>1. UNCHANGED <<queues, out, next, wire, failed, worker, sent>>
    BY <1>1 DEF CheckSignal, AcquireQueue, BeginFlush, Sigint, SetSigintEvent, vars,
       mainVars, queueVars, workerVars, statVars
  <2>2. Running' => Running
    BY <1>1 DEF CheckSignal, AcquireQueue, Continue, BeginFlush, Sigint, SetSigintEvent, vars,
       Running
  <2>3. Transmitted' = Transmitted
    BY <2>1 DEF Transmitted
  <2> QED BY <2>1, <2>2, <2>3, NumberedKept
<1>2. CASE GraceEnds \/ Join
  <2>1. UNCHANGED <<queues, out, next, wire, failed, sent>>
    BY <1>2 DEF GraceEnds, Join, mainVars, queueVars, statVars
  <2>2. Running /\ (Running' => worker' = worker) /\ (worker' = "transmit" => worker' = worker)
    BY <1>2 DEF GraceEnds, Join, Running, Terminated
  <2>3. Transmitted' \in {0, Transmitted} /\ (Running' => Transmitted' = Transmitted)
    BY <2>1, <2>2 DEF Transmitted
  <2> QED BY <2>1, <2>2, <2>3, NumberedKept
<1>3. CASE WorkerWake \/ WorkerCountBytes \/ WorkerCountPackets
  <2>1. UNCHANGED <<queues, out, next, wire, failed, main>> /\ Running
    BY <1>3 DEF WorkerWake, WorkerCountBytes, WorkerCountPackets, mainVars, queueVars, statVars
  <2>2. Transmitted = 0 /\ Transmitted' = 0
    BY <1>3 DEF WorkerWake, WorkerCountBytes, WorkerCountPackets, Transmitted
  <2> QED BY <2>1, <2>2, NumberedKept DEF Running
<1>4. CASE AddPacket
  <2>1. main = "add" /\ ~finished /\ Holding /\ Sending /\ Running /\ in \notin Handed
    BY <1>4, HeldNotHanded DEF AddPacket, RingInv, Shutdown, Holding, Sending, Running
  <2>2. UNCHANGED <<out, worker, sent, wire, failed>>
    BY <1>4 DEF AddPacket, workerVars, statVars
  <2>3. main' # "bug"
    BY DEF RingInv, NoBug
  <2>4. queues' = [queues EXCEPT ![in] = Append(queues[in], next)] /\ next' = next + 1
    BY <1>4, <2>3, Zenon DEF AddPacket
  <2>5. Pending \in 0 .. 2 /\ in = (out + Pending) % 3
    BY <1>0, <1>d, <2>1, RingOfThree DEF RingInv, RingShape
  <2>6. UNCHANGED <<Second, Third, Transmitted>> /\ Abstract!LastSent' = Abstract!LastSent
    BY <2>2 DEF Second, Third, Transmitted, Abstract!LastSent
  <2>7. ASSUME NEW q \in 0 .. 2, q \notin Handed, q # in PROVE Len(queues[q]) = 0
    <3>1. queues[q] = <<>>
      BY <2>1, <2>7, RingOfThree DEF Contents, RingInv, RingRoom
    <3> QED BY <3>1
  <2>8. /\ queues'[in] = Append(queues[in], next)
        /\ \A q \in 0 .. 2 : q # in => queues'[q] = queues[q]
    BY <1>0, <2>4
  <2>9. Handed = {(out + k) % 3 : k \in 0 .. Pending - 1}
    BY RingOfThree DEF Handed
  <2> HIDE DEF a, b, c
  <2>10. /\ After(Base, queues'[out]) /\ After(Base + a', queues'[Second])
         /\ After(Base + a' + b', queues'[Third])
         /\ a' \in Nat /\ b' \in Nat /\ c' \in Nat
         /\ a' + b' + c' = a + b + c + 1 /\ Transmitted <= a'
    <3>1. CASE Pending = 0
      <4>1. Handed = {} /\ in = out
        <5>1. 0 .. Pending - 1 = {}
          BY <3>1
        <5>2. in = (out + 0) % 3
          BY <2>5, <3>1
        <5> QED BY <1>0, <2>9, <5>1, <5>2, RingPositions
      <4>2. b = 0 /\ c = 0
        BY <1>a, <2>7, <4>1 DEF b, c
      <4>3. next = Base + a + 1
        BY <1>0, <1>b, <4>2
      <4>4. After(Base, queues'[out]) /\ Len(queues'[out]) = Len(queues[out]) + 1
        <5> DEFINE s == queues[out]
                   t == queues'[out]
                   n == Base
        <5>1. s \in Seq(Nat) /\ After(n, s) /\ t = Append(s, next) /\ a = Len(s)
          BY <1>c, <1>g, <2>8, <4>1 DEF a
        <5>2. n \in Nat /\ next = n + a + 1
          BY <1>e, <4>3
        <5> HIDE DEF s, t, n
        <5>3. next \in Nat /\ next = n + Len(s) + 1
          BY <1>e, <5>1, <5>2
        <5>4. After(n, t) /\ Len(t) = Len(s) + 1
          BY <5>1, <5>2, <5>3, AfterAppend
        <5> QED BY <5>4 DEF s, t, n
      <4>5. a' = a + 1
        BY <2>2, <4>4 DEF a
      <4>6. b' = 0 /\ c' = 0
        <5>1. queues'[Second] = queues[Second] /\ queues'[Third] = queues[Third]
          BY <1>a, <2>8, <4>1
        <5> QED BY <2>6, <4>2, <5>1 DEF b, c
      <4>7. After(Base + a', queues'[Second]) /\ After(Base + a' + b', queues'[Third])
        BY <2>6, <4>6, AfterEmpty DEF b, c
      <4>8. Transmitted <= a'
        <5>1. Transmitted = 0
          BY <1>0, <3>1 DEF Transmitted, Pending, WorkerBusy
        <5> QED BY <1>e, <4>5, <5>1
      <4>9. a' + b' + c' = a + b + c + 1 /\ a' \in Nat /\ b' \in Nat /\ c' \in Nat
        BY <1>e, <4>2, <4>5, <4>6
      <4> QED BY <4>4, <4>7, <4>8, <4>9
    <3>2. CASE Pending = 1
      <4>1. Handed = {out} /\ in = Second
        <5>1. 0 .. Pending - 1 = {0}
          BY <3>2
        <5>2. in = (out + 1) % 3
          BY <2>5, <3>2
        <5>3. Handed = {(out + 0) % 3}
          BY <2>9, <5>1
        <5> QED BY <1>0, <5>2, <5>3, RingPositions DEF Second
      <4>2. c = 0 /\ queues'[Third] = queues[Third]
        BY <1>a, <2>7, <2>8, <4>1 DEF c
      <4>3. c' = 0
        BY <2>6, <4>2 DEF c
      <4>4. After(Base + a, queues'[Second]) /\ Len(queues'[Second]) = Len(queues[Second]) + 1
        <5> DEFINE s == queues[Second]
                   t == queues'[Second]
                   n == Base + a
        <5>1. s \in Seq(Nat) /\ After(n, s) /\ t = Append(s, next) /\ b = Len(s)
          BY <1>c, <1>g, <2>8, <4>1 DEF b
        <5>2. n \in Nat /\ next = n + b + 1
          BY <1>e, <1>f, <4>2
        <5> HIDE DEF s, t, n
        <5>3. next \in Nat /\ next = n + Len(s) + 1
          BY <1>e, <5>1, <5>2
        <5>4. After(n, t) /\ Len(t) = Len(s) + 1
          BY <5>1, <5>2, <5>3, AfterAppend
        <5> QED BY <5>4 DEF s, t, n
      <4>5. b' = b + 1
        BY <2>6, <4>4 DEF b
      <4>6. queues'[out] = queues[out] /\ a' = a
        BY <1>0, <1>a, <2>2, <2>8, <4>1 DEF a
      <4>7. After(Base + a' + b', queues'[Third])
        BY <2>6, <4>3, AfterEmpty DEF c
      <4>8. a' + b' + c' = a + b + c + 1 /\ a' \in Nat /\ b' \in Nat /\ c' \in Nat
        BY <1>e, <4>2, <4>3, <4>5, <4>6
      <4> QED BY <1>c, <4>4, <4>6, <4>7, <4>8
    <3>3. CASE Pending = 2
      <4>1. in = Third
        BY <2>5, <3>3 DEF Third
      <4>2. After(Base + a + b, queues'[Third]) /\ Len(queues'[Third]) = Len(queues[Third]) + 1
        <5> DEFINE s == queues[Third]
                   t == queues'[Third]
                   n == Base + a + b
        <5>1. s \in Seq(Nat) /\ After(n, s) /\ t = Append(s, next) /\ c = Len(s)
          BY <1>c, <1>g, <2>8, <4>1 DEF c
        <5>2. n \in Nat /\ next = n + c + 1
          BY <1>e, <1>f
        <5> HIDE DEF s, t, n
        <5>3. next \in Nat /\ next = n + Len(s) + 1
          BY <1>e, <5>1, <5>2
        <5>4. After(n, t) /\ Len(t) = Len(s) + 1
          BY <5>1, <5>2, <5>3, AfterAppend
        <5> QED BY <5>4 DEF s, t, n
      <4>3. c' = c + 1
        BY <2>6, <4>2 DEF c
      <4>4. queues'[out] = queues[out] /\ queues'[Second] = queues[Second]
        BY <1>0, <1>a, <2>8, <4>1
      <4>5. a' = a /\ b' = b
        BY <2>2, <2>6, <4>4 DEF a, b
      <4>8. a' + b' + c' = a + b + c + 1 /\ a' \in Nat /\ b' \in Nat /\ c' \in Nat
        BY <1>e, <4>3, <4>5
      <4> QED BY <1>c, <4>2, <4>4, <4>5, <4>8
    <3> QED BY <2>5, <3>1, <3>2, <3>3
  <2>11. Base' = Base
    <3> DEFINE k == Len(queues'[out'])
               l == Len(queues'[Second'])
               m == Len(queues'[Third'])
    <3>1. Base' = (next + 1) - 1 - k - l - m
      BY <2>4 DEF Base
    <3>2. k + l + m = a + b + c + 1 /\ k \in Nat /\ l \in Nat /\ m \in Nat
      BY <2>10 DEF a, b, c
    <3> HIDE DEF k, l, m
    <3>3. (next + 1) - 1 - k - l - m = next - 1 - a - b - c
      BY <1>e, <3>2, SameBase
    <3> QED BY <1>f, <3>1, <3>3, Zenon
  <2> QED BY <1>c, <2>1, <2>2, <2>6, <2>10, <2>11 DEF Numbered, a, b
<1>5. CASE WorkerTransmit
  <2>1. UNCHANGED <<queues, out, next, failed, worker, main>> /\ worker = "transmit" /\ sent < a
    BY <1>5 DEF WorkerTransmit, mainVars, queueVars
  <2>2. Transmitted = sent /\ Transmitted' = sent + 1
    BY <1>5, <2>1 DEF WorkerTransmit, Transmitted
  <2>3. wire' = Append(wire, Base + (sent + 1))
    <3>1. sent + 1 \in 1 .. a
      BY <1>0, <1>b, <2>1
    <3> QED BY <1>5, <1>c, <3>1 DEF WorkerTransmit, After
  <2>4. Abstract!LastSent' = Base + (sent + 1)
    <3>1. Base + (sent + 1) \in Nat
      BY <1>0, <1>c
    <3> QED BY <2>3, <3>1, LastSentAppend DEF TypeInv
  <2>5. Second' = Second /\ Third' = Third
    BY <2>1 DEF Second, Third
  <2>6. Base' = Base
    BY <2>1, <2>5 DEF Base
  <2>7. Transmitted' <= a
    BY <1>0, <1>b, <2>1, <2>2
  <2>8. Abstract!LastSent' = Base' + Transmitted' /\ Base' + Transmitted' \in Nat
    BY <1>0, <1>c, <2>2, <2>4, <2>6
  <2>9. Abstract!LastSent' <= Base' + Transmitted'
    BY <2>8
  <2> QED BY <1>c, <2>1, <2>5, <2>6, <2>7, <2>8, <2>9 DEF Numbered
<1>6. CASE WorkerFlushed
  <2>1. UNCHANGED <<out, next, main, wire>> /\ worker = "transmit" /\ Running
    BY <1>6 DEF WorkerFlushed, mainVars
  <2>2. Transmitted = sent /\ Transmitted' = 0
    BY <1>6, <2>1 DEF WorkerFlushed, Transmitted
  <2>3. Second' = Second /\ Third' = Third /\ Abstract!LastSent' = Abstract!LastSent
    BY <2>1 DEF Second, Third, Abstract!LastSent
  <2>4. /\ Len(queues'[out]) = 0
        /\ queues'[Second] = queues[Second] /\ queues'[Third] = queues[Third]
    <3>1. queues'[out] = <<>>
      BY <1>0, <1>6 DEF WorkerFlushed
    <3>2. queues'[Second] = queues[Second] /\ queues'[Third] = queues[Third]
      BY <1>0, <1>6, <1>a DEF WorkerFlushed
    <3> QED BY <3>1, <3>2
  <2>5. Base' = Base + a
    BY <1>0, <1>b, <2>1, <2>3, <2>4 DEF Base
  <2>6. ~failed' => ~failed /\ sent = a
    BY <1>6 DEF WorkerFlushed, Success
  <2>7. /\ Base + a \in Nat /\ Base + a + 0 = Base + a
        /\ (Base + a) + 0 + b = Base + a + b
    BY <1>b, <1>c
  <2>8. After(Base', queues'[out'])
    BY <2>1, <2>4, AfterEmpty
  <2>9. After(Base' + 0, queues'[Second]) /\ After(Base' + 0 + b, queues'[Third])
    BY <1>c, <2>4, <2>5, <2>7
  <2>10. /\ Abstract!LastSent <= Base + a
         /\ ~failed' => Abstract!LastSent = Base + a
    <3>1. Abstract!LastSent <= Base + sent /\ (~failed => Abstract!LastSent = Base + sent)
      BY <1>c, <2>1, <2>2
    <3>2. sent <= a
      BY <1>c, <2>2
    <3>4. Abstract!LastSent \in Nat /\ sent \in Nat
      BY <1>0, <1>d
    <3> HIDE DEF a
    <3>3. Abstract!LastSent <= Base + a
      BY <1>e, <3>1, <3>2, <3>4
    <3> QED BY <2>6, <3>1, <3>3
  <2> HIDE DEF a, b, c
  <2>11. After(Base' + Len(queues'[out']), queues'[Second'])
           /\ After(Base' + Len(queues'[out']) + Len(queues'[Second']), queues'[Third'])
    BY <2>1, <2>3, <2>4, <2>9 DEF b
  <2> QED BY <2>1, <2>2, <2>3, <2>4, <2>5, <2>7, <2>8, <2>10, <2>11 DEF Numbered, Running
<1>7. CASE WorkerAdvance
  <2>1. UNCHANGED <<queues, next, main, wire, failed>> /\ worker = "advance" /\ worker' = "wait"
    BY <1>7 DEF WorkerAdvance, mainVars, queueVars, statVars
  <2>2. out' = Second /\ Second' = Third /\ Third' = out
    <3>1. out' = (out + 1) % 3
      BY <1>7, RingOfThree DEF WorkerAdvance, Move
    <3> QED BY <1>0, <3>1, RingPositions DEF Second, Third
  <2>3. a = 0
    <3>1. queues[out] = <<>>
      BY <2>1 DEF Contents, Flushed
    <3> QED BY <3>1
  <2>4. Base' = Base /\ Base' + b = Base + a + b /\ Base + a = Base
    <3>1. Base' = next - 1 - b - c - a
      BY <2>1, <2>2 DEF Base
    <3> QED BY <1>0, <1>b, <1>c, <2>3, <3>1
  <2>5. Abstract!LastSent' = Abstract!LastSent /\ Transmitted = 0 /\ Transmitted' = 0
    BY <2>1 DEF Abstract!LastSent, Transmitted
  <2>6. After(Base', queues'[out']) /\ After(Base' + b, queues'[Second'])
    BY <1>c, <2>1, <2>2, <2>4
  <2>7. After(Base' + b + c, queues'[Third'])
    BY <2>1, <2>2, <2>3, AfterEmpty
  <2> QED BY <1>b, <1>c, <2>1, <2>2, <2>4, <2>5, <2>6, <2>7 DEF Numbered, Running
<1> QED BY <1>1, <1>2, <1>3, <1>4, <1>5, <1>6, <1>7 DEF Next, Main, Worker, Handler, Over

(* Every packet the worker counts is on the wire.                          *)
LEMMA CountedStep ==
  ASSUME RingJob, TypeInv, RingInv, StreamInv, [Next]_vars
  PROVE  Counted'
<1> USE DEF StreamInv
<1>0. /\ in \in 0 .. 2 /\ out \in 0 .. 2 /\ sent \in Nat /\ semData \in 0 .. 3
      /\ queues \in [0 .. 2 -> Seq(Nat)] /\ wire \in Seq(Nat) /\ Len(wire) \in Nat
      /\ sentPackets \in Nat /\ snapshot.packets \in Nat
  BY RingOfThree DEF TypeInv, TypeOK, MAX_SEND_QUEUES
<1>1. CASE CheckSignal \/ AcquireQueue \/ BeginFlush \/ Sigint \/ SetSigintEvent
             \/ UNCHANGED vars
  <2>1. UNCHANGED <<queues, out, wire, failed, worker, sent, snapshot, sentPackets>>
    BY <1>1 DEF CheckSignal, AcquireQueue, BeginFlush, Sigint, SetSigintEvent, vars,
       mainVars, queueVars, workerVars, statVars
  <2> QED BY <2>1 DEF Counted, Uncounted
<1>2. CASE GraceEnds \/ Join
  <2>1. UNCHANGED <<queues, out, wire, failed, sent, snapshot, sentPackets>>
    BY <1>2 DEF GraceEnds, Join, mainVars, queueVars, statVars
  <2>2. worker' = worker \/ worker' = "killed"
    BY <1>2 DEF GraceEnds, Join, Terminated
  <2> QED BY <1>0, <2>1, <2>2 DEF Counted, Uncounted
<1>3. CASE AddPacket
  <2>1. in \notin Handed
    BY <1>3, HeldNotHanded DEF AddPacket, RingInv, Shutdown, Holding, Sending
  <2>2. UNCHANGED <<out, worker, sent, snapshot, wire, failed, sentPackets>>
    BY <1>3 DEF AddPacket, workerVars, statVars
  <2>3. queues' = queues \/ queues' = [queues EXCEPT ![in] = Append(queues[in], next)]
    BY <1>3, Zenon DEF AddPacket, queueVars
  <2>4. worker = "transmit" => queues'[out] = queues[out]
    <3> SUFFICES ASSUME worker = "transmit" PROVE out # in
      BY <1>0, <2>3
    <3>1. Pending > 0
      BY <1>0 DEF Pending, WorkerBusy
    <3> QED BY <2>1, <3>1, HandedInRing
  <2> QED BY <2>2, <2>4 DEF Counted, Uncounted
<1>4. CASE WorkerWake
  <2>1. UNCHANGED <<queues, out, wire, failed, sentPackets>> /\ worker = "wait"
    BY <1>4 DEF WorkerWake, queueVars, statVars
  <2>2. \/ worker' = "transmit" /\ sent' = 0 /\ snapshot'.packets = Len(queues[out])
        \/ worker' = "done"
    BY <1>4 DEF WorkerWake
  <2> QED BY <2>1, <2>2 DEF Counted, Uncounted
<1>5. CASE WorkerTransmit
  <2>1. /\ UNCHANGED <<queues, out, failed, worker, snapshot, sentPackets>>
        /\ worker = "transmit" /\ sent' = sent + 1
    BY <1>5 DEF WorkerTransmit, queueVars
  <2>2. Len(wire') = Len(wire) + 1
    <3>1. sent + 1 \in 1 .. Len(queues[out]) /\ queues[out] \in Seq(Nat)
      BY <1>0, <1>5 DEF WorkerTransmit
    <3> QED BY <1>0, <1>5, <3>1 DEF WorkerTransmit
  <2> QED BY <1>0, <2>1, <2>2 DEF Counted, Uncounted
<1>6. CASE WorkerFlushed
  <2>1. UNCHANGED <<wire, snapshot, sentPackets>> /\ worker = "transmit"
    BY <1>6 DEF WorkerFlushed
  <2>2. CASE Success
    <3>1. worker' = "bytes" /\ failed' = failed /\ sent = snapshot.packets
      BY <1>6, <2>1, <2>2 DEF WorkerFlushed, Success, Counted, TypeInv, TypeOK
    <3> QED BY <2>1, <3>1 DEF Counted, Uncounted
  <2>3. CASE ~Success
    <3>1. worker' = "advance" /\ failed'
      BY <1>6, <2>3 DEF WorkerFlushed
    <3> QED BY <1>0, <2>1, <3>1 DEF Counted, Uncounted
  <2> QED BY <2>2, <2>3
<1>7. CASE WorkerCountBytes
  BY <1>7 DEF WorkerCountBytes, Counted, Uncounted
<1>8. CASE WorkerCountPackets
  BY <1>0, <1>8 DEF WorkerCountPackets, Counted, Uncounted
<1>9. CASE WorkerAdvance
  BY <1>9 DEF WorkerAdvance, Counted, Uncounted, statVars
<1> QED BY <1>1, <1>2, <1>3, <1>4, <1>5, <1>6, <1>7, <1>8, <1>9
      DEF Next, Main, Worker, Handler, Over

(* All parts of the invariant together.                                    *)
THEOREM StreamInvariance == RingJob => (Spec => [](TypeInv /\ RingInv /\ StreamInv))
<1> SUFFICES ASSUME RingJob PROVE Spec => [](TypeInv /\ RingInv /\ StreamInv)
  OBVIOUS
<1>1. Init => TypeInv /\ RingInv /\ StreamInv
  BY TypeInit, RingInit, StreamInit
<1>2. TypeInv /\ RingInv /\ StreamInv /\ [Next]_vars => (TypeInv /\ RingInv /\ StreamInv)'
  <2> SUFFICES ASSUME TypeInv, RingInv, StreamInv, [Next]_vars
               PROVE  (TypeInv /\ RingInv /\ StreamInv)'
    OBVIOUS
  <2>1. TypeInv'
    BY TypeStep
  <2>2. RingInv'
    BY ShutdownStep, ShapeStep, RoomStep, NoBugStep DEF RingInv
  <2>3. Contents' /\ Progress' /\ Numbered' /\ Counted'
    BY <2>2, ContentsStep, ProgressStep, NumberedStep, CountedStep
  <2> QED BY <2>1, <2>2, <2>3 DEF StreamInv
<1> QED BY <1>1, <1>2, PTL DEF Spec

(* The worker is woken only for queues that hold packets, whatever Ctrl+C  *)
(* interrupted, as long as the flag is read before every packet.           *)
THEOREM WokenForData == RingJob => (Spec => []SlotFull)
<1> SUFFICES ASSUME RingJob PROVE Spec => []SlotFull
  OBVIOUS
<1>1. TypeInv /\ RingInv /\ StreamInv => SlotFull
  <2> SUFFICES ASSUME TypeInv, RingInv, StreamInv, worker = "wait", semData > 0
               PROVE  queues[out] # <<>>
    BY DEF SlotFull
  <2>1. Pending > 0
    BY DEF Pending, WorkerBusy, TypeInv, TypeOK, MAX_SEND_QUEUES
  <2>2. out \in Handed
    BY <2>1, HandedInRing
  <2>3. Running
    BY DEF Running, RingInv, NoBug, StreamInv, Progress
  <2> QED BY <2>2, <2>3 DEF StreamInv, Contents, Flushed
<1> QED BY <1>1, StreamInvariance, PTL

(* The statistic never counts a packet that is not on the wire, and counts *)
(* all of them if the worker ended by itself and no transmit failed.       *)
THEOREM StatisticRight == RingJob => (Spec => []PacketStatistic)
<1> SUFFICES ASSUME RingJob PROVE Spec => []PacketStatistic
  OBVIOUS
<1>1. TypeInv /\ RingInv /\ StreamInv => PacketStatistic
  <2> SUFFICES ASSUME TypeInv, StreamInv PROVE PacketStatistic
    OBVIOUS
  <2>1. sentPackets \in Nat /\ Uncounted \in Nat /\ Len(wire) \in Nat
    BY DEF TypeInv, TypeOK, Uncounted
  <2> QED BY <2>1 DEF StreamInv, Counted, Uncounted, PacketStatistic
<1> QED BY <1>1, StreamInvariance, PTL

(* ~cJob returns only once the worker has ended or is terminated.          *)
THEOREM JoinedOrTerminated == Spec => []WorkerStopped
<1>1. Init => WorkerStopped
  BY DEF Init, WorkerStopped
<1>2. WorkerStopped /\ [Next]_vars => WorkerStopped'
  <2> SUFFICES ASSUME WorkerStopped, [Next]_vars PROVE WorkerStopped'
    OBVIOUS
  <2> USE DEF WorkerStopped
  <2>1. CASE CheckSignal \/ AddPacket \/ AcquireQueue \/ BeginFlush
    BY <2>1 DEF CheckSignal, AddPacket, AcquireQueue, BeginFlush, Continue
  <2>2. CASE GraceEnds \/ Join
    BY <2>2 DEF GraceEnds, Join, Terminated
  <2>3. CASE Worker
    BY <2>3 DEF Worker, WorkerWake, WorkerTransmit, WorkerFlushed, WorkerCountBytes,
       WorkerCountPackets, WorkerAdvance, Running
  <2>4. CASE Handler \/ UNCHANGED vars
    BY <2>4 DEF Handler, Sigint, SetSigintEvent, vars, workerVars
  <2> QED BY <2>1, <2>2, <2>3, <2>4 DEF Next, Main, Over
<1> QED BY <1>1, <1>2, PTL DEF Spec

-----------------------------------------------------------------------------
(* The refinement.  Queueing a packet accepts it, the driver transmits it, *)
(* a short transmit fails the job, and the end of ~cJob closes it.         *)

(* The job begins with nothing accepted.                                   *)
LEMMA QueueInitRefines == Init => Abstract!AbsInit
<1> SUFFICES ASSUME Init PROVE Abstract!AbsInit
  OBVIOUS
<1>1. (sigStatus > 0) \in BOOLEAN /\ Running = TRUE /\ (Repeat = 0) \in BOOLEAN
  BY DEF Init, Running
<1>2. next - 1 = 0
  BY DEF Init
<1> QED BY <1>1, <1>2 DEF Init, Abstract!AbsInit

(* Once the worker is done and no transmit failed, everything was sent.    *)
LEMMA AllSent ==
  ASSUME RingJob, TypeInv, RingInv, StreamInv, main = "join", worker = "done",
         ~finished, ~failed
  PROVE  Abstract!LastSent = next - 1
<1>1. semData = 0 /\ Pending = 0
  BY DEF StreamInv, Contents, Pending, WorkerBusy
<1>2. Handed = {}
  <2>1. 0 .. Pending - 1 = {}
    BY <1>1
  <2> QED BY <2>1 DEF Handed
<1>3. \A q \in 0 .. 2 : queues[q] = <<>>
  BY <1>2, RingOfThree DEF StreamInv, Contents
<1>4. out \in 0 .. 2 /\ Second \in 0 .. 2 /\ Third \in 0 .. 2 /\ next \in Nat
  BY RingOfThree, RingPositions DEF TypeInv, TypeOK, Second, Third
<1>5. Len(queues[out]) = 0 /\ Len(queues[Second]) = 0 /\ Len(queues[Third]) = 0
  BY <1>3, <1>4
<1>6. Base = next - 1
  BY <1>4, <1>5 DEF Base
<1>7. Transmitted = 0 /\ Running
  BY DEF Transmitted, Running
<1> QED BY <1>4, <1>6, <1>7 DEF StreamInv, Numbered

(* Every step of the three threads is a step of the abstract job, or none. *)
LEMMA QueueStepRefines ==
  ASSUME RingJob, TypeInv, RingInv, RingInv', StreamInv, [Next]_vars
  PROVE  [Abstract!AbsNext]_(Abstract!absVars)
<1>0. next \in Nat \ {0} /\ Total \in Nat /\ sigStatus \in Nat
  BY StreamAssumption DEF TypeInv, TypeOK, Total
<1>1. CASE CheckSignal \/ AcquireQueue \/ BeginFlush \/ SetSigintEvent \/ UNCHANGED vars
             \/ WorkerWake \/ WorkerCountBytes \/ WorkerCountPackets \/ WorkerAdvance
  <2>1. UNCHANGED <<next, wire, failed, sigStatus>>
    BY <1>1 DEF CheckSignal, AcquireQueue, BeginFlush, SetSigintEvent, vars, WorkerWake,
       WorkerCountBytes, WorkerCountPackets, WorkerAdvance, mainVars, signalVars, statVars
  <2>2. Running' = Running
    BY <1>1 DEF CheckSignal, AcquireQueue, Continue, BeginFlush, SetSigintEvent, vars,
       WorkerWake, WorkerCountBytes, WorkerCountPackets, WorkerAdvance, Running
  <2> QED BY <2>1, <2>2 DEF Abstract!absVars
<1>2. CASE AddPacket
  <2>1. main' \in {"check", "add", "acquire"} /\ main = "add" /\ next <= Total
    BY <1>2 DEF AddPacket, Continue, RingInv, NoBug, StreamInv, Progress
  <2>2. next' = next + 1
    BY <1>2, <2>1, Zenon DEF AddPacket
  <2>3. UNCHANGED <<wire, failed, sigStatus>>
    BY <1>2 DEF AddPacket, signalVars, statVars
  <2>4. Running /\ Running' = Running
    BY <2>1 DEF Running
  <2>5. next - 1 < Total /\ next' - 1 = (next - 1) + 1
    BY <1>0, <2>1, <2>2
  <2> QED BY <2>3, <2>4, <2>5 DEF Abstract!AbsNext, Abstract!Accept
<1>3. CASE WorkerTransmit
  <2>1. UNCHANGED <<next, failed, sigStatus, main>> /\ Running /\ worker = "transmit"
    BY <1>3 DEF WorkerTransmit, mainVars, signalVars
  <2>2. /\ sent + 1 \in 1 .. Len(queues[out]) /\ Transmitted = sent /\ sent \in Nat
        /\ Len(queues[out]) \in Nat
    BY <1>3, <2>1, SMTT(30) DEF WorkerTransmit, Transmitted, TypeInv, TypeOK
  <2>3. wire' = Append(wire, Base + (sent + 1))
    BY <1>3, <2>2 DEF WorkerTransmit, StreamInv, Numbered, After
  <2>4. /\ Base \in Nat /\ Abstract!LastSent \in Nat /\ Abstract!LastSent <= Base + sent
        /\ ~failed => Abstract!LastSent = Base + sent
    BY <2>1, <2>2, LastSentType DEF StreamInv, Numbered, TypeInv
  <2>5. Base + Len(queues[out]) <= next - 1
    <3>1. Second \in 0 .. 2 /\ Third \in 0 .. 2
      BY RingOfThree, RingPositions DEF TypeInv, TypeOK, Second, Third
    <3> DEFINE a == Len(queues[out])
               b == Len(queues[Second])
               c == Len(queues[Third])
    <3>2. queues \in [0 .. 2 -> Seq(Nat)]
      BY RingOfThree DEF TypeInv, TypeOK
    <3>3. b \in Nat /\ c \in Nat
      BY <3>1, <3>2
    <3>4. a \in Nat /\ next \in Nat /\ Base = next - 1 - a - b - c
      BY <1>0, <2>2 DEF Base
    <3> HIDE DEF a, b, c
    <3>5. Base + a <= next - 1
      BY <2>4, <3>3, <3>4
    <3> QED BY <3>5 DEF a
  <2>6. Base + (sent + 1) \in Abstract!LastSent + 1 .. next - 1
    BY <1>0, <2>2, <2>4, <2>5
  <2>7. Base + (sent + 1) = Abstract!LastSent + 1 \/ failed
    BY <2>2, <2>4
  <2>8. Running' = Running
    BY <2>1 DEF Running
  <2>9. Abstract!Transmit
    BY <2>1, <2>3, <2>6, <2>7, <2>8 DEF Abstract!Transmit
  <2> QED BY <2>9 DEF Abstract!AbsNext
<1>4. CASE WorkerFlushed
  <2>1. UNCHANGED <<next, wire, sigStatus, main>> /\ Running
    BY <1>4 DEF WorkerFlushed, mainVars, signalVars
  <2>2. failed' = failed \/ failed' = TRUE
    BY <1>4 DEF WorkerFlushed, TypeInv, TypeOK
  <2>3. Running' = Running
    BY <2>1 DEF Running
  <2> QED BY <2>1, <2>2, <2>3 DEF Abstract!AbsNext, Abstract!Fail, Abstract!absVars
<1>5. CASE GraceEnds
  <2>1. UNCHANGED <<next, wire, sigStatus, failed>> /\ Running /\ sigStatus > 0
    BY <1>5 DEF GraceEnds, mainVars, signalVars, statVars, Running, StreamInv, Progress
  <2>2. Running' = Running \/ Running' = FALSE
    BY <1>5 DEF GraceEnds, Running
  <2> QED BY <2>1, <2>2 DEF Abstract!AbsNext, Abstract!Close, Abstract!absVars
<1>6. CASE Join
  <2>1. UNCHANGED <<next, wire, sigStatus, failed>> /\ Running /\ Running' = FALSE
    BY <1>6 DEF Join, mainVars, statVars, Running
  <2>2. sigStatus > 0 \/ failed \/ (Repeat # 0 /\ Abstract!LastSent = Total)
    <3>1. CASE sigEvent \/ finished
      BY <3>1 DEF RingInv, Shutdown
    <3>2. CASE ~sigEvent /\ ~finished
      <4>1. main = "join" /\ worker = "done"
        BY <1>6, <3>2 DEF Join, SigintWakes
      <4>2. sigStatus > 0 \/ (Repeat # 0 /\ next = Total + 1)
        BY <4>1 DEF StreamInv, Progress
      <4>3. ~failed => Abstract!LastSent = next - 1
        BY <3>2, <4>1, AllSent
      <4> QED BY <1>0, <4>2, <4>3
    <3> QED BY <3>1, <3>2
  <2> QED BY <2>1, <2>2 DEF Abstract!AbsNext, Abstract!Close
<1>7. CASE Sigint
  <2>1. UNCHANGED <<next, wire, failed, main>> /\ Running /\ sigStatus' > 0
    BY <1>0, <1>7 DEF Sigint, mainVars, statVars
  <2>2. Running' = Running
    BY <2>1 DEF Running
  <2> QED BY <2>1, <2>2 DEF Abstract!AbsNext, Abstract!Interrupt
<1> QED BY <1>1, <1>2, <1>3, <1>4, <1>5, <1>6, <1>7 DEF Next, Main, Worker, Handler, Over

(* The threads, the ring and the semaphores send what a single thread      *)
(* without a buffer would have sent: every packet handed over once, in     *)
(* order, without a gap before a transmit error, and all of them before a  *)
(* job ends that neither failed nor was interrupted.                       *)
THEOREM QueueImplementsTransmission == RingJob => (Spec => ImplementsTransmission)
<1> SUFFICES ASSUME RingJob PROVE Spec => ImplementsTransmission
  OBVIOUS
<1>1. Init => Abstract!AbsInit
  BY QueueInitRefines
<1>2. /\ TypeInv /\ RingInv /\ StreamInv /\ (TypeInv /\ RingInv /\ StreamInv)'
      /\ [Next]_vars
      => [Abstract!AbsNext]_(Abstract!absVars)
  BY QueueStepRefines
<1> QED BY <1>1, <1>2, StreamInvariance, PTL
     DEF Spec, ImplementsTransmission, Abstract!AbsSpec
=============================================================================
