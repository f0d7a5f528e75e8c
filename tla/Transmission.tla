---------------------------- MODULE Transmission ----------------------------
(***************************************************************************)
(* What cOutput::operator<< promises of its backends, without buffers,     *)
(* threads or timers: packets are accepted in the order of the packet      *)
(* list, they reach the wire in that order, each at most once, with no gap *)
(* before a transmit error, and a job that ends without Ctrl+C and without *)
(* a transmit error has sent the whole list.  After the end nothing is     *)
(* sent any more.                                                          *)
(***************************************************************************)
EXTENDS Integers, Sequences

CONSTANT Demand     \* packets to be sent

VARIABLES
  Endless,      \* the job has no last packet
  accepted,     \* number of packets accepted
  wire,         \* packets sent, in the order they were sent
  failed,       \* a transmit error occurred
  interrupted,  \* Ctrl+C was pressed
  open          \* the job still runs

absVars == <<Endless, accepted, wire, failed, interrupted, open>>

LastSent == IF wire = <<>> THEN 0 ELSE wire[Len(wire)]

AbsInit ==
  /\ Endless \in BOOLEAN
  /\ accepted = 0
  /\ wire = <<>>
  /\ failed = FALSE
  /\ interrupted \in BOOLEAN
  /\ open = TRUE

Accept ==
  /\ open /\ accepted < Demand
  /\ accepted' = accepted + 1
  /\ UNCHANGED <<Endless, wire, failed, interrupted, open>>

(* Only a transmit error may leave packets out.                            *)
Transmit ==
  /\ open
  /\ \E n \in LastSent + 1 .. accepted :
        /\ n = LastSent + 1 \/ failed
        /\ wire' = Append(wire, n)
  /\ UNCHANGED <<Endless, accepted, failed, interrupted, open>>

Fail ==
  /\ open
  /\ failed' = TRUE
  /\ UNCHANGED <<Endless, accepted, wire, interrupted, open>>

Interrupt ==
  /\ open
  /\ interrupted' = TRUE
  /\ UNCHANGED <<Endless, accepted, wire, failed, open>>

Close ==
  /\ open
  /\ interrupted \/ failed \/ (~Endless /\ LastSent = Demand)
  /\ open' = FALSE
  /\ UNCHANGED <<Endless, accepted, wire, failed, interrupted>>

AbsNext == Accept \/ Transmit \/ Fail \/ Interrupt \/ Close

AbsSpec == AbsInit /\ [][AbsNext]_absVars
=============================================================================
