------------------------------ MODULE Compiler ------------------------------
(***************************************************************************)
(* cCompiler::operator<<: instructions of the command line (PACKET), of    *)
(* script files (SCRIPT) or packets of capture files (PCAP) become a list  *)
(* of packets with the delay before each of them.  The module follows the  *)
(* time line (currtime, scriptStartTime) and the ownership of the packets: *)
(* cInstructionParser::parse creates them, cResult::packets points at the  *)
(* last one, cPacketData owns those in its list and frees them at the end. *)
(* The packets of embedded instructions are owned by nobody.               *)
(* What an instruction says is an input, chosen when it is read.           *)
(***************************************************************************)
EXTENDS Integers, Sequences, SequencesExt

CONSTANTS
  Modes,              \* the values of cCompiler::inputType considered
  Times,              \* time stamps that occur in instructions and captures
  defaultDelayScale,  \* microseconds of a time stamp's unit, the -t option
  DefaultDelays,      \* values of the -d option, in units
  PcapScales,         \* values of the --pcap option
  Word,               \* 2^64: cTimeval counts in an uint64_t
  MaxFiles,           \* bound on the files given
  MaxPackets          \* bound on the packets created

ASSUME CompilerAssumption ==
  /\ Modes \subseteq {"PACKET", "SCRIPT", "PCAP"}
  /\ Times \subseteq 0 .. Word - 1 /\ Times # {}
  /\ defaultDelayScale \in Nat \ {0}
  /\ DefaultDelays \subseteq Nat
  /\ PcapScales \subseteq Nat
  /\ Word \in Nat \ {0}
  /\ MaxFiles \in Nat \ {0}
  /\ MaxPackets \in Nat

VARIABLES
  mode,               \* cCompiler::type
  defaultDelay,
  pcapScalingFactor,
  pc,                 \* where the compiler is
  files,              \* files opened so far
  currtime,
  scriptStartTime,
  hasUserTimestamps,
  data,               \* cPacketData: the packets and their delays
  created,            \* packets created so far, numbered from 1
  embedded,           \* those made by compileEmbedded, for the payload of another
  resultPackets,      \* cResult::packets, 0 for nullptr
  deletes,            \* history: how often each packet was deleted
  requests            \* history: what the instruction of a packet asked for

optionVars == <<mode, defaultDelay, pcapScalingFactor>>
timeVars == <<currtime, scriptStartTime, hasUserTimestamps>>
vars == <<optionVars, pc, files, timeVars, data, created, embedded, resultPackets, deletes, requests>>

NULL == 0

(* cTimeval::add and sub.                                                  *)
SwappedSub(a, b) == b - a
add(a, b) == (a + b) % Word
sub(a, b) == (a - b) % Word

Init ==
  /\ mode \in Modes
  /\ defaultDelay \in DefaultDelays
  /\ pcapScalingFactor \in PcapScales
  /\ pc = IF mode = "PACKET" THEN "parse" ELSE "open"
  /\ files = 0
  /\ currtime = 0 /\ scriptStartTime = 0
  /\ hasUserTimestamps = FALSE
  /\ data = <<>>
  /\ created = 0 /\ embedded = {}
  /\ resultPackets = NULL
  /\ deletes = [p \in 1 .. MaxPackets |-> 0]
  /\ requests = <<>>

Delete(p) == [deletes EXCEPT ![p] = @ + 1]

(* cPacketData::addPacket.                                                 *)
AddPacket(p, delay, stamp) ==
  /\ data' = Append(data, [packet |-> p, time |-> delay])
  /\ requests' = Append(requests, [kind |-> stamp.kind, time |-> stamp.time, file |-> files])

-----------------------------------------------------------------------------
(* Script files and capture files are opened one after the other.          *)
ForgetTime == UNCHANGED scriptStartTime
BeginScript == scriptStartTime' = currtime

(* A capture is timed unless it is to be replayed at full speed.           *)
CaptureUntimed == FALSE
CaptureTimed == pcapScalingFactor # 0

OpenFile ==
  /\ pc = "open" /\ files < MaxFiles
  /\ files' = files + 1
  /\ \/ pc' = "failed" /\ UNCHANGED scriptStartTime
     \/ pc' = "parse" /\ (IF mode = "SCRIPT" THEN BeginScript ELSE UNCHANGED scriptStartTime)
  /\ hasUserTimestamps' =
       IF mode = "PCAP" /\ pc' = "parse" THEN CaptureTimed ELSE hasUserTimestamps
  /\ UNCHANGED <<optionVars, currtime, data, created, embedded, resultPackets, deletes, requests>>

(* The end of a file, or of the arguments; a read error of a capture file  *)
(* ends the program, one of a script file looks like its end.              *)
EndOfFile ==
  /\ pc = "parse"
  /\ mode = "PACKET" => created > 0
  /\ \/ pc' = IF mode = "PACKET" THEN "built" ELSE "open"
     \/ mode = "PCAP" /\ pc' = "failed"
  /\ UNCHANGED <<optionVars, files, timeVars, data, created, embedded, resultPackets, deletes, requests>>

LastFile ==
  /\ pc = "open" /\ files > 0
  /\ pc' = "built"
  /\ UNCHANGED <<optionVars, files, timeVars, data, created, embedded, resultPackets, deletes, requests>>

-----------------------------------------------------------------------------
(* cInstructionParser::parse and what processPackets and processScriptFiles *)
(* do with its result.                                                     *)

Stamps == {[kind |-> "none", time |-> defaultDelay]}
            \cup [kind : {"relative", "absolute"}, time : Times]

(* timestamp.setUs (result.timestamp * defaultDelayScale).                 *)
Scaled(t) == (t * defaultDelayScale) % Word

(* An absolute time stamp counts from the start of its script.             *)
AbsoluteTime(t) == add(Scaled(t), scriptStartTime)

HasTimestamp(stamp) == stamp.kind # "none"

(* parse is at work on an instruction, or on one embedded in it.           *)
Parsing == pc \in {"parse", "embedded"}

(* compileEmbedded has compiled the instruction in a payload, at any depth, *)
(* into a packet of its own.  Only the bytes go to the instruction around, *)
(* the packet itself is forgotten with the local cResult.                  *)
Embed ==
  /\ Parsing /\ mode # "PCAP" /\ created < MaxPackets
  /\ created' = created + 1
  /\ embedded' = embedded \cup {created'}
  /\ pc' = "embedded"
  /\ UNCHANGED <<optionVars, files, timeVars, data, resultPackets, deletes, requests>>

(* Relative stamps move the time line on, absolute ones set it; an absolute *)
(* stamp in the past ends in BUG ("FIXME").                                *)
ParseInstruction(stamp) ==
  /\ Parsing /\ mode # "PCAP" /\ created < MaxPackets
  /\ created' = created + 1
  /\ resultPackets' = created'
  /\ hasUserTimestamps' = (hasUserTimestamps \/ HasTimestamp(stamp))
  /\ \/ /\ stamp.kind # "absolute"
        /\ AddPacket(created', Scaled(stamp.time), stamp)
        /\ currtime' = add(currtime, Scaled(stamp.time))
        /\ pc' = "parse"
     \/ /\ stamp.kind = "absolute" /\ AbsoluteTime(stamp.time) >= currtime
        /\ AddPacket(created', sub(AbsoluteTime(stamp.time), currtime), stamp)
        /\ currtime' = AbsoluteTime(stamp.time)
        /\ pc' = "parse"
     \/ /\ stamp.kind = "absolute" /\ AbsoluteTime(stamp.time) < currtime
        /\ pc' = "bug"
        /\ UNCHANGED <<currtime, data, requests>>
  /\ UNCHANGED <<optionVars, files, scriptStartTime, embedded, deletes>>

(* A time stamp, the protocol or the parameter list is malformed, or an    *)
(* embedded instruction is wrong in any way: the ParseException is not a   *)
(* FormatException and passes the handlers that free result.packets.       *)
SyntaxError ==
  /\ Parsing /\ mode # "PCAP"
  /\ pc' = "failed"
  /\ UNCHANGED <<optionVars, files, timeVars, data, created, embedded, resultPackets, deletes, requests>>

(* "in case of errors possibly created packets are freed again"            *)
KeepPacket(p) == UNCHANGED <<deletes, resultPackets>>
FreePacket(p) ==
  /\ deletes' = IF p # NULL THEN Delete(p) ELSE deletes
  /\ resultPackets' = NULL

(* A parameter is missing or out of range: the FormatException is thrown   *)
(* before result.packets is assigned.                                      *)
ParameterError ==
  /\ Parsing /\ mode # "PCAP"
  /\ FreePacket(resultPackets)
  /\ pc' = "failed"
  /\ UNCHANGED <<optionVars, files, timeVars, data, created, embedded, requests>>

(* checkForUnusedParameters throws after the packet was assigned.          *)
UnusedParameter ==
  /\ Parsing /\ mode # "PCAP" /\ created < MaxPackets
  /\ created' = created + 1
  /\ FreePacket(created')
  /\ pc' = "failed"
  /\ UNCHANGED <<optionVars, files, timeVars, data, embedded, requests>>

-----------------------------------------------------------------------------
(* processPcapFiles: the first packet of a file has time 0, the times of   *)
(* the others count from it.  Captures are in the order of their times.    *)

FirstOfFile == requests = <<>> \/ Last(requests).file # files

FromFirstPacket(t) == t
SincePrevious(t) == sub(t, currtime)

ReadPacket(t) ==
  /\ pc = "parse" /\ mode = "PCAP" /\ created < MaxPackets
  /\ IF FirstOfFile THEN t = 0 ELSE t >= Last(requests).time
  /\ created' = created + 1
  /\ AddPacket(created', (SincePrevious(t) * pcapScalingFactor) % Word,
               [kind |-> "captured", time |-> t])
  /\ currtime' = t
  /\ UNCHANGED <<optionVars, pc, files, scriptStartTime, hasUserTimestamps,
                 embedded, resultPackets, deletes>>

-----------------------------------------------------------------------------
(* cTcpPump::execute returns: ~cPacketData deletes what is in the list.    *)
Exit ==
  /\ pc \in {"built", "failed"}
  /\ pc' = "exited"
  /\ deletes' = [p \in 1 .. MaxPackets |->
                   deletes[p] + (IF \E i \in DOMAIN data : data[i].packet = p
                                 THEN 1 ELSE 0)]
  /\ UNCHANGED <<optionVars, files, timeVars, data, created, embedded, resultPackets, requests>>

Over == pc \in {"exited", "bug"} /\ UNCHANGED vars

Next ==
  \/ OpenFile \/ EndOfFile \/ LastFile
  \/ Embed \/ \E stamp \in Stamps : ParseInstruction(stamp)
  \/ SyntaxError \/ ParameterError \/ UnusedParameter
  \/ \E t \in Times : ReadPacket(t)
  \/ Exit \/ Over

Spec == Init /\ [][Next]_vars

-----------------------------------------------------------------------------
TypeOK ==
  /\ mode \in Modes
  /\ defaultDelay \in DefaultDelays /\ pcapScalingFactor \in PcapScales
  /\ pc \in {"open", "parse", "embedded", "built", "failed", "bug", "exited"}
  /\ files \in 0 .. MaxFiles
  /\ currtime \in 0 .. Word - 1 /\ scriptStartTime \in 0 .. Word - 1
  /\ hasUserTimestamps \in BOOLEAN
  /\ data \in Seq([packet : 1 .. MaxPackets, time : 0 .. Word - 1])
  /\ created \in 0 .. MaxPackets /\ embedded \subseteq 1 .. created
  /\ resultPackets \in 0 .. MaxPackets
  /\ deletes \in [1 .. MaxPackets -> Nat]
  /\ requests \in Seq([kind : {"none", "relative", "absolute", "captured"},
                       time : Nat, file : 0 .. MaxFiles])
  /\ Len(requests) = Len(data)

(* When packet n leaves, counted from the start: the sum of the delays.    *)
SendTime[n \in Nat] ==
  IF n = 0 THEN 0
  ELSE SendTime[n - 1] + (IF n \in DOMAIN data THEN data[n].time ELSE 0)

(* The number of packets of the files before file f, which come first.     *)
PacketsBefore(f) ==
  CHOOSE n \in 0 .. Len(requests) : \A i \in DOMAIN requests : requests[i].file < f <=> i <= n

(* A script starts when the last packet of the scripts before it leaves.   *)
StartOfFile(f) == SendTime[PacketsBefore(f)]

(* A packet with an absolute stamp leaves at that time after the start of  *)
(* its script, whatever mixture of relative, absolute and missing stamps,  *)
(* of this script and of earlier ones, precedes it (compiler.cpp:174-190). *)
AbsoluteTimesKept ==
  \A i \in DOMAIN data :
    requests[i].kind = "absolute" =>
      SendTime[i] = StartOfFile(requests[i].file) + Scaled(requests[i].time)

(* "the file is played in real-time" (README.md:92): within a file the     *)
(* delays are those of the capture, scaled.  The first packet of a second  *)
(* file is not meant: compiler.cpp:84 subtracts a time of the file before. *)
RealTimeReplay ==
  \A i \in DOMAIN data :
    (requests[i].kind = "captured" /\ i > 1 /\ requests[i - 1].file = requests[i].file) =>
      data[i].time = (requests[i].time - requests[i - 1].time) * pcapScalingFactor

(* A list with a delay in it is sent in the real-time mode (tcppump.cpp:   *)
(* realtimeMode), or the timer would not be measured before it is used.    *)
RealtimeIfTimed ==
  (\E i \in DOMAIN data : data[i].time # 0) => hasUserTimestamps \/ defaultDelay # 0

(* When the program returns, through whichever of the error paths, it has  *)
(* freed the packets of all instructions and captures, and has left behind *)
(* exactly those of embedded instructions (instructionparser.cpp:391-441). *)
OnlyEmbeddedLeaked ==
  pc = "exited" => {p \in 1 .. created : deletes[p] = 0} = embedded

(* "in case of errors possibly created packets are freed again"            *)
(* (instructionparser.cpp:165): no packet is freed twice.                  *)
FreedOnce == \A p \in 1 .. created : deletes[p] <= 1
=============================================================================
