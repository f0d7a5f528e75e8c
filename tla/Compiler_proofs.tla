--------------------------- MODULE Compiler_proofs ---------------------------
(***************************************************************************)
(* Theorems about the compiler, for all scripts and captures, all time     *)
(* stamps and options, and every width of the time line.                   *)
(***************************************************************************)
EXTENDS Compiler, NaturalLemmas

-----------------------------------------------------------------------------
(* The inductive invariant.                                                *)

InList(n) == \E i \in DOMAIN data : data[i].packet = n

(* The list and the result point at packets that exist, never at an        *)
(* embedded one, and nothing is freed before it exists.                    *)
Pointers ==
  /\ \A i \in DOMAIN data : data[i].packet \in (1 .. created) \ embedded
  /\ resultPackets \in (0 .. created) \ embedded
  /\ \A n \in 1 .. MaxPackets : n \in embedded \/ n > created => deletes[n] = 0

(* A packet is embedded, in the list that will free it, or already freed.  *)
(* After BUG the program does not return.                                  *)
Owned ==
  /\ Pointers
  /\ pc \notin {"exited", "bug"} =>
       \A n \in (1 .. created) \ embedded : deletes[n] > 0 \/ InList(n)
  /\ OnlyEmbeddedLeaked

Captured == [kind : {"captured"}, time : Times, file : 0 .. MaxFiles]
Instructed == [kind : {"none", "relative", "absolute"}, time : Nat, file : 0 .. MaxFiles]

(* Captures and instructions are never mixed; the time line of a capture   *)
(* stands at its last packet.                                              *)
Sources ==
  IF mode = "PCAP"
  THEN requests \in Seq(Captured) /\ (requests # <<>> => currtime = Last(requests).time)
  ELSE requests \in Seq(Instructed)

(* In a capture all delays are scaled by the factor that decides about the *)
(* real-time mode.                                                         *)
Timed ==
  /\ mode = "PCAP" /\ (pc = "parse" \/ data # <<>>) => hasUserTimestamps = CaptureTimed
  /\ mode = "PCAP" /\ ~CaptureTimed => \A i \in DOMAIN data : data[i].time = 0
  /\ RealtimeIfTimed

CompileInv == TypeOK /\ Owned /\ Sources /\ Timed

(* No delay of a capture overflows cTimeval.                               *)
CaptureFits == \A t \in Times, s \in PcapScales : t * s < Word

(* No time of a script overflows cTimeval: neither of the two can, in 2^64 *)
(* microseconds, unless a stamp is given in thousands of years.            *)
ScheduleFits ==
  \E longest \in Nat :
    /\ longest * MaxPackets < Word
    /\ \A t \in Times \cup DefaultDelays : t * defaultDelayScale <= longest

(* The first n packets are those of the files before file f.               *)
Before(f, n) == \A i \in DOMAIN requests : requests[i].file < f <=> i <= n

(* The files come one after the other; there are none of the command line. *)
FilesInOrder ==
  /\ mode = "PACKET" => pc # "open"
  /\ \A i \in DOMAIN requests : requests[i].file <= files
  /\ \A f \in 0 .. files : \E n \in 0 .. Len(requests) : Before(f, n)

(* The time line is when the last packet leaves, and the start of a script *)
(* when the last packet of the scripts before it leaves.                   *)
OnTimeLine ==
  /\ currtime = SendTime[Len(data)]
  /\ Parsing => scriptStartTime = StartOfFile(files)

(* It does not wrap around.                                                *)
Unwrapped(longest) ==
  currtime <= longest * created /\ scriptStartTime <= longest * created

TimeLineInv(longest) ==
  mode # "PCAP" => FilesInOrder /\ OnTimeLine /\ Unwrapped(longest) /\ AbsoluteTimesKept

-----------------------------------------------------------------------------
(* Lemmas about the time line.                                             *)

(* Times fit into the time line whatever is added or subtracted.           *)
LEMMA WordArithmetic ==
  ASSUME NEW a \in Int, NEW b \in Int
  PROVE  /\ add(a, b) \in 0 .. Word - 1 /\ sub(a, b) \in 0 .. Word - 1
         /\ (a * b) % Word \in 0 .. Word - 1
<1>1. a * b \in Int /\ Word \in Nat \ {0}
  BY CompilerAssumption
<1>2. ASSUME NEW x \in Int PROVE x % Word \in 0 .. Word - 1
  BY <1>1
<1>3. a + b \in Int /\ a - b \in Int
  OBVIOUS
<1> QED BY <1>1, <1>2, <1>3, Zenon DEF add, sub

(* Nothing times something is nothing.                                     *)
LEMMA ZeroScaled ==
  ASSUME NEW a \in Int
  PROVE  (0 * a) % Word = 0 /\ (a * 0) % Word = 0
<1>1. 0 * a = 0 /\ a * 0 = 0
  OBVIOUS
<1>2. Word \in Nat \ {0}
  BY CompilerAssumption
<1> QED BY <1>1, <1>2

(* What Append does.                                                       *)
LEMMA Appended ==
  ASSUME NEW S, NEW s \in Seq(S), NEW e \in S, NEW t, t = Append(s, e)
  PROVE  /\ Len(s) \in Nat /\ DOMAIN s = 1 .. Len(s)
         /\ t \in Seq(S) /\ Len(t) = Len(s) + 1 /\ DOMAIN t = 1 .. Len(s) + 1
         /\ t[Len(s) + 1] = e
         /\ \A i \in DOMAIN s : i \in DOMAIN t /\ t[i] = s[i]
OBVIOUS

(* A packet and its delay enter the list.                                  *)
LEMMA AddedTypes ==
  ASSUME TypeOK, NEW n \in 1 .. MaxPackets, NEW d \in 0 .. Word - 1,
         NEW stamp \in [kind : {"none", "relative", "absolute", "captured"}, time : Nat],
         AddPacket(n, d, stamp)
  PROVE  /\ data' \in Seq([packet : 1 .. MaxPackets, time : 0 .. Word - 1])
         /\ requests' \in Seq([kind : {"none", "relative", "absolute", "captured"},
                               time : Nat, file : 0 .. MaxFiles])
         /\ Len(requests') = Len(data')
         /\ DOMAIN data' = 1 .. Len(data) + 1 /\ data'[Len(data) + 1] = [packet |-> n, time |-> d]
         /\ \A i \in DOMAIN data : data'[i] = data[i]
<1>1. /\ data' = Append(data, [packet |-> n, time |-> d])
      /\ requests' = Append(requests, [kind |-> stamp.kind, time |-> stamp.time, file |-> files])
  BY DEF AddPacket
<1>2. /\ data \in Seq([packet : 1 .. MaxPackets, time : 0 .. Word - 1])
      /\ [packet |-> n, time |-> d] \in [packet : 1 .. MaxPackets, time : 0 .. Word - 1]
      /\ Len(requests) = Len(data)
  BY DEF TypeOK
<1> DEFINE R == [kind : {"none", "relative", "absolute", "captured"},
                 time : Nat, file : 0 .. MaxFiles]
           r == [kind |-> stamp.kind, time |-> stamp.time, file |-> files]
<1>3. requests \in Seq(R) /\ r \in R
  BY DEF TypeOK
<1> HIDE DEF R, r
<1>4. requests' \in Seq(R) /\ Len(requests') = Len(requests) + 1
  BY <1>1, <1>3 DEF r
<1>5. /\ data' \in Seq([packet : 1 .. MaxPackets, time : 0 .. Word - 1])
      /\ Len(data') = Len(data) + 1
      /\ DOMAIN data' = 1 .. Len(data) + 1 /\ data'[Len(data) + 1] = [packet |-> n, time |-> d]
      /\ \A i \in DOMAIN data : data'[i] = data[i]
  BY <1>1, <1>2
<1> QED BY <1>2, <1>4, <1>5 DEF R

-----------------------------------------------------------------------------
(* The steps.                                                              *)

(* The compiler before its first step.                                     *)
LEMMA CompileInit == Init => CompileInv
<1> SUFFICES ASSUME Init PROVE CompileInv
  OBVIOUS
<1>1. TypeOK
  <2>1. hasUserTimestamps \in BOOLEAN
    BY DEF Init
  <2>2. /\ data \in Seq([packet : 1 .. MaxPackets, time : 0 .. Word - 1])
        /\ Len(requests) = Len(data)
        /\ requests \in Seq([kind : {"none", "relative", "absolute", "captured"},
                             time : Nat, file : 0 .. MaxFiles])
    BY DEF Init
  <2>3. 0 \in 0 .. Word - 1 /\ 0 \in 0 .. MaxFiles /\ 0 \in 0 .. MaxPackets
    BY CompilerAssumption
  <2>4. deletes \in [1 .. MaxPackets -> Nat]
    BY DEF Init
  <2>5. embedded \subseteq 1 .. created
    BY DEF Init
  <2> QED BY <2>1, <2>2, <2>3, <2>4, <2>5 DEF Init, TypeOK, NULL
<1>2. Owned
  <2>1. Pointers
    BY DEF Init, Pointers, NULL
  <2> QED BY <2>1 DEF Init, Owned, OnlyEmbeddedLeaked
<1>3. Sources
  BY DEF Init, Sources
<1>4. Timed
  BY DEF Init, Timed, RealtimeIfTimed, CaptureTimed
<1> QED BY <1>1, <1>2, <1>3, <1>4 DEF CompileInv

(* Steps that only go on: the end of a file or of all files, a syntax      *)
(* error, or none.                                                         *)
LEMMA QuietStep ==
  ASSUME CompileInv, EndOfFile \/ LastFile \/ SyntaxError \/ Over \/ UNCHANGED vars
  PROVE  CompileInv'
<1> USE DEF optionVars, timeVars, vars
<1>1. /\ UNCHANGED <<optionVars, files, timeVars, data, created, embedded, resultPackets, deletes, requests>>
      /\ \/ pc' = pc
         \/ pc \in {"open", "parse", "embedded"} /\ pc' \in {"open", "built", "failed"}
  BY DEF EndOfFile, LastFile, SyntaxError, Parsing, Over
<1>2. TypeOK' /\ Sources'
  BY <1>1 DEF CompileInv, TypeOK, Sources
<1>3. Owned'
  BY <1>1 DEF CompileInv, Owned, Pointers, InList, OnlyEmbeddedLeaked
<1>4. Timed'
  BY <1>1 DEF CompileInv, Timed, RealtimeIfTimed, CaptureTimed
<1> QED BY <1>2, <1>3, <1>4 DEF CompileInv

(* A file is opened; that of a capture decides about the real-time mode.   *)
LEMMA OpenFileStep == CompileInv /\ OpenFile => CompileInv'
<1> SUFFICES ASSUME CompileInv, OpenFile PROVE CompileInv'
  OBVIOUS
<1> USE DEF optionVars, timeVars
<1>1. /\ pc = "open" /\ files < MaxFiles /\ files' = files + 1 /\ pc' \in {"failed", "parse"}
      /\ scriptStartTime' \in {scriptStartTime, currtime}
      /\ hasUserTimestamps' =
           IF mode = "PCAP" /\ pc' = "parse" THEN CaptureTimed ELSE hasUserTimestamps
      /\ UNCHANGED <<optionVars, currtime, data, created, embedded, resultPackets, deletes, requests>>
  BY DEF OpenFile, BeginScript
<1>2. TypeOK'
  <2>1. files' \in 0 .. MaxFiles
    BY <1>1, CompilerAssumption DEF CompileInv, TypeOK
  <2>2. hasUserTimestamps' \in BOOLEAN
    BY <1>1 DEF CompileInv, TypeOK, CaptureTimed
  <2> QED BY <1>1, <2>1, <2>2 DEF CompileInv, TypeOK
<1>3. Owned' /\ Sources'
  BY <1>1 DEF CompileInv, Owned, Pointers, InList, OnlyEmbeddedLeaked, Sources
<1>4. Timed'
  BY <1>1 DEF CompileInv, Timed, RealtimeIfTimed, CaptureTimed
<1> QED BY <1>2, <1>3, <1>4 DEF CompileInv

(* What an instruction says of the time.                                   *)
LEMMA StampTypes ==
  ASSUME TypeOK, NEW stamp \in Stamps
  PROVE  /\ stamp \in [kind : {"none", "relative", "absolute"}, time : Nat]
         /\ Scaled(stamp.time) \in 0 .. Word - 1
         /\ AbsoluteTime(stamp.time) \in 0 .. Word - 1
         /\ sub(AbsoluteTime(stamp.time), currtime) \in 0 .. Word - 1
         /\ add(currtime, Scaled(stamp.time)) \in 0 .. Word - 1
         /\ ~HasTimestamp(stamp) /\ defaultDelay = 0 =>
              stamp.kind = "none" /\ Scaled(stamp.time) = 0
<1>1. /\ defaultDelay \in Nat /\ currtime \in Int /\ scriptStartTime \in Int
      /\ defaultDelayScale \in Int
  BY CompilerAssumption DEF TypeOK
<1>2. stamp \in [kind : {"none", "relative", "absolute"}, time : Nat]
  <2>1. CASE stamp = [kind |-> "none", time |-> defaultDelay]
    BY <1>1, <2>1
  <2>2. CASE stamp \in [kind : {"relative", "absolute"}, time : Times]
    <3>1. Times \subseteq Nat
      BY CompilerAssumption
    <3> QED BY <2>2, <3>1
  <2> QED BY <2>1, <2>2 DEF Stamps
<1>3. stamp.time \in Int
  BY <1>2
<1>4. Scaled(stamp.time) \in 0 .. Word - 1
  BY <1>1, <1>3, WordArithmetic DEF Scaled
<1>5. Scaled(stamp.time) \in Int
  BY <1>4
<1>6. AbsoluteTime(stamp.time) \in 0 .. Word - 1
  BY <1>1, <1>5, WordArithmetic DEF AbsoluteTime
<1>7. AbsoluteTime(stamp.time) \in Int
  BY <1>6
<1>8. /\ sub(AbsoluteTime(stamp.time), currtime) \in 0 .. Word - 1
      /\ add(currtime, Scaled(stamp.time)) \in 0 .. Word - 1
  BY <1>1, <1>5, <1>7, WordArithmetic
<1>9. ASSUME ~HasTimestamp(stamp), defaultDelay = 0
      PROVE  stamp.kind = "none" /\ Scaled(stamp.time) = 0
  <2>1. stamp.kind = "none" /\ stamp.time = 0
    BY <1>9 DEF HasTimestamp, Stamps
  <2> QED BY <1>1, <2>1, ZeroScaled DEF Scaled
<1> QED BY <1>2, <1>4, <1>6, <1>8, <1>9

(* A new packet is owned by the list.                                      *)
LEMMA AddedOwned ==
  ASSUME TypeOK, Owned, Parsing, pc' = "parse", created' = created + 1,
         resultPackets' \in {resultPackets, created + 1}, UNCHANGED <<embedded, deletes>>,
         created + 1 \in 1 .. MaxPackets, NEW d \in 0 .. Word - 1,
         NEW stamp \in [kind : {"none", "relative", "absolute", "captured"}, time : Nat],
         AddPacket(created + 1, d, stamp)
  PROVE  Owned'
<1>1. /\ DOMAIN data' = 1 .. Len(data) + 1
      /\ data'[Len(data) + 1] = [packet |-> created + 1, time |-> d]
      /\ \A i \in DOMAIN data : data'[i] = data[i]
  BY AddedTypes
<1>2. DOMAIN data = 1 .. Len(data) /\ Len(data) \in Nat /\ created \in Nat
  BY CompilerAssumption DEF TypeOK
<1>3. ASSUME NEW n \in (1 .. created') \ embedded
      PROVE  deletes'[n] > 0 \/ InList(n)'
  <2>1. CASE n = created + 1
    <3>1. Len(data) + 1 \in DOMAIN data' /\ data'[Len(data) + 1].packet = n
      BY <1>1, <1>2, <2>1
    <3> QED BY <3>1 DEF InList
  <2>2. CASE n # created + 1
    <3>1. n \in (1 .. created) \ embedded
      BY <1>2, <2>2
    <3>2. deletes[n] > 0 \/ InList(n)
      BY <3>1 DEF Owned, Parsing
    <3>3. ASSUME InList(n) PROVE InList(n)'
      <4>1. PICK i \in DOMAIN data : data[i].packet = n
        BY <3>3 DEF InList
      <4>2. data'[i] = data[i]
        BY <1>1
      <4>3. i \in DOMAIN data'
        <5>1. i \in 1 .. Len(data) + 1
          BY <1>2
        <5> QED BY <1>1, <5>1
      <4> QED BY <4>1, <4>2, <4>3 DEF InList
    <3> QED BY <3>2, <3>3
  <2> QED BY <2>1, <2>2
<1>4. created + 1 \notin embedded
  BY <1>2 DEF TypeOK
<1>5. Pointers'
  <2>1. ASSUME NEW i \in DOMAIN data' PROVE data'[i].packet \in (1 .. created + 1) \ embedded
    <3>1. CASE i = Len(data) + 1
      BY <1>1, <1>2, <1>4, <3>1
    <3>2. CASE i # Len(data) + 1
      <4>1. i \in DOMAIN data
        BY <1>1, <1>2, <3>2
      <4>2. data[i].packet \in (1 .. created) \ embedded
        BY <4>1 DEF Owned, Pointers
      <4> QED BY <1>1, <1>2, <4>1, <4>2
    <3> QED BY <3>1, <3>2
  <2>2. resultPackets' \in (0 .. created + 1) \ embedded
    BY <1>2, <1>4 DEF Owned, Pointers
  <2>3. ASSUME NEW n \in 1 .. MaxPackets, n \in embedded \/ n > created + 1
        PROVE  deletes[n] = 0
    BY <1>2, <2>3, CompilerAssumption DEF Owned, Pointers
  <2> QED BY <2>1, <2>2, <2>3 DEF Pointers
<1> QED BY <1>3, <1>5 DEF Owned, OnlyEmbeddedLeaked

(* The packet of an embedded instruction.                                  *)
LEMMA EmbedStep == CompileInv /\ Embed => CompileInv'
<1> SUFFICES ASSUME CompileInv, Embed PROVE CompileInv'
  OBVIOUS
<1> USE DEF optionVars, timeVars
<1>0. TypeOK /\ Owned /\ Sources /\ Timed
  BY DEF CompileInv
<1>1. /\ Parsing /\ mode # "PCAP" /\ created < MaxPackets /\ created' = created + 1
      /\ embedded' = embedded \cup {created + 1} /\ pc' = "embedded"
      /\ UNCHANGED <<optionVars, files, timeVars, data, resultPackets, deletes, requests>>
  BY DEF Embed
<1>2. /\ created \in Nat /\ MaxPackets \in Nat /\ created + 1 \in 0 .. MaxPackets
      /\ embedded \subseteq 1 .. created
  BY <1>0, <1>1, CompilerAssumption DEF TypeOK
<1>3. TypeOK' /\ Sources'
  <2>1. embedded' \subseteq 1 .. created'
    BY <1>1, <1>2
  <2> QED BY <1>0, <1>1, <1>2, <2>1 DEF TypeOK, Sources
<1>4. Pointers'
  <2>1. \A i \in DOMAIN data : data[i].packet \in (1 .. created') \ embedded'
    BY <1>0, <1>1, <1>2 DEF Owned, Pointers
  <2>2. resultPackets \in (0 .. created') \ embedded'
    BY <1>0, <1>1, <1>2 DEF Owned, Pointers
  <2>3. \A n \in 1 .. MaxPackets : n \in embedded' \/ n > created' => deletes[n] = 0
    BY <1>0, <1>1, <1>2 DEF Owned, Pointers
  <2> QED BY <1>1, <2>1, <2>2, <2>3 DEF Pointers
<1>5. Owned'
  <2>1. ASSUME NEW n \in (1 .. created') \ embedded' PROVE deletes[n] > 0 \/ InList(n)
    <3>1. n \in (1 .. created) \ embedded
      BY <1>1, <1>2
    <3> QED BY <1>0, <1>1, <3>1 DEF Owned, Parsing
  <2> QED BY <1>1, <1>4, <2>1 DEF Owned, InList, OnlyEmbeddedLeaked
<1>6. Timed'
  BY <1>0, <1>1 DEF Timed, RealtimeIfTimed, CaptureTimed
<1> QED BY <1>3, <1>5, <1>6 DEF CompileInv

(* An instruction becomes a packet of the list, or a stamp in the past     *)
(* ends in BUG.                                                            *)
LEMMA ParseInstructionStep ==
  ASSUME CompileInv, NEW stamp \in Stamps, ParseInstruction(stamp)
  PROVE  CompileInv'
<1> USE DEF optionVars, timeVars
<1>0. TypeOK /\ Owned /\ Sources /\ Timed
  BY DEF CompileInv
<1>1. /\ Parsing /\ mode # "PCAP" /\ created < MaxPackets /\ created' = created + 1
      /\ resultPackets' = created + 1
      /\ hasUserTimestamps' = (hasUserTimestamps \/ HasTimestamp(stamp))
      /\ UNCHANGED <<optionVars, files, scriptStartTime, embedded, deletes>>
  BY DEF ParseInstruction
<1>2. /\ created + 1 \in 1 .. MaxPackets /\ created \in Nat
      /\ embedded \subseteq 1 .. created + 1 /\ created + 1 \notin embedded
  BY <1>0, <1>1, CompilerAssumption DEF TypeOK
<1>3. stamp \in [kind : {"none", "relative", "absolute", "captured"}, time : Nat]
  BY <1>0, StampTypes
<1>4. hasUserTimestamps' \in BOOLEAN
  BY <1>1
<1>5. CASE pc' = "bug" /\ UNCHANGED <<currtime, data, requests>>
  <2>1. TypeOK' /\ Sources'
    BY <1>0, <1>1, <1>2, <1>4, <1>5 DEF TypeOK, Sources
  <2>2. Timed'
    BY <1>0, <1>1, <1>5 DEF Timed, RealtimeIfTimed, CaptureTimed
  <2>3. Pointers'
    <3>1. \A i \in DOMAIN data : data[i].packet \in (1 .. created + 1) \ embedded
      BY <1>0, <1>2 DEF Owned, Pointers
    <3>2. \A n \in 1 .. MaxPackets : n \in embedded \/ n > created + 1 => deletes[n] = 0
      BY <1>0, <1>2 DEF Owned, Pointers
    <3> QED BY <1>1, <1>2, <1>5, <3>1, <3>2 DEF Pointers
  <2>4. Owned'
    BY <1>1, <1>5, <2>3 DEF Owned, OnlyEmbeddedLeaked
  <2> QED BY <2>1, <2>2, <2>4 DEF CompileInv
<1>6. ASSUME NEW d \in 0 .. Word - 1, AddPacket(created + 1, d, stamp), pc' = "parse",
             currtime' \in 0 .. Word - 1,
             ~HasTimestamp(stamp) /\ defaultDelay = 0 => d = 0
      PROVE  CompileInv'
  <2>1. /\ data' \in Seq([packet : 1 .. MaxPackets, time : 0 .. Word - 1])
        /\ requests' \in Seq([kind : {"none", "relative", "absolute", "captured"},
                              time : Nat, file : 0 .. MaxFiles])
        /\ Len(requests') = Len(data')
        /\ DOMAIN data' = 1 .. Len(data) + 1
        /\ data'[Len(data) + 1] = [packet |-> created + 1, time |-> d]
        /\ \A i \in DOMAIN data : data'[i] = data[i]
    BY <1>0, <1>2, <1>3, <1>6, AddedTypes
  <2>2. DOMAIN data = 1 .. Len(data) /\ Len(data) \in Nat
    BY <1>0 DEF TypeOK
  <2>3. TypeOK'
    <3>1. created' \in 0 .. MaxPackets /\ resultPackets' \in 0 .. MaxPackets
            /\ embedded' \subseteq 1 .. created'
      BY <1>1, <1>2
    <3>2. files' \in 0 .. MaxFiles /\ scriptStartTime' \in 0 .. Word - 1
            /\ deletes' \in [1 .. MaxPackets -> Nat]
      BY <1>0, <1>1 DEF TypeOK
    <3> QED BY <1>0, <1>1, <1>4, <1>6, <2>1, <3>1, <3>2 DEF TypeOK
  <2>4. Sources'
    <3> DEFINE r == [kind |-> stamp.kind, time |-> stamp.time, file |-> files]
    <3>1. r \in Instructed
      BY <1>0, StampTypes DEF Instructed, TypeOK
    <3>2. requests \in Seq(Instructed) /\ requests' = Append(requests, r)
      BY <1>0, <1>1, <1>6 DEF Sources, AddPacket
    <3> HIDE DEF r
    <3>3. requests' \in Seq(Instructed)
      BY <3>1, <3>2
    <3> QED BY <1>1, <3>3 DEF Sources
  <2>5. Owned'
    BY <1>0, <1>1, <1>2, <1>3, <1>6, AddedOwned
  <2>6. Timed'
    <3>1. ASSUME ~hasUserTimestamps', defaultDelay = 0, NEW i \in DOMAIN data'
          PROVE  data'[i].time = 0
      <4>1. CASE i = Len(data) + 1
        <5>1. ~HasTimestamp(stamp)
          BY <1>1, <3>1
        <5>2. d = 0
          BY <1>6, <3>1, <5>1
        <5> QED BY <2>1, <4>1, <5>2
      <4>2. CASE i # Len(data) + 1
        <5>1. i \in DOMAIN data
          BY <2>1, <2>2, <4>2
        <5> QED BY <1>0, <1>1, <2>1, <3>1, <5>1 DEF Timed, RealtimeIfTimed
      <4> QED BY <4>1, <4>2
    <3> QED BY <1>1, <3>1 DEF Timed, RealtimeIfTimed
  <2> QED BY <2>3, <2>4, <2>5, <2>6 DEF CompileInv
<1>7. CASE /\ stamp.kind # "absolute" /\ AddPacket(created + 1, Scaled(stamp.time), stamp)
           /\ currtime' = add(currtime, Scaled(stamp.time)) /\ pc' = "parse"
  BY <1>0, <1>6, <1>7, StampTypes
<1>8. CASE /\ stamp.kind = "absolute"
           /\ AddPacket(created + 1, sub(AbsoluteTime(stamp.time), currtime), stamp)
           /\ currtime' = AbsoluteTime(stamp.time) /\ pc' = "parse"
  <2>1. HasTimestamp(stamp)
    BY <1>8 DEF HasTimestamp
  <2> QED BY <1>0, <1>6, <1>8, <2>1, StampTypes
<1> QED BY <1>1, <1>5, <1>7, <1>8 DEF ParseInstruction

(* A packet of the result is freed.                                        *)
LEMMA FreedTypes ==
  ASSUME TypeOK, NEW n \in 0 .. MaxPackets, FreePacket(n)
  PROVE  /\ deletes' \in [1 .. MaxPackets -> Nat] /\ resultPackets' = 0
         /\ \A k \in 1 .. MaxPackets : deletes[k] > 0 => deletes'[k] > 0
         /\ n # 0 => deletes'[n] > 0
         /\ \A k \in 1 .. MaxPackets : k # n => deletes'[k] = deletes[k]
<1>1. deletes \in [1 .. MaxPackets -> Nat]
  BY DEF TypeOK
<1>2. CASE n = 0
  BY <1>1, <1>2 DEF FreePacket, NULL
<1>3. CASE n # 0
  <2>1. deletes' = [deletes EXCEPT ![n] = @ + 1] /\ resultPackets' = 0 /\ n \in 1 .. MaxPackets
    BY <1>3, CompilerAssumption DEF FreePacket, NULL, Delete
  <2>2. deletes' \in [1 .. MaxPackets -> Nat]
    BY <1>1, <2>1
  <2>3. \A k \in 1 .. MaxPackets : deletes[k] > 0 => deletes'[k] > 0
    BY <1>1, <2>1
  <2>4. deletes'[n] > 0
    BY <1>1, <2>1
  <2>5. \A k \in 1 .. MaxPackets : k # n => deletes'[k] = deletes[k]
    BY <1>1, <2>1
  <2> QED BY <2>1, <2>2, <2>3, <2>4, <2>5
<1> QED BY <1>2, <1>3

(* A wrong parameter: what the result points at is freed.                  *)
LEMMA ErrorStep == CompileInv /\ (ParameterError \/ UnusedParameter) => CompileInv'
<1> SUFFICES ASSUME CompileInv, ParameterError \/ UnusedParameter PROVE CompileInv'
  OBVIOUS
<1> USE DEF optionVars, timeVars
<1>0. TypeOK /\ Owned /\ Sources /\ Timed
  BY DEF CompileInv
<1>1. /\ Parsing /\ mode # "PCAP" /\ pc' = "failed"
      /\ UNCHANGED <<optionVars, files, timeVars, data, embedded, requests>>
      /\ \/ FreePacket(resultPackets) /\ created' = created
         \/ FreePacket(created + 1) /\ created' = created + 1 /\ created < MaxPackets
  BY DEF ParameterError, UnusedParameter
<1>2. /\ created \in Nat /\ created' \in 0 .. MaxPackets
      /\ deletes' \in [1 .. MaxPackets -> Nat] /\ resultPackets' = 0
      /\ \A k \in 1 .. MaxPackets : deletes[k] > 0 => deletes'[k] > 0
      /\ created' = created + 1 => deletes'[created + 1] > 0
      /\ created' = created \/ created' = created + 1
      /\ \A k \in 1 .. MaxPackets : k \in embedded \/ k > created' => deletes'[k] = 0
  <2>0. /\ created \in 0 .. MaxPackets /\ resultPackets \in 0 .. MaxPackets /\ MaxPackets \in Nat
        /\ created + 1 \notin embedded
    BY <1>0, CompilerAssumption DEF TypeOK
  <2>1. CASE FreePacket(resultPackets) /\ created' = created
    <3>1. \A k \in 1 .. MaxPackets :
            k \in embedded \/ k > created => k # resultPackets /\ deletes[k] = 0
      BY <1>0, <2>0 DEF Owned, Pointers
    <3> QED BY <1>0, <2>0, <2>1, <3>1, FreedTypes
  <2>2. CASE FreePacket(created + 1) /\ created' = created + 1 /\ created < MaxPackets
    <3>1. created + 1 \in 0 .. MaxPackets /\ created + 1 # 0
      BY <2>0, <2>2
    <3>2. \A k \in 1 .. MaxPackets :
            k \in embedded \/ k > created + 1 => k # created + 1 /\ deletes[k] = 0
      BY <1>0, <2>0 DEF Owned, Pointers
    <3> QED BY <1>0, <2>0, <2>2, <3>1, <3>2, FreedTypes
  <2> QED BY <1>1, <2>1, <2>2
<1>3. TypeOK' /\ Sources'
  <2>1. 0 \in 0 .. MaxPackets
    BY CompilerAssumption
  <2>2. embedded' \subseteq 1 .. created'
    BY <1>0, <1>1, <1>2 DEF TypeOK
  <2> QED BY <1>0, <1>1, <1>2, <2>1, <2>2 DEF TypeOK, Sources
<1>4. Owned'
  <2>0. Pointers'
    <3>1. \A i \in DOMAIN data : data[i].packet \in (1 .. created') \ embedded
      BY <1>0, <1>2 DEF Owned, Pointers
    <3>2. 0 \in (0 .. created') \ embedded
      BY <1>0, <1>2 DEF TypeOK
    <3> QED BY <1>1, <1>2, <3>1, <3>2 DEF Pointers
  <2>1. ASSUME NEW n \in (1 .. created') \ embedded PROVE deletes'[n] > 0 \/ InList(n)
    <3>1. (n = created + 1 /\ created' = created + 1) \/ n \in (1 .. created) \ embedded
      BY <1>2
    <3>2. n \in 1 .. MaxPackets
      BY <1>2, CompilerAssumption
    <3> QED BY <1>0, <1>1, <1>2, <3>1, <3>2 DEF Owned, Parsing
  <2> QED BY <1>1, <2>0, <2>1 DEF Owned, InList, OnlyEmbeddedLeaked
<1>5. Timed'
  BY <1>0, <1>1 DEF Timed, RealtimeIfTimed, CaptureTimed
<1> QED BY <1>3, <1>4, <1>5 DEF CompileInv

(* What a packet of a capture adds to the list.                            *)
LEMMA CaptureTypes ==
  ASSUME TypeOK, NEW t \in Times
  PROVE  /\ [kind |-> "captured", time |-> t]
              \in [kind : {"none", "relative", "absolute", "captured"}, time : Nat]
         /\ (SincePrevious(t) * pcapScalingFactor) % Word \in 0 .. Word - 1
         /\ ~CaptureTimed => (SincePrevious(t) * pcapScalingFactor) % Word = 0
<1>1. t \in Nat /\ t \in Int /\ currtime \in Int /\ pcapScalingFactor \in Int
  BY CompilerAssumption DEF TypeOK
<1>2. SincePrevious(t) \in 0 .. Word - 1
  BY <1>1, WordArithmetic DEF SincePrevious
<1>3. SincePrevious(t) \in Int
  BY <1>2
<1>4. (SincePrevious(t) * pcapScalingFactor) % Word \in 0 .. Word - 1
  BY <1>1, <1>3, WordArithmetic
<1>5. ~CaptureTimed => (SincePrevious(t) * pcapScalingFactor) % Word = 0
  BY <1>3, ZeroScaled DEF CaptureTimed
<1> QED BY <1>1, <1>4, <1>5

(* A packet of a capture file.                                             *)
LEMMA ReadPacketStep ==
  ASSUME CompileInv, NEW t \in Times, ReadPacket(t)
  PROVE  CompileInv'
<1> USE DEF optionVars, timeVars
<1> DEFINE stamp == [kind |-> "captured", time |-> t]
           d == (SincePrevious(t) * pcapScalingFactor) % Word
<1>0. TypeOK /\ Owned /\ Sources /\ Timed
  BY DEF CompileInv
<1>1. /\ pc = "parse" /\ pc' = pc /\ mode = "PCAP" /\ created < MaxPackets
      /\ created' = created + 1 /\ AddPacket(created + 1, d, stamp) /\ currtime' = t
      /\ UNCHANGED <<optionVars, pc, files, scriptStartTime, hasUserTimestamps,
                     embedded, resultPackets, deletes>>
  BY DEF ReadPacket
<1>2. created + 1 \in 1 .. MaxPackets /\ created \in Nat
  BY <1>0, <1>1, CompilerAssumption DEF TypeOK
<1>3. /\ stamp \in [kind : {"none", "relative", "absolute", "captured"}, time : Nat]
      /\ d \in 0 .. Word - 1 /\ (~CaptureTimed => d = 0)
  BY <1>0, CaptureTypes
<1>4. stamp.kind = "captured" /\ stamp.time = t
  OBVIOUS
<1> HIDE DEF stamp, d
<1>5. /\ data' \in Seq([packet : 1 .. MaxPackets, time : 0 .. Word - 1])
      /\ requests' \in Seq([kind : {"none", "relative", "absolute", "captured"},
                            time : Nat, file : 0 .. MaxFiles])
      /\ Len(requests') = Len(data')
      /\ DOMAIN data' = 1 .. Len(data) + 1
      /\ data'[Len(data) + 1] = [packet |-> created + 1, time |-> d]
      /\ \A i \in DOMAIN data : data'[i] = data[i]
  BY <1>0, <1>1, <1>2, <1>3, AddedTypes
<1>6. DOMAIN data = 1 .. Len(data) /\ Len(data) \in Nat
  BY <1>0 DEF TypeOK
<1>7. TypeOK'
  <2>1. currtime' \in 0 .. Word - 1
    BY <1>1, CompilerAssumption
  <2>2. created' \in 0 .. MaxPackets /\ embedded \subseteq 1 .. created'
    BY <1>0, <1>1, <1>2 DEF TypeOK
  <2> QED BY <1>0, <1>1, <1>5, <2>1, <2>2 DEF TypeOK
<1>8. Sources'
  <2> DEFINE r == [kind |-> "captured", time |-> t, file |-> files]
  <2>1. r \in Captured
    BY <1>0 DEF Captured, TypeOK
  <2>2. requests \in Seq(Captured) /\ requests' = Append(requests, r)
    BY <1>0, <1>1, <1>4 DEF Sources, AddPacket
  <2>3. r.time = t
    OBVIOUS
  <2> HIDE DEF r
  <2>4. requests' \in Seq(Captured) /\ requests'[Len(requests')] = r
    BY <2>1, <2>2
  <2>5. currtime' = Last(requests').time
    BY <1>1, <2>3, <2>4 DEF Last
  <2> QED BY <1>1, <2>4, <2>5 DEF Sources
<1>9. Owned'
  BY <1>0, <1>1, <1>2, <1>3, AddedOwned DEF Parsing
<1>10. Timed'
  <2>1. hasUserTimestamps = CaptureTimed /\ CaptureTimed' = CaptureTimed
    BY <1>0, <1>1 DEF Timed, CaptureTimed
  <2>2. ASSUME ~CaptureTimed, NEW i \in DOMAIN data' PROVE data'[i].time = 0
    <3>1. CASE i = Len(data) + 1
      BY <1>3, <1>5, <2>2, <3>1
    <3>2. CASE i # Len(data) + 1
      <4>1. i \in DOMAIN data
        BY <1>5, <1>6, <3>2
      <4> QED BY <1>0, <1>1, <1>5, <2>2, <4>1 DEF Timed
    <3> QED BY <3>1, <3>2
  <2> QED BY <1>1, <2>1, <2>2 DEF Timed, RealtimeIfTimed
<1> QED BY <1>7, <1>8, <1>9, <1>10 DEF CompileInv

(* The program returns and the list frees its packets.                     *)
LEMMA ExitStep == CompileInv /\ Exit => CompileInv'
<1> SUFFICES ASSUME CompileInv, Exit PROVE CompileInv'
  OBVIOUS
<1> USE DEF optionVars, timeVars
<1>0. TypeOK /\ Owned /\ Sources /\ Timed
  BY DEF CompileInv
<1>1. /\ pc \in {"built", "failed"} /\ pc' = "exited"
      /\ deletes' = [n \in 1 .. MaxPackets |-> deletes[n] + (IF InList(n) THEN 1 ELSE 0)]
      /\ UNCHANGED <<optionVars, files, timeVars, data, created, embedded, resultPackets, requests>>
  BY DEF Exit, InList
<1>2. deletes \in [1 .. MaxPackets -> Nat] /\ created \in 0 .. MaxPackets /\ MaxPackets \in Nat
  BY <1>0, CompilerAssumption DEF TypeOK
<1>3. deletes' \in [1 .. MaxPackets -> Nat]
  BY <1>1, <1>2
<1>4. TypeOK' /\ Sources'
  BY <1>0, <1>1, <1>3 DEF TypeOK, Sources
<1>5. ASSUME NEW n \in (1 .. created) \ embedded PROVE deletes'[n] > 0
  <2>1. n \in 1 .. MaxPackets /\ deletes[n] \in Nat
    BY <1>2
  <2>2. deletes'[n] = deletes[n] + (IF InList(n) THEN 1 ELSE 0)
    BY <1>1, <2>1
  <2>3. deletes[n] > 0 \/ InList(n)
    BY <1>0, <1>1 DEF Owned
  <2> QED BY <2>1, <2>2, <2>3
<1>6. ASSUME NEW n \in 1 .. MaxPackets, n \in embedded \/ n > created
      PROVE  deletes'[n] = 0
  <2>1. ~InList(n)
    BY <1>0, <1>2, <1>6 DEF InList, Owned, Pointers
  <2>2. deletes[n] = 0
    BY <1>0, <1>6 DEF Owned, Pointers
  <2> QED BY <1>1, <2>1, <2>2
<1>7. Owned'
  <2>1. Pointers'
    BY <1>0, <1>1, <1>6 DEF Owned, Pointers
  <2>2. embedded \subseteq 1 .. created /\ (1 .. created) \subseteq 1 .. MaxPackets
    BY <1>0, <1>2 DEF TypeOK
  <2>3. \A n \in 1 .. created : deletes'[n] = 0 <=> n \in embedded
    BY <1>5, <1>6, <2>2
  <2> QED BY <1>1, <2>1, <2>2, <2>3 DEF Owned, OnlyEmbeddedLeaked
<1>8. Timed'
  BY <1>0, <1>1 DEF Timed, RealtimeIfTimed, CaptureTimed
<1> QED BY <1>4, <1>7, <1>8 DEF CompileInv

(* A step of the compiler.                                                 *)
LEMMA CompileStep == CompileInv /\ [Next]_vars => CompileInv'
BY QuietStep, OpenFileStep, EmbedStep, ParseInstructionStep, ErrorStep, ReadPacketStep,
   ExitStep DEF Next

(* The inductive invariant holds throughout.                               *)
THEOREM CompileInvariance == Spec => []CompileInv
<1>1. CompileInv /\ [Next]_vars => CompileInv'
  BY CompileStep
<1> QED BY <1>1, CompileInit, PTL DEF Spec

-----------------------------------------------------------------------------
(* The state of cCompiler and of cPacketData keeps its type; the time line *)
(* stays within cTimeval.                                                  *)
THEOREM CompilerTyped == Spec => []TypeOK
<1>1. CompileInv => TypeOK
  BY DEF CompileInv
<1> QED BY <1>1, CompileInvariance, PTL

(* When the program returns, whatever went wrong on the way, the packets   *)
(* of all instructions and of all captures have been freed, and those that *)
(* compileEmbedded made, and no others, are left.                          *)
THEOREM OwnedFreed == Spec => []OnlyEmbeddedLeaked
<1>1. CompileInv => OnlyEmbeddedLeaked
  BY DEF CompileInv, Owned
<1> QED BY <1>1, CompileInvariance, PTL

(* A list with a delay in it is sent in the real-time mode.                *)
THEOREM TimedListsInRealtime == Spec => []RealtimeIfTimed
<1>1. CompileInv => RealtimeIfTimed
  BY DEF CompileInv, Timed
<1> QED BY <1>1, CompileInvariance, PTL

-----------------------------------------------------------------------------
(* Captures are replayed in real time.                                     *)

(* A delay that fits is not cut off.                                       *)
LEMMA ScaledDifference ==
  ASSUME NEW a \in Nat, NEW b \in Nat, NEW s \in Nat, b <= a, a < Word, a * s < Word
  PROVE  (((a - b) % Word) * s) % Word = (a - b) * s
<1>0. Word \in Nat \ {0}
  BY CompilerAssumption
<1>1. a - b \in Nat /\ a - b < Word /\ a - b <= a
  BY <1>0
<1>2. (a - b) % Word = a - b
  BY <1>0, <1>1
<1>3. s * (a - b) \in Nat /\ s * (a - b) <= s * a
  BY <1>1, ProductMonotonic
<1>4. (a - b) * s = s * (a - b) /\ a * s = s * a
  BY <1>1
<1>5. (a - b) * s \in Nat /\ (a - b) * s < Word
  BY <1>0, <1>3, <1>4
<1>6. ((a - b) * s) % Word = (a - b) * s
  <2> DEFINE x == (a - b) * s
  <2>1. x \in Nat /\ x < Word
    BY <1>5
  <2> HIDE DEF x
  <2>2. x % Word = x
    BY <1>0, <2>1
  <2> QED BY <2>2 DEF x
<1> QED BY <1>2, <1>6

(* A packet that follows another one of its file.                          *)
LEMMA ReplayStep ==
  ASSUME CaptureFits, CompileInv, CompileInv', RealTimeReplay, NEW t \in Times, ReadPacket(t)
  PROVE  RealTimeReplay'
<1> USE DEF optionVars, timeVars
<1> DEFINE d == (SincePrevious(t) * pcapScalingFactor) % Word
<1>1. /\ mode = "PCAP" /\ UNCHANGED <<pcapScalingFactor, files>>
      /\ IF FirstOfFile THEN t = 0 ELSE t >= Last(requests).time
      /\ data' = Append(data, [packet |-> created', time |-> d])
      /\ requests' = Append(requests, [kind |-> "captured", time |-> t, file |-> files])
  BY DEF ReadPacket, AddPacket
<1>2. /\ data \in Seq([packet : 1 .. MaxPackets, time : 0 .. Word - 1])
      /\ requests \in Seq(Captured) /\ Len(requests) = Len(data)
      /\ pcapScalingFactor \in PcapScales /\ files \in 0 .. MaxFiles
      /\ requests # <<>> => currtime = Last(requests).time
  BY <1>1 DEF CompileInv, TypeOK, Sources
<1> HIDE DEF d
<1> SUFFICES ASSUME NEW i \in DOMAIN data', i > 1, requests'[i - 1].file = requests'[i].file
             PROVE  data'[i].time = (requests'[i].time - requests'[i - 1].time) * pcapScalingFactor
  BY <1>1 DEF RealTimeReplay
<1>3. /\ Len(data) \in Nat /\ DOMAIN data = 1 .. Len(data) /\ DOMAIN requests = 1 .. Len(data)
      /\ DOMAIN data' = 1 .. Len(data) + 1
  BY <1>1, <1>2
<1>4. CASE i = Len(data) + 1
  <2>1. /\ data'[i].time = d /\ requests'[i].time = t /\ requests'[i].file = files
        /\ requests'[i - 1] = requests[Len(requests)] /\ requests # <<>>
    <3> DEFINE r == [kind |-> "captured", time |-> t, file |-> files]
               e == [packet |-> created', time |-> d]
    <3>0. d \in 0 .. Word - 1 /\ created' \in 1 .. MaxPackets
      <4>1. d \in 0 .. Word - 1
        BY CaptureTypes DEF CompileInv, d
      <4>2. created' = created + 1 /\ created < MaxPackets /\ created \in 0 .. MaxPackets
        BY DEF ReadPacket, CompileInv, TypeOK
      <4> QED BY <4>1, <4>2, CompilerAssumption
    <3>1. /\ r.time = t /\ r.file = files /\ e.time = d /\ r \in Captured
          /\ e \in [packet : 1 .. MaxPackets, time : 0 .. Word - 1]
      BY <1>2, <3>0 DEF Captured
    <3>2. data' = Append(data, e) /\ requests' = Append(requests, r)
      BY <1>1
    <3> HIDE DEF r, e
    <3>3. data'[i] = e /\ requests'[i] = r
      BY <1>2, <1>4, <3>1, <3>2, Appended
    <3>4. requests # <<>> /\ Len(requests) \in DOMAIN requests /\ i - 1 = Len(requests)
      BY <1>2, <1>3, <1>4
    <3>5. requests'[i - 1] = requests[Len(requests)]
      BY <1>2, <3>2, <3>4
    <3> QED BY <3>1, <3>3, <3>4, <3>5
  <2>2. requests[Len(requests)] = Last(requests)
    BY DEF Last
  <2>3. ~FirstOfFile
    BY <2>1, <2>2 DEF FirstOfFile
  <2>4. t >= currtime /\ currtime = Last(requests).time
    BY <1>1, <1>2, <2>1, <2>3
  <2>5. /\ t \in Nat /\ currtime \in Nat /\ pcapScalingFactor \in Nat /\ t < Word
        /\ t * pcapScalingFactor < Word
    <3>1. currtime \in 0 .. Word - 1 /\ pcapScalingFactor \in PcapScales
      BY DEF CompileInv, TypeOK
    <3>2. t * pcapScalingFactor < Word
      BY <3>1 DEF CaptureFits
    <3> QED BY <3>1, <3>2, CompilerAssumption
  <2>6. d = (t - currtime) * pcapScalingFactor
    BY <2>4, <2>5, ScaledDifference DEF d, SincePrevious, sub
  <2> QED BY <2>1, <2>2, <2>4, <2>6
<1>5. CASE i # Len(data) + 1
  <2>1. i \in DOMAIN data /\ i \in DOMAIN requests /\ i - 1 \in DOMAIN requests
    BY <1>3, <1>5
  <2>2. data'[i] = data[i] /\ requests'[i] = requests[i] /\ requests'[i - 1] = requests[i - 1]
    BY <1>1, <1>2, <2>1
  <2>3. requests[i].kind = "captured"
    <3>1. requests[i] \in Captured
      BY <1>2, <2>1
    <3> QED BY <3>1 DEF Captured
  <2> QED BY <2>1, <2>2, <2>3 DEF RealTimeReplay
<1> QED BY <1>4, <1>5

(* Within a file of a capture the delays are those of the capture, scaled  *)
(* by --pcap, as long as they fit into cTimeval.                           *)
THEOREM ReplayedInRealTime ==
  ASSUME CaptureFits
  PROVE  Spec => []RealTimeReplay
<1>1. Init => RealTimeReplay
  BY DEF Init, RealTimeReplay
<1>2. ASSUME CompileInv, CompileInv', RealTimeReplay, [Next]_vars
      PROVE  RealTimeReplay'
  <2>1. CASE \E t \in Times : ReadPacket(t)
    BY <1>2, <2>1, ReplayStep
  <2>2. CASE UNCHANGED <<data, requests, pcapScalingFactor>>
    BY <1>2, <2>2 DEF RealTimeReplay
  <2>3. CASE \E stamp \in Stamps : ParseInstruction(stamp)
    <3>1. mode' # "PCAP"
      BY <2>3 DEF ParseInstruction, optionVars
    <3>2. requests' \in Seq(Instructed) /\ Len(requests') = Len(data')
      BY <1>2, <3>1 DEF CompileInv, Sources, TypeOK
    <3>3. DOMAIN data' = DOMAIN requests'
      BY <1>2, <3>2 DEF CompileInv, TypeOK
    <3>4. \A i \in DOMAIN requests' : requests'[i].kind # "captured"
      <4>1. \A i \in DOMAIN requests' : requests'[i] \in Instructed
        BY <3>2
      <4> QED BY <4>1 DEF Instructed
    <3> QED BY <3>3, <3>4 DEF RealTimeReplay
  <2> QED BY <1>2, <2>1, <2>2, <2>3 DEF Next, OpenFile, EndOfFile, LastFile, SyntaxError,
        Embed, ParameterError, UnusedParameter, Exit, Over, vars, optionVars
<1>3. CompileInv /\ CompileInv' /\ RealTimeReplay /\ [Next]_vars => RealTimeReplay'
  BY <1>2
<1> QED BY <1>1, <1>3, CompileInvariance, PTL DEF Spec

-----------------------------------------------------------------------------
(* Absolute time stamps.                                                   *)

(* SendTime of the list s.                                                 *)
DelaySum(s) ==
  CHOOSE g : g = [n \in Nat |->
                    IF n = 0 THEN 0
                    ELSE g[n - 1] + (IF n \in DOMAIN s THEN s[n].time ELSE 0)]

Elements == [packet : 1 .. MaxPackets, time : 0 .. Word - 1]

(* The recursive definition of the sums has a solution.                    *)
LEMMA DelaySums ==
  ASSUME NEW s \in Seq(Elements)
  PROVE  /\ DelaySum(s) \in [Nat -> Nat] /\ DelaySum(s)[0] = 0
         /\ \A n \in Nat : DelaySum(s)[n + 1] =
              DelaySum(s)[n] + (IF n + 1 \in DOMAIN s THEN s[n + 1].time ELSE 0)
<1> DEFINE step == [n \in Nat |-> IF n \in DOMAIN s THEN s[n].time ELSE 0]
           G == DelaySum(s)
<1>1. step \in [Nat -> Nat]
  <2>1. ASSUME NEW n \in DOMAIN s PROVE s[n].time \in Nat
    <3>1. s[n] \in Elements
      OBVIOUS
    <3> QED BY <3>1, CompilerAssumption DEF Elements
  <2> QED BY <2>1
<1>2. \A g : (g = [n \in Nat |-> IF n = 0 THEN 0 ELSE g[n - 1] + step[n]])
             <=> (g = [n \in Nat |-> IF n = 0 THEN 0
                         ELSE g[n - 1] + (IF n \in DOMAIN s THEN s[n].time ELSE 0)])
  OBVIOUS
<1> HIDE DEF step
<1>3. \E g : g = [n \in Nat |-> IF n = 0 THEN 0
                    ELSE g[n - 1] + (IF n \in DOMAIN s THEN s[n].time ELSE 0)]
  <2>1. PICK g : g = [n \in Nat |-> IF n = 0 THEN 0 ELSE g[n - 1] + step[n]]
    BY <1>1, SumRecursion
  <2> QED BY <1>2, <2>1
<1>4. G = [n \in Nat |-> IF n = 0 THEN 0
             ELSE G[n - 1] + (IF n \in DOMAIN s THEN s[n].time ELSE 0)]
  BY <1>3, Zenon DEF DelaySum
<1> HIDE DEF G
<1>5. G = [n \in Nat |-> IF n = 0 THEN 0 ELSE G[n - 1] + step[n]]
  BY <1>2, <1>4
<1>6. G \in [Nat -> Nat]
  BY <1>1, <1>5, SumRecursionType
<1>7. G[0] = 0
  BY <1>4
<1>8. ASSUME NEW n \in Nat
      PROVE  G[n + 1] = G[n] + (IF n + 1 \in DOMAIN s THEN s[n + 1].time ELSE 0)
  <2>1. n + 1 \in Nat /\ n + 1 # 0 /\ (n + 1) - 1 = n
    OBVIOUS
  <2>2. G[n + 1] = IF n + 1 = 0 THEN 0
                   ELSE G[(n + 1) - 1] + (IF n + 1 \in DOMAIN s THEN s[n + 1].time ELSE 0)
    BY <1>4, <2>1
  <2> QED BY <2>1, <2>2
<1> QED BY <1>6, <1>7, <1>8 DEF G

(* A longer list does not change when the packets before leave.            *)
LEMMA SumsKept ==
  ASSUME NEW s \in Seq(Elements), NEW t \in Seq(Elements),
         \A i \in DOMAIN s : i \in DOMAIN t /\ t[i] = s[i]
  PROVE  \A n \in 0 .. Len(s) : DelaySum(t)[n] = DelaySum(s)[n]
<1> DEFINE f == DelaySum(s)
           g == DelaySum(t)
           S == {n \in Nat : n <= Len(s) => g[n] = f[n]}
<1>0. Len(s) \in Nat /\ DOMAIN s = 1 .. Len(s)
  OBVIOUS
<1>1. /\ f[0] = 0 /\ g[0] = 0
      /\ \A n \in Nat : f[n + 1] = f[n] + (IF n + 1 \in DOMAIN s THEN s[n + 1].time ELSE 0)
      /\ \A n \in Nat : g[n + 1] = g[n] + (IF n + 1 \in DOMAIN t THEN t[n + 1].time ELSE 0)
  BY DelaySums
<1> HIDE DEF f, g
<1>2. 0 \in S
  BY <1>1
<1>3. ASSUME NEW n \in Nat, n \in S PROVE n + 1 \in S
  <2> SUFFICES ASSUME n + 1 <= Len(s) PROVE g[n + 1] = f[n + 1]
    OBVIOUS
  <2>1. n + 1 \in DOMAIN s /\ n <= Len(s)
    BY <1>0
  <2>2. n + 1 \in DOMAIN t /\ t[n + 1] = s[n + 1]
    BY <2>1
  <2>3. g[n] = f[n]
    BY <1>3, <2>1
  <2> HIDE DEF S
  <2>4. f[n + 1] = f[n] + s[n + 1].time /\ g[n + 1] = g[n] + t[n + 1].time
    BY <1>1, <2>1, <2>2
  <2> QED BY <2>2, <2>3, <2>4
<1> HIDE DEF S
<1>4. Nat \subseteq S
  BY <1>2, <1>3, InductionInSet
<1> QED BY <1>0, <1>4 DEF S, f, g

(* SendTime is the sum for the list as it is.                              *)
LEMMA SendTimeIs == SendTime = DelaySum(data) /\ SendTime' = DelaySum(data')
BY DEF SendTime, DelaySum

(* At most one number splits the list.                                     *)
LEMMA SplitUnique ==
  ASSUME NEW R, NEW s \in Seq(R), NEW f, NEW n \in 0 .. Len(s),
         \A i \in DOMAIN s : s[i].file < f <=> i <= n
  PROVE  n = CHOOSE m \in 0 .. Len(s) : \A i \in DOMAIN s : s[i].file < f <=> i <= m
<1>1. ASSUME NEW m \in 0 .. Len(s), \A i \in DOMAIN s : s[i].file < f <=> i <= m
      PROVE  m = n
  <2>1. \A i \in DOMAIN s : i <= m <=> i <= n
    BY <1>1
  <2>2. CASE m < n
    <3>1. n \in DOMAIN s
      BY <2>2
    <3> QED BY <2>1, <2>2, <3>1
  <2>3. CASE n < m
    <3>1. m \in DOMAIN s
      BY <2>3
    <3> QED BY <2>1, <2>3, <3>1
  <2> QED BY <2>2, <2>3
<1> QED BY <1>1

(* Where the packets of a file begin.                                      *)
LEMMA StartIs ==
  ASSUME NEW R, requests \in Seq(R), NEW f, NEW n \in 0 .. Len(requests), Before(f, n)
  PROVE  PacketsBefore(f) = n /\ StartOfFile(f) = SendTime[n]
<1>1. n = CHOOSE m \in 0 .. Len(requests) :
            \A i \in DOMAIN requests : requests[i].file < f <=> i <= m
  BY SplitUnique DEF Before
<1>2. PacketsBefore(f) = n
  BY <1>1 DEF PacketsBefore
<1> QED BY <1>2 DEF StartOfFile

(* The same after a step.                                                  *)
LEMMA StartIsNext ==
  ASSUME NEW R, requests' \in Seq(R), NEW f, NEW n \in 0 .. Len(requests'), Before(f, n)'
  PROVE  PacketsBefore(f)' = n /\ StartOfFile(f)' = SendTime'[n]
<1>1. n = CHOOSE m \in 0 .. Len(requests') :
            \A i \in DOMAIN requests' : requests'[i].file < f <=> i <= m
  BY SplitUnique DEF Before
<1>2. PacketsBefore(f)' = n
  BY <1>1 DEF PacketsBefore
<1> QED BY <1>2 DEF StartOfFile

(* What scaling does to times that fit.                                    *)
LEMMA TimesFit ==
  ASSUME NEW longest \in Nat, longest * MaxPackets < Word,
         \A t \in Times \cup DefaultDelays : t * defaultDelayScale <= longest,
         TypeOK, Unwrapped(longest), created < MaxPackets, NEW stamp \in Stamps
  PROVE  /\ Scaled(stamp.time) \in 0 .. longest
         /\ add(currtime, Scaled(stamp.time)) = currtime + Scaled(stamp.time)
         /\ AbsoluteTime(stamp.time) = scriptStartTime + Scaled(stamp.time)
         /\ currtime + Scaled(stamp.time) <= longest * (created + 1)
         /\ scriptStartTime + Scaled(stamp.time) <= longest * (created + 1)
         /\ longest * created <= longest * (created + 1)
<1> DEFINE x == stamp.time * defaultDelayScale
           L == longest * created
<1>1. /\ Word \in Nat \ {0} /\ MaxPackets \in Nat /\ created \in Nat /\ created + 1 <= MaxPackets
      /\ currtime \in Nat /\ scriptStartTime \in Nat /\ currtime <= L /\ scriptStartTime <= L
  BY CompilerAssumption DEF TypeOK, Unwrapped
<1>2. stamp.time \in Times \cup DefaultDelays
  BY DEF Stamps, TypeOK
<1>3. stamp.time \in Nat /\ defaultDelayScale \in Nat
  <2>1. Times \subseteq Nat /\ DefaultDelays \subseteq Nat
    BY CompilerAssumption
  <2> QED BY <1>2, <2>1, CompilerAssumption
<1>4. x \in Nat /\ x <= longest
  BY <1>2, <1>3
<1>5. longest * (created + 1) = L + longest
  BY <1>1, ProductNext
<1>6. L \in Nat /\ longest * (created + 1) <= longest * MaxPackets
  BY <1>1, ProductMonotonic
<1>7. longest * MaxPackets \in Nat
  BY <1>1, ProductMonotonic
<1> DEFINE M == longest * MaxPackets
<1>8. L + longest <= M /\ M < Word /\ M \in Nat
  BY <1>5, <1>6, <1>7
<1> HIDE DEF x, L, M
<1>9. x < Word /\ currtime + x < Word /\ scriptStartTime + x < Word
  BY <1>1, <1>4, <1>6, <1>8
<1>10. x % Word = x /\ (currtime + x) % Word = currtime + x
         /\ (x + scriptStartTime) % Word = scriptStartTime + x
  BY <1>1, <1>4, <1>9
<1>11. Scaled(stamp.time) = x
  BY <1>10 DEF Scaled, x
<1>12. currtime + x <= L + longest /\ scriptStartTime + x <= L + longest /\ L <= L + longest
  BY <1>1, <1>4, <1>6
<1> QED BY <1>4, <1>5, <1>10, <1>11, <1>12 DEF add, AbsoluteTime, L

(* An instruction is added to the time line.                               *)
LEMMA AddedOnTimeLine ==
  ASSUME NEW longest \in Nat, TypeOK, TypeOK', TimeLineInv(longest),
         NEW stamp \in Stamps, NEW d \in 0 .. Word - 1,
         mode # "PCAP", Parsing, pc' = "parse", AddPacket(created + 1, d, stamp),
         UNCHANGED <<optionVars, files, scriptStartTime>>, created' = created + 1,
         created < MaxPackets, currtime' = currtime + d,
         currtime' <= longest * (created + 1),
         longest * created <= longest * (created + 1),
         stamp.kind = "absolute" => currtime' = scriptStartTime + Scaled(stamp.time)
  PROVE  TimeLineInv(longest)'
<1> DEFINE R == [kind : {"none", "relative", "absolute", "captured"},
                 time : Nat, file : 0 .. MaxFiles]
           r == [kind |-> stamp.kind, time |-> stamp.time, file |-> files]
           e == [packet |-> created + 1, time |-> d]
           L == Len(data)
<1>0. FilesInOrder /\ OnTimeLine /\ Unwrapped(longest) /\ AbsoluteTimesKept
  BY DEF TimeLineInv
<1>1. r.kind = stamp.kind /\ r.time = stamp.time /\ r.file = files /\ e.time = d
  OBVIOUS
<1>2. requests' = Append(requests, r) /\ data' = Append(data, e)
  BY DEF AddPacket
<1>3. /\ requests \in Seq(R) /\ data \in Seq(Elements) /\ Len(requests) = L
      /\ files \in Nat /\ currtime \in Nat /\ scriptStartTime \in Nat
      /\ longest * created \in Nat /\ created \in Nat
  <2>1. created \in Nat
    BY CompilerAssumption DEF TypeOK
  <2> QED BY <2>1, CompilerAssumption DEF TypeOK, Elements
<1>4. r \in R /\ e \in Elements
  <2>1. created + 1 \in 1 .. MaxPackets
    BY <1>3, CompilerAssumption
  <2> QED BY <2>1, StampTypes DEF Elements, TypeOK
<1> HIDE DEF R, r, e, L
<1>5. /\ L \in Nat /\ DOMAIN requests = 1 .. L /\ requests' \in Seq(R) /\ Len(requests') = L + 1
      /\ DOMAIN requests' = 1 .. L + 1 /\ requests'[L + 1] = r
      /\ \A i \in DOMAIN requests : i \in DOMAIN requests' /\ requests'[i] = requests[i]
  <2> DEFINE l == Len(requests)
  <2>1. /\ l \in Nat /\ DOMAIN requests = 1 .. l /\ requests' \in Seq(R) /\ Len(requests') = l + 1
        /\ DOMAIN requests' = 1 .. l + 1 /\ requests'[l + 1] = r
        /\ \A i \in DOMAIN requests : i \in DOMAIN requests' /\ requests'[i] = requests[i]
    BY <1>2, <1>3, <1>4, Appended, SMTT(30)
  <2>2. Len(requests) = L
    BY <1>3
  <2> QED BY <2>1, <2>2, Zenon
<1>6. /\ DOMAIN data = 1 .. L /\ data' \in Seq(Elements) /\ Len(data') = L + 1
      /\ DOMAIN data' = 1 .. L + 1 /\ data'[L + 1] = e
      /\ \A i \in DOMAIN data : i \in DOMAIN data' /\ data'[i] = data[i]
  BY <1>2, <1>3, <1>4, Appended DEF L
<1>7. \A n \in 0 .. L : SendTime'[n] = SendTime[n]
  BY <1>3, <1>6, SumsKept, SendTimeIs DEF L
<1>8. SendTime'[L + 1] = currtime'
  <2>1. SendTime'[L + 1] = SendTime'[L] + (IF L + 1 \in DOMAIN data' THEN data'[L + 1].time ELSE 0)
    BY <1>5, <1>6, DelaySums, SendTimeIs
  <2>2. L + 1 \in DOMAIN data' /\ data'[L + 1].time = d
    BY <1>1, <1>5, <1>6
  <2>3. SendTime'[L] = currtime
    BY <1>0, <1>5, <1>7 DEF OnTimeLine, L
  <2> QED BY <2>1, <2>2, <2>3
<1>9. ASSUME NEW f \in 0 .. files
      PROVE  /\ StartOfFile(f)' = StartOfFile(f)
             /\ \E n \in 0 .. Len(requests') : Before(f, n)'
  <2>1. PICK n \in 0 .. Len(requests) : Before(f, n)
    BY <1>0 DEF FilesInOrder
  <2>2. n \in 0 .. L /\ n \in 0 .. Len(requests')
    BY <1>3, <1>5, <2>1
  <2>3. Before(f, n)'
    <3>1. ASSUME NEW i \in DOMAIN requests' PROVE requests'[i].file < f <=> i <= n
      <4>1. CASE i = L + 1
        BY <1>1, <1>3, <1>5, <2>2, <4>1
      <4>2. CASE i # L + 1
        <5>1. i \in DOMAIN requests
          BY <1>5, <4>2
        <5> QED BY <1>5, <2>1, <5>1 DEF Before
      <4> QED BY <4>1, <4>2
    <3> QED BY <3>1 DEF Before
  <2>4. StartOfFile(f) = SendTime[n]
    BY <1>3, <2>1, StartIs
  <2>5. StartOfFile(f)' = SendTime'[n]
    BY <1>5, <2>2, <2>3, StartIsNext
  <2> QED BY <1>7, <2>2, <2>3, <2>4, <2>5
<1>10. FilesInOrder'
  <2>1. ASSUME NEW i \in DOMAIN requests' PROVE requests'[i].file <= files
    <3>1. CASE i = L + 1
      BY <1>1, <1>3, <1>5, <3>1
    <3>2. CASE i # L + 1
      <4>1. i \in DOMAIN requests
        BY <1>5, <3>2
      <4> QED BY <1>0, <1>5, <4>1 DEF FilesInOrder
    <3> QED BY <3>1, <3>2
  <2> QED BY <1>9, <2>1 DEF FilesInOrder
<1>11. OnTimeLine'
  <2>1. scriptStartTime = StartOfFile(files) /\ files \in 0 .. files
    BY <1>0, <1>3 DEF OnTimeLine
  <2>2. StartOfFile(files)' = StartOfFile(files)
    BY <1>9, <2>1
  <2> QED BY <1>6, <1>8, <2>1, <2>2 DEF OnTimeLine
<1>12. Unwrapped(longest)'
  <2> DEFINE a == longest * created
             b == longest * (created + 1)
  <2>1. scriptStartTime <= a /\ a <= b /\ a \in Nat /\ b \in Nat
    BY <1>0, <1>3, ProductMonotonic DEF Unwrapped
  <2> HIDE DEF a, b
  <2>2. scriptStartTime <= b
    BY <1>3, <2>1
  <2> QED BY <2>2 DEF Unwrapped, b
<1>13. AbsoluteTimesKept'
  <2> SUFFICES ASSUME NEW i \in DOMAIN data', requests'[i].kind = "absolute"
               PROVE  SendTime'[i] = StartOfFile(requests[i].file)' + Scaled(requests'[i].time)
    BY DEF AbsoluteTimesKept, Scaled
  <2>1. ASSUME NEW f, f = requests'[i].file
        PROVE  StartOfFile(requests[i].file)' = StartOfFile(f)'
    BY <2>1 DEF StartOfFile, PacketsBefore
  <2>2. CASE i = L + 1
    <3>1. /\ requests'[i].time = stamp.time /\ requests'[i].file = files
          /\ stamp.kind = "absolute" /\ currtime' = scriptStartTime + Scaled(stamp.time)
      BY <1>1, <1>5, <2>2
    <3>2. StartOfFile(files)' = scriptStartTime
      BY <1>11 DEF OnTimeLine, Parsing
    <3>3. ASSUME NEW f, f = files PROVE StartOfFile(f)' = scriptStartTime
      BY <3>2, <3>3 DEF StartOfFile, PacketsBefore
    <3>4. StartOfFile(requests[i].file)' = scriptStartTime
      BY <2>1, <3>1, <3>3
    <3> QED BY <1>8, <2>2, <3>1, <3>4
  <2>3. CASE i # L + 1
    <3>1. i \in DOMAIN data /\ i \in DOMAIN requests /\ i \in 0 .. L
      BY <1>5, <1>6, <2>3
    <3>2. requests'[i] = requests[i] /\ requests[i].file \in 0 .. files
      <4>1. requests[i] \in R
        BY <1>3, <3>1
      <4>2. requests[i].file \in Nat /\ requests[i].file <= files
        BY <1>0, <3>1, <4>1 DEF FilesInOrder, R
      <4> QED BY <1>3, <1>5, <3>1, <4>2
    <3>3. PICK f \in 0 .. files : f = requests[i].file
      BY <3>2
    <3>4. StartOfFile(requests[i].file)' = StartOfFile(f)
      BY <1>9, <2>1, <3>2, <3>3
    <3>5. SendTime[i] = StartOfFile(f) + Scaled(requests[i].time)
      BY <1>0, <3>1, <3>2, <3>3 DEF AbsoluteTimesKept
    <3> QED BY <1>7, <3>1, <3>2, <3>4, <3>5
  <2> QED BY <2>2, <2>3
<1> QED BY <1>10, <1>11, <1>12, <1>13 DEF TimeLineInv

(* The time line at the start.                                             *)
LEMMA TimeLineInit ==
  ASSUME NEW longest \in Nat, Init
  PROVE  TimeLineInv(longest)
<1>1. data = <<>> /\ requests = <<>> /\ files = 0 /\ created = 0 /\ currtime = 0
        /\ scriptStartTime = 0
  BY DEF Init
<1>2. data \in Seq(Elements) /\ Len(data) = 0 /\ requests \in Seq(Captured) /\ Len(requests) = 0
        /\ DOMAIN data = {} /\ DOMAIN requests = {}
  BY <1>1
<1>3. SendTime[0] = 0
  BY <1>2, DelaySums, SendTimeIs
<1>4. Before(0, 0) /\ 0 \in 0 .. Len(requests)
  BY <1>2 DEF Before
<1>5. StartOfFile(0) = SendTime[0]
  BY <1>2, <1>4, StartIs
<1>6. FilesInOrder
  BY <1>1, <1>2, <1>4 DEF FilesInOrder, Init
<1>7. OnTimeLine /\ AbsoluteTimesKept
  BY <1>1, <1>2, <1>3, <1>5 DEF OnTimeLine, AbsoluteTimesKept
<1>8. Unwrapped(longest)
  BY <1>1 DEF Unwrapped
<1> QED BY <1>6, <1>7, <1>8 DEF TimeLineInv

(* Steps that leave the list alone, and do not go on in a new file.        *)
LEMMA TimeLineKept ==
  ASSUME NEW longest \in Nat, TypeOK, TimeLineInv(longest),
         UNCHANGED <<mode, files, currtime, scriptStartTime, data, requests>>,
         created' \in {created, created + 1}, Parsing' => Parsing,
         mode = "PACKET" => pc' # "open"
  PROVE  TimeLineInv(longest)'
<1> SUFFICES ASSUME mode # "PCAP"
             PROVE  (FilesInOrder /\ OnTimeLine /\ Unwrapped(longest) /\ AbsoluteTimesKept)'
  BY DEF TimeLineInv
<1>1. FilesInOrder /\ OnTimeLine /\ Unwrapped(longest) /\ AbsoluteTimesKept
  BY DEF TimeLineInv
<1>2. SendTime' = SendTime
  BY SendTimeIs
<1>3. FilesInOrder'
  BY <1>1 DEF FilesInOrder, Before
<1>4. OnTimeLine'
  BY <1>1, <1>2 DEF OnTimeLine, StartOfFile, PacketsBefore
<1>5. AbsoluteTimesKept'
  BY <1>1, <1>2 DEF AbsoluteTimesKept, StartOfFile, PacketsBefore, Scaled
<1>6. Unwrapped(longest)'
  <2> DEFINE a == longest * created
             b == longest * created'
  <2>1. created \in Nat /\ currtime \in Nat /\ scriptStartTime \in Nat
    BY CompilerAssumption DEF TypeOK
  <2>2. created' \in Nat /\ created <= created'
    BY <2>1
  <2>3. a \in Nat /\ b \in Nat /\ a <= b
    <3>1. PICK k \in Nat : k = created'
      BY <2>2
    <3>2. a \in Nat /\ a <= longest * k
      BY <2>1, <2>2, <3>1, ProductMonotonic
    <3>3. longest * k \in Nat
      OBVIOUS
    <3> QED BY <3>1, <3>2, <3>3
  <2>4. currtime <= a /\ scriptStartTime <= a
    BY <1>1 DEF Unwrapped
  <2> HIDE DEF a, b
  <2>5. currtime <= b /\ scriptStartTime <= b
    BY <2>1, <2>3, <2>4
  <2> QED BY <2>5 DEF Unwrapped, b
<1> QED BY <1>3, <1>4, <1>5, <1>6

(* A script begins at the end of the time line.                            *)
LEMMA TimeLineOpen ==
  ASSUME NEW longest \in Nat, TypeOK, TimeLineInv(longest), OpenFile,
         \A n \in DOMAIN requests : requests[n].file \in Nat
  PROVE  TimeLineInv(longest)'
<1> USE DEF optionVars, timeVars
<1> SUFFICES ASSUME mode # "PCAP"
             PROVE  (FilesInOrder /\ OnTimeLine /\ Unwrapped(longest) /\ AbsoluteTimesKept)'
  BY DEF TimeLineInv, OpenFile
<1>1. FilesInOrder /\ OnTimeLine /\ Unwrapped(longest) /\ AbsoluteTimesKept
  BY DEF TimeLineInv
<1>2. /\ files' = files + 1 /\ pc = "open"
      /\ UNCHANGED <<mode, currtime, data, requests, created>>
      /\ scriptStartTime' \in {scriptStartTime, currtime} /\ pc' # "embedded"
  BY DEF OpenFile, BeginScript
<1>3. SendTime' = SendTime
  BY <1>2, SendTimeIs
<1>4. files \in Nat /\ Len(requests) \in Nat /\ DOMAIN requests = 1 .. Len(requests)
        /\ Len(requests) = Len(data)
  BY DEF TypeOK
<1>5. Before(files + 1, Len(requests)) /\ Len(requests) \in 0 .. Len(requests)
  <2>1. ASSUME NEW i \in DOMAIN requests
        PROVE  requests[i].file < files + 1 /\ i <= Len(requests)
    BY <1>1, <1>4 DEF FilesInOrder
  <2> QED BY <1>4, <2>1 DEF Before
<1>6. FilesInOrder'
  <2>1. ASSUME NEW f \in 0 .. files + 1 PROVE \E n \in 0 .. Len(requests) : Before(f, n)
    <3>1. CASE f = files + 1
      BY <1>5, <3>1
    <3>2. CASE f # files + 1
      <4>1. f \in 0 .. files
        BY <1>4, <3>2
      <4> QED BY <1>1, <4>1 DEF FilesInOrder
    <3> QED BY <3>1, <3>2
  <2>2. \A i \in DOMAIN requests : requests[i].file <= files + 1
    BY <1>1, <1>4 DEF FilesInOrder
  <2>3. mode' # "PACKET"
    BY <1>1, <1>2 DEF FilesInOrder
  <2> QED BY <1>2, <2>1, <2>2, <2>3 DEF FilesInOrder, Before
<1>7. OnTimeLine'
  <2>1. SendTime'[Len(data')] = currtime'
    BY <1>1, <1>2, <1>3 DEF OnTimeLine
  <2> SUFFICES ASSUME pc' = "parse" PROVE scriptStartTime' = StartOfFile(files)'
    BY <1>2, <2>1 DEF OnTimeLine, Parsing
  <2>2. mode = "SCRIPT"
    BY <1>1, <1>2, CompilerAssumption DEF FilesInOrder, TypeOK
  <2>3. scriptStartTime' = currtime
    BY <2>2 DEF OpenFile, BeginScript
  <2>4. StartOfFile(files + 1) = SendTime[Len(requests)]
    BY <1>5, StartIs DEF TypeOK
  <2>5. StartOfFile(files)' = StartOfFile(files + 1)
    BY <1>2, <1>3 DEF StartOfFile, PacketsBefore
  <2> QED BY <1>1, <1>4, <2>3, <2>4, <2>5 DEF OnTimeLine
<1>8. AbsoluteTimesKept'
  BY <1>1, <1>2, <1>3 DEF AbsoluteTimesKept, StartOfFile, PacketsBefore, Scaled
<1>9. Unwrapped(longest)'
  BY <1>1, <1>2 DEF Unwrapped
<1> QED BY <1>6, <1>7, <1>8, <1>9

(* A step keeps the time line.                                             *)
LEMMA TimeLineStep ==
  ASSUME NEW longest \in Nat, longest * MaxPackets < Word,
         \A t \in Times \cup DefaultDelays : t * defaultDelayScale <= longest,
         CompileInv, CompileInv', TimeLineInv(longest), [Next]_vars
  PROVE  TimeLineInv(longest)'
<1> USE DEF optionVars, timeVars
<1>0. TypeOK /\ TypeOK'
  BY DEF CompileInv
<1>1. CASE mode' = "PCAP"
  BY <1>1 DEF TimeLineInv
<1>2. ASSUME mode' # "PCAP", NEW stamp \in Stamps, ParseInstruction(stamp)
      PROVE  TimeLineInv(longest)'
  <2>1. /\ Parsing /\ mode # "PCAP" /\ created < MaxPackets /\ created' = created + 1
        /\ UNCHANGED <<optionVars, files, scriptStartTime>>
    BY <1>2 DEF ParseInstruction
  <2> DEFINE x == Scaled(stamp.time)
  <2>2. /\ x \in 0 .. longest /\ add(currtime, x) = currtime + x
        /\ AbsoluteTime(stamp.time) = scriptStartTime + x
        /\ currtime + x <= longest * (created + 1)
        /\ scriptStartTime + x <= longest * (created + 1)
        /\ longest * created <= longest * (created + 1)
    BY <1>0, <2>1, TimesFit DEF TimeLineInv
  <2>3. x \in 0 .. Word - 1 /\ AbsoluteTime(stamp.time) \in 0 .. Word - 1
          /\ sub(AbsoluteTime(stamp.time), currtime) \in 0 .. Word - 1
    BY <1>0, StampTypes
  <2> HIDE DEF x
  <2>4. CASE /\ stamp.kind # "absolute" /\ AddPacket(created + 1, x, stamp)
             /\ currtime' = add(currtime, x) /\ pc' = "parse"
    BY <1>0, <2>1, <2>2, <2>3, <2>4, AddedOnTimeLine
  <2>5. CASE /\ stamp.kind = "absolute" /\ AbsoluteTime(stamp.time) >= currtime
             /\ AddPacket(created + 1, sub(AbsoluteTime(stamp.time), currtime), stamp)
             /\ currtime' = AbsoluteTime(stamp.time) /\ pc' = "parse"
    <3> DEFINE a == AbsoluteTime(stamp.time)
    <3>1. sub(a, currtime) = a - currtime
      <4>1. a \in 0 .. Word - 1 /\ currtime \in 0 .. Word - 1 /\ a >= currtime
              /\ Word \in Nat \ {0}
        <5>1. currtime \in 0 .. Word - 1
          BY <1>0, Zenon DEF TypeOK
        <5>2. a \in 0 .. Word - 1 /\ a >= currtime
          BY <2>3, <2>5
        <5> QED BY <5>1, <5>2, CompilerAssumption
      <4> HIDE DEF a
      <4>2. a - currtime \in Nat /\ a - currtime < Word
        BY <4>1
      <4> QED BY <4>1, <4>2 DEF sub
    <3>2. currtime' = currtime + sub(a, currtime)
      <4>1. currtime \in 0 .. Word - 1
        BY <1>0, Zenon DEF TypeOK
      <4>2. a \in 0 .. Word - 1 /\ currtime' = a
        BY <2>3, <2>5
      <4> HIDE DEF a
      <4> QED BY <3>1, <4>1, <4>2
    <3> QED BY <1>0, <2>1, <2>2, <2>3, <2>5, <3>2, AddedOnTimeLine DEF x
  <2>6. CASE pc' = "bug" /\ UNCHANGED <<currtime, data, requests>>
    BY <1>0, <2>1, <2>6, TimeLineKept
  <2> QED BY <1>2, <2>1, <2>4, <2>5, <2>6 DEF ParseInstruction, x
<1>3. CASE OpenFile
  <2>1. \A n \in DOMAIN requests : requests[n].file \in Nat
    <3> DEFINE R == [kind : {"none", "relative", "absolute", "captured"},
                     time : Nat, file : 0 .. MaxFiles]
    <3>1. requests \in Seq(R)
      BY <1>0 DEF TypeOK
    <3>2. \A e \in R : e.file \in Nat
      BY CompilerAssumption
    <3> HIDE DEF R
    <3>3. \A n \in DOMAIN requests : requests[n] \in R
      BY <3>1
    <3> QED BY <3>2, <3>3
  <2> QED BY <1>0, <1>3, <2>1, TimeLineOpen
<1>4. CASE EndOfFile \/ LastFile \/ SyntaxError \/ Embed \/ ParameterError
             \/ UnusedParameter \/ Exit \/ Over \/ UNCHANGED vars
  <2>1. UNCHANGED <<mode, files, currtime, scriptStartTime, data, requests>>
    BY <1>4 DEF EndOfFile, LastFile, SyntaxError, Embed, ParameterError, UnusedParameter, Exit,
                  Over, vars
  <2>2. created' \in {created, created + 1} /\ (Parsing' => Parsing)
          /\ (mode = "PACKET" /\ pc # "open" => pc' # "open")
    BY <1>4 DEF EndOfFile, LastFile, SyntaxError, Embed, ParameterError, UnusedParameter, Exit,
                  Over, Parsing, vars
  <2>3. mode # "PCAP" => (mode = "PACKET" => pc' # "open")
    BY <2>2 DEF TimeLineInv, FilesInOrder
  <2>4. CASE mode # "PCAP"
    BY <1>0, <2>1, <2>2, <2>3, <2>4, TimeLineKept
  <2>5. CASE mode = "PCAP"
    BY <2>1, <2>5 DEF TimeLineInv
  <2> QED BY <2>4, <2>5
<1>5. CASE \E t \in Times : ReadPacket(t)
  BY <1>5 DEF ReadPacket, TimeLineInv
<1> QED BY <1>1, <1>2, <1>3, <1>4, <1>5 DEF Next

(* Every packet with an absolute time stamp leaves that long after the     *)
(* start of its script, whatever stamps precede it in this script and in   *)
(* the scripts before, as long as no time overflows cTimeval.              *)
THEOREM AbsoluteStampsKept ==
  ASSUME ScheduleFits
  PROVE  Spec => []AbsoluteTimesKept
<1>1. PICK longest \in Nat :
        /\ longest * MaxPackets < Word
        /\ \A t \in Times \cup DefaultDelays : t * defaultDelayScale <= longest
  BY DEF ScheduleFits
<1>2. Init => TimeLineInv(longest)
  BY TimeLineInit
<1>3. CompileInv /\ CompileInv' /\ TimeLineInv(longest) /\ [Next]_vars => TimeLineInv(longest)'
  BY <1>1, TimeLineStep
<1>4. CompileInv /\ TimeLineInv(longest) => AbsoluteTimesKept
  <2> SUFFICES ASSUME CompileInv, mode = "PCAP" PROVE AbsoluteTimesKept
    BY DEF TimeLineInv
  <2>1. requests \in Seq(Captured) /\ Len(requests) = Len(data) /\ DOMAIN data = DOMAIN requests
    BY DEF CompileInv, Sources, TypeOK
  <2>2. \A i \in DOMAIN requests : requests[i] \in Captured
    BY <2>1
  <2> QED BY <2>1, <2>2 DEF AbsoluteTimesKept, Captured
<1> QED BY <1>2, <1>3, <1>4, CompileInvariance, PTL DEF Spec
=============================================================================
