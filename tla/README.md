# tcppump: a TLA+ verification project

tcppump is a packet generator. It compiles packets described in a small language (on the command
line or in scripts) or read from capture files into a list of Ethernet packets with delays, and
sends the list, once, several times or until Ctrl+C, through a network interface (Linux: a packet
socket; Windows: npcap send queues) or writes it to a file.

This directory holds TLA+ modules translated from the source, TLC configurations that check them on
small instances, and theorems checked by TLAPS. `PROJECT.json` relates every definition to the lines
it models, and lists runs, mutants of the definitions, findings, hazards and theorems. Line numbers
below are those of the sources in `src/src`.

    tlc -config SendQueueRing.cfg MCSendQueue      model-check a configuration
    tlapm SendQueue_proofs.tla                     check the proofs of a module

## 1. Inventory

One process runs `cTcpPump::execute` (tcppump.cpp:121-368): it reads the options, then calls the
steps one after the other on one `cPacketData` object,

    cCompiler -> open interface -> cFilter -> cResolver -> cScheduler -> cOutput -> backend

and prints the statistic. An exception in any step ends the program with an error message; `BUG_ON`
stops it. Only two things run concurrently with this chain: the Ctrl+C handler (a signal handler on
Linux, a thread of the system on Windows) and, on Windows, the worker thread of a job.

| Component | State | Operations | Correct if |
|---|---|---|---|
| Windows interface: `cJob`, `cPcapSendQueue` (os/win32/interface.cpp, signal.cpp) | ring of one or three queues, two pointers, two semaphores, events, statistic | main thread adds packets and hands queues over, worker transmits and gives them back, `~cJob` joins or terminates the worker | a queue has one owner; no packet lost, duplicated or reordered; Ctrl+C ends the job even if the driver hangs; the statistic counts what was sent |
| Output walk: `cOutput` and file backends (engine/output.cpp) | position, send time, pass, statistic | for every pass and list element, send all its Ethernet packets; stop on Ctrl+C or error | packets in order and at their times over all passes; stops after the element begun |
| Linux interface: `cInterface`, `Sleep` (os/linux) | measured timer resolution, send time of the packet before | sleep for the difference, partly in the kernel, partly busy; `sendto` | never early; the timer is measured before it is used |
| Compiler: `cCompiler`, `cPacketData` (compiler/) | time line, script start, packet list, last parse result | parse instructions, open scripts, read captures, free all packets at the end | absolute stamps kept; capture delays kept; every packet freed exactly once on each error path |
| Filter, resolver, ARP: `cFilter`, `cResolver`, `cArp` | list position, cache, socket, attempt | overwrite MACs, look into the cache, ask twice with a timeout of a second | every fragment goes to the right host; an answer in time is used; the loop ends |
| IP packets: `cIPPacket` (packets/ippacket.cpp) | list of Ethernet packets, static identification counter | cut a datagram into fragments | fragments contiguous, complete, aligned, within the MTU, identifications distinct |
| Instruction parser: `cInstructionParser` | result, nesting depth, the global MTU | parse stamp, protocol and parameters; recursion for embedded packets | everything the help describes is accepted; no parameter ignored or used for two things; packets freed on errors; MTU restored on every way out |
| File parser: `cFileParser` | buffer, line number, open blocks, comment flag | deliver the next instruction | comments, blocks and lines split correctly; errors reported with the right line |
| Parameter list, parse helper: `cParameterList`, `cParseHelper` | parameters with a used flag, cursor | split the text, find, find again behind another one, convert | one reading of each text; an attribute goes to the group it is written in |
| Ethernet packet: `cEthernetPacket` | buffer, position of the payload, lengths, flags | set addresses, insert VLAN tags and LLC headers, append payload | layout right in every order of the calls; the limit of the buffer kept |
| LLDP: `cLldpParser`, `cLldpPacket` | list of TLVs | one function for each TLV | mandatory TLVs first, lengths within nine bits (not kept, see section 3) |
| Other protocols, checksum | header of a packet | set fields, compile | lengths, destination address |
| Syntax: `PR_...`, `PAR_...` (syntax.hpp) | tables of parameters | help texts | agree with what the parser reads |
| Settings, random numbers, addresses | values | get, set, convert | - |

Components meet in four places: the list `cPacketData` (each step changes it in place and owns
nothing but the compiler's last result), the Ctrl+C counter (read before each list element and pass,
written by the handler), the semaphores and events of `cJob`, and the global settings (MTU, own
addresses), which the parser changes temporarily for embedded packets.

Hard to test are the interleavings of main thread, worker and Ctrl+C; the wait that the handler's
event ends; a driver that fails or hangs; the numeric edges of queue sizes, fragment counts and
timer resolution; stale results and stale counters that survive a reset; answers from the network
that are late, foreign or missing; mixtures of time stamps over several scripts; repeated groups of
parameters whose attributes are optional; an error in an embedded packet while the global MTU is
changed; insertions into a packet buffer in different orders; some hundred parameters in three
places (help, parser, documentation) that have to agree. `PROJECT.json` lists them under "hazards", each with its line and the properties that watch it.

## 2. Modules

| Module | Models |
|---|---|
| `PacketStream` | what `cOutput` walks over: packets of a pass, list elements, passes, totals |
| `Transmission` | abstract specification: what a backend promises |
| `SendQueue` | the Windows job: three threads, ring, semaphores, events, shutdown, statistic |
| `Output` | the walk with the Linux interface or a file behind it: time, sleeps, errors, Ctrl+C |
| `Compiler` | time line and ownership of packets for the three kinds of input |
| `Resolver` | filter, resolver and Linux ARP against a network |
| `IPFragment` | `cIPPacket::v4compile` and the limits of `v6compile` |
| `ParameterText` | an instruction's text: time stamp, keyword, parameters; and its grammar as reference |
| `FileParser` | a script, character by character; instructions scanned with `ParameterText` |
| `Syntax` | the tables of the help: parameters of each protocol, their types, mandatory or optional |
| `ParameterList` | search of parameters, conversions, and the steps that a compile function consists of |
| `EthernetPacket` | the buffer of a frame and the operations that build it |
| `Lldp` | parameters and TLVs of the LLDP parser and packet |
| `InstructionParser` | all compile functions, embedded packets, errors |
| `Manual` | reference: which instructions help and documents allow, and where the parser is known to disagree |
| `SendQueue_proofs`, `Output_proofs`, `Compiler_proofs`, `Resolver_proofs`, `IPFragment_proofs`, `InstructionParser_proofs`, `FileParser_proofs` | theorems about the module of that name, see section 4 |
| `NaturalLemmas` | arithmetic and induction that several proofs need |
| `MC...` | constants for TLC |

**`SendQueue`.** `main`, `worker` and `handler` are the program counters of the three threads. A
step is what a thread does between two points at which another one could see a difference: adding a
packet and, if the queue is nearly full, releasing `semDataAvail` (`AddPacket`); the wait for
`{sigEvent, semSpaceAvail}` (`AcquireQueue`); the start of `~cJob` (`BeginFlush`), the six seconds
after Ctrl+C (`GraceEnds`) and the wait for the worker (`Join`); on the worker's side the wait
(`WorkerWake`), each packet the driver sends (`WorkerTransmit`), the return of the driver, possibly
short, with the reset of the queue (`WorkerFlushed`), the two updates of the statistic and the
hand-back (`WorkerAdvance`). `WaitForMultipleObjects` returns the first signalled object in the
order of its handles. The handler counts first and sets the event afterwards, in two steps. Packets
are numbers; their lengths are constants. `wire` and `failed` are history variables.

**`Output`.** One step per system call of `cInterface::sendPacket` and per decision of the walk. The
clock moves in `Sleep` only, by the time asked for and a jitter for each of its two parts; system
calls take no time. The timer's resolution is any value `SleepInit` may measure. `Init` chooses the
backend (interface or file) and whether the walk is endless; both stay as they are.

**`Compiler`.** Each instruction chooses its time stamp when it is read; errors are actions by the
place where the exception is thrown, since that decides what is freed: before a packet exists
(`SyntaxError`), before the result is assigned (`ParameterError`), after it (`UnusedParameter`).
`deletes` counts how often each packet is deleted. The packets that `compileEmbedded` makes are
packets like the others (`Embed`, any number of them before the instruction around is complete or
fails), but nobody owns them: `embedded` remembers which they are. Times are in a word of `Word` values, as
`cTimeval` uses an `uint64_t`. `Compiler` starts with what the parser reads from an instruction,
and does not model its text (`FileParser` and `InstructionParser` do).

**`Resolver`.** The packet list is any list the parser can produce under the options chosen in
`Init`, for a run with `-i` (without it the resolver is not called). An IPv4 packet stands for two
fragments. Every frame of the network is an `Arrive` step; hosts may send replies nobody asked for,
but do not lie about their own address. The clock ticks while the receive buffer is empty: the
program reads faster than the time unit, a second divided by `Timeout`. Whether the interface has a
MAC and an IPv4 address is chosen in `Init` (`addressed`): `cArp::resolve` stops in `BUG_ON` without
them, as it does if the interface is not open. The Windows `cArp` is a
single call of the system.

**`IPFragment`.** Lengths are in bytes. A fragment record keeps the offset written into the header
and, apart from it, the position in the datagram at which its bytes were read, so that the two can
differ. `EmptyDatagram` and the branch of `Begin` to "bug" are the ways in which the program ends.
Checksums and the other header fields are left out.

**`ParameterText` and `FileParser`.** `FileParser` has an action for each kind of character of a
script (part of a comment, stored, separator, brace) and one for each part of an instruction: time
stamp, keyword, each parameter, end. Letters and digits are represented by one character each, a
quotation mark by `q` and a line break by `nl`; all others that the scanner tells apart are
characters of their own. Whether an instruction compiles is left open (`Compiled`, `NotCompiled`).
The reference for files cuts the text without comments at separators. The reference for
instructions (`Readings`) is the set of ways in which the text can be read by the grammar that the
character tables of the scanner imply; it does not scan. It is not the grammar of the parsing rules
in the comment of `parseParameters` (parameterlist.cpp:521-531), which the code departs from in
several points: names have `-` and not `_`; values are not ended by a blank only, but by any
character outside the table of `nextValueEnd`; strings, embedded packets, flags without a value, an
empty list and a comma behind the last parameter are allowed, and the rules know none of them. The
part of the rules that is comparable is `RulesAllow`: names of letters, digits and `_`, plain values,
commas and blanks. `RulesFollowed` says what becomes of such texts: exactly those with a `_` are
syntax errors.

**`Syntax`, `ParameterList`, `Lldp`, `InstructionParser`.** A parameter is a record of its name, the
kind of text its value is (number, address, bytes, string, flag, embedded packet ...) and its
length. A conversion is modelled by whether it accepts that kind and by the length of what it
returns. A compile function is the sequence of steps that it takes for given parameters: lookups,
each with the position it finds (`findParameter` stops at the next head of a group), and calls of
the packet. Functions that share a part in the code share it here (`IPHead`, `IPCompile`, `Need`,
`Opt`, `Each`). The actions execute one step at a time on a stack of calls: `Lookup`, `Operate`,
`Embed` (saves and raises the MTU and calls the parser again, to a depth of eight), `Return`,
`ReturnEmbedded`, `FormatException` and `Unwind` (an exception frees the packet of each call and
restores the MTU on its way), `Abort` (`BUG_ON`). `live` is the set of allocated packets,
each call has its `packet`, a fresh one as `operator new` gives it (`Fresh`), and `payloadOf` says into
whose buffer the payload of a call points. In the text an embedded packet within another one ends at
the first `>`, so the run nests one level; the model, and the theorems about it, allow all eight.

**`EthernetPacket`.** A frame is a sequence of labels, one per byte, which say what was written
there: a byte of the source address, of the third VLAN tag, of the payload. Inserting moves what is
behind it, as `memmove` does; the length field has as its label the length that was written.

**`Manual`.** `Documented` is a predicate on instructions that says which ones the tables in
`syntax.hpp` and the documents in `src/doc` allow, in terms of groups of parameters, without any
order of searching. It is read from these texts and not from the parser; where the two differ, it has
what either of them allows. `Disagreement` is a predicate of its own and names, each with its
document and line, the instructions about which the texts and the parser disagree. The property of
the passing run, `RefusedOnlyAsListed`, says that a documented instruction is refused exactly if it
is in `Disagreement`; the promise of the manual itself, `DocumentedAccepted`, is violated, as the run
`manual` shows. Section 3 lists all. `Documented` covers values of LLDP of
less than 32 bytes, one level of embedding, and sizes with 60 bytes to spare for the headers of IP
packets; of longer or deeper instructions it says nothing.

**Variants.** Some definitions have a variant in front of them (`MoveWithoutWrap` and `Move`,
`AnyReply` and `Answers`): a plausible mistake that no specification uses. `PROJECT.json` lists them
as mutants; with the variant in place the property named there is violated.

**Refinement.** `SendQueue!ImplementsTransmission` and `Output!ImplementsTransmission` map both
backends to `Transmission`: `accepted` is the number of packets handed over, `open` says that the
job runs, and the sent packets are the same sequence. With Ctrl+C or a transmit error a job may end
early, packets may be missing only after an error, and never twice or out of order.

## 3. Runs

| Run | Instance | Shows |
|---|---|---|
| `ring` | three packets, two passes, ring of three queues that are handed over with one or two packets, two Ctrl+C | ownership (`SlotEmpty`, `SlotFull`), `RingInv`, statistic of packets, the worker has stopped when the job is over, Ctrl+C ends the job with a driver that may hang, the job ends without Ctrl+C if the driver returns, refinement |
| `output` | four packets, interface with resolutions 1 to 3 or file, delays 0, 1 and 5, two passes or endless | never early, late by the jitter only; time stamps in a file exact over passes; the timer is measured; stop after the element begun; Ctrl+C ends an endless walk; refinement |
| `compile` | up to four packets, two files, stamps 0, 1 and 3 | absolute stamps, delays of a capture, real-time mode if there is a delay, on every error path exactly the packets of embedded instructions are left (`OnlyEmbeddedLeaked`) |
| `resolver` | two hosts and a group, all lists of up to three packets, all options, an interface with and without addresses | right destination for each fragment, at most two requests per host, an answer in time is used, resolving ends |
| `ip_fragment` | three MTUs, all header lengths, payloads around the limits of a fragment, counter of three values | loop invariant, contiguous, complete, distinct identifications |
| `text` | all parameter lists of up to four characters out of nine, nested lists, heads of up to four characters, files of up to five pieces | instructions of a file are the text between separators, with the right line (`ScriptRead`); the scanner accepts the grammar that its tables imply and nothing else, and reads each text in the only way (`GrammarFollowed`); what the rules of its comment allow is accepted unless a name has a `_` (`RulesFollowed`) |
| `parser` | for each protocol: mandatory parameters alone, with each option or group, with everything, with one missing, repeated or wrongly written; payloads at and beyond the MTU with zero to two tags; prefixes and unknown names as keyword; embedded packets, also with errors inside; TLVs at the limits of their length and beyond; what documents allow and the parser refuses; with and without `-a` | what help and documents allow is refused in the listed disagreements and nowhere else, and what is accepted has the mandatory parameters (`RefusedOnlyAsListed`); each parameter used for one thing (`Binding`); MTU restored (`MtuRestored`); no payload in a freed packet (`PayloadAlive`); `FrameLayout`; the order and number of the TLVs of LLDP, and that one is too long exactly beyond 168, 167 and 126 rows of `appl-prio`, `cdcp-scid` and `appl-vlan-vid` (`LldpConforming`) |

The ring has three queues whatever the job, and all of them are in use in `ring`: two passes fill four
queues, so that the ring is gone round, and the main thread waits for a queue.
Two Ctrl+C events are enough for one that ends a wait and one that ends the join. Resolutions and
delays cover delays below, at and above the resolution and not multiples of it. In `compile` four
packets suffice for an absolute stamp after a relative one in a second script. `Timeout = 2` ticks
separates an answer at once, one before the timeout and one after it; `MaxBurst = 2` puts a foreign
frame before the answer. The payloads of `ip_fragment` are one byte below, at and above one, two
and three fragments for each of the header lengths; 71 is an MTU whose room is no multiple of
eight. In `text` four characters are enough for a key, its separator, a value and what must not
follow it, five pieces for an instruction between two comments or braces. In `parser` the MTU of 700
lets payloads reach it, and differs from the MTU of embedded packets; of its 735 instructions, each
with and without `-a`, some 600 are documented and accepted, and 30 (46 with `-a`) documented and
refused. The longest tables of LLDP are just within and one row beyond what their TLV can hold. Every bound is a constant named in its module.

**Fairness.** The main thread runs, and a handler that has begun sets its event (`FairSpec`); the
user need not press Ctrl+C and the driver need not return: `CtrlCEndsJob` holds without the worker.
`JobEnds` also needs a driver that returns, which it has as its premise (`WF_vars(Worker)`), as the
code has no other end. In `Output` sleeps end and system calls return, as the kernel guarantees for them. In `Resolver` the
program runs and time passes; nothing is assumed of the network but a finite rate.

**Deadlock** is checked in all runs but `text`, `parser` and `manual`; programs that have ended stutter
(`Over`). The exceptions stop where the program does: at the end of the script and after an
error.

### Disagreements between the code, its comments and its manual

Five runs expect a violation; each shows how the code contradicts a comment in it or the manual.

| Run | Shown |
|---|---|
| `queue_limit` | A job a little smaller than the greatest queue has a single queue, but `semSpaceAvail` ("at least one slot empty") starts at two: the main thread goes on filling the queue that the worker transmits (interface.cpp:117, 157). |
| `split` | After Ctrl+C ended the wait for a queue, the remaining fragments of an IP packet go to the queue already handed over, and it is handed over again: the worker is woken for an empty queue, against "at least one slot full" (interface.cpp:100). |
| `compile_free` | An instruction with wrong parameters frees the packet of the instruction before, which the list frees again at the end (instructionparser.cpp:165). |
| `resolver_ipv6` | An IPv6 packet may leave out the destination MAC, "set automatically" (instructionparser.cpp:621), but no code sets it, and the resolver stops in `BUG_ON` (ippacket.cpp:126). |
| `manual` | Instructions that the manual allows, or has as an example, are refused: `gre` without `protocol` (optional for gre.md:18), `gre` with an embedded `udp` that has a `dmac` (the example of gre.md:100), `icmp` without payload (optional for icmpv4.md:28; it ends in `BUG_ON`), `eth` with an embedded packet (ethernet.md:54), `lldp` with two `pvid` (lldp.md:321). TLC stops at one of the five; that each of them is refused is part of `RefusedOnlyAsListed`, checked in `parser`. |

Three more disagreements are stated exactly by a property of a passing run:

* An instruction with an embedded packet never frees the embedded one, although "in case of errors
  possibly created packets are freed again" (instructionparser.cpp:165): `compileEmbedded` has it in a
  local `cResult`, which frees nothing, and keeps a pointer into its buffer. `OnlyEmbeddedLeaked` says
  that these packets are left behind, with and without an error, and that no other packet is.
* `appl-prio` and other groups of LLDP may be repeated (lldp.md:625), and nothing limits their number
  (lldppacket.cpp:319, 351, 374): 169 groups of `appl-prio` fit into a frame of 1500 bytes and need a
  TLV of 512 bytes, whose length `compile` cuts to nine bits (line 686) while it appends all bytes.
  `LldpConforming` has the number of rows from which on this happens, and the run has tables with that
  number of rows and with one more.
* "letters, digits and _ are allowed for parameter names" (parameterlist.cpp:526), but `nextKeyEnd`
  goes over letters, digits and `-` (parsehelper.hpp:43): `RulesFollowed`.

Further observations without a run of their own; most are noted under "hazards".

* Transmission: `reset` keeps `packetBytesQueued`, so that from the second use of a queue on its
  earlier bytes are counted again (interface.cpp:54, 206).
* Packets: the end of a payload is lost if MTU minus header is no multiple of eight
  (ippacket.cpp:174); a raw IP packet with an empty payload makes the fragment count wrap around; an
  IPv6 packet longer than the MTU ends in `BUG_ON`.
* Program: `-w -i -a` resolves through an interface that was never opened (arp.cpp:50), and
  `-i -a` with an interface without an IPv4 address, which is only worth a warning before, ends in the
  same group of `BUG_ON` (arp.cpp:52); the time line of a second capture file starts with an underflow (compiler.cpp:84); an absolute stamp in the past
  ends in `BUG ("FIXME")`.
* Scripts: an instruction at the end of a file without `;`, and text in front of `{`, are dropped
  without a message; an embedded packet within an embedded packet ends at the first `>`.

Help, documents and parser disagree in these places. In the upper part a documented instruction is
refused; these are the parts of `Disagreement`, and `RefusedOnlyAsListed` shows that the run's
instructions meet no other. In the lower part the parser accepts more than one of the texts says.
Documents are in `src/doc`.

| Protocol | Documented | Parser |
|---|---|---|
| `gre`, `gre6` | `protocol` optional (gre.md:18), not listed by the help | `protocol` must be given |
| `gre`, ICMP messages | embedded `udp(dmac=...)` (gre.md:100) | embedded without Ethernet: MAC and VLAN parameters rejected |
| `icmp` | payload optional (icmpv4.md:28) | `BUG_ON` without payload |
| `ip`, `ipv6`, `icmp` | an empty payload is not forbidden | `BUG_ON`, or a wrong number of fragments |
| `icmp-unreachable` and the other ICMP messages | `chksum` (syntax.hpp) | never read, rejected as unused |
| `igmp` | `type` optional (igmp.md:26) | must be given |
| `igmp` | `time` is a decimal number (syntax.hpp) | read as an integer |
| `igmp` | `dmac` optional for a multicast (igmp.md:69) | rejected as unused with `-a` or a multicast destination |
| `eth` | `ethertype` ignored with an LLC header (ethernet.md:62) | rejected as unused |
| all with VLAN tags | `prio`, `dei`, `vtype` ignored without `vid` (ethernet.md:73) | rejected as unused |
| `eth`, `ip`, `ipv6`, `icmp`, `raw`, `lldp` | every byte stream may be an embedded packet (PACKET_REFERENCE.md:27, ethernet.md:54, ipv4.md:104, ipv6.md:66) | bytes or text only |
| `vrrp`, `vrrp3` | up to 366 `vrip` (vrrp.md:18) | 255 |
| `lldp` | `pvid` may be repeated (lldp.md:321) | rejected |
| `lldp` | `mgt-oui` (lldp.md:292) | is called `mgt-oid` |
| `lldp` | channels of CDCP in any order (lldp.md:718) | found only behind `cdcp-role` |
| `ipv6` | `dmac` is set for a multicast destination | accepted, but the frame has no destination |
| `arp`, `vxlan` | `op`; `dport`, `vni`, `payload` mandatory in the help | have defaults, as the documents say |

## 4. Proofs

A theorem holds for every value of the constants that satisfies the named assumptions of the module:
every packet list, script, network, number of passes and size of the ring. TLC checked each property
on its instance first; the theorem removes the bounds of section 3. Each module states one inductive
invariant and shows, with a lemma per action, that it holds at first and is kept; the properties of
the runs follow from it.

| Module | Theorem | Property of the run | Needs |
|---|---|---|---|
| `SendQueue_proofs` | `TypeCorrect`, `JoinedOrTerminated` | `TypeOK`, `WorkerStopped` | - |
| | `RingInvariance`, `QueueOwnership`, `BufferCalculation`, `WokenForData` | `RingInv`, `SlotEmpty`, `NoBug` (a part of `RingInv`), `SlotFull` | `RingJob` |
| | `StatisticRight`, `QueueImplementsTransmission` | `PacketStatistic`, `ImplementsTransmission` | `RingJob` |
| `Output_proofs` | `WalkTyped`, `WalkPunctual`, `TimerMeasuredBeforeSleep`, `CtrlCStops`, `WalkImplementsTransmission` | `TypeOK`, `Punctual`, `NoBug`, `StopsAfterElement`, `ImplementsTransmission` | - |
| `Compiler_proofs` | `CompilerTyped`, `OwnedFreed`, `TimedListsInRealtime` | `TypeOK`, `OnlyEmbeddedLeaked`, `RealtimeIfTimed` | - |
| | `ReplayedInRealTime` | `RealTimeReplay` | `CaptureFits` |
| | `AbsoluteStampsKept` | `AbsoluteTimesKept` | `ScheduleFits` |
| `Resolver_proofs` | `ResolverTyped`, `ResolvedRight`, `TwoRequests`, `NoAnswerLost` | `TypeOK`, `RightDestination`, `AskedTwiceAtMost`, `AnswerInTimeUsed` | - |
| | `BugOnlyKnown` | `DestMacAutomatic`, violated in `resolver_ipv6` | no IPv6 packet without MAC, no output file, an interface with addresses |
| `IPFragment_proofs` | `FragmentTypes`, `LoopBookkeeping`, `FragmentsContiguous`, `DatagramComplete`, `IdentificationsDistinct` | `TypeOK`, `LoopInv`, `Contiguous`, `Complete`, `DistinctIds` | - |
| `InstructionParser_proofs` | `MtuAlwaysRestored`, `PayloadAlwaysAlive` | `MtuRestored`, `PayloadAlive` | - |
| | `OperationsKeepLayout`, `FrameOfLayout` | the operations `FrameLayout` depends on | tags before the LLC header |
| `FileParser_proofs` | `ScriptAlwaysRead`, `GrammarAlwaysFollowed` | `ScriptRead`, `GrammarFollowed` | - |

**The hypotheses.** `RingJob` names what the code needs and does not check: the job fills more than
one queue, no packet is longer than `MAX_DOUBLE_TAGGED_PACKET`, and the flag is read before every
packet. The first and the last condition are exactly what `queue_limit` and `split` violate; the
instance of `ring` satisfies all three. `CaptureFits` and `ScheduleFits` say that no time overflows
`cTimeval`; in microseconds of 64 bits only stamps of thousands of years do, and the instance of
`compile` satisfies both. `BugOnlyKnown` excludes the three known causes of the `BUG_ON`s in
`getDestination` and `cArp::resolve` (the run `resolver_ipv6`; `-w` with `-i`, where the interface is
not open; an interface without a MAC or an IPv4 address), and shows that there is no fourth.

**Arguments.** Few of the properties are inductive as they stand.

* *`SendQueue`.* Whether the queue at `in` is free (`SlotEmpty`) depends on the semaphores, the
  pointers and the worker's state together. `RingInv` says how: while the main thread holds a queue,
  `in` is the position after the queues handed over, and free places and handed-over queues are two
  in sum (`RingShape`), three while it waits or has been interrupted; queues not handed over are
  empty, and the one held has room for another packet (`RingRoom`); the worker ends last, and Ctrl+C
  is counted before it is noticed, so that no packet follows an interrupted wait (`Shutdown`).
  `StreamInv` adds what the queues hold: read from `out` on, the ring has the packets up to the next
  one without a gap, and the wire ends where the ring begins unless a transmit failed (`Numbered`);
  a queue is empty exactly if its byte count is zero, and what is handed over is not (`Contents`);
  the statistic lags behind the wire by what the worker has not counted yet (`Counted`); the walk
  ends at the end of the list or after Ctrl+C (`Progress`). From `Numbered` every step of the three
  threads is a step of `Transmission` or a stutter.
* *`Output`.* `WalkInv`: the packets before the current one were sent in order (`SentInOrder`);
  `sendTime` is the sum of the delays up to it over all passes, or up to the one before (`Timing`);
  the clock is ahead of that by at most two jitters for each packet sent (`Clock`), since `Sleep`
  returns neither early nor later than its two parts allow (`SleepDuration`); the timer is measured
  before the first delay (`TimerMeasured`); after Ctrl+C only fragments of the element begun follow
  (`Stopping`, with `Position`).
* *`Compiler`.* `CompileInv`: every packet is in the list, whose destructor frees it, or was deleted, or
  was made for an embedded instruction, and then it is in no list, `cResult` does not point to it, and
  it is never deleted (`Owned`, `Pointers`); captures and instructions are not mixed (`Sources`); delays appear only if the flag for
  the real-time mode is set (`Timed`). `TimeLineInv` is about the time line: it stands where the last
  packet of the list leaves (`OnTimeLine`), the files are consecutive parts of the list
  (`FilesInOrder`), so that the start of a script is the end of the one before, and the time line
  grows by at most the longest stamp per packet (`Unwrapped`).
* *`Resolver`.* `ResolveInv`: all fragments of a packet have the same destination, packets before the
  position are directed, those behind it are as the parser left them (`ListInv`); the cache holds
  what hosts say of themselves (`CacheInv`); requests are counted for the address being asked and no
  other, and an address that is asked for again is in the cache (`AskingInv`); an answer in time is
  still in the receive buffer, and the clock stands until it is read (`AnswerInv`).
* *`IPFragment`.* With k fragments to come, what is left is more than (k - 1) times the room of a
  packet, and at most k times the room if that is a multiple of eight (`LoopInv`). The lower bound
  makes every fragment but the last full, hence no fragment empty; the upper bound leaves nothing
  after the last one. Both are established by the quotient that fixes the number of fragments
  (`BeginInv`) and kept by each fragment (`FragmentLength`, `FragmentStepInv`). For `DistinctIds`
  the i-th automatic identification is i, of 16 bits (`CounterInv`), and two numbers with the same
  remainder are a whole counter apart (`DifferentRemainders`).
* *`InstructionParser`.* Each call on the stack but the innermost has saved the MTU of its own depth,
  and the MTU in force is that of embedded packets exactly below the first call (`MtuInv`). So both
  `ReturnEmbedded` and each step of `Unwind` restore the right one. For `PayloadAlive` it is not enough
  that payloads are in packets that exist: an exception frees one. `PacketInv` adds that every active
  call has a packet of its own, and that no payload is in the packet of an active call; what an
  exception frees is always the packet of an active call. A packet that is complete belongs to no call
  any more when its payload is handed over, and `operator new` never returns one that exists
  (`FreshPacket`, by counting).
* *`EthernetPacket`.* `LaidOut` says of a packet which labels its parts have and that its positions
  (type field, payload, lengths) are the ones that follow from the number of tags and the length of
  the header. What `memcpy` does not overlap stays, what `memmove` takes along is in its new place
  (`CopyShows`, `MoveShows`); from these each operation keeps the layout with its own part changed.
  `addVlanTag` moves the type field and the payload, but leaves out the length of an LLC header: with
  a header in place the layout would be lost, which is why all compile functions insert tags first.
* *`FileParser`.* The reference cuts the whole text, the parser sees a character at a time. Lemmas say
  what one more character does to the reference: to the text without comments (`PlainMore`), the
  semicolons (`EndsMore`), the text since the last separator (`TextMore`), the counts (`CountMore`).
  `ScriptInv` relates the parser to the reference for what it has read: the comment flag, the line
  number and the open blocks (`CharInv`), the buffer (`BufferInv`), the instructions compiled
  (`DeliveredInv`), and that a wrong brace is never passed over (`BlockInv`).
* *The grammar of an instruction.* The reference (`Readings`) is about a whole text: the time stamp
  and the keyword up to the first parenthesis, then a list cut at some of the commas, each piece an item
  of the grammar. Which commas are cuts, it leaves open; one in a string or in an embedded packet is
  none. The scanner goes forward and never back. `GrammarInv` says what is known in each state of
  `parse`: the time stamp found (`StampInv`), and the parameters read so far as pieces between cuts up
  to the current position, behind a heading the grammar allows (`ParameterInv`). For every item two
  directions are needed. What the scanner accepts is an item of the grammar (`ParameterScan`,
  `HeadingScan`); and where the grammar has an item, the scanner accepts it and reads exactly up to its
  end (`ParameterRun`, `HeadingRun`). Then any reading of the text begins with the parameters the
  scanner has read (`SlicesAgree`, by the least position at which they could differ), and ends there
  too or goes on as the scanner does (`ReadingAgrees`): an accepted text has one reading, the
  scanner's, and a refused one none.

Facts about sums and about the members of a finite set of positions need induction. The induction
theorems of the library cannot be used with the provers at hand; `NaturalLemmas` has the least element
of a set of naturals instead (`LeastNatural`, `InductionInSet`), and what a recursive function over
naturals is (`SumRecursion`). A proof by induction then takes the set of numbers for which the claim
holds.

**Assumptions.** The constants' assumptions are named (`StreamAssumption`, `QueueAssumption`,
`OutputAssumption`, `CompilerAssumption`, `ResolverAssumption`, `FragmentAssumption`,
`ParserAssumption`, `ScriptAssumption`, `TextAssumption`) and are evaluated by TLC in every run. They say that sizes and
times are numbers and lists are sequences; 68 is the smallest MTU `execute` accepts; no L4 header is
longer than that of TCP; letters, digits and the characters with a meaning are different ones, and a
script has no null character.

**Only model-checked:**

* all liveness properties (`CtrlCEndsJob`, `JobEnds`, the end of the walk and of resolving): fairness
  is out of the prover's reach;
* `RulesFollowed`, and `RefusedOnlyAsListed`, `Binding`, `FrameLayout`, `LldpConforming`: the last four are about some thousand lines of tables and
  compile functions, which a proof would have to go through one by one, with an induction over the
  groups of parameters in each. Of `FrameLayout` the part about `cEthernetPacket` is proved; that the
  compile functions call its operations in an order that `OperationsKeepLayout` allows is checked for
  the instructions of the run.

## 5. Not modelled

* Help texts and option parsing (a library that is not in the repository), the opening of devices
  and files of the operating system, the text formats of the file backends, unit and performance
  tests.
* The values of header fields, which compile functions copy from parameters, and the checksum. The
  lengths, the order of the calls and the addresses are modelled.
* The digits and ranges of numbers, and the syntax of addresses: a value is of the right kind or not.
* `addPnNme...` and `addEndTLV` of `cLldpPacket`, which nothing calls; `cPreprocessor`, which rewrites
  MAC addresses at random; `cScheduler`, which returns its input.
* The duration that a job prints, and wall-clock times on Windows, where the driver keeps them.

`PROJECT.json` gives the reason for each component.

## 6. Plan

1. Proofs: `FrameLayout` and `Binding` for the compile functions, protocol by protocol, from
   `OperationsKeepLayout` and a lemma about the groups that `Each` finds.
2. `InetChecksum` against its definition, over fragments and odd lengths.
3. `TcpPump`: the chain of steps with its error exits, composing the modules above.
4. `PcapFileIO`: both directions, time normalisation, truncated captures.

The order follows what the properties protect: the concurrent transmission and the timing, then the
packet list, then the text that it is built from.
