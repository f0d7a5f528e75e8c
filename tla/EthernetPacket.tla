--------------------------- MODULE EthernetPacket ---------------------------
(***************************************************************************)
(* cEthernetPacket: a buffer with an Ethernet frame and the places of the  *)
(* ethertype and of the payload in it, which move when a tag or an LLC     *)
(* header is added.  Bytes are not numbers but labels that tell what they  *)
(* are: a pair of a name and a number.  Offsets count from 0 as in the     *)
(* code.  Every operation throws a FormatException if Fits is false.       *)
(***************************************************************************)
EXTENDS Integers, Sequences, SequencesExt

MacSize  == 6
MacHeaderSize == 14
VlanSize == 4
SnapSize == 5

Bytes(label, n) == [k \in 1 .. n |-> label]

(* memcpy into the buffer at an offset, and memmove within it.             *)
Garbage == <<"garbage", 0>>
Size(buf, end) == IF Len(buf) > end THEN Len(buf) ELSE end
Copy(buf, offset, bytes) ==
  [k \in 1 .. Size(buf, offset + Len(bytes)) |->
     IF k \in offset + 1 .. offset + Len(bytes) THEN bytes[k - offset]
     ELSE IF k <= Len(buf) THEN buf[k] ELSE Garbage]
Move(buf, to, from, n) == Copy(buf, to, SubSeq(buf, from + 1, from + n))

(* A new packet: the header is zero.  limit is packetMaxLength.            *)
NewPacket(limit) ==
  [buf |-> Bytes(<<"zero", 0>>, MacHeaderSize), type |-> 2 * MacSize,
   payload |-> MacHeaderSize, payloadLength |-> 0, llcHeaderLength |-> 0,
   max |-> limit, hasDMAC |-> FALSE]

(* The default constructor leaves room for one VLAN tag.                   *)
NoRoomForTag(mtu) == mtu + MacHeaderSize
MaxLengthFor(mtu) == mtu + MacHeaderSize + VlanSize

getLength(e) == e.payload + e.payloadLength
Fits(e, addedBytes) == getLength(e) + addedBytes <= e.max

setDestMac(e) ==
  [e EXCEPT !.buf = Copy(@, 0, Bytes(<<"dmac", 0>>, MacSize)), !.hasDMAC = TRUE]
setSrcMac(e) == [e EXCEPT !.buf = Copy(@, MacSize, Bytes(<<"smac", 0>>, MacSize))]

setTypeLength(e, label) == [e EXCEPT !.buf = Copy(@, e.type, Bytes(label, 2))]
setLength(e) == setTypeLength(e, <<"length", e.payloadLength + e.llcHeaderLength>>)

(* The LLC header goes in front of payload that is already there.          *)
addLlcHeader(e, size) ==
  LET moved == Move(e.buf, e.payload + size, e.payload, e.payloadLength)
  IN  setLength([e EXCEPT !.llcHeaderLength = size,
                          !.buf = Copy(moved, e.payload, Bytes(<<"llc", 0>>, size)),
                          !.payload = @ + size])

addSnapHeader(e) ==
  LET l == addLlcHeader(e, 3)
      moved == Move(l.buf, l.payload + SnapSize, l.payload, l.payloadLength)
  IN  setLength([l EXCEPT !.llcHeaderLength = @ + SnapSize,
                          !.buf = Copy(moved, l.payload, Bytes(<<"snap", 0>>, SnapSize)),
                          !.payload = @ + SnapSize])

(* The ethertype and the payload behind it make room for the tag.          *)
OnlyTypeMoved(e, tag) ==
  LET moved == Move(e.buf, e.type + VlanSize, e.type, 2)
  IN  [e EXCEPT !.buf = Copy(moved, e.type, Bytes(<<"vlan", tag>>, VlanSize)),
                !.type = @ + VlanSize, !.payload = @ + VlanSize]
addVlanTag(e, tag) ==
  LET moved == Move(e.buf, e.type + VlanSize, e.type, 2 + e.payloadLength)
  IN  [e EXCEPT !.buf = Copy(moved, e.type, Bytes(<<"vlan", tag>>, VlanSize)),
                !.type = @ + VlanSize, !.payload = @ + VlanSize]

setPayload(e, len) ==
  [e EXCEPT !.buf = Copy(@, e.payload, Bytes(<<"payload", 0>>, len)),
            !.payloadLength = len]
appendPayload(e, len) ==
  [e EXCEPT !.buf = Copy(@, getLength(e), Bytes(<<"payload", 0>>, len)),
            !.payloadLength = @ + len]

(* The whole packet at once.  payloadLength is negative for fewer bytes    *)
(* than a header has; it wraps around, and getLength is right again.       *)
setRaw(e, len) ==
  [NewPacket(e.max) EXCEPT !.buf = Copy(@, 0, Bytes(<<"raw", 0>>, len)),
                           !.payloadLength = len - MacHeaderSize,
                           !.hasDMAC = TRUE]

(* What get() and getLength() show to the network.                         *)
Frame(e) == [k \in 1 .. getLength(e) |-> IF k <= Len(e.buf) THEN e.buf[k] ELSE Garbage]
=============================================================================
