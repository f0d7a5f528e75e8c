-------------------------- MODULE IPFragment_proofs --------------------------
(* Proofs about IPFragment, for every MTU from 68, every length and any    *)
(* number of packets.                                                      *)
EXTENDS IPFragment, TLAPS

(* What the quotient of two natural numbers means.                         *)
LEMMA Quotient ==
  ASSUME NEW a \in Nat, NEW m \in Nat \ {0}
  PROVE  /\ a \div m \in Nat
         /\ (a \div m) * m <= a
         /\ a < (a \div m) * m + m
  BY SMT

(* Products by one more and one less.                                      *)
LEMMA Product ==
  ASSUME NEW k \in Nat, NEW r \in Nat, k >= 1
  PROVE  k * r >= r /\ (k - 1) * r = k * r - r
  BY SMT

(* The length a fragment is cut to, in front of others.                    *)
LEMMA Multiple ==
  ASSUME NEW x \in Nat
  PROVE  /\ EightBytes(x) \in Nat
         /\ EightBytes(x) % 8 = 0
         /\ EightBytes(x) <= x /\ x < EightBytes(x) + 8
         /\ x % 8 = 0 => EightBytes(x) = x
  BY SMT DEF EightBytes

(* There is always room for an L4 header.                                  *)
LEMMA RoomForHeader ==
  ASSUME TypeOK
  PROVE  Room \in Nat /\ Room >= 28 /\ mtu \in Nat
  BY FragmentAssumption, SMT DEF TypeOK, Room

(* The loop cuts a fragment that fits, and leaves what the fragments still *)
(* to come can take.                                                       *)
LEMMA FragmentLength ==
  ASSUME TypeOK, LoopInv, pc = "fragment", n < fragCnt
  PROVE  /\ FragLen \in Nat /\ FragLen > 0
         /\ FragLen <= Left /\ FragLen <= Room
         /\ n = 0 => FragLen >= l4headerLen
         /\ n + 1 # fragCnt =>
              FragLen % 8 = 0 /\ Left - FragLen > (fragCnt - n - 2) * Room
         /\ Room % 8 = 0 => Left - FragLen <= (fragCnt - n - 1) * Room
<1> DEFINE k == fragCnt - n
           len == IF Left + ipHeaderLen > mtu THEN Room ELSE Left
<1>1. Room \in Nat /\ Room >= 28 /\ mtu \in Nat
  BY RoomForHeader
<1>2. Left \in Nat /\ (n = 0 => Left >= l4headerLen) /\ l4headerLen \in 0 .. 20
  BY DEF TypeOK, Left
<1>3. k \in Nat /\ k >= 1
  BY DEF TypeOK
<1>4. Left > (k - 1) * Room /\ (Room % 8 = 0 => Left <= k * Room)
  <2>1. fragCnt - n - 1 = k - 1
    BY DEF TypeOK
  <2>2. (n < fragCnt => Left > (fragCnt - n - 1) * Room)
        /\ (Room % 8 = 0 => Left <= (fragCnt - n) * Room)
    BY Zenon DEF LoopInv
  <2> QED BY <2>1, <2>2
<1>5. len = (IF Left > Room THEN Room ELSE Left)
  BY <1>1, <1>2 DEF TypeOK, Room
<1>6. FragLen = IF n + 1 # fragCnt THEN EightBytes(len) ELSE len
  BY DEF FragLen
<1>7. CASE n + 1 = fragCnt
  <2>1. k = 1
    BY <1>7 DEF TypeOK
  <2>2. (k - 1) * Room = 0 /\ k * Room = Room /\ (fragCnt - n - 1) * Room = 0
    BY <2>1, <1>1
  <2>3. FragLen = (IF Left > Room THEN Room ELSE Left)
    BY <1>5, <1>6, <1>7
  <2> HIDE DEF k, len
  <2> QED BY <1>1, <1>2, <1>4, <2>2, <2>3, <1>7
<1>8. CASE n + 1 # fragCnt
  <2>1. k >= 2
    BY <1>8 DEF TypeOK
  <2>2. (k - 1) * Room >= Room /\ (k - 1 - 1) * Room = (k - 1) * Room - Room
        /\ (k - 1) * Room = k * Room - Room
    <3> DEFINE j == k - 1
    <3>1. j \in Nat /\ j >= 1
      BY <1>3, <2>1
    <3>2. j * Room >= Room /\ (j - 1) * Room = j * Room - Room
      <4> HIDE DEF j
      <4> QED BY <1>1, <3>1, Product
    <3>3. (k - 1) * Room = k * Room - Room
      <4> HIDE DEF k
      <4> QED BY <1>1, <1>3, Product
    <3> QED BY <3>2, <3>3
  <2>3. fragCnt - n - 2 = k - 1 - 1 /\ fragCnt - n - 1 = k - 1
    BY DEF TypeOK
  <2>4. (k - 1) * Room \in Int /\ k * Room \in Int
    BY <1>1, <1>3
  <2>5. Left > Room
    <3> HIDE DEF k
    <3> QED BY <1>1, <1>2, <1>4, <2>2, <2>4
  <2>6. FragLen = EightBytes(Room)
    BY <1>5, <1>6, <1>8, <2>5
  <2>7. /\ EightBytes(Room) \in Nat /\ EightBytes(Room) % 8 = 0
        /\ EightBytes(Room) <= Room /\ Room < EightBytes(Room) + 8
        /\ Room % 8 = 0 => EightBytes(Room) = Room
    BY <1>1, Multiple
  <2>8. FragLen \in Nat /\ FragLen > 0 /\ FragLen <= Left /\ FragLen <= Room
        /\ (n = 0 => FragLen >= l4headerLen) /\ FragLen % 8 = 0
    BY <1>1, <1>2, <2>5, <2>6, <2>7
  <2>9. Left - FragLen > (k - 1 - 1) * Room
    <3> HIDE DEF k
    <3> QED BY <1>1, <1>2, <1>4, <2>2, <2>8, <2>4
  <2>10. Room % 8 = 0 => Left - FragLen <= (k - 1) * Room
    <3> HIDE DEF k
    <3> QED BY <1>1, <1>2, <1>4, <2>2, <2>6, <2>7, <2>4
  <2> QED BY <2>3, <2>8, <2>9, <2>10
<1> QED BY <1>7, <1>8

-----------------------------------------------------------------------------
(* The inductive invariant.                                                *)
FragmentInv == TypeOK /\ LoopInv /\ Contiguous /\ Complete

(* The invariant before the first packet.                                  *)
LEMMA InitInv == Init => FragmentInv
<1> SUFFICES ASSUME Init PROVE FragmentInv
  OBVIOUS
<1>1. TypeOK
  <2>1. 1 % IdWord \in 0 .. IdWord - 1
    BY FragmentAssumption
  <2> QED BY <2>1, FragmentAssumption DEF Init, TypeOK
<1> QED BY <1>1 DEF Init, FragmentInv, LoopInv, Contiguous, Complete

(* A datagram begins: its length needs exactly the fragments that are      *)
(* counted.                                                                *)
LEMMA BeginInv ==
  ASSUME FragmentInv,
         NEW headerLen \in HeaderLens, NEW l4 \in L4HeaderLens,
         NEW len \in PayloadLens, NEW vlan \in VlanTags,
         NEW userId \in UserIds \cup {NoId},
         Begin(headerLen, l4, len, vlan, userId)
  PROVE  FragmentInv'
<1> DEFINE whole == l4 + len
           room == mtu - headerLen
           q == (whole - 1) \div room
<1>1. /\ headerLen \in {20, 24, 40} /\ l4 \in 0 .. 20 /\ len \in Nat
      /\ vlan \in Nat /\ mtu \in Nat /\ mtu >= 68 /\ mtu \in Mtus
  BY FragmentAssumption DEF FragmentInv, TypeOK
<1>2. whole - 1 \in Nat /\ room \in Nat \ {0}
  BY <1>1 DEF Begin
<1>3. q \in Nat /\ q * room <= whole - 1 /\ whole - 1 < q * room + room
  <2> HIDE DEF whole, room
  <2> QED BY <1>2, Quotient
<1>4. /\ ipHeaderLen' = headerLen /\ l4headerLen' = l4 /\ tags' = vlan /\ total' = whole
      /\ payloadLen' = len /\ payload' = 0 /\ mtu' = mtu
      /\ n' = 0 /\ offset' = 0 /\ fragments' = <<>>
      /\ fragCnt' = q + 1
      /\ pc' \in {"idle", "bug", "fragment"}
  BY DEF Begin, FragmentCount
<1>5. nextIdentification' \in 0 .. IdWord - 1 /\ id' \in Nat /\ autoIds' \in Seq(Nat)
  <2>1. nextIdentification \in 0 .. IdWord - 1 /\ id \in Nat /\ autoIds \in Seq(Nat)
        /\ IdWord \in Nat \ {0} /\ (userId = NoId \/ userId \in Nat)
    BY FragmentAssumption DEF FragmentInv, TypeOK
  <2>2. CASE UNCHANGED <<nextIdentification, id, autoIds>>
    BY <2>1, <2>2
  <2>3. CASE ChooseId(userId)
    <3>1. CASE /\ id' = nextIdentification /\ NextId
               /\ autoIds' = Append(autoIds, id')
      BY <2>1, <3>1 DEF NextId
    <3>2. CASE /\ id' = (IF userId = NoId THEN 0 ELSE userId)
               /\ UNCHANGED <<nextIdentification, autoIds>>
      BY <2>1, <3>2
    <3> QED BY <2>3, <3>1, <3>2 DEF ChooseId
  <2> QED BY <2>2, <2>3 DEF Begin
<1>6. TypeOK'
  <2>1. whole \in Nat /\ q + 1 \in Nat
    BY <1>1, <1>3
  <2>2. fragments' \in Seq(FragmentType)
    BY <1>4
  <2> HIDE DEF whole, q
  <2> QED BY <1>1, <1>4, <1>5, <2>1, <2>2 DEF TypeOK
<1>7. LoopInv'
  <2>1. Left' = whole /\ Room' = room
    BY <1>1, <1>4 DEF Left, Room
  <2>2. (q + 1) * room = q * room + room /\ q * room \in Nat
    <3> HIDE DEF q, room
    <3> QED BY <1>2, <1>3
  <2>3. whole \in Nat /\ fragCnt' - n' - 1 = q /\ fragCnt' - n' = q + 1
    <3> HIDE DEF q
    <3> QED BY <1>1, <1>3, <1>4
  <2>4. whole > q * room /\ whole <= (q + 1) * room
    <3> HIDE DEF q, room, whole
    <3> QED BY <1>2, <1>3, <2>2, <2>3
  <2>5. /\ n' < fragCnt' => offset' % 8 = 0 /\ Left' > (fragCnt' - n' - 1) * Room'
        /\ Left' <= (fragCnt' - n') * Room'
    <3> HIDE DEF q, room, whole
    <3> QED BY <1>4, <2>1, <2>3, <2>4
  <2>6. fragCnt' >= 1 /\ n' = Len(fragments') /\ n' <= fragCnt'
    <3> HIDE DEF q
    <3> QED BY <1>3, <1>4
  <2>7. l4headerLen' + payloadLen' = total'
    BY <1>4
  <2>8. ~(n' > 0) /\ offset' = 0 /\ payload' = 0
    BY <1>4
  <2> HIDE DEF q, room, whole
  <2> QED BY <2>5, <2>6, <2>7, <2>8, Zenon DEF LoopInv
<1>8. Contiguous' /\ Complete'
  BY <1>4 DEF Contiguous, Complete
<1> QED BY <1>6, <1>7, <1>8 DEF FragmentInv

(* One more fragment: it begins where the one before ended, and what is    *)
(* left still needs the fragments to come.                                 *)
LEMMA FragmentStepInv ==
  ASSUME FragmentInv, Fragment
  PROVE  FragmentInv'
<1> DEFINE cut == FragLen
           more == n + 1 # fragCnt
           f == [offset |-> offset, start |-> IF n = 0 THEN 0 ELSE l4headerLen + payload,
                 len |-> cut, mf |-> more, id |-> id]
<1>1. pc = "fragment" /\ n < fragCnt /\ TypeOK /\ LoopInv
  BY DEF FragmentInv, Fragment
<1>2. /\ cut \in Nat /\ cut > 0 /\ cut <= Left /\ cut <= Room
      /\ n = 0 => cut >= l4headerLen
      /\ n + 1 # fragCnt => cut % 8 = 0 /\ Left - cut > (fragCnt - n - 2) * Room
      /\ Room % 8 = 0 => Left - cut <= (fragCnt - n - 1) * Room
  BY <1>1, FragmentLength
<1>3. /\ mtu \in Nat /\ ipHeaderLen \in Nat /\ l4headerLen \in Nat
      /\ total \in Nat /\ payloadLen \in Nat /\ payload \in Nat
      /\ fragCnt \in Nat /\ n \in Nat /\ offset \in Nat /\ id \in Nat
      /\ fragments \in Seq(FragmentType)
  BY <1>1, RoomForHeader DEF TypeOK
<1>4. /\ n = Len(fragments)
      /\ n = 0 => offset = 0 /\ payload = 0 /\ l4headerLen + payloadLen = total
      /\ n > 0 => /\ l4headerLen + payload = offset /\ offset + payloadLen = total
                  /\ offset = fragments[n].offset + fragments[n].len
      /\ offset % 8 = 0
  BY <1>1, Zenon DEF LoopInv
<1>5. /\ UNCHANGED <<mtu, nextIdentification, pc, datagramVars, fragCnt, id, autoIds>>
      /\ fragments' = Append(fragments, f)
      /\ offset' = offset + cut /\ n' = n + 1
      /\ payloadLen' = payloadLen - (cut - (IF n = 0 THEN l4headerLen ELSE 0))
      /\ payload' = payload + (cut - (IF n = 0 THEN l4headerLen ELSE 0))
  BY DEF Fragment, NextOffset
<1>6. /\ mtu' = mtu /\ ipHeaderLen' = ipHeaderLen /\ l4headerLen' = l4headerLen
      /\ tags' = tags /\ total' = total /\ pc' = pc /\ fragCnt' = fragCnt
      /\ nextIdentification' = nextIdentification /\ id' = id /\ autoIds' = autoIds
      /\ Room' = Room
  BY <1>5 DEF datagramVars, Room
<1> HIDE DEF cut
<1>7. f \in FragmentType
  BY <1>2, <1>3 DEF FragmentType
<1>8. payloadLen' = Left - cut /\ payloadLen' \in Nat /\ payload' \in Nat
  BY <1>2, <1>3, <1>5 DEF Left
<1>9. fragments' \in Seq(FragmentType) /\ Len(fragments') = n + 1
      /\ fragments'[n + 1] = f /\ (\A i \in 1 .. n : fragments'[i] = fragments[i])
  <2> HIDE DEF f
  <2> QED BY <1>3, <1>4, <1>5, <1>7
<1>10. TypeOK'
  <2>1. offset' \in Nat /\ n' \in Nat
    BY <1>2, <1>3, <1>5
  <2> QED BY <1>1, <1>6, <1>8, <1>9, <2>1 DEF TypeOK
<1>11. LoopInv'
  <2>1. l4headerLen + payload' = offset' /\ offset' + payloadLen' = total
    BY <1>2, <1>3, <1>4, <1>5
  <2>2. offset' = fragments'[n'].offset + fragments'[n'].len
    BY <1>5, <1>9
  <2>3. Left' = Left - cut
    BY <1>3, <1>5, <1>8 DEF Left
  <2>4. n' < fragCnt => offset' % 8 = 0 /\ Left' > (fragCnt - n' - 1) * Room
    <3> SUFFICES ASSUME n' < fragCnt
                 PROVE  offset' % 8 = 0 /\ Left' > (fragCnt - n' - 1) * Room
      OBVIOUS
    <3>1. n + 1 # fragCnt /\ fragCnt - n' - 1 = fragCnt - n - 2
      BY <1>3, <1>5
    <3>2. cut % 8 = 0 /\ offset' = offset + cut
      BY <1>2, <1>5, <3>1
    <3> QED BY <1>2, <1>3, <1>4, <2>3, <3>1, <3>2
  <2>5. Room % 8 = 0 => Left' <= (fragCnt - n') * Room
    <3>1. fragCnt - n' = fragCnt - n - 1
      BY <1>3, <1>5
    <3> QED BY <1>2, <2>3, <3>1
  <2>6. fragCnt >= 1 /\ n' = Len(fragments') /\ n' <= fragCnt /\ n' # 0
    BY <1>1, <1>3, <1>5, <1>9
  <2> QED BY <1>6, <2>1, <2>2, <2>4, <2>5, <2>6, Zenon DEF LoopInv
<1>12. Contiguous'
  <2> SUFFICES ASSUME NEW i \in 1 .. n + 1
               PROVE  /\ fragments'[i].offset % 8 = 0
                      /\ fragments'[i].start = fragments'[i].offset
                      /\ fragments'[i].offset =
                           IF i = 1 THEN 0
                           ELSE fragments'[i - 1].offset + fragments'[i - 1].len
                      /\ fragments'[i].len > 0
                      /\ fragments'[i].len + ipHeaderLen <= mtu
                      /\ fragments'[i].mf <=> i < fragCnt
    BY <1>3, <1>6, <1>9, SMTT(30) DEF Contiguous
  <2>1. CASE i \in 1 .. n
    <3>1. fragments'[i] = fragments[i]
      BY <1>9, <2>1
    <3>2. i # 1 => fragments'[i - 1] = fragments[i - 1]
      <4>1. i # 1 => i - 1 \in 1 .. n
        BY <1>3, <2>1
      <4> QED BY <1>9, <4>1
    <3>3. i \in DOMAIN fragments
      BY <1>3, <1>4, <2>1
    <3> QED BY <3>1, <3>2, <3>3, Zenon DEF FragmentInv, Contiguous
  <2>2. CASE i = n + 1
    <3>1. fragments'[i] = f
      BY <1>9, <2>2
    <3>2. f.offset % 8 = 0 /\ f.start = f.offset
      BY <1>3, <1>4
    <3>3. f.offset = IF i = 1 THEN 0
                     ELSE fragments'[i - 1].offset + fragments'[i - 1].len
      BY <1>3, <1>4, <1>9, <2>2
    <3>4. f.len > 0 /\ f.len + ipHeaderLen <= mtu
      BY <1>2, <1>3 DEF Room
    <3>5. (n + 1 # fragCnt) <=> i < fragCnt
      BY <1>1, <1>3, <2>2
    <3>6. f.mf <=> i < fragCnt
      BY <3>5, Zenon
    <3> QED BY <3>1, <3>2, <3>3, <3>4, <3>6, Zenon
  <2> QED BY <1>3, <2>1, <2>2
<1>13. Complete'
  BY <1>1, <1>6 DEF Complete
<1> QED BY <1>10, <1>11, <1>12, <1>13 DEF FragmentInv

(* The last fragment leaves nothing, if all fragments were filled.         *)
LEMMA CompiledInv ==
  ASSUME FragmentInv, Compiled
  PROVE  FragmentInv'
<1>1. /\ UNCHANGED <<mtu, nextIdentification, fragCnt, id, autoIds>>
      /\ UNCHANGED <<datagramVars, loopVars>>
      /\ pc = "fragment" /\ n = fragCnt /\ pc' = "compiled"
  BY DEF Compiled
<1>2. TypeOK' /\ LoopInv'
  BY <1>1 DEF FragmentInv, TypeOK, LoopInv, datagramVars, loopVars
<1>3. Contiguous'
  BY <1>1 DEF FragmentInv, Contiguous, datagramVars, loopVars
<1>4. Complete'
  <2>1. /\ fragCnt >= 1 /\ n = Len(fragments)
        /\ n > 0 => offset + payloadLen = total /\ offset = fragments[n].offset + fragments[n].len
        /\ Room % 8 = 0 => Left <= (fragCnt - n) * Room
    BY <1>1, Zenon DEF FragmentInv, LoopInv
  <2>2. n \in Nat /\ fragCnt \in Nat /\ payloadLen \in Nat /\ offset \in Nat
        /\ total \in Nat /\ Room \in Nat
    BY RoomForHeader DEF FragmentInv, TypeOK
  <2>3. n > 0 /\ fragCnt - n = 0
    BY <1>1, <2>1, <2>2
  <2>4. Room % 8 = 0 => payloadLen = 0
    BY <2>1, <2>2, <2>3 DEF Left
  <2>5. Room % 8 = 0 => fragments[n].offset + fragments[n].len = total
    BY <2>1, <2>2, <2>3, <2>4
  <2>6. Room' = Room /\ fragments' = fragments /\ total' = total
    BY <1>1 DEF Room, datagramVars, loopVars
  <2> QED BY <2>1, <2>5, <2>6 DEF Complete
<1> QED BY <1>2, <1>3, <1>4 DEF FragmentInv

(* A packet that is given up, an empty one, and stuttering.                *)
LEMMA OtherInv ==
  ASSUME FragmentInv,
         TooLong \/ (\E l4, len : EmptyDatagram(l4, len)) \/ UNCHANGED vars
  PROVE  FragmentInv'
<1>1. UNCHANGED <<mtu, nextIdentification, fragCnt, id, autoIds>>
      /\ UNCHANGED <<datagramVars, loopVars>> /\ pc' \in {pc, "idle", "bug"}
  BY DEF TooLong, EmptyDatagram, vars
<1>2. TypeOK' /\ LoopInv'
  BY <1>1 DEF FragmentInv, TypeOK, LoopInv, datagramVars, loopVars, Left, Room
<1>3. Contiguous' /\ Complete'
  BY <1>1 DEF FragmentInv, Contiguous, Complete, datagramVars, loopVars, Room
<1> QED BY <1>2, <1>3 DEF FragmentInv

(* Whatever cIPPacket::v4compile is given, the fragments it has written    *)
(* are well formed, and they are the datagram if the room is a multiple of *)
(* eight.                                                                  *)
THEOREM FragmentInvariance == Spec => []FragmentInv
<1>1. FragmentInv /\ [Next]_vars => FragmentInv'
  <2> SUFFICES ASSUME FragmentInv, [Next]_vars PROVE FragmentInv'
    OBVIOUS
  <2>1. ASSUME NEW headerLen \in HeaderLens, NEW l4 \in L4HeaderLens,
               NEW len \in PayloadLens, NEW vlan \in VlanTags,
               NEW userId \in UserIds \cup {NoId},
               Begin(headerLen, l4, len, vlan, userId)
        PROVE  FragmentInv'
    BY <2>1, BeginInv
  <2>2. CASE Fragment
    BY <2>2, FragmentStepInv
  <2>3. CASE Compiled
    BY <2>3, CompiledInv
  <2>4. CASE TooLong \/ (\E l4, len : EmptyDatagram(l4, len)) \/ Over \/ UNCHANGED vars
    BY <2>4, OtherInv DEF Over
  <2> QED BY <2>1, <2>2, <2>3, <2>4 DEF Next
<1> QED BY <1>1, InitInv, PTL DEF Spec

(* The types, for every MTU and every length.                              *)
THEOREM FragmentTypes == Spec => []TypeOK
BY FragmentInvariance, PTL DEF FragmentInv

(* Every fragment carries the bytes its header says, begins where the one  *)
(* before ended and fits into the MTU.                                     *)
THEOREM FragmentsContiguous == Spec => []Contiguous
BY FragmentInvariance, PTL DEF FragmentInv

(* No byte of a datagram is lost, if the room is a multiple of eight.      *)
THEOREM DatagramComplete == Spec => []Complete
BY FragmentInvariance, PTL DEF FragmentInv

(* Read position, offset and what is left fit together in every pass of    *)
(* the loop, and what is left needs exactly the fragments still to come.   *)
THEOREM LoopBookkeeping == Spec => []LoopInv
BY FragmentInvariance, PTL DEF FragmentInv

-----------------------------------------------------------------------------
(* Automatic identifications.                                              *)

(* A remainder, with its quotient.                                         *)
LEMMA Remainder ==
  ASSUME NEW a \in Nat, NEW m \in Nat \ {0}
  PROVE  /\ a % m \in 0 .. m - 1
         /\ \E q \in Nat : a = q * m + (a % m)
<1>1. a % m \in 0 .. m - 1
  BY SMT
<1>2. a \div m \in Nat
  BY Quotient
<1>3. a = (a \div m) * m + (a % m)
  BY SMT
<1> QED BY <1>1, <1>2, <1>3

(* Quotient and remainder are the only ones.                               *)
LEMMA RemainderUnique ==
  ASSUME NEW m \in Nat \ {0}, NEW p \in Nat, NEW q \in Nat,
         NEW r \in 0 .. m - 1, NEW s \in 0 .. m - 1,
         p * m + r = q * m + s
  PROVE  p = q /\ r = s
<1>1. ASSUME NEW k \in Nat, NEW l \in Nat, k < l
      PROVE  k * m + m <= l * m /\ k * m \in Nat /\ l * m \in Nat
  <2>1. k + 1 <= l
    BY <1>1
  <2>2. (k + 1) * m <= l * m
    BY <2>1, SMT
  <2>3. (k + 1) * m = k * m + m
    BY SMT
  <2> QED BY <2>2, <2>3
<1>2. p * m \in Nat /\ q * m \in Nat
  BY SMT
<1>3. ~(p < q) /\ ~(q < p)
  BY <1>1, <1>2
<1>4. p = q
  BY <1>3
<1> QED BY <1>2, <1>4

(* Counting on from a remainder is counting on from the number.            *)
LEMMA CountingOn ==
  ASSUME NEW a \in Nat, NEW m \in Nat \ {0}
  PROVE  ((a % m) + 1) % m = (a + 1) % m
<1> DEFINE r == a % m
           s == (a + 1) % m
           t == (r + 1) % m
<1>1. PICK q \in Nat : a = q * m + r
  BY Remainder
<1>2. r \in 0 .. m - 1
  BY Remainder
<1>3. PICK p \in Nat : a + 1 = p * m + s
  <2> DEFINE b == a + 1
  <2>1. b \in Nat
    OBVIOUS
  <2>2. \E p \in Nat : b = p * m + (b % m)
    <3> HIDE DEF b
    <3> QED BY <2>1, Remainder
  <2> QED BY <2>2
<1>4. s \in 0 .. m - 1 /\ t \in 0 .. m - 1
  BY Remainder, <1>2
<1>5. PICK u \in Nat : r + 1 = u * m + t
  <2> DEFINE b == r + 1
  <2>1. b \in Nat
    BY <1>2
  <2>2. \E u \in Nat : b = u * m + (b % m)
    <3> HIDE DEF b
    <3> QED BY <2>1, Remainder
  <2> QED BY <2>2
<1> HIDE DEF r, s, t
<1>6. q + u \in Nat /\ (q + u) * m = q * m + u * m
      /\ q * m \in Nat /\ u * m \in Nat /\ p * m \in Nat
  BY SMT
<1>7. p * m + s = (q + u) * m + t
  BY <1>1, <1>2, <1>3, <1>4, <1>5, <1>6
<1>8. s = t
  BY <1>4, <1>6, <1>7, RemainderUnique
<1> QED BY <1>8 DEF s, t, r

(* Two numbers less than a word apart differ in their remainders.          *)
LEMMA DifferentRemainders ==
  ASSUME NEW m \in Nat \ {0}, NEW i \in Nat, NEW j \in Nat, i < j, j - i < m
  PROVE  i % m # j % m
<1> DEFINE r == i % m
           s == j % m
<1> SUFFICES ASSUME r = s PROVE FALSE
  OBVIOUS
<1>1. PICK q \in Nat : i = q * m + r
  BY Remainder
<1>2. PICK p \in Nat : j = p * m + s
  BY Remainder
<1>3. r \in 0 .. m - 1 /\ s \in 0 .. m - 1
  BY Remainder
<1> HIDE DEF r, s
<1>4. q * m \in Nat /\ p * m \in Nat
  BY SMT
<1>5. j - i \in 0 .. m - 1 /\ p * m = q * m + (j - i)
  BY <1>1, <1>2, <1>3, <1>4
<1>6. p * m + 0 = q * m + (j - i) /\ 0 \in 0 .. m - 1
  BY <1>4, <1>5
<1>7. j - i = 0
  BY <1>5, <1>6, RemainderUnique
<1> QED BY <1>7

(* The counter and what it has handed out: the i-th fragmented packet      *)
(* without an identification of its own has the number i, of 16 bits.      *)
CounterInv ==
  /\ nextIdentification = (Len(autoIds) + 1) % IdWord
  /\ \A i \in DOMAIN autoIds : autoIds[i] = i % IdWord

(* An identification is taken at most once in a step, and counted.         *)
LEMMA CounterStep ==
  ASSUME TypeOK, CounterInv, [Next]_vars
  PROVE  CounterInv'
<1>1. CASE UNCHANGED <<nextIdentification, autoIds>>
  BY <1>1, Zenon DEF CounterInv
<1>2. CASE NextId /\ autoIds' = Append(autoIds, nextIdentification)
  <2> DEFINE k == Len(autoIds) + 1
  <2>1. k \in Nat /\ autoIds \in Seq(Nat) /\ nextIdentification \in Nat
        /\ IdWord \in Nat \ {0}
    BY FragmentAssumption DEF TypeOK
  <2>2. nextIdentification = k % IdWord
    BY DEF CounterInv
  <2>3. Len(autoIds') = k /\ DOMAIN autoIds' = 1 .. k
        /\ \A i \in 1 .. k : autoIds'[i] = IF i = k THEN nextIdentification ELSE autoIds[i]
    BY <1>2, <2>1
  <2>4. \A i \in 1 .. k : i # k => autoIds[i] = i % IdWord
    BY <2>1 DEF CounterInv
  <2>5. nextIdentification' = (k + 1) % IdWord
    <3> HIDE DEF k
    <3>1. nextIdentification' = ((k % IdWord) + 1) % IdWord
      BY <1>2, <2>2 DEF NextId
    <3> QED BY <3>1, <2>1, CountingOn
  <2> HIDE DEF k
  <2>6. \A i \in 1 .. k : autoIds'[i] = i % IdWord
    BY <2>2, <2>3, <2>4
  <2> QED BY <2>3, <2>5, <2>6 DEF CounterInv
<1>3. \/ UNCHANGED <<nextIdentification, autoIds>>
      \/ NextId /\ autoIds' = Append(autoIds, nextIdentification)
  <2>1. ASSUME NEW headerLen, NEW l4, NEW len, NEW vlan, NEW userId,
               Begin(headerLen, l4, len, vlan, userId)
        PROVE  \/ UNCHANGED <<nextIdentification, autoIds>>
               \/ NextId /\ autoIds' = Append(autoIds, nextIdentification)
    BY <2>1 DEF Begin, ChooseId
  <2>2. CASE Fragment \/ TooLong \/ Compiled \/ Over \/ UNCHANGED vars
             \/ \E l4, len : EmptyDatagram(l4, len)
    BY <2>2 DEF Fragment, TooLong, Compiled, Over, EmptyDatagram, vars
  <2> QED BY <2>1, <2>2 DEF Next
<1> QED BY <1>1, <1>2, <1>3

(* Fragmented packets differ in their automatic identification until the   *)
(* static counter of cIPPacket has gone through all its values, whatever   *)
(* is compiled in between.                                                 *)
THEOREM IdentificationsDistinct == Spec => []DistinctIds
<1>1. Init => CounterInv
  BY DEF Init, CounterInv
<1>2. TypeOK /\ CounterInv => DistinctIds
  <2> SUFFICES ASSUME TypeOK, CounterInv,
                      NEW i \in DOMAIN autoIds, NEW j \in DOMAIN autoIds,
                      i < j, j - i < IdWord
               PROVE  autoIds[i] # autoIds[j]
    BY DEF DistinctIds
  <2>1. i \in Nat /\ j \in Nat /\ IdWord \in Nat \ {0}
    BY FragmentAssumption DEF TypeOK
  <2>2. i % IdWord # j % IdWord
    BY <2>1, DifferentRemainders
  <2>3. autoIds[i] = i % IdWord /\ autoIds[j] = j % IdWord
    BY Zenon DEF CounterInv
  <2> QED BY <2>2, <2>3
<1> QED BY <1>1, <1>2, CounterStep, FragmentTypes, PTL DEF Spec
=============================================================================
