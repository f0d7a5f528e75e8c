---------------------- MODULE InstructionParser_proofs ----------------------
(***************************************************************************)
(* Theorems about cInstructionParser, for all instructions, embedded in    *)
(* each other in any way, and every MTU of the interface.                  *)
(***************************************************************************)
EXTENDS InstructionParser, FiniteSetTheorems, TLAPS

-----------------------------------------------------------------------------
(* The inductive invariant: every call that waits for an embedded one has  *)
(* saved the MTU that it found.                                            *)

IsSequence(s) == s \in Seq({s[i] : i \in DOMAIN s})

(* The MTU while the call at depth d compiles its own packet.              *)
MtuAt(d) == IF d = 1 THEN MTU ELSE EmbeddedMtu

StackInv ==
  /\ IsSequence(stack)
  /\ \A d \in DOMAIN stack : "saved" \in DOMAIN stack[d]
  /\ outcome \in {"parsing", "unwinding"} => stack # <<>>
  /\ outcome \in {"idle", "accepted", "rejected"} => stack = <<>>

SavedInv ==
  /\ \A d \in 1 .. Len(stack) - 1 : stack[d].saved = MtuAt(d)
  /\ outcome = "unwinding" => Top.saved = MtuAt(Len(stack)) /\ mtu = EmbeddedMtu
  /\ outcome # "unwinding" => mtu = IF Len(stack) > 1 THEN EmbeddedMtu ELSE MTU

MtuInv == StackInv /\ SavedInv

-----------------------------------------------------------------------------
(* Lemmas about the stack.                                                 *)

Put(s, n, c) == [s EXCEPT ![n] = c]
Push(s, c) == s \o <<c>>

(* Any sequence is one of its own elements.                                *)
LEMMA StackOf ==
  ASSUME NEW S, NEW s \in Seq(S)
  PROVE  IsSequence(s) /\ Len(s) \in Nat /\ DOMAIN s = 1 .. Len(s)
<1> DEFINE E == {s[i] : i \in DOMAIN s}
<1>1. Len(s) \in Nat /\ DOMAIN s = 1 .. Len(s)
  OBVIOUS
<1>2. \A i \in 1 .. Len(s) : s[i] \in E
  BY <1>1
<1> HIDE DEF E
<1>3. s \in Seq(E)
  BY <1>1, <1>2
<1> QED BY <1>1, <1>3 DEF IsSequence, E

(* The innermost call goes on.                                             *)
LEMMA TopReplaced ==
  ASSUME NEW s, IsSequence(s), s # <<>>, NEW n \in DOMAIN s, NEW c
  PROVE  /\ IsSequence(Put(s, n, c)) /\ Len(Put(s, n, c)) = Len(s)
         /\ DOMAIN Put(s, n, c) = 1 .. Len(s)
         /\ Len(s) \in Nat /\ Len(s) > 0 /\ DOMAIN s = 1 .. Len(s)
         /\ Put(s, n, c)[n] = c /\ \A d \in DOMAIN s : d # n => Put(s, n, c)[d] = s[d]
<1> DEFINE S == {s[i] : i \in DOMAIN s}
           T == S \cup {c}
           t == Put(s, n, c)
<1> USE DEF Put
<1>1. s \in Seq(S)
  BY DEF IsSequence
<1> HIDE DEF S
<1>2. s \in Seq(T) /\ c \in T /\ Len(s) \in Nat /\ Len(s) > 0 /\ DOMAIN s = 1 .. Len(s)
  BY <1>1
<1> HIDE DEF T
<1>3. t \in Seq(T) /\ Len(t) = Len(s) /\ DOMAIN t = DOMAIN s
  BY <1>2
<1>4. IsSequence(t)
  BY <1>3, StackOf
<1> QED BY <1>2, <1>3, <1>4

(* A call returns.                                                         *)
LEMMA TopPopped ==
  ASSUME NEW s, IsSequence(s), s # <<>>
  PROVE  /\ IsSequence(Front(s)) /\ Len(Front(s)) = Len(s) - 1
         /\ DOMAIN Front(s) = 1 .. Len(s) - 1 /\ Len(s) \in Nat /\ Len(s) > 0
         /\ DOMAIN s = 1 .. Len(s)
         /\ \A d \in 1 .. Len(s) - 1 : Front(s)[d] = s[d]
         /\ Front(s) = <<>> <=> Len(s) = 1
<1> DEFINE S == {s[i] : i \in DOMAIN s}
<1>1. s \in Seq(S)
  BY DEF IsSequence
<1> HIDE DEF S
<1>2. Len(s) \in Nat /\ Len(s) > 0 /\ DOMAIN s = 1 .. Len(s)
  BY <1>1
<1>3. /\ Front(s) \in Seq(S) /\ Len(Front(s)) = Len(s) - 1
      /\ DOMAIN Front(s) = 1 .. Len(s) - 1
      /\ \A d \in 1 .. Len(s) - 1 : Front(s)[d] = s[d]
  BY <1>1, <1>2 DEF Front
<1>4. IsSequence(Front(s))
  BY <1>3, StackOf
<1>5. Front(s) = <<>> <=> Len(s) = 1
  BY <1>2, <1>3
<1> QED BY <1>2, <1>3, <1>4, <1>5

(* A call of the parser by itself.                                         *)
LEMMA TopPushed ==
  ASSUME NEW s, IsSequence(s), NEW c
  PROVE  /\ IsSequence(Push(s, c)) /\ Len(Push(s, c)) = Len(s) + 1
         /\ DOMAIN Push(s, c) = 1 .. Len(s) + 1
         /\ Len(s) \in Nat /\ DOMAIN s = 1 .. Len(s)
         /\ Push(s, c)[Len(s) + 1] = c /\ \A d \in DOMAIN s : Push(s, c)[d] = s[d]
<1> DEFINE S == {s[i] : i \in DOMAIN s}
           T == S \cup {c}
           t == Push(s, c)
<1> USE DEF Push
<1>1. s \in Seq(S)
  BY DEF IsSequence
<1> HIDE DEF S
<1>2. s \in Seq(T) /\ c \in T /\ Len(s) \in Nat /\ DOMAIN s = 1 .. Len(s)
  BY <1>1
<1> HIDE DEF T
<1>3. <<c>> \in Seq(T) /\ Len(<<c>>) = 1 /\ <<c>>[1] = c
  BY <1>2
<1>4. /\ t \in Seq(T) /\ Len(t) = Len(s) + 1 /\ DOMAIN t = 1 .. Len(s) + 1
      /\ t[Len(s) + 1] = c /\ \A d \in DOMAIN s : t[d] = s[d]
  BY <1>2, <1>3
<1>5. IsSequence(t)
  BY <1>4, StackOf
<1> QED BY <1>2, <1>4, <1>5

(* The empty stack.                                                        *)
LEMMA EmptyStack == IsSequence(<<>>) /\ Len(<<>>) = 0 /\ DOMAIN <<>> = {}
<1>1. <<>> \in Seq({}) /\ Len(<<>>) = 0 /\ DOMAIN <<>> = {}
  OBVIOUS
<1> QED BY <1>1, StackOf

-----------------------------------------------------------------------------
(* The steps.                                                              *)

(* A call of parse from outside, and what it returns.                      *)
LEMMA ParseStep ==
  ASSUME MtuInv, NEW i \in Instructions, Parse(i)
  PROVE  MtuInv'
<1>1. outcome = "idle" /\ mtu' = mtu /\ stack = <<>> /\ mtu = MTU
  BY EmptyStack DEF Parse, MtuInv, StackInv, SavedInv
<1>2. CASE stack' = <<Call(i, FALSE, mtu, Fresh)>> /\ outcome' = "parsing"
  <2> DEFINE c == Call(i, FALSE, mtu, Fresh)
  <2>1. "saved" \in DOMAIN c
    BY DEF Call
  <2> HIDE DEF c
  <2>2. stack' = <<c>> /\ <<c>> \in Seq({c}) /\ Len(<<c>>) = 1 /\ <<c>>[1] = c
    BY <1>2 DEF c
  <2>3. IsSequence(stack') /\ Len(stack') = 1 /\ DOMAIN stack' = 1 .. 1 /\ stack'[1] = c
          /\ stack' # <<>>
    BY <2>2, StackOf
  <2>4. StackInv'
    <3>1. \A d \in DOMAIN stack' : d = 1
      BY <2>3
    <3>2. \A d \in DOMAIN stack' : "saved" \in DOMAIN stack'[d]
      BY <2>1, <2>3, <3>1
    <3> QED BY <1>2, <2>3, <3>2 DEF StackInv
  <2>5. SavedInv'
    BY <1>1, <1>2, <2>3 DEF SavedInv
  <2> QED BY <2>4, <2>5 DEF MtuInv
<1>3. CASE UNCHANGED stack /\ outcome' = "rejected"
  BY <1>1, <1>3 DEF MtuInv, StackInv, SavedInv
<1> QED BY <1>2, <1>3 DEF Parse

(* The innermost call goes on.                                             *)
LEMMA GoesOn ==
  ASSUME MtuInv, outcome = "parsing", UNCHANGED <<outcome, mtu>>,
         NEW c, "saved" \in DOMAIN c, SetTop(c)
  PROVE  MtuInv'
<1>0. IsSequence(stack) /\ stack # <<>>
  BY DEF MtuInv, StackInv
<1>1. Len(stack) \in DOMAIN stack
  BY <1>0, TopPopped
<1>2. /\ IsSequence(stack') /\ Len(stack') = Len(stack) /\ DOMAIN stack' = 1 .. Len(stack)
      /\ Len(stack) \in Nat /\ Len(stack) > 0 /\ DOMAIN stack = 1 .. Len(stack)
      /\ stack'[Len(stack)] = c
      /\ \A d \in DOMAIN stack : d # Len(stack) => stack'[d] = stack[d]
  <2>1. stack' = Put(stack, Len(stack), c)
    BY DEF SetTop, Put
  <2> QED BY <1>0, <1>1, <2>1, TopReplaced
<1>3. stack' # <<>>
  BY <1>2, EmptyStack
<1>4. StackInv'
  BY <1>2, <1>3 DEF MtuInv, StackInv
<1>5. \A d \in 1 .. Len(stack) - 1 : stack'[d] = stack[d]
  BY <1>2
<1>6. SavedInv'
  BY <1>2, <1>5 DEF MtuInv, SavedInv
<1> QED BY <1>4, <1>6 DEF MtuInv

(* A parameter is looked up, or the packet is called.                      *)
LEMMA LookupOperateStep == MtuInv /\ (Lookup \/ Operate) => MtuInv'
<1> SUFFICES ASSUME MtuInv, Lookup \/ Operate PROVE MtuInv'
  OBVIOUS
<1>0. outcome = "parsing" /\ UNCHANGED <<outcome, mtu>>
  BY DEF Lookup, Operate, IsCall
<1>1. "saved" \in DOMAIN Top
  <2>1. IsSequence(stack) /\ stack # <<>>
    BY <1>0 DEF MtuInv, StackInv
  <2>2. Len(stack) \in DOMAIN stack
    BY <2>1, TopPopped
  <2> QED BY <2>2 DEF MtuInv, StackInv, Top
<1>2. \E c : "saved" \in DOMAIN c /\ SetTop(c)
  <2>1. CASE Lookup
    <3> DEFINE found == IF Found THEN [Top EXCEPT !.used[Step1.at] = @ + 1] ELSE Top
               read == IF Step1.op = "payload" /\ Found
                       THEN [found EXCEPT !.len = StreamLen(Value)] ELSE found
               c == [read EXCEPT !.todo = Tail(@)]
    <3>1. DOMAIN found = DOMAIN Top
      OBVIOUS
    <3>2. DOMAIN read = DOMAIN found
      OBVIOUS
    <3>3. DOMAIN c = DOMAIN read
      OBVIOUS
    <3>4. SetTop(c)
      BY <2>1 DEF Lookup
    <3> HIDE DEF found, read, c
    <3> QED BY <1>1, <3>1, <3>2, <3>3, <3>4
  <2>2. CASE Operate
    <3> DEFINE c == [Top EXCEPT
           !.todo = Tail(@),
           !.eth  = Effect(Top, Step1),
           !.tlvs = IF Step1.op = "tlv" THEN Append(@, [type |-> Step1.at, len |-> Step1.n])
                    ELSE @,
           !.len  = IF Step1.op = "genericHeader" THEN Step1.n ELSE @]
    <3>1. DOMAIN c = DOMAIN Top
      OBVIOUS
    <3>2. SetTop(c)
      BY <2>2 DEF Operate
    <3> HIDE DEF c
    <3> QED BY <1>1, <3>1, <3>2
  <2> QED BY <2>1, <2>2
<1> QED BY <1>0, <1>2, GoesOn

(* The embedded packet begins: the MTU is saved before it is raised.       *)
LEMMA EmbedStep == MtuInv /\ Embed => MtuInv'
<1> SUFFICES ASSUME MtuInv, Embed PROVE MtuInv'
  OBVIOUS
<1> DEFINE inner == Value.inner[1]
           noEth == Step1.as = "embeddedIP"
           outer == [Top EXCEPT !.used[Step1.at] = @ + 1, !.saved = mtu]
           call == Call(inner, noEth, EmbeddedMtu, Fresh)
           n == Len(stack)
           s == Put(stack, n, outer)
<1>0. outcome = "parsing" /\ mtu' = EmbeddedMtu /\ IsSequence(stack) /\ stack # <<>>
  BY DEF Embed, MtuInv, StackInv
<1>1. /\ n \in Nat /\ n > 0 /\ DOMAIN stack = 1 .. n /\ n \in DOMAIN stack
  BY <1>0, TopPopped
<1>2. "saved" \in DOMAIN Top
  BY <1>1 DEF MtuInv, StackInv, Top
<1>3. "saved" \in DOMAIN outer /\ outer.saved = mtu
  BY <1>2
<1>4. "saved" \in DOMAIN call
  BY DEF Call
<1>5. \/ stack' = Push(s, call) /\ outcome' = "parsing"
      \/ stack' = s /\ outcome' = "unwinding"
  BY <1>0 DEF Embed, SetTop, Put, Push
<1>6. mtu = MtuAt(n)
  BY <1>0, <1>1 DEF MtuInv, SavedInv, MtuAt
<1>7. \A d \in 1 .. n - 1 : stack[d].saved = MtuAt(d)
  BY DEF MtuInv, SavedInv
<1> HIDE DEF outer, call
<1>8. /\ IsSequence(s) /\ Len(s) = n /\ DOMAIN s = 1 .. n
      /\ s[n] = outer /\ \A d \in DOMAIN stack : d # n => s[d] = stack[d]
  <2> HIDE DEF n
  <2>1. n = Len(stack)
    BY DEF n
  <2>2. \A c : /\ IsSequence(Put(stack, n, c)) /\ Len(Put(stack, n, c)) = Len(stack)
               /\ DOMAIN Put(stack, n, c) = 1 .. Len(stack)
               /\ Put(stack, n, c)[n] = c
               /\ \A d \in DOMAIN stack : d # n => Put(stack, n, c)[d] = stack[d]
    <3>1. IsSequence(stack) /\ stack # <<>> /\ n \in DOMAIN stack
      BY <1>0, <1>1
    <3> QED BY <3>1, TopReplaced
  <2> QED BY <2>1, <2>2
<1> HIDE DEF s, n
<1>9. \A d \in 1 .. n : s[d].saved = MtuAt(d) /\ "saved" \in DOMAIN s[d]
  <2>1. ASSUME NEW d \in 1 .. n, d # n
        PROVE  s[d].saved = MtuAt(d) /\ "saved" \in DOMAIN s[d]
    <3>1. d \in 1 .. n - 1 /\ d \in DOMAIN stack /\ s[d] = stack[d]
      BY <1>1, <1>8, <2>1
    <3> QED BY <1>7, <3>1 DEF MtuInv, StackInv
  <2> QED BY <1>3, <1>6, <1>8, <2>1
<1>10. CASE stack' = Push(s, call) /\ outcome' = "parsing"
  <2>1. /\ IsSequence(stack') /\ Len(stack') = n + 1 /\ DOMAIN stack' = 1 .. n + 1
        /\ stack'[n + 1] = call /\ \A d \in 1 .. n : stack'[d] = s[d]
    BY <1>8, <1>10, TopPushed
  <2>2. stack' # <<>>
    BY <1>1, <2>1, EmptyStack
  <2>3. StackInv'
    <3>1. ASSUME NEW d \in DOMAIN stack' PROVE "saved" \in DOMAIN stack'[d]
      <4>1. d = n + 1 \/ d \in 1 .. n
        BY <1>1, <2>1
      <4> QED BY <1>4, <1>9, <2>1, <4>1
    <3> QED BY <1>10, <2>1, <2>2, <3>1 DEF StackInv
  <2>4. SavedInv'
    <3>1. (n + 1) - 1 = n /\ n + 1 > 1
      BY <1>1
    <3>2. \A d \in 1 .. Len(stack') - 1 : stack'[d].saved = MtuAt(d)
      BY <1>9, <2>1, <3>1
    <3> QED BY <1>0, <1>10, <2>1, <3>1, <3>2 DEF SavedInv, MtuAt
  <2> QED BY <2>3, <2>4 DEF MtuInv
<1>11. CASE stack' = s /\ outcome' = "unwinding"
  <2>1. stack' # <<>>
    BY <1>1, <1>8, <1>11, EmptyStack
  <2>2. StackInv'
    BY <1>8, <1>9, <1>11, <2>1 DEF StackInv
  <2>3. SavedInv'
    <3>1. n \in 1 .. n /\ \A d \in 1 .. n - 1 : d \in 1 .. n
      BY <1>1
    <3>2. \A d \in 1 .. Len(stack') - 1 : stack'[d].saved = MtuAt(d)
      BY <1>8, <1>9, <1>11, <3>1
    <3>3. stack'[Len(stack')].saved = MtuAt(Len(stack'))
      BY <1>8, <1>9, <1>11, <3>1
    <3> QED BY <1>0, <1>11, <3>2, <3>3 DEF SavedInv, MtuAt, Top
  <2> QED BY <2>2, <2>3 DEF MtuInv
<1> QED BY <1>5, <1>10, <1>11

(* What is below the innermost call when it returns.                       *)
LEMMA CallersKept ==
  ASSUME MtuInv, stack # <<>>
  PROVE  /\ IsSequence(Front(stack)) /\ Len(Front(stack)) = Len(stack) - 1
         /\ Len(stack) \in Nat /\ Len(stack) > 0
         /\ DOMAIN Front(stack) = 1 .. Len(stack) - 1
         /\ Front(stack) = <<>> <=> Len(stack) = 1
         /\ \A d \in 1 .. Len(stack) - 1 :
              Front(stack)[d].saved = MtuAt(d) /\ "saved" \in DOMAIN Front(stack)[d]
<1>1. /\ IsSequence(Front(stack)) /\ Len(Front(stack)) = Len(stack) - 1
      /\ DOMAIN Front(stack) = 1 .. Len(stack) - 1 /\ Len(stack) \in Nat /\ Len(stack) > 0
      /\ DOMAIN stack = 1 .. Len(stack)
      /\ \A d \in 1 .. Len(stack) - 1 : Front(stack)[d] = stack[d]
      /\ Front(stack) = <<>> <=> Len(stack) = 1
  BY TopPopped DEF MtuInv, StackInv
<1>2. \A d \in 1 .. Len(stack) - 1 : d \in DOMAIN stack
  BY <1>1
<1> QED BY <1>1, <1>2 DEF MtuInv, StackInv, SavedInv

(* An exception leaves a call, or a caller.                                *)
LEMMA ExceptionStep == MtuInv /\ (FormatException \/ Unwind) => MtuInv'
<1> SUFFICES ASSUME MtuInv, FormatException \/ Unwind PROVE MtuInv'
  OBVIOUS
<1> DEFINE n == Len(stack)
<1>1. /\ outcome \in {"parsing", "unwinding"} /\ stack' = Front(stack)
      /\ outcome' = (IF n = 1 THEN "rejected" ELSE "unwinding")
      /\ mtu' = IF outcome = "unwinding" THEN Top.saved ELSE mtu
  BY DEF FormatException, Unwind, Restore
<1>2. stack # <<>>
  BY <1>1 DEF MtuInv, StackInv
<1>3. /\ IsSequence(stack') /\ Len(stack') = n - 1 /\ n \in Nat /\ n > 0
      /\ DOMAIN stack' = 1 .. n - 1 /\ (stack' = <<>> <=> n = 1)
      /\ \A d \in 1 .. n - 1 : stack'[d].saved = MtuAt(d) /\ "saved" \in DOMAIN stack'[d]
  BY <1>1, <1>2, CallersKept
<1>4. mtu' = MtuAt(n)
  BY <1>1, <1>3 DEF MtuInv, SavedInv, MtuAt
<1> HIDE DEF n
<1>5. StackInv'
  BY <1>1, <1>3 DEF StackInv
<1>6. SavedInv'
  <2>1. CASE n = 1
    BY <1>1, <1>3, <1>4, <2>1 DEF SavedInv, MtuAt
  <2>2. CASE n # 1
    <3>1. n - 1 \in 1 .. n - 1 /\ \A d \in 1 .. (n - 1) - 1 : d \in 1 .. n - 1
      BY <1>3, <2>2
    <3>2. mtu' = EmbeddedMtu /\ outcome' = "unwinding"
      BY <1>1, <1>4, <2>2 DEF MtuAt
    <3>3. Top'.saved = MtuAt(Len(stack'))
      BY <1>3, <3>1 DEF Top
    <3>4. \A d \in 1 .. Len(stack') - 1 : stack'[d].saved = MtuAt(d)
      BY <1>3, <3>1
    <3> QED BY <3>2, <3>3, <3>4 DEF SavedInv, MtuAt
  <2> QED BY <2>1, <2>2
<1> QED BY <1>5, <1>6 DEF MtuInv

(* The embedded packet is complete.                                        *)
LEMMA ReturnEmbeddedStep == MtuInv /\ ReturnEmbedded => MtuInv'
<1> SUFFICES ASSUME MtuInv, ReturnEmbedded PROVE MtuInv'
  OBVIOUS
<1> DEFINE n == Len(stack)
           outer == stack[n - 1]
           len == IF Top.noEthHeader THEN Top.eth.payloadLength ELSE getLength(Top.eth)
           back == [outer EXCEPT !.len = len, !.payloadOf = Packet, !.todo = Tail(@)]
           f == Front(stack)
<1>1. /\ outcome = "parsing" /\ outcome' = outcome /\ n > 1 /\ mtu' = outer.saved
      /\ stack' = Put(f, n - 1, back)
  BY DEF ReturnEmbedded, Complete, Put
<1>2. stack # <<>>
  BY <1>1 DEF MtuInv, StackInv
<1>3. /\ IsSequence(f) /\ Len(f) = n - 1 /\ n \in Nat
      /\ DOMAIN f = 1 .. n - 1 /\ (f = <<>> <=> n = 1)
      /\ \A d \in 1 .. n - 1 : f[d].saved = MtuAt(d) /\ "saved" \in DOMAIN f[d]
  BY <1>2, CallersKept
<1>4. DOMAIN back = DOMAIN outer
  OBVIOUS
<1>5. n - 1 \in 1 .. n - 1 /\ f[n - 1] = outer
  <2>1. n - 1 \in 1 .. n - 1
    BY <1>1, <1>3
  <2>2. \A d \in 1 .. n - 1 : f[d] = stack[d]
    BY <1>2, TopPopped DEF MtuInv, StackInv
  <2> QED BY <2>1, <2>2
<1>6. "saved" \in DOMAIN back /\ mtu' = MtuAt(n - 1)
  BY <1>1, <1>3, <1>4, <1>5
<1> HIDE DEF n, outer, back, f
<1>7. /\ IsSequence(stack') /\ Len(stack') = n - 1 /\ DOMAIN stack' = 1 .. n - 1
      /\ stack'[n - 1] = back /\ \A d \in 1 .. n - 1 : d # n - 1 => stack'[d] = f[d]
  <2>1. f # <<>> /\ n - 1 \in DOMAIN f
    BY <1>1, <1>3, <1>5
  <2>2. \A c : /\ IsSequence(Put(f, n - 1, c)) /\ Len(Put(f, n - 1, c)) = Len(f)
               /\ DOMAIN Put(f, n - 1, c) = 1 .. Len(f)
               /\ Put(f, n - 1, c)[n - 1] = c
               /\ \A d \in DOMAIN f : d # n - 1 => Put(f, n - 1, c)[d] = f[d]
    <3>1. IsSequence(f) /\ f # <<>> /\ n - 1 \in DOMAIN f
      BY <1>3, <2>1
    <3> QED BY <3>1, TopReplaced
  <2> QED BY <1>1, <1>3, <2>2
<1>8. stack' # <<>>
  BY <1>1, <1>3, <1>7, EmptyStack
<1>9. StackInv'
  BY <1>1, <1>3, <1>6, <1>7, <1>8 DEF StackInv
<1>10. SavedInv'
  <2>1. ASSUME NEW d \in 1 .. (n - 1) - 1 PROVE stack'[d].saved = MtuAt(d)
    <3>1. d \in 1 .. n - 1 /\ d # n - 1
      BY <1>3
    <3> QED BY <1>3, <1>7, <3>1
  <2>2. MtuAt(n - 1) = IF n - 1 > 1 THEN EmbeddedMtu ELSE MTU
    BY <1>1, <1>3 DEF MtuAt
  <2> QED BY <1>1, <1>6, <1>7, <2>1, <2>2 DEF SavedInv
<1> QED BY <1>9, <1>10 DEF MtuInv

(* A step of the parser.                                                   *)
LEMMA ParserStep == MtuInv /\ [Next]_vars => MtuInv'
<1> SUFFICES ASSUME MtuInv, [Next]_vars PROVE MtuInv'
  OBVIOUS
<1>1. CASE Return
  <2>1. outcome = "parsing" /\ Len(stack) = 1 /\ outcome' = "accepted" /\ stack' = <<>>
          /\ mtu' = mtu
    BY <1>1 DEF Return, Complete
  <2>2. mtu = MTU
    BY <2>1 DEF MtuInv, SavedInv
  <2> QED BY <2>1, <2>2, EmptyStack DEF MtuInv, StackInv, SavedInv
<1>2. CASE Deliver
  <2>1. outcome = "accepted" /\ outcome' = "idle" /\ stack = <<>> /\ UNCHANGED <<stack, mtu>>
    BY <1>2 DEF Deliver, MtuInv, StackInv
  <2> QED BY <2>1, EmptyStack DEF MtuInv, StackInv, SavedInv
<1>3. CASE Abort
  <2>1. outcome = "parsing" /\ outcome' = "bug" /\ UNCHANGED <<stack, mtu>>
    BY <1>3 DEF Abort, IsCall
  <2> QED BY <2>1 DEF MtuInv, StackInv, SavedInv
<1>4. CASE UNCHANGED vars
  BY <1>4 DEF vars, MtuInv, StackInv, SavedInv, Top
<1> QED BY <1>1, <1>2, <1>3, <1>4, ParseStep, LookupOperateStep, EmbedStep, ExceptionStep,
      ReturnEmbeddedStep DEF Next

(* The inductive invariant holds throughout.                               *)
THEOREM MtuInvariance == Spec => []MtuInv
<1>1. Init => MtuInv
  BY EmptyStack DEF Init, MtuInv, StackInv, SavedInv
<1>2. MtuInv /\ [Next]_vars => MtuInv'
  BY ParserStep
<1> QED BY <1>1, <1>2, PTL DEF Spec

(* However deep packets are embedded, and wherever an instruction fails,   *)
(* the MTU of the interface is back in the settings when parse returns,    *)
(* and the raised one is in force while an embedded packet is made.        *)
THEOREM MtuAlwaysRestored == Spec => []MtuRestored
<1>1. MtuInv => MtuRestored
  <2> SUFFICES ASSUME MtuInv PROVE MtuRestored
    OBVIOUS
  <2>1. stack = <<>> => Len(stack) = 0 /\ outcome # "unwinding"
    BY EmptyStack DEF MtuInv, StackInv
  <2> QED BY <2>1 DEF MtuInv, SavedInv, MtuRestored
<1> QED BY <1>1, MtuInvariance, PTL

-----------------------------------------------------------------------------
(* The packets: every active call has made one of its own, and no payload  *)
(* is in the packet of an active call, for that one may still be freed.    *)

Owned(s, l) ==
  /\ \A d \in DOMAIN s : "packet" \in DOMAIN s[d] /\ "payloadOf" \in DOMAIN s[d]
  /\ \A d \in DOMAIN s : s[d].packet \in l /\ s[d].payloadOf \in l \union {0}
  /\ \A d, e \in DOMAIN s : d # e => s[d].packet # s[e].packet
  /\ \A d, e \in DOMAIN s : s[d].payloadOf # s[e].packet

PacketInv ==
  /\ IsFiniteSet(live) /\ 0 \notin live
  /\ Owned(stack, live)

(* operator new: among one number more than there are packets, one is not  *)
(* a packet.                                                               *)
LEMMA FreshPacket ==
  ASSUME IsFiniteSet(live)
  PROVE  Fresh \notin live /\ Fresh # 0
<1> DEFINE n == Cardinality(live)
<1>1. n \in Nat
  BY FS_CardinalityType
<1>2. IsFiniteSet(1 .. n + 1) /\ Cardinality(1 .. n + 1) = n + 1
  BY <1>1, FS_Interval
<1>3. ~(1 .. n + 1 \subseteq live)
  <2>1. 1 .. n + 1 \subseteq live => Cardinality(1 .. n + 1) <= n
    BY FS_Subset
  <2> QED BY <1>1, <1>2, <2>1
<1>4. Fresh \in 1 .. n + 1 /\ Fresh \notin live
  BY <1>3 DEF Fresh
<1> QED BY <1>1, <1>4

(* The innermost call goes on with the same packet and the same payload.   *)
LEMMA OwnedGoesOn ==
  ASSUME NEW s, NEW l, IsSequence(s), s # <<>>, Owned(s, l), NEW n \in DOMAIN s, NEW c,
         "packet" \in DOMAIN c, "payloadOf" \in DOMAIN c,
         c.packet = s[n].packet, c.payloadOf = s[n].payloadOf
  PROVE  Owned(Put(s, n, c), l)
<1> DEFINE t == Put(s, n, c)
<1>1. DOMAIN t = DOMAIN s /\ t[n] = c /\ \A d \in DOMAIN s : d # n => t[d] = s[d]
  BY TopReplaced
<1> HIDE DEF t
<1>2. \A d \in DOMAIN s : /\ t[d].packet = s[d].packet /\ t[d].payloadOf = s[d].payloadOf
                          /\ "packet" \in DOMAIN t[d] /\ "payloadOf" \in DOMAIN t[d]
  BY <1>1 DEF Owned
<1>3. Owned(t, l)
  BY <1>1, <1>2 DEF Owned
<1> QED BY <1>3 DEF t

(* A call begins with a new packet.                                        *)
LEMMA OwnedPushed ==
  ASSUME NEW s, NEW l, IsSequence(s), Owned(s, l), NEW p, p \notin l, p # 0, 0 \notin l, NEW c,
         "packet" \in DOMAIN c, "payloadOf" \in DOMAIN c, c.packet = p, c.payloadOf = 0
  PROVE  Owned(Push(s, c), l \union {p})
<1> DEFINE t == Push(s, c)
           m == Len(s) + 1
<1>1. /\ DOMAIN t = 1 .. m /\ DOMAIN s = 1 .. Len(s) /\ Len(s) \in Nat
      /\ t[m] = c /\ \A d \in DOMAIN s : t[d] = s[d]
  BY TopPushed
<1>2. \A d \in DOMAIN t : d = m \/ d \in DOMAIN s
  BY <1>1
<1> HIDE DEF t, m
<1>3. Owned(t, l \union {p})
  <2>1. ASSUME NEW d \in DOMAIN t
        PROVE  /\ "packet" \in DOMAIN t[d] /\ "payloadOf" \in DOMAIN t[d]
               /\ t[d].packet \in l \union {p} /\ t[d].payloadOf \in l \union {0}
               /\ d # m => t[d].packet \in l
    BY <1>1, <1>2 DEF Owned
  <2>2. ASSUME NEW d \in DOMAIN t, NEW e \in DOMAIN t
        PROVE  /\ d # e => t[d].packet # t[e].packet
               /\ t[d].payloadOf # t[e].packet
    <3>1. CASE e = m
      BY <1>1, <2>1, <3>1
    <3>2. CASE e # m /\ d = m
      BY <1>1, <2>1, <3>2
    <3>3. CASE e # m /\ d # m
      BY <1>1, <1>2, <3>3 DEF Owned
    <3> QED BY <3>1, <3>2, <3>3
  <2> QED BY <2>1, <2>2 DEF Owned
<1> QED BY <1>3 DEF t

(* A call ends: the others keep their packets, and it can be freed.        *)
LEMMA OwnedPopped ==
  ASSUME NEW s, NEW l, IsSequence(s), s # <<>>, Owned(s, l)
  PROVE  LET p == s[Len(s)].packet
         IN  /\ Owned(Front(s), l \ {p}) /\ Owned(Front(s), l)
             /\ p \in l
             /\ \A d \in DOMAIN Front(s) : Front(s)[d].packet # p
<1> DEFINE t == Front(s)
           p == s[Len(s)].packet
<1>1. /\ DOMAIN t = 1 .. Len(s) - 1 /\ DOMAIN s = 1 .. Len(s) /\ Len(s) \in Nat /\ Len(s) > 0
      /\ \A d \in 1 .. Len(s) - 1 : t[d] = s[d]
  BY TopPopped
<1>2. Len(s) \in DOMAIN s /\ \A d \in DOMAIN t : d \in DOMAIN s /\ d # Len(s) /\ t[d] = s[d]
  BY <1>1
<1> HIDE DEF t
<1>3. p \in l /\ \A d \in DOMAIN t : t[d].packet # p /\ t[d].payloadOf # p
  BY <1>2 DEF Owned
<1> HIDE DEF p
<1>4. Owned(t, l)
  BY <1>2 DEF Owned
<1>5. Owned(t, l \ {p})
  BY <1>3, <1>4 DEF Owned
<1> QED BY <1>3, <1>4, <1>5 DEF t, p

(* The payload is in a packet of which no active call knows.               *)
LEMMA OwnedHandedOver ==
  ASSUME NEW s, NEW l, IsSequence(s), s # <<>>, Owned(s, l), NEW n \in DOMAIN s, NEW c,
         NEW p \in l, \A d \in DOMAIN s : s[d].packet # p,
         "packet" \in DOMAIN c, "payloadOf" \in DOMAIN c,
         c.packet = s[n].packet, c.payloadOf = p
  PROVE  Owned(Put(s, n, c), l)
<1> DEFINE t == Put(s, n, c)
<1>1. DOMAIN t = DOMAIN s /\ t[n] = c /\ \A d \in DOMAIN s : d # n => t[d] = s[d]
  BY TopReplaced
<1> HIDE DEF t
<1>2. \A d \in DOMAIN s : /\ t[d].packet = s[d].packet
                          /\ t[d].payloadOf = s[d].payloadOf \/ t[d].payloadOf = p
                          /\ "packet" \in DOMAIN t[d] /\ "payloadOf" \in DOMAIN t[d]
  BY <1>1 DEF Owned
<1>3. Owned(t, l)
  BY <1>1, <1>2 DEF Owned
<1> QED BY <1>3 DEF t

-----------------------------------------------------------------------------
(* The steps.                                                              *)

(* What the invariants say of the innermost call.                          *)
LEMMA TopOwns ==
  ASSUME StackInv, PacketInv, outcome \in {"parsing", "unwinding"}
  PROVE  /\ IsSequence(stack) /\ stack # <<>> /\ Owned(stack, live)
         /\ Len(stack) \in DOMAIN stack
         /\ "packet" \in DOMAIN Top /\ "payloadOf" \in DOMAIN Top
<1>1. IsSequence(stack) /\ stack # <<>> /\ Owned(stack, live)
  BY DEF StackInv, PacketInv
<1>2. Len(stack) \in DOMAIN stack
  BY <1>1, TopPopped
<1> QED BY <1>1, <1>2 DEF Owned, Top

(* A call of parse from outside.                                           *)
LEMMA ParseOwned ==
  ASSUME StackInv, PacketInv, NEW i \in Instructions, Parse(i)
  PROVE  PacketInv'
<1>1. outcome = "idle" /\ stack = <<>>
  BY DEF Parse, StackInv
<1>2. CASE UNCHANGED <<stack, live>>
  BY <1>2 DEF PacketInv
<1>3. CASE stack' = <<Call(i, FALSE, mtu, Fresh)>> /\ live' = live \union {Fresh}
  <2> DEFINE c == Call(i, FALSE, mtu, Fresh)
             p == Fresh
  <2>1. /\ "packet" \in DOMAIN c /\ "payloadOf" \in DOMAIN c
        /\ c.packet = p /\ c.payloadOf = 0
    BY DEF Call
  <2>2. p \notin live /\ p # 0
    BY FreshPacket DEF PacketInv
  <2>3. stack' = <<c>> /\ live' = live \union {p}
    BY <1>3
  <2> HIDE DEF c, p
  <2>4. stack' = Push(stack, c)
    BY <1>1, <2>3 DEF Push
  <2>5. Owned(stack', live')
    <3>1. IsSequence(stack) /\ Owned(stack, live) /\ 0 \notin live
      BY DEF StackInv, PacketInv
    <3>2. Owned(Push(stack, c), live \union {p})
      BY <2>1, <2>2, <3>1, OwnedPushed
    <3> QED BY <2>3, <2>4, <3>2
  <2>6. IsFiniteSet(live') /\ 0 \notin live'
    BY <2>2, <2>3, FS_AddElement DEF PacketInv
  <2> QED BY <2>5, <2>6 DEF PacketInv
<1> QED BY <1>2, <1>3 DEF Parse

(* A parameter is looked up, or the packet is called.                      *)
LEMMA LookupOperateOwned ==
  ASSUME StackInv, PacketInv, Lookup \/ Operate
  PROVE  PacketInv'
<1>0. outcome = "parsing" /\ UNCHANGED live
  BY DEF Lookup, Operate, IsCall
<1>1. /\ IsSequence(stack) /\ stack # <<>> /\ Owned(stack, live)
      /\ Len(stack) \in DOMAIN stack
      /\ "packet" \in DOMAIN Top /\ "payloadOf" \in DOMAIN Top
  BY <1>0, TopOwns
<1>2. \E c : /\ "packet" \in DOMAIN c /\ "payloadOf" \in DOMAIN c
             /\ c.packet = Top.packet /\ c.payloadOf = Top.payloadOf /\ SetTop(c)
  <2>1. CASE Lookup
    <3> DEFINE found == IF Found THEN [Top EXCEPT !.used[Step1.at] = @ + 1] ELSE Top
               read == IF Step1.op = "payload" /\ Found
                       THEN [found EXCEPT !.len = StreamLen(Value)] ELSE found
               c == [read EXCEPT !.todo = Tail(@)]
    <3>1. DOMAIN found = DOMAIN Top /\ found.packet = Top.packet
            /\ found.payloadOf = Top.payloadOf
      OBVIOUS
    <3>2. DOMAIN read = DOMAIN found /\ read.packet = found.packet
            /\ read.payloadOf = found.payloadOf
      OBVIOUS
    <3>3. DOMAIN c = DOMAIN read /\ c.packet = read.packet /\ c.payloadOf = read.payloadOf
      OBVIOUS
    <3>4. SetTop(c)
      BY <2>1 DEF Lookup
    <3> HIDE DEF found, read, c
    <3> QED BY <1>1, <3>1, <3>2, <3>3, <3>4
  <2>2. CASE Operate
    <3> DEFINE c == [Top EXCEPT
           !.todo = Tail(@),
           !.eth  = Effect(Top, Step1),
           !.tlvs = IF Step1.op = "tlv" THEN Append(@, [type |-> Step1.at, len |-> Step1.n])
                    ELSE @,
           !.len  = IF Step1.op = "genericHeader" THEN Step1.n ELSE @]
    <3>1. DOMAIN c = DOMAIN Top /\ c.packet = Top.packet /\ c.payloadOf = Top.payloadOf
      OBVIOUS
    <3>2. SetTop(c)
      BY <2>2 DEF Operate
    <3> HIDE DEF c
    <3> QED BY <1>1, <3>1, <3>2
  <2> QED BY <2>1, <2>2
<1>3. PICK c : /\ "packet" \in DOMAIN c /\ "payloadOf" \in DOMAIN c
               /\ c.packet = Top.packet /\ c.payloadOf = Top.payloadOf /\ SetTop(c)
  BY <1>2
<1>4. stack' = Put(stack, Len(stack), c)
  BY <1>3 DEF SetTop, Put
<1>5. Owned(Put(stack, Len(stack), c), live)
  BY <1>1, <1>3, OwnedGoesOn DEF Top
<1> QED BY <1>0, <1>4, <1>5 DEF PacketInv

(* The embedded packet is another one than all that exist.                 *)
LEMMA EmbedOwned ==
  ASSUME StackInv, PacketInv, Embed
  PROVE  PacketInv'
<1> DEFINE inner == Value.inner[1]
           noEth == Step1.as = "embeddedIP"
           outer == [Top EXCEPT !.used[Step1.at] = @ + 1, !.saved = mtu]
           call == Call(inner, noEth, EmbeddedMtu, Fresh)
           p == Fresh
           n == Len(stack)
           s == Put(stack, n, outer)
<1>1. /\ IsSequence(stack) /\ stack # <<>> /\ Owned(stack, live) /\ n \in DOMAIN stack
      /\ "packet" \in DOMAIN Top /\ "payloadOf" \in DOMAIN Top
  BY TopOwns DEF Embed
<1>2. /\ "packet" \in DOMAIN outer /\ "payloadOf" \in DOMAIN outer
      /\ outer.packet = stack[n].packet /\ outer.payloadOf = stack[n].payloadOf
  BY <1>1 DEF Top
<1>3. /\ "packet" \in DOMAIN call /\ "payloadOf" \in DOMAIN call
      /\ call.packet = p /\ call.payloadOf = 0
  BY DEF Call
<1>4. \/ stack' = Push(s, call) /\ live' = live \union {p}
      \/ stack' = s /\ live' = live
  BY DEF Embed, SetTop, Put, Push
<1>5. p \notin live /\ p # 0 /\ IsFiniteSet(live) /\ 0 \notin live
  BY FreshPacket DEF PacketInv
<1> HIDE DEF outer, call, p, n
<1>6. IsSequence(s) /\ Owned(s, live)
  <2>1. IsSequence(Put(stack, n, outer))
    BY <1>1, TopReplaced
  <2>2. Owned(Put(stack, n, outer), live)
    BY <1>1, <1>2, OwnedGoesOn
  <2> QED BY <2>1, <2>2
<1> HIDE DEF s
<1>7. Owned(Push(s, call), live \union {p})
  BY <1>3, <1>5, <1>6, OwnedPushed
<1>8. IsFiniteSet(live \union {p}) /\ 0 \notin live \union {p}
  BY <1>5, FS_AddElement
<1> QED BY <1>4, <1>5, <1>6, <1>7, <1>8 DEF PacketInv

(* An exception leaves a call: its packet is freed, and nobody's payload   *)
(* is in it.                                                               *)
LEMMA ExceptionOwned ==
  ASSUME StackInv, PacketInv, FormatException \/ Unwind
  PROVE  PacketInv'
<1>1. /\ outcome \in {"parsing", "unwinding"} /\ stack' = Front(stack)
      /\ live' = live \ {stack[Len(stack)].packet}
  BY DEF FormatException, Unwind, Packet, Top
<1>2. IsSequence(stack) /\ stack # <<>> /\ Owned(stack, live)
  BY <1>1, TopOwns
<1>3. Owned(stack', live')
  BY <1>1, <1>2, OwnedPopped
<1>4. IsFiniteSet(live') /\ 0 \notin live'
  BY <1>1, FS_RemoveElement DEF PacketInv
<1> QED BY <1>3, <1>4 DEF PacketInv

(* The embedded packet is complete: only the payload of the outer one      *)
(* refers to it.                                                           *)
LEMMA ReturnEmbeddedOwned ==
  ASSUME StackInv, PacketInv, ReturnEmbedded
  PROVE  PacketInv'
<1> DEFINE n == Len(stack)
           outer == stack[n - 1]
           len == IF Top.noEthHeader THEN Top.eth.payloadLength ELSE getLength(Top.eth)
           p == stack[n].packet
           back == [outer EXCEPT !.len = len, !.payloadOf = p, !.todo = Tail(@)]
           f == Front(stack)
<1>1. outcome = "parsing" /\ n > 1 /\ live' = live /\ stack' = Put(f, n - 1, back)
  BY DEF ReturnEmbedded, Complete, InnerKept, Packet, Top, Put
<1>2. IsSequence(stack) /\ stack # <<>> /\ Owned(stack, live)
  BY <1>1, TopOwns
<1>3. /\ IsSequence(f) /\ DOMAIN f = 1 .. n - 1 /\ n \in Nat /\ (f = <<>> <=> n = 1)
      /\ \A d \in 1 .. n - 1 : f[d] = stack[d]
  BY <1>2, TopPopped
<1>4. Owned(f, live) /\ p \in live /\ \A d \in DOMAIN f : f[d].packet # p
  BY <1>2, OwnedPopped
<1>5. n - 1 \in DOMAIN f /\ f # <<>> /\ f[n - 1] = outer
  BY <1>1, <1>3
<1>6. "packet" \in DOMAIN outer /\ "payloadOf" \in DOMAIN outer
  BY <1>4, <1>5 DEF Owned
<1>7. /\ "packet" \in DOMAIN back /\ "payloadOf" \in DOMAIN back
      /\ back.packet = f[n - 1].packet /\ back.payloadOf = p
  BY <1>5, <1>6
<1> HIDE DEF f, back, p, outer, n
<1>8. Owned(Put(f, n - 1, back), live)
  BY <1>3, <1>4, <1>5, <1>7, OwnedHandedOver
<1> QED BY <1>1, <1>8 DEF PacketInv

(* A step of the parser.                                                   *)
LEMMA PacketStep == StackInv /\ PacketInv /\ [Next]_vars => PacketInv'
<1> SUFFICES ASSUME StackInv, PacketInv, [Next]_vars PROVE PacketInv'
  OBVIOUS
<1>1. CASE Return \/ Deliver
  <2>1. stack' = <<>> /\ (live' = live \/ live' = {})
    BY <1>1 DEF Return, Deliver, StackInv
  <2> QED BY <2>1, EmptyStack, FS_EmptySet DEF PacketInv, Owned
<1>2. CASE Abort \/ UNCHANGED vars
  BY <1>2 DEF Abort, vars, PacketInv
<1> QED BY <1>1, <1>2, ParseOwned, LookupOperateOwned, EmbedOwned, ExceptionOwned,
      ReturnEmbeddedOwned DEF Next

(* Every active call has a packet of its own that exists, and no payload   *)
(* is in the packet of an active call.                                     *)
THEOREM PacketInvariance == Spec => []PacketInv
<1>1. Init => PacketInv
  BY EmptyStack, FS_EmptySet DEF Init, PacketInv, Owned
<1>2. MtuInv => StackInv
  BY DEF MtuInv
<1> QED BY <1>1, <1>2, PacketStep, MtuInvariance, PTL DEF Spec

(* compileEmbedded returns a pointer into the embedded packet and drops    *)
(* the packet.  However deep packets are embedded, how many an instruction *)
(* embeds, and wherever one of them fails, what is freed is never the      *)
(* packet that holds the payload of a packet still to be compiled.         *)
THEOREM PayloadAlwaysAlive == Spec => []PayloadAlive
<1>1. StackInv /\ PacketInv => PayloadAlive
  <2> SUFFICES ASSUME StackInv, PacketInv, NEW d \in 1 .. Len(stack)
               PROVE  stack[d].payloadOf \in live \union {0}
    BY DEF PayloadAlive
  <2>1. d \in DOMAIN stack
    BY StackOf DEF StackInv, IsSequence
  <2> QED BY <2>1 DEF PacketInv, Owned
<1>2. MtuInv => StackInv
  BY DEF MtuInv
<1> QED BY <1>1, <1>2, MtuInvariance, PacketInvariance, PTL

-----------------------------------------------------------------------------
(* cEthernetPacket: tags, headers and payload may be added in any order,   *)
(* and every insertion moves what is behind it.                            *)

(* The buffer b has the bytes c at an offset.                              *)
Shows(b, offset, c) ==
  /\ IsSequence(b) /\ IsSequence(c) /\ offset \in Nat
  /\ offset + Len(c) <= Len(b)
  /\ \A k \in 1 .. Len(c) : b[offset + k] = c[k]

(* The packet e has these labels on the addresses and on the type field,   *)
(* one VLAN tag for each element of tags in that order, and the bytes head *)
(* between type field and payload, of which there are n bytes.             *)
LaidOut(e, dst, src, tags, type, head, n) ==
  /\ {"buf", "type", "payload", "payloadLength", "llcHeaderLength"} \subseteq DOMAIN e
  /\ IsSequence(tags) /\ e.payloadLength = n /\ n \in Nat
  /\ e.type = 2 * MacSize + VlanSize * Len(tags)
  /\ e.llcHeaderLength = Len(head) /\ e.payload = e.type + 2 + Len(head)
  /\ Shows(e.buf, 0, Bytes(dst, MacSize)) /\ Shows(e.buf, MacSize, Bytes(src, MacSize))
  /\ \A i \in 1 .. Len(tags) :
       Shows(e.buf, 2 * MacSize + VlanSize * (i - 1), Bytes(<<"vlan", tags[i]>>, VlanSize))
  /\ Shows(e.buf, e.type, Bytes(type, 2))
  /\ Shows(e.buf, e.type + 2, head)
  /\ Shows(e.buf, e.payload, Bytes(<<"payload", 0>>, n))

LEMMA IntervalSequence ==
  ASSUME NEW n \in Nat, NEW f, DOMAIN f = 1 .. n, f = [k \in 1 .. n |-> f[k]]
  PROVE  IsSequence(f) /\ Len(f) = n
<1> DEFINE E == {f[i] : i \in DOMAIN f}
<1>1. \A i \in 1 .. n : f[i] \in E
  OBVIOUS
<1> HIDE DEF E
<1>2. f \in Seq(E)
  BY <1>1
<1>3. Len(f) = n
  BY <1>2
<1> QED BY <1>2, <1>3 DEF IsSequence, E

LEMMA StackLength ==
  ASSUME NEW s, IsSequence(s)
  PROVE  Len(s) \in Nat /\ DOMAIN s = 1 .. Len(s)
BY StackOf DEF IsSequence

(* Equal bytes.                                                            *)
LEMMA BytesOf ==
  ASSUME NEW label, NEW n \in Nat
  PROVE  /\ IsSequence(Bytes(label, n)) /\ Len(Bytes(label, n)) = n
         /\ \A k \in 1 .. n : Bytes(label, n)[k] = label
<1>1. DOMAIN Bytes(label, n) = 1 .. n /\ \A k \in 1 .. n : Bytes(label, n)[k] = label
  BY DEF Bytes
<1>2. Bytes(label, n) = [k \in 1 .. n |-> Bytes(label, n)[k]]
  BY DEF Bytes
<1>3. IsSequence(Bytes(label, n)) /\ Len(Bytes(label, n)) = n
  BY <1>1, <1>2, IntervalSequence
<1> QED BY <1>1, <1>3

(* memcpy: the bytes are there, and nothing else has changed.              *)
LEMMA CopyOf ==
  ASSUME NEW b, IsSequence(b), NEW o \in Nat, NEW c, IsSequence(c)
  PROVE  /\ IsSequence(Copy(b, o, c))
         /\ Len(Copy(b, o, c)) \in Nat /\ Len(Copy(b, o, c)) >= Len(b)
         /\ Len(Copy(b, o, c)) >= o + Len(c)
         /\ \A k \in 1 .. Len(c) : Copy(b, o, c)[o + k] = c[k]
         /\ \A k \in 1 .. Len(b) : k <= o \/ k > o + Len(c) => Copy(b, o, c)[k] = b[k]
<1> DEFINE n == Size(b, o + Len(c))
           r == Copy(b, o, c)
<1>1. Len(b) \in Nat /\ Len(c) \in Nat
  BY StackLength
<1>2. n \in Nat /\ n >= Len(b) /\ n >= o + Len(c)
  BY <1>1 DEF Size
<1>3. DOMAIN r = 1 .. n /\ r = [k \in 1 .. n |-> r[k]]
  BY DEF Copy
<1>4. \A k \in 1 .. n : r[k] = IF k \in o + 1 .. o + Len(c) THEN c[k - o]
                               ELSE IF k <= Len(b) THEN b[k] ELSE Garbage
  BY DEF Copy
<1> HIDE DEF n, r
<1>5. IsSequence(r) /\ Len(r) = n
  BY <1>2, <1>3, IntervalSequence
<1>6. ASSUME NEW k \in 1 .. Len(c) PROVE r[o + k] = c[k]
  <2>1. o + k \in 1 .. n /\ o + k \in o + 1 .. o + Len(c) /\ (o + k) - o = k
    BY <1>1, <1>2
  <2> QED BY <1>4, <2>1
<1>7. ASSUME NEW k \in 1 .. Len(b), k <= o \/ k > o + Len(c) PROVE r[k] = b[k]
  <2>1. k \in 1 .. n /\ k \notin o + 1 .. o + Len(c) /\ k <= Len(b)
    BY <1>1, <1>2, <1>7
  <2> QED BY <1>4, <2>1
<1> QED BY <1>2, <1>5, <1>6, <1>7 DEF r

(* What memcpy writes is there, and what it does not overlap stays.        *)
LEMMA CopyShows ==
  ASSUME NEW b, IsSequence(b), NEW o \in Nat, NEW c, IsSequence(c)
  PROVE  /\ Shows(Copy(b, o, c), o, c)
         /\ \A at, d : Shows(b, at, d) /\ (at + Len(d) <= o \/ at >= o + Len(c))
                      => Shows(Copy(b, o, c), at, d)
<1> DEFINE r == Copy(b, o, c)
<1>1. Len(b) \in Nat /\ Len(c) \in Nat
  BY StackLength
<1>2. /\ IsSequence(r) /\ Len(r) \in Nat /\ Len(r) >= Len(b) /\ Len(r) >= o + Len(c)
      /\ \A k \in 1 .. Len(c) : r[o + k] = c[k]
      /\ \A k \in 1 .. Len(b) : k <= o \/ k > o + Len(c) => r[k] = b[k]
  BY CopyOf
<1> HIDE DEF r
<1>3. ASSUME NEW at, NEW d, Shows(b, at, d), at + Len(d) <= o \/ at >= o + Len(c)
      PROVE  Shows(r, at, d)
  <2>1. IsSequence(d) /\ at \in Nat /\ Len(d) \in Nat /\ at + Len(d) <= Len(b)
    BY <1>3, StackLength DEF Shows
  <2>2. ASSUME NEW k \in 1 .. Len(d) PROVE r[at + k] = d[k]
    <3>1. at + k \in 1 .. Len(b) /\ (at + k <= o \/ at + k > o + Len(c))
      BY <1>1, <1>3, <2>1
    <3> QED BY <1>2, <1>3, <3>1 DEF Shows
  <2>3. at + Len(d) <= Len(r)
    BY <1>1, <1>2, <2>1
  <2> QED BY <1>2, <2>1, <2>2, <2>3 DEF Shows
<1>4. Shows(r, o, c)
  BY <1>1, <1>2 DEF Shows
<1> QED BY <1>3, <1>4 DEF r

(* What memmove takes along is in its new place, what is in front of that  *)
(* stays.                                                                  *)
LEMMA MoveShows ==
  ASSUME NEW b, IsSequence(b), NEW to \in Nat, NEW from \in Nat, NEW n \in Nat, from + n <= Len(b)
  PROVE  /\ IsSequence(Move(b, to, from, n))
         /\ \A at, d : Shows(b, at, d) /\ at + Len(d) <= to => Shows(Move(b, to, from, n), at, d)
         /\ \A j, d : j \in Nat /\ Shows(b, from + j, d) /\ j + Len(d) <= n
                     => Shows(Move(b, to, from, n), to + j, d)
<1> DEFINE r == Move(b, to, from, n)
<1>1. Len(b) \in Nat
  BY StackLength
<1>2. /\ IsSequence(r) /\ Len(r) \in Nat /\ Len(r) >= Len(b) /\ Len(r) >= to + n
      /\ \A k \in 1 .. n : r[to + k] = b[from + k]
      /\ \A k \in 1 .. Len(b) : k <= to => r[k] = b[k]
  <2> DEFINE c == SubSeq(b, from + 1, from + n)
  <2>1. Len(b) \in Nat /\ b \in Seq({b[i] : i \in DOMAIN b})
    BY StackLength DEF IsSequence
  <2>2. Len(c) = n /\ IsSequence(c) /\ \A k \in 1 .. n : c[k] = b[from + k]
    <3> DEFINE B == {b[i] : i \in DOMAIN b}
    <3>1. b \in Seq(B)
      BY <2>1
    <3> HIDE DEF B
    <3>2. \A i \in from + 1 .. from + n : i \in 1 .. Len(b)
      BY <2>1
    <3>3. c \in Seq(B) /\ Len(c) = n /\ \A k \in 1 .. n : c[k] = b[from + k]
      BY <2>1, <3>1, <3>2
    <3> QED BY <3>3, StackOf
  <2> HIDE DEF c
  <2>3. IsSequence(c)
    BY <2>2
  <2>4. LET q == Copy(b, to, c)
        IN  /\ IsSequence(q) /\ Len(q) \in Nat /\ Len(q) >= Len(b) /\ Len(q) >= to + Len(c)
            /\ \A k \in 1 .. Len(c) : q[to + k] = c[k]
            /\ \A k \in 1 .. Len(b) : k <= to \/ k > to + Len(c) => q[k] = b[k]
    BY <2>3, CopyOf
  <2>5. r = Copy(b, to, c)
    BY DEF Move, c
  <2> HIDE DEF r
  <2> QED BY <2>2, <2>4, <2>5
<1> HIDE DEF r
<1>3. ASSUME NEW at, NEW d, Shows(b, at, d), at + Len(d) <= to
      PROVE  Shows(r, at, d)
  <2>1. IsSequence(d) /\ at \in Nat /\ Len(d) \in Nat /\ at + Len(d) <= Len(b)
    BY <1>3, StackLength DEF Shows
  <2>2. ASSUME NEW k \in 1 .. Len(d) PROVE r[at + k] = d[k]
    <3>1. at + k \in 1 .. Len(b) /\ at + k <= to
      BY <1>1, <1>3, <2>1
    <3> QED BY <1>2, <1>3, <3>1 DEF Shows
  <2>3. at + Len(d) <= Len(r)
    BY <1>1, <1>2, <2>1
  <2> QED BY <1>2, <2>1, <2>2, <2>3 DEF Shows
<1>4. ASSUME NEW j \in Nat, NEW d, Shows(b, from + j, d), j + Len(d) <= n
      PROVE  Shows(r, to + j, d)
  <2>1. IsSequence(d) /\ Len(d) \in Nat
    BY <1>4, StackLength DEF Shows
  <2>2. ASSUME NEW k \in 1 .. Len(d) PROVE r[(to + j) + k] = d[k]
    <3>1. j + k \in 1 .. n /\ to + (j + k) = (to + j) + k /\ from + (j + k) = (from + j) + k
      BY <1>4, <2>1
    <3>2. r[to + (j + k)] = b[from + (j + k)]
      BY <1>2, <3>1
    <3>3. b[(from + j) + k] = d[k]
      BY <1>4 DEF Shows
    <3> QED BY <3>1, <3>2, <3>3
  <2>3. to + j \in Nat /\ (to + j) + Len(d) <= Len(r)
    BY <1>2, <1>4, <2>1
  <2> QED BY <1>2, <2>1, <2>2, <2>3 DEF Shows
<1> QED BY <1>2, <1>3, <1>4 DEF r

(* Bytes behind each other.                                                *)
LEMMA JoinedShows ==
  ASSUME NEW b, NEW at \in Nat, NEW c, NEW d, Shows(b, at, c), Shows(b, at + Len(c), d)
  PROVE  Shows(b, at, c \o d) /\ Len(c \o d) = Len(c) + Len(d)
<1> DEFINE C == {c[i] : i \in DOMAIN c}
           D == {d[i] : i \in DOMAIN d}
           S == C \union D
           r == c \o d
<1>1. c \in Seq(C) /\ d \in Seq(D) /\ IsSequence(b) /\ Len(c) \in Nat /\ Len(d) \in Nat
  BY StackLength DEF Shows, IsSequence
<1> HIDE DEF C, D
<1>2. c \in Seq(S) /\ d \in Seq(S)
  BY <1>1
<1> HIDE DEF S
<1>3. /\ r \in Seq(S) /\ Len(r) = Len(c) + Len(d)
      /\ \A k \in 1 .. Len(c) : r[k] = c[k]
      /\ \A k \in 1 .. Len(d) : r[Len(c) + k] = d[k]
  BY <1>1, <1>2
<1>4. IsSequence(r)
  BY <1>3, StackOf
<1>5. Len(b) \in Nat
  BY <1>1, StackLength
<1> HIDE DEF r
<1>6. ASSUME NEW k \in 1 .. Len(r) PROVE b[at + k] = r[k]
  <2>1. CASE k <= Len(c)
    <3>1. k \in 1 .. Len(c)
      BY <1>1, <1>3, <2>1
    <3> QED BY <1>3, <3>1 DEF Shows
  <2>2. CASE k > Len(c)
    <3>1. k - Len(c) \in 1 .. Len(d) /\ Len(c) + (k - Len(c)) = k
            /\ (at + Len(c)) + (k - Len(c)) = at + k
      BY <1>1, <1>3, <2>2
    <3>2. r[Len(c) + (k - Len(c))] = d[k - Len(c)]
      BY <1>3, <3>1
    <3>3. b[(at + Len(c)) + (k - Len(c))] = d[k - Len(c)]
      BY <3>1 DEF Shows
    <3> QED BY <3>1, <3>2, <3>3
  <2> QED BY <1>1, <1>3, <2>1, <2>2
<1>7. at + Len(r) <= Len(b)
  BY <1>1, <1>3, <1>5 DEF Shows
<1> QED BY <1>1, <1>3, <1>4, <1>6, <1>7 DEF Shows, r

-----------------------------------------------------------------------------
(* The operations of cEthernetPacket.                                      *)

(* Where the parts are.                                                    *)
LEMMA Places ==
  ASSUME NEW e, NEW dst, NEW src, NEW tags, NEW type, NEW head, NEW n,
         LaidOut(e, dst, src, tags, type, head, n)
  PROVE  /\ Len(tags) \in Nat /\ Len(head) \in Nat /\ IsSequence(e.buf) /\ Len(e.buf) \in Nat
         /\ e.type \in Nat /\ e.type = 12 + 4 * Len(tags)
         /\ e.payload \in Nat /\ e.payload = e.type + 2 + Len(head)
         /\ n \in Nat /\ e.payload + n <= Len(e.buf)
<1>1. Len(tags) \in Nat /\ Len(head) \in Nat /\ Len(e.buf) \in Nat /\ IsSequence(e.buf)
  BY StackLength DEF LaidOut, Shows
<1>2. n \in Nat /\ Len(Bytes(<<"payload", 0>>, n)) = n
  BY BytesOf DEF LaidOut
<1>3. e.type = 12 + 4 * Len(tags) /\ e.payload = e.type + 2 + Len(head)
  BY DEF LaidOut, MacSize, VlanSize
<1>4. e.payload + n <= Len(e.buf)
  BY <1>2 DEF LaidOut, Shows
<1> QED BY <1>1, <1>2, <1>3, <1>4

(* The length of the parts.                                                *)
LEMMA Lengths ==
  ASSUME NEW label
  PROVE  /\ Len(Bytes(label, 6)) = 6 /\ Len(Bytes(label, 4)) = 4 /\ Len(Bytes(label, 2)) = 2
         /\ \A n \in Nat : Len(Bytes(label, n)) = n /\ IsSequence(Bytes(label, n))
BY BytesOf

(* The parts of a packet with their offsets as numbers.                    *)
LEMMA Parts ==
  ASSUME NEW e, NEW dst, NEW src, NEW tags, NEW type, NEW head, NEW n,
         LaidOut(e, dst, src, tags, type, head, n)
  PROVE  /\ Shows(e.buf, 0, Bytes(dst, 6)) /\ Shows(e.buf, 6, Bytes(src, 6))
         /\ \A i \in 1 .. Len(tags) :
              Shows(e.buf, 12 + 4 * (i - 1), Bytes(<<"vlan", tags[i]>>, 4))
         /\ Shows(e.buf, e.type, Bytes(type, 2)) /\ Shows(e.buf, e.type + 2, head)
         /\ Shows(e.buf, e.payload, Bytes(<<"payload", 0>>, n))
BY DEF LaidOut, MacSize, VlanSize

(* The other way round: a packet whose buffer has these parts.             *)
LEMMA Assembled ==
  ASSUME NEW e, NEW dst, NEW src, NEW tags, NEW type, NEW head, NEW n \in Nat,
         {"buf", "type", "payload", "payloadLength", "llcHeaderLength"} \subseteq DOMAIN e,
         IsSequence(tags), e.payloadLength = n, e.type = 12 + 4 * Len(tags),
         e.llcHeaderLength = Len(head), e.payload = e.type + 2 + Len(head),
         Shows(e.buf, 0, Bytes(dst, 6)), Shows(e.buf, 6, Bytes(src, 6)),
         \A i \in 1 .. Len(tags) :
           Shows(e.buf, 12 + 4 * (i - 1), Bytes(<<"vlan", tags[i]>>, 4)),
         Shows(e.buf, e.type, Bytes(type, 2)), Shows(e.buf, e.type + 2, head),
         Shows(e.buf, e.payload, Bytes(<<"payload", 0>>, n))
  PROVE  LaidOut(e, dst, src, tags, type, head, n)
BY DEF LaidOut, MacSize, VlanSize

(* Equal bytes within equal bytes, and behind each other.                  *)
LEMMA BytesWithin ==
  ASSUME NEW label, NEW n \in Nat, NEW at \in Nat, NEW m \in Nat, at + m <= n
  PROVE  Shows(Bytes(label, n), at, Bytes(label, m))
<1>1. /\ IsSequence(Bytes(label, n)) /\ Len(Bytes(label, n)) = n
      /\ \A k \in 1 .. n : Bytes(label, n)[k] = label
  BY BytesOf
<1>2. /\ IsSequence(Bytes(label, m)) /\ Len(Bytes(label, m)) = m
      /\ \A k \in 1 .. m : Bytes(label, m)[k] = label
  BY BytesOf
<1>3. \A k \in 1 .. m : at + k \in 1 .. n
  OBVIOUS
<1> QED BY <1>1, <1>2, <1>3 DEF Shows

LEMMA BytesJoined ==
  ASSUME NEW b, NEW label, NEW at \in Nat, NEW n \in Nat, NEW m \in Nat,
         Shows(b, at, Bytes(label, n)), Shows(b, at + n, Bytes(label, m))
  PROVE  Shows(b, at, Bytes(label, n + m))
<1>1. Len(Bytes(label, n)) = n /\ \A k \in 1 .. n : Bytes(label, n)[k] = label
  BY BytesOf
<1>2. Len(Bytes(label, m)) = m /\ \A k \in 1 .. m : Bytes(label, m)[k] = label
  BY BytesOf
<1>3. n + m \in Nat
  OBVIOUS
<1>4. /\ IsSequence(Bytes(label, n + m)) /\ Len(Bytes(label, n + m)) = n + m
      /\ \A k \in 1 .. n + m : Bytes(label, n + m)[k] = label
  BY <1>3, BytesOf
<1>5. ASSUME NEW k \in 1 .. n + m PROVE b[at + k] = label
  <2>1. CASE k <= n
    <3>1. k \in 1 .. n
      BY <2>1
    <3> QED BY <1>1, <3>1 DEF Shows
  <2>2. CASE k > n
    <3>1. k - n \in 1 .. m /\ (at + n) + (k - n) = at + k
      BY <2>2
    <3> QED BY <1>2, <3>1 DEF Shows
  <2> QED BY <2>1, <2>2
<1>6. IsSequence(b) /\ at + (n + m) <= Len(b)
  <2>1. IsSequence(b) /\ (at + n) + m <= Len(b)
    BY <1>2 DEF Shows
  <2>2. Len(b) \in Nat
    BY <2>1, StackLength
  <2> QED BY <2>1, <2>2
<1> QED BY <1>4, <1>5, <1>6 DEF Shows

(* No bytes at all.                                                        *)
LEMMA NothingShown ==
  ASSUME NEW b, NEW at, NEW d, Shows(b, at, d)
  PROVE  Shows(b, at, <<>>)
<1>1. Len(b) \in Nat /\ Len(d) \in Nat
  BY StackLength DEF Shows
<1> QED BY <1>1, EmptyStack DEF Shows

(* A new packet.                                                           *)
LEMMA NewLaid ==
  ASSUME NEW m
  PROVE  LaidOut(NewPacket(m), <<"zero", 0>>, <<"zero", 0>>, <<>>, <<"zero", 0>>, <<>>, 0)
<1> DEFINE z == <<"zero", 0>>
           e == NewPacket(m)
           b == Bytes(z, 14)
<1>1. /\ e.buf = b /\ e.type = 12 /\ e.payload = 14 /\ e.payloadLength = 0
      /\ e.llcHeaderLength = 0
      /\ {"buf", "type", "payload", "payloadLength", "llcHeaderLength"} \subseteq DOMAIN e
  BY DEF NewPacket, MacSize, MacHeaderSize
<1> HIDE DEF e
<1>2. Shows(b, 0, Bytes(z, 6)) /\ Shows(b, 6, Bytes(z, 6)) /\ Shows(b, 12, Bytes(z, 2))
  BY BytesWithin
<1>3. Shows(b, 14, Bytes(z, 0))
  BY BytesWithin
<1>4. Shows(b, 14, <<>>)
  BY <1>3, NothingShown
<1>5. Shows(b, 14, Bytes(<<"payload", 0>>, 0))
  <2>1. Len(Bytes(<<"payload", 0>>, 0)) = 0 /\ IsSequence(Bytes(<<"payload", 0>>, 0))
    BY BytesOf
  <2> QED BY <1>4, <2>1, EmptyStack DEF Shows
<1> HIDE DEF z, b
<1> QED BY <1>1, <1>2, <1>4, <1>5, EmptyStack DEF LaidOut, MacSize, VlanSize, z, e

(* setDestMac writes the first six bytes.                                  *)
LEMMA DestMacLaid ==
  ASSUME NEW e, NEW dst, NEW src, NEW tags, NEW type, NEW head, NEW n,
         LaidOut(e, dst, src, tags, type, head, n)
  PROVE  LaidOut(setDestMac(e), <<"dmac", 0>>, src, tags, type, head, n)
<1> DEFINE c == Bytes(<<"dmac", 0>>, MacSize)
           b == Copy(e.buf, 0, c)
           r == setDestMac(e)
<1>1. /\ Len(tags) \in Nat /\ Len(head) \in Nat /\ IsSequence(e.buf) /\ Len(e.buf) \in Nat
      /\ e.type \in Nat /\ e.type = 12 + 4 * Len(tags)
      /\ e.payload \in Nat /\ e.payload = e.type + 2 + Len(head)
      /\ n \in Nat /\ e.payload + n <= Len(e.buf)
  BY Places
<1>2. /\ Shows(e.buf, 0, Bytes(dst, 6)) /\ Shows(e.buf, 6, Bytes(src, 6))
      /\ \A i \in 1 .. Len(tags) :
           Shows(e.buf, 12 + 4 * (i - 1), Bytes(<<"vlan", tags[i]>>, 4))
      /\ Shows(e.buf, e.type, Bytes(type, 2)) /\ Shows(e.buf, e.type + 2, head)
      /\ Shows(e.buf, e.payload, Bytes(<<"payload", 0>>, n))
  BY Parts
<1>3. \A l : /\ Len(Bytes(l, 6)) = 6 /\ Len(Bytes(l, 4)) = 4 /\ Len(Bytes(l, 2)) = 2
            /\ \A k \in Nat : Len(Bytes(l, k)) = k /\ IsSequence(Bytes(l, k))
  BY Lengths
<1>4. IsSequence(c) /\ Len(c) = 6
  BY <1>3 DEF MacSize
<1>5. /\ DOMAIN r = DOMAIN e /\ r.buf = b /\ r.type = e.type /\ r.payload = e.payload
      /\ r.payloadLength = n /\ r.llcHeaderLength = Len(head)
      /\ {"buf", "type", "payload", "payloadLength", "llcHeaderLength"} \subseteq DOMAIN e
  BY DEF LaidOut, setDestMac
<1>6. Shows(b, 0, c)
  BY <1>1, <1>4, CopyShows
<1>7. ASSUME NEW at, NEW d, Shows(e.buf, at, d), at + Len(d) <= 0 \/ at >= 0 + Len(c)
      PROVE  Shows(b, at, d)
  BY <1>1, <1>4, <1>7, CopyShows
<1> HIDE DEF b, r
<1>8. /\ Shows(b, 0, Bytes(<<"dmac", 0>>, 6)) /\ Shows(b, 6, Bytes(src, 6))
      /\ Shows(b, e.type, Bytes(type, 2)) /\ Shows(b, e.type + 2, head)
      /\ Shows(b, e.payload, Bytes(<<"payload", 0>>, n))
  BY <1>1, <1>2, <1>3, <1>4, <1>6, <1>7 DEF MacSize
<1>9. ASSUME NEW i \in 1 .. Len(tags)
      PROVE  Shows(b, 12 + 4 * (i - 1), Bytes(<<"vlan", tags[i]>>, 4))
  <2> HIDE DEF c
  <2>1. 12 + 4 * (i - 1) >= 0 + Len(c)
    BY <1>1, <1>4
  <2> QED BY <1>2, <1>7, <2>1
<1>10. IsSequence(tags)
  BY DEF LaidOut
<1> HIDE DEF c
<1>11. LaidOut(r, <<"dmac", 0>>, src, tags, type, head, n)
  BY <1>1, <1>5, <1>8, <1>9, <1>10, Assembled
<1> QED BY <1>11 DEF r

(* setSrcMac writes the six bytes behind them.                             *)
LEMMA SrcMacLaid ==
  ASSUME NEW e, NEW dst, NEW src, NEW tags, NEW type, NEW head, NEW n,
         LaidOut(e, dst, src, tags, type, head, n)
  PROVE  LaidOut(setSrcMac(e), dst, <<"smac", 0>>, tags, type, head, n)
<1> DEFINE c == Bytes(<<"smac", 0>>, MacSize)
           b == Copy(e.buf, MacSize, c)
           r == setSrcMac(e)
<1>1. /\ Len(tags) \in Nat /\ Len(head) \in Nat /\ IsSequence(e.buf) /\ Len(e.buf) \in Nat
      /\ e.type \in Nat /\ e.type = 12 + 4 * Len(tags)
      /\ e.payload \in Nat /\ e.payload = e.type + 2 + Len(head)
      /\ n \in Nat /\ e.payload + n <= Len(e.buf)
  BY Places
<1>2. /\ Shows(e.buf, 0, Bytes(dst, 6)) /\ Shows(e.buf, 6, Bytes(src, 6))
      /\ \A i \in 1 .. Len(tags) :
           Shows(e.buf, 12 + 4 * (i - 1), Bytes(<<"vlan", tags[i]>>, 4))
      /\ Shows(e.buf, e.type, Bytes(type, 2)) /\ Shows(e.buf, e.type + 2, head)
      /\ Shows(e.buf, e.payload, Bytes(<<"payload", 0>>, n))
  BY Parts
<1>3. \A l : /\ Len(Bytes(l, 6)) = 6 /\ Len(Bytes(l, 4)) = 4 /\ Len(Bytes(l, 2)) = 2
            /\ \A k \in Nat : Len(Bytes(l, k)) = k /\ IsSequence(Bytes(l, k))
  BY Lengths
<1>4. IsSequence(c) /\ Len(c) = 6
  BY <1>3 DEF MacSize
<1>5. /\ DOMAIN r = DOMAIN e /\ r.buf = b /\ r.type = e.type /\ r.payload = e.payload
      /\ r.payloadLength = n /\ r.llcHeaderLength = Len(head)
      /\ {"buf", "type", "payload", "payloadLength", "llcHeaderLength"} \subseteq DOMAIN e
  BY DEF LaidOut, setSrcMac
<1>6. Shows(b, MacSize, c)
  BY <1>1, <1>4, CopyShows DEF MacSize
<1>7. ASSUME NEW at, NEW d, Shows(e.buf, at, d), at + Len(d) <= MacSize \/ at >= MacSize + Len(c)
      PROVE  Shows(b, at, d)
  BY <1>1, <1>4, <1>7, CopyShows DEF MacSize
<1> HIDE DEF b, r
<1>8. /\ Shows(b, 0, Bytes(dst, 6)) /\ Shows(b, 6, Bytes(<<"smac", 0>>, 6))
      /\ Shows(b, e.type, Bytes(type, 2)) /\ Shows(b, e.type + 2, head)
      /\ Shows(b, e.payload, Bytes(<<"payload", 0>>, n))
  BY <1>1, <1>2, <1>3, <1>4, <1>6, <1>7 DEF MacSize
<1>9. ASSUME NEW i \in 1 .. Len(tags)
      PROVE  Shows(b, 12 + 4 * (i - 1), Bytes(<<"vlan", tags[i]>>, 4))
  <2> HIDE DEF c
  <2>1. 12 + 4 * (i - 1) >= MacSize + Len(c)
    BY <1>1, <1>4 DEF MacSize
  <2> QED BY <1>2, <1>7, <2>1
<1>10. IsSequence(tags)
  BY DEF LaidOut
<1> HIDE DEF c
<1>11. LaidOut(r, dst, <<"smac", 0>>, tags, type, head, n)
  BY <1>1, <1>5, <1>8, <1>9, <1>10, Assembled
<1> QED BY <1>11 DEF r

(* setTypeLength writes the type field, wherever it is by now.             *)
LEMMA TypeLaid ==
  ASSUME NEW e, NEW dst, NEW src, NEW tags, NEW type, NEW head, NEW n,
         LaidOut(e, dst, src, tags, type, head, n), NEW label
  PROVE  LaidOut(setTypeLength(e, label), dst, src, tags, label, head, n)
<1> DEFINE c == Bytes(label, 2)
           b == Copy(e.buf, e.type, c)
           r == setTypeLength(e, label)
<1>1. /\ Len(tags) \in Nat /\ Len(head) \in Nat /\ IsSequence(e.buf) /\ Len(e.buf) \in Nat
      /\ e.type \in Nat /\ e.type = 12 + 4 * Len(tags)
      /\ e.payload \in Nat /\ e.payload = e.type + 2 + Len(head)
      /\ n \in Nat /\ e.payload + n <= Len(e.buf)
  BY Places
<1>2. /\ Shows(e.buf, 0, Bytes(dst, 6)) /\ Shows(e.buf, 6, Bytes(src, 6))
      /\ \A i \in 1 .. Len(tags) :
           Shows(e.buf, 12 + 4 * (i - 1), Bytes(<<"vlan", tags[i]>>, 4))
      /\ Shows(e.buf, e.type, Bytes(type, 2)) /\ Shows(e.buf, e.type + 2, head)
      /\ Shows(e.buf, e.payload, Bytes(<<"payload", 0>>, n))
  BY Parts
<1>3. \A l : /\ Len(Bytes(l, 6)) = 6 /\ Len(Bytes(l, 4)) = 4 /\ Len(Bytes(l, 2)) = 2
            /\ \A k \in Nat : Len(Bytes(l, k)) = k /\ IsSequence(Bytes(l, k))
  BY Lengths
<1>4. IsSequence(c) /\ Len(c) = 2
  BY <1>3 DEF MacSize
<1>5. /\ DOMAIN r = DOMAIN e /\ r.buf = b /\ r.type = e.type /\ r.payload = e.payload
      /\ r.payloadLength = n /\ r.llcHeaderLength = Len(head)
      /\ {"buf", "type", "payload", "payloadLength", "llcHeaderLength"} \subseteq DOMAIN e
  BY DEF LaidOut, setTypeLength
<1>6. Shows(b, e.type, c)
  BY <1>1, <1>4, CopyShows
<1>7. ASSUME NEW at, NEW d, Shows(e.buf, at, d), at + Len(d) <= e.type \/ at >= e.type + Len(c)
      PROVE  Shows(b, at, d)
  BY <1>1, <1>4, <1>7, CopyShows
<1> HIDE DEF b, r
<1>8. /\ Shows(b, 0, Bytes(dst, 6)) /\ Shows(b, 6, Bytes(src, 6))
      /\ Shows(b, e.type, Bytes(label, 2)) /\ Shows(b, e.type + 2, head)
      /\ Shows(b, e.payload, Bytes(<<"payload", 0>>, n))
  BY <1>1, <1>2, <1>3, <1>4, <1>6, <1>7 DEF MacSize
<1>9. ASSUME NEW i \in 1 .. Len(tags)
      PROVE  Shows(b, 12 + 4 * (i - 1), Bytes(<<"vlan", tags[i]>>, 4))
  <2>1. (12 + 4 * (i - 1)) + Len(Bytes(<<"vlan", tags[i]>>, 4)) <= e.type
    BY <1>1, <1>3, <1>4
  <2> QED BY <1>2, <1>7, <2>1
<1>10. IsSequence(tags)
  BY DEF LaidOut
<1> HIDE DEF c
<1>11. LaidOut(r, dst, src, tags, label, head, n)
  BY <1>1, <1>5, <1>8, <1>9, <1>10, Assembled
<1> QED BY <1>11 DEF r

(* setPayload writes everything behind the headers.                        *)
LEMMA PayloadLaid ==
  ASSUME NEW e, NEW dst, NEW src, NEW tags, NEW type, NEW head, NEW n,
         LaidOut(e, dst, src, tags, type, head, n), NEW len \in Nat
  PROVE  LaidOut(setPayload(e, len), dst, src, tags, type, head, len)
<1> DEFINE c == Bytes(<<"payload", 0>>, len)
           b == Copy(e.buf, e.payload, c)
           r == setPayload(e, len)
<1>1. /\ Len(tags) \in Nat /\ Len(head) \in Nat /\ IsSequence(e.buf) /\ Len(e.buf) \in Nat
      /\ e.type \in Nat /\ e.type = 12 + 4 * Len(tags)
      /\ e.payload \in Nat /\ e.payload = e.type + 2 + Len(head)
      /\ n \in Nat /\ e.payload + n <= Len(e.buf)
  BY Places
<1>2. /\ Shows(e.buf, 0, Bytes(dst, 6)) /\ Shows(e.buf, 6, Bytes(src, 6))
      /\ \A i \in 1 .. Len(tags) :
           Shows(e.buf, 12 + 4 * (i - 1), Bytes(<<"vlan", tags[i]>>, 4))
      /\ Shows(e.buf, e.type, Bytes(type, 2)) /\ Shows(e.buf, e.type + 2, head)
      /\ Shows(e.buf, e.payload, Bytes(<<"payload", 0>>, n))
  BY Parts
<1>3. \A l : /\ Len(Bytes(l, 6)) = 6 /\ Len(Bytes(l, 4)) = 4 /\ Len(Bytes(l, 2)) = 2
            /\ \A k \in Nat : Len(Bytes(l, k)) = k /\ IsSequence(Bytes(l, k))
  BY Lengths
<1>4. IsSequence(c) /\ Len(c) = len
  BY <1>3 DEF MacSize
<1>5. /\ DOMAIN r = DOMAIN e /\ r.buf = b /\ r.type = e.type /\ r.payload = e.payload
      /\ r.payloadLength = len /\ r.llcHeaderLength = Len(head)
      /\ {"buf", "type", "payload", "payloadLength", "llcHeaderLength"} \subseteq DOMAIN e
  BY DEF LaidOut, setPayload
<1>6. Shows(b, e.payload, c)
  BY <1>1, <1>4, CopyShows
<1>7. ASSUME NEW at, NEW d, Shows(e.buf, at, d), at + Len(d) <= e.payload \/ at >= e.payload + Len(c)
      PROVE  Shows(b, at, d)
  BY <1>1, <1>4, <1>7, CopyShows
<1> HIDE DEF b, r
<1>8. /\ Shows(b, 0, Bytes(dst, 6)) /\ Shows(b, 6, Bytes(src, 6))
      /\ Shows(b, e.type, Bytes(type, 2)) /\ Shows(b, e.type + 2, head)
      /\ Shows(b, e.payload, Bytes(<<"payload", 0>>, len))
  BY <1>1, <1>2, <1>3, <1>4, <1>6, <1>7 DEF MacSize
<1>9. ASSUME NEW i \in 1 .. Len(tags)
      PROVE  Shows(b, 12 + 4 * (i - 1), Bytes(<<"vlan", tags[i]>>, 4))
  <2>1. (12 + 4 * (i - 1)) + Len(Bytes(<<"vlan", tags[i]>>, 4)) <= e.payload
    BY <1>1, <1>3, <1>4
  <2> QED BY <1>2, <1>7, <2>1
<1>10. IsSequence(tags)
  BY DEF LaidOut
<1> HIDE DEF c
<1>11. LaidOut(r, dst, src, tags, type, head, len)
  BY <1>1, <1>5, <1>8, <1>9, <1>10, Assembled
<1> QED BY <1>11 DEF r

(* appendPayload writes behind the payload that is there.                  *)
LEMMA AppendedLaid ==
  ASSUME NEW e, NEW dst, NEW src, NEW tags, NEW type, NEW head, NEW n,
         LaidOut(e, dst, src, tags, type, head, n), NEW len \in Nat
  PROVE  LaidOut(appendPayload(e, len), dst, src, tags, type, head, n + len)
<1> DEFINE c == Bytes(<<"payload", 0>>, len)
           b == Copy(e.buf, e.payload + n, c)
           r == appendPayload(e, len)
<1>1. /\ Len(tags) \in Nat /\ Len(head) \in Nat /\ IsSequence(e.buf) /\ Len(e.buf) \in Nat
      /\ e.type \in Nat /\ e.type = 12 + 4 * Len(tags)
      /\ e.payload \in Nat /\ e.payload = e.type + 2 + Len(head)
      /\ n \in Nat /\ e.payload + n <= Len(e.buf)
  BY Places
<1>2. /\ Shows(e.buf, 0, Bytes(dst, 6)) /\ Shows(e.buf, 6, Bytes(src, 6))
      /\ \A i \in 1 .. Len(tags) :
           Shows(e.buf, 12 + 4 * (i - 1), Bytes(<<"vlan", tags[i]>>, 4))
      /\ Shows(e.buf, e.type, Bytes(type, 2)) /\ Shows(e.buf, e.type + 2, head)
      /\ Shows(e.buf, e.payload, Bytes(<<"payload", 0>>, n))
  BY Parts
<1>3. \A l : /\ Len(Bytes(l, 6)) = 6 /\ Len(Bytes(l, 4)) = 4 /\ Len(Bytes(l, 2)) = 2
            /\ \A k \in Nat : Len(Bytes(l, k)) = k /\ IsSequence(Bytes(l, k))
  BY Lengths
<1>4. IsSequence(c) /\ Len(c) = len
  BY <1>3 DEF MacSize
<1>5. /\ DOMAIN r = DOMAIN e /\ r.buf = b /\ r.type = e.type /\ r.payload = e.payload
      /\ r.payloadLength = n + len /\ r.llcHeaderLength = Len(head)
      /\ {"buf", "type", "payload", "payloadLength", "llcHeaderLength"} \subseteq DOMAIN e
  BY DEF LaidOut, appendPayload, getLength
<1>6. Shows(b, e.payload + n, c)
  <2>1. e.payload + n \in Nat
    BY <1>1
  <2> QED BY <1>1, <1>4, <2>1, CopyShows
<1>7. ASSUME NEW at, NEW d, Shows(e.buf, at, d),
             at + Len(d) <= e.payload + n \/ at >= (e.payload + n) + Len(c)
      PROVE  Shows(b, at, d)
  BY <1>1, <1>4, <1>7, CopyShows
<1> HIDE DEF b, r
<1>8. /\ Shows(b, 0, Bytes(dst, 6)) /\ Shows(b, 6, Bytes(src, 6))
      /\ Shows(b, e.type, Bytes(type, 2)) /\ Shows(b, e.type + 2, head)
      /\ Shows(b, e.payload, Bytes(<<"payload", 0>>, n + len))
  <2>1. /\ Shows(b, 0, Bytes(dst, 6)) /\ Shows(b, 6, Bytes(src, 6))
        /\ Shows(b, e.type, Bytes(type, 2)) /\ Shows(b, e.type + 2, head)
        /\ Shows(b, e.payload, Bytes(<<"payload", 0>>, n))
    BY <1>1, <1>2, <1>3, <1>4, <1>7
  <2> QED BY <1>1, <1>6, <2>1, BytesJoined
<1>9. ASSUME NEW i \in 1 .. Len(tags)
      PROVE  Shows(b, 12 + 4 * (i - 1), Bytes(<<"vlan", tags[i]>>, 4))
  <2>1. (12 + 4 * (i - 1)) + Len(Bytes(<<"vlan", tags[i]>>, 4)) <= e.payload + n
    BY <1>1, <1>3, <1>4
  <2> QED BY <1>2, <1>7, <2>1
<1>10. IsSequence(tags)
  BY DEF LaidOut
<1> HIDE DEF c
<1>11. LaidOut(r, dst, src, tags, type, head, n + len)
  <2>1. n + len \in Nat
    BY <1>1
  <2> QED BY <1>1, <1>5, <1>8, <1>9, <1>10, <2>1, Assembled
<1> QED BY <1>11 DEF r

(* addVlanTag before an LLC header: the type field and the payload that is *)
(* there move, the tag is behind the ones inserted earlier.                *)
LEMMA TagLaid ==
  ASSUME NEW e, NEW dst, NEW src, NEW tags, NEW type, NEW n,
         LaidOut(e, dst, src, tags, type, <<>>, n), NEW tag
  PROVE  LaidOut(addVlanTag(e, tag), dst, src, Append(tags, tag), type, <<>>, n)
<1> DEFINE c == Bytes(<<"vlan", tag>>, 4)
           m == Move(e.buf, e.type + 4, e.type, 2 + n)
           b == Copy(m, e.type, c)
           r == addVlanTag(e, tag)
           all == Append(tags, tag)
<1>1. /\ Len(tags) \in Nat /\ IsSequence(e.buf) /\ Len(e.buf) \in Nat
      /\ e.type \in Nat /\ e.type = 12 + 4 * Len(tags)
      /\ e.payload \in Nat /\ e.payload = e.type + 2
      /\ n \in Nat /\ e.payload + n <= Len(e.buf)
  BY Places, EmptyStack
<1>2. /\ Shows(e.buf, 0, Bytes(dst, 6)) /\ Shows(e.buf, 6, Bytes(src, 6))
      /\ \A i \in 1 .. Len(tags) :
           Shows(e.buf, 12 + 4 * (i - 1), Bytes(<<"vlan", tags[i]>>, 4))
      /\ Shows(e.buf, e.type, Bytes(type, 2))
      /\ Shows(e.buf, e.payload, Bytes(<<"payload", 0>>, n))
  BY Parts
<1>3. \A l : /\ Len(Bytes(l, 6)) = 6 /\ Len(Bytes(l, 4)) = 4 /\ Len(Bytes(l, 2)) = 2
            /\ \A k \in Nat : Len(Bytes(l, k)) = k /\ IsSequence(Bytes(l, k))
  BY Lengths
<1>4. IsSequence(c) /\ Len(c) = 4
  BY <1>3
<1>5. /\ DOMAIN r = DOMAIN e /\ r.buf = b /\ r.type = e.type + 4 /\ r.payload = e.payload + 4
      /\ r.payloadLength = n /\ r.llcHeaderLength = Len(<<>>)
      /\ {"buf", "type", "payload", "payloadLength", "llcHeaderLength"} \subseteq DOMAIN e
  BY DEF LaidOut, addVlanTag, VlanSize
<1>6. e.type + 4 \in Nat /\ 2 + n \in Nat /\ e.type + (2 + n) <= Len(e.buf)
  BY <1>1
<1>7. /\ IsSequence(m)
      /\ \A at, d : Shows(e.buf, at, d) /\ at + Len(d) <= e.type + 4 => Shows(m, at, d)
      /\ \A j, d : j \in Nat /\ Shows(e.buf, e.type + j, d) /\ j + Len(d) <= 2 + n
                  => Shows(m, (e.type + 4) + j, d)
  BY <1>1, <1>6, MoveShows
<1> HIDE DEF m, c
<1>8. Shows(b, e.type, c)
  BY <1>1, <1>4, <1>7, CopyShows
<1>9. ASSUME NEW at, NEW d, Shows(m, at, d), at + Len(d) <= e.type \/ at >= e.type + Len(c)
      PROVE  Shows(b, at, d)
  BY <1>1, <1>4, <1>7, <1>9, CopyShows
<1> HIDE DEF b, r
<1>10. ASSUME NEW at \in Nat, NEW d, Shows(e.buf, at, d), Len(d) \in Nat, at + Len(d) <= e.type
       PROVE  Shows(b, at, d)
  <2>1. at + Len(d) <= e.type + 4
    BY <1>1, <1>10
  <2> QED BY <1>7, <1>9, <1>10, <2>1
<1>11. Shows(b, 0, Bytes(dst, 6)) /\ Shows(b, 6, Bytes(src, 6))
  BY <1>1, <1>2, <1>3, <1>10
<1>12. Shows(b, r.type, Bytes(type, 2))
  <2>1. Shows(m, (e.type + 4) + 0, Bytes(type, 2))
    <3>1. Shows(e.buf, e.type + 0, Bytes(type, 2)) /\ 0 + Len(Bytes(type, 2)) <= 2 + n
      BY <1>1, <1>2, <1>3
    <3> QED BY <1>7, <3>1
  <2>2. (e.type + 4) + 0 = r.type /\ (e.type + 4) + 0 >= e.type + Len(c)
    BY <1>1, <1>4, <1>5
  <2> QED BY <1>9, <2>1, <2>2
<1>13. Shows(b, r.payload, Bytes(<<"payload", 0>>, n))
  <2>1. Shows(m, (e.type + 4) + 2, Bytes(<<"payload", 0>>, n))
    <3>1. /\ Shows(e.buf, e.type + 2, Bytes(<<"payload", 0>>, n))
          /\ 2 + Len(Bytes(<<"payload", 0>>, n)) <= 2 + n
      BY <1>1, <1>2, <1>3
    <3> QED BY <1>7, <3>1
  <2>2. (e.type + 4) + 2 = r.payload /\ (e.type + 4) + 2 >= e.type + Len(c)
    BY <1>1, <1>4, <1>5
  <2> QED BY <1>9, <2>1, <2>2
<1>14. Shows(b, r.type + 2, <<>>)
  <2>1. r.type + 2 = r.payload
    BY <1>1, <1>5
  <2> QED BY <1>13, <2>1, NothingShown
<1>15. /\ IsSequence(all) /\ Len(all) = Len(tags) + 1 /\ all[Len(tags) + 1] = tag
       /\ \A i \in 1 .. Len(tags) : all[i] = tags[i]
  <2>1. IsSequence(tags)
    BY DEF LaidOut
  <2>2. all = Push(tags, tag)
    <3> DEFINE T == {tags[i] : i \in DOMAIN tags} \union {tag}
    <3>1. tags \in Seq({tags[i] : i \in DOMAIN tags})
      BY <2>1 DEF IsSequence
    <3>2. tags \in Seq(T) /\ tag \in T
      BY <3>1
    <3> HIDE DEF T
    <3> QED BY <3>2 DEF Push
  <2> QED BY <2>1, <2>2, TopPushed
<1> HIDE DEF all
<1>16. ASSUME NEW i \in 1 .. Len(all)
       PROVE  Shows(b, 12 + 4 * (i - 1), Bytes(<<"vlan", all[i]>>, 4))
  <2>1. CASE i = Len(tags) + 1
    <3>1. 12 + 4 * (i - 1) = e.type /\ all[i] = tag
      BY <1>1, <1>15, <2>1
    <3> QED BY <1>8, <3>1 DEF c
  <2>2. CASE i # Len(tags) + 1
    <3>1. i \in 1 .. Len(tags) /\ all[i] = tags[i]
      BY <1>1, <1>15, <2>2
    <3>2. /\ 12 + 4 * (i - 1) \in Nat
          /\ (12 + 4 * (i - 1)) + Len(Bytes(<<"vlan", tags[i]>>, 4)) <= e.type
          /\ Len(Bytes(<<"vlan", tags[i]>>, 4)) \in Nat
      BY <1>1, <1>3, <3>1
    <3> QED BY <1>2, <1>10, <3>1, <3>2
  <2> QED BY <2>1, <2>2
<1>17. r.type = 12 + 4 * Len(all) /\ r.payload = r.type + 2 + Len(<<>>)
  BY <1>1, <1>5, <1>15, EmptyStack
<1>18. LaidOut(r, dst, src, all, type, <<>>, n)
  BY <1>1, <1>5, <1>11, <1>12, <1>13, <1>14, <1>15, <1>16, <1>17, Assembled
<1> QED BY <1>18 DEF r, all

(* A header is inserted in front of the payload, behind the header that is *)
(* there.                                                                  *)
LEMMA HeaderLaid ==
  ASSUME NEW e, NEW dst, NEW src, NEW tags, NEW type, NEW head, NEW n,
         LaidOut(e, dst, src, tags, type, head, n), NEW c, IsSequence(c), NEW r,
         DOMAIN r = DOMAIN e, r.type = e.type, r.payload = e.payload + Len(c),
         r.payloadLength = n, r.llcHeaderLength = Len(head) + Len(c),
         r.buf = Copy(Move(e.buf, e.payload + Len(c), e.payload, n), e.payload, c)
  PROVE  LaidOut(r, dst, src, tags, type, head \o c, n)
<1> DEFINE m == Move(e.buf, e.payload + Len(c), e.payload, n)
           b == Copy(m, e.payload, c)
<1>1. /\ Len(tags) \in Nat /\ Len(head) \in Nat /\ IsSequence(e.buf) /\ Len(e.buf) \in Nat
      /\ e.type \in Nat /\ e.type = 12 + 4 * Len(tags)
      /\ e.payload \in Nat /\ e.payload = e.type + 2 + Len(head)
      /\ n \in Nat /\ e.payload + n <= Len(e.buf)
  BY Places
<1>2. /\ Shows(e.buf, 0, Bytes(dst, 6)) /\ Shows(e.buf, 6, Bytes(src, 6))
      /\ \A i \in 1 .. Len(tags) :
           Shows(e.buf, 12 + 4 * (i - 1), Bytes(<<"vlan", tags[i]>>, 4))
      /\ Shows(e.buf, e.type, Bytes(type, 2)) /\ Shows(e.buf, e.type + 2, head)
      /\ Shows(e.buf, e.payload, Bytes(<<"payload", 0>>, n))
  BY Parts
<1>3. \A l : /\ Len(Bytes(l, 6)) = 6 /\ Len(Bytes(l, 4)) = 4 /\ Len(Bytes(l, 2)) = 2
            /\ \A k \in Nat : Len(Bytes(l, k)) = k /\ IsSequence(Bytes(l, k))
  BY Lengths
<1>4. Len(c) \in Nat
  BY StackLength
<1>5. /\ IsSequence(m)
      /\ \A at, d : Shows(e.buf, at, d) /\ at + Len(d) <= e.payload + Len(c) => Shows(m, at, d)
      /\ \A j, d : j \in Nat /\ Shows(e.buf, e.payload + j, d) /\ j + Len(d) <= n
                  => Shows(m, (e.payload + Len(c)) + j, d)
  <2>1. e.payload + Len(c) \in Nat
    BY <1>1, <1>4
  <2> QED BY <1>1, <2>1, MoveShows
<1> HIDE DEF m
<1>6. Shows(b, e.payload, c)
  BY <1>1, <1>5, CopyShows
<1>7. ASSUME NEW at, NEW d, Shows(m, at, d), at + Len(d) <= e.payload \/ at >= e.payload + Len(c)
      PROVE  Shows(b, at, d)
  BY <1>1, <1>5, <1>7, CopyShows
<1>8. r.buf = b
  BY DEF m
<1> HIDE DEF b
<1>9. ASSUME NEW at \in Nat, NEW d, Shows(e.buf, at, d), Len(d) \in Nat, at + Len(d) <= e.payload
      PROVE  Shows(b, at, d)
  <2>1. at + Len(d) <= e.payload + Len(c)
    BY <1>1, <1>4, <1>9
  <2> QED BY <1>5, <1>7, <1>9, <2>1
<1>10. /\ Shows(b, 0, Bytes(dst, 6)) /\ Shows(b, 6, Bytes(src, 6))
       /\ Shows(b, e.type, Bytes(type, 2)) /\ Shows(b, e.type + 2, head)
  <2>1. \A l : 0 + Len(Bytes(l, 6)) <= e.payload /\ Len(Bytes(l, 6)) \in Nat
    BY <1>1, <1>3
  <2>2. \A l : 6 + Len(Bytes(l, 6)) <= e.payload
    BY <1>1, <1>3
  <2>3. \A l : e.type + Len(Bytes(l, 2)) <= e.payload /\ Len(Bytes(l, 2)) \in Nat
    BY <1>1, <1>3
  <2>4. (e.type + 2) + Len(head) <= e.payload /\ e.type + 2 \in Nat
    BY <1>1
  <2> QED BY <1>1, <1>2, <1>9, <2>1, <2>2, <2>3, <2>4
<1>11. ASSUME NEW i \in 1 .. Len(tags)
       PROVE  Shows(b, 12 + 4 * (i - 1), Bytes(<<"vlan", tags[i]>>, 4))
  <2>1. /\ 12 + 4 * (i - 1) \in Nat
        /\ (12 + 4 * (i - 1)) + Len(Bytes(<<"vlan", tags[i]>>, 4)) <= e.payload
        /\ Len(Bytes(<<"vlan", tags[i]>>, 4)) \in Nat
    BY <1>1, <1>3
  <2> QED BY <1>2, <1>9, <2>1
<1>12. Shows(b, r.payload, Bytes(<<"payload", 0>>, n))
  <2>1. Shows(m, (e.payload + Len(c)) + 0, Bytes(<<"payload", 0>>, n))
    <3>1. /\ Shows(e.buf, e.payload + 0, Bytes(<<"payload", 0>>, n))
          /\ 0 + Len(Bytes(<<"payload", 0>>, n)) <= n
      BY <1>1, <1>2, <1>3
    <3> QED BY <1>5, <3>1
  <2> QED BY <1>1, <1>4, <1>7, <2>1
<1>13. Shows(b, e.type + 2, head \o c) /\ Len(head \o c) = Len(head) + Len(c)
  <2>1. e.type + 2 \in Nat /\ Shows(b, (e.type + 2) + Len(head), c)
    BY <1>1, <1>6
  <2> QED BY <1>10, <2>1, JoinedShows
<1>14. /\ IsSequence(tags)
       /\ {"buf", "type", "payload", "payloadLength", "llcHeaderLength"} \subseteq DOMAIN r
  BY DEF LaidOut
<1>15. r.payload = r.type + 2 + Len(head \o c)
  BY <1>1, <1>4, <1>13
<1> DEFINE both == head \o c
<1>16. r.llcHeaderLength = Len(both) /\ r.payload = r.type + 2 + Len(both) /\ Shows(b, r.type + 2, both)
  BY <1>13, <1>15
<1> HIDE DEF both
<1>17. LaidOut(r, dst, src, tags, type, both, n)
  BY <1>1, <1>8, <1>10, <1>11, <1>12, <1>14, <1>16, Assembled
<1> QED BY <1>17 DEF both

(* addLlcHeader, and the length field that it writes.                      *)
LEMMA LlcLaid ==
  ASSUME NEW e, NEW dst, NEW src, NEW tags, NEW type, NEW n,
         LaidOut(e, dst, src, tags, type, <<>>, n), NEW size \in Nat
  PROVE  LaidOut(addLlcHeader(e, size), dst, src, tags, <<"length", n + size>>,
                 Bytes(<<"llc", 0>>, size), n)
<1> DEFINE c == Bytes(<<"llc", 0>>, size)
           m == Move(e.buf, e.payload + size, e.payload, e.payloadLength)
           r == [e EXCEPT !.llcHeaderLength = size, !.buf = Copy(m, e.payload, c),
                          !.payload = @ + size]
<1>1. IsSequence(c) /\ Len(c) = size
  BY BytesOf
<1>2. /\ DOMAIN r = DOMAIN e /\ r.type = e.type /\ r.payload = e.payload + size
      /\ r.payloadLength = n /\ r.llcHeaderLength = size
      /\ r.buf = Copy(Move(e.buf, e.payload + size, e.payload, n), e.payload, c)
  BY DEF LaidOut
<1>3. addLlcHeader(e, size) = setTypeLength(r, <<"length", n + size>>)
  <2>1. addLlcHeader(e, size) = setLength(r)
    BY DEF addLlcHeader
  <2> HIDE DEF r
  <2>2. setLength(r) = setTypeLength(r, <<"length", n + size>>)
    BY <1>2 DEF setLength
  <2> QED BY <2>1, <2>2
<1> HIDE DEF r, c
<1>4. <<>> \o c = c
  <2> DEFINE C == {c[i] : i \in DOMAIN c}
  <2>1. c \in Seq(C)
    BY <1>1 DEF IsSequence
  <2> HIDE DEF C
  <2> QED BY <2>1
<1>5. LaidOut(r, dst, src, tags, type, <<>> \o c, n)
  <2>1. Len(<<>>) + Len(c) = size
    BY <1>1, EmptyStack
  <2> QED BY <1>1, <1>2, <2>1, HeaderLaid
<1>6. LaidOut(r, dst, src, tags, type, c, n)
  BY <1>4, <1>5
<1>7. LaidOut(setTypeLength(r, <<"length", n + size>>), dst, src, tags, <<"length", n + size>>, c, n)
  BY <1>6, TypeLaid
<1> QED BY <1>3, <1>7 DEF c

(* addSnapHeader: the LLC header, the SNAP header behind it and the length *)
(* of both with the payload.                                               *)
SnapBytes == Bytes(<<"llc", 0>>, 3) \o Bytes(<<"snap", 0>>, SnapSize)
LEMMA SnapLaid ==
  ASSUME NEW e, NEW dst, NEW src, NEW tags, NEW type, NEW n,
         LaidOut(e, dst, src, tags, type, <<>>, n)
  PROVE  LaidOut(addSnapHeader(e), dst, src, tags, <<"length", n + 8>>, SnapBytes, n)
<1> DEFINE l == addLlcHeader(e, 3)
           h == Bytes(<<"llc", 0>>, 3)
           c == Bytes(<<"snap", 0>>, 5)
           m == Move(l.buf, l.payload + 5, l.payload, l.payloadLength)
           r == [l EXCEPT !.llcHeaderLength = @ + 5, !.buf = Copy(m, l.payload, c),
                          !.payload = @ + 5]
<1>1. LaidOut(l, dst, src, tags, <<"length", n + 3>>, h, n)
  BY LlcLaid
<1>2. IsSequence(c) /\ Len(c) = 5 /\ IsSequence(h) /\ Len(h) = 3
  BY BytesOf
<1>3. addSnapHeader(e) = setLength(r)
  BY DEF addSnapHeader, SnapSize
<1> HIDE DEF l, c, h
<1>4. /\ DOMAIN r = DOMAIN l /\ r.type = l.type /\ r.payload = l.payload + 5
      /\ r.payloadLength = n /\ r.llcHeaderLength = Len(h) + 5
      /\ r.buf = Copy(Move(l.buf, l.payload + 5, l.payload, n), l.payload, c)
  BY <1>1 DEF LaidOut
<1> HIDE DEF r
<1>5. LaidOut(r, dst, src, tags, <<"length", n + 3>>, h \o c, n)
  BY <1>1, <1>2, <1>4, HeaderLaid
<1>6. r.payloadLength + r.llcHeaderLength = n + 8
  <2>1. n \in Nat
    BY DEF LaidOut
  <2> QED BY <1>2, <1>4, <2>1
<1>7. setLength(r) = setTypeLength(r, <<"length", n + 8>>)
  BY <1>6 DEF setLength
<1>8. LaidOut(setTypeLength(r, <<"length", n + 8>>), dst, src, tags, <<"length", n + 8>>, h \o c, n)
  BY <1>5, TypeLaid
<1> QED BY <1>3, <1>7, <1>8 DEF h, c, SnapBytes, SnapSize

(* get() and getLength() give the network all of it and nothing else.      *)
LEMMA FrameShows ==
  ASSUME NEW e, IsSequence(e.buf), getLength(e) \in Nat, getLength(e) <= Len(e.buf)
  PROVE  /\ Len(Frame(e)) = getLength(e)
         /\ \A at, d : Shows(e.buf, at, d) /\ at + Len(d) <= getLength(e) => Shows(Frame(e), at, d)
<1> DEFINE f == Frame(e)
           g == getLength(e)
<1>1. Len(e.buf) \in Nat
  BY StackLength
<1>2. DOMAIN f = 1 .. g /\ f = [k \in 1 .. g |-> f[k]]
  BY DEF Frame
<1>3. \A k \in 1 .. g : f[k] = e.buf[k]
  BY <1>1 DEF Frame
<1> HIDE DEF f, g
<1>4. IsSequence(f) /\ Len(f) = g
  <2>1. g \in Nat
    BY DEF g
  <2> QED BY <1>2, <2>1, IntervalSequence
<1>5. ASSUME NEW at, NEW d, Shows(e.buf, at, d), at + Len(d) <= g
      PROVE  Shows(f, at, d)
  <2>1. at \in Nat /\ IsSequence(d) /\ Len(d) \in Nat
    BY <1>5, StackLength DEF Shows
  <2>2. \A k \in 1 .. Len(d) : at + k \in 1 .. g
    <3>1. g \in Nat
      BY DEF g
    <3> QED BY <1>5, <2>1, <3>1
  <2>3. \A k \in 1 .. Len(d) : f[at + k] = d[k]
    BY <1>3, <1>5, <2>2 DEF Shows
  <2> QED BY <1>4, <1>5, <2>1, <2>3 DEF Shows
<1> QED BY <1>4, <1>5 DEF f, g

-----------------------------------------------------------------------------
(* What the operations of cEthernetPacket promise, for any number of tags, *)
(* any headers and payloads: a new packet is laid out, and each operation  *)
(* changes its own part of the frame and leaves the others as they are,    *)
(* wherever they move.  A VLAN tag may come before or after the payload    *)
(* (compileARP), but it has to come before the LLC header: addVlanTag      *)
(* leaves out the length of that one when it moves the rest.               *)
THEOREM OperationsKeepLayout ==
  ASSUME NEW e, NEW dst, NEW src, NEW tags, NEW type, NEW head, NEW n,
         LaidOut(e, dst, src, tags, type, head, n), NEW label, NEW tag, NEW len \in Nat
  PROVE  /\ \A m : LaidOut(NewPacket(m), <<"zero", 0>>, <<"zero", 0>>, <<>>, <<"zero", 0>>, <<>>, 0)
         /\ LaidOut(setDestMac(e), <<"dmac", 0>>, src, tags, type, head, n)
         /\ LaidOut(setSrcMac(e), dst, <<"smac", 0>>, tags, type, head, n)
         /\ LaidOut(setTypeLength(e, label), dst, src, tags, label, head, n)
         /\ LaidOut(setPayload(e, len), dst, src, tags, type, head, len)
         /\ LaidOut(appendPayload(e, len), dst, src, tags, type, head, n + len)
         /\ LaidOut(setLength(e), dst, src, tags, <<"length", n + Len(head)>>, head, n)
         /\ head = <<>> =>
              /\ LaidOut(addVlanTag(e, tag), dst, src, Append(tags, tag), type, head, n)
              /\ LaidOut(addLlcHeader(e, len), dst, src, tags, <<"length", n + len>>,
                         Bytes(<<"llc", 0>>, len), n)
              /\ LaidOut(addSnapHeader(e), dst, src, tags, <<"length", n + 8>>, SnapBytes, n)
<1>1. LaidOut(setDestMac(e), <<"dmac", 0>>, src, tags, type, head, n)
  BY DestMacLaid
<1>2. LaidOut(setSrcMac(e), dst, <<"smac", 0>>, tags, type, head, n)
  BY SrcMacLaid
<1>3. \A t : LaidOut(setTypeLength(e, t), dst, src, tags, t, head, n)
  BY TypeLaid
<1>4. LaidOut(setPayload(e, len), dst, src, tags, type, head, len)
  BY PayloadLaid
<1>5. LaidOut(appendPayload(e, len), dst, src, tags, type, head, n + len)
  BY AppendedLaid
<1>6. setLength(e) = setTypeLength(e, <<"length", n + Len(head)>>)
  BY DEF LaidOut, setLength
<1>7. ASSUME head = <<>>
      PROVE  /\ LaidOut(addVlanTag(e, tag), dst, src, Append(tags, tag), type, head, n)
             /\ LaidOut(addLlcHeader(e, len), dst, src, tags, <<"length", n + len>>,
                        Bytes(<<"llc", 0>>, len), n)
             /\ LaidOut(addSnapHeader(e), dst, src, tags, <<"length", n + 8>>, SnapBytes, n)
  <2>1. LaidOut(e, dst, src, tags, type, <<>>, n)
    BY <1>7
  <2>2. LaidOut(addVlanTag(e, tag), dst, src, Append(tags, tag), type, <<>>, n)
    BY <2>1, TagLaid
  <2> QED BY <1>7, <2>1, <2>2, LlcLaid, SnapLaid
<1> QED BY <1>1, <1>2, <1>3, <1>4, <1>5, <1>6, <1>7, NewLaid

(* The frame that get() and getLength() show to the network has the parts  *)
(* in the order of the standard, one behind the other, and ends with the   *)
(* payload.                                                                *)
THEOREM FrameOfLayout ==
  ASSUME NEW e, NEW dst, NEW src, NEW tags, NEW type, NEW head, NEW n,
         LaidOut(e, dst, src, tags, type, head, n)
  PROVE  LET f == Frame(e)
             t == 2 * MacSize + VlanSize * Len(tags)
         IN  /\ Len(f) = t + 2 + Len(head) + n
             /\ Shows(f, 0, Bytes(dst, MacSize)) /\ Shows(f, MacSize, Bytes(src, MacSize))
             /\ \A i \in 1 .. Len(tags) :
                  Shows(f, 2 * MacSize + VlanSize * (i - 1), Bytes(<<"vlan", tags[i]>>, VlanSize))
             /\ Shows(f, t, Bytes(type, 2)) /\ Shows(f, t + 2, head)
             /\ Shows(f, t + 2 + Len(head), Bytes(<<"payload", 0>>, n))
<1> DEFINE f == Frame(e)
<1>1. /\ Len(tags) \in Nat /\ Len(head) \in Nat /\ IsSequence(e.buf) /\ Len(e.buf) \in Nat
      /\ e.type \in Nat /\ e.type = 12 + 4 * Len(tags)
      /\ e.payload \in Nat /\ e.payload = e.type + 2 + Len(head)
      /\ n \in Nat /\ e.payload + n <= Len(e.buf)
  BY Places
<1>2. /\ Shows(e.buf, 0, Bytes(dst, 6)) /\ Shows(e.buf, 6, Bytes(src, 6))
      /\ \A i \in 1 .. Len(tags) :
           Shows(e.buf, 12 + 4 * (i - 1), Bytes(<<"vlan", tags[i]>>, 4))
      /\ Shows(e.buf, e.type, Bytes(type, 2)) /\ Shows(e.buf, e.type + 2, head)
      /\ Shows(e.buf, e.payload, Bytes(<<"payload", 0>>, n))
  BY Parts
<1>3. \A l : /\ Len(Bytes(l, 6)) = 6 /\ Len(Bytes(l, 4)) = 4 /\ Len(Bytes(l, 2)) = 2
            /\ \A k \in Nat : Len(Bytes(l, k)) = k /\ IsSequence(Bytes(l, k))
  BY Lengths
<1>4. getLength(e) = e.payload + n
  BY DEF getLength, LaidOut
<1>5. getLength(e) \in Nat /\ getLength(e) <= Len(e.buf)
  BY <1>1, <1>4
<1>6. /\ Len(f) = e.payload + n
      /\ \A at, d : Shows(e.buf, at, d) /\ at + Len(d) <= e.payload + n => Shows(f, at, d)
  BY <1>1, <1>4, <1>5, FrameShows
<1> HIDE DEF f
<1>7. /\ Shows(f, 0, Bytes(dst, 6)) /\ Shows(f, 6, Bytes(src, 6))
      /\ Shows(f, e.type, Bytes(type, 2))
  <2>1. /\ 0 + Len(Bytes(dst, 6)) <= e.payload + n /\ 6 + Len(Bytes(src, 6)) <= e.payload + n
        /\ e.type + Len(Bytes(type, 2)) <= e.payload + n
    BY <1>1, <1>3
  <2> QED BY <1>2, <1>6, <2>1
<1>8. Shows(f, e.type + 2, head) /\ Shows(f, e.payload, Bytes(<<"payload", 0>>, n))
  <2>1. /\ (e.type + 2) + Len(head) <= e.payload + n
        /\ e.payload + Len(Bytes(<<"payload", 0>>, n)) <= e.payload + n
    BY <1>1, <1>3
  <2> QED BY <1>2, <1>6, <2>1
<1>9. ASSUME NEW i \in 1 .. Len(tags)
      PROVE  Shows(f, 12 + 4 * (i - 1), Bytes(<<"vlan", tags[i]>>, 4))
  <2>1. (12 + 4 * (i - 1)) + Len(Bytes(<<"vlan", tags[i]>>, 4)) <= e.payload + n
    BY <1>1, <1>3
  <2> QED BY <1>2, <1>6, <2>1
<1> QED BY <1>1, <1>6, <1>7, <1>8, <1>9 DEF f, MacSize, VlanSize
=============================================================================
