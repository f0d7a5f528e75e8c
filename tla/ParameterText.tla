--------------------------- MODULE ParameterText ---------------------------
(***************************************************************************)
(* The text of an instruction: cParseHelper's search for tokens, and the   *)
(* functions that split an instruction into time stamp, protocol keyword   *)
(* and parameters.                                                         *)
(*                                                                         *)
(* A text is a sequence of characters; "q" is the quotation mark, "nl" the *)
(* newline.  Positions count from 1; behind the last character is the end  *)
(* of the string, and 0 is the null pointer.                               *)
(***************************************************************************)
EXTENDS Integers, Sequences, FiniteSets, FiniteSetsExt

CONSTANTS Letters, Digits

Comma      == ","
Blanks     == {" ", "nl"}
Marks      == Blanks \union {Comma, "=", "(", ")", "q", "<", ">", ":", "+", "end"}
KeyCharsWithoutDigits == Letters \union {"-"}
KeyChars   == Letters \union Digits \union {"-"}
ValueStart == Letters \union Digits \union {"q", "*", "<"}
ValueChars == Letters \union Digits \union {".", ":", "*", "[", "-", "]"}

(* isalpha and isdigit.                                                    *)
ASSUME TextAssumption ==
  Letters \intersect Digits = {} /\ (Letters \union Digits) \intersect Marks = {}

CharAt(t, p) == IF p <= Len(t) THEN t[p] ELSE "end"

-----------------------------------------------------------------------------
nextTokenEnd(t, p, accept) == Min({q \in p .. Len(t) + 1 : CharAt(t, q) \notin accept})
skipWhitespaces(t, p)      == nextTokenEnd(t, p, Blanks)
nextTokenStart(t, p, accept) ==
  LET q == skipWhitespaces(t, p) IN IF CharAt(t, q) \in accept THEN q ELSE 0
nextKeyStart(t, p)   == nextTokenStart(t, p, Letters)
nextKeyEnd(t, p)     == nextTokenEnd(t, p, KeyChars)
nextValueStart(t, p) == nextTokenStart(t, p, ValueStart)
nextValueEnd(t, p)   == nextTokenEnd(t, p, ValueChars)
nextCharIgnoreWhitspaces(t, p, c) == nextTokenStart(t, p, {c})

(* strchr: the first c from p on.                                          *)
LastChar(t, p, c) ==
  LET hits == {q \in p .. Len(t) : t[q] = c} IN IF hits = {} THEN 0 ELSE Max(hits)
strchr(t, p, c) ==
  LET hits == {q \in p .. Len(t) : t[q] = c} IN IF hits = {} THEN 0 ELSE Min(hits)

-----------------------------------------------------------------------------
(* Where the function stops, with what it found; 0 for a syntax error.     *)
parseTimestamp(t) ==
  LET p      == skipWhitespaces(t, 1)
      c      == CharAt(t, p)
      digits == IF c = "+" THEN p + 1 ELSE p
      end    == nextTokenEnd(t, digits, Digits)
      colon  == nextCharIgnoreWhitspaces(t, end, ":")
  IN  CASE c \notin Digits \union {"+"} -> [p |-> p, stamp |-> "none"]
        [] c \in Digits \union {"+"} /\ (end = digits \/ colon = 0) -> [p |-> 0, stamp |-> "none"]
        [] OTHER -> [p |-> colon + 1, stamp |-> IF c = "+" THEN "relative" ELSE "absolute"]

(* Up to the opening parenthesis.                                          *)
parseProtocollIdentifier(t, p) ==
  LET key  == nextKeyStart(t, p)
      end  == nextKeyEnd(t, key)
      open == nextCharIgnoreWhitspaces(t, end, "(")
  IN  IF key = 0 \/ open = 0 THEN [p |-> 0, keyword |-> <<>>]
      ELSE [p |-> open, keyword |-> SubSeq(t, key, end - 1)]

(* The value from p on: in quotation marks or angle brackets up to the     *)
(* next one of these, otherwise a token.                                   *)
ValueEnd(t, p) ==
  LET close == strchr(t, p + 1, IF t[p] = "q" THEN "q" ELSE ">")
  IN  CASE t[p] \notin {"q", "<"}              -> nextValueEnd(t, p)
        [] t[p] \in {"q", "<"} /\ close = 0    -> 0
        [] t[p] \in {"q", "<"} /\ close # 0    -> close + 1

(* One turn of the loop in parseParameters: a key and, behind '=', its     *)
(* value.  A parameter without value gets the value 01.                    *)
BOOLVALUE == <<"0", "1">>
parseParameter(t, p) ==
  LET failed  == [p |-> 0, par |-> [parameter |-> <<>>, value |-> <<>>]]
      key     == nextKeyStart(t, p)
      keyEnd  == nextKeyEnd(t, key)
      equals  == skipWhitespaces(t, keyEnd)
      value   == nextValueStart(t, equals + 1)
      noValue == CharAt(t, equals) \in {Comma, ")"}
      end     == IF noValue THEN equals ELSE ValueEnd(t, value)
      next    == skipWhitespaces(t, end)
      name    == SubSeq(t, key, keyEnd - 1)
  IN  IF \/ key = 0
         \/ ~noValue /\ (CharAt(t, equals) # "=" \/ value = 0)
      THEN failed
      ELSE IF end = 0 \/ CharAt(t, next) \notin {Comma, ")"} THEN failed
      ELSE [p   |-> IF t[next] = Comma THEN next + 1 ELSE next,
            par |-> [parameter |-> name,
                     value |-> IF noValue THEN BOOLVALUE ELSE SubSeq(t, value, end - 1)]]

(* The end of the list; only blanks may follow.                            *)
parseEnd(t, p) == CharAt(t, p) = ")" /\ CharAt(t, skipWhitespaces(t, p + 1)) = "end"

-----------------------------------------------------------------------------
(* Reference: the grammar that the code implies.  Which characters a name  *)
(* or a value has is taken from the tables above; the rules in the comment *)
(* of parseParameters differ from them.  They allow '_' in names and not   *)
(* '-', let a value end at the first blank, and know neither strings nor   *)
(* embedded packets, parameters without value or a comma behind the last   *)
(* parameter, which the code accepts unless a blank follows it.            *)
Before(s, k) == SubSeq(s, 1, k - 1)
Behind(s, k) == SubSeq(s, k + 1, Len(s))
Trim(s) ==
  LET solid == {k \in 1 .. Len(s) : s[k] \notin Blanks}
  IN  IF solid = {} THEN <<>> ELSE SubSeq(s, Min(solid), Max(solid))
Consists(s, chars) == \A k \in 1 .. Len(s) : s[k] \in chars

IsKey(s)   == s # <<>> /\ s[1] \in Letters /\ Consists(s, KeyChars)
IsToken(s) == s # <<>> /\ s[1] \in ValueStart /\ Consists(s, ValueChars)
IsEnclosed(s, open, close) ==
  /\ Len(s) >= 2 /\ s[1] = open /\ s[Len(s)] = close
  /\ \A k \in 2 .. Len(s) - 1 : s[k] # close
IsValue(s) == IsToken(s) \/ IsEnclosed(s, "q", "q") \/ IsEnclosed(s, "<", ">")

(* The parameters that a piece between two commas can stand for.           *)
Item(s) ==
  (IF IsKey(Trim(s)) THEN {[parameter |-> Trim(s), value |-> BOOLVALUE]} ELSE {})
  \union {[parameter |-> Trim(Before(s, e)), value |-> Trim(Behind(s, e))] :
            e \in {k \in 1 .. Len(s) : /\ s[k] = "="
                                       /\ IsKey(Trim(Before(s, k)))
                                       /\ IsValue(Trim(Behind(s, k)))}}

(* The text between two parentheses is cut at n - 1 of its commas; the     *)
(* last piece may be empty.  The lists that can be read in this way:       *)
Cuts(t, open, close, n) ==
  {cut \in [0 .. n -> {open, close} \union {k \in open .. close : t[k] = Comma}] :
     /\ cut[0] = open /\ cut[n] = close
     /\ \A j, k \in 0 .. n : j < k => cut[j] < cut[k]}
Piece(t, cut, k) == SubSeq(t, cut[k - 1] + 1, cut[k] - 1)
Given(t, cut, n) == IF Piece(t, cut, n) = <<>> THEN n - 1 ELSE n
ItemLists(t, cut, m) ==
  {list \in [1 .. m -> UNION {Item(Piece(t, cut, k)) : k \in 1 .. m}] :
     \A k \in 1 .. m : list[k] \in Item(Piece(t, cut, k))}
Lists(t, open, close) ==
  UNION {UNION {ItemLists(t, cut, Given(t, cut, n)) : cut \in Cuts(t, open, close, n)} :
           n \in 1 .. Cardinality({k \in open .. close : t[k] = Comma}) + 1}

IsStamp(s) == LET d == IF s # <<>> /\ s[1] = "+" THEN Behind(s, 1) ELSE s
              IN  d # <<>> /\ Consists(d, Digits)
Heading(s) ==
  IF IsKey(Trim(s)) THEN {"none"}
  ELSE {IF Trim(s)[1] = "+" THEN "relative" ELSE "absolute" :
          c \in {k \in 1 .. Len(s) : /\ s[k] = ":"
                                     /\ IsStamp(Trim(Before(s, k)))
                                     /\ IsKey(Trim(Behind(s, k)))}}

(* All readings of an instruction: up to the first parenthesis, and from   *)
(* there to the last character that is no blank.                           *)
Opens(t)    == {k \in 1 .. Len(t) : t[k] = "("}
SolidIn(t)  == {k \in 1 .. Len(t) : t[k] \notin Blanks}
Readings(t) ==
  LET open  == Min(Opens(t))
      close == Max(SolidIn(t))
  IN  IF Opens(t) = {} \/ t[close] # ")" THEN {}
      ELSE {[stamp |-> s, list |-> l] :
              s \in Heading(Before(t, open)), l \in Lists(t, open, close)}
=============================================================================
