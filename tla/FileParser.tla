----------------------------- MODULE FileParser -----------------------------
(***************************************************************************)
(* cFileParser: a script is read character by character; comments are left *)
(* out, ';' ends an instruction, braces enclose control blocks.  Each      *)
(* instruction is split into its parts (ParameterText), one parameter per  *)
(* step; whether it compiles is left open here (see InstructionParser).    *)
(***************************************************************************)
EXTENDS ParameterText

CONSTANT Scripts      \* the contents of files, which have no null character

Characters == UNION {{f[k] : k \in DOMAIN f} : f \in Scripts}
ASSUME ScriptAssumption == Scripts \subseteq Seq(Characters) /\ "end" \notin Characters

VARIABLES
  file,               \* the script
  pos,                \* the characters read
  instructionBuffer,  \* up to offset
  comment, lineNbr, openControlBlocks,
  state,              \* reading; timestamp, keyword, parameters, compiling
                      \* (in cInstructionParser::parse); done, or an exception:
                      \* syntax, refused, blocks
  scan,               \* position, time stamp and parameters of the instruction
  delivered           \* the instructions that were compiled

vars == <<file, pos, instructionBuffer, comment, lineNbr, openControlBlocks, state, scan,
          delivered>>

(* The characters that end a part of the script.                           *)
Semicolon  == ";"
BraceOpen  == "{"
BraceClose == "}"
Separators == {Semicolon, BraceOpen, BraceClose}

NoScan == [p |-> 1, stamp |-> "none", list |-> <<>>]

(* The constructor and open.                                               *)
Init ==
  /\ file \in Scripts
  /\ pos = 0
  /\ instructionBuffer = <<>>
  /\ comment = FALSE
  /\ lineNbr = 1
  /\ openControlBlocks = 0
  /\ state = "reading"
  /\ scan = NoScan
  /\ delivered = <<>>

-----------------------------------------------------------------------------
(* getc: c is the next character.                                          *)
Getc(c) ==
  /\ state = "reading" /\ pos < Len(file)
  /\ c = file[pos + 1]
  /\ pos' = pos + 1
  /\ UNCHANGED <<file, delivered>>

(* What a character does to the comment and to the line number, and        *)
(* whether it is read as part of a comment.                                *)
NeverEnding(c)  == c = "#" \/ comment
CommentAfter(c) == c = "#" \/ (comment /\ c # "nl")
LineAfter(c)    == IF c = "nl" THEN lineNbr + 1 ELSE lineNbr
Read(c) == Getc(c) /\ comment' = CommentAfter(c) /\ lineNbr' = LineAfter(c)

Skip(c) ==
  /\ Read(c)
  /\ CommentAfter(c)
  /\ UNCHANGED <<instructionBuffer, openControlBlocks, state, scan>>

Store(c) ==
  /\ Read(c)
  /\ ~CommentAfter(c) /\ c \notin Separators
  /\ instructionBuffer' = Append(instructionBuffer, c)
  /\ UNCHANGED <<openControlBlocks, state, scan>>

Instruction(c) ==
  /\ Read(c)
  /\ ~CommentAfter(c) /\ c = Semicolon
  /\ state' = "timestamp"
  /\ UNCHANGED <<instructionBuffer, openControlBlocks, scan>>

(* The text in front of the brace is dropped.                              *)
BlockStart(c) ==
  /\ Read(c)
  /\ ~CommentAfter(c) /\ c = BraceOpen
  /\ openControlBlocks' = openControlBlocks + 1
  /\ instructionBuffer' = <<>>
  /\ UNCHANGED <<state, scan>>

OnlyBlanks == Consists(instructionBuffer, Blanks)
BufferKept(c) ==
  /\ Read(c)
  /\ ~CommentAfter(c) /\ c = BraceClose
  /\ openControlBlocks' = openControlBlocks - 1
  /\ state' = IF ~OnlyBlanks \/ openControlBlocks' < 0 THEN "blocks" ELSE "reading"
  /\ instructionBuffer' = Append(instructionBuffer, c)
  /\ UNCHANGED scan
BlockEnd(c) ==
  /\ Read(c)
  /\ ~CommentAfter(c) /\ c = BraceClose
  /\ openControlBlocks' = openControlBlocks - 1
  /\ state' = IF ~OnlyBlanks \/ openControlBlocks' < 0 THEN "blocks" ELSE "reading"
  /\ instructionBuffer' = <<>>
  /\ UNCHANGED scan

(* The end of the file; what is in the buffer is dropped.                  *)
EndOfFile ==
  /\ state = "reading" /\ pos = Len(file)
  /\ state' = IF openControlBlocks > 0 THEN "blocks" ELSE "done"
  /\ UNCHANGED <<file, pos, instructionBuffer, comment, lineNbr, openControlBlocks, scan,
                 delivered>>

-----------------------------------------------------------------------------
(* cInstructionParser::parse, as far as the text is concerned.             *)
fileVars == <<file, pos, comment, lineNbr, openControlBlocks>>

Timestamp ==
  /\ state = "timestamp"
  /\ LET found == parseTimestamp(instructionBuffer)
     IN  /\ state' = IF found.p = 0 THEN "syntax" ELSE "keyword"
         /\ scan' = [NoScan EXCEPT !.p = found.p, !.stamp = found.stamp]
  /\ UNCHANGED <<fileVars, instructionBuffer, delivered>>

Keyword ==
  /\ state = "keyword"
  /\ LET found == parseProtocollIdentifier(instructionBuffer, scan.p)
     IN  /\ state' = IF found.p = 0 THEN "syntax" ELSE "parameters"
         /\ scan' = [scan EXCEPT !.p = found.p + 1]
  /\ UNCHANGED <<fileVars, instructionBuffer, delivered>>

NextParameter ==
  /\ state = "parameters"
  /\ CharAt(instructionBuffer, scan.p) \notin {"end", ")"}
  /\ LET found == parseParameter(instructionBuffer, scan.p)
     IN  IF found.p = 0 THEN state' = "syntax" /\ UNCHANGED scan
         ELSE /\ scan' = [scan EXCEPT !.p = found.p, !.list = Append(@, found.par)]
              /\ UNCHANGED state
  /\ UNCHANGED <<fileVars, instructionBuffer, delivered>>

EndOfParameters ==
  /\ state = "parameters"
  /\ CharAt(instructionBuffer, scan.p) \in {"end", ")"}
  /\ state' = IF parseEnd(instructionBuffer, scan.p) THEN "compiling" ELSE "syntax"
  /\ UNCHANGED <<fileVars, instructionBuffer, scan, delivered>>

(* The packet is made, and the next call of parse starts with an empty     *)
(* buffer; or the instruction is refused and the program ends.             *)
Compiled ==
  /\ state = "compiling"
  /\ delivered' = Append(delivered, [text |-> instructionBuffer, stamp |-> scan.stamp,
                                     list |-> scan.list])
  /\ instructionBuffer' = <<>>
  /\ scan' = NoScan
  /\ state' = "reading"
  /\ UNCHANGED fileVars

NotCompiled ==
  /\ state = "compiling"
  /\ state' = "refused"
  /\ UNCHANGED <<fileVars, instructionBuffer, scan, delivered>>

Next ==
  \/ \E k \in {pos + 1} \intersect DOMAIN file :
       \/ Skip(file[k]) \/ Store(file[k]) \/ Instruction(file[k])
       \/ BlockStart(file[k]) \/ BlockEnd(file[k])
  \/ EndOfFile
  \/ Timestamp \/ Keyword \/ NextParameter \/ EndOfParameters
  \/ Compiled \/ NotCompiled

Spec == Init /\ [][Next]_vars

-----------------------------------------------------------------------------
(* Reference: the text without comments, cut at ';' and at braces.  A      *)
(* character is part of a comment if a '#' precedes it in its line.        *)
Commented(t, k) == \E h \in 1 .. k : t[h] = "#" /\ \A j \in h .. k : t[j] # "nl"
Nth(S, n) == CHOOSE k \in S : Cardinality({j \in S : j < k}) = n - 1
Kept(t) == {k \in 1 .. Len(t) : ~Commented(t, k)}
Plain(t) == [n \in 1 .. Cardinality(Kept(t)) |-> t[Nth(Kept(t), n)]]
Ends(t) == {k \in 1 .. Len(t) : t[k] = Semicolon}
Text(t, k) ==
  LET from == {j \in 1 .. k - 1 : t[j] \in Separators}
  IN  SubSeq(t, Max(from \union {0}) + 1, k - 1)

(* However comments, line breaks and braces fall, the instruction that is  *)
(* parsed is the text of the script without comments since the last ';' or *)
(* brace, and the instructions compiled are all those before it, in order. *)
(* The line number in an error message is that of the character read last. *)
(* The script is rejected for its blocks only if a '}' has no '{', follows *)
(* an instruction without ';', or is missing, and else accepted.           *)
Count(t, c) == Cardinality({k \in 1 .. Len(t) : t[k] = c})
BlocksWrong(t) ==
  \/ /\ t # <<>> /\ t[Len(t)] = BraceClose
     /\ Count(t, BraceClose) > Count(t, BraceOpen) \/ ~Consists(Text(t, Len(t)), Blanks)
  \/ pos = Len(file) /\ Count(t, BraceOpen) > Count(t, BraceClose)
ScriptRead ==
  LET t == Plain(SubSeq(file, 1, pos))
      between == state \in {"reading", "done", "blocks"}
  IN  /\ Len(delivered) + (IF between THEN 0 ELSE 1) = Cardinality(Ends(t))
      /\ \A n \in 1 .. Len(delivered) : delivered[n].text = Text(t, Nth(Ends(t), n))
      /\ ~between => instructionBuffer = Text(t, Len(t))
      /\ lineNbr = 1 + Count(SubSeq(file, 1, pos), "nl")
      /\ state = "blocks" => BlocksWrong(t)
      /\ state = "done"   => ~BlocksWrong(t)

(* parseParameters, which scans the text once from left to right, accepts  *)
(* the instructions of the grammar that its character tables imply         *)
(* (Readings) and no others, and reads each in the only possible way: time *)
(* stamp, keys and values.                                                 *)
GrammarFollowed ==
  /\ state = "compiling" =>
       Readings(instructionBuffer) = {[stamp |-> scan.stamp, list |-> scan.list]}
  /\ state = "syntax" => Readings(instructionBuffer) = {}

(* The rules in the comment of parseParameters: "letters, digits and _ are *)
(* allowed for parameter names"; parameters with plain values, separated   *)
(* by commas, with or without blanks.                                      *)
RuleName(s) == /\ s # <<>> /\ s[1] \in Letters
               /\ Consists(s, Letters \union Digits \union {"_"})
RuleParameter(s) ==
  \E e \in {k \in 1 .. Len(s) : s[k] = "="} :
    /\ RuleName(Trim(Before(s, e)))
    /\ Trim(Behind(s, e)) # <<>> /\ Consists(Trim(Behind(s, e)), Letters \union Digits)
RulesAllow(t) ==
  \E open, close \in 1 .. Len(t) :
    LET ends == {open, close} \union {k \in open .. close : t[k] = Comma}
    IN  /\ open < close /\ t[open] = "(" /\ t[close] = ")" /\ Consists(Behind(t, close), Blanks)
        /\ IsKey(Trim(Before(t, open)))
        /\ \A a, b \in ends : (a < b /\ \A c \in ends : c <= a \/ c >= b) =>
             RuleParameter(SubSeq(t, a + 1, b - 1))

(* Of the texts that the rules of that comment allow, the ones with a '_'  *)
(* in a name are syntax errors, since nextKeyEnd stops at it, and no       *)
(* others: the tables of cParseHelper refuse nothing else that is promised. *)
RulesFollowed ==
  state \in {"syntax", "compiling"} /\ RulesAllow(instructionBuffer) =>
    (state = "syntax" <=> \E k \in DOMAIN instructionBuffer : instructionBuffer[k] = "_")
=============================================================================
