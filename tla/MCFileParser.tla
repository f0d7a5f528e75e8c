---------------------------- MODULE MCFileParser ----------------------------
(***************************************************************************)
(* Scripts for TLC: all parameter lists over the characters that matter,   *)
(* all beginnings of an instruction, and all files of up to five pieces.   *)
(***************************************************************************)
EXTENDS FileParser

UpTo(n, S) == UNION {[1 .. k -> S] : k \in 0 .. n}

ListChars == {"a", "1", "=", ",", ")", "q", "<", ">", " "}
ParameterLists == {<<"a", "(">> \o s \o <<")", ";">> : s \in UpTo(4, ListChars)}
NestedLists ==
  {<<"a", "(", "a", "=">> \o s \o <<")", ";">> :
     s \in UpTo(4, {"a", ",", ")", "q", "<", ">", "="})}

HeadChars == {"a", "1", "+", ":", " ", "(", "-"}
Heads == {s \o <<"(", ")", " ", ";">> : s \in UpTo(4, HeadChars)}

FilePieces ==
  {<<"a", "(", ")">>, <<"a">>, <<";">>, <<"#">>, <<"nl">>, <<"{">>, <<"}">>, <<" ">>}
Joined(s) == LET J[k \in 0 .. Len(s)] == IF k = 0 THEN <<>> ELSE J[k - 1] \o s[k] IN J[Len(s)]
Files == {Joined(s) : s \in UpTo(5, FilePieces)}

(* Names with the characters of the rules in parseParameters' comment.     *)
MoreParameters ==
  {<<>>, <<",", "a", "=", "1">>, <<" ", ",", " ", "a", " ", "=", " ", "1", " ">>}
RuleNames ==
  {<<"a", "(">> \o s \o <<"=", "1">> \o more \o <<")", ";">> :
     s \in UpTo(3, {"a", "1", "_", " "}), more \in MoreParameters}

AllScripts == ParameterLists \union NestedLists \union Heads \union Files \union RuleNames
=============================================================================
