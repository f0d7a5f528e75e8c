--------------------------- MODULE ParameterList ---------------------------
(***************************************************************************)
(* cParameterList and cParameter: the parameters of one instruction, the   *)
(* search for a parameter and the conversion of its value.                 *)
(*                                                                         *)
(* A parameter is a record [name, kind, len, inner].  The kind says how    *)
(* the value is written; len is the number of bytes of a byte stream, or   *)
(* the value of an integer; inner holds the instruction of an embedded     *)
(* packet.                                                                 *)
(*                                                                         *)
(* The compile functions of InstructionParser only differ in what they     *)
(* look up and what they do with it.  Such a function is an operator from  *)
(* the parameter list to the sequence of steps that it takes.              *)
(***************************************************************************)
EXTENDS Integers, Sequences, SequencesExt

(* How a value can be written.  A parameter without value (a "flag") gets  *)
(* the value 01; "uuid" is a string with the text of a UUID.               *)
Kinds == {"int", "flag", "float", "mac", "ip4", "mcast4", "ip6", "mcast6",
          "hex", "str", "uuid", "rand", "emb"}

Parameter(name, kind, len) == [name |-> name, kind |-> kind, len |-> len, inner |-> <<>>]

(* findParameter (startAfter, stopAt, parameter): the first parameter of   *)
(* that name after position "after" and before the next one called "stop". *)
(* 0 if there is none.                                                     *)
NeverStops(par, after, stop, name) ==
  LET hits == {i \in after + 1 .. Len(par) : par[i].name = name}
  IN  IF hits = {} THEN 0 ELSE Min(hits)
Find(par, after, stop, name) ==
  LET hits == {i \in after + 1 .. Len(par) :
                 /\ par[i].name = name
                 /\ \A j \in after + 1 .. i : par[j].name # stop}
  IN  IF hits = {} THEN 0 ELSE Min(hits)

NoStop == ""
Has(par, name)   == Find(par, 0, NoStop, name) # 0
Get(par, name)   == par[Find(par, 0, NoStop, name)]

(* while ((p = findParameter (p, nullptr, name, true)) != nullptr): the    *)
(* positions of all parameters of that name, from a start on.              *)
Occurrences(par, after, name) ==
  LET at == {i \in after + 1 .. Len(par) : par[i].name = name}
  IN  [k \in 1 .. Cardinality(at) |-> CHOOSE i \in at : Cardinality({j \in at : j < i}) = k - 1]

-----------------------------------------------------------------------------
(* Conversions.  rand ("*") has a value in the range that is asked for.    *)
IsRandom(p) == p.kind = "rand"

asInt(p)    == p.kind \in {"int", "flag", "rand"}
asDouble(p) == p.kind \in {"int", "flag", "float"}
asMac(p)    == p.kind \in {"mac", "rand"}
asIPv4(p)   == p.kind \in {"ip4", "mcast4", "rand"}
asIPv6(p)   == p.kind \in {"ip6", "mcast6", "rand"}

(* The length of a byte stream: a random one has 32 bytes, "01" has one.   *)
StreamLen(p) ==
  CASE IsRandom(p)      -> 32
    [] p.kind = "flag"  -> 1
    [] p.kind = "uuid"  -> 36
    [] OTHER            -> p.len

asStream(p, maxLen) ==
  p.kind \in {"hex", "str", "uuid", "flag", "rand"} /\ StreamLen(p) <= maxLen
asEmbedded(p) == p.kind = "emb" \/ asStream(p, 65535)
asUUID(p)     == p.kind = "uuid"

IsMulticast(p) == p.kind \in {"mcast4", "mcast6"}

Converts(p, as, max) ==
  CASE as = "int"      -> asInt(p)
    [] as = "double"   -> asDouble(p)
    [] as = "mac"      -> asMac(p)
    [] as = "ip4"      -> asIPv4(p)
    [] as = "ip6"      -> asIPv6(p)
    [] as = "stream"   -> asStream(p, max)
    [] as = "exactly"  -> asStream(p, max) /\ StreamLen(p) = max
    [] as = "address"  -> asIPv4(p) \/ asIPv6(p) \/ asMac(p)
    [] as = "id"       -> asIPv4(p) \/ asIPv6(p) \/ asMac(p) \/ asStream(p, max)
    [] as \in {"embedded", "embeddedIP"} -> asEmbedded(p)
    [] as = "uuid"     -> asUUID(p)
    [] as = "none"     -> TRUE

-----------------------------------------------------------------------------
(* A step of a compile function: "find" looks up the parameter at position *)
(* at (0: there is none, which is an error if it must be there) and        *)
(* converts its value; "payload" does so for the payload; the other        *)
(* operations are calls of the packet, with numbers as arguments.          *)
Step(op, at, must, as, n) == [op |-> op, at |-> at, must |-> must, as |-> as, n |-> n]

Unlimited == 65535

Lookups(par, names, must, as, max) ==
  [k \in 1 .. Len(names) |-> Step("find", Find(par, 0, NoStop, names[k]), must, as, max)]
Need(par, names, as)        == Lookups(par, names, TRUE, as, Unlimited)
Opt(par, names, as)         == Lookups(par, names, FALSE, as, Unlimited)
NeedStream(par, name, max)  == Lookups(par, <<name>>, TRUE, "stream", max)

(* The attributes of the parameter at i: they follow it, up to the next    *)
(* parameter with the same name as the one at i.                           *)
LookupsOf(par, i, names, must, as, max) ==
  [k \in 1 .. Len(names) |->
     Step("find", Find(par, i, par[i].name, names[k]), must, as, max)]
NeedOf(par, i, names, as) == LookupsOf(par, i, names, TRUE, as, Unlimited)
OptOf(par, i, names, as)  == LookupsOf(par, i, names, FALSE, as, Unlimited)

(* The parameter at i itself.                                              *)
At(i, as) == <<Step("find", i, TRUE, as, Unlimited)>>

Do(op, at, n) == <<Step(op, at, FALSE, "none", n)>>

(* Steps for every occurrence of a parameter, one after the other.         *)
Each(par, after, name, Body(_)) ==
  LET at == Occurrences(par, after, name)
  IN  FlattenSeq([k \in 1 .. Len(at) |-> Body(at[k])])

(* checkForUnusedParameters *)
AllUsed(par, used) == \A i \in 1 .. Len(par) : used[i] > 0
=============================================================================
