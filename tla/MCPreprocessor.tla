--------------------------- MODULE MCPreprocessor ----------------------------
(***************************************************************************)
(* Projects of a few short files: every sequence of conditional directives  *)
(* of some lengths, conditions, macros of each kind used in each way, and   *)
(* headers that include each other, guarded and not.                        *)
(***************************************************************************)
EXTENDS Preprocessor, TLC

H == INSTANCE HostPreprocessor

AllNames == {"A", "B", "C", "F", "G", "x", "y", "defined"}

Numbers == ("0" :> 0) @@ ("1" :> 1) @@ ("2" :> 2) @@ ("3" :> 3)

L(d, t) == [d |-> d, t |-> t]

Included(quoted, t) == [d |-> "include", t |-> t, quoted |-> quoted]

Source(path, isUnit, lines) == [path |-> path, unit |-> isUnit, lines |-> lines]

Project(files) == [files |-> files, roots |-> <<<<"inc">>>>, definitions |-> << >>]

Single(lines) == Project(<<Source(<<"m">>, TRUE, lines)>>)

-----------------------------------------------------------------------------
(* Conditional directives with a line of text behind each, and literal      *)
(* conditions.                                                              *)
Directives == {L("if", <<"0">>), L("if", <<"1">>), L("elif", <<"0">>),
               L("elif", <<"1">>), L("else", << >>), L("endif", << >>)}

TextOf(i) == L("text", <<"line", ToString(i)>>)

Interleaved(ds) ==
  [i \in 1 .. 2 * Len(ds) |-> IF i % 2 = 1 THEN ds[(i + 1) \div 2] ELSE TextOf(i)]

Opening == {L("if", <<"0">>), L("if", <<"1">>)}

DirectiveLists ==
  UNION {[1 .. n -> Directives] : n \in 1 .. 3}
  \cup {<<a>> \o b \o <<L("endif", << >>)>> : a \in Opening, b \in [1 .. 4 -> Directives]}

GroupProjects == {Single(Interleaved(ds)) : ds \in DirectiveLists}

-----------------------------------------------------------------------------
(* Conditions the two agree on.  A is defined as one of these.              *)
Conditions ==
  {<<a, op, b>> : a \in {"A", "2"}, b \in {"0", "1", "B"},
                  op \in {"*", "/", "%", "+", "<<", ">>", "<", "<=", ">", ">=", "==",
                          "!=", "&", "^", "|", "&&", "||"}}
  \cup {<<"defined", "A">>, <<"defined", "(", "B", ")">>, <<"defined">>, << >>,
        <<"(", "!", "defined", "B", "||", "A", ">", "1", ")">>, <<"1", "+", "2", "*", "A">>,
        <<"(", "1", "+", "2", ")", "*", "A", "==", "3">>, <<"(", "1">>, <<"1", ")">>,
        <<"3", "-", "A", "-", "1">>, <<"1", "-", "1">>, <<"A", "(", "1", ")">>, <<"F">>,
        <<"3", "&", "1", "<<", "A">>, <<"-", "1", "==", "-", "1">>,
        <<"~", "0", "&", "A">>, <<"1", "||", "0", "&&", "0">>, <<"+", "A">>}

ConditionLines(def, c, d) ==
  <<L("define", <<"A">> \o def)>>
  \o (IF d = "if" THEN <<L("if", c)>> ELSE <<L("if", <<"0">>), L("elif", c)>>)
  \o <<L("text", <<"A">>), L("endif", << >>)>>

ConditionProjects ==
  {Single(ConditionLines(def, c, d)) :
     def \in {<<"1">>, <<"B">>, <<" ", "(", "1", "+", "1", ")">>}, c \in Conditions,
     d \in {"if", "elif"}}

-----------------------------------------------------------------------------
(* Object macros, with cycles.                                              *)
ObjectLines ==
  {L("define", <<n>> \o r) : n \in {"A", "B"},
     r \in {<<"B">>, <<"A", "+", "B">>, <<"\"", "A", "\"">>, << >>, <<"1">>}}
  \cup {L("undef", <<"A">>), L("undef", <<"C">>)}

ObjectProjects ==
  {Single(<<a, b, c, L("text", <<"A", "B", "A">>)>>) :
     a \in ObjectLines, b \in ObjectLines, c \in ObjectLines}

(* Macros with parameters.  The host scans what they yield once more, the   *)
(* self-hosted one does not: no cycles, and no such macro in a replacement  *)
(* or in its own argument.                                                  *)
FunctionLines ==
  {L("define", <<"F", "(", "x", ")">> \o r) :
     r \in {<<"x">>, <<"x", "+", "A">>, <<" ", "(", "x", ")">>, <<"\"", "x", "\"">>}}
  \cup {L("define", <<"F", "(", "x", ",", "y", ")", "y", "x">>),
        L("define", <<"F", "(", ")", "A">>), L("define", <<"F", "(", "x">>),
        L("define", <<"F", "(", "x", "y", ")">>), L("define", <<"F">>),
        L("define", <<"F", "(", "x", ",", "y", ",", "C", ")">>)}

Uses ==
  {<<"F", "(">> \o a \o <<")", "A">> :
     a \in {<<"A">>, << >>, <<"1", ",", "A">>, <<"(", "1", ",", "2", ")">>,
            <<"\"", "A", "\"">>, <<"G", "(", "A", ")">>, <<"1", ",">>,
            <<"1", ",", "2", ",", "3">>}}
  \cup {<<"F">>, <<"F", "A">>, <<"F", "(", "1">>, <<"\"", "F", "(", "1", ")", "\"">>,
        <<"(", "F", "(", "1", ")", ")">>, <<"A", "(", "1", ")">>}

FunctionProjects ==
  {Single(<<L("define", <<"A">> \o a), f, L("define", <<"G", "(", "y", ")", "[", "y", "]">>),
            L("text", t)>>) :
     a \in {<<"1">>, <<"B">>, <<"F">>}, f \in FunctionLines, t \in Uses}

-----------------------------------------------------------------------------
(* Headers.  h is beside the unit or in the include root, or in both.       *)
Guarded(lines) ==
  <<L("ifndef", <<"G">>), L("define", <<"G">>)>> \o lines \o <<L("endif", << >>)>>

Once(lines) == <<L("pragma", <<"once">>)>> \o lines

Headers ==
  LET body == {<<L("text", <<"x">>)>>, <<L("define", <<"A">>), Included(TRUE, <<"k">>)>>,
               <<Included(FALSE, <<"h">>)>>, <<L("if", <<"1">>)>>}
  IN  body \cup {Guarded(b) : b \in body} \cup {Once(b) : b \in body}

SecondHeaders ==
  {<<L("text", <<"y">>)>>, <<Included(TRUE, <<"h">>), L("text", <<"A">>)>>,
   Once(<<L("undef", <<"A">>), Included(FALSE, <<"h">>)>>)}

Users ==
  {<<Included(q, <<"h">>), L("ifdef", <<"A">>), L("text", <<"B">>), L("endif", << >>),
     Included(TRUE, n)>> : q \in BOOLEAN, n \in {<<"h">>, <<"k">>, << >>, <<"none">>}}

HeaderProjects ==
  {Project(<<Source(<<"m">>, TRUE, u), Source(<<"inc", "h">>, FALSE, h),
             Source(<<"inc", "k">>, FALSE, k)>> \o more) :
     u \in Users, h \in Headers, k \in SecondHeaders,
     more \in {<< >>, <<Source(<<"h">>, FALSE, <<L("text", <<"C">>)>>),
                        Source(<<"n">>, TRUE, <<Included(FALSE, <<"h">>)>>)>>}}

OtherProjects ==
  {[Single(<<a, L("text", <<"A", "B">>)>>) EXCEPT
      !.definitions = <<[name |-> "A", value |-> <<"B">>, given |-> TRUE],
                        [name |-> "B", value |-> v, given |-> TRUE],
                        [name |-> "A", value |-> <<"2">>, given |-> TRUE]>>] :
     v \in {<<"1">>, <<"A">>},
     a \in {L("error", << >>), L("unknown", << >>), L("pragma", << >>), L("undef", <<"A">>)}
           \cup {L("text", s) : s \in {<<"B">>, <<"\"", "B", "\"">>}}}
  \cup {Single([i \in 1 .. n |-> L("define", <<(<<"A", "B", "C", "x", "y">>)[i], "1">>)]) :
          n \in 1 .. 5}
  \cup {Single([i \in 1 .. 2 * n |->
                 IF i <= n THEN L("if", <<"1">>) ELSE L("endif", << >>)]) : n \in 3 .. 6}
  \cup {Single(<<L("define", <<"F", "(", "x", ")", "x">>), L("define", <<"F", "1">>),
                 L("if", <<c>>), L("elif", <<"(", "1">>), L("else", << >>), L("endif", << >>),
                 L("text", <<"F", "(", "2", ")">>)>>) : c \in {"0", "1"}}
  \cup {Single(<<L("define", <<"A", "1", "1", "1", "1", "1", "1">>)>>
               \o [i \in 1 .. n |-> L("text", <<"A", "A">>)]) : n \in 1 .. 3}

(* Definitions that only the host has something against: no name, or none   *)
(* that an identifier is, a parameter that is none, a comma behind the last *)
(* one, a replacement that asks for a string or for tokens to be joined.    *)
LooseDefinitions ==
  {<< >>, <<"+", "A">>, <<"1", " ", "A">>, <<"F", "(", "1", ")", "A">>,
   <<"F", "(", "x", ",", ")", "x">>, <<"F", "(", "x", ")", "#", "x">>,
   <<"F", " ", "x", "##", "A">>}

LooseProjects ==
  {Single(<<L("if", <<c>>), L("define", d), L("endif", << >>),
            L("text", <<"F", "(", "A", ")">>), L("text", <<"1">>)>>) :
     c \in {"0", "1"},
     d \in LooseDefinitions \cup {<<"(", "x", ")", "A">>, <<"(", "x">>,
                                 <<"F", "(", "x", ")", "\"", "#", "\"">>}}

AllProjects ==
  GroupProjects \cup ConditionProjects \cup ObjectProjects \cup FunctionProjects
  \cup HeaderProjects \cup OtherProjects \cup LooseProjects

-----------------------------------------------------------------------------
Host == H!HostResult(project)

TextOnly(s) == H!Tokens(s)

Loosely ==
  \E f \in DOMAIN Files : \E i \in DOMAIN Files[f].lines :
    Files[f].lines[i].d = "define" /\ Files[f].lines[i].t \in LooseDefinitions

(* What the self-hosted preprocessor makes of a project is what the host's  *)
(* makes of it, token by token, and of a project the host refuses it makes  *)
(* nothing (preprocessor.c:1007, preprocessor.py:206), unless the host      *)
(* refuses one of the loose definitions (preprocessor.py:294, 304, 308).    *)
SameTokens ==
  phase = "done" =>
    IF Host.ok THEN TextOnly(output) = Host.out ELSE Loosely

(* The other way round, what it refuses for another reason than one of its  *)
(* limits is refused by the host as well.                                   *)
RefusesWhatTheHostRefuses == phase = "refused" => ~ Host.ok

(* How conditional groups nest, said without a stack, for a file whose      *)
(* conditions are literals.                                                 *)
TheLines == project.files[1].lines

Opens(i) == TheLines[i].d = "if"

Turns(i) == TheLines[i].d \in {"elif", "else"}

Balance(i) ==
  Cardinality({k \in 1 .. i : Opens(k)})
  - Cardinality({k \in 1 .. i : TheLines[k].d = "endif"})

Around(i) == {j \in 1 .. i - 1 : Opens(j) /\ \A k \in j .. i - 1 : Balance(k) >= Balance(j)}

Innermost(i) == CHOOSE j \in Around(i) : \A k \in Around(i) : k <= j

Branches(j, i) ==
  {k \in j .. i - 1 : k = j \/ (Turns(k) /\ Around(k) # {} /\ Innermost(k) = j)}

Holds(k) == TheLines[k].d = "else" \/ TheLines[k].t = <<"1">>

(* The last branch of j before i is the first one of j that holds.          *)
Selected(j, i) ==
  LET holding == {k \in Branches(j, i) : Holds(k)}
  IN  holding = {CHOOSE k \in Branches(j, i) : \A b \in Branches(j, i) : b <= k}

WellNested ==
  /\ \A i \in DOMAIN TheLines : Balance(i) >= 0
  /\ Balance(Len(TheLines)) = 0
  /\ \A i \in DOMAIN TheLines :
       Turns(i) => /\ Around(i) # {}
                   /\ \A k \in Branches(Innermost(i), i) : TheLines[k].d # "else"

Kept == {i \in DOMAIN TheLines : TheLines[i].d = "text" /\ \A j \in Around(i) : Selected(j, i)}

Printed ==
  {i \in DOMAIN TheLines : \E k \in 1 .. Len(output) - 1 :
                             <<output[k], output[k + 1]>> = TheLines[i].t}

(* A file of conditional groups is accepted exactly when they nest, and the *)
(* lines kept are those whose branch is, in each group around them, the     *)
(* first that holds (preprocessor.c:854-935).                               *)
GroupsAsNested ==
  project \in GroupProjects =>
    /\ phase = "done" => (WellNested /\ Printed = Kept)
    /\ phase = "refused" => ~ WellNested
=============================================================================
