------------------------------- MODULE Macros --------------------------------
(***************************************************************************)
(* The macros of the self-hosted preprocessor (preprocessor.c): their       *)
(* table, the expansion of a line, and the value of a condition.            *)
(*                                                                          *)
(* A line is a sequence of tokens.  Spaces are left out except where one    *)
(* decides how a definition is read: the token " ".  A quotation mark is a  *)
(* token, and what it quotes are the tokens up to the next one.             *)
(***************************************************************************)
EXTENDS Integers, Sequences, FiniteSets, Bitwise

CONSTANTS Names,          \* the tokens that are identifiers
          NumberOf,       \* the values of the tokens that are numbers
          WordBits,       \* width of unsigned int, a power of two
          MaxDepth,       \* DYN_PP_MAX_DEPTH
          MaxParameters   \* DYN_PP_MAX_PARAMETERS

IsName(t) == t \in Names

(* Made of the characters of names, with a digit in front perhaps.          *)
IsWord(t) == IsName(t) \/ t \in DOMAIN NumberOf

Quotes == {"\"", "'"}

Front(s, n) == SubSeq(s, 1, n)

Behind(s, n) == SubSeq(s, n + 1, Len(s))

(* The first of some positions.                                             *)
First(S) == CHOOSE i \in S : \A j \in S : i <= j

-----------------------------------------------------------------------------
(* The table, in the order of definition.                                   *)

Places(ms, name) == {i \in DOMAIN ms : ms[i].name = name}

MacroDefined(ms, name) == Places(ms, name) # {}

FindMacro(ms, name) == ms[First(Places(ms, name))]

Macro(name, fn, params, repl) ==
  [name |-> name, fn |-> fn, params |-> params, repl |-> repl]

(* A new macro takes a new place, if there is one.                          *)
HasPlace(ms, name, capacity) == MacroDefined(ms, name) \/ Len(ms) < capacity

Define(ms, macro) ==
  IF MacroDefined(ms, macro.name)
  THEN [ms EXCEPT ![First(Places(ms, macro.name))] = macro]
  ELSE Append(ms, macro)

Undef(ms, name) ==
  IF ~ MacroDefined(ms, name) THEN ms
  ELSE LET i == First(Places(ms, name))
       IN  [k \in 1 .. Len(ms) - 1 |-> ms[IF k < i THEN k ELSE k + 1]]

(* A list of parameters: words with commas between them or behind them.     *)
ParametersRead(list) ==
  \A i \in DOMAIN list : IF i % 2 = 1 THEN IsWord(list[i]) ELSE list[i] = ","

Parameters(list) == [i \in 1 .. (Len(list) + 1) \div 2 |-> list[2 * i - 1]]

(* What stands between the name and the replacement of #define.             *)
AfterSpace(s) == IF s # << >> /\ s[1] = " " THEN Tail(s) ELSE s

Closing(t) == {i \in 3 .. Len(t) : t[i] = ")"}

DefinesFunction(t) == Len(t) >= 2 /\ t[2] = "("

ParameterList(t) == SubSeq(t, 3, First(Closing(t)) - 1)

Defining(t) ==
  IF DefinesFunction(t)
  THEN Macro(t[1], TRUE, Parameters(ParameterList(t)),
             AfterSpace(Behind(t, First(Closing(t)))))
  ELSE Macro(t[1], FALSE, << >>, AfterSpace(Tail(t)))

-----------------------------------------------------------------------------
(* Expansion.  "expanding" holds the macros that are being expanded; r.ok   *)
(* is FALSE when the error flag was set.                                    *)

Nesting(s, i) ==
  Cardinality({k \in 1 .. i : s[k] = "("}) - Cardinality({k \in 1 .. i : s[k] = ")"})

(* Where the list of arguments that s begins with ends and is cut; quotes   *)
(* are not looked at.                                                       *)
Ends(s) == {i \in DOMAIN s : s[i] = ")" /\ Nesting(s, i) = 0}

Cuts(s) == {i \in 1 .. First(Ends(s)) :
              \/ i = 1 \/ i = First(Ends(s))
              \/ s[i] = "," /\ Nesting(s, i) = 1}

Split(s) ==
  LET cuts == Cuts(s)
      Cut(n) == CHOOSE i \in cuts : Cardinality({j \in cuts : j < i}) = n
  IN  [n \in 1 .. Cardinality(cuts) - 1 |-> SubSeq(s, Cut(n - 1) + 1, Cut(n) - 1)]

ArgumentsAsSplit(s, params) == Split(s)

Arguments(s, params) ==
  IF Split(s) = <<<<>>>> /\ params = << >> THEN << >> ELSE Split(s)

ArgumentsFit(s, params) ==
  Ends(s) # {} /\ Len(Split(s)) <= MaxParameters
  /\ Len(Arguments(s, params)) = Len(params)

(* Behind a token, either in a quotation or outside of one.                 *)
Quoting(quoted, t) == IF quoted = t THEN "" ELSE quoted

RECURSIVE ExpandLine(_, _, _, _), Substitute(_, _, _, _, _, _)

After(out, r) == [out |-> out \o r.out, ok |-> r.ok]

Then(r, rest) == IF r.ok THEN After(r.out, rest) ELSE r

ExpandObject(ms, name, expanding) ==
  ExpandLine(ms, FindMacro(ms, name).repl, "", expanding \cup {name})

ExpandLine(ms, s, quoted, expanding) ==
  IF s = << >> THEN [out |-> << >>, ok |-> TRUE]
  ELSE LET t == Head(s)
           rest == Tail(s)
           Copied == After(<<t>>, ExpandLine(ms, rest, "", expanding))
       IN
       IF quoted # ""
       THEN After(<<t>>, ExpandLine(ms, rest, Quoting(quoted, t), expanding))
       ELSE IF t \in Quotes THEN After(<<t>>, ExpandLine(ms, rest, t, expanding))
       ELSE IF ~ IsName(t) \/ ~ MacroDefined(ms, t) \/ t \in expanding THEN Copied
       ELSE IF ~ FindMacro(ms, t).fn
       THEN Then(ExpandObject(ms, t, expanding), ExpandLine(ms, rest, "", expanding))
       ELSE LET m == FindMacro(ms, t) IN
            IF rest = << >> \/ Head(rest) # "(" THEN Copied
            ELSE IF ~ ArgumentsFit(rest, m.params) THEN [out |-> << >>, ok |-> FALSE]
            ELSE Then(Substitute(ms, m, m.repl, Arguments(rest, m.params), "",
                                 expanding \cup {t}),
                      ExpandLine(ms, Behind(rest, First(Ends(rest))), "", expanding))

(* dyn_expand_function: the replacement s of m with its arguments.  What it *)
(* yields is not scanned again, and only object macros in it are expanded.  *)
Substitute(ms, m, s, args, quoted, expanding) ==
  IF s = << >> THEN [out |-> << >>, ok |-> TRUE]
  ELSE LET t == Head(s)
           at == {i \in DOMAIN m.params : m.params[i] = t}
           Rest(q) == Substitute(ms, m, Tail(s), args, q, expanding)
       IN
       IF quoted # "" THEN After(<<t>>, Rest(Quoting(quoted, t)))
       ELSE IF t \in Quotes THEN After(<<t>>, Rest(t))
       ELSE IF at # {} THEN Then(ExpandLine(ms, args[First(at)], "", expanding), Rest(""))
       ELSE IF MacroDefined(ms, t) /\ ~ FindMacro(ms, t).fn /\ t \notin expanding
       THEN Then(ExpandObject(ms, t, expanding), Rest(""))
       ELSE After(<<t>>, Rest(""))

-----------------------------------------------------------------------------
(* Conditions.  A value is a word; r.p is the token behind what was read.   *)

Modulus == 2 ^ WordBits

Bool(b) == IF b THEN 1 ELSE 0

(* The binary operators, those that bind closest first.                     *)
Levels == <<{"*", "/", "%"}, {"+", "-"}, {"<<", ">>"}, {"<", "<=", ">", ">="},
            {"==", "!="}, {"&"}, {"^"}, {"|"}, {"&&"}, {"||"}>>

Apply(op, a, b) ==
  CASE op = "*" -> (a * b) % Modulus
    [] op = "/" -> a \div b
    [] op = "%" -> a % b
    [] op = "+" -> (a + b) % Modulus
    [] op = "-" -> (a - b) % Modulus
    [] op = "<<" -> (a * 2 ^ (b % WordBits)) % Modulus
    [] op = ">>" -> a \div 2 ^ (b % WordBits)
    [] op = "<" -> Bool(a < b)
    [] op = "<=" -> Bool(a <= b)
    [] op = ">" -> Bool(a > b)
    [] op = ">=" -> Bool(a >= b)
    [] op = "==" -> Bool(a = b)
    [] op = "!=" -> Bool(a # b)
    [] op = "&" -> a & b
    [] op = "^" -> a ^^ b
    [] op = "|" -> a | b
    [] op = "&&" -> Bool(a # 0 /\ b # 0)
    [] op = "||" -> Bool(a # 0 \/ b # 0)

(* Both operands are always worked out, and neither may divide by zero.     *)
Applicable(op, b) == op \in {"/", "%"} => b # 0

Sign(op, a) ==
  CASE op = "!" -> Bool(a = 0)
    [] op = "~" -> Modulus - 1 - a
    [] op = "+" -> a
    [] op = "-" -> (0 - a) % Modulus

Token(s, p) == IF p \in DOMAIN s THEN s[p] ELSE "end"

Value(v, p, ok) == [v |-> v, p |-> p, ok |-> ok]

Bad(p) == Value(0, p, FALSE)

(* defined N, or defined ( N ).                                             *)
DefinedOf(ms, s, p) ==
  LET open == Token(s, p) = "("
      q == IF open THEN p + 1 ELSE p
  IN  IF ~ IsWord(Token(s, q)) \/ (open /\ Token(s, q + 1) # ")") THEN Bad(q)
      ELSE Value(Bool(MacroDefined(ms, s[q])), IF open THEN q + 2 ELSE q + 1, TRUE)

RECURSIVE Level(_, _, _, _, _), Unary(_, _, _, _)

Top == Len(Levels)

(* dyn_condition_primary: a name is the value of its replacement, read      *)
(* with a condition of its own, or 0.                                       *)
Primary(ms, s, p, depth) ==
  LET t == Token(s, p) IN
  IF t = "("
  THEN LET r == Level(ms, s, Top, p + 1, depth)
       IN  Value(r.v, r.p + 1, r.ok /\ Token(s, r.p) = ")")
  ELSE IF t \in DOMAIN NumberOf THEN Value(NumberOf[t], p + 1, TRUE)
  ELSE IF t = "defined" THEN DefinedOf(ms, s, p + 1)
  ELSE IF ~ IsName(t) THEN Bad(p)
  ELSE IF MacroDefined(ms, t) /\ ~ FindMacro(ms, t).fn /\ depth < MaxDepth
  THEN LET repl == FindMacro(ms, t).repl
           r == Level(ms, repl, Top, 1, depth + 1)
       IN  Value(r.v, p + 1, r.ok /\ r.p = Len(repl) + 1)
  ELSE Value(0, p + 1, TRUE)

Unary(ms, s, p, depth) ==
  LET t == Token(s, p) IN
  IF t \in {"!", "~", "+", "-"}
  THEN LET r == Unary(ms, s, p + 1, depth) IN Value(Sign(t, r.v), r.p, r.ok)
  ELSE Primary(ms, s, p, depth)

(* dyn_condition_multiply to dyn_condition_or: a loop at each level.        *)
Level(ms, s, l, p, depth) ==
  LET Operand(q) == IF l = 1 THEN Unary(ms, s, q, depth)
                    ELSE Level(ms, s, l - 1, q, depth)
      Loop[q \in 1 .. Len(s) + 1, v \in 0 .. Modulus - 1] ==
        IF Token(s, q) \notin Levels[l] THEN Value(v, q, TRUE)
        ELSE LET op == s[q]
                 r == Operand(q + 1)
             IN  IF ~ r.ok \/ ~ Applicable(op, r.v) THEN Bad(r.p)
                 ELSE Loop[r.p, Apply(op, v, r.v)]
      first == Operand(p)
  IN  IF first.ok THEN Loop[first.p, first.v] ELSE first

(* dyn_condition.                                                           *)
Condition(ms, s) ==
  LET r == Level(ms, s, Top, 1, 0)
  IN  [holds |-> r.v # 0, valid |-> r.ok /\ r.p = Len(s) + 1]
=============================================================================
