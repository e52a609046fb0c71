-------------------------- MODULE HostPreprocessor ---------------------------
(***************************************************************************)
(* preprocessor.py: the preprocessor of the compiler that runs on the host, *)
(* as a function of a project: the text its Preprocessor makes of the       *)
(* translation units one after the other.  Lines are those of Preprocessor; *)
(* a quotation is one token.  The headers the host brings along are left    *)
(* out, and so are the positions in its errors.                             *)
(***************************************************************************)
EXTENDS Integers, Sequences, Bitwise, TLC

CONSTANTS Names, NumberOf

Identifier(t) == t \in Names

Least(S) == CHOOSE i \in S : \A j \in S : i <= j

RECURSIVE Joined(_)
Joined(s) == IF s = << >> THEN "" ELSE Head(s) \o Joined(Tail(s))

(* _tokens: a quotation becomes one token, if it is closed.                 *)
RECURSIVE Tokens(_)
Tokens(s) ==
  IF s = << >> THEN << >>
  ELSE LET closed == {i \in 2 .. Len(s) : s[i] = s[1]} IN
       IF s[1] \in {"\"", "'"} /\ closed # {}
       THEN <<Joined(SubSeq(s, 1, Least(closed)))>>
            \o Tokens(SubSeq(s, Least(closed) + 1, Len(s)))
       ELSE IF s[1] \in {" ", "\n"} THEN Tokens(Tail(s))
       ELSE <<s[1]>> \o Tokens(Tail(s))

-----------------------------------------------------------------------------
(* Preprocessor.expand; macros are functions from names.                    *)

Made(out) == [out |-> out, ok |-> TRUE]

Raised == [out |-> << >>, ok |-> FALSE]

Extended(out, r) == IF r.ok THEN Made(out \o r.out) ELSE Raised

RECURSIVE HostArguments(_, _, _)
HostArguments(s, depth, current) ==
  IF s = << >> THEN [done |-> << >>, rest |-> << >>, ok |-> FALSE]
  ELSE LET t == Head(s)
           With(d) == HostArguments(Tail(s), d, Append(current, t))
       IN  CASE t = "(" -> With(depth + 1)
             [] t = ")" /\ depth > 0 -> With(depth - 1)
             [] t = ")" /\ depth = 0 ->
                  [done |-> <<current>>, rest |-> Tail(s), ok |-> TRUE]
             [] t = "," /\ depth = 0 ->
                  LET r == HostArguments(Tail(s), 0, << >>)
                  IN  [r EXCEPT !.done = <<current>> \o @]
             [] OTHER -> With(depth)

RECURSIVE HostExpand(_, _, _), Body(_, _, _), Concatenated(_)

Concatenated(list) == IF list = << >> THEN << >> ELSE Head(list) \o Concatenated(Tail(list))

Body(repl, params, args) ==
  Concatenated([i \in DOMAIN repl |->
    LET at == {k \in DOMAIN params : params[k] = repl[i]}
    IN  IF at = {} THEN <<repl[i]>> ELSE args[Least(at)]])

HostCall(ms, name, r, disabled) ==
  LET m == ms[name]
      args == IF r.done = <<<<>>>> /\ m.params = << >> THEN << >> ELSE r.done
      expanded == [i \in DOMAIN args |-> HostExpand(ms, args[i], disabled)]
  IN  IF Len(args) # Len(m.params) \/ \E i \in DOMAIN args : ~ expanded[i].ok
      THEN Raised
      ELSE HostExpand(ms, Body(m.repl, m.params, [i \in DOMAIN args |-> expanded[i].out]),
                      disabled \cup {name})

HostExpand(ms, s, disabled) ==
  IF s = << >> THEN Made(<< >>)
  ELSE LET t == Head(s)
           Behind(r, rest) == IF r.ok THEN Extended(r.out, HostExpand(ms, rest, disabled))
                              ELSE Raised
       IN
       IF t \notin DOMAIN ms \/ t \in disabled THEN Behind(Made(<<t>>), Tail(s))
       ELSE IF ~ ms[t].fn
       THEN Behind(HostExpand(ms, ms[t].repl, disabled \cup {t}), Tail(s))
       ELSE IF Len(s) = 1 \/ s[2] # "(" THEN Behind(Made(<<t>>), Tail(s))
       ELSE LET r == HostArguments(Tail(Tail(s)), 0, << >>) IN
            IF ~ r.ok THEN Raised ELSE Behind(HostCall(ms, t, r, disabled), r.rest)

-----------------------------------------------------------------------------
(* Preprocessor.condition: what Python makes of the expression.  r.ok is    *)
(* FALSE for one it cannot parse; r.raises, when what it evaluates raises.  *)

Item(s, p) == IF p \in DOMAIN s THEN s[p] ELSE "end"

Py(v, p, ok, raises) == [v |-> v, p |-> p, ok |-> ok, raises |-> raises]

One(b) == IF b THEN 1 ELSE 0

Arithmetic == <<{"*", "/", "%"}, {"+", "-"}, {"<<", ">>"}, {"&"}, {"^"}, {"|"}>>

Comparisons == {"<", "<=", ">", ">=", "==", "!="}

FloorDiv(a, b) == IF b > 0 THEN a \div b ELSE (0 - a) \div (0 - b)

(* Bits of integers of either sign, in two's complement wide enough.        *)
Wide == 2 ^ 20

Signed(x) == IF x >= Wide \div 2 THEN x - Wide ELSE x

Compute(op, a, b) ==
  CASE op = "*" -> a * b
    [] op = "/" -> FloorDiv(a, b)
    [] op = "%" -> a - b * FloorDiv(a, b)
    [] op = "+" -> a + b
    [] op = "-" -> a - b
    [] op = "<<" -> a * 2 ^ b
    [] op = ">>" -> a \div 2 ^ b
    [] op = "&" -> Signed((a % Wide) & (b % Wide))
    [] op = "^" -> Signed((a % Wide) ^^ (b % Wide))
    [] op = "|" -> Signed((a % Wide) | (b % Wide))

Raises(op, b) == (op \in {"/", "%"} /\ b = 0) \/ (op \in {"<<", ">>"} /\ b < 0)

Compares(op, a, b) ==
  CASE op = "<" -> a < b
    [] op = "<=" -> a <= b
    [] op = ">" -> a > b
    [] op = ">=" -> a >= b
    [] op = "==" -> a = b
    [] op = "!=" -> a # b

(* An expression is read level by level: signs and parentheses, arithmetic,  *)
(* comparisons, "not", "and", "or".                                         *)
Comparison == Len(Arithmetic) + 1
Negation == Comparison + 1
Conjunction == Negation + 1
Disjunction == Conjunction + 1

RECURSIVE Reading(_, _, _), Chain(_, _, _), Operations(_, _, _), Signs(_, _)

(* The tokens are joined without spaces: numbers side by side are one.      *)
RECURSIVE Digits(_, _, _)
Digits(s, p, v) ==
  IF Item(s, p) \notin DOMAIN NumberOf THEN Py(v, p, TRUE, FALSE)
  ELSE Digits(s, p + 1, 10 * v + NumberOf[s[p]])

Numeral(s, p) ==
  LET r == Digits(s, p, 0)
  IN  [r EXCEPT !.ok = r.p = p + 1 \/ s[p] # "0" \/ r.v = 0]

Signs(s, p) ==
  LET t == Item(s, p) IN
  IF t \in {"+", "-", "~"}
  THEN LET r == Signs(s, p + 1)
           v == CASE t = "+" -> r.v [] t = "-" -> 0 - r.v [] t = "~" -> 0 - r.v - 1
       IN  [r EXCEPT !.v = v]
  ELSE IF t = "("
  THEN LET r == Reading(s, Disjunction, p + 1)
       IN  [r EXCEPT !.p = @ + 1, !.ok = @ /\ Item(s, r.p) = ")"]
  ELSE IF t \in DOMAIN NumberOf THEN Numeral(s, p)
  ELSE Py(0, p, FALSE, FALSE)

Operations(s, l, r) ==
  IF ~ r.ok \/ Item(s, r.p) \notin Arithmetic[l] THEN r
  ELSE LET op == s[r.p]
           q == Reading(s, l - 1, r.p + 1)
           raises == r.raises \/ q.raises \/ Raises(op, q.v)
       IN  Operations(s, l, Py(IF raises THEN 0 ELSE Compute(op, r.v, q.v), q.p, q.ok, raises))

(* a < b < c is a < b and b < c; the rest is not evaluated when one fails.  *)
Chain(s, left, r) ==
  IF ~ r.ok \/ Item(s, r.p) \notin Comparisons THEN r
  ELSE LET q == Reading(s, Len(Arithmetic), r.p + 1)
           decided == r.v = 0
       IN  Chain(s, q.v,
                 Py(IF decided THEN 0 ELSE One(Compares(s[r.p], left, q.v)), q.p, q.ok,
                    r.raises \/ (~ decided /\ q.raises)))

(* The right side counts only if the left one does not decide.              *)
Both(r, q, decided) ==
  Py(IF decided THEN r.v ELSE q.v, q.p, q.ok, r.raises \/ (~ decided /\ q.raises))

Reading(s, l, p) ==
  LET r == Reading(s, l - 1, p)
      Follows(ops) == r.ok /\ Item(s, r.p) \in ops
  IN  CASE l = 0 -> Signs(s, p)
        [] l \in DOMAIN Arithmetic -> Operations(s, l, r)
        [] l = Comparison ->
             IF Follows(Comparisons) THEN Chain(s, r.v, [r EXCEPT !.v = 1]) ELSE r
        [] l = Negation ->
             IF Item(s, p) # "!" THEN r
             ELSE LET q == Reading(s, Negation, p + 1) IN [q EXCEPT !.v = One(@ = 0)]
        [] l = Conjunction ->
             IF Follows({"&&"}) THEN Both(r, Reading(s, Conjunction, r.p + 1), r.v = 0) ELSE r
        [] l = Disjunction ->
             IF Follows({"||"}) THEN Both(r, Reading(s, Disjunction, r.p + 1), r.v # 0) ELSE r

Expression(s) == [i \in DOMAIN s |-> IF Identifier(s[i]) THEN "0" ELSE s[i]]

RECURSIVE Answered(_, _)
Answered(ms, s) ==
  IF s = << >> THEN Made(<< >>)
  ELSE IF s[1] # "defined" THEN Extended(<<s[1]>>, Answered(ms, Tail(s)))
  ELSE LET open == Item(s, 2) = "("
           q == IF open THEN 3 ELSE 2
       IN  IF q > Len(s) \/ (open /\ Item(s, 4) # ")") THEN Raised
           ELSE Extended(<<IF s[q] \in DOMAIN ms THEN "1" ELSE "0">>,
                         Answered(ms, SubSeq(s, IF open THEN 5 ELSE 3, Len(s))))

(* A ! is written " not ", and an expression that starts with a space is    *)
(* not parsed.                                                              *)
HostCondition(ms, s) ==
  LET answered == Answered(ms, Tokens(s))
      expanded == IF answered.ok THEN HostExpand(ms, answered.out, {}) ELSE Raised
      expression == Expression(expanded.out)
      r == Reading(expression, Disjunction, 1)
  IN  IF ~ expanded.ok \/ Item(expression, 1) = "!" THEN [holds |-> FALSE, valid |-> FALSE]
      ELSE [holds |-> r.v # 0,
            valid |-> r.ok /\ r.p = Len(expression) + 1 /\ ~ r.raises]

-----------------------------------------------------------------------------
(* Preprocessor.process.                                                    *)

Wrong(st) == [st EXCEPT !.ok = FALSE]

HostMacro(fn, params, repl) == [fn |-> fn, params |-> params, repl |-> Tokens(repl)]

(* A name first, then names with commas between them; a replacement may not *)
(* ask for a string or for a token made of two.                             *)
HostDefine(st, t) ==
  LET closing == {i \in 3 .. Len(t) : t[i] = ")"}
      raw == SubSeq(t, 3, Least(closing) - 1)
      params == [i \in 1 .. (Len(raw) + 1) \div 2 |-> raw[2 * i - 1]]
      With(m) == IF \E i \in DOMAIN m.repl : m.repl[i] \in {"#", "##"} THEN Wrong(st)
                 ELSE [st EXCEPT !.macros = (t[1] :> m) @@ @]
  IN  IF t = << >> \/ ~ Identifier(Item(t, 1)) THEN Wrong(st)
      ELSE IF Len(t) = 1 \/ t[2] # "(" THEN With(HostMacro(FALSE, << >>, Tail(t)))
      ELSE IF closing = {} THEN Wrong(st)
      ELSE IF (raw # << >> /\ Len(raw) % 2 = 0)
              \/ \E i \in DOMAIN raw :
                   IF i % 2 = 1 THEN ~ Identifier(raw[i]) ELSE raw[i] # ","
      THEN Wrong(st)
      ELSE With(HostMacro(TRUE, params, SubSeq(t, Least(closing) + 1, Len(t))))

HostUndef(st, t) ==
  [st EXCEPT !.macros =
     [n \in {m \in DOMAIN @ : <<m>> # t} |-> @[n]]]

(* find_include: beside the including file, then in each directory.         *)
HostFound(p, file, line) ==
  LET path == p.files[file].path
      beside == IF line.quoted THEN <<SubSeq(path, 1, Len(path) - 1)>> ELSE << >>
      places == beside \o p.roots
      At(k) == {f \in DOMAIN p.files : p.files[f].path = places[k] \o line.t}
      found == {k \in DOMAIN places : At(k) # {}}
  IN  IF found = {} THEN {} ELSE At(Least(found))

HostTest(st, line) ==
  LET named == Len(line.t) = 1 /\ line.t[1] \in DOMAIN st.macros IN
  CASE line.d = "ifdef" -> [holds |-> named, valid |-> TRUE]
    [] line.d = "ifndef" -> [holds |-> ~ named, valid |-> TRUE]
    [] OTHER -> HostCondition(st.macros, line.t)

No == [holds |-> FALSE, valid |-> TRUE]

RECURSIVE HostFile(_, _, _), HostLines(_, _, _, _, _, _)

(* A directive that leaves the groups alone.                                *)
HostDirective(p, st, file, line) ==
  CASE line.d = "define" -> HostDefine(st, line.t)
    [] line.d = "undef" -> HostUndef(st, line.t)
    [] line.d = "pragma" /\ line.t = <<"once">> -> [st EXCEPT !.once = @ \cup {file}]
    [] line.d = "include" ->
         IF line.t = << >> \/ HostFound(p, file, line) = {} THEN Wrong(st)
         ELSE HostFile(p, st, Least(HostFound(p, file, line)))
    [] line.d = "text" ->
         LET r == HostExpand(st.macros, Tokens(line.t), {})
         IN  IF r.ok THEN [st EXCEPT !.out = @ \o r.out] ELSE Wrong(st)
    [] OTHER -> Wrong(st)

HostLines(p, st, file, i, active, states) ==
  IF ~ st.ok THEN st
  ELSE IF i > Len(p.files[file].lines) THEN IF states = << >> THEN st ELSE Wrong(st)
  ELSE LET line == p.files[file].lines[i]
           n == Len(states)
           state == states[n]
           Go(s, a, ss) == HostLines(p, s, file, i + 1, a, ss)
           Last(x) == [states EXCEPT ![n] = x]
       IN
       CASE line.d \in {"if", "ifdef", "ifndef"} ->
              LET test == IF active THEN HostTest(st, line) ELSE No
              IN  IF ~ test.valid THEN Wrong(st)
                  ELSE Go(st, active /\ test.holds,
                          Append(states, [parent |-> active, taken |-> test.holds,
                                          else |-> FALSE]))
         [] line.d = "elif" ->
              IF states = << >> \/ (n > 0 /\ state.else) THEN Wrong(st)
              ELSE LET test == IF state.parent /\ ~ state.taken
                               THEN HostCondition(st.macros, line.t) ELSE No
                   IN  IF ~ test.valid THEN Wrong(st)
                       ELSE Go(st, test.holds,
                               Last([state EXCEPT !.taken = @ \/ test.holds]))
         [] line.d = "else" ->
              IF states = << >> \/ (n > 0 /\ state.else) THEN Wrong(st)
              ELSE Go(st, state.parent /\ ~ state.taken,
                      Last([state EXCEPT !.taken = TRUE, !.else = TRUE]))
         [] line.d = "endif" ->
              IF states = << >> THEN Wrong(st)
              ELSE Go(st, state.parent, SubSeq(states, 1, n - 1))
         [] OTHER ->
              Go(IF active THEN HostDirective(p, st, file, line) ELSE st, active, states)

HostFile(p, st, file) ==
  IF file \in st.once THEN st
  ELSE IF file \in st.open THEN Wrong(st)
  ELSE LET r == HostLines(p, [st EXCEPT !.open = @ \cup {file}], file, 1, TRUE, << >>)
       IN  [r EXCEPT !.open = st.open]

(* Without a value, a definition is 1; its name must be one.                *)
Start(p) ==
  LET value(d) == IF d.given THEN Tokens(d.value) ELSE <<"1">>
      Last(name) == CHOOSE i \in DOMAIN p.definitions :
                      p.definitions[i].name = name
                      /\ \A j \in DOMAIN p.definitions : p.definitions[j].name = name => j <= i
      names == {p.definitions[i].name : i \in DOMAIN p.definitions}
  IN  [macros |-> [n \in names |-> [fn |-> FALSE, params |-> << >>,
                                    repl |-> value(p.definitions[Last(n)])]],
       once |-> {}, open |-> {}, out |-> << >>,
       ok |-> \A n \in names : Identifier(n)]

RECURSIVE HostUnits(_, _, _)
HostUnits(p, st, k) ==
  IF k > Len(p.files) THEN st
  ELSE HostUnits(p, IF p.files[k].unit /\ st.ok THEN HostFile(p, st, k) ELSE st, k + 1)

HostResult(p) == HostUnits(p, Start(p), 1)
=============================================================================
