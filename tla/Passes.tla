------------------------------- MODULE Passes -------------------------------
(***************************************************************************)
(* The scalar passes of symphony/middle/ssa over a whole function: copies,  *)
(* algebra, value numbering, fusing of comparisons into branches, and dead  *)
(* values.  Each is one walk over the function with sets it computed first, *)
(* so each is a function of the program.                                    *)
(***************************************************************************)
EXTENDS Execution, Functions

ItemsOf(f) == UNION {ToSet(f[i].body) : i \in DOMAIN f}

PhisOf(f) == UNION {ToSet(f[i].phis) : i \in DOMAIN f}

Definition(f, v) ==
  LET items == {item \in ItemsOf(f) : item.dst = v}
  IN  IF items = {} THEN [op |-> "none"] ELSE CHOOSE item \in items : TRUE

ConstantOf(f, v) ==
  LET item == Definition(f, v) IN IF item.op = "const" THEN item.extra ELSE Undef

MapItems(f, new(_, _)) ==
  [i \in DOMAIN f |-> [f[i] EXCEPT !.body = [k \in DOMAIN @ |-> new(i, k)]]]

DropValues(f, values) ==
  [i \in DOMAIN f |-> [f[i] EXCEPT !.body = SelectSeq(@, LAMBDA item : item.dst \notin values)]]

-----------------------------------------------------------------------------
(* copies.py: the value a chain of copies ends in.                          *)
CopySource(f, v) ==
  LET item == Definition(f, v) IN IF item.op = "copy" THEN item.args[1] ELSE v

ResolveCopy(sources, v) ==
  FoldLeft(LAMBDA u, n : IF u = NoValue THEN u ELSE sources[u], v, [n \in Value |-> n])

(* Every value read is `new` of what it was: in the operands of phis, in    *)
(* items and in terminators.                                                *)
Renamed(f, new(_)) ==
  [i \in DOMAIN f |->
     [f[i] EXCEPT
        !.phis = [k \in DOMAIN @ |-> [@[k] EXCEPT !.from = [p \in DOMAIN @ |-> new(@[p])]]],
        !.body = [k \in DOMAIN @ |-> [@[k] EXCEPT !.args = [a \in DOMAIN @ |-> new(@[a])]]],
        !.reads = [a \in DOMAIN @ |-> new(@[a])]]]

CopiesPropagated(f) ==
  LET sources == [v \in Value |-> CopySource(f, v)]
  IN  Renamed(f, LAMBDA v : ResolveCopy(sources, v))

-----------------------------------------------------------------------------
CopyOf(item, v) == [item EXCEPT !.op = "copy", !.args = <<v>>, !.extra = 0]

ConstantFor(item, c) == [item EXCEPT !.op = "const", !.args = << >>, !.extra = c]

(* algebra.py, for the operators of Execution: the first identity that fits.*)
Simplified(f, item) ==
  LET left == item.args[1]
      right == item.args[2]
      leftConstant == ConstantOf(f, left)
      rightConstant == ConstantOf(f, right)
      op == item.extra
      identities ==
        << <<rightConstant = 0 /\ op \in {"+", "-", "<<", ">>"}, CopyOf(item, left)>>,
           <<leftConstant = 0 /\ op = "+", CopyOf(item, right)>>,
           <<0 \in {leftConstant, rightConstant} /\ op = "&", ConstantFor(item, 0)>>,
           <<left = right /\ op = "&", CopyOf(item, left)>>,
           <<left = right /\ op \in {"==", ">="}, ConstantFor(item, 1)>>,
           <<left = right /\ op \in {"-", "!=", "<"}, ConstantFor(item, 0)>>,
           <<rightConstant = 1 /\ op = "/", CopyOf(item, left)>>,
           <<rightConstant = 1 /\ op = "%", ConstantFor(item, 0)>>,
           <<rightConstant = Modulus - 1 /\ op = "&", CopyOf(item, left)>>,
           <<TRUE, item>> >>
  IN  identities[SelectInSeq(identities, LAMBDA rule : rule[1])][2]

AlgebraSimplified(f) ==
  LET new(i, k) == LET item == f[i].body[k]
                   IN  IF item.op = "binary" THEN Simplified(f, item) ELSE item
  IN  MapItems(f, new)

-----------------------------------------------------------------------------
(* strength.py: a product by a power of two becomes a shift, a quotient a   *)
(* shift and a remainder a mask.  What is known to be constant grows along  *)
(* the way, and the new operands are the function's next values.            *)
PowersOfTwo == {c \in Word : \E n \in 0 .. Bits - 1 : c = 2^n}

Log2(c) == CHOOSE n \in 0 .. Bits - 1 : c = 2^n

(* The state so far with items appended, the last defining what `item` did. *)
Emitted(state, items) == [state EXCEPT !.body = @ \o items]

Known(state, v, c) == [state EXCEPT !.constants[v] = c]

Replaced(state, item, left, op, operand) ==
  LET constant == [item EXCEPT !.op = "const", !.dst = state.next, !.args = << >>,
                               !.extra = operand]
      reduced == [item EXCEPT !.args = <<left, state.next>>, !.extra = op]
  IN  [Known(Emitted(state, <<constant, reduced>>), state.next, operand) EXCEPT !.next = @ + 1]

Reduced(state, item) ==
  LET isBinary == item.op = "binary"
      op == item.extra
      swapped == /\ op = "*"
                 /\ state.constants[item.args[1]] # Undef
                 /\ state.constants[item.args[2]] = Undef
      left == item.args[IF swapped THEN 2 ELSE 1]
      c == state.constants[item.args[IF swapped THEN 1 ELSE 2]]
  IN  CASE isBinary /\ op = "*" /\ c = 0 ->
             Known(Emitted(state, <<ConstantFor(item, 0)>>), item.dst, 0)
        [] isBinary /\ op = "*" /\ c = 1 -> Emitted(state, <<CopyOf(item, left)>>)
        [] isBinary /\ op = "*" /\ c \in PowersOfTwo \ {1} ->
             Replaced(state, item, left, "<<", Log2(c))
        [] isBinary /\ op = "/" /\ c \in PowersOfTwo ->
             Replaced(state, item, left, ">>", Log2(c))
        [] isBinary /\ op = "%" /\ c \in PowersOfTwo ->
             Replaced(state, item, left, "&", c - 1)
        [] OTHER -> Emitted(state, <<item>>)

(* The function, and its next value.                                        *)
StrengthReduced(f, next) ==
  LET inBlock(state, i) ==
        LET after == FoldLeft(Reduced, [state EXCEPT !.body = << >>], f[i].body)
        IN  [after EXCEPT !.fn = Append(@, [f[i] EXCEPT !.body = after.body])]
  IN  FoldLeft(inBlock,
               [fn |-> << >>, body |-> << >>, next |-> next,
                constants |-> [v \in Value \cup {NoValue} |-> ConstantOf(f, v)]],
               [i \in DOMAIN f |-> i])

-----------------------------------------------------------------------------
(* value_numbering.py: expensive expressions with equal operands.           *)
Expensive(item) == item.op = "binary" /\ item.extra \in {"*", "/", "%"}

SameExpression(a, b) ==
  /\ a.extra = b.extra
  /\ a.args = b.args \/ (a.extra = "*" /\ a.args = Reverse(b.args))

(* Site <<i, k>> is run before every run of site <<j, l>>.                  *)
Before(f, i, k, j, l) ==
  IF i = j THEN k < l ELSE Dominates(f, f[i].label, f[j].label)

Sites(f) == UNION {{i} \X DOMAIN f[i].body : i \in DOMAIN f}

(* The sites where the expression of site <<i, k>> is available.            *)
AvailableAt(f, j, l) ==
  {<<i, k>> \in Sites(f) :
     /\ Expensive(f[i].body[k])
     /\ SameExpression(f[i].body[k], f[j].body[l])
     /\ Before(f, i, k, j, l)}

CommonEliminated(f) ==
  LET new(j, l) ==
        LET item == f[j].body[l]
            sites == AvailableAt(f, j, l)
            first == CHOOSE s \in sites : \A t \in sites :
                       s = t \/ Before(f, s[1], s[2], t[1], t[2])
        IN  IF Expensive(item) /\ f[j].label \in Reachable(f) /\ sites # {}
              THEN CopyOf(item, f[first[1]].body[first[2]].dst) ELSE item
  IN  MapItems(f, new)

-----------------------------------------------------------------------------
(* fuse_branches.py                                                         *)
InvertTest(op) ==
  CASE op = "==" -> "!=" [] op = "!=" -> "==" [] op = "<" -> ">=" [] op = ">=" -> "<"

Occurrences(values, v) == Cardinality({a \in DOMAIN values : values[a] = v})

(* Mutant: a phi's operand is not counted as a use.                         *)
UsesOutsidePhis(f, v) ==
  LET inBlock(n, b) == FoldLeft(LAMBDA m, item : m + Occurrences(item.args, v),
                                n + Occurrences(b.reads, v), b.body)
  IN  FoldLeft(inBlock, 0, f)

(* Every use of a value, an operand of a phi included.                      *)
Uses(f, v) ==
  LET inItems(n, b) == FoldLeft(LAMBDA m, item : m + Occurrences(item.args, v), n, b.body)
      inPhis(n, b) == FoldLeft(LAMBDA m, phi : m + Occurrences(phi.from, v), n, b.phis)
  IN  FoldLeft(LAMBDA n, b : inPhis(inItems(n + Occurrences(b.reads, v), b), b), 0, f)

IsComparison(item) == item.op = "binary" /\ item.extra \in Comparisons

FusedBranch(block, item, op) ==
  [block EXCEPT !.term = "cbranch_if", !.reads = item.args,
                !.test = IF block.test THEN op ELSE InvertTest(op)]

(* The comparison a branch alone depends on.                                *)
Fusible(f, block) ==
  {item \in ItemsOf(f) :
     /\ block.term = "branch_if"
     /\ item.dst = block.reads[1]
     /\ IsComparison(item)
     /\ Uses(f, item.dst) = 1}

BranchesFused(f) ==
  LET fused == UNION {Fusible(f, f[i]) : i \in DOMAIN f}
      new(block) == LET items == Fusible(f, block)
                    IN  IF items = {} THEN block
                        ELSE LET item == CHOOSE it \in items : TRUE
                             IN  FusedBranch(block, item, item.extra)
  IN  DropValues([i \in DOMAIN f |-> new(f[i])], {item.dst : item \in fused})

(* The pairs <<outer, inner>>, a branch depending on outer alone, which     *)
(* compares with zero a comparison that nothing else uses.                  *)
ZeroTested(f, outer) ==
  IF ConstantOf(f, outer.args[1]) = 0 THEN outer.args[2] ELSE outer.args[1]

ZeroOperand(f, outer) ==
  IF ConstantOf(f, outer.args[1]) = 0 THEN outer.args[1] ELSE outer.args[2]

ZeroTests(f, block) ==
  {pair \in Fusible(f, block) \X ItemsOf(f) :
     /\ pair[1].extra \in {"==", "!="}
     /\ ConstantOf(f, ZeroOperand(f, pair[1])) = 0
     /\ pair[2].dst = ZeroTested(f, pair[1])
     /\ IsComparison(pair[2])
     /\ Uses(f, pair[2].dst) = 1}

ZeroTestsFused(f) ==
  LET pairs == UNION {ZeroTests(f, f[i]) : i \in DOMAIN f}
      new(block) == LET tests == ZeroTests(f, block)
                    IN  IF tests = {} THEN block
                        ELSE LET pair == CHOOSE p \in tests : TRUE
                                 op == pair[2].extra
                             IN  FusedBranch(block, pair[2],
                                   IF pair[1].extra = "==" THEN InvertTest(op) ELSE op)
  IN  DropValues([i \in DOMAIN f |-> new(f[i])],
                 UNION {{pair[1].dst, pair[2].dst} : pair \in pairs})

-----------------------------------------------------------------------------
(* dce.py                                                                   *)
Pure == {"const", "copy", "binary"}

(* Read by a terminator or by an instruction that always stays.             *)
Roots(f) ==
  UNION ({ToSet(f[i].reads) : i \in DOMAIN f}
           \cup {ToSet(item.args) : item \in {it \in ItemsOf(f) : it.op \notin Pure}})

OperandsOf(f, v) ==
  UNION ({ToSet(item.args) : item \in {it \in ItemsOf(f) : it.dst = v}}
           \cup {Range(phi.from) : phi \in {p \in PhisOf(f) : p.dst = v}})

Required(f) ==
  FoldLeft(LAMBDA S, n : S \cup UNION {OperandsOf(f, v) : v \in S}, Roots(f), [n \in Value |-> n])

DeadRemoved(f) ==
  LET required == Required(f)
  IN  [i \in DOMAIN f |->
         [f[i] EXCEPT
            !.phis = SelectSeq(@, LAMBDA phi : phi.dst \in required),
            !.body = SelectSeq(@, LAMBDA item : item.op \notin Pure \/ item.dst \in required)]]
=============================================================================
