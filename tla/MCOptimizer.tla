----------------------------- MODULE MCOptimizer -----------------------------
(***************************************************************************)
(* The functions and the toggles the runs of Optimizer start from.          *)
(***************************************************************************)
EXTENDS Optimizer

Block(label, phis, body, term, target, reads, test) ==
  [label |-> label, named |-> label # 1, phis |-> phis, body |-> body,
   term |-> term, target |-> target, reads |-> reads, test |-> test]

Phi(v, from) == [dst |-> v, from |-> from]
Item(op, v, args, extra) == [op |-> op, dst |-> v, args |-> args, extra |-> extra]
Param(v, n) == Item("param", v, << >>, n)
Const(v, c) == Item("const", v, << >>, c)
Binary(v, op, a, b) == Item("binary", v, <<a, b>>, op)
Call(args) == Item("call", NoValue, args, 0)

Jump(label, phis, body, target) == Block(label, phis, body, "jump", target, << >>, TRUE)
Fall(label, phis, body) == Block(label, phis, body, "fall", 0, << >>, TRUE)
Return(label, phis, body, v) == Block(label, phis, body, "return", 0, <<v>>, TRUE)
Branch(label, phis, body, test, v, target) ==
  Block(label, phis, body, "branch_if", target, <<v>>, test)

-----------------------------------------------------------------------------
(* A condition on a parameter and a constant, a product on one side.        *)
Diamond(c, op, x, test, a, b) ==
  <<Branch(1, << >>, <<Param(1, 1), Const(2, c), Binary(3, op, x, 2)>>, test, 3, 3),
    Jump(2, << >>, <<Const(4, 1)>>, 4),
    Fall(3, << >>, <<Binary(5, "*", 1, 1)>>),
    Return(4, <<Phi(6, (2 :> a) @@ (3 :> b))>>,
           <<Binary(7, "*", 1, 1), Call(<<6, 7>>)>>, 6)>>

Diamonds ==
  {Diamond(c, op, x, test, a, b) :
     c \in {1, 3}, op \in {"==", "<", "-"}, x \in 1 .. 2, test \in BOOLEAN,
     a \in {3, 4}, b \in {2, 5}}

(* A counted loop whose test is compared with zero once more.               *)
Loop(c, cmp, k, zero, test, op, y, r) ==
  <<Fall(1, << >>, <<Param(1, 1), Const(2, c)>>),
    Branch(2, <<Phi(3, (1 :> 2) @@ (3 :> 5)), Phi(8, (1 :> NoValue) @@ (3 :> 3))>>,
           <<Binary(4, cmp, 3, k), Const(6, 0), Binary(7, zero, 4, 6)>>, test, 7, 4),
    Jump(3, << >>, <<Binary(5, op, 3, y), Call(<<3>>)>>, 2),
    Return(4, << >>, << >>, r)>>

CallingLoops ==
  {Loop(c, cmp, k, zero, test, op, y, 8) :
     c \in {0, 1}, cmp \in {"<", "=="}, k \in 1 .. 2, zero \in {"==", "!="},
     test \in BOOLEAN, op \in {"+", "-"}, y \in 1 .. 2}

(* A loop that does nothing but count from c in steps of one while it is    *)
(* below k, with its test in front or behind, entered on one way of a       *)
(* branch.                                                                  *)
CountingWhile(c, k, r) ==
  <<Branch(1, << >>, <<Param(1, 1), Const(2, c), Const(3, k), Const(4, 1)>>, FALSE, 1, 6),
    Fall(2, << >>, << >>),
    Branch(3, <<Phi(5, (2 :> 2) @@ (4 :> 7))>>, <<Binary(6, "<", 5, 3)>>, FALSE, 6, 5),
    Jump(4, << >>, <<Binary(7, "+", 5, 4)>>, 3),
    Jump(5, << >>, <<Call(<<r>>)>>, 6),
    Return(6, << >>, << >>, 1)>>

CountingDo(c, k, r) ==
  <<Branch(1, << >>, <<Param(1, 1), Const(2, c), Const(3, k), Const(4, 1)>>, FALSE, 1, 3),
    Jump(2, << >>, <<Call(<<1>>)>>, 6),
    Fall(3, << >>, << >>),
    Branch(4, <<Phi(5, (3 :> 2) @@ (4 :> 7))>>,
           <<Binary(7, "+", 5, 4), Binary(6, "<", 7, 3)>>, TRUE, 6, 4),
    Fall(5, << >>, <<Call(<<r>>)>>),
    Return(6, << >>, << >>, 1)>>

CountingLoops ==
  {CountingWhile(c, k, r) : c \in 0 .. 1, k \in 0 .. 3, r \in {2, 5}}
    \cup {CountingDo(c, k, r) : c \in 0 .. 1, k \in 0 .. 3, r \in {2, 5, 7}}

(* A loop that multiplies what does not change in it, in the order of the   *)
(* text or not.                                                             *)
Multiplying(a, op, swapped, r) ==
  LET use == Jump(4, << >>, <<Binary(6, "+", 5, 3), Binary(7, "-", 4, 6), Call(<<r>>)>>, 2)
      def == Jump(5, << >>, <<Binary(5, op, 1, a)>>, 4)
  IN  <<Fall(1, << >>, <<Param(1, 1), Param(2, 2), Const(3, 1)>>),
        Branch(2, <<Phi(4, (1 :> 1) @@ (4 :> 7))>>, << >>, TRUE, 4, 5),
        Return(3, << >>, << >>, 4)>>
        \o (IF swapped THEN <<use, def>> ELSE <<def, use>>)

MultiplyingLoops ==
  {Multiplying(a, op, swapped, r) :
     a \in 1 .. 3, op \in {"*", "/", "%"}, swapped \in BOOLEAN, r \in {2, 6}}

(* Two products, one at a time, of a value that is needed afterwards too.   *)
Pressing(op) ==
  <<Fall(1, << >>, <<Param(1, 1), Param(2, 2), Const(3, 1)>>),
    Branch(2, <<Phi(4, (1 :> 2) @@ (3 :> 7))>>, << >>, TRUE, 4, 4),
    Jump(3, << >>, <<Binary(5, op, 1, 1), Call(<<5>>), Binary(6, "+", 1, 3),
                     Binary(7, "-", 4, 6)>>, 2),
    Return(4, << >>, << >>, 1)>>

(* A loop in a loop, both with something that does not change.              *)
Nested(first, op, c) ==
  <<Fall(1, << >>, <<first, Const(2, c), Const(3, 1)>>),
    Fall(2, <<Phi(4, (1 :> 2) @@ (4 :> 7))>>, << >>),
    Branch(3, <<Phi(5, (2 :> 2) @@ (3 :> 6))>>,
           <<Binary(8, op, 1, 4), Binary(6, "+", 5, 8), Binary(9, "<", 6, 3)>>, TRUE, 9, 3),
    Branch(4, << >>, <<Binary(10, op, 1, 1), Binary(7, "+", 4, 3), Call(<<6, 10>>)>>, FALSE, 7, 2),
    Return(5, << >>, << >>, 7)>>

NestedLoops ==
  {Nested(first, op, c) : first \in {Param(1, 1), Const(1, 1)}, op \in {"*", "-"}, c \in 0 .. 1}

(* A sum over at most k iterations, with a condition on a parameter or on   *)
(* the count in each, which skips the call or leaves the loop.              *)
Summing(k, v, r) ==
  <<Fall(1, << >>, <<Param(1, 1), Param(2, 2), Const(3, 0), Const(4, 1), Const(5, k)>>),
    Branch(2, <<Phi(6, (1 :> 3) @@ (5 :> 12)), Phi(7, (1 :> 1) @@ (5 :> 11))>>,
           <<Binary(8, "<", 6, 5)>>, FALSE, 8, 6),
    Branch(3, << >>, <<Binary(9, "+", 7, 2)>>, TRUE, v, 5),
    Fall(4, << >>, <<Binary(10, "*", 9, 2), Call(<<6>>)>>),
    Jump(5, <<Phi(11, (3 :> 9) @@ (4 :> 10))>>, <<Binary(12, "+", 6, 4)>>, 2),
    Return(6, << >>, << >>, r)>>

Leaving(k, v, r) ==
  <<Fall(1, << >>, <<Param(1, 1), Param(2, 2), Const(3, 0), Const(4, 1), Const(5, k)>>),
    Branch(2, <<Phi(6, (1 :> 3) @@ (4 :> 12)), Phi(7, (1 :> 1) @@ (4 :> 10))>>,
           <<Binary(8, "<", 6, 5)>>, FALSE, 8, 6),
    Branch(3, << >>, <<Binary(9, "+", 7, 2)>>, TRUE, v, 6),
    Jump(4, << >>, <<Binary(10, "*", 9, 2), Call(<<6>>), Binary(12, "+", 6, 4)>>, 2),
    Return(6, <<Phi(11, (2 :> 7) @@ (3 :> 9))>>, << >>, r)>>

(* One block, left after k iterations.                                      *)
Repeating(k, r) ==
  <<Fall(1, << >>, <<Param(1, 1), Const(2, 0), Const(3, k), Const(4, 1)>>),
    Branch(2, <<Phi(5, (1 :> 2) @@ (2 :> 7)), Phi(8, (1 :> 1) @@ (2 :> 9))>>,
           <<Binary(9, "+", 8, 5), Binary(7, "+", 5, 4), Binary(6, "<", 7, 3)>>, TRUE, 6, 2),
    Return(3, << >>, << >>, r)>>

UnrolledLoops ==
  {Summing(k, v, r) : k \in 1 .. 3, v \in {2, 6}, r \in 6 .. 8}
    \cup {Leaving(k, v, r) : k \in 1 .. 3, v \in {2, 6}, r \in {6, 7, 8, 11}}
    \cup {Repeating(k, r) : k \in 1 .. 2, r \in 8 .. 9}

(* What strength.py knows, and an identity of algebra.py behind it.         *)
Power(op, c, a, b, next) ==
  <<Return(1, << >>, <<Param(1, 1), Const(2, c), Binary(3, op, a, b), Binary(4, next, 3, 2),
                       Call(<<3>>)>>, 4)>>

Powers ==
  {Power(op, c, a, b, next) :
     op \in {"*", "/", "%"}, c \in 0 .. 3, a \in 1 .. 2, b \in 1 .. 2,
     next \in {"&", ">>"}}

(* The same product before a branch, on both sides of it and behind it.     *)
Product(before, op, a, b, sense) ==
  <<Branch(1, << >>, <<Param(1, 1), Param(2, 2)>> \o before, sense, 2, 3),
    Jump(2, << >>, <<Binary(4, op, a, b), Call(<<4>>)>>, 4),
    Fall(3, << >>, <<Binary(5, op, 1, 2), Call(<<5, 2>>)>>),
    Return(4, <<Phi(6, (2 :> 4) @@ (3 :> 5))>>, <<Binary(7, op, 2, 1), Call(<<6>>)>>, 7)>>

Products ==
  {Product(before, op, a, b, sense) :
     before \in {<< >>, <<Binary(3, "*", 1, 2)>>}, op \in {"*", "/", "+"},
     a \in 1 .. 2, b \in 1 .. 2, sense \in BOOLEAN}

(* One way of a branch leads straight to where the other way ends.          *)
Shortcut(a, b, n, v) ==
  <<Branch(1, << >>, <<Param(1, 1), Param(2, 2)>>, TRUE, 1, 3),
    Fall(2, << >>, <<Item("copy", 3, <<v>>, 0)>>),
    Return(3, <<Phi(4, (1 :> a) @@ (2 :> b))>>, [k \in 1 .. n |-> Call(<<4>>)], 4)>>

Shortcuts(operands) ==
  {Shortcut(o[1], o[2], n, v) : o \in operands, n \in 0 .. 1, v \in 1 .. 2}

-----------------------------------------------------------------------------
(* Every control-flow graph of four blocks whose branches have two          *)
(* successors and whose entry ends in one, blocks 2 to 4 empty or with a    *)
(* call.  A block that calls has a phi, with another operand for every      *)
(* predecessor.                                                              *)
Terms(b) ==
  (IF b = 4 THEN {} ELSE [term : {"branch_if"}, target : (2 .. 4) \ {b + 1}])
    \cup (IF b = 1 THEN {} ELSE [term : {"jump"}, target : 2 .. 4]
                                  \cup [term : {"return"}, target : {0}])
    \cup (IF b \in {1, 4} THEN {} ELSE [term : {"fall"}, target : {0}])

Skeleton(terms) ==
  [b \in 1 .. 4 |-> Block(b, << >>, << >>, terms[b].term, terms[b].target, << >>, TRUE)]

Filled(skeleton, calls) ==
  [b \in 1 .. 4 |->
     LET preds == Predecessors(skeleton, b)
         calling == b \in calls
     IN  [skeleton[b] EXCEPT
            !.phis = IF calling THEN <<Phi(4 + b, [p \in preds |-> p])>> ELSE << >>,
            !.body = CASE b = 1 -> <<Param(1, 1), Param(2, 2), Const(3, 2), Const(4, 3)>>
                       [] calling -> <<Call(<<4 + b>>)>>
                       [] OTHER -> << >>,
            !.reads = IF skeleton[b].term \in {"branch_if", "return"}
                        THEN <<IF calling THEN 4 + b ELSE 1>> ELSE << >>]]

(* Empty blocks that jump around in a ring: _thread_jumps never ends there. *)
HasRing(f) ==
  \E i \in DOMAIN f : \A label \in ReachableFrom(f, i) :
    /\ IsTrampoline(BlockOf(f, label))
    /\ BlockOf(f, label).target # label

Skeletons ==
  {Skeleton(<<t1, t2, t3, t4>>) :
     t1 \in Terms(1), t2 \in Terms(2), t3 \in Terms(3), t4 \in Terms(4)}

(* One of the blocks 2 to 4 calls, all of them do, or none.                 *)
Callings == {calls \in SUBSET (2 .. 4) : Cardinality(calls) # 2}

AllShapes == {Filled(s, calls) : s \in Skeletons, calls \in Callings}

Accepted(S) == {f \in S : Verified(f)}

Shapes == {f \in Accepted(AllShapes) : ~ HasRing(f)}

-----------------------------------------------------------------------------
Representatives ==
  {Diamond(3, "==", 1, FALSE, 4, 5), Diamond(1, "-", 2, TRUE, 1, 5),
   Loop(0, "<", 1, "==", FALSE, "+", 3, 8), Product(<<Binary(3, "*", 1, 2)>>, "*", 2, 1, TRUE),
   CountingDo(0, 3, 7), Multiplying(2, "*", FALSE, 6), Summing(2, 2, 7)}

(* Everything on, for every function; one pass, or all but one, for some;   *)
(* and simplify_control_flow alone, for every shape.                        *)
Toggles == {S \in SUBSET AllPasses : Cardinality(S) \notin 2 .. Cardinality(AllPasses) - 2}

AllJobs ==
  ((Accepted(Diamonds \cup CallingLoops \cup Products
              \cup CountingLoops \cup MultiplyingLoops \cup NestedLoops
              \cup UnrolledLoops \cup Powers \cup {Pressing("*"), Pressing("/")}) \cup Shortcuts({<<1, 2>>, <<2, 3>>}))
      \X {AllPasses})
    \cup (Representatives \X Toggles)
    \cup (Accepted(UnrolledLoops) \X {{SCCP, UnrollLoops}, {UnrollLoops, Copies}})
    \cup (Shapes \X {{Simplify}})

SomeInputs == {<<0, 1>>, <<2, 3>>, <<3, 1>>}
=============================================================================
