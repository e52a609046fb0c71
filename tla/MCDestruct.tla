----------------------------- MODULE MCDestruct -----------------------------
(***************************************************************************)
(* The SSA functions the runs of Destruct and Registers start from.         *)
(***************************************************************************)
EXTENDS Registers

SomeCallerSaved == <<3, 4>>
SomeCalleeSaved == <<8>>

BlockRec(label, phis, body, term, target, cond) ==
  [label |-> label, phis |-> phis, body |-> body, term |-> term,
   target |-> target, reads |-> IF cond = NoValue THEN << >> ELSE <<cond>>]

Param(v) == [op |-> "param", dst |-> v, args |-> << >>]
Compute(v, args) == [op |-> "unary", dst |-> v, args |-> args]
Use(args) == [op |-> "direct_call", dst |-> NoValue, args |-> args]
Binary(op, v, a, b) == [op |-> op, dst |-> v, args |-> <<a, b>>]
Call(v, target, args) == [op |-> "call", dst |-> v, args |-> <<target>> \o args]
Phi(v, from) == [dst |-> v, from |-> from]

-----------------------------------------------------------------------------
(* Every control-flow graph of four blocks: block b >= 2 starts with the    *)
(* phis x, y = 2b-1, 2b of two variables that every edge swaps.             *)
X(b) == 2 * b - 1
Y(b) == 2 * b

Terms(b) ==
  [term : {"jump"}, target : 2 .. 4]
    \cup [term : {"return"}, target : {0}]
    \cup (IF b < 4 THEN [term : {"branch_if"}, target : 2 .. 4]
                          \cup [term : {"fall"}, target : {0}]
                   ELSE {})

Skeleton(terms) ==
  [b \in 1 .. 4 |-> BlockRec(b, << >>, << >>, terms[b].term, terms[b].target, NoValue)]

SwapEverywhere(skeleton) ==
  [b \in 1 .. 4 |->
     LET preds == Predecessors(skeleton, b)
     IN  BlockRec(b,
           IF b = 1 THEN << >>
                    ELSE <<Phi(X(b), [p \in preds |-> Y(p)]), Phi(Y(b), [p \in preds |-> X(p)])>>,
           IF b = 1 THEN <<Param(1), Param(2)>> ELSE <<Use(<<X(b), Y(b)>>)>>,
           skeleton[b].term, skeleton[b].target,
           IF skeleton[b].term = "branch_if" THEN X(b) ELSE NoValue)]

AllShapes ==
  {SwapEverywhere(s) :
     s \in {k \in {Skeleton(<<t1, t2, t3, t4>>) :
                     t1 \in Terms(1), t2 \in Terms(2), t3 \in Terms(3), t4 \in Terms(4)} :
              Reachable(k) = 1 .. 4}}

-----------------------------------------------------------------------------
(* A counted loop, a self loop, and a diamond, with every choice of operands.*)
WhileLoop(a, b, c, d, x, y) ==
  <<BlockRec(1, << >>, <<Param(1), Param(2)>>, "jump", 2, NoValue),
    BlockRec(2, <<Phi(3, (1 :> a) @@ (3 :> c)), Phi(4, (1 :> b) @@ (3 :> d))>>, << >>,
             "branch_if", 4, 3),
    BlockRec(3, << >>, <<Compute(5, <<x>>)>>, "jump", 2, NoValue),
    BlockRec(4, << >>, << >>, "return", 0, y)>>

WhileLoops ==
  {WhileLoop(a, b, c, d, x, y) :
     a \in 1 .. 2, b \in 1 .. 2, c \in 3 .. 5, d \in 0 .. 5, x \in 1 .. 4, y \in 1 .. 4}

SelfLoop(a, b, c, d, x, y) ==
  <<BlockRec(1, << >>, <<Param(1), Param(2), Use(<<1>>)>>, "fall", 0, NoValue),
    BlockRec(2, <<Phi(3, (1 :> a) @@ (2 :> c)), Phi(4, (1 :> b) @@ (2 :> d))>>,
             <<Compute(5, <<x>>)>>, "branch_if", 2, 4),
    BlockRec(3, << >>, <<Use(<<3, 4>>)>>, "return", 0, y)>>

SelfLoops ==
  {SelfLoop(a, b, c, d, x, y) :
     a \in 1 .. 2, b \in 0 .. 2, c \in 3 .. 5, d \in 0 .. 5, x \in 3 .. 4, y \in {1, 5}}

(* Blocks 2 and 3 have one predecessor each but phis all the same.          *)
Diamond(a, b, c, d, e, f) ==
  <<BlockRec(1, << >>, <<Param(1), Param(2)>>, "branch_if", 3, 1),
    BlockRec(2, <<Phi(3, 1 :> a)>>, <<Use(<<3>>)>>, "jump", 4, NoValue),
    BlockRec(3, <<Phi(4, 1 :> b)>>, <<Use(<<4>>)>>, "fall", 0, NoValue),
    BlockRec(4, <<Phi(5, (2 :> c) @@ (3 :> d)), Phi(6, (2 :> e) @@ (3 :> f))>>,
             <<Use(<<5, 6>>)>>, "return", 0, NoValue)>>

Diamonds ==
  {Diamond(a, b, c, d, e, f) :
     a \in 1 .. 2, b \in 1 .. 2, c \in {1, 2, 3}, d \in {0, 1, 4}, e \in {0, 2, 3}, f \in {1, 2, 4}}

(* A loop inside a loop, the inner one entered through a block of its own.  *)
NestedLoop(a) ==
  <<BlockRec(1, << >>, <<Param(1)>>, "fall", 0, NoValue),
    BlockRec(2, << >>, << >>, "jump", 3, NoValue),
    BlockRec(3, <<Phi(2, (2 :> a) @@ (3 :> 3))>>, <<Compute(3, <<2>>)>>, "branch_if", 3, 3),
    BlockRec(4, << >>, << >>, "branch_if", 2, 3),
    BlockRec(5, << >>, << >>, "return", 0, NoValue)>>

-----------------------------------------------------------------------------
(* One block: parameters, and what they are used for.                       *)
Straight(n, body, y) ==
  <<BlockRec(1, << >>, [k \in 1 .. n |-> Param(k)] \o body, "return", 0, y)>>

(* Calls whose last arguments are any, with one on the stack or not, after  *)
(* which the result and maybe a parameter are used.                         *)
ManyCalls(Called(_)) ==
  {Straight(n, <<Called(<<1, 2, a, b, c>> \o more), Use(<<7, 3>>)>>, 7) :
     n \in {5, 6}, a \in 1 .. 4, b \in 1 .. 4, c \in 3 .. 5, more \in {<< >>, <<4>>}}

DirectCalls ==
  ManyCalls(LAMBDA args : [op |-> "direct_call", dst |-> 7, args |-> args])

(* Three parameters, in registers all of them, one of which is called.      *)
IndirectCalls ==
  {Straight(3, <<Call(4, t, <<a, b, c, d>>)>>, 4) :
     t \in 1 .. 3, a \in 1 .. 3, b \in 1 .. 3, c \in 1 .. 3, d \in 1 .. 3}

Binaries ==
  {Straight(3, <<Binary(p, 4, a, b), Binary("sub", 5, c, d), Use(<<e, 5>>)>>, 5) :
     p \in {"add", "sub"}, a \in 1 .. 3, b \in 1 .. 3, c \in {1, 4}, d \in 1 .. 4, e \in {2, 3}}

(* The arguments of a call that trade places among the argument registers.  *)
Trades(f) ==
  \E code \in {Code(Output(f))} : \E home \in {Homes(code, CallerSaved, CalleeSaved)} :
    \E x \in {y \in Items(code) : y.op = "call"} :
      LET of(k) == home[x.args[k + 1]]
      IN  \E S \in SUBSET (1 .. Len(x.args) - 1) \ {{}} :
            {of(k) : k \in S} = S /\ \A k \in S : of(k) # k

SafeCalls == {f \in IndirectCalls : ~ Trades(f)}

-----------------------------------------------------------------------------
Accepted(S) == {f \in S : Verified(f)}

CoalescedLoops == {f \in Accepted(WhileLoops) : CoalescingIsSafe(f)}

SafePrograms ==
  {f \in Accepted(SelfLoops) \cup Accepted(Diamonds) : CoalescingIsSafe(f)} \cup CoalescedLoops

StraightPrograms == Accepted(DirectCalls \cup SafeCalls \cup Binaries)

ShapesAndOperands == AllShapes \cup SafePrograms \cup StraightPrograms
=============================================================================
