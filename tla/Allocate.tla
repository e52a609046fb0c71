------------------------------ MODULE Allocate ------------------------------
(***************************************************************************)
(* Where the backend keeps values: the liveness, the interference and the   *)
(* webs of copies of symphony/middle/ssa/allocate.py, and the registers and *)
(* slots prepare_frame of targets/symphony/backend.py gives to the webs.    *)
(*                                                                          *)
(* Code is a function without phis, a sequence of blocks                    *)
(*   [label, items, term, target]                                           *)
(* whose items [op, dst, args] end with the terminator.  Constants and      *)
(* addresses, which are computed again wherever they are read, and the      *)
(* result of a call that `halt` takes out of r1 are left out.               *)
(***************************************************************************)
EXTENDS Cfg, Integers, Sequences, FiniteSets, SequencesExt, TLC

Calls == {"call", "direct_call"}

(* A set of tuples as Python sorts it.                                      *)
Below(s, t) ==
  \E k \in DOMAIN s : s[k] < t[k] /\ \A j \in 1 .. k - 1 : s[j] = t[j]

Ordered(S) ==
  [n \in 1 .. Cardinality(S) |-> CHOOSE t \in S : Cardinality({s \in S : Below(s, t)}) = n - 1]

Places(code) == UNION {{<<i, k>> : k \in DOMAIN code[i].items} : i \in DOMAIN code}

At(code, p) == code[p[1]].items[p[2]]

Items(code) == {At(code, p) : p \in Places(code)}

(* Parameters are written by the prologue; a copy that writes one again     *)
(* does not end its life.                                                   *)
Lasting(code) == {x.dst : x \in {y \in Items(code) : y.op = "param"}} \cup {NoValue}

(* Values read in a block before they are written there.                    *)
Used(items, lasting) ==
  UNION {ToSet(items[k].args) \ ({items[j].dst : j \in 1 .. k - 1} \ lasting) :
           k \in DOMAIN items}

Written(items, lasting) == {x.dst : x \in ToSet(items)} \ lasting

Behind(code, i) == {IndexOf(code, s) : s \in Successors(code, i)}

UsedIn(code) ==
  UNION {{<<i, v>> : v \in Used(code[i].items, Lasting(code))} : i \in DOMAIN code}

(* Mutant: what is live in the successors of a block is forgotten.          *)
LiveInOfBlock(code) == UsedIn(code)

(* The fixed point, as pairs of a block and a value that is live when it    *)
(* starts: a value stays live on the way back from its use, along the edges *)
(* out of blocks that do not write it.                                      *)
RECURSIVE Grown(_, _)
Grown(live, edges) ==
  LET new == {e[1] : e \in {d \in edges : d[2] \in live}} \ live
  IN  IF new = {} THEN live ELSE Grown(live \cup new, edges)

LiveIn(code) ==
  LET used == UsedIn(code)
      through(i) == {p[2] : p \in used} \ Written(code[i].items, Lasting(code))
  IN  Grown(used, UNION {{<<<<i, v>>, <<s, v>>>> : s \in Behind(code, i), v \in through(i)} :
                           i \in DOMAIN code})

(* What is live behind each instruction, as pairs of its place and values.  *)
Liveness(code) ==
  LET later(p) == SubSeq(code[p[1]].items, p[2] + 1, Len(code[p[1]].items))
      end(in, p) == {q[2] : q \in {r \in in : r[1] \in Behind(code, p[1])}}
      lasting == Lasting(code)
  IN  {<<p, Used(later(p), lasting) \cup (end(in, p) \ Written(later(p), lasting))>> :
         p \in Places(code), in \in {LiveIn(code)}}

(* interference_graph: its edges, and the values that outlive a call.       *)
Interference(code, live) ==
  UNION {{{At(code, l[1]).dst, v} : v \in l[2] \ {At(code, l[1]).dst}} :
           l \in {m \in live : At(code, m[1]).dst # NoValue}}

AcrossCalls(code, live) ==
  UNION {l[2] : l \in {m \in live : At(code, m[1]).op \in Calls}}

-----------------------------------------------------------------------------
(* The values that need a home.                                             *)
Homeless(code) ==
  ((UNION {ToSet(x.args) : x \in Items(code)}) \cap {x.dst : x \in Items(code)}) \ {NoValue}

Score(code, web) ==
  LET of(p) == LET x == At(code, p)
               IN  (IF x.dst \in web THEN Len(x.args) ELSE 0)
                     + Cardinality({k \in DOMAIN x.args : x.args[k] \in web})
  IN  MapThenSumSet(of, Places(code))

(* copy_coalescing_groups: webs that a copy connects become one, those with *)
(* more copies between them first, unless they interfere.                   *)
Webs(code, graph) ==
  LET values == Homeless(code)
      copies == {p \in Places(code) :
                   /\ At(code, p).op = "copy" /\ At(code, p).dst \in values
                   /\ At(code, p).args[1] \in values \ {At(code, p).dst}}
      pair(p) == LET d == At(code, p).dst  a == At(code, p).args[1]
                 IN  IF d < a THEN <<d, a>> ELSE <<a, d>>
      weight(ends) == Cardinality({p \in copies : pair(p) = ends})
      order == Ordered({<<- weight(pair(p))>> \o pair(p) : p \in copies})
      merge(webs, item) ==
        LET left == CHOOSE w \in webs : item[2] \in w
            right == CHOOSE w \in webs : item[3] \in w
        IN  IF left = right \/ \E v \in left, w \in right : {v, w} \in graph
              THEN webs
              ELSE (webs \ {left, right}) \cup {left \cup right}
  IN  FoldLeft(merge, {{v} : v \in values}, order)

(* prepare_frame: the webs in the order of their conflicts take the first   *)
(* register no neighbour has, those that outlive a call a callee-saved one. *)
Colored(code, webs, graph, across, callerSaved, calleeSaved) ==
  LET near(w) == {x \in webs \ {w} : \E a \in w, b \in x : {a, b} \in graph}
      order == Ordered({<<- Cardinality(near(w)), - Score(code, w), Min(w)>> : w \in webs})
      place(homes, item) ==
        LET w == CHOOSE x \in webs : item[3] \in x
            taken == {homes[v] : v \in (UNION near(w)) \cap DOMAIN homes}
            choices == IF w \cap across # {} THEN calleeSaved
                                             ELSE callerSaved \o calleeSaved
            free == SelectSeq(choices, LAMBDA r : r \notin taken)
        IN  IF free = << >> THEN homes ELSE homes @@ [v \in w |-> free[1]]
  IN  FoldLeft(place, << >>, order)

(* A value left over has a slot of its own, the negative of its number.     *)
Homes(code, callerSaved, calleeSaved) ==
  LET live == Liveness(code)
      graph == Interference(code, live)
  IN  Colored(code, Webs(code, graph), graph, AcrossCalls(code, live), callerSaved, calleeSaved)
        @@ [v \in Homeless(code) |-> -v]

=============================================================================
