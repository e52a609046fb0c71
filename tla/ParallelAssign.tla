--------------------------- MODULE ParallelAssign ---------------------------
(***************************************************************************)
(* What a set of phi nodes promises on one CFG edge: every destination      *)
(* takes the value its source had BEFORE the edge, all at once, and no      *)
(* other SSA value changes.                                                 *)
(***************************************************************************)
EXTENDS Naturals

CONSTANTS Count,    \* the function's SSA values are 0 .. Count-1
          Contents   \* run-time contents of a value

VARIABLES store,     \* contents of the SSA values
          assigned,  \* has the edge been traversed?
          pairs      \* destination -> source, the phis of the edge

SsaValue == 0 .. Count-1

PInit ==
  /\ store \in [SsaValue -> Contents]
  /\ assigned = FALSE
  /\ pairs \in UNION {[D -> SsaValue] : D \in SUBSET SsaValue}

Assign ==
  /\ ~ assigned
  /\ assigned' = TRUE
  /\ store' = [v \in SsaValue |-> IF v \in DOMAIN pairs THEN store[pairs[v]]
                                                      ELSE store[v]]
  /\ UNCHANGED pairs

PSpec == PInit /\ [][Assign]_<<store, assigned, pairs>>
=============================================================================
