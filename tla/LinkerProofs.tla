---------------------------- MODULE LinkerProofs ----------------------------
(***************************************************************************)
(* What holds of the linker whatever the objects, the archives and their    *)
(* order: it leaves nothing out of the archives (its rounds stop only when  *)
(* one of them took nothing, and then `needed` was still what is wanted and *)
(* not there); a program has the stubs its far jumps need and no others;    *)
(* and the size tables of the assembler agree with its encoders.            *)
(***************************************************************************)
EXTENDS Linker, Lemmas, FiniteSetTheorems

AllNames == UNION {o.undefined : o \in AllObjects}

AllUnits == {o.unit : o \in AllObjects}

Searches ==
  [needed : SUBSET AllNames, member : Nat \ {0}, changed : BOOLEAN, included : SUBSET AllUnits]

Typed ==
  /\ job \in Jobs
  /\ objects \in Seq(AllObjects) /\ Len(job.objects) <= Len(objects)
  /\ archive \in Nat \ {0}
  /\ search \in Searches

Satisfied(k, a) ==
  \A m \in DOMAIN job.archives[a] :
    objects[k].undefined \cap Exports(job.archives[a][m]) \subseteq Defined

(* The archives behind have nothing left that is wanted.                    *)
Closed ==
  \A a \in DOMAIN job.archives :
    a < archive => \A k \in DOMAIN objects : Satisfied(k, a) \/ FromLater(k, a)

(* What was taken from the archive is there.                                *)
Taken ==
  archive \in DOMAIN job.archives =>
    \A m \in DOMAIN Members :
      Members[m].unit \in search.included => Exports(Members[m]) \subseteq Defined

(* The members a round has looked at so far without taking any.             *)
Passed ==
  phase = "round" =>
    /\ archive \in DOMAIN job.archives
    /\ ~ search.changed =>
         /\ search.needed = Undefined \ Defined
         /\ \A m \in DOMAIN Members :
              m < search.member =>
                Members[m].unit \in search.included \/ Exports(Members[m]) \cap search.needed = {}

Searched == phase \notin {"search", "round"} => archive > Len(job.archives)

IInv == Typed /\ Closed /\ Taken /\ Passed /\ Searched

-----------------------------------------------------------------------------

(* What the assumption on the jobs says of the one at hand:                 *)
LEMMA JobTypes ==
  ASSUME Typed
  PROVE  /\ job.objects \in Seq(AllObjects)
         /\ job.archives \in Seq(Seq(AllObjects))
         /\ \A a \in DOMAIN job.archives : \A m, n \in DOMAIN job.archives[a] :
              job.archives[a][m].unit = job.archives[a][n].unit => m = n
BY JobsAssumption DEF Typed

(* what is missing is a set of names,                                       *)
LEMMA NamesTyped ==
  ASSUME Typed
  PROVE  Undefined \ Defined \in SUBSET AllNames
BY DEF Typed, Undefined, AllNames

(* With one object more, what was there is there, and what was satisfied.   *)
LEMMA Appended ==
  ASSUME Typed, NEW m \in AllObjects, objects' = Append(objects, m), job' = job
  PROVE  /\ objects' \in Seq(AllObjects) /\ Len(objects') = Len(objects) + 1
         /\ objects'[Len(objects) + 1] = m
         /\ \A k \in DOMAIN objects : k \in DOMAIN objects' /\ objects'[k] = objects[k]
         /\ \A k \in DOMAIN objects' : k \in DOMAIN objects \/ k = Len(objects) + 1
         /\ Defined \subseteq Defined' /\ Exports(m) \subseteq Defined'
<1>1. /\ objects' \in Seq(AllObjects) /\ Len(objects') = Len(objects) + 1
      /\ objects'[Len(objects) + 1] = m
      /\ \A k \in DOMAIN objects : k \in DOMAIN objects' /\ objects'[k] = objects[k]
      /\ \A k \in DOMAIN objects' : k \in DOMAIN objects \/ k = Len(objects) + 1
  BY DEF Typed
<1>2. Len(objects) + 1 \in DOMAIN objects'
  BY <1>1 DEF Typed
<1>3. Defined' = UNION {Exports(objects'[k]) : k \in DOMAIN objects'}
  BY DEF Defined, Exports
<1>4. Defined \subseteq Defined'
  BY <1>1, <1>3 DEF Defined
<1>5. Exports(m) \subseteq Defined'
  BY <1>1, <1>2, <1>3
<1> QED
  BY <1>1, <1>4, <1>5

-----------------------------------------------------------------------------

(* The invariant holds before the first archive,                            *)
LEMMA Initially == LinkInit => IInv
<1> SUFFICES ASSUME LinkInit PROVE IInv
  OBVIOUS
<1>1. Typed
  BY JobsAssumption DEF LinkInit, Typed, Searches
<1>2. Closed
  <2>1. \A a \in DOMAIN job.archives : ~ (a < archive)
    BY <1>1, JobTypes DEF LinkInit
  <2> QED
    BY <2>1 DEF Closed
<1>3. Taken
  BY DEF LinkInit, Taken
<1> QED
  BY <1>1, <1>2, <1>3 DEF LinkInit, IInv, Passed, Searched

(* A step that leaves the search as it is.                                  *)
LEMMA Aside ==
  ASSUME IInv, UNCHANGED <<job, objects, archive, search>>,
         phase' \notin {"search", "round"}, archive > Len(job.archives)
  PROVE  IInv'
<1>1. Typed'
  BY DEF IInv, Typed
<1>2. Closed'
  BY DEF IInv, Closed, Satisfied, FromLater, Defined, Exports
<1>3. Taken'
  BY DEF IInv, Taken, Members, Defined, Exports
<1> QED
  BY <1>1, <1>2, <1>3 DEF IInv, Passed, Searched

(* a new round starts from what is wanted and not there,                    *)
LEMMA RoundStarts == ASSUME IInv, StartRound PROVE IInv'
<1> USE DEF StartRound
<1>1. Undefined' = Undefined /\ Defined' = Defined
  BY DEF Undefined, Defined, Exports
<1>2. Typed'
  BY NamesTyped DEF IInv, Typed, Searches
<1>3. Closed'
  BY <1>1 DEF IInv, Closed, Satisfied, FromLater, Exports
<1>4. Taken'
  BY <1>1 DEF IInv, Taken, Members, Exports
<1>5. Passed'
  <2>1. archive' \in DOMAIN job'.archives
    BY JobTypes DEF IInv, Typed
  <2>2. search'.needed = Undefined' \ Defined' /\ search'.member = 1
    BY <1>1
  <2>3. \A m \in DOMAIN Members' : ~ (m < search'.member)
    BY <2>1, <2>2, JobTypes DEF IInv, Typed, Members
  <2> QED
    BY <2>1, <2>2, <2>3 DEF Passed
<1> QED
  BY <1>2, <1>3, <1>4, <1>5 DEF IInv, Searched

(* A member that something wants is included; of the others one knows why.  *)
LEMMA MemberConsidered == ASSUME IInv, ConsiderMember PROVE IInv'
<1> DEFINE m == Members[search.member]
           wanted == m.unit \notin search.included /\ Exports(m) \cap search.needed # {}
<1> USE DEF ConsiderMember
<1>1. /\ Typed /\ archive \in DOMAIN job.archives /\ archive \in Nat
      /\ search.member \in DOMAIN Members /\ m \in AllObjects
      /\ Members \in Seq(AllObjects) /\ Members' = Members
  BY JobTypes DEF IInv, Typed, Searches, Passed, Members
<1>2. CASE ~ wanted
  <2>1. /\ objects' = objects /\ Undefined' = Undefined /\ Defined' = Defined
        /\ search'.needed = search.needed /\ search'.changed = search.changed
        /\ search'.included = search.included /\ search'.member = search.member + 1
    BY <1>2, <1>1 DEF Typed, Searches, Undefined, Defined, Exports
  <2>2. Typed'
    <3>1. /\ search \in Searches
          /\ search.member + 1 \in Nat \ {0} /\ search.changed \in BOOLEAN
          /\ search.included \in SUBSET AllUnits
      BY <1>1 DEF Typed, Searches
    <3>2. search' = [search EXCEPT !.member = search.member + 1, !.changed = search.changed,
                                   !.included = search.included]
      BY <1>2, <3>1
    <3>3. search' \in Searches
      BY <3>1, <3>2 DEF Searches
    <3> QED
      BY <3>3, <2>1, <1>1 DEF Typed
  <2>3. Closed'
    BY <2>1 DEF IInv, Closed, Satisfied, FromLater, Exports
  <2>4. Taken'
    BY <2>1, <1>1 DEF IInv, Taken, Exports
  <2>5. Passed'
    <3>1. ASSUME ~ search.changed, NEW n \in DOMAIN Members, n < search.member + 1
          PROVE  Members[n].unit \in search.included \/ Exports(Members[n]) \cap search.needed = {}
      <4>1. n < search.member \/ n = search.member
        BY <3>1, <1>1 DEF Typed
      <4>2. CASE n = search.member
        BY <4>2, <1>2
      <4>3. CASE n < search.member
        BY <4>3, <3>1 DEF IInv, Passed
      <4> QED
        BY <4>1, <4>2, <4>3
    <3> QED
      BY <3>1, <2>1, <1>1 DEF IInv, Passed, Exports
  <2> QED
    BY <2>2, <2>3, <2>4, <2>5 DEF IInv, Searched
<1>3. CASE wanted
  <2>1. /\ objects' = Append(objects, m) /\ job' = job /\ archive' = archive
        /\ search'.changed = TRUE /\ search'.included = search.included \cup {m.unit}
    BY <1>3, <1>1 DEF Typed, Searches
  <2>2. /\ objects' \in Seq(AllObjects) /\ Len(objects') = Len(objects) + 1
        /\ objects'[Len(objects) + 1] = m
        /\ \A k \in DOMAIN objects : k \in DOMAIN objects' /\ objects'[k] = objects[k]
        /\ \A k \in DOMAIN objects' : k \in DOMAIN objects \/ k = Len(objects) + 1
        /\ Defined \subseteq Defined' /\ Exports(m) \subseteq Defined'
    BY <2>1, <1>1, Appended
  <2>3. Typed'
    <3>1. m.unit \in AllUnits
      BY <1>1 DEF AllUnits
    <3>2. /\ search \in Searches
          /\ search.member + 1 \in Nat \ {0} /\ TRUE \in BOOLEAN
          /\ search.included \cup {m.unit} \in SUBSET AllUnits
      BY <3>1, <1>1 DEF Typed, Searches
    <3>3. search' = [search EXCEPT !.member = search.member + 1, !.changed = TRUE,
                                   !.included = search.included \cup {m.unit}]
      BY <1>3, <3>2 DEF Searches
    <3>4. search' \in Searches
      BY <3>2, <3>3 DEF Searches
    <3>5. Len(job.objects) <= Len(objects')
      BY <2>2, <1>1, JobTypes DEF Typed
    <3> QED
      BY <3>4, <3>5, <2>1, <2>2, <1>1 DEF Typed
  <2>4. Closed'
    <3>1. SUFFICES ASSUME NEW a \in DOMAIN job.archives, a < archive, NEW k \in DOMAIN objects'
                   PROVE  Satisfied(k, a)' \/ FromLater(k, a)'
      BY <2>1 DEF Closed
    <3>2. CASE k \in DOMAIN objects
      <4>1. objects'[k] = objects[k]
        BY <3>2, <2>2
      <4>2. Satisfied(k, a) \/ FromLater(k, a)
        BY <3>1, <3>2 DEF IInv, Closed
      <4>3. Satisfied(k, a) => Satisfied(k, a)'
        BY <4>1, <2>1, <2>2 DEF Satisfied, Exports
      <4>4. FromLater(k, a) => FromLater(k, a)'
        <5>1. job' = job
          BY <2>1
        <5> QED
          BY <4>1, <5>1, Zenon DEF FromLater
      <4> QED
        BY <4>2, <4>3, <4>4
    <3>3. CASE k = Len(objects) + 1
      <4>1. k > Len(job.objects)
        BY <3>3, <1>1, JobTypes DEF Typed
      <4>2. job.archives[archive][search.member] = objects'[k]
        BY <3>3, <2>2 DEF Members
      <4>3. archive > a
        BY <3>1, <1>1, JobTypes
      <4>4. search.member \in DOMAIN job.archives[archive] /\ archive \in DOMAIN job.archives
        BY <1>1 DEF Members
      <4>5. job' = job
        BY <2>1
      <4> QED
        BY <4>1, <4>2, <4>3, <4>4, <4>5, Zenon DEF FromLater
    <3> QED
      BY <3>2, <3>3, <2>2
  <2>5. Taken'
    <3>1. SUFFICES ASSUME NEW n \in DOMAIN Members,
                          Members[n].unit \in search.included \cup {m.unit}
                   PROVE  Exports(Members[n]) \subseteq Defined'
      BY <2>1, <1>1 DEF Taken, Exports
    <3>2. CASE Members[n].unit \in search.included
      BY <3>2, <2>2, <1>1 DEF IInv, Taken
    <3>3. CASE Members[n].unit = m.unit
      <4>1. n = search.member
        BY <3>3, <1>1, JobTypes DEF Members
      <4> QED
        BY <4>1, <2>2
    <3> QED
      BY <3>1, <3>2, <3>3
  <2>6. Passed'
    BY <2>1, <1>1 DEF Passed
  <2> QED
    BY <2>3, <2>4, <2>5, <2>6 DEF IInv, Searched
<1> QED
  BY <1>2, <1>3

(* A round that took nothing leaves nothing.                                *)
LEMMA RoundEnds == ASSUME IInv, EndRound PROVE IInv'
<1> USE DEF EndRound
<1>1. /\ Typed /\ archive \in DOMAIN job.archives /\ archive \in Nat
      /\ Members \in Seq(AllObjects)
  BY JobTypes DEF IInv, Typed, Passed, Members
<1>2. Undefined' = Undefined /\ Defined' = Defined
  BY DEF Undefined, Defined, Exports
<1>3. CASE search.changed
  <2>1. Typed'
    BY <1>3, <1>1 DEF Typed
  <2>2. Closed'
    BY <1>2, <1>3 DEF IInv, Closed, Satisfied, FromLater, Exports
  <2>3. Taken'
    BY <1>2, <1>3 DEF IInv, Taken, Members, Exports
  <2> QED
    BY <2>1, <2>2, <2>3 DEF IInv, Passed, Searched
<1>4. CASE ~ search.changed
  <2>1. archive' = archive + 1 /\ search'.included = {}
    BY <1>4, <1>1 DEF Typed
  <2>2. Typed'
    <3>1. search' \in Searches
      BY <1>4, <1>1 DEF Typed, Searches
    <3>2. archive' \in Nat \ {0} /\ job' = job /\ objects' = objects
      BY <2>1, <1>1
    <3> QED
      BY <3>1, <3>2, <1>1 DEF Typed
  <2>3. ASSUME NEW k \in DOMAIN objects PROVE Satisfied(k, archive)
    <3>1. SUFFICES ASSUME NEW m \in DOMAIN Members
                   PROVE  objects[k].undefined \cap Exports(Members[m]) \subseteq Defined
      BY DEF Satisfied, Members
    <3>2. m < search.member
      BY <1>1 DEF Typed, Searches
    <3>3. CASE Members[m].unit \in search.included
      BY <3>3, <1>1 DEF IInv, Taken
    <3>4. CASE Exports(Members[m]) \cap search.needed = {}
      <4>1. search.needed = Undefined \ Defined
        BY <1>4 DEF IInv, Passed
      <4>2. objects[k].undefined \subseteq Undefined
        BY DEF Undefined
      <4> QED
        BY <3>4, <4>1, <4>2
    <3> QED
      BY <3>2, <3>3, <3>4, <1>4 DEF IInv, Passed
  <2>4. Closed'
    <3>1. SUFFICES ASSUME NEW a \in DOMAIN job.archives, a < archive + 1, NEW k \in DOMAIN objects
                   PROVE  Satisfied(k, a) \/ FromLater(k, a)
      BY <1>2, <2>1 DEF Closed, Satisfied, FromLater, Exports
    <3>2. a < archive \/ a = archive
      BY <3>1, <1>1, JobTypes
    <3> QED
      BY <3>2, <2>3 DEF IInv, Closed
  <2>5. Taken'
    BY <2>1 DEF Taken
  <2> QED
    BY <2>2, <2>4, <2>5 DEF IInv, Passed, Searched
<1> QED
  BY <1>3, <1>4

(* A step that changes nothing keeps it.                                    *)
LEMMA Stutters == ASSUME IInv, UNCHANGED vars PROVE IInv'
<1> USE DEF vars
<1>1. Undefined' = Undefined /\ Defined' = Defined
  BY DEF Undefined, Defined, Exports
<1>2. Typed'
  BY DEF IInv, Typed
<1>3. Closed'
  BY <1>1 DEF IInv, Closed, Satisfied, FromLater, Exports
<1>4. Taken' /\ Passed'
  BY <1>1 DEF IInv, Taken, Passed, Members, Exports
<1> QED
  BY <1>2, <1>3, <1>4 DEF IInv, Searched

-----------------------------------------------------------------------------
(* IInv holds throughout a link (symphony_ld.py:76-102).                    *)
THEOREM Invariance == LinkSpec => []IInv
<1>1. IInv /\ [LinkNext]_vars => IInv'
  <2>1. SUFFICES ASSUME IInv, [LinkNext]_vars PROVE IInv'
    OBVIOUS
  <2>2. CASE StartRound
    BY <2>1, <2>2, RoundStarts
  <2>3. CASE ConsiderMember
    BY <2>1, <2>3, MemberConsidered
  <2>4. CASE EndRound
    BY <2>1, <2>4, RoundEnds
  <2>5. CASE CheckWidth
    <3>1. archive > Len(job.archives)
      BY <2>5, JobTypes, <2>1 DEF CheckWidth, IInv, Typed
    <3> QED
      BY <2>1, <2>5, <3>1, Aside DEF CheckWidth, Raise
  <2>6. CASE SolveStubs
    BY <2>1, <2>6, Aside DEF SolveStubs, Raise, IInv, Searched
  <2>7. CASE LayOut
    BY <2>1, <2>7, Aside DEF LayOut, Raise, IInv, Searched
  <2>8. CASE Relocate
    BY <2>1, <2>8, Aside DEF Relocate, Raise, IInv, Searched
  <2>9. CASE Finish
    BY <2>1, <2>9, Aside DEF Finish, IInv, Searched
  <2>10. CASE UNCHANGED vars
    BY <2>1, <2>10, Stutters
  <2> QED
    BY <2>1, <2>2, <2>3, <2>4, <2>5, <2>6, <2>7, <2>8, <2>9, <2>10 DEF LinkNext
<1> QED
  BY Initially, <1>1, PTL DEF LinkSpec

(* When the archives have been searched, whatever an object wants that one  *)
(* of them defines is there, unless the object came out of a later archive, *)
(* for any objects and archives (symphony_ld.py:76-78, 88-102).             *)
THEOREM NothingLeftOutTheorem == LinkSpec => []NothingLeftOut
<1>1. IInv => NothingLeftOut
  <2>1. SUFFICES ASSUME IInv, phase \notin {"search", "round"},
                        NEW k \in DOMAIN objects, NEW a \in DOMAIN job.archives
                 PROVE  Satisfied(k, a) \/ FromLater(k, a)
    BY DEF NothingLeftOut, Satisfied
  <2>2. a < archive
    BY <2>1, JobTypes DEF IInv, Searched, Typed
  <2> QED
    BY <2>1, <2>2 DEF IInv, Closed
<1> QED
  BY Invariance, <1>1, PTL
-----------------------------------------------------------------------------
(* The stubs.  What symbols are called does not depend on where they lie,   *)
Keys == {KeyOf(d) : d \in Definitions}

(* every stub's target is too far away, and stays so while stubs are added, *)
StubsFar ==
  /\ IsFiniteSet(stubs)
  /\ \A stub \in stubs :
       /\ stub[1] \in Keys /\ stub[2] \in Int
       /\ SymbolTable(Area(stubs))[stub[1]] + stub[2] > Reach

(* and in the end everything that is too far has a stub, and the stubs are  *)
(* near.                                                                    *)
Stubbed ==
  /\ phase \in {"search", "round"} => stubs = {}
  /\ StubsFar
  /\ phase \in {"layout", "relocate", "done"} /\ FixedWidth =>
       FarOf(SymbolTable(Area(stubs))) \subseteq stubs
  /\ phase \in {"relocate", "done"} =>
       (Cardinality(stubs) - 1) * StubBytes <= Reach /\ <<"", HeapAnchor>> \notin Keys
  /\ phase = "out of reach" =>
       ~ FixedWidth \/ RelocAt(next).symbol = HeapAnchor \/ Asked(next) < 0

(* What the assembler put into an object.                                   *)
LEMMA ObjectTypes ==
  ASSUME Typed, NEW k \in DOMAIN objects
  PROVE  /\ Len(objects[k].text) \in Nat /\ Len(objects[k].data) \in Nat /\ objects[k].bss \in Nat
         /\ \A s \in objects[k].symbols : s.section \in Sections /\ s.offset \in Nat
         /\ DOMAIN objects[k].relocs = 1 .. Len(objects[k].relocs) /\ Len(objects[k].relocs) \in Nat
         /\ \A r \in DOMAIN objects[k].relocs : objects[k].relocs[r].addend \in Int
<1>1. objects[k] \in AllObjects
  BY DEF Typed
<1>2. \A S, s : s \in Seq(S) => Len(s) \in Nat /\ DOMAIN s = 1 .. Len(s)
  OBVIOUS
<1> QED
  BY <1>1, <1>2, ObjectsAssumption

(* The sections of objects together have some size,                         *)
LEMMA TotalIs ==
  ASSUME Typed, NEW section \in Sections, NEW n \in 0 .. Len(objects)
  PROVE  Total(section, n) \in Int
<1> DEFINE add == [k \in 1 .. n |-> [v \in Int |-> v + Extent(objects[k], section)]]
           sum == CHOOSE f : f = [k \in 0 .. n |-> IF k = 0 THEN 0 ELSE f[k - 1] + Extent(objects[k], section)]
<1>1. n \in Nat /\ 0 \in Int /\ \A k \in 1 .. n : k \in DOMAIN objects
  BY DEF Typed
<1>2. \A k \in 1 .. n : Extent(objects[k], section) \in Int
  BY <1>1, ObjectTypes DEF Extent, Sections
<1>3. add \in [1 .. n -> [Int -> Int]]
  BY <1>2
<1>4. PICK f \in [0 .. n -> Int] : Solves(f, n, 0, add)
  <2> HIDE DEF add
  <2> QED
    BY <1>1, <1>3, RecursionExists
<1>5. f = [k \in 0 .. n |-> IF k = 0 THEN 0 ELSE f[k - 1] + Extent(objects[k], section)]
  <2>1. ASSUME NEW k \in 0 .. n, k # 0 PROVE add[k][f[k - 1]] = f[k - 1] + Extent(objects[k], section)
    BY <2>1, <1>1
  <2>2. f = [k \in 0 .. n |-> IF k = 0 THEN 0 ELSE add[k][f[k - 1]]]
    BY <1>4 DEF Solves
  <2> HIDE DEF add
  <2> QED
    BY <2>1, <2>2
<1>6. sum = [k \in 0 .. n |-> IF k = 0 THEN 0 ELSE sum[k - 1] + Extent(objects[k], section)]
  BY <1>5, Zenon
<1>7. Total(section, n) = sum[n]
  BY DEF Total
<1>8. Solves(sum, n, 0, add)
  <2> HIDE DEF sum
  <2>1. sum[0] = 0 /\ \A k \in 0 .. n : k # 0 => sum[k] = sum[k - 1] + Extent(objects[k], section)
    BY <1>1, <1>6
  <2>2. \A k \in 0 .. n : sum[k] \in Int
    <3> DEFINE Bad == {k \in 0 .. n : ~ (sum[k] \in Int)}
    <3>1. ASSUME NEW k \in Bad, \A j \in Bad : k <= j PROVE FALSE
      <4>1. k \in 0 .. n /\ k # 0 /\ ~ (sum[k] \in Int)
        BY <2>1
      <4>2. k - 1 \in 0 .. n /\ ~ (k <= k - 1) /\ k \in 1 .. n
        BY <4>1, <1>1
      <4>3. sum[k - 1] \in Int
        BY <3>1, <4>2
      <4>4. Extent(objects[k], section) \in Int
        BY <4>2, <1>2
      <4>5. sum[k] = sum[k - 1] + Extent(objects[k], section)
        BY <4>1, <2>1
      <4> QED
        BY <4>1, <4>3, <4>4, <4>5
    <3>2. Bad \subseteq Nat
      BY <1>1
    <3>3. Bad = {}
      <4> HIDE DEF Bad
      <4> QED
        BY <3>1, <3>2, LeastExists
    <3> QED
      BY <3>3
  <2>3. ASSUME NEW k \in 0 .. n, k # 0 PROVE sum[k - 1] + Extent(objects[k], section) = add[k][sum[k - 1]]
    BY <2>2, <2>3, <1>1
  <2>4. sum = [k \in 0 .. n |-> IF k = 0 THEN 0 ELSE add[k][sum[k - 1]]]
    <3> HIDE DEF add
    <3> QED
      BY <1>6, <2>3
  <2> QED
    BY <2>4 DEF Solves
<1> HIDE DEF sum, add
<1>9. sum \in [0 .. n -> Int]
  BY <1>1, <1>3, <1>8, RecursionTyped
<1> QED
  BY <1>1, <1>7, <1>9

(* so that a definition moves with the stubs before it,                     *)
LEMMA DefinitionMoves ==
  ASSUME Typed, NEW d \in Definitions, NEW a \in Int, NEW b \in Int
  PROVE  AddressOf(d, a) \in Int /\ AddressOf(d, b) = AddressOf(d, a) + (b - a)
<1>1. /\ d[1] \in DOMAIN objects /\ DOMAIN objects = 1 .. Len(objects) /\ Len(objects) \in Nat
      /\ d[2] \in objects[d[1]].symbols
  BY DEF Definitions, Typed
<1>2. d[2].section \in Sections /\ d[2].offset \in Nat
  BY <1>1, ObjectTypes
<1>3. /\ Total(d[2].section, d[1] - 1) \in Int
      /\ Total("text", Len(objects)) \in Int /\ Total("data", Len(objects)) \in Int
  <2>1. d[1] - 1 \in 0 .. Len(objects) /\ Len(objects) \in 0 .. Len(objects)
    BY <1>1
  <2>2. "text" \in Sections /\ "data" \in Sections
    BY DEF Sections
  <2> QED
    BY <1>2, <2>1, <2>2, TotalIs
<1> DEFINE before == Total(d[2].section, d[1] - 1)
           text == IF d[2].section = "text" THEN 0 ELSE Total("text", Len(objects))
           data == IF d[2].section = "bss" THEN Total("data", Len(objects)) ELSE 0
<1>4. \A x : AddressOf(d, x) = x + before + text + data + d[2].offset
  BY DEF AddressOf, Base
<1>5. before \in Int /\ text \in Int /\ data \in Int /\ d[2].offset \in Int
  BY <1>2, <1>3
<1> HIDE DEF before, text, data
<1> QED
  BY <1>4, <1>5

(* and so does an entry of the table.                                       *)
LEMMA EntryMoves ==
  ASSUME Typed, NEW key \in Keys, NEW a \in Int, NEW b \in Int
  PROVE  /\ SymbolTable(a)[key] \in Int
         /\ SymbolTable(b)[key] = SymbolTable(a)[key] + (b - a)
<1> DEFINE same == {d \in Definitions : KeyOf(d) = key}
           behind == {Len(objects) - d[1] : d \in same}
<1>1. Len(objects) \in Nat /\ \A d \in Definitions : d[1] \in 1 .. Len(objects)
  BY DEF Definitions, Typed
<1>2. same # {} /\ behind # {} /\ behind \subseteq Nat
  BY <1>1 DEF Keys
<1>3. PICK m \in behind : \A j \in behind : m <= j
  <2> HIDE DEF behind
  <2> QED
    BY <1>2, LeastExists
<1>4. PICK d \in same : m = Len(objects) - d[1]
  BY <1>3
<1>5. \A e \in Definitions : KeyOf(e) = key => e[1] <= d[1]
  <2> SUFFICES ASSUME NEW e \in Definitions, KeyOf(e) = key PROVE e[1] <= d[1]
    OBVIOUS
  <2>1. Len(objects) - d[1] <= Len(objects) - e[1]
    BY <1>3, <1>4
  <2> QED
    BY <2>1, <1>1
<1>6. LastOf(key) \in Definitions
  BY <1>4, <1>5 DEF LastOf
<1>7. SymbolTable(a)[key] = AddressOf(LastOf(key), a) /\ SymbolTable(b)[key] = AddressOf(LastOf(key), b)
  BY DEF SymbolTable, Keys
<1>8. /\ AddressOf(LastOf(key), a) \in Int
      /\ AddressOf(LastOf(key), b) = AddressOf(LastOf(key), a) + (b - a)
  BY <1>6, DefinitionMoves
<1> QED
  BY <1>7, <1>8

(* What a function makes of finitely many is finitely many.                 *)
LEMMA FiniteImage ==
  ASSUME NEW S, IsFiniteSet(S), NEW f, DOMAIN f = S
  PROVE  IsFiniteSet({f[x] : x \in S})
<1> DEFINE T == {f[x] : x \in S}
           g == [x \in S |-> f[x]]
<1>1. g \in Surjection(S, T)
  BY DEF Surjection
<1> QED
  BY <1>1, FS_Surjection

(* There are finitely many relocations, and what they ask for has a name and*)
(* a number.                                                                *)
LEMMA RelocsAre ==
  ASSUME Typed
  PROVE  /\ IsFiniteSet(AllRelocs)
         /\ \A site \in AllRelocs : RelocAt(site).addend \in Int
<1>1. IsFiniteSet(DOMAIN objects)
  <2>1. DOMAIN objects = 1 .. Len(objects) /\ 1 \in Int /\ Len(objects) \in Int
    BY DEF Typed
  <2> QED
    BY <2>1, FS_Interval
<1> DEFINE at(k) == {<<k, r>> : r \in DOMAIN objects[k].relocs}
<1>2. ASSUME NEW k \in DOMAIN objects PROVE IsFiniteSet(at(k))
  <2>1. IsFiniteSet(DOMAIN objects[k].relocs)
    <3>1. DOMAIN objects[k].relocs = 1 .. Len(objects[k].relocs) /\ 1 \in Int /\ Len(objects[k].relocs) \in Int
      BY ObjectTypes
    <3> QED
      BY <3>1, FS_Interval
  <2> DEFINE f == [r \in DOMAIN objects[k].relocs |-> <<k, r>>]
  <2>2. DOMAIN f = DOMAIN objects[k].relocs /\ {f[r] : r \in DOMAIN objects[k].relocs} = at(k)
    OBVIOUS
  <2> HIDE DEF f, at
  <2> QED
    BY <2>1, <2>2, FiniteImage
<1>3. IsFiniteSet(AllRelocs)
  <2> DEFINE all == {at(k) : k \in DOMAIN objects}
             f == [k \in DOMAIN objects |-> at(k)]
  <2>1. IsFiniteSet(all)
    <3>1. DOMAIN f = DOMAIN objects /\ {f[k] : k \in DOMAIN objects} = all
      OBVIOUS
    <3> HIDE DEF f, all
    <3> QED
      BY <1>1, <3>1, FiniteImage
  <2>2. \A s \in all : IsFiniteSet(s)
    BY <1>2
  <2>3. AllRelocs = UNION all
    BY Zenon DEF AllRelocs
  <2> HIDE DEF all
  <2> QED
    BY <2>1, <2>2, <2>3, FS_UNION
<1>4. ASSUME NEW site \in AllRelocs PROVE RelocAt(site).addend \in Int
  <2>1. PICK k \in DOMAIN objects : \E r \in DOMAIN objects[k].relocs : site = <<k, r>>
    BY DEF AllRelocs
  <2> QED
    BY <2>1, ObjectTypes DEF RelocAt
<1> QED
  BY <1>3, <1>4

(* A round of the stub area finds jumps with a target that is too far.      *)
LEMMA FarIs ==
  ASSUME Typed, NEW area \in Int
  PROVE  /\ IsFiniteSet(FarOf(SymbolTable(area)))
         /\ \A stub \in FarOf(SymbolTable(area)) :
              /\ stub[1] \in Keys /\ stub[2] \in Int
              /\ SymbolTable(area)[stub[1]] + stub[2] > Reach
         /\ \A site \in AllRelocs :
              LET key == Key(site[1], RelocAt(site).symbol)
              IN  /\ RelocAt(site).kind = "jump_u16" /\ key \in Keys
                  /\ SymbolTable(area)[key] + RelocAt(site).addend > Reach
                  => <<key, RelocAt(site).addend>> \in FarOf(SymbolTable(area))
<1> DEFINE table == SymbolTable(area)
           stub(site) == <<Key(site[1], RelocAt(site).symbol), RelocAt(site).addend>>
           far == {site \in AllRelocs :
                     /\ RelocAt(site).kind = "jump_u16"
                     /\ Key(site[1], RelocAt(site).symbol) \in DOMAIN table
                     /\ table[Key(site[1], RelocAt(site).symbol)] + RelocAt(site).addend > Reach}
<1>1. DOMAIN table = Keys
  BY DEF SymbolTable, Keys
<1>2. FarOf(table) = {stub(site) : site \in far}
  BY Zenon DEF FarOf
<1>3. IsFiniteSet(far)
  <2>1. far \subseteq AllRelocs
    OBVIOUS
  <2> HIDE DEF far
  <2> QED
    BY <2>1, RelocsAre, FS_Subset
<1>4. IsFiniteSet({stub(site) : site \in far})
  <2> DEFINE f == [site \in far |-> stub(site)]
  <2> HIDE DEF far, stub
  <2>1. DOMAIN f = far /\ {f[site] : site \in far} = {stub(site) : site \in far}
    OBVIOUS
  <2> HIDE DEF f
  <2> QED
    BY <1>3, <2>1, FiniteImage
<1> QED
  BY <1>1, <1>2, <1>4, RelocsAre

(* More stubs need more room.                                               *)
LEMMA AreaGrows ==
  ASSUME NEW S, NEW T, IsFiniteSet(S), IsFiniteSet(T)
  PROVE  Area(S) \in Int /\ Area(S \cup T) \in Int /\ Area(S) <= Area(S \cup T)
<1>1. IsFiniteSet(S \cup T) /\ S \subseteq S \cup T
  BY FS_Union
<1>2. Cardinality(S) \in Nat /\ Cardinality(S \cup T) \in Nat /\ Cardinality(S) <= Cardinality(S \cup T)
  BY <1>1, FS_Subset, FS_CardinalityType
<1> QED
  BY <1>2 DEF Area, StubBytes

(* Nothing about the stubs changes unless the objects or the stubs do.      *)
LEMMA SameLayout ==
  ASSUME objects' = objects
  PROVE  /\ Keys' = Keys /\ FixedWidth' = FixedWidth
         /\ \A site : RelocAt(site)' = RelocAt(site)
         /\ \A area : SymbolTable(area)' = SymbolTable(area)
         /\ \A table : FarOf(table)' = FarOf(table)
         /\ \A set : Area(set)' = Area(set)
BY DEF Keys, Definitions, KeyOf, FixedWidth, SymbolTable, AddressOf, LastOf, Base, Total, Extent,
       FarOf, AllRelocs, RelocAt, Key, Area

LEMMA SameAsked ==
  ASSUME objects' = objects, stubs' = stubs, next' = next
  PROVE  RelocAt(next)' = RelocAt(next) /\ Asked(next)' = Asked(next)
<1>1. Area(stubs)' = Area(stubs) /\ EndOfImage(Area(stubs))' = EndOfImage(Area(stubs))
  BY DEF Area, EndOfImage, Base, Total, Extent
<1>2. SymbolTable(Area(stubs))' = SymbolTable(Area(stubs))
  BY <1>1, SameLayout DEF Area
<1>3. FinalTable' = FinalTable
  BY <1>1, <1>2 DEF FinalTable
<1>4. RelocAt(next)' = RelocAt(next)
  BY DEF RelocAt
<1> QED
  BY <1>3, <1>4 DEF Asked, Key

(* The stubs change in one action only.                                     *)
LEMMA SameStubs ==
  ASSUME Stubbed, objects' = objects, stubs' = stubs
  PROVE  StubsFar'
BY SameLayout DEF Stubbed, StubsFar

(* One round of the loop.                                                   *)
LEMMA StubsSolved ==
  ASSUME Typed, Stubbed, SolveStubs
  PROVE  Stubbed'
<1> DEFINE table == SymbolTable(Area(stubs))
           far == IF FixedWidth THEN FarOf(table) ELSE {}
<1>1. objects' = objects
  BY DEF SolveStubs, Raise
<1>2. CASE Ambiguous(Area(stubs))
  BY <1>1, <1>2, SameStubs DEF SolveStubs, Raise, Stubbed
<1>3. CASE ~ Ambiguous(Area(stubs))
  <2>1. /\ stubs' = stubs \cup far
        /\ phase' = IF far \subseteq stubs THEN "layout" ELSE "stubs"
    BY <1>3 DEF SolveStubs
  <2>2. IsFiniteSet(stubs) /\ Area(stubs) \in Int
    BY AreaGrows DEF Stubbed, StubsFar
  <2>3. /\ IsFiniteSet(far)
        /\ \A stub \in far : /\ stub[1] \in Keys /\ stub[2] \in Int
                             /\ table[stub[1]] + stub[2] > Reach
    <3>1. CASE FixedWidth
      BY <2>2, <3>1, FarIs
    <3>2. CASE ~ FixedWidth
      BY <3>2, FS_EmptySet
    <3> QED
      BY <3>1, <3>2
  <2> HIDE DEF far
  <2>4. IsFiniteSet(stubs') /\ Area(stubs') \in Int /\ Area(stubs) <= Area(stubs')
    BY <2>1, <2>2, <2>3, AreaGrows, FS_Union
  <2>5. StubsFar'
    <3>1. ASSUME NEW stub \in stubs'
          PROVE  /\ stub[1] \in Keys /\ stub[2] \in Int
                 /\ SymbolTable(Area(stubs'))[stub[1]] + stub[2] > Reach
      <4>1. /\ stub[1] \in Keys /\ stub[2] \in Int
            /\ table[stub[1]] + stub[2] > Reach
        BY <2>1, <2>3 DEF Stubbed, StubsFar
      <4>2. /\ table[stub[1]] \in Int
            /\ SymbolTable(Area(stubs'))[stub[1]] = table[stub[1]] + (Area(stubs') - Area(stubs))
        BY <2>2, <2>4, <4>1, EntryMoves
      <4> HIDE DEF table
      <4> QED
        BY <4>1, <4>2, <2>2, <2>4, ReachAssumption
    <3>2. /\ Keys' = Keys
          /\ SymbolTable(Area(stubs))' = SymbolTable(Area(stubs'))
      BY <1>1, SameLayout DEF Area
    <3> QED
      BY <2>4, <3>1, <3>2 DEF StubsFar
  <2>6. phase' = "layout" /\ FixedWidth' => FarOf(SymbolTable(Area(stubs)))' \subseteq stubs'
    <3> SUFFICES ASSUME phase' = "layout", FixedWidth' PROVE FarOf(SymbolTable(Area(stubs)))' \subseteq stubs'
      OBVIOUS
    <3>1. far \subseteq stubs /\ stubs' = stubs
      BY <2>1
    <3>2. far = FarOf(table)
      BY <1>1, SameLayout DEF far
    <3>3. FarOf(SymbolTable(Area(stubs)))' = FarOf(table)
      BY <1>1, <3>1, SameLayout DEF Area
    <3> QED
      BY <3>1, <3>2, <3>3
  <2>7. phase' \in {"layout", "stubs"}
    BY <2>1
  <2> QED
    BY <2>5, <2>6, <2>7 DEF Stubbed
<1> QED
  BY <1>2, <1>3

(* A stub has a place among the others, so it is not further away than the  *)
(* last.                                                                    *)
LEMMA StubsNear ==
  ASSUME IsFiniteSet(stubs), NEW stub \in stubs
  PROVE  StubAddress(stub) \in Nat /\ StubAddress(stub) <= (Cardinality(stubs) - 1) * StubBytes
<1> DEFINE n == Cardinality(stubs)
           order == SetToSeq(stubs)
<1>1. n \in Nat /\ IsFiniteSet(1 .. n) /\ Cardinality(1 .. n) = n
  <2>1. n \in Nat
    BY FS_CardinalityType
  <2> HIDE DEF n
  <2> QED
    BY <2>1, FS_Interval
<1>2. order \in [1 .. n -> stubs] /\ IsInjective(order)
  <2>1. PICK f : f \in Bijection(1 .. n, stubs)
    BY FS_NatBijection, FS_CountingElements, Zenon DEF ExistsBijection
  <2>2. f \in [1 .. n -> stubs] /\ IsInjective(f)
    BY <2>1 DEF Bijection, Injection, IsInjective
  <2> HIDE DEF n
  <2> QED
    BY <2>2 DEF SetToSeq, n
<1>3. order \in Injection(1 .. n, stubs)
  <2> HIDE DEF order
  <2> QED
    BY <1>2 DEF Injection, IsInjective
<1>4. order \in Surjection(1 .. n, stubs)
  <2> HIDE DEF order
  <2> QED
    BY <1>1, <1>3, FS_Injection
<1>5. PICK k \in 1 .. n : order[k] = stub
  <2> HIDE DEF order, n
  <2> QED
    BY <1>4 DEF Surjection
<1>6. DOMAIN order = 1 .. n
  <2> HIDE DEF order, n
  <2> QED
    BY <1>2
<1> DEFINE place == CHOOSE j \in DOMAIN order : order[j] = stub
<1>7. place \in 1 .. n
  <2> HIDE DEF order, n
  <2> QED
    BY <1>5, <1>6
<1>8. StubAddress(stub) = (place - 1) * StubBytes
  BY DEF StubAddress, StubOrder
<1> HIDE DEF place, n
<1>9. (place - 1) * StubBytes \in Nat /\ (place - 1) * StubBytes <= (n - 1) * StubBytes
  BY <1>1, <1>7 DEF StubBytes
<1> QED
  BY <1>8, <1>9 DEF n

LEMMA Beyond ==
  ASSUME NEW a \in Int, NEW b \in Int, a + b \notin 0 .. Reach, ~ (a + b < 0)
  PROVE  a + b > Reach
BY ReachAssumption

(* A jump that is relocated reaches its target or its stub, if it jumps to  *)
(* an address, and not to the end of the image.                             *)
LEMMA StubsReached ==
  ASSUME Typed, Stubbed, Relocate
  PROVE  Stubbed'
<1>1. objects' = objects /\ stubs' = stubs /\ phase = "relocate"
  BY DEF Relocate, Raise
<1>2. \/ phase' = "relocate"
      \/ phase' = "undefined"
      \/ phase' = "out of reach"
  BY DEF Relocate, Raise
<1>3. ASSUME phase' = "out of reach", FixedWidth
      PROVE  next' = next /\ (RelocAt(next).symbol = HeapAnchor \/ Asked(next) < 0)
  <2> DEFINE reloc == RelocAt(next)
             key == Key(next[1], reloc.symbol)
             stub == <<key, reloc.addend>>
             anchor == <<"", HeapAnchor>>
             target == IF reloc.kind = "jump_u16" /\ stub \in stubs
                         THEN StubAddress(stub) ELSE Asked(next)
  <2>1. /\ next \in AllRelocs /\ key \in DOMAIN FinalTable
        /\ reloc.kind = "jump_u16" /\ target \notin 0 .. Reach /\ next' = next
    BY <1>1, <1>3 DEF Relocate, Raise
  <2>2. stub \notin stubs
    <3> SUFFICES ASSUME stub \in stubs PROVE FALSE
      OBVIOUS
    <3>1. StubAddress(stub) <= (Cardinality(stubs) - 1) * StubBytes
      BY StubsNear DEF Stubbed, StubsFar
    <3>2. (Cardinality(stubs) - 1) * StubBytes <= Reach /\ (Cardinality(stubs) - 1) * StubBytes \in Int
      <4>1. Cardinality(stubs) \in Nat
        BY FS_CardinalityType DEF Stubbed, StubsFar
      <4>2. (Cardinality(stubs) - 1) * StubBytes \in Int
        BY <4>1 DEF StubBytes
      <4> QED
        BY <1>1, <4>2 DEF Stubbed
    <3>3. StubAddress(stub) \notin 0 .. Reach
      BY <2>1
    <3>4. StubAddress(stub) \in Nat
      BY StubsNear DEF Stubbed, StubsFar
    <3> QED
      BY <3>1, <3>2, <3>3, <3>4, ReachAssumption
  <2>3. Asked(next) \notin 0 .. Reach
    BY <2>1, <2>2
  <2>4. key = anchor \/ Asked(next) < 0
    <3> SUFFICES ASSUME key # anchor, ~ (Asked(next) < 0) PROVE FALSE
      OBVIOUS
    <3>1. /\ key \in Keys
          /\ FinalTable[key] = SymbolTable(Area(stubs))[key]
      BY <2>1 DEF FinalTable, SymbolTable, Keys
    <3>2. Area(stubs) \in Int
      BY AreaGrows DEF Stubbed, StubsFar
    <3> DEFINE entry == SymbolTable(Area(stubs))[key]
    <3>3. entry \in Int /\ reloc.addend \in Int
      <4>1. entry \in Int
        <5> HIDE DEF key
        <5> QED
          BY <3>1, <3>2, EntryMoves
      <4> QED
        BY <2>1, <4>1, RelocsAre
    <3>4. Asked(next) = entry + reloc.addend
      BY <3>1 DEF Asked
    <3>5. entry + reloc.addend > Reach
      <4>1. entry + reloc.addend \notin 0 .. Reach /\ ~ (entry + reloc.addend < 0)
        BY <2>3, <3>4
      <4> HIDE DEF entry, reloc
      <4> QED
        BY <3>3, <4>1, Beyond, Zenon
    <3>6. stub \in FarOf(SymbolTable(Area(stubs)))
      <4>1. key = Key(next[1], RelocAt(next).symbol) /\ stub = <<key, RelocAt(next).addend>>
        OBVIOUS
      <4>2. RelocAt(next).kind = "jump_u16" /\ SymbolTable(Area(stubs))[key] + RelocAt(next).addend > Reach
        BY <2>1, <3>5
      <4> HIDE DEF key, stub
      <4> QED
        BY <2>1, <3>1, <3>2, <4>1, <4>2, FarIs
    <3> QED
      BY <1>1, <1>3, <2>2, <3>6 DEF Stubbed
  <2>5. key[2] = RelocAt(next).symbol
    BY DEF Key
  <2>6. RelocAt(next).symbol = HeapAnchor \/ Asked(next) < 0
    <3>1. anchor[2] = HeapAnchor
      OBVIOUS
    <3>2. CASE key = anchor
      BY <2>5, <3>1, <3>2, Zenon
    <3> QED
      BY <2>4, <3>2
  <2> QED
    BY <2>1, <2>6
<1>4. StubsFar'
  BY <1>1, SameStubs
<1>5. /\ Keys' = Keys /\ FixedWidth' = FixedWidth
      /\ FarOf(SymbolTable(Area(stubs)))' = FarOf(SymbolTable(Area(stubs)))
      /\ \A site : RelocAt(site)' = RelocAt(site)
  BY <1>1, SameLayout DEF Area
<1>6. phase' = "out of reach" =>
        ~ FixedWidth' \/ RelocAt(next)'.symbol = HeapAnchor \/ Asked(next)' < 0
  <2> SUFFICES ASSUME phase' = "out of reach", FixedWidth'
               PROVE  RelocAt(next)'.symbol = HeapAnchor \/ Asked(next)' < 0
    OBVIOUS
  <2>1. next' = next /\ (RelocAt(next).symbol = HeapAnchor \/ Asked(next) < 0)
    BY <1>3, <1>5
  <2>2. RelocAt(next)' = RelocAt(next) /\ Asked(next)' = Asked(next)
    BY <1>1, <2>1, SameAsked
  <2> QED
    BY <2>1, <2>2
<1> QED
  BY <1>1, <1>2, <1>4, <1>5, <1>6 DEF Stubbed

(* The other steps after the search leave the stubs alone.                  *)
LEMMA StubsKept ==
  ASSUME Typed, Stubbed, CheckWidth \/ LayOut \/ Finish
  PROVE  Stubbed'
<1>1. objects' = objects /\ stubs' = stubs
  BY DEF CheckWidth, LayOut, Finish, Raise
<1>2. StubsFar'
  BY <1>1, SameStubs
<1>3. /\ Keys' = Keys /\ FixedWidth' = FixedWidth
      /\ FarOf(SymbolTable(Area(stubs)))' = FarOf(SymbolTable(Area(stubs)))
      /\ Cardinality(stubs)' = Cardinality(stubs)
  BY <1>1, SameLayout DEF Area
<1>4. CASE CheckWidth
  <2>1. phase' \in {"mixed", "stubs"}
    BY <1>4 DEF CheckWidth, Raise
  <2> QED
    BY <1>2, <2>1 DEF Stubbed
<1>5. CASE LayOut
  <2>1. phase = "layout" /\ phase' \in {"stub area", "stale anchor", "relocate"}
    BY <1>5 DEF LayOut, Raise
  <2>2. phase' = "relocate" => /\ ~ ((Cardinality(stubs) - 1) * StubBytes > Reach)
                               /\ <<"", HeapAnchor>> \notin Keys
    <3>1. DOMAIN SymbolTable(Area(stubs)) = Keys
      BY DEF SymbolTable, Keys
    <3> QED
      BY <1>5, <3>1 DEF LayOut, Raise
  <2>3. Cardinality(stubs) \in Nat
    BY FS_CardinalityType DEF Stubbed, StubsFar
  <2> DEFINE last == (Cardinality(stubs) - 1) * StubBytes
  <2>4. last \in Int
    BY <2>3 DEF StubBytes
  <2> HIDE DEF last
  <2>5. phase' = "relocate" => last <= Reach
    <3>1. phase' = "relocate" => ~ (last > Reach)
      BY <2>2 DEF last
    <3> QED
      BY <2>4, <3>1, ReachAssumption
  <2> QED
    BY <1>1, <1>2, <1>3, <2>1, <2>2, <2>5 DEF Stubbed, last
<1>6. CASE Finish
  <2>1. phase = "relocate" /\ phase' \in {"done", "no entry"}
    BY <1>6 DEF Finish
  <2> QED
    BY <1>1, <1>2, <1>3, <2>1 DEF Stubbed
<1> QED
  BY <1>4, <1>5, <1>6

(* Before, there are none.                                                  *)
LEMMA NoStubs ==
  ASSUME stubs = {}
  PROVE  StubsFar
BY FS_EmptySet DEF StubsFar

(* A jump goes through a stub if and only if it would not reach, whatever   *)
(* the objects are and however many rounds it takes until the stubs do not  *)
(* push anything out of reach any more, and of the jumps in the fixed-width *)
(* encoding only those to the heap's anchor or to an address below zero are *)
(* refused (symphony_ld.py:138-166, 294-303).                               *)
THEOREM StubsAsNeededTheorem == LinkSpec => []StubsAsNeeded
<1>1. LinkInit => Stubbed
  BY NoStubs DEF LinkInit, Stubbed
<1>2. IInv /\ Stubbed /\ [LinkNext]_vars => Stubbed'
  <2>1. SUFFICES ASSUME IInv, Stubbed, [LinkNext]_vars PROVE Stubbed'
    OBVIOUS
  <2>2. Typed
    BY <2>1 DEF IInv
  <2>3. CASE StartRound \/ ConsiderMember \/ EndRound
    <3>1. stubs' = {} /\ phase' \in {"search", "round"}
      BY <2>1, <2>3 DEF StartRound, ConsiderMember, EndRound, Stubbed
    <3>2. StubsFar'
      BY <3>1, FS_EmptySet DEF StubsFar
    <3> QED
      BY <3>1, <3>2 DEF Stubbed
  <2>4. CASE CheckWidth \/ LayOut \/ Finish
    BY <2>1, <2>2, <2>4, StubsKept
  <2>5. CASE SolveStubs
    BY <2>1, <2>2, <2>5, StubsSolved
  <2>6. CASE Relocate
    BY <2>1, <2>2, <2>6, StubsReached
  <2>7. CASE UNCHANGED vars
    <3>1. objects' = objects /\ stubs' = stubs /\ phase' = phase /\ next' = next
      BY <2>7 DEF vars
    <3>2. /\ Keys' = Keys /\ FixedWidth' = FixedWidth
          /\ FarOf(SymbolTable(Area(stubs)))' = FarOf(SymbolTable(Area(stubs)))
          /\ RelocAt(next)' = RelocAt(next) /\ Asked(next)' = Asked(next)
      BY <3>1, SameLayout, SameAsked DEF Area
    <3>3. StubsFar'
      BY <2>1, <3>1, SameStubs
    <3> QED
      BY <2>1, <3>1, <3>2, <3>3 DEF Stubbed
  <2> QED
    BY <2>1, <2>3, <2>4, <2>5, <2>6, <2>7 DEF LinkNext
<1>3. Stubbed => StubsAsNeeded
  <2>1. SUFFICES ASSUME Stubbed, phase = "done", NEW stub \in stubs
                 PROVE  FinalTable[stub[1]] + stub[2] > Reach
    BY DEF StubsAsNeeded, Stubbed
  <2>2. stub[1] \in Keys /\ stub[1] # <<"", HeapAnchor>>
    BY <2>1 DEF Stubbed, StubsFar
  <2>3. FinalTable[stub[1]] = SymbolTable(Area(stubs))[stub[1]]
    BY <2>2 DEF FinalTable, SymbolTable, Keys
  <2> QED
    BY <2>1, <2>3 DEF Stubbed, StubsFar
<1> QED
  BY Invariance, <1>1, <1>2, <1>3, PTL DEF LinkSpec

-----------------------------------------------------------------------------
(* Code of K instructions, the i-th of which ends at p[i],                  *)
Cuts(code, K, p) ==
  /\ p \in [0 .. K -> Nat] /\ p[0] = 0 /\ p[K] = Len(code) /\ K <= Len(code)
  /\ \A i \in 0 .. K - 1 :
       /\ p[i] < Len(code)
       /\ I!SizeOf(code[p[i] + 1]) \in 1 .. 4
       /\ p[i + 1] = p[i] + I!SizeOf(code[p[i] + 1])

(* padded up to one of them:                                                *)
PaddedTo(i, p, s) == s.position = p[i] /\ s.out \in Seq(Int) /\ Len(s.out) = 4 * i

(* the next one gets four bytes,                                            *)
LEMMA OnceMore ==
  ASSUME NEW code \in Seq(Int), NEW K \in Nat, NEW p, Cuts(code, K, p),
         NEW i \in 0 .. K - 1, NEW s, PaddedTo(i, p, s)
  PROVE  PaddedTo(i + 1, p, I!PaddedOnce(code, s))
<1> DEFINE size == I!SizeOf(code[s.position + 1])
           part == SubSeq(code, s.position + 1, s.position + size)
           zeros == [k \in 1 .. 4 - size |-> 0]
<1>1. /\ s.position = p[i] /\ p[i] \in Nat /\ p[i] < Len(code) /\ size \in 1 .. 4
      /\ p[i + 1] = p[i] + size /\ s.out \in Seq(Int) /\ Len(s.out) = 4 * i
      /\ p[i + 1] \in Nat
  BY DEF Cuts, PaddedTo
<1>2. I!PaddedOnce(code, s) = [position |-> s.position + size, out |-> s.out \o part \o zeros]
  <2>1. ~ (s.position >= Len(code))
    BY <1>1
  <2> QED
    BY <2>1 DEF I!PaddedOnce
<1>3. p[i + 1] <= Len(code)
  <2>1. CASE i + 1 = K
    BY <2>1, <1>1 DEF Cuts
  <2>2. CASE i + 1 # K
    <3>1. i + 1 \in 0 .. K - 1
      BY <2>2
    <3>2. p[i + 1] < Len(code)
      BY <3>1 DEF Cuts
    <3> QED
      BY <3>2, <1>1
  <2> QED
    BY <2>1, <2>2
<1> HIDE DEF size
<1>4. part \in Seq(Int) /\ Len(part) = size
  <2>1. ASSUME NEW a \in Nat, NEW b \in Nat, a <= b, b <= Len(code)
        PROVE  SubSeq(code, a + 1, b) \in Seq(Int) /\ Len(SubSeq(code, a + 1, b)) = b - a
    BY <2>1
  <2>2. s.position \in Nat /\ s.position + size \in Nat /\ s.position <= s.position + size
        /\ s.position + size <= Len(code) /\ (s.position + size) - s.position = size
    BY <1>1, <1>3
  <2> QED
    BY <2>1, <2>2
<1>5. zeros \in Seq(Int) /\ Len(zeros) = 4 - size
  BY <1>1
<1> HIDE DEF part, zeros
<1>6. s.out \o part \in Seq(Int) /\ Len(s.out \o part) = 4 * i + size
  BY <1>1, <1>4, Concatenation
<1> DEFINE front == s.out \o part
           all == front \o zeros
<1>7. all \in Seq(Int) /\ Len(all) = Len(front) + Len(zeros)
  <2> HIDE DEF front
  <2> QED
    BY <1>5, <1>6, Concatenation DEF front
<1>8. Len(all) = 4 * (i + 1)
  <2> HIDE DEF front, all
  <2>1. i \in Int /\ size \in Int
    BY <1>1
  <2> QED
    BY <1>5, <1>6, <1>7, <2>1 DEF front
<1>9. I!PaddedOnce(code, s).position = p[i + 1] /\ I!PaddedOnce(code, s).out = all
  <2>1. I!PaddedOnce(code, s) = [position |-> s.position + size, out |-> all]
    BY <1>2
  <2> HIDE DEF all
  <2> QED
    BY <1>1, <2>1
<1> HIDE DEF all
<1> QED
  BY <1>7, <1>8, <1>9 DEF PaddedTo

(* and all of them together four bytes each.                                *)
LEMMA PaddedLength ==
  ASSUME NEW code \in Seq(Int), NEW K \in Nat, NEW p, Cuts(code, K, p)
  PROVE  Len(I!Padded(code)) = 4 * K
<1> DEFINE N == Len(code)
           start == [position |-> 0, out |-> << >>]
           States == {s \in [position : Nat, out : Seq(Int)] : \E i \in 0 .. K : PaddedTo(i, p, s)}
           once == [n \in 1 .. N |-> [s \in States |-> I!PaddedOnce(code, s)]]
           after == CHOOSE f : f = [n \in 0 .. N |-> IF n = 0 THEN start ELSE I!PaddedOnce(code, f[n-1])]
           i(n) == IF n < K THEN n ELSE K
<1>1. N \in Nat /\ K <= N
  BY DEF Cuts
<1>2. PaddedTo(0, p, start) /\ start \in States
  <2>1. start \in [position : Nat, out : Seq(Int)] /\ start.position = 0 /\ Len(start.out) = 0
    OBVIOUS
  <2>2. PaddedTo(0, p, start)
    BY <2>1 DEF Cuts, PaddedTo
  <2>3. 0 \in 0 .. K
    OBVIOUS
  <2> QED
    BY <2>1, <2>2, <2>3
<1>3. ASSUME NEW s, PaddedTo(K, p, s) PROVE I!PaddedOnce(code, s) = s
  <2>1. s.position >= Len(code)
    BY <1>1, <1>3 DEF Cuts, PaddedTo
  <2> QED
    BY <2>1 DEF I!PaddedOnce
<1>4. ASSUME NEW s \in States PROVE I!PaddedOnce(code, s) \in States
  <2>1. PICK j \in 0 .. K : PaddedTo(j, p, s)
    OBVIOUS
  <2>2. CASE j = K
    BY <2>1, <2>2, <1>3
  <2>3. CASE j # K
    <3>1. j \in 0 .. K - 1 /\ j + 1 \in 0 .. K
      BY <2>1, <2>3
    <3>2. PaddedTo(j + 1, p, I!PaddedOnce(code, s))
      BY <2>1, <3>1, OnceMore
    <3>3. I!PaddedOnce(code, s) \in [position : Nat, out : Seq(Int)]
      <4>1. ~ (s.position >= Len(code))
        BY <2>1, <3>1, <1>1 DEF Cuts, PaddedTo
      <4>2. p[j + 1] \in Nat
        BY <3>1 DEF Cuts
      <4> QED
        BY <3>2, <4>1, <4>2 DEF PaddedTo, I!PaddedOnce
    <3> QED
      BY <3>1, <3>2, <3>3
  <2> QED
    BY <2>2, <2>3
<1> HIDE DEF States
<1>5. once \in [1 .. N -> [States -> States]]
  BY <1>4
<1>6. PICK f \in [0 .. N -> States] : Solves(f, N, start, once)
  <2> HIDE DEF once, start, N
  <2> QED
    BY <1>1, <1>2, <1>5, RecursionExists
<1>7. f = [n \in 0 .. N |-> IF n = 0 THEN start ELSE I!PaddedOnce(code, f[n-1])]
  <2>1. ASSUME NEW n \in 0 .. N, n # 0 PROVE once[n][f[n-1]] = I!PaddedOnce(code, f[n-1])
    <3>1. n \in 1 .. N /\ n - 1 \in 0 .. N
      BY <2>1, <1>1
    <3>2. f[n - 1] \in States
      BY <3>1, <1>6
    <3> QED
      BY <3>1, <3>2
  <2>2. f = [n \in 0 .. N |-> IF n = 0 THEN start ELSE once[n][f[n-1]]]
    BY <1>6 DEF Solves
  <2> HIDE DEF once, start, N
  <2> QED
    BY <2>1, <2>2
<1>8. after = [n \in 0 .. N |-> IF n = 0 THEN start ELSE I!PaddedOnce(code, after[n-1])]
  <2> HIDE DEF start, N
  <2> QED
    BY <1>7, Zenon
<1>9. I!Padded(code) = after[N].out
  BY DEF I!Padded
<1> HIDE DEF after, start
<1> DEFINE Bad == {n \in 0 .. N : ~ PaddedTo(i(n), p, after[n])}
<1>10. ASSUME NEW n \in Bad, \A m \in Bad : n <= m PROVE FALSE
  <2>1. n \in 0 .. N /\ ~ PaddedTo(i(n), p, after[n]) /\ K \in Nat
    OBVIOUS
  <2>2. n # 0
    <3>1. i(0) = 0
      OBVIOUS
    <3>2. after[0] = start
      BY <1>1, <1>8
    <3> QED
      BY <2>1, <3>1, <3>2, <1>2
  <2>3. n - 1 \in 0 .. N /\ ~ (n <= n - 1)
    BY <2>1, <2>2, <1>1
  <2>4. PaddedTo(i(n - 1), p, after[n - 1])
    BY <2>3, <1>10
  <2>5. after[n] = I!PaddedOnce(code, after[n - 1])
    BY <2>1, <2>2, <1>8
  <2> HIDE DEF Bad
  <2>6. CASE n - 1 < K
    <3>1. i(n - 1) = n - 1 /\ i(n) = (n - 1) + 1 /\ n - 1 \in 0 .. K - 1
      BY <2>1, <2>3, <2>6
    <3>2. PaddedTo((n - 1) + 1, p, after[n])
      BY <2>4, <2>5, <3>1, OnceMore
    <3> QED
      BY <2>1, <3>1, <3>2
  <2>7. CASE ~ (n - 1 < K)
    <3>1. i(n - 1) = K /\ i(n) = K
      BY <2>1, <2>3, <2>7
    <3> QED
      BY <2>1, <2>4, <2>5, <3>1, <1>3
  <2> QED
    BY <2>6, <2>7
<1>11. Bad = {}
  <2>1. Bad \subseteq Nat
    BY <1>1
  <2> HIDE DEF Bad
  <2> QED
    BY <2>1, <1>10, LeastExists
<1>12. PaddedTo(K, p, after[N])
  <2>1. N \in 0 .. N /\ i(N) = K
    BY <1>1
  <2> HIDE DEF N, i
  <2> QED
    BY <2>1, <1>11
<1> QED
  BY <1>9, <1>12 DEF PaddedTo

-----------------------------------------------------------------------------
(* One instruction, of the length its opcode says:                          *)
Single(code) ==
  code \in Seq(Int) /\ Len(code) \in 1 .. 4 /\ I!SizeOf(code[1]) = Len(code)

(* one, two or three of them are padded to four bytes each.                 *)
LEMMA OnePadded ==
  ASSUME NEW a, Single(a)
  PROVE  Len(I!Padded(a)) = 4
<1> DEFINE p == [i \in 0 .. 1 |-> IF i = 0 THEN 0 ELSE Len(a)]
<1>1. Cuts(a, 1, p)
  <2>1. p \in [0 .. 1 -> Nat] /\ p[0] = 0 /\ p[1] = Len(a)
    BY DEF Single
  <2> HIDE DEF p
  <2>2. \A i \in 0 .. 1 - 1 : i = 0
    OBVIOUS
  <2> QED
    BY <2>1, <2>2 DEF Cuts, Single
<1>2. Len(I!Padded(a)) = 4 * 1
  <2> HIDE DEF p
  <2> QED
    BY <1>1, PaddedLength DEF Single
<1> QED
  BY <1>2

(* Two instructions in a row take eight bytes,                              *)
LEMMA TwoCuts ==
  ASSUME NEW c \in Seq(Int), NEW l \in 1 .. 4, NEW m \in 1 .. 4, Len(c) = l + m,
         I!SizeOf(c[1]) = l, I!SizeOf(c[l + 1]) = m
  PROVE  Len(I!Padded(c)) = 8
<1> DEFINE p == [i \in 0 .. 2 |-> IF i = 0 THEN 0 ELSE IF i = 1 THEN l ELSE l + m]
<1>1. p \in [0 .. 2 -> Nat] /\ p[0] = 0 /\ p[1] = l /\ p[2] = l + m
  OBVIOUS
<1> HIDE DEF p
<1>2. ASSUME NEW i \in 0 .. 2 - 1
      PROVE  /\ p[i] < Len(c) /\ I!SizeOf(c[p[i] + 1]) \in 1 .. 4
             /\ p[i + 1] = p[i] + I!SizeOf(c[p[i] + 1])
  <2>1. CASE i = 0
    <3>1. p[i] = 0 /\ p[i + 1] = l /\ p[i] + 1 = 1
      BY <1>1, <2>1
    <3>2. I!SizeOf(c[p[i] + 1]) = l
      BY <3>1
    <3> QED
      BY <3>1, <3>2
  <2>2. CASE i = 1
    <3>1. p[i] = l /\ p[i + 1] = l + m
      BY <1>1, <2>2
    <3>2. I!SizeOf(c[p[i] + 1]) = m
      BY <3>1
    <3>3. p[i] < Len(c) /\ p[i + 1] = p[i] + m
      BY <3>1
    <3> QED
      BY <3>2, <3>3
  <2> QED
    BY <2>1, <2>2
<1>3. Cuts(c, 2, p)
  BY <1>1, <1>2 DEF Cuts
<1>4. Len(I!Padded(c)) = 4 * 2
  BY <1>3, PaddedLength
<1> QED
  BY <1>4

(* three take twelve:                                                       *)
LEMMA ThreeCuts ==
  ASSUME NEW c \in Seq(Int), NEW l \in 1 .. 4, NEW m \in 1 .. 4, NEW n \in 1 .. 4, Len(c) = l + m + n,
         I!SizeOf(c[1]) = l, I!SizeOf(c[l + 1]) = m, I!SizeOf(c[l + m + 1]) = n
  PROVE  Len(I!Padded(c)) = 12
<1> DEFINE p == [i \in 0 .. 3 |-> IF i = 0 THEN 0 ELSE IF i = 1 THEN l ELSE IF i = 2 THEN l + m ELSE l + m + n]
<1>1. p \in [0 .. 3 -> Nat] /\ p[0] = 0 /\ p[1] = l /\ p[2] = l + m /\ p[3] = l + m + n
  OBVIOUS
<1> HIDE DEF p
<1>2. ASSUME NEW i \in 0 .. 3 - 1
      PROVE  /\ p[i] < Len(c) /\ I!SizeOf(c[p[i] + 1]) \in 1 .. 4
             /\ p[i + 1] = p[i] + I!SizeOf(c[p[i] + 1])
  <2>1. CASE i = 0
    <3>1. p[i] = 0 /\ p[i + 1] = l /\ p[i] + 1 = 1
      BY <1>1, <2>1
    <3>2. I!SizeOf(c[p[i] + 1]) = l
      BY <3>1
    <3> QED
      BY <3>1, <3>2
  <2>2. CASE i = 1
    <3>1. p[i] = l /\ p[i + 1] = l + m
      BY <1>1, <2>2
    <3>2. I!SizeOf(c[p[i] + 1]) = m
      BY <3>1
    <3>3. p[i] < Len(c) /\ p[i + 1] = p[i] + m
      BY <3>1
    <3> QED
      BY <3>2, <3>3
  <2>3. CASE i = 2
    <3>1. p[i] = l + m /\ p[i + 1] = l + m + n
      BY <1>1, <2>3
    <3>2. I!SizeOf(c[p[i] + 1]) = n
      BY <3>1
    <3> QED
      BY <3>1, <3>2
  <2> QED
    BY <2>1, <2>2, <2>3
<1>3. Cuts(c, 3, p)
  BY <1>1, <1>2 DEF Cuts
<1>4. Len(I!Padded(c)) = 4 * 3
  BY <1>3, PaddedLength
<1> QED
  BY <1>4

(* so do two that are written one after the other                           *)
LEMMA TwoPadded ==
  ASSUME NEW a, NEW b, Single(a), Single(b)
  PROVE  Len(a \o b) = Len(a) + Len(b) /\ Len(I!Padded(a \o b)) = 8
<1> DEFINE l == Len(a)
           m == Len(b)
           c == a \o b
<1>1. /\ a \in Seq(Int) /\ b \in Seq(Int) /\ l \in 1 .. 4 /\ m \in 1 .. 4
      /\ I!SizeOf(a[1]) = l /\ I!SizeOf(b[1]) = m
  BY DEF Single
<1>2. /\ c \in Seq(Int) /\ Len(c) = l + m
      /\ \A k \in 1 .. l + m : c[k] = IF k <= l THEN a[k] ELSE b[k - l]
  BY <1>1, Concatenation
<1> HIDE DEF c, l, m
<1>3. 1 \in 1 .. l + m /\ 1 <= l /\ l + 1 \in 1 .. l + m /\ ~ (l + 1 <= l) /\ (l + 1) - l = 1
  BY <1>1
<1>4. c[1] = a[1] /\ c[l + 1] = b[1]
  BY <1>2, <1>3
<1>5. Len(I!Padded(c)) = 8
  BY <1>1, <1>2, <1>4, TwoCuts
<1> QED
  BY <1>2, <1>5 DEF c, l, m

(* Three instructions in a row.                                             *)
Chain(a, b, d) == a \o b \o d

(* or three of them.                                                        *)
LEMMA ThreePadded ==
  ASSUME NEW a, NEW b, NEW d, Single(a), Single(b), Single(d)
  PROVE  Len(Chain(a, b, d)) = Len(a) + Len(b) + Len(d) /\ Len(I!Padded(Chain(a, b, d))) = 12
<1> DEFINE e == a \o b
           c == e \o d
<1>0. PICK l \in 1 .. 4, m \in 1 .. 4, n \in 1 .. 4 : Len(a) = l /\ Len(b) = m /\ Len(d) = n
  BY DEF Single
<1>1. /\ Len(a) = l /\ Len(b) = m /\ Len(d) = n
      /\ a \in Seq(Int) /\ b \in Seq(Int) /\ d \in Seq(Int)
      /\ l \in 1 .. 4 /\ m \in 1 .. 4 /\ n \in 1 .. 4
      /\ I!SizeOf(a[1]) = l /\ I!SizeOf(b[1]) = m /\ I!SizeOf(d[1]) = n
  BY <1>0 DEF Single
<1>2. /\ e \in Seq(Int) /\ Len(e) = l + m
      /\ \A k \in 1 .. l + m : e[k] = IF k <= l THEN a[k] ELSE b[k - l]
  <2>1. /\ e \in Seq(Int) /\ Len(e) = Len(a) + Len(b)
        /\ \A k \in 1 .. Len(a) + Len(b) : e[k] = IF k <= Len(a) THEN a[k] ELSE b[k - Len(a)]
    BY <1>1, Concatenation
  <2> HIDE DEF e
  <2> QED
    BY <1>1, <2>1
<1> HIDE DEF e
<1>3. /\ c \in Seq(Int) /\ Len(c) = Len(e) + n
      /\ \A k \in 1 .. Len(e) + n : c[k] = IF k <= Len(e) THEN e[k] ELSE d[k - Len(e)]
  <2>1. /\ c \in Seq(Int) /\ Len(c) = Len(e) + Len(d)
        /\ \A k \in 1 .. Len(e) + Len(d) : c[k] = IF k <= Len(e) THEN e[k] ELSE d[k - Len(e)]
    BY <1>1, <1>2, Concatenation
  <2> HIDE DEF c
  <2> QED
    BY <1>1, <2>1
<1> HIDE DEF c
<1>4. /\ 1 \in 1 .. l + m /\ 1 <= l /\ l + 1 \in 1 .. l + m /\ ~ (l + 1 <= l) /\ (l + 1) - l = 1
      /\ 1 \in 1 .. l + m + n /\ l + 1 \in 1 .. l + m + n /\ l + m + 1 \in 1 .. l + m + n
      /\ 1 <= l + m /\ l + 1 <= l + m /\ ~ (l + m + 1 <= l + m) /\ (l + m + 1) - (l + m) = 1
  BY <1>1
<1>5. e[1] = a[1] /\ e[l + 1] = b[1]
  BY <1>2, <1>4
<1>6. c[1] = a[1] /\ c[l + 1] = b[1] /\ c[l + m + 1] = d[1]
  BY <1>1, <1>2, <1>3, <1>4, <1>5
<1>7. Len(c) = l + m + n
  BY <1>2, <1>3
<1>8. Len(I!Padded(c)) = 12
  BY <1>1, <1>3, <1>6, <1>7, ThreeCuts
<1> QED
  BY <1>7, <1>8 DEF c, e, Chain

-----------------------------------------------------------------------------

(* The sizes of the opcodes the encoders use,                               *)
LEMMA OpcodeSizes ==
  /\ \A o \in {2, 4} : I!SizeOf(o) = 3 /\ I!SizeOf(o + 16) = 4
  /\ \A o \in 32 .. 47 \cup 64 .. 79 \cup 96 .. 103 : I!SizeOf(o) = 3 /\ I!SizeOf(o + 16) = 4
  /\ \A o \in {1, 3, 5, 6, 7} : I!SizeOf(o) = 2
<1>1. \A o \in {2, 4} : I!SizeOf(o) = 3 /\ I!SizeOf(o + 16) = 4
  BY DEF I!SizeOf
<1>2. ASSUME NEW o \in 32 .. 47 \cup 64 .. 79 \cup 96 .. 103
      PROVE  I!SizeOf(o) = 3 /\ I!SizeOf(o + 16) = 4
  <2>1. (o \div 16) % 2 = 0 /\ ((o + 16) \div 16) % 2 = 1
    OBVIOUS
  <2>2. /\ o \in 32 .. 119 /\ o + 16 \in 32 .. 119
        /\ \A q \in 32 .. 119 : q \notin {0, 8} /\ q \notin {1, 3, 5, 6, 7} /\ q \notin {18, 20} /\ q \notin {2, 4}
    OBVIOUS
  <2> QED
    BY <2>1, <2>2 DEF I!SizeOf
<1>3. \A o \in {1, 3, 5, 6, 7} : I!SizeOf(o) = 2
  BY DEF I!SizeOf
<1> QED
  BY <1>1, <1>2, <1>3

(* and what follows from them: every encoder writes single instructions.    *)
LEMMA FormSingle ==
  ASSUME NEW code \in Int, NEW second \in Int, NEW v \in Int, NEW imm \in BOOLEAN,
         I!SizeOf(code) = 3, I!SizeOf(code + 16) = 4
  PROVE  Single(I!Form(code, second, v, imm)) /\ Len(I!Form(code, second, v, imm)) = IF imm THEN 4 ELSE 3
<1>1. CASE imm
  <2> DEFINE front == <<code + 16, second>>
             back == I!U16(v)
  <2>1. back \in Seq(Int) /\ Len(back) = 2
    BY DEF I!U16
  <2>2. front \in Seq(Int) /\ Len(front) = 2 /\ front[1] = code + 16
    OBVIOUS
  <2>3. I!Form(code, second, v, imm) = front \o back
    BY <1>1 DEF I!Form
  <2> HIDE DEF front, back
  <2> DEFINE both == front \o back
  <2>4. /\ both \in Seq(Int) /\ Len(both) = 2 + 2
        /\ \A k \in 1 .. 2 + 2 : both[k] = IF k <= 2 THEN front[k] ELSE back[k - 2]
    <3>1. /\ both \in Seq(Int) /\ Len(both) = Len(front) + Len(back)
          /\ \A k \in 1 .. Len(front) + Len(back) :
               both[k] = IF k <= Len(front) THEN front[k] ELSE back[k - Len(front)]
      BY <2>1, <2>2, Concatenation
    <3> HIDE DEF both
    <3> QED
      BY <2>1, <2>2, <3>1
  <2> HIDE DEF both
  <2>5. both[1] = code + 16 /\ Len(both) = 4
    BY <2>2, <2>4
  <2>6. Single(both)
    BY <2>4, <2>5 DEF Single
  <2> QED
    BY <1>1, <2>3, <2>5, <2>6 DEF both
<1>2. CASE ~ imm
  BY <1>2 DEF I!Form, Single
<1> QED
  BY <1>1, <1>2

(* An operation on registers is one instruction,                            *)
LEMMA AluSingle ==
  ASSUME NEW op \in AluNames \cup {"cmp"}, NEW d \in Int, NEW a \in Int, NEW b \in Int,
         NEW imm \in BOOLEAN
  PROVE  Single(I!alu(op, d, a, b, imm)) /\ Len(I!alu(op, d, a, b, imm)) = IF imm THEN 4 ELSE 3
<1>1. I!AluCode[op] \in 32 .. 47
  BY DEF I!AluCode, AluNames
<1>2. d * 16 + a \in Int
  OBVIOUS
<1> QED
  <2>1. I!SizeOf(I!AluCode[op]) = 3 /\ I!SizeOf(I!AluCode[op] + 16) = 4 /\ I!AluCode[op] \in Int
    BY <1>1, OpcodeSizes
  <2> QED
    BY <1>2, <2>1, FormSingle DEF I!alu

(* so is a jump,                                                            *)
LEMMA JumpSingle ==
  ASSUME NEW op \in JumpNames, NEW target \in Int, NEW imm \in BOOLEAN
  PROVE  Single(I!jump(op, target, imm)) /\ Len(I!jump(op, target, imm)) = IF imm THEN 4 ELSE 3
<1>1. I!JumpCode[op] \in 64 .. 79
  BY DEF I!JumpCode, JumpNames
<1> QED
  <2>1. I!SizeOf(I!JumpCode[op]) = 3 /\ I!SizeOf(I!JumpCode[op] + 16) = 4 /\ I!JumpCode[op] \in Int
    BY <1>1, OpcodeSizes
  <2>2. I!FLAGS \in Int
    BY DEF I!FLAGS
  <2> QED
    BY <2>1, <2>2, FormSingle DEF I!jump

(* a load or a store,                                                       *)
LEMMA MemorySingle ==
  ASSUME NEW size \in {1, 2, 4}, NEW r \in Int, NEW v \in Int
  PROVE  /\ Single(I!load(size, r, v)) /\ Len(I!load(size, r, v)) = 3
         /\ Single(I!store(size, r, v)) /\ Len(I!store(size, r, v)) = 3
<1>1. I!SizeCode(size) \in 0 .. 2
  BY DEF I!SizeCode
<1>2. I!SizeOf(96 + I!SizeCode(size)) = 3 /\ I!SizeOf(100 + I!SizeCode(size)) = 3
  BY <1>1, OpcodeSizes
<1> QED
  BY <1>1, <1>2 DEF I!load, I!store, Single

(* an input, the keyboard, a half of the time, the counter,                 *)
LEMMA ReadSingle ==
  ASSUME NEW d \in Int, NEW part \in {0, 1}
  PROVE  /\ Single(I!input(d)) /\ Len(I!input(d)) = 2
         /\ Single(I!keyboard(d)) /\ Len(I!keyboard(d)) = 2
         /\ Single(I!time(part, d)) /\ Len(I!time(part, d)) = 2
         /\ Single(I!counter(d)) /\ Len(I!counter(d)) = 2
<1>1. ASSUME NEW o \in {1, 3, 5, 6, 7} PROVE Single(<<o, d * 16>>) /\ Len(<<o, d * 16>>) = 2
  BY OpcodeSizes DEF Single
<1>2. 5 + part \in {1, 3, 5, 6, 7}
  OBVIOUS
<1> QED
  BY <1>1, <1>2 DEF I!input, I!keyboard, I!time, I!counter

(* the output, the screen and the persistent memory.                        *)
LEMMA PortSingle ==
  ASSUME NEW a \in Int, NEW v \in Int, NEW imm \in BOOLEAN
  PROVE  /\ Single(I!output(v, imm)) /\ Len(I!output(v, imm)) = IF imm THEN 4 ELSE 3
         /\ Single(I!screen(a, v, imm)) /\ Len(I!screen(a, v, imm)) = IF imm THEN 4 ELSE 3
         /\ Single(I!persistent_load(a, v, imm)) /\ Len(I!persistent_load(a, v, imm)) = IF imm THEN 4 ELSE 3
         /\ Single(I!persistent_store(a, v, imm)) /\ Len(I!persistent_store(a, v, imm)) = IF imm THEN 4 ELSE 3
<1>1. \A o \in {2, 4, 99, 103} : I!SizeOf(o) = 3 /\ I!SizeOf(o + 16) = 4
  BY OpcodeSizes
<1>2. a * 16 \in Int
  OBVIOUS
<1> QED
  <2>1. ASSUME NEW o \in {2, 4, 99, 103}, NEW second \in Int, NEW last \in Int
        PROVE  Single(I!Form(o, second, last, imm)) /\ Len(I!Form(o, second, last, imm)) = IF imm THEN 4 ELSE 3
    <3>1. o \in Int /\ I!SizeOf(o) = 3 /\ I!SizeOf(o + 16) = 4
      BY <1>1
    <3> QED
      BY <3>1, FormSingle
  <2>2. 0 \in Int /\ a \in Int /\ a * 16 \in Int
    BY <1>2
  <2>3. Single(I!output(v, imm)) /\ Len(I!output(v, imm)) = IF imm THEN 4 ELSE 3
    BY <2>1, <2>2 DEF I!output
  <2>4. Single(I!screen(a, v, imm)) /\ Len(I!screen(a, v, imm)) = IF imm THEN 4 ELSE 3
    BY <2>1, <2>2 DEF I!screen
  <2>5. Single(I!persistent_load(a, v, imm)) /\ Len(I!persistent_load(a, v, imm)) = IF imm THEN 4 ELSE 3
    BY <2>1, <2>2 DEF I!persistent_load
  <2>6. Single(I!persistent_store(a, v, imm)) /\ Len(I!persistent_store(a, v, imm)) = IF imm THEN 4 ELSE 3
    BY <2>1, <2>2 DEF I!persistent_store
  <2> QED
    BY <2>3, <2>4, <2>5, <2>6

(* The names of jumps.                                                      *)
LEMMA NamesAre ==
  /\ JumpNames = {"jmp", "je", "jne", "jb", "jae", "jbe", "ja", "jl", "jge", "jle", "jg"}
  /\ "jmp" \in JumpNames
BY DEF JumpNames, I!JumpCode

(* The same for each of the two forms:                                      *)
LEMMA AluForms ==
  ASSUME NEW op, op \in AluNames \cup {"cmp"}, NEW d, d \in Int, NEW a, a \in Int, NEW b, b \in Int
  PROVE  /\ Single(I!alu(op, d, a, b, TRUE)) /\ Len(I!alu(op, d, a, b, TRUE)) = 4
         /\ Single(I!alu(op, d, a, b, FALSE)) /\ Len(I!alu(op, d, a, b, FALSE)) = 3
<1>1. TRUE \in BOOLEAN /\ FALSE \in BOOLEAN /\ (IF TRUE THEN 4 ELSE 3) = 4 /\ (IF FALSE THEN 4 ELSE 3) = 3
  OBVIOUS
<1> QED
  BY <1>1, AluSingle, Zenon

(* a jump by address or by register,                                        *)
LEMMA JumpForms ==
  ASSUME NEW op, op \in JumpNames, NEW target, target \in Int
  PROVE  /\ Single(I!jump(op, target, TRUE)) /\ Len(I!jump(op, target, TRUE)) = 4
         /\ Single(I!jump(op, target, FALSE)) /\ Len(I!jump(op, target, FALSE)) = 3
<1>1. TRUE \in BOOLEAN /\ FALSE \in BOOLEAN /\ (IF TRUE THEN 4 ELSE 3) = 4 /\ (IF FALSE THEN 4 ELSE 3) = 3
  OBVIOUS
<1> QED
  BY <1>1, JumpSingle, Zenon

(* the persistent memory by register.                                       *)
LEMMA PersistentForms ==
  ASSUME NEW a, a \in Int, NEW v, v \in Int
  PROVE  /\ Single(I!persistent_load(a, v, FALSE)) /\ Len(I!persistent_load(a, v, FALSE)) = 3
         /\ Single(I!persistent_store(a, v, FALSE)) /\ Len(I!persistent_store(a, v, FALSE)) = 3
<1>1. FALSE \in BOOLEAN /\ (IF FALSE THEN 4 ELSE 3) = 3
  OBVIOUS
<1> QED
  BY <1>1, PortSingle, Zenon

(* A constant in two halves, the way a register gets one:                   *)
OrShiftOr(r, z, high, shift, low) ==
  Chain(I!alu("or", r, z, high, TRUE), I!alu("lsl", r, r, shift, TRUE), I!alu("or", r, r, low, TRUE))

(* an address is materialized in twelve bytes in both encodings,            *)
LEMMA ThreeOperations ==
  ASSUME NEW r, r \in Int, NEW z, z \in Int, NEW high, high \in Int, NEW shift, shift \in Int, NEW low, low \in Int
  PROVE  Len(OrShiftOr(r, z, high, shift, low)) = 12 /\ Len(I!Padded(OrShiftOr(r, z, high, shift, low))) = 12
<1>1. "or" \in AluNames \cup {"cmp"} /\ "lsl" \in AluNames \cup {"cmp"}
  BY DEF AluNames
<1>2. Single(I!alu("or", r, z, high, TRUE)) /\ Len(I!alu("or", r, z, high, TRUE)) = 4
  BY <1>1, AluForms, Zenon
<1>3. Single(I!alu("lsl", r, r, shift, TRUE)) /\ Len(I!alu("lsl", r, r, shift, TRUE)) = 4
  BY <1>1, AluForms, Zenon
<1>4. Single(I!alu("or", r, r, low, TRUE)) /\ Len(I!alu("or", r, r, low, TRUE)) = 4
  BY <1>1, AluForms, Zenon
<1> DEFINE a == I!alu("or", r, z, high, TRUE)
           b == I!alu("lsl", r, r, shift, TRUE)
           c == I!alu("or", r, r, low, TRUE)
<1>5. Single(a) /\ Single(b) /\ Single(c) /\ Len(a) = 4 /\ Len(b) = 4 /\ Len(c) = 4
  BY <1>2, <1>3, <1>4
<1> HIDE DEF a, b, c
<1>6. Len(Chain(a, b, c)) = Len(a) + Len(b) + Len(c) /\ Len(I!Padded(Chain(a, b, c))) = 12
  BY <1>5, ThreePadded, Zenon
<1>7. Len(Chain(a, b, c)) = 12
  BY <1>5, <1>6
<1> QED
  BY <1>6, <1>7 DEF a, b, c, OrShiftOr

(* the constant the encoder writes is one,                                  *)
LEMMA ConstantLength ==
  ASSUME NEW r, r \in Int, NEW value, value \in Int
  PROVE  Len(I!constant(r, value)) = 12 /\ Len(I!Padded(I!constant(r, value))) = 12
<1> DEFINE high == (value \div 65536) % 65536
           shift == 16
           low == value % 65536
           code == OrShiftOr(r, I!ZR, high, shift, low)
<1>1. high \in Int /\ shift \in Int /\ low \in Int /\ I!ZR \in Int
  <2>1. \A v \in Int : v \div 65536 \in Int /\ v % 65536 \in Int
    OBVIOUS
  <2> QED
    BY <2>1 DEF I!ZR
<1>2. I!constant(r, value) = code
  BY DEF I!constant, I!mov, Chain, OrShiftOr
<1> HIDE DEF high, shift, low
<1>3. Len(code) = 12 /\ Len(I!Padded(code)) = 12
  BY <1>1, ThreeOperations
<1> HIDE DEF code
<1> QED
  BY <1>2, <1>3

(* and a call takes what its return address is computed with.               *)
LEMMA CallLength ==
  ASSUME NEW target, target \in Int, NEW imm, imm \in BOOLEAN
  PROVE  /\ Len(I!Padded(CallBytes(target, imm, TRUE))) = 12
         /\ Len(CallBytes(target, imm, FALSE)) = IF imm THEN 10 ELSE 9
<1> DEFINE link(offset) == I!alu("add", I!R13, I!R13, offset, TRUE)
           count == I!counter(I!R13)
           go == I!jump("jmp", target, imm)
           rest == IF imm THEN 10 ELSE 9
<1>1. /\ 3 * Slot \in Int /\ rest \in Int /\ I!R13 \in Int /\ 0 \in {0, 1}
      /\ "add" \in AluNames \cup {"cmp"} /\ "jmp" \in JumpNames
  BY NamesAre DEF Slot, I!R13, AluNames
<1>2. Single(count) /\ Len(count) = 2
  BY <1>1, ReadSingle
<1>3. Single(go) /\ Len(go) = IF imm THEN 4 ELSE 3
  BY <1>1, JumpSingle
<1>4. ASSUME NEW offset, offset \in Int PROVE Single(link(offset)) /\ Len(link(offset)) = 4
  BY <1>1, <1>4, AluForms, Zenon
<1>5. /\ CallBytes(target, imm, TRUE) = Chain(count, link(3 * Slot), go)
      /\ CallBytes(target, imm, FALSE) = Chain(count, link(rest), go)
  BY DEF CallBytes, I!link_call, Chain
<1> HIDE DEF link, count, go
<1>6. ASSUME NEW offset, offset \in Int, NEW n, n \in 1 .. 4, Len(go) = n
      PROVE  Len(Chain(count, link(offset), go)) = 2 + 4 + n /\ Len(I!Padded(Chain(count, link(offset), go))) = 12
  <2>1. Single(link(offset)) /\ Len(link(offset)) = 4
    BY <1>4, <1>6, Zenon
  <2>2. Single(go) /\ Single(count) /\ Len(count) = 2
    BY <1>2, <1>3, Zenon
  <2>3. /\ Len(Chain(count, link(offset), go)) = Len(count) + Len(link(offset)) + Len(go)
        /\ Len(I!Padded(Chain(count, link(offset), go))) = 12
    BY <2>1, <2>2, ThreePadded, Zenon
  <2>4. Len(count) + Len(link(offset)) + Len(go) = 2 + 4 + n
    BY <1>6, <2>1, <2>2
  <2> QED
    BY <2>3, <2>4
<1>7. ASSUME imm
      PROVE  /\ Len(I!Padded(CallBytes(target, imm, TRUE))) = 12
             /\ Len(CallBytes(target, imm, FALSE)) = 10
  <2>1. Len(go) = 4
    BY <1>3, <1>7, Zenon
  <2>2. 4 \in 1 .. 4 /\ 2 + 4 + 4 = 10
    OBVIOUS
  <2> HIDE DEF rest
  <2> QED
    BY <1>1, <1>5, <1>6, <2>1, <2>2
<1>8. ASSUME ~ imm
      PROVE  /\ Len(I!Padded(CallBytes(target, imm, TRUE))) = 12
             /\ Len(CallBytes(target, imm, FALSE)) = 9
  <2>1. Len(go) = 3
    BY <1>3, <1>8, Zenon
  <2>2. 3 \in 1 .. 4 /\ 2 + 4 + 3 = 9
    OBVIOUS
  <2> HIDE DEF rest
  <2> QED
    BY <1>1, <1>5, <1>6, <2>1, <2>2
<1> QED
  BY <1>7, <1>8, Zenon

(* An instruction as its operands describe it.                              *)
Operands(x) ==
  /\ x.mnem \in Mnemonics /\ x.imm \in BOOLEAN
  /\ x.d \in Int /\ x.a \in Int /\ x.v \in Int /\ x.size \in {1, 2, 4}

(* How the names of a group are encoded.                                    *)
LEMMA GroupCode ==
  ASSUME NEW x, NEW m, x.mnem = m
  PROVE  LET v == IF x.imm THEN x.v % 65536 ELSE x.v IN
         /\ m \in AluNames => InsnCode(x) = I!alu(m, x.d, x.a, v, x.imm) /\ m \notin {"push", "pop"}
         /\ m \in JumpNames => InsnCode(x) = I!jump(m, v, x.imm) /\ m \notin {"push", "pop"}
<1> DEFINE v == IF x.imm THEN x.v % 65536 ELSE x.v
           alu(y) == I!alu(y, x.d, x.a, v, x.imm)
           jump(y) == I!jump(y, v, x.imm)
<1>1. ASSUME m \in AluNames \cup JumpNames
      PROVE  /\ m # "mov" /\ m # "cmp" /\ m # "store" /\ m # "load" /\ m # "push" /\ m # "pop" /\ m # "nop"
             /\ m # "output" /\ m # "screen" /\ m # "persistent_load" /\ m # "persistent_store"
             /\ m # "link_return" /\ m # "input" /\ m # "keyboard" /\ m # "time_0" /\ m # "time_1"
             /\ m # "counter"
  BY <1>1, NamesAre DEF AluNames
<1>2. m \in AluNames => m \notin JumpNames
  BY NamesAre DEF AluNames
<1>3. m \in AluNames => InsnCode(x) = alu(m)
  BY <1>1, <1>2, SMTT(30) DEF InsnCode
<1>4. m \in JumpNames => InsnCode(x) = jump(m)
  BY <1>1, <1>2, SMTT(30) DEF InsnCode
<1> QED
  BY <1>1, <1>3, <1>4

(* The two tables of one mnemonic after another:                            *)
LEMMA InsnLength ==
  ASSUME NEW x, Operands(x)
  PROVE  /\ Len(InsnCode(x)) = DynphonySize(x)
         /\ Len(I!Padded(InsnCode(x))) = IF x.mnem \in {"push", "pop"} THEN 8 ELSE 4
<1> DEFINE v == IF x.imm THEN x.v % 65536 ELSE x.v
           code == InsnCode(x)
<1>1. /\ v \in Int /\ x.imm \in BOOLEAN /\ FALSE \in BOOLEAN /\ TRUE \in BOOLEAN
      /\ x.d \in Int /\ x.a \in Int /\ x.v \in Int /\ x.size \in {1, 2, 4} /\ 4 \in {1, 2, 4}
      /\ 0 \in {0, 1} /\ 1 \in {0, 1} /\ 0 \in Int /\ 4 \in Int
      /\ I!ZR \in Int /\ I!R13 \in Int /\ I!SP \in Int
  <2>1. x.imm \in BOOLEAN /\ x.d \in Int /\ x.a \in Int /\ x.v \in Int /\ x.size \in {1, 2, 4}
    BY DEF Operands
  <2>2. x.v % 65536 \in Int
    BY <2>1
  <2>3. v \in Int
    BY <2>1, <2>2
  <2>4. /\ FALSE \in BOOLEAN /\ TRUE \in BOOLEAN /\ 4 \in {1, 2, 4} /\ 0 \in {0, 1} /\ 1 \in {0, 1}
        /\ 0 \in Int /\ 4 \in Int /\ I!ZR \in Int /\ I!R13 \in Int /\ I!SP \in Int
    BY DEF I!ZR, I!R13, I!SP
  <2> HIDE DEF v
  <2> QED
    BY <2>1, <2>3, <2>4
<1>2. (x.mnem \notin {"push", "pop"} /\ Single(code) /\ Len(code) = DynphonySize(x)) =>
        /\ Len(code) = DynphonySize(x)
        /\ Len(I!Padded(code)) = IF x.mnem \in {"push", "pop"} THEN 8 ELSE 4
  BY OnePadded
<1>3. \A m \in ReadNames \cup {"mov", "cmp", "store", "load", "push", "pop", "nop", "output", "screen",
                           "persistent_load", "persistent_store", "link_return"} :
        m \notin AluNames /\ m \notin JumpNames
  BY NamesAre DEF AluNames, ReadNames
<1>4. CASE x.mnem = "mov"
  <2>1. code = I!mov(x.d, v, x.imm) /\ x.mnem \notin {"push", "pop"}
    BY <1>4, <1>3 DEF InsnCode, ReadNames
  <2>2. DynphonySize(x) = Len(I!mov(0, 0, x.imm))
    BY <1>4, <1>3 DEF DynphonySize, ReadNames
  <2> HIDE DEF v, code
  <2>3. Single(I!mov(x.d, v, x.imm)) /\ Len(I!mov(x.d, v, x.imm)) = Len(I!mov(0, 0, x.imm))
    BY <1>1, AluSingle DEF I!mov, AluNames
  <2> QED
    BY <1>2, <2>1, <2>2, <2>3 DEF code
<1>5. CASE x.mnem \in AluNames
  <2>0. x.mnem \notin {"mov", "cmp", "store", "load", "push", "pop", "nop", "output", "screen",
                    "persistent_load", "persistent_store", "link_return"} /\ x.mnem \notin ReadNames
        /\ x.mnem \notin JumpNames
    BY <1>5, <1>3, NamesAre DEF AluNames
  <2>1. code = I!alu(x.mnem, x.d, x.a, v, x.imm) /\ x.mnem \notin {"push", "pop"}
    BY <1>5, GroupCode
  <2>2. DynphonySize(x) = Len(I!alu("add", 0, 0, 0, x.imm))
    BY <1>5, <2>0 DEF DynphonySize, ReadNames
  <2> HIDE DEF v, code
  <2>3. Single(I!alu(x.mnem, x.d, x.a, v, x.imm)) /\ Len(I!alu(x.mnem, x.d, x.a, v, x.imm)) = Len(I!alu("add", 0, 0, 0, x.imm))
    BY <1>1, <1>5, AluSingle DEF AluNames
  <2> QED
    BY <1>2, <2>1, <2>2, <2>3 DEF code
<1>6. CASE x.mnem = "cmp"
  <2>1. code = I!alu("cmp", I!FLAGS, x.a, v, x.imm) /\ x.mnem \notin {"push", "pop"}
    BY <1>6, <1>3 DEF InsnCode, ReadNames
  <2>2. DynphonySize(x) = Len(I!alu("add", 0, 0, 0, x.imm))
    BY <1>6, <1>3 DEF DynphonySize, ReadNames
  <2> HIDE DEF v, code
  <2>3. Single(I!alu("cmp", I!FLAGS, x.a, v, x.imm)) /\ Len(I!alu("cmp", I!FLAGS, x.a, v, x.imm)) = Len(I!alu("add", 0, 0, 0, x.imm))
    BY <1>1, AluSingle DEF AluNames, I!FLAGS
  <2> QED
    BY <1>2, <2>1, <2>2, <2>3 DEF code
<1>7. CASE x.mnem \in JumpNames
  <2>0. x.mnem \notin {"mov", "cmp", "store", "load", "push", "pop", "nop", "output", "screen",
                    "persistent_load", "persistent_store", "link_return"} /\ x.mnem \notin ReadNames
        /\ x.mnem \notin AluNames
    BY <1>7, <1>3, NamesAre DEF AluNames
  <2>1. code = I!jump(x.mnem, v, x.imm) /\ x.mnem \notin {"push", "pop"}
    BY <1>7, GroupCode
  <2>2. DynphonySize(x) = Len(I!jump("jmp", 0, x.imm))
    BY <1>7, <2>0 DEF DynphonySize, ReadNames
  <2> HIDE DEF v, code
  <2>3. Single(I!jump(x.mnem, v, x.imm)) /\ Len(I!jump(x.mnem, v, x.imm)) = Len(I!jump("jmp", 0, x.imm))
    BY <1>1, <1>7, NamesAre, JumpSingle
  <2> QED
    BY <1>2, <2>1, <2>2, <2>3 DEF code
<1>8. CASE x.mnem = "store"
  <2>1. code = I!store(x.size, x.a, v) /\ x.mnem \notin {"push", "pop"}
    BY <1>8, <1>3 DEF InsnCode, ReadNames
  <2>2. DynphonySize(x) = Len(I!store(4, 0, 0))
    BY <1>8, <1>3 DEF DynphonySize, ReadNames
  <2> HIDE DEF v, code
  <2>3. Single(I!store(x.size, x.a, v)) /\ Len(I!store(x.size, x.a, v)) = Len(I!store(4, 0, 0))
    BY <1>1, MemorySingle
  <2> QED
    BY <1>2, <2>1, <2>2, <2>3 DEF code
<1>9. CASE x.mnem = "load"
  <2>1. code = I!load(x.size, x.d, x.a) /\ x.mnem \notin {"push", "pop"}
    BY <1>9, <1>3 DEF InsnCode, ReadNames
  <2>2. DynphonySize(x) = Len(I!store(4, 0, 0))
    BY <1>9, <1>3 DEF DynphonySize, ReadNames
  <2> HIDE DEF v, code
  <2>3. Single(I!load(x.size, x.d, x.a)) /\ Len(I!load(x.size, x.d, x.a)) = Len(I!store(4, 0, 0))
    BY <1>1, MemorySingle
  <2> QED
    BY <1>2, <2>1, <2>2, <2>3 DEF code
<1>10. CASE x.mnem = "nop"
  <2>1. code = I!mov(I!ZR, I!ZR, FALSE) /\ x.mnem \notin {"push", "pop"}
    BY <1>10, <1>3 DEF InsnCode, ReadNames
  <2>2. DynphonySize(x) = Len(I!mov(0, 0, FALSE))
    BY <1>10, <1>3 DEF DynphonySize, ReadNames
  <2>0. "or" \in AluNames \cup {"cmp"}
    BY DEF AluNames
  <2> HIDE DEF v, code
  <2>3. Single(I!mov(I!ZR, I!ZR, FALSE)) /\ Len(I!mov(I!ZR, I!ZR, FALSE)) = Len(I!mov(0, 0, FALSE))
    <3>1. ASSUME NEW q \in Int, NEW r \in Int
          PROVE  Single(I!mov(q, r, FALSE)) /\ Len(I!mov(q, r, FALSE)) = 3
      <4>1. /\ Single(I!alu("or", q, I!ZR, r, FALSE)) /\ Len(I!alu("or", q, I!ZR, r, FALSE)) = 3
        BY <1>1, <2>0, AluForms, Zenon
      <4> QED
        BY <4>1 DEF I!mov
    <3> QED
      BY <1>1, <3>1
  <2> QED
    BY <1>2, <2>1, <2>2, <2>3 DEF code
<1>11. CASE x.mnem = "input"
  <2>1. code = I!input(x.d) /\ x.mnem \notin {"push", "pop"}
    BY <1>11, <1>3 DEF InsnCode, ReadNames
  <2>2. DynphonySize(x) = 2
    BY <1>11, <1>3 DEF DynphonySize, ReadNames
  <2> HIDE DEF v, code
  <2>3. Single(I!input(x.d)) /\ Len(I!input(x.d)) = 2
    BY <1>1, ReadSingle
  <2> QED
    BY <1>2, <2>1, <2>2, <2>3 DEF code
<1>12. CASE x.mnem = "keyboard"
  <2>1. code = I!keyboard(x.d) /\ x.mnem \notin {"push", "pop"}
    BY <1>12, <1>3 DEF InsnCode, ReadNames
  <2>2. DynphonySize(x) = 2
    BY <1>12, <1>3 DEF DynphonySize, ReadNames
  <2> HIDE DEF v, code
  <2>3. Single(I!keyboard(x.d)) /\ Len(I!keyboard(x.d)) = 2
    BY <1>1, ReadSingle
  <2> QED
    BY <1>2, <2>1, <2>2, <2>3 DEF code
<1>13. CASE x.mnem = "time_0"
  <2>1. code = I!time(0, x.d) /\ x.mnem \notin {"push", "pop"}
    BY <1>13, <1>3 DEF InsnCode, ReadNames
  <2>2. DynphonySize(x) = 2
    BY <1>13, <1>3 DEF DynphonySize, ReadNames
  <2> HIDE DEF v, code
  <2>3. Single(I!time(0, x.d)) /\ Len(I!time(0, x.d)) = 2
    BY <1>1, ReadSingle
  <2> QED
    BY <1>2, <2>1, <2>2, <2>3 DEF code
<1>14. CASE x.mnem = "time_1"
  <2>1. code = I!time(1, x.d) /\ x.mnem \notin {"push", "pop"}
    BY <1>14, <1>3 DEF InsnCode, ReadNames
  <2>2. DynphonySize(x) = 2
    BY <1>14, <1>3 DEF DynphonySize, ReadNames
  <2> HIDE DEF v, code
  <2>3. Single(I!time(1, x.d)) /\ Len(I!time(1, x.d)) = 2
    BY <1>1, ReadSingle
  <2> QED
    BY <1>2, <2>1, <2>2, <2>3 DEF code
<1>15. CASE x.mnem = "counter"
  <2>1. code = I!counter(x.d) /\ x.mnem \notin {"push", "pop"}
    BY <1>15, <1>3 DEF InsnCode, ReadNames
  <2>2. DynphonySize(x) = 2
    BY <1>15, <1>3 DEF DynphonySize, ReadNames
  <2> HIDE DEF v, code
  <2>3. Single(I!counter(x.d)) /\ Len(I!counter(x.d)) = 2
    BY <1>1, ReadSingle
  <2> QED
    BY <1>2, <2>1, <2>2, <2>3 DEF code
<1>16. CASE x.mnem = "output"
  <2>1. code = I!output(v, x.imm) /\ x.mnem \notin {"push", "pop"}
    BY <1>16, <1>3 DEF InsnCode, ReadNames
  <2>2. DynphonySize(x) = Len(I!output(0, x.imm))
    BY <1>16, <1>3 DEF DynphonySize, ReadNames
  <2> HIDE DEF v, code
  <2>3. Single(I!output(v, x.imm)) /\ Len(I!output(v, x.imm)) = Len(I!output(0, x.imm))
    <3>1. ASSUME NEW q \in Int
          PROVE  Single(I!output(q, x.imm)) /\ Len(I!output(q, x.imm)) = IF x.imm THEN 4 ELSE 3
      <4>1. q \in Int /\ x.imm \in BOOLEAN /\ 0 \in Int
        BY <1>1
      <4> QED
        BY <4>1, PortSingle, Zenon
    <3> QED
      BY <1>1, <3>1
  <2> QED
    BY <1>2, <2>1, <2>2, <2>3 DEF code
<1>17. CASE x.mnem = "screen"
  <2>1. code = I!screen(x.a, v, x.imm) /\ x.mnem \notin {"push", "pop"}
    BY <1>17, <1>3 DEF InsnCode, ReadNames
  <2>2. DynphonySize(x) = Len(I!screen(0, 0, x.imm))
    BY <1>17, <1>3 DEF DynphonySize, ReadNames
  <2> HIDE DEF v, code
  <2>3. Single(I!screen(x.a, v, x.imm)) /\ Len(I!screen(x.a, v, x.imm)) = Len(I!screen(0, 0, x.imm))
    BY <1>1, PortSingle
  <2> QED
    BY <1>2, <2>1, <2>2, <2>3 DEF code
<1>18. CASE x.mnem = "persistent_load"
  <2>1. code = I!persistent_load(x.d, x.a, FALSE) /\ x.mnem \notin {"push", "pop"}
    BY <1>18, <1>3 DEF InsnCode, ReadNames
  <2>2. DynphonySize(x) = Len(I!persistent_load(0, 0, FALSE))
    BY <1>18, <1>3 DEF DynphonySize, ReadNames
  <2> HIDE DEF v, code
  <2>3. Single(I!persistent_load(x.d, x.a, FALSE)) /\ Len(I!persistent_load(x.d, x.a, FALSE)) = Len(I!persistent_load(0, 0, FALSE))
    <3>1. \A q, r \in Int :
            /\ Single(I!persistent_load(q, r, FALSE)) /\ Len(I!persistent_load(q, r, FALSE)) = 3
            /\ Single(I!persistent_store(q, r, FALSE)) /\ Len(I!persistent_store(q, r, FALSE)) = 3
      BY PersistentForms
    <3> QED
      BY <1>1, <3>1
  <2> QED
    BY <1>2, <2>1, <2>2, <2>3 DEF code
<1>19. CASE x.mnem = "persistent_store"
  <2>1. code = I!persistent_store(x.a, v, FALSE) /\ x.mnem \notin {"push", "pop"}
    BY <1>19, <1>3 DEF InsnCode, ReadNames
  <2>2. DynphonySize(x) = Len(I!persistent_store(0, 0, FALSE))
    BY <1>19, <1>3 DEF DynphonySize, ReadNames
  <2> HIDE DEF v, code
  <2>3. Single(I!persistent_store(x.a, v, FALSE)) /\ Len(I!persistent_store(x.a, v, FALSE)) = Len(I!persistent_store(0, 0, FALSE))
    <3>1. \A q, r \in Int :
            /\ Single(I!persistent_load(q, r, FALSE)) /\ Len(I!persistent_load(q, r, FALSE)) = 3
            /\ Single(I!persistent_store(q, r, FALSE)) /\ Len(I!persistent_store(q, r, FALSE)) = 3
      BY PersistentForms
    <3> QED
      BY <1>1, <3>1
  <2> QED
    BY <1>2, <2>1, <2>2, <2>3 DEF code
<1>20. CASE x.mnem = "link_return"
  <2>1. code = I!link_return /\ x.mnem \notin {"push", "pop"}
    BY <1>20, <1>3 DEF InsnCode, ReadNames
  <2>2. DynphonySize(x) = Len(I!link_return)
    BY <1>20, <1>3 DEF DynphonySize, ReadNames
  <2> HIDE DEF v, code
  <2>3. Single(I!link_return) /\ Len(I!link_return) = Len(I!link_return)
    BY <1>1, NamesAre, JumpForms, Zenon DEF I!link_return
  <2> QED
    BY <1>2, <2>1, <2>2, <2>3 DEF code
<1>21. CASE x.mnem = "push"
  <2>1. code = I!alu("sub", I!SP, I!SP, 4, TRUE) \o I!store(4, I!SP, v)
    <3>1. code = I!push(v)
      BY <1>21, <1>3 DEF InsnCode, ReadNames
    <3> HIDE DEF v, code
    <3> QED
      BY <3>1 DEF I!push
  <2>2. DynphonySize(x) = Len(I!alu("sub", I!SP, I!SP, 4, TRUE) \o I!store(4, I!SP, I!SP))
    BY <1>21, <1>3 DEF DynphonySize, ReadNames, I!push
  <2> HIDE DEF v, code
  <2>3. /\ Single(I!alu("sub", I!SP, I!SP, 4, TRUE)) /\ Single(I!store(4, I!SP, v))
        /\ Single(I!alu("sub", I!SP, I!SP, 4, TRUE)) /\ Single(I!store(4, I!SP, I!SP))
        /\ Len(I!alu("sub", I!SP, I!SP, 4, TRUE)) = Len(I!alu("sub", I!SP, I!SP, 4, TRUE))
        /\ Len(I!store(4, I!SP, v)) = Len(I!store(4, I!SP, I!SP))
    <3>1. "sub" \in AluNames \cup {"cmp"} /\ "add" \in AluNames \cup {"cmp"}
      BY DEF AluNames
    <3>2. \A op \in {"sub", "add"} : Single(I!alu(op, I!SP, I!SP, 4, TRUE))
      BY <1>1, <3>1, AluForms, Zenon
    <3>3. \A r, q \in Int : /\ Single(I!load(4, r, q)) /\ Len(I!load(4, r, q)) = 3
                           /\ Single(I!store(4, r, q)) /\ Len(I!store(4, r, q)) = 3
      BY <1>1, MemorySingle
    <3> QED
      BY <1>1, <3>2, <3>3
  <2>4. Len(code) = DynphonySize(x) /\ Len(I!Padded(code)) = 8
    BY <2>1, <2>2, <2>3, TwoPadded
  <2> QED
    BY <1>21, <2>4 DEF code
<1>22. CASE x.mnem = "pop"
  <2>1. code = I!load(4, x.d, I!SP) \o I!alu("add", I!SP, I!SP, 4, TRUE)
    <3>1. code = I!pop(x.d)
      BY <1>22, <1>3 DEF InsnCode, ReadNames
    <3> HIDE DEF v, code
    <3> QED
      BY <3>1 DEF I!pop
  <2>2. DynphonySize(x) = Len(I!load(4, I!SP, I!SP) \o I!alu("add", I!SP, I!SP, 4, TRUE))
    BY <1>22, <1>3 DEF DynphonySize, ReadNames, I!pop
  <2> HIDE DEF v, code
  <2>3. /\ Single(I!load(4, x.d, I!SP)) /\ Single(I!alu("add", I!SP, I!SP, 4, TRUE))
        /\ Single(I!load(4, I!SP, I!SP)) /\ Single(I!alu("add", I!SP, I!SP, 4, TRUE))
        /\ Len(I!load(4, x.d, I!SP)) = Len(I!load(4, I!SP, I!SP))
        /\ Len(I!alu("add", I!SP, I!SP, 4, TRUE)) = Len(I!alu("add", I!SP, I!SP, 4, TRUE))
    <3>1. "sub" \in AluNames \cup {"cmp"} /\ "add" \in AluNames \cup {"cmp"}
      BY DEF AluNames
    <3>2. \A op \in {"sub", "add"} : Single(I!alu(op, I!SP, I!SP, 4, TRUE))
      BY <1>1, <3>1, AluForms, Zenon
    <3>3. \A r, q \in Int : /\ Single(I!load(4, r, q)) /\ Len(I!load(4, r, q)) = 3
                           /\ Single(I!store(4, r, q)) /\ Len(I!store(4, r, q)) = 3
      BY <1>1, MemorySingle
    <3> QED
      BY <1>1, <3>2, <3>3
  <2>4. Len(code) = DynphonySize(x) /\ Len(I!Padded(code)) = 8
    BY <2>1, <2>2, <2>3, TwoPadded
  <2> QED
    BY <1>22, <2>4 DEF code
<1>23. \/ x.mnem \in AluNames \/ x.mnem \in JumpNames
      \/ x.mnem \in ReadNames
      \/ x.mnem \in {"mov", "cmp", "store", "load", "push", "pop", "nop", "output", "screen",
                     "persistent_load", "persistent_store", "link_return"}
  BY DEF Operands, Mnemonics
<1> QED
  BY <1>4, <1>5, <1>6, <1>7, <1>8, <1>9, <1>10, <1>11, <1>12, <1>13, <1>14, <1>15, <1>16, <1>17, <1>18, <1>19, <1>20, <1>21, <1>22, <1>23 DEF ReadNames

(* what is written for a statement has the size pass 1 reserved for it,     *)
LEMMA SizesAgree ==
  ASSUME NEW x \in Forms, NEW fixed \in BOOLEAN
  PROVE  Len(Encode(x, fixed)) = InsnSize(x, fixed)
<1>1. CASE x.is = "insn"
  <2>1. Operands(x)
    <3>1. \/ x \in [is : {"insn"}, mnem : Mnemonics, d : Registers, a : Registers, v : Registers,
                    imm : {FALSE}, size : {1, 2, 4}]
          \/ x \in [is : {"insn"}, mnem : HaveImmediate, d : Registers, a : Registers, v : Literals,
                    imm : {TRUE}, size : {4}]
      BY <1>1 DEF Forms
    <3>2. Registers \subseteq Int /\ Literals \subseteq Int
      BY OperandsAssumption
    <3>3. HaveImmediate \subseteq Mnemonics
      BY DEF HaveImmediate, Mnemonics
    <3> QED
      BY <3>1, <3>2, <3>3 DEF Operands
  <2>2. /\ Len(InsnCode(x)) = DynphonySize(x)
        /\ Len(I!Padded(InsnCode(x))) = IF x.mnem \in {"push", "pop"} THEN 8 ELSE 4
    BY <2>1, InsnLength
  <2>3. Encode(x, fixed) = IF fixed THEN I!Padded(InsnCode(x)) ELSE InsnCode(x)
    BY <1>1 DEF Encode, I!Encoded
  <2>4. InsnSize(x, fixed) = IF fixed THEN IF x.mnem \in {"push", "pop"} THEN 8 ELSE 4 ELSE DynphonySize(x)
    BY <1>1 DEF InsnSize, Slot
  <2> QED
    BY <2>2, <2>3, <2>4
<1>2. CASE x.is = "jump"
  <2>1. x.cond \in JumpNames
    BY <1>2 DEF Forms
  <2>2. Single(I!jump(x.cond, 0, TRUE)) /\ Len(I!jump(x.cond, 0, TRUE)) = 4
    <3>1. 0 \in Int
      OBVIOUS
    <3> QED
      BY <2>1, <3>1, JumpForms, Zenon
  <2>3. Len(I!Padded(I!jump(x.cond, 0, TRUE))) = 4
    BY <2>2, OnePadded
  <2>4. Encode(x, fixed) = IF fixed THEN I!Padded(I!jump(x.cond, 0, TRUE)) ELSE I!jump(x.cond, 0, TRUE)
    BY <1>2 DEF Encode, I!Encoded
  <2>5. InsnSize(x, fixed) = 4
    BY <1>2 DEF InsnSize
  <2> QED
    BY <2>2, <2>3, <2>4, <2>5
<1>4. CASE x.is = "call"
  <2>1. /\ Encode(x, TRUE) = I!Padded(CallBytes(0, TRUE, TRUE)) /\ Encode(x, FALSE) = CallBytes(0, TRUE, FALSE)
        /\ InsnSize(x, TRUE) = 12 /\ InsnSize(x, FALSE) = 10
    BY <1>4 DEF Encode, I!Encoded, InsnSize, Slot
  <2>2. /\ Len(I!Padded(CallBytes(0, TRUE, TRUE))) = 12
        /\ Len(CallBytes(0, TRUE, FALSE)) = 10
    <3>1. 0 \in Int /\ TRUE \in BOOLEAN /\ (IF TRUE THEN 10 ELSE 9) = 10
      OBVIOUS
    <3> QED
      BY <3>1, CallLength, Zenon
  <2> QED
    BY <2>1, <2>2
<1>5. CASE x.is = "callreg"
  <2>1. x.reg \in Int
    <3>1. x.reg \in Registers
      BY <1>5 DEF Forms
    <3> QED
      <4>1. \A r \in Registers : r \in Int
        BY OperandsAssumption
      <4> QED
        BY <3>1, <4>1, Zenon
  <2>2. /\ Encode(x, TRUE) = I!Padded(CallBytes(x.reg, FALSE, TRUE))
        /\ Encode(x, FALSE) = CallBytes(x.reg, FALSE, FALSE)
        /\ InsnSize(x, TRUE) = 12 /\ InsnSize(x, FALSE) = 9
    BY <1>5 DEF Encode, I!Encoded, InsnSize, Slot
  <2>3. /\ Len(I!Padded(CallBytes(x.reg, FALSE, TRUE))) = 12
        /\ Len(CallBytes(x.reg, FALSE, FALSE)) = 9
    <3>1. FALSE \in BOOLEAN /\ (IF FALSE THEN 10 ELSE 9) = 9
      OBVIOUS
    <3> QED
      BY <2>1, <3>1, CallLength, Zenon
  <2> QED
    BY <2>2, <2>3
<1>6. CASE x.is = "address"
  <2>1. x.reg \in Int
    <3>1. x.reg \in Registers
      BY <1>6 DEF Forms
    <3> QED
      <4>1. \A r \in Registers : r \in Int
        BY OperandsAssumption
      <4> QED
        BY <3>1, <4>1, Zenon
  <2>5. Len(I!constant(x.reg, 0)) = 12 /\ Len(I!Padded(I!constant(x.reg, 0))) = 12
    <3>1. 0 \in Int
      OBVIOUS
    <3> QED
      BY <2>1, <3>1, ConstantLength, Zenon
  <2>6. /\ Encode(x, TRUE) = I!Padded(I!constant(x.reg, 0)) /\ Encode(x, FALSE) = I!constant(x.reg, 0)
        /\ InsnSize(x, TRUE) = 12 /\ InsnSize(x, FALSE) = 12
    BY <1>6 DEF Encode, I!Encoded, InsnSize, Slot
  <2> QED
    BY <2>5, <2>6
<1>7. x.is \in {"insn", "jump", "call", "callreg", "address"}
  BY DEF Forms
<1> QED
  BY <1>1, <1>2, <1>4, <1>5, <1>6, <1>7

(* What pass 2 writes for a statement is as long as pass 1 said, before any *)
(* symbol was known, for every register and literal and in both encodings:  *)
(* no label of an object is off (symphony_as.py:36-77, 427-486, 503-700).   *)
THEOREM SizesMirrorCodeTheorem == LinkSpec => []SizesMirrorCode
<1>1. Typed => SizesMirrorCode
  <2>1. SUFFICES ASSUME Typed, NEW x \in Forms
                 PROVE  Len(Encode(x, FixedWidth)) = InsnSize(x, FixedWidth)
    BY DEF SizesMirrorCode
  <2>2. FixedWidth \in BOOLEAN
    <3>1. ASSUME objects # << >> PROVE objects[Len(objects)].fixed \in BOOLEAN
      <4>1. objects[Len(objects)] \in AllObjects
        BY <2>1, <3>1 DEF Typed
      <4> QED
        BY <4>1, ObjectsAssumption
    <3> QED
      BY <3>1 DEF FixedWidth
  <2> QED
    BY <2>2, SizesAgree
<1> QED
  BY Invariance, <1>1, PTL DEF IInv
=============================================================================
