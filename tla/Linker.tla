------------------------------- MODULE Linker --------------------------------
(***************************************************************************)
(* symphony_ld.py: objects of symphony_as.py and the members of archives    *)
(* they need become one image.  Archives are searched in order, each to a   *)
(* fixed point; the area of far-branch stubs at the start of the image      *)
(* grows to a fixed point; relocations are applied one by one.              *)
(*                                                                          *)
(* Reach stands for 0xFFFF, the last address an immediate jump can name.    *)
(* The container format of an archive is abstracted: a member that is not   *)
(* one of our objects is not listed.                                        *)
(***************************************************************************)
EXTENDS GccAssembler, FiniteSets

CONSTANTS Jobs,  \* [objects, archives, entry]: the inputs of a link
          Reach,
          Registers, Literals  \* operands of the instructions of GCC's output

ASSUME ReachAssumption == Reach \in Nat

ASSUME OperandsAssumption == Registers \subseteq 0 .. 15 /\ Literals \subseteq {v \in Int : v < 65536}

AllObjects ==
  UNION {ToSet(j.objects) \cup UNION {ToSet(j.archives[a]) : a \in DOMAIN j.archives} : j \in Jobs}

(* What an object file holds of sections, symbols and relocations.          *)
ASSUME ObjectsAssumption ==
  \A o \in AllObjects :
    /\ o.fixed \in BOOLEAN
    /\ o.text \in Seq(0 .. 255) /\ o.data \in Seq(0 .. 255) /\ o.bss \in Nat
    /\ \A s \in o.symbols : s.section \in Sections /\ s.offset \in Nat
    /\ o.relocs \in Seq(ToSet(o.relocs))
    /\ \A r \in DOMAIN o.relocs : o.relocs[r].addend \in Int

(* The members of an archive come from units of different names: of two     *)
(* with one name the linker includes one.                                   *)
ASSUME JobsAssumption ==
  \A j \in Jobs :
    /\ j.objects \in Seq(AllObjects)
    /\ j.archives \in Seq(Seq(AllObjects))
    /\ \A a \in DOMAIN j.archives : \A m, n \in DOMAIN j.archives[a] :
         j.archives[a][m].unit = j.archives[a][n].unit => m = n

VARIABLES
  job,      \* the inputs
  objects,  \* the objects included, in link order
  archive,  \* number of the archive that is searched
  search,   \* [needed, member, changed] of a round through its members, and
            \* `included`, the units taken from it so far
  stubs,    \* pairs of a symbol and an addend that need a stub
  image,    \* the bytes of the image
  next,     \* <<object, relocation>> to apply next
  phase     \* "search", "round", "stubs", "relocate", "done", or an error

vars == <<job, objects, archive, search, stubs, image, next, phase>>

LinkInit ==
  /\ job \in Jobs
  /\ objects = job.objects
  /\ archive = 1
  /\ search = [needed |-> {}, member |-> 1, changed |-> FALSE, included |-> {}]
  /\ stubs = {}
  /\ image = << >>
  /\ next = <<1, 1>>
  /\ phase = "search"

Raise(error) ==
  /\ phase' = error
  /\ UNCHANGED <<job, objects, archive, search, stubs, image, next>>

-----------------------------------------------------------------------------
Exports(object) == {s.name : s \in {t \in object.symbols : t.global}}

Defined == UNION {Exports(objects[k]) : k \in DOMAIN objects}

Undefined == UNION {objects[k].undefined : k \in DOMAIN objects}

Members == job.archives[archive]

(* What is needed is found once a round, before its first member.           *)
StartRound ==
  /\ phase = "search" /\ archive <= Len(job.archives)
  /\ search' = [needed |-> Undefined \ Defined, member |-> 1, changed |-> FALSE,
                 included |-> search.included]
  /\ phase' = "round"
  /\ UNCHANGED <<job, objects, archive, stubs, image, next>>

ConsiderMember ==
  /\ phase = "round" /\ search.member <= Len(Members)
  /\ LET m == Members[search.member]
         wanted == m.unit \notin search.included /\ Exports(m) \cap search.needed # {}
     IN  /\ objects' = IF wanted THEN Append(objects, m) ELSE objects
         /\ search' = [search EXCEPT !.member = @ + 1, !.changed = @ \/ wanted,
                         !.included = IF wanted THEN @ \cup {m.unit} ELSE @]
  /\ UNCHANGED <<job, archive, stubs, image, next, phase>>

(* Mutant: one pass through an archive is all there is.                     *)
EndRoundOnce ==
  /\ phase = "round" /\ search.member > Len(Members)
  /\ archive' = archive + 1
  /\ search' = [search EXCEPT !.included = {}]
  /\ phase' = "search"
  /\ UNCHANGED <<job, objects, stubs, image, next>>

(* Mutant: rounds until nothing is missing.                                 *)
EndRoundWhileNeeded ==
  /\ phase = "round" /\ search.member > Len(Members)
  /\ archive' = IF search.needed # {} THEN archive ELSE archive + 1
  /\ search' = IF search.needed # {} THEN search ELSE [search EXCEPT !.included = {}]
  /\ phase' = "search"
  /\ UNCHANGED <<job, objects, stubs, image, next>>

EndRound ==
  /\ phase = "round" /\ search.member > Len(Members)
  /\ archive' = IF search.changed THEN archive ELSE archive + 1
  /\ search' = IF search.changed THEN search ELSE [search EXCEPT !.included = {}]
  /\ phase' = "search"
  /\ UNCHANGED <<job, objects, stubs, image, next>>

-----------------------------------------------------------------------------
StubBytes == 16

Extent(object, section) ==
  CASE section = "text" -> Len(object.text)
    [] section = "data" -> Len(object.data)
    [] section = "bss" -> object.bss

(* Of the first n objects.                                                  *)
Total(section, n) ==
  LET sum[k \in 0 .. n] == IF k = 0 THEN 0 ELSE sum[k - 1] + Extent(objects[k], section)
  IN  sum[n]

(* Where a section of an object begins: stubs, all text, all data, all bss. *)
Base(area, section, k) ==
  LET all == Len(objects)
  IN  area + Total(section, k - 1)
        + (IF section = "text" THEN 0 ELSE Total("text", all))
        + (IF section = "bss" THEN Total("data", all) ELSE 0)

EndOfImage(area) == Base(area, "bss", Len(objects) + 1)

Area(set) == Cardinality(set) * StubBytes

(* A local symbol is found in its own object only.                          *)
Key(k, symbol) ==
  IF \E s \in objects[k].symbols : s.name = symbol /\ ~ s.global
    THEN <<objects[k].unit, symbol>> ELSE <<"", symbol>>

(* Where symbols are defined, and what a definition is called.              *)
Definitions == UNION {{<<k, s>> : s \in objects[k].symbols} : k \in DOMAIN objects}

KeyOf(d) == <<IF d[2].global THEN "" ELSE objects[d[1]].unit, d[2].name>>

AddressOf(d, area) == Base(area, d[2].section, d[1]) + d[2].offset

(* Of several definitions of one key the table keeps the last.              *)
LastOf(key) ==
  CHOOSE d \in Definitions :
    /\ KeyOf(d) = key
    /\ \A e \in Definitions : KeyOf(e) = key => e[1] <= d[1]

SymbolTable(area) ==
  [key \in {KeyOf(d) : d \in Definitions} |-> AddressOf(LastOf(key), area)]

Ambiguous(area) ==
  \E d, e \in Definitions :
    d[2].global /\ e[2].global /\ KeyOf(d) = KeyOf(e) /\ AddressOf(d, area) # AddressOf(e, area)

(* The last object of each unit's name; the others are not looked at when   *)
(* the widths are compared.                                                 *)
LastOfUnits ==
  {k \in DOMAIN objects : \A j \in k + 1 .. Len(objects) : objects[j].unit # objects[k].unit}

Mixed == \E j, k \in LastOfUnits : objects[j].fixed # objects[k].fixed

FixedWidth == IF objects = << >> THEN TRUE ELSE objects[Len(objects)].fixed

AllRelocs == UNION {{<<k, r>> : r \in DOMAIN objects[k].relocs} : k \in DOMAIN objects}

RelocAt(site) == objects[site[1]].relocs[site[2]]

(* The jumps that do not reach with a stub area of this size.               *)
FarOf(table) ==
  {<<Key(site[1], RelocAt(site).symbol), RelocAt(site).addend>> :
     site \in {t \in AllRelocs :
                 /\ RelocAt(t).kind = "jump_u16"
                 /\ Key(t[1], RelocAt(t).symbol) \in DOMAIN table
                 /\ table[Key(t[1], RelocAt(t).symbol)] + RelocAt(t).addend > Reach}}

CheckWidth ==
  /\ phase = "search" /\ archive > Len(job.archives)
  /\ IF Mixed THEN Raise("mixed")
     ELSE /\ phase' = "stubs"
          /\ UNCHANGED <<job, objects, archive, search, stubs, image, next>>

(* Mutant: the stubs of one round are all there are.                        *)
SolveStubsOnce ==
  LET table == SymbolTable(Area(stubs))
  IN  /\ phase = "stubs"
      /\ IF Ambiguous(Area(stubs)) THEN Raise("duplicate")
         ELSE /\ stubs' = IF FixedWidth THEN FarOf(table) ELSE stubs
              /\ phase' = "layout"
              /\ UNCHANGED <<job, objects, archive, search, image, next>>

(* One round of the loop in link; without fixed width there is none.        *)
SolveStubs ==
  LET table == SymbolTable(Area(stubs))
      far == IF FixedWidth THEN FarOf(table) ELSE {}
  IN  /\ phase = "stubs"
      /\ IF Ambiguous(Area(stubs)) THEN Raise("duplicate")
         ELSE /\ stubs' = stubs \cup far
              /\ phase' = IF far \subseteq stubs THEN "layout" ELSE "stubs"
              /\ UNCHANGED <<job, objects, archive, search, image, next>>

-----------------------------------------------------------------------------
Written(bytes, at, new) ==
  [p \in DOMAIN bytes |-> IF p - at \in DOMAIN new THEN new[p - at] ELSE bytes[p]]

(* The stubs in the order of their addresses: sorted by name in the code,   *)
(* which nothing depends on.                                                *)
StubOrder == SetToSeq(stubs)

StubAddress(stub) ==
  LET order == StubOrder
  IN  ((CHOOSE k \in DOMAIN order : order[k] = stub) - 1) * StubBytes

(* Mutant: through the register that holds the return address.              *)
StubCodeLink(target) ==
  I!Encoded(I!constant(I!R13, target) \o I!jump("jmp", I!R13, FALSE), TRUE)

StubCode(target) ==
  I!Encoded(I!constant(I!FLAGS, target) \o I!jump("jmp", I!FLAGS, FALSE), TRUE)

(* The stubs' bytes, all text, all data, and room for .bss.                 *)
Initial ==
  LET table == SymbolTable(Area(stubs))
      order == StubOrder
      stubPart == FlattenSeq([k \in DOMAIN order |-> StubCode(table[order[k][1]] + order[k][2])])
      part(section) ==
        FlattenSeq([k \in DOMAIN objects |->
                      IF section = "text" THEN objects[k].text ELSE objects[k].data])
  IN  stubPart \o part("text") \o part("data") \o Zeros(Total("bss", Len(objects)))

HeapAnchor == "__dyn_heap_anchor"

LayOut ==
  /\ phase = "layout"
  /\ IF (Cardinality(stubs) - 1) * StubBytes > Reach THEN Raise("stub area")
     ELSE IF <<"", HeapAnchor>> \in DOMAIN SymbolTable(Area(stubs)) THEN Raise("stale anchor")
     ELSE /\ image' = Initial
          /\ phase' = "relocate"
          /\ UNCHANGED <<job, objects, archive, search, stubs, next>>

(* With the end of the image as the heap's anchor.                          *)
FinalTable ==
  LET table == SymbolTable(Area(stubs))
      anchor == <<"", HeapAnchor>>
  IN  [key \in DOMAIN table \cup {anchor} |->
         IF key = anchor THEN EndOfImage(Area(stubs)) ELSE table[key]]

-----------------------------------------------------------------------------
BigEndian(v, width) == [k \in 1 .. width |-> (v \div 256 ^ (width - k)) % 256]

Patch(reloc, target) ==
  CASE reloc.kind = "jump_u16" -> [at |-> 2, bytes |-> BigEndian(target, 2)]
    [] reloc.kind = "abs32_la" ->
         [at |-> 0, bytes |-> I!Encoded(I!constant(reloc.reg, target), FixedWidth)]
    [] reloc.kind = "data1" -> [at |-> 0, bytes |-> BigEndian(target, 1)]
    [] reloc.kind = "data2" -> [at |-> 0, bytes |-> BigEndian(target, 2)]
    [] reloc.kind = "data4" -> [at |-> 0, bytes |-> BigEndian(target, 4)]

Following(site) ==
  IF site[2] < Len(objects[site[1]].relocs) THEN <<site[1], site[2] + 1>> ELSE <<site[1] + 1, 1>>

(* What a relocation asks for, by way of a stub or not.                     *)
Asked(site) == FinalTable[Key(site[1], RelocAt(site).symbol)] + RelocAt(site).addend

Relocate ==
  /\ phase = "relocate" /\ next[1] <= Len(objects)
  /\ IF next \notin AllRelocs
       THEN /\ next' = Following(next)
            /\ UNCHANGED <<job, objects, archive, search, stubs, image, phase>>
       ELSE LET reloc == RelocAt(next)
                key == Key(next[1], reloc.symbol)
                stub == <<key, reloc.addend>>
                target == IF reloc.kind = "jump_u16" /\ stub \in stubs
                            THEN StubAddress(stub) ELSE Asked(next)
                patch == Patch(reloc, target)
                site == Base(Area(stubs), reloc.section, next[1]) + reloc.offset
            IN  IF key \notin DOMAIN FinalTable THEN Raise("undefined")
                ELSE IF reloc.kind = "jump_u16" /\ target \notin 0 .. Reach
                THEN Raise("out of reach")
                ELSE /\ image' = Written(image, site + patch.at, patch.bytes)
                     /\ next' = Following(next)
                     /\ UNCHANGED <<job, objects, archive, search, stubs, phase>>

Finish ==
  /\ phase = "relocate" /\ next[1] > Len(objects)
  /\ phase' = IF <<"", job.entry>> \in DOMAIN FinalTable THEN "done" ELSE "no entry"
  /\ UNCHANGED <<job, objects, archive, search, stubs, image, next>>

LinkNext ==
  \/ StartRound \/ ConsiderMember \/ EndRound \/ CheckWidth
  \/ SolveStubs \/ LayOut \/ Relocate \/ Finish

Linking == phase \in {"search", "round", "stubs", "layout", "relocate"}

(* The linker is sequential code: it takes its next step while there is one.*)
(* Under [][LinkNext]_vars this is WF_vars(LinkNext), with Linking for      *)
(* ENABLED <<LinkNext>>_vars.                                               *)
Fairness == []<>(~ Linking) \/ []<><<TRUE>>_vars

LinkSpec == LinkInit /\ [][LinkNext]_vars /\ Fairness

-----------------------------------------------------------------------------
FromLater(k, a) ==
  /\ k > Len(job.objects)
  /\ \E b \in DOMAIN job.archives : b > a /\ \E n \in DOMAIN job.archives[b] : job.archives[b][n] = objects[k]

(* What an archive defines and an object wants is there, also when a later  *)
(* member of the archive made it wanted, unless the object came out of an   *)
(* archive that was searched after this one (symphony_ld.py:76-78, 88-102). *)
NothingLeftOut ==
  phase \notin {"search", "round"} =>
    \A k \in DOMAIN objects : \A a \in DOMAIN job.archives : \A m \in DOMAIN job.archives[a] :
      \/ objects[k].undefined \cap Exports(job.archives[a][m]) \subseteq Defined
      \/ FromLater(k, a)

(* A jump goes through a stub if and only if it would not reach, although   *)
(* the stubs themselves move what it jumps to; no Symphony program that     *)
(* fits into memory is too large for its jumps (symphony_ld.py:138-166,     *)
(* 294-303): one is refused only if it goes to where the heap begins, or to *)
(* an address below zero.                                                   *)
StubsAsNeeded ==
  /\ phase = "done" => \A stub \in stubs : FinalTable[stub[1]] + stub[2] > Reach
  /\ phase = "out of reach" =>
       ~ FixedWidth \/ RelocAt(next).symbol = HeapAnchor \/ Asked(next) < 0

Mnemonics ==
  AluNames \cup JumpNames \cup ReadNames \cup
    {"mov", "cmp", "store", "load", "push", "pop", "nop", "output", "screen",
     "persistent_load", "persistent_store", "link_return"}

HaveImmediate == AluNames \cup JumpNames \cup {"mov", "cmp", "output", "screen"}

Forms ==
  [is : {"insn"}, mnem : Mnemonics, d : Registers, a : Registers, v : Registers,
   imm : {FALSE}, size : {1, 2, 4}]
    \cup [is : {"insn"}, mnem : HaveImmediate, d : Registers, a : Registers, v : Literals,
          imm : {TRUE}, size : {4}]
    \cup [is : {"jump"}, cond : JumpNames]
    \cup [is : {"callreg", "address"}, reg : Registers]
    \cup [is : {"call"}]

(* The tables that size a statement before anything is known of its symbols *)
(* agree with what is written for it, in both encodings, for every mnemonic *)
(* and form: else each later label is off (symphony_as.py:427-438, 256).    *)
SizesMirrorCode ==
  phase = "done" => \A x \in Forms : Len(Encode(x, FixedWidth)) = InsnSize(x, FixedWidth)
=============================================================================
