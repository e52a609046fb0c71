-------------------------- MODULE MCProjectReader --------------------------
(***************************************************************************)
(* Projects the packer writes, and the same streams with one word replaced  *)
(* or with another length in the control block.                             *)
(***************************************************************************)
EXTENDS ProjectReader

Text(length) == <<length>> \o [k \in 1 .. (length + 3) \div 4 |-> 20 + length]
Path(name) == <<4, name>>

(* encode_project.                                                          *)
Encoded(nroots, defs, fs) ==
  <<Magic, Version, 0, Len(fs), nroots, Len(defs)>>
    \o FlattenSeq([k \in 1 .. nroots |-> Path(30)])
    \o FlattenSeq([k \in DOMAIN defs |-> Text(defs[k])])
    \o FlattenSeq([k \in DOMAIN fs |-> <<fs[k][1]>> \o Path(fs[k][2]) \o Text(fs[k][3])])

Packed ==
  {Encoded(r, d, f) :
     r \in 0 .. 1, d \in {<< >>, <<5>>},
     f \in {<<<<1, 31, 0>>>>, <<<<1, 31, 6>>>>, <<<<2, 31, 4>>>>,
            <<<<2, 31, 0>>, <<1, 32, 1>>>>}}

Corruptions == {0, 1, 2, 3, 4, 9, 123, 124, 125, 127}

Corrupted ==
  UNION {{ReplaceAt(w, i, x) : i \in DOMAIN w, x \in Corruptions} : w \in Packed}

Exact(S, scarce) == {[words |-> w, length |-> 4 * Len(w), scarce |-> scarce] : w \in S}

Cut == {[words |-> w, length |-> n, scarce |-> FALSE] : w \in Packed, n \in {0, 3, 22, 24, 39, 43, 44, 48}}

(* A header that claims records, and nothing after it.                      *)
HeaderOnly ==
  {[words |-> SubSeq(w, 1, 6), length |-> 24, scarce |-> FALSE] : w \in Corrupted}

PackedOrCorrupted ==
  Exact(Packed, FALSE) \cup Exact(Packed, TRUE) \cup Exact(Corrupted, FALSE) \cup Cut
    \cup HeaderOnly
=============================================================================
