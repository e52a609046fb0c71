----------------------------- MODULE Allocator -----------------------------
(***************************************************************************)
(* What malloc, calloc, realloc and free promise a program: an allocation   *)
(* is a piece of the heap nobody else has, it keeps what the program put    *)
(* there until it is freed, and calloc's is zero.                           *)
(***************************************************************************)
EXTENDS Naturals

CONSTANTS Ram,      \* addresses are 0 .. Ram-1
          Pointer,  \* those an allocation may start at
          Request,  \* sizes a program asks for
          Contents  \* what a program fills an allocation with

VARIABLES
  live,   \* pointer -> [want: bytes, tag: what the program put there]
  stored  \* pointer -> what its bytes hold

(* Address p has n bytes that no allocation in `others` covers.             *)
Vacant(p, n, others) ==
  /\ p + n <= Ram
  /\ \A q \in DOMAIN others : p + n <= q \/ q + others[q].want <= p

Put(f, p, x) == [q \in DOMAIN f \cup {p} |-> IF q = p THEN x ELSE f[q]]
Drop(f, p) == [q \in DOMAIN f \ {p} |-> f[q]]

AInit == live = << >> /\ stored = << >>

(* The state after a step says what was granted, and how much.              *)
Grant(p) ==
  /\ p \in Pointer
  /\ live'[p].want \in Request \ {0} /\ live'[p].tag \in Contents
  /\ live' = Put(live, p, live'[p])
  /\ Vacant(p, live'[p].want, live)
  /\ stored' = Put(stored, p, {live'[p].tag})

Return(p) ==
  /\ live' = Drop(live, p)
  /\ stored' = Drop(stored, p)

(* A resized allocation may move, and keeps the contents it had.            *)
Resize(p, q) ==
  /\ q \in Pointer
  /\ live'[q].want \in Request \ {0}
  /\ live' = Put(Drop(live, p), q, [want |-> live'[q].want, tag |-> live[p].tag])
  /\ Vacant(q, live'[q].want, Drop(live, p))
  /\ stored' = Put(Drop(stored, p), q, {live[p].tag})

ANext ==
  \/ \E p \in DOMAIN live' \ DOMAIN live : Grant(p)
  \/ \E p \in DOMAIN live : Return(p)
  \/ \E p \in DOMAIN live, q \in DOMAIN live' : Resize(p, q)

ASpec == AInit /\ [][ANext]_<<live, stored>>
=============================================================================
