-------------------------------- MODULE Heap --------------------------------
(***************************************************************************)
(* The run-time heap every compiled program carries: malloc, free, calloc   *)
(* and realloc of symphony/runtime/helpers.py (the same C text is linked by *)
(* the GCC port, heap.c, and by the self-hosted compiler, runtime.c).       *)
(*                                                                          *)
(* A block is an 8-byte header and its payload; `size` maps the headers     *)
(* that exist to their payload sizes, `free` is the linked free list in     *)
(* list order.  `memory` holds one entry per word: a header, or what the    *)
(* program stored.  The program is any program that fills what it gets and  *)
(* frees only what it holds; its stack may come down to the heap but not    *)
(* into it (c-language-support.md:186 leaves that to the program).          *)
(***************************************************************************)
EXTENDS Naturals, Sequences, FiniteSets, SequencesExt

CONSTANTS
  Modulus,   \* unsigned int is 0 .. Modulus-1
  Base,      \* first heap address, &__dyn_heap_start rounded up
  Stacks,    \* values the stack pointer takes
  Request,   \* sizes passed to malloc and realloc
  Counts,    \* element counts passed to calloc
  Contents,  \* what programs fill allocations with, Zero included
  Zero, Junk, Header

ASSUME HeapAssumption ==
  /\ Modulus \in Nat /\ Base \in Nat \ {0}
  /\ Base % 4 = 0 /\ Modulus % 4 = 0 /\ Modulus > 12
  /\ \A s \in Stacks : s \in Nat /\ Base <= s /\ s < Modulus
  /\ Request \subseteq 0 .. Modulus - 1 /\ Counts \subseteq 0 .. Modulus - 1

VARIABLES
  size,    \* header address -> payload size, for every block there is
  free,    \* __dyn_heap_free_list, as the sequence of its headers
  end,     \* __dyn_heap_end
  sp,      \* the stack pointer
  memory,  \* contents of the heap's words
  live     \* pointer -> [want, kept, tag] of the allocations held

vars == <<size, free, end, sp, memory, live>>

HeaderSize == 8
Max32 == Modulus - 1
Word == {a \in Base .. Modulus - 1 : a % 4 = 0}

(* (n + 3) & ~3 in unsigned arithmetic.                                     *)
RoundUp(n) == LET m == (n + 3) % Modulus IN m - (m % 4)

Payload(block) == block + HeaderSize
BlockOf(p) == p - HeaderSize
After(h, block) == block + HeaderSize + h.size[block]

HeapOf(s, f, e) == [size |-> s, free |-> f, end |-> e]
Heap == HeapOf(size, free, end)

With(f, a, n) == [b \in DOMAIN f \cup {a} |-> IF b = a THEN n ELSE f[b]]
Without(f, a) == [b \in DOMAIN f \ {a} |-> f[b]]

-----------------------------------------------------------------------------
(* Mutant: the spare bytes of a split are counted without the header.       *)
TakeFreeNoHeader(h, i, n) ==
  LET block == h.free[i]
      spare == h.size[block] - n
      rest == block + HeaderSize + n
  IN  IF spare >= HeaderSize + 4
        THEN HeapOf(With(With(h.size, rest, spare), block, n),
                    ReplaceAt(h.free, i, rest), h.end)
        ELSE HeapOf(h.size, RemoveAt(h.free, i), h.end)

(* __dyn_heap_take_free on the first block that is large enough, number i   *)
(* of the list: split it when a block of at least 4 bytes remains.          *)
TakeFree(h, i, n) ==
  LET block == h.free[i]
      spare == h.size[block] - n
      rest == block + HeaderSize + n
  IN  IF spare >= HeaderSize + 4
        THEN HeapOf(With(With(h.size, rest, spare - HeaderSize), block, n),
                    ReplaceAt(h.free, i, rest), h.end)
        ELSE HeapOf(h.size, RemoveAt(h.free, i), h.end)

FirstFit(h, n) == SelectInSeq(h.free, LAMBDA b : h.size[b] >= n)

(* __dyn_heap_remaining.                                                    *)
Remaining(h) == IF sp > h.end THEN sp - h.end ELSE 0

Refused(h) == [heap |-> h, pointer |-> 0]

(* `malloc`: the heap after it and the pointer it returns.                  *)
Malloc(h, want) ==
  LET n == RoundUp(want)
      i == FirstFit(h, n)
  IN  CASE want = 0 \/ want > Modulus - 12 -> Refused(h)
        [] want \in 1 .. Modulus - 12 /\ i # 0 ->
             [heap |-> TakeFree(h, i, n), pointer |-> Payload(h.free[i])]
        [] want \in 1 .. Modulus - 12 /\ i = 0 /\ Remaining(h) < HeaderSize + n ->
             Refused(h)
        [] OTHER ->
             [heap |-> HeapOf(With(h.size, h.end, n), h.free, h.end + HeaderSize + n),
              pointer |-> Payload(h.end)]

(* Put the block before the first free one with a higher address.           *)
Linked(h, block) ==
  LET higher == SelectInSeq(h.free, LAMBDA b : b >= block)
      at == IF higher = 0 THEN Len(h.free) + 1 ELSE higher
  IN  HeapOf(h.size, InsertAt(h.free, at, block), h.end)

(* Merge block i of the free list with block i+1 when they touch.           *)
Merged(h, i) ==
  IF i \in 1 .. Len(h.free) - 1 /\ After(h, h.free[i]) = h.free[i+1]
    THEN LET b == h.free[i]
             c == h.free[i+1]
         IN  HeapOf(With(Without(h.size, c), b, h.size[b] + HeaderSize + h.size[c]),
                    RemoveAt(h.free, i + 1), h.end)
    ELSE h

(* Mutant: only the following block is looked at.                           *)
FreeForwardOnly(h, p) ==
  LET linked == Linked(h, BlockOf(p))
  IN  Merged(linked, SelectInSeq(linked.free, LAMBDA b : b = BlockOf(p)))

(* `free` of a pointer that is not null: link, then coalesce with the       *)
(* following block and with the preceding one.                              *)
Free(h, p) ==
  LET linked == Linked(h, BlockOf(p))
      i == SelectInSeq(linked.free, LAMBDA b : b = BlockOf(p))
  IN  Merged(Merged(linked, i), i - 1)

-----------------------------------------------------------------------------
Init ==
  /\ size = << >>
  /\ free = << >>
  /\ end = Base
  /\ sp \in Stacks
  /\ memory = [w \in Word |-> Junk]
  /\ live = << >>

Headers(h) == UNION {{b, b + 4} : b \in DOMAIN h.size}

(* Bytes a .. a+n-1 as words.                                               *)
Words(a, n) == {w \in Word : a <= w /\ w < a + n}

FreeWords(h) == UNION {Words(Payload(h.free[i]), h.size[h.free[i]]) : i \in DOMAIN h.free}

(* Memory after the heap became h: every header in place, and what is left  *)
(* in free payloads, which nobody reads, forgotten.                         *)
WithHeaders(m, h) ==
  LET headers == Headers(h)
      unused == FreeWords(h)
  IN  [w \in Word |-> CASE w \in headers -> Header
                        [] w \in unused -> Junk
                        [] OTHER -> m[w]]

Fill(m, p, n, tag) == [w \in Word |-> IF w \in Words(p, n) THEN tag ELSE m[w]]

(* memcpy of n bytes, word by word.                                         *)
Copied(m, p, q, n) ==
  [w \in Word |-> IF w \in Words(q, n) THEN m[p + (w - q)] ELSE m[w]]

Becomes(h) ==
  /\ size' = h.size
  /\ free' = h.free
  /\ end' = h.end

(* A program allocates and fills what it got.                               *)
Allocate(want, tag) ==
  LET r == Malloc(Heap, want)
  IN  /\ Becomes(r.heap)
      /\ IF r.pointer = 0
           THEN UNCHANGED <<memory, live>>
           ELSE /\ live' = With(live, r.pointer, [want |-> want, kept |-> want, tag |-> tag])
                /\ memory' = Fill(WithHeaders(memory, r.heap), r.pointer, want, tag)
      /\ UNCHANGED sp

Release(p) ==
  /\ p \in DOMAIN live
  /\ Becomes(Free(Heap, p))
  /\ live' = Without(live, p)
  /\ memory' = WithHeaders(memory, Free(Heap, p))
  /\ UNCHANGED sp

(* Mutant: the product is not checked.                                      *)
ClearAllocateUnchecked(count, each) ==
  LET total == (count * each) % Modulus
      r == Malloc(Heap, total)
  IN  /\ Becomes(r.heap)
      /\ IF r.pointer = 0
           THEN UNCHANGED <<memory, live>>
           ELSE /\ live' = With(live, r.pointer,
                                [want |-> count * each, kept |-> total, tag |-> Zero])
                /\ memory' = Fill(WithHeaders(memory, r.heap), r.pointer, total, Zero)
      /\ UNCHANGED sp

(* `calloc`, which refuses a product that does not fit.                     *)
ClearAllocate(count, each) ==
  /\ count = 0 \/ each <= Max32 \div count
  /\ LET total == (count * each) % Modulus
         r == Malloc(Heap, total)
     IN  /\ Becomes(r.heap)
         /\ IF r.pointer = 0
              THEN UNCHANGED <<memory, live>>
              ELSE /\ live' = With(live, r.pointer,
                                   [want |-> count * each, kept |-> total, tag |-> Zero])
                   /\ memory' = Fill(WithHeaders(memory, r.heap), r.pointer, total, Zero)
  /\ UNCHANGED sp

(* Mutant: the old block is freed before its contents are copied, and the   *)
(* copy then reads whatever the allocator made of it.                       *)
ReallocateFreesFirst(p, want) ==
  LET old == size[BlockOf(p)]
      freed == Free(Heap, p)
      r == Malloc(freed, want)
  IN  /\ p \in DOMAIN live
      /\ want # 0
      /\ old < want
      /\ r.pointer # 0
      /\ Becomes(r.heap)
      /\ live' = With(Without(live, p), r.pointer,
                      [want |-> want, kept |-> live[p].kept, tag |-> live[p].tag])
      /\ memory' = Copied(WithHeaders(memory, r.heap), p, r.pointer, old)
      /\ UNCHANGED sp

(* `realloc` of an allocation the program holds.  A block that is large     *)
(* enough stays where it is; a failing one leaves everything alone.         *)
Reallocate(p, want) ==
  LET old == size[BlockOf(p)]
      r == Malloc(Heap, want)
      keep == [want |-> want, tag |-> live[p].tag,
               kept |-> IF live[p].kept < want THEN live[p].kept ELSE want]
  IN  /\ p \in DOMAIN live
      /\ want # 0
      /\ \/ /\ old >= want
            /\ live' = [live EXCEPT ![p] = keep]
            /\ UNCHANGED <<size, free, end, memory>>
         \/ /\ old < want
            /\ r.pointer # 0
            /\ Becomes(Free(r.heap, p))
            /\ live' = With(Without(live, p), r.pointer, keep)
            /\ memory' = WithHeaders(Copied(WithHeaders(memory, r.heap), p, r.pointer, old),
                                     Free(r.heap, p))
         \/ /\ old < want
            /\ r.pointer = 0
            /\ UNCHANGED <<size, free, end, memory, live>>
      /\ UNCHANGED sp

(* Calls and returns move the stack pointer, not below the heap.            *)
MoveStack(s) ==
  /\ s >= end
  /\ sp' = s
  /\ UNCHANGED <<size, free, end, memory, live>>

Next ==
  \/ \E n \in Request, t \in Contents : Allocate(n, t)
  \/ \E p \in DOMAIN live : Release(p)
  \/ \E c \in Counts, n \in Request : ClearAllocate(c, n)
  \/ \E p \in DOMAIN live, n \in Request : Reallocate(p, n)
  \/ \E s \in Stacks : MoveStack(s)

Spec == Init /\ [][Next]_vars

-----------------------------------------------------------------------------
FreeSet == {free[i] : i \in DOMAIN free}

(* The blocks cover the heap without gap or overlap, and a block is either  *)
(* on the free list or held by the program: no sequence of calls loses or   *)
(* duplicates a byte, or takes one that is the stack's (helpers.py:81-165). *)
Tiling ==
  /\ end <= sp
  /\ end = Base <=> DOMAIN size = {}
  /\ DOMAIN size # {} => Base \in DOMAIN size
  /\ \A b \in DOMAIN size :
       /\ After(Heap, b) \in DOMAIN size \cup {end}
       /\ \A c \in DOMAIN size : c <= b \/ c >= After(Heap, b)
  /\ {BlockOf(p) : p \in DOMAIN live} = DOMAIN size \ FreeSet

(* The free list is in address order and no two free blocks touch, so       *)
(* coalescing never has to look further than the two neighbours of the      *)
(* block being freed (helpers.py:131-155).                                  *)
Coalesced ==
  \A i, j \in DOMAIN free : i < j =>
    free[i] < free[j] /\ After(Heap, free[i]) # free[j]

(* A block is at least as large as what was asked for, whatever the size    *)
(* arithmetic wrapped to (helpers.py:113-115 and calloc's check).           *)
LargeEnough == \A p \in DOMAIN live : live[p].want <= size[BlockOf(p)]

(* What a program stored stays there while it holds the allocation, through *)
(* other calls and through realloc's move (helpers.py:167-184).             *)
ContentsKept ==
  \A p \in DOMAIN live : \A w \in Words(p, live[p].kept) : memory[w] = live[p].tag

(* Refinement: the heap is an allocator.                                    *)
Abstract ==
  INSTANCE Allocator
    WITH Ram <- Modulus,
         Pointer <- Word,
         Contents <- Contents \cup {Zero},
         Request <- Request \cup {c * n : c \in Counts, n \in Request},
         live <- [p \in DOMAIN live |-> [want |-> live[p].want, tag |-> live[p].tag]],
         stored <- [p \in DOMAIN live |-> {memory[w] : w \in Words(p, live[p].kept)}]
ImplementsAllocator == Abstract!ASpec
=============================================================================
