-------------------------- MODULE ProjectReaderProofs --------------------------
(***************************************************************************)
(* The reader of DCP1 stays inside the project it was given, for every     *)
(* width of its integers, every length and any words in storage: what the  *)
(* lengths in the stream say does not matter, nor where the arithmetic on  *)
(* them wraps.  It reads what the decoder of the host reads, record by     *)
(* record, and accepts what the decoder accepts and nothing else.          *)
(***************************************************************************)
EXTENDS ProjectReader, Lemmas

(* A reader at a word of the project that has loaded only words of it.       *)
Inside(r) ==
  /\ r \in [position : Nat, error : BOOLEAN, touched : SUBSET Nat, skipped : BOOLEAN]
  /\ r.position % 4 = 0
  /\ r.position <= storage.length
  /\ \A a \in r.touched : a + 4 <= storage.length

IInv == storage \in Storages /\ Inside(reader)

(* What storage holds, as a word of the machine.                             *)
LEMMA StoredWords ==
  ASSUME storage \in Storages
  PROVE  /\ storage.length \in 0 .. Modulus - 1
         /\ \A address \in Nat : Load(address) \in 0 .. Modulus - 1
<1> USE ReaderAssumption
<1>1. /\ storage.words \in Seq(0 .. Modulus - 1)
      /\ storage.length \in 0 .. Modulus - 1
  OBVIOUS
<1>2. ASSUME NEW address \in Nat PROVE Load(address) \in 0 .. Modulus - 1
  <2>1. 0 \in 0 .. Modulus - 1
    BY <1>1
  <2>2. CASE (address \div 4) + 1 \in DOMAIN storage.words
    BY <1>1, <2>2 DEF Load
  <2>3. CASE (address \div 4) + 1 \notin DOMAIN storage.words
    BY <2>1, <2>3 DEF Load
  <2> QED
    BY <2>2, <2>3
<1> QED
  BY <1>1, <1>2

LEMMA WordSum ==
  ASSUME NEW m \in Nat, NEW n \in Nat, m % 4 = 0, n % 4 = 0
  PROVE  (m + n) % 4 = 0
OBVIOUS

(* A reader moved by whole words that are there, having loaded some of them. *)
LEMMA MovedInside ==
  ASSUME storage \in Storages, NEW r, Inside(r), NEW n \in Nat, n % 4 = 0,
         r.position + n <= storage.length,
         NEW loaded \in SUBSET Nat, \A a \in loaded : a + 4 <= storage.length
  PROVE  Inside(Moved(r, n, loaded))
<1>1. r.position \in Nat /\ (r.position + n) % 4 = 0
  BY WordSum DEF Inside
<1> DEFINE next == Moved(r, n, loaded)
<1>2. r \in [position : Nat, error : BOOLEAN, touched : SUBSET Nat, skipped : BOOLEAN]
  BY DEF Inside
<1>3. /\ next.position = r.position + n /\ next.touched = r.touched \cup loaded
      /\ next \in [position : Nat, error : BOOLEAN, touched : SUBSET Nat, skipped : BOOLEAN]
  <2>1. r.position + n \in Nat
    BY <1>1
  <2>2. r.touched \cup loaded \in SUBSET Nat
    <3> HIDE DEF next
    <3>1. r.touched \in SUBSET Nat
      BY <1>2
    <3> QED
      BY <3>1
  <2>3. next = [[r EXCEPT !.position = r.position + n]
                  EXCEPT !.touched = r.touched \cup loaded]
    BY <1>2 DEF Moved
  <2> HIDE DEF next
  <2>4. [r EXCEPT !.position = r.position + n]
          \in [position : Nat, error : BOOLEAN, touched : SUBSET Nat, skipped : BOOLEAN]
    BY <1>2, <2>1
  <2> QED
    BY <1>2, <2>1, <2>2, <2>3, <2>4
<1> HIDE DEF next
<1>4. \A a \in next.touched : a + 4 <= storage.length
  BY <1>3 DEF Inside
<1>5. Inside(next)
  BY <1>1, <1>3, <1>4 DEF Inside
<1> QED
  BY <1>5 DEF next

(* An error, or the check of a word, moves nothing.                          *)
LEMMA CheckInside ==
  ASSUME NEW r, Inside(r), NEW good \in BOOLEAN
  PROVE  Inside(Check(r, good)) /\ Inside(Failed(r))
<1>1. Inside(Failed(r))
  BY DEF Inside, Failed
<1> QED
  BY <1>1 DEF Check

(* dyn_project_u32 loads a word of the project or nothing.                   *)
LEMMA WordInside ==
  ASSUME storage \in Storages, NEW r, Inside(r)
  PROVE  Inside(ReadWord(r).reader) /\ ReadWord(r).value \in 0 .. Modulus - 1
<1> USE ReaderAssumption
<1>1. storage.length \in 0 .. Modulus - 1 /\ r.position \in Nat
  BY StoredWords DEF Inside
<1>2. CASE r.position > storage.length \/ storage.length - r.position < 4
  <2>1. ReadWord(r).value = 0 /\ ReadWord(r).reader = Failed(r)
    BY <1>2 DEF ReadWord
  <2> QED
    BY <1>1, <2>1, CheckInside
<1>3. CASE ~ (r.position > storage.length \/ storage.length - r.position < 4)
  <2> DEFINE next == Moved(r, 4, {r.position})
  <2>1. ReadWord(r).value = Load(r.position) /\ ReadWord(r).reader = next
    BY <1>3 DEF ReadWord
  <2>2. r.position + 4 <= storage.length /\ 4 % 4 = 0
    BY <1>1, <1>3
  <2>3. Inside(next)
    BY <1>1, <2>2, MovedInside
  <2> QED
    BY <1>1, <2>1, <2>3, StoredWords
<1> QED
  BY <1>2, <1>3

(* A size that can be padded is padded without wrapping.                     *)
LEMMA PaddedSize ==
  ASSUME NEW size \in 0 .. Modulus - 1, size <= Limit
  PROVE  Padded(size) \in Nat /\ Padded(size) % 4 = 0 /\ size <= Padded(size)
<1> USE ReaderAssumption
<1>1. size + 3 \in 0 .. Modulus - 1
  OBVIOUS
<1>2. (size + 3) % Modulus = size + 3
  BY <1>1
<1>3. Padded(size) = (size + 3) - ((size + 3) % 4)
  BY <1>2 DEF Padded
<1> QED
  BY <1>3

(* The words of a text are in the padded size that was compared with what    *)
(* is left of the project.                                                   *)
LEMMA TextWords ==
  ASSUME NEW at \in Nat, at % 4 = 0, NEW size \in Nat, NEW padded \in Nat,
         padded % 4 = 0, size <= padded, NEW a \in Addresses(at, size)
  PROVE  a \in Nat /\ a + 4 <= at + padded
<1>1. a \in at .. at + size - 1 /\ a % 4 = 0
  BY DEF Addresses
<1>2. a \in Nat /\ a < at + padded
  BY <1>1
<1>3. (at + padded) % 4 = 0
  OBVIOUS
<1> QED
  BY <1>1, <1>2, <1>3

(* dyn_project_skip_blob and dyn_project_read_text.                          *)
LEMMA TextInside ==
  ASSUME storage \in Storages, NEW r, Inside(r), NEW allocated \in BOOLEAN
  PROVE  Inside(ReadText(r, allocated).reader)
<1> USE ReaderAssumption
<1> DEFINE u == ReadWord(r)
           size == u.value
           s == u.reader
           padded == Padded(size)
<1>1. Inside(s) /\ size \in 0 .. Modulus - 1 /\ storage.length \in Nat
  BY WordInside, StoredWords
<1> HIDE DEF u
<1>2. ReadText(r, allocated).reader =
        IF s.error THEN s
        ELSE IF size > Limit THEN [s EXCEPT !.skipped = TRUE]
        ELSE IF s.position > storage.length \/ padded > storage.length - s.position
             THEN Failed(s)
        ELSE IF ~ allocated THEN Failed(Moved(s, padded, {}))
        ELSE Moved(s, padded, Addresses(s.position, size))
  BY DEF ReadText, u
<1>3. Inside([s EXCEPT !.skipped = TRUE]) /\ Inside(Failed(s))
  BY <1>1, CheckInside DEF Inside
<1>4. ASSUME size <= Limit, ~ (padded > storage.length - s.position)
      PROVE  /\ Inside(Moved(s, padded, {}))
             /\ Inside(Moved(s, padded, Addresses(s.position, size)))
  <2>1. padded \in Nat /\ padded % 4 = 0 /\ size <= padded
    BY <1>1, <1>4, PaddedSize
  <2>2. /\ s.position \in Nat /\ s.position % 4 = 0
        /\ s.position + padded <= storage.length
    BY <1>1, <1>4, <2>1 DEF Inside
  <2>3. \A a \in Addresses(s.position, size) : a \in Nat /\ a + 4 <= storage.length
    <3> SUFFICES ASSUME NEW a \in Addresses(s.position, size)
                 PROVE  a \in Nat /\ a + 4 <= storage.length
      OBVIOUS
    <3>1. size \in Nat
      BY <1>1
    <3>2. a \in Nat /\ a + 4 <= s.position + padded
      BY <2>1, <2>2, <3>1, TextWords
    <3> QED
      BY <1>1, <2>1, <2>2, <3>2
  <2> HIDE DEF size, s, padded
  <2> QED
    BY <1>1, <2>1, <2>2, <2>3, MovedInside
<1>5. ASSUME size <= Limit, ~ (padded > storage.length - s.position)
      PROVE  Inside(Failed(Moved(s, padded, {})))
  BY <1>4, <1>5, CheckInside
<1> HIDE DEF size, s, padded
<1> QED
  BY <1>1, <1>2, <1>3, <1>4, <1>5

(***************************************************************************)
(* The steps.                                                              *)
(***************************************************************************)
LEMMA InitInside == Init => IInv
<1> SUFFICES ASSUME Init PROVE IInv
  OBVIOUS
<1>1. storage \in Storages /\ storage.length \in Nat
  BY StoredWords, ReaderAssumption DEF Init
<1>2. reader = [position |-> 0, error |-> FALSE, touched |-> {}, skipped |-> FALSE]
  BY DEF Init
<1> QED
  BY <1>1, <1>2 DEF IInv, Inside

LEMMA ReadFileInside ==
  ASSUME IInv, NEW p \in BOOLEAN, NEW c \in BOOLEAN, ReadFile(p, c)
  PROVE  Inside(reader')
<1> DEFINE kind == ReadWord(reader)
           checked == Check(kind.reader, kind.value \in {1, 2})
           path == ReadText(checked, p)
<1>1. Inside(kind.reader)
  BY WordInside DEF IInv
<1>2. Inside(checked)
  <2>1. (kind.value \in {1, 2}) \in BOOLEAN
    OBVIOUS
  <2> HIDE DEF kind
  <2> QED
    BY <1>1, <2>1, CheckInside
<1> HIDE DEF kind
<1> HIDE DEF checked
<1>3. Inside(path.reader)
  BY <1>2, TextInside DEF IInv
<1> HIDE DEF path
<1>4. Inside(ReadText(path.reader, c).reader)
  BY <1>3, TextInside DEF IInv
<1>5. reader' = ReadText(path.reader, c).reader
  BY DEF ReadFile, kind, checked, path
<1> QED
  BY <1>4, <1>5

LEMMA StepInside == IInv /\ [Next]_vars => IInv'
<1> SUFFICES ASSUME IInv, [Next]_vars PROVE IInv'
  OBVIOUS
<1>1. storage' = storage
  BY DEF Next, vars, ReadHeader, AllocateTables, ReadRoot, ReadDefinition, ReadFile,
         LoopEnds, Finish
<1>2. SUFFICES Inside(reader')
  BY <1>1 DEF IInv, Inside
<1>3. Allocated \subseteq BOOLEAN
  BY DEF Allocated
<1>4. CASE ReadHeader
  <2> DEFINE r == ReadWord(reader)
  <2>1. Inside(r.reader)
    BY WordInside DEF IInv
  <2>2. reader' = Check(r.reader, Expected(Len(header) + 1, r.value))
    BY <1>4 DEF ReadHeader
  <2>3. Expected(Len(header) + 1, r.value) \in BOOLEAN
    BY DEF Expected
  <2> HIDE DEF r
  <2> QED
    BY <2>1, <2>2, <2>3, CheckInside
<1>5. ASSUME NEW ok \in Allocated, AllocateTables(ok) PROVE Inside(reader')
  BY <1>3, <1>5, CheckInside DEF AllocateTables, IInv
<1>6. ASSUME NEW ok \in Allocated, ReadRoot(ok) \/ ReadDefinition(ok)
      PROVE  Inside(reader')
  <2>1. reader' = ReadText(reader, ok).reader
    BY <1>6 DEF ReadRoot, ReadDefinition
  <2> QED
    BY <1>3, <1>6, <2>1, TextInside DEF IInv
<1>7. ASSUME NEW p \in Allocated, NEW c \in Allocated, ReadFile(p, c)
      PROVE  Inside(reader')
  BY <1>3, <1>7, ReadFileInside
<1>8. CASE LoopEnds \/ Finish \/ UNCHANGED vars
  <2>1. reader' = reader
    BY <1>8 DEF LoopEnds, Finish, vars
  <2> QED
    BY <2>1 DEF IInv
<1> QED
  BY <1>4, <1>5, <1>6, <1>7, <1>8 DEF Next

(* At every moment the reader is at a word of the project and has loaded     *)
(* words of it only.                                                         *)
THEOREM Invariance == Spec => []IInv
<1>1. Init => IInv
  BY InitInside
<1>2. IInv /\ [Next]_vars => IInv'
  BY StepInside
<1> QED
  BY <1>1, <1>2, PTL DEF Spec

(* No load of the reader or of a text copy leaves the project, for every     *)
(* modulus, every length and every content of storage (compiler.c:25-59).    *)
THEOREM StaysInsideTheorem == Spec => []StaysInside
<1>1. IInv => StaysInside
  BY DEF IInv, Inside, StaysInside
<1> QED
  BY <1>1, Invariance, PTL

(***************************************************************************)
(* The two readers of the format agree.                                    *)
(***************************************************************************)
Cursors == [position : Nat, ok : BOOLEAN]

Texts == [length : Nat, words : Seq(0 .. Modulus - 1)]

CursorOf(r) == [position |-> r.position, ok |-> TRUE]

Clean(r) == ~ r.error /\ ~ r.skipped

(* The host's decoder is where the reader is, unless the reader failed: then *)
(* it was for want of memory, or the decoder has failed as well.             *)
Agrees(r, c) == IF Clean(r) THEN c = CursorOf(r) ELSE storage.scarce \/ ~ c.ok

NextBlob(v) ==
  [texts |-> Append(v.texts, PyBlob(v.next).text), next |-> PyBlob(v.next).next]

(* What the decoder has after each blob.                                     *)
Blobs(c) ==
  LET read[k \in 0 .. Modulus] ==
        IF k = 0 THEN [texts |-> << >>, next |-> c] ELSE NextBlob(read[k-1])
  IN  read

NextFile(v) ==
  LET kind == PyU32(v.next)
      path == PyBlob(kind.next)
      contents == PyBlob(path.next)
  IN  [files |-> Append(v.files, [kind |-> kind.value, path |-> path.text,
                                  contents |-> contents.text]),
       next |-> IF kind.value \in {1, 2} THEN contents.next ELSE Bad]

Files(c) ==
  LET read[k \in 0 .. Modulus] ==
        IF k = 0 THEN [files |-> << >>, next |-> c] ELSE NextFile(read[k-1])
  IN  read

(* The decoder after k words of the header.                                  *)
HeaderCursor(k) ==
  IF 4 * k <= storage.length /\ \A i \in 1 .. k : Expected(i, Load(4 * (i - 1)))
    THEN [position |-> 4 * k, ok |-> TRUE] ELSE Bad

HostHeader == HeaderCursor(HeaderSize)
HostRoots == PyBlobs(Load(16), HostHeader)
HostDefinitions == PyBlobs(Load(20), HostRoots.next)
HostFiles == PyFiles(Load(12), HostDefinitions.next)

RootBlobs == Blobs(HostHeader)
DefinitionBlobs == Blobs(HostRoots.next)
FileBlobs == Files(HostDefinitions.next)

FileRecords == [kind : 0 .. Modulus - 1, path : Texts, contents : Texts]

HeaderAgrees ==
  /\ header \in Seq(0 .. Modulus - 1) /\ Len(header) <= HeaderSize
  /\ reader.error \/ \A i \in 1 .. Len(header) : header[i] = Load(4 * (i - 1))
  /\ IF stage = "header"
       THEN ~ reader.skipped /\ Agrees(reader, HeaderCursor(Len(header)))
       ELSE Len(header) = HeaderSize

RootsAgree ==
  /\ roots \in Seq(Texts)
  /\ stage = "header" => roots = << >>
  /\ stage = "roots" =>
       /\ Len(roots) <= Load(16)
       /\ Agrees(reader, RootBlobs[Len(roots)].next)
       /\ Clean(reader) => roots = RootBlobs[Len(roots)].texts
  /\ stage \in {"definitions", "files", "check", "done"} /\ Clean(reader) => roots = HostRoots.texts

DefinitionsAgree ==
  /\ definitions \in Seq(Texts)
  /\ stage \in {"header", "roots"} => definitions = << >>
  /\ stage = "definitions" =>
       /\ Len(definitions) <= Load(20)
       /\ Agrees(reader, DefinitionBlobs[Len(definitions)].next)
       /\ Clean(reader) => definitions = DefinitionBlobs[Len(definitions)].texts
  /\ stage \in {"files", "check", "done"} /\ Clean(reader) => definitions = HostDefinitions.texts

FilesAgree ==
  /\ files \in Seq(FileRecords)
  /\ stage \in {"header", "roots", "definitions"} => files = << >>
  /\ stage = "files" =>
       /\ Len(files) <= Load(12)
       /\ Agrees(reader, FileBlobs[Len(files)].next)
       /\ Clean(reader) => files = FileBlobs[Len(files)].files
  /\ stage \in {"check", "done"} =>
       /\ Agrees(reader, HostFiles.next)
       /\ Clean(reader) => files = HostFiles.files

Verdict ==
  IF stage = "done"
    THEN status = IF \/ reader.error \/ reader.position # storage.length
                     \/ SourceCount(files) = 0
                    THEN "invalid" ELSE "ok"
    ELSE status = "reading"

Agreement ==
  /\ stage \in {"header", "roots", "definitions", "files", "check", "done"}
  /\ HeaderAgrees /\ RootsAgree /\ DefinitionsAgree /\ FilesAgree /\ Verdict

-----------------------------------------------------------------------------
(* The decoder's steps.                                                      *)
LEMMA BadIs == Bad \in Cursors /\ ~ Bad.ok
BY DEF Bad, Cursors

LEMMA CursorIs ==
  ASSUME NEW c \in Cursors, NEW d \in Cursors, c.position = d.position, c.ok = d.ok
  PROVE  c = d
BY DEF Cursors

LEMMA CursorMoves ==
  ASSUME NEW c \in Cursors, NEW p \in Nat
  PROVE  [c EXCEPT !.position = p] = [position |-> p, ok |-> c.ok]
<1> DEFINE d == [c EXCEPT !.position = p]
<1>1. d \in Cursors /\ d.position = p /\ d.ok = c.ok
  BY DEF Cursors
<1>2. [position |-> p, ok |-> c.ok] \in Cursors
  BY DEF Cursors
<1> HIDE DEF d
<1>3. d = [position |-> p, ok |-> c.ok]
  BY <1>1, <1>2, CursorIs
<1> QED
  BY <1>3 DEF d

LEMMA HostWordIs ==
  ASSUME NEW c \in Cursors
  PROVE  IF c.ok /\ ~ (c.position + 4 > storage.length)
           THEN /\ PyU32(c).value = Load(c.position)
                /\ PyU32(c).next = [position |-> c.position + 4, ok |-> TRUE]
           ELSE PyU32(c).value = 0 /\ PyU32(c).next = Bad
<1>1. c.position + 4 \in Nat /\ c.ok \in BOOLEAN
  BY DEF Cursors
<1> DEFINE next == [c EXCEPT !.position = c.position + 4]
<1>2. next = [position |-> c.position + 4, ok |-> c.ok]
  BY <1>1, CursorMoves, Zenon
<1>3. PyU32(c) = IF ~ c.ok \/ c.position + 4 > storage.length
                   THEN [value |-> 0, next |-> Bad]
                   ELSE [value |-> Load(c.position), next |-> next]
  BY Zenon DEF PyU32
<1> HIDE DEF next
<1>4. CASE c.ok /\ ~ (c.position + 4 > storage.length)
  <2>1. c.ok = TRUE
    BY <1>1, <1>4
  <2>2. PyU32(c) = [value |-> Load(c.position), next |-> next]
    BY <1>3, <1>4, Zenon
  <2>3. PyU32(c).value = Load(c.position) /\ PyU32(c).next = next
    BY <2>2
  <2> QED
    BY <1>2, <1>4, <2>1, <2>3, Zenon
<1>5. CASE ~ (c.ok /\ ~ (c.position + 4 > storage.length))
  <2>1. PyU32(c) = [value |-> 0, next |-> Bad]
    BY <1>3, <1>5, Zenon
  <2>2. PyU32(c).value = 0 /\ PyU32(c).next = Bad
    BY <2>1
  <2> QED
    BY <1>5, <2>2, Zenon
<1> QED
  BY <1>4, <1>5, Zenon

LEMMA HostWord ==
  ASSUME storage \in Storages, NEW c \in Cursors
  PROVE  /\ PyU32(c).value \in 0 .. Modulus - 1
         /\ PyU32(c).next \in Cursors
         /\ PyU32(c).next.ok => c.ok /\ PyU32(c).next.position = c.position + 4
<1>1. Load(c.position) \in 0 .. Modulus - 1 /\ 0 \in 0 .. Modulus - 1
  <2>1. c.position \in Nat
    BY DEF Cursors
  <2>2. Load(c.position) \in 0 .. Modulus - 1 /\ storage.length \in 0 .. Modulus - 1
    BY <2>1, StoredWords
  <2> QED
    BY <2>2, ReaderAssumption
<1> DEFINE next == [position |-> c.position + 4, ok |-> TRUE]
<1>2. next \in Cursors /\ next.position = c.position + 4
  BY DEF Cursors
<1> HIDE DEF next
<1>3. \/ c.ok /\ PyU32(c).value = Load(c.position) /\ PyU32(c).next = next
      \/ PyU32(c).value = 0 /\ PyU32(c).next = Bad
  BY HostWordIs, Zenon DEF next
<1> QED
  BY <1>1, <1>2, <1>3, BadIs

LEMMA TextIs ==
  ASSUME storage \in Storages, NEW address \in Nat, NEW length \in Nat
  PROVE  TextAt(address, length) \in Texts
<1> DEFINE n == (length + 3) \div 4
           words == [k \in 1 .. n |-> Load(address + 4 * (k - 1))]
<1>1. n \in Nat
  OBVIOUS
<1>2. \A k \in 1 .. n : Load(address + 4 * (k - 1)) \in 0 .. Modulus - 1
  <2> SUFFICES ASSUME NEW k \in 1 .. n PROVE Load(address + 4 * (k - 1)) \in 0 .. Modulus - 1
    OBVIOUS
  <2>1. address + 4 * (k - 1) \in Nat
    <3> HIDE DEF n
    <3> QED
      BY <1>1
  <2> QED
    BY <2>1, StoredWords
<1>3. words \in Seq(0 .. Modulus - 1)
  <2> HIDE DEF n
  <2> QED
    BY <1>1, <1>2
<1>4. TextAt(address, length) = [length |-> length, words |-> words]
  BY DEF TextAt
<1> HIDE DEF words
<1> QED
  BY <1>3, <1>4 DEF Texts

LEMMA NoTextIs == NoText \in Texts
BY DEF NoText, Texts

LEMMA HostBlob ==
  ASSUME storage \in Storages, NEW c \in Cursors
  PROVE  /\ PyBlob(c).text \in Texts
         /\ PyBlob(c).next \in Cursors
         /\ PyBlob(c).next.ok => c.ok /\ PyBlob(c).next.position >= c.position + 4
<1> DEFINE length == PyU32(c)
           padded == length.next.position + ((length.value + 3) \div 4) * 4
<1>1. /\ length.value \in 0 .. Modulus - 1 /\ length.next \in Cursors
      /\ length.next.ok => c.ok /\ length.next.position = c.position + 4
  BY HostWord
<1>2. PyBlob(c) = IF ~ length.next.ok \/ padded > storage.length
                    THEN [text |-> NoText, next |-> Bad]
                    ELSE [text |-> TextAt(length.next.position, length.value),
                          next |-> [length.next EXCEPT !.position = padded]]
  BY DEF PyBlob
<1>3. length.next.position \in Nat /\ length.value \in Nat
  BY <1>1 DEF Cursors
<1>4. padded \in Nat /\ padded >= length.next.position
  <2> HIDE DEF length
  <2> QED
    BY <1>3
<1> HIDE DEF length, padded
<1>5. TextAt(length.next.position, length.value) \in Texts
  BY <1>3, TextIs
<1> DEFINE moved == [length.next EXCEPT !.position = padded]
<1>6. moved \in Cursors /\ moved.position = padded
  BY <1>1, <1>4 DEF Cursors
<1> HIDE DEF moved
<1>7. CASE ~ length.next.ok \/ padded > storage.length
  BY <1>2, <1>7, NoTextIs, BadIs
<1>8. CASE ~ (~ length.next.ok \/ padded > storage.length)
  <2>0. PyBlob(c) = [text |-> TextAt(length.next.position, length.value), next |-> moved]
    BY <1>2, <1>8 DEF moved
  <2>1. /\ PyBlob(c).text \in Texts /\ PyBlob(c).next \in Cursors
        /\ PyBlob(c).next.position = padded
    BY <1>5, <1>6, <2>0
  <2>2. padded >= c.position + 4 /\ c.ok
    BY <1>1, <1>3, <1>4, <1>8
  <2> QED
    BY <2>1, <2>2
<1> QED
  BY <1>7, <1>8

-----------------------------------------------------------------------------
(* The reader's steps are the decoder's.                                     *)
LEMMA ReaderFields ==
  ASSUME NEW r, Inside(r)
  PROVE  /\ Failed(r).error /\ Failed(r).skipped = r.skipped
         /\ \A n, x : /\ Moved(r, n, x).error = r.error
                      /\ Moved(r, n, x).skipped = r.skipped
                      /\ Moved(r, n, x).position = r.position + n
         /\ \A n, x : /\ Failed(Moved(r, n, x)).error
                      /\ Failed(Moved(r, n, x)).skipped = r.skipped
<1>1. r \in [position : Nat, error : BOOLEAN, touched : SUBSET Nat, skipped : BOOLEAN]
  BY DEF Inside
<1>2. Failed(r).error /\ Failed(r).skipped = r.skipped
  BY <1>1 DEF Failed
<1>3. ASSUME NEW n, NEW x
      PROVE  LET m == Moved(r, n, x)
             IN  /\ m.error = r.error /\ m.skipped = r.skipped
                 /\ m.position = r.position + n
                 /\ Failed(m).error /\ Failed(m).skipped = r.skipped
  <2> DEFINE p == r.position + n
             t == r.touched \cup x
             m == [r EXCEPT !.position = p, !.touched = t]
  <2>1. Moved(r, n, x) = m
    BY Zenon DEF Moved
  <2> HIDE DEF p, t
  <2>2. /\ m.error = r.error /\ m.skipped = r.skipped /\ m.position = p
        /\ DOMAIN m = {"position", "error", "touched", "skipped"}
    BY <1>1
  <2> HIDE DEF m
  <2>3. Failed(m).error /\ Failed(m).skipped = m.skipped
    BY <2>2 DEF Failed
  <2> QED
    BY <2>1, <2>2, <2>3, Zenon DEF p
<1> QED
  BY <1>2, <1>3, Zenon

LEMMA WordAgrees ==
  ASSUME storage \in Storages, NEW r, Inside(r), NEW c \in Cursors, Agrees(r, c)
  PROVE  /\ Agrees(ReadWord(r).reader, PyU32(c).next)
         /\ ReadWord(r).reader.skipped = r.skipped
         /\ r.error => ReadWord(r).reader.error
         /\ Clean(ReadWord(r).reader) => Clean(r) /\ ReadWord(r).value = PyU32(c).value
<1>1. storage.length \in Nat /\ r.position \in Nat
  BY StoredWords, ReaderAssumption DEF Inside
<1>2. PyU32(c).next.ok => c.ok
  BY HostWord
<1>3. Clean(r) => c.position = r.position /\ c.ok
  BY DEF Agrees, CursorOf
<1>4. CASE r.position > storage.length \/ storage.length - r.position < 4
  <2>1. ReadWord(r).reader = Failed(r)
    BY <1>4 DEF ReadWord
  <2>2. Failed(r).error /\ Failed(r).skipped = r.skipped
    BY ReaderFields
  <2>3. r.position + 4 > storage.length
    BY <1>1, <1>4
  <2>4. ASSUME Clean(r) PROVE ~ PyU32(c).next.ok
    <3>1. PyU32(c).next = Bad
      BY <1>3, <2>3, <2>4, HostWordIs, Zenon
    <3> QED
      BY <3>1, BadIs
  <2> QED
    BY <1>2, <2>1, <2>2, <2>4 DEF Agrees, Clean
<1>5. CASE ~ (r.position > storage.length \/ storage.length - r.position < 4)
  <2> DEFINE next == Moved(r, 4, {r.position})
  <2>1. ReadWord(r).reader = next /\ ReadWord(r).value = Load(r.position)
    BY <1>5 DEF ReadWord
  <2>2. next.error = r.error /\ next.skipped = r.skipped /\ next.position = r.position + 4
    BY ReaderFields
  <2> HIDE DEF next
  <2>3. CASE Clean(r)
    <3>1. ~ (r.position + 4 > storage.length)
      BY <1>1, <1>5
    <3>2. /\ PyU32(c).value = Load(r.position)
          /\ PyU32(c).next = [position |-> r.position + 4, ok |-> TRUE]
      BY <1>3, <2>3, <3>1, HostWordIs, Zenon
    <3>3. Clean(next) /\ PyU32(c).next = CursorOf(next)
      BY <2>2, <2>3, <3>2 DEF Clean, CursorOf
    <3> QED
      BY <2>1, <2>2, <2>3, <3>2, <3>3 DEF Agrees
  <2>4. CASE ~ Clean(r)
    BY <1>2, <2>1, <2>2, <2>4 DEF Agrees, Clean
  <2> QED
    BY <2>3, <2>4
<1> QED
  BY <1>4, <1>5

(* A size is padded to what the decoder pads it to, in unbounded integers,   *)
(* or it is too large for any project.                                       *)
LEMMA SamePadding ==
  ASSUME NEW size \in 0 .. Modulus - 1
  PROVE  IF size <= Limit THEN Padded(size) = ((size + 3) \div 4) * 4
                          ELSE ((size + 3) \div 4) * 4 >= Modulus
<1> USE ReaderAssumption
<1>1. CASE size <= Limit
  <2>1. size + 3 \in 0 .. Modulus - 1
    BY <1>1
  <2>2. (size + 3) % Modulus = size + 3
    BY <2>1
  <2>3. Padded(size) = (size + 3) - ((size + 3) % 4)
    BY <2>2 DEF Padded
  <2> QED
    BY <1>1, <2>3
<1>2. CASE ~ (size <= Limit)
  BY <1>2
<1> QED
  BY <1>1, <1>2

LEMMA TextAgrees ==
  ASSUME storage \in Storages, NEW r, Inside(r), NEW c \in Cursors, Agrees(r, c),
         NEW allocated \in Allocated
  PROVE  /\ Agrees(ReadText(r, allocated).reader, PyBlob(c).next)
         /\ r.error => ReadText(r, allocated).reader.error
         /\ Clean(ReadText(r, allocated).reader) =>
              Clean(r) /\ ReadText(r, allocated).text = PyBlob(c).text
<1> DEFINE u == ReadWord(r)
           size == u.value
           s == u.reader
           length == PyU32(c)
           padded == length.next.position + ((length.value + 3) \div 4) * 4
           n == Padded(size)
<1>1. /\ Inside(s) /\ size \in 0 .. Modulus - 1 /\ storage.length \in 0 .. Modulus - 1
      /\ s \in [position : Nat, error : BOOLEAN, touched : SUBSET Nat, skipped : BOOLEAN]
  BY WordInside, StoredWords DEF Inside
<1>2. /\ Agrees(s, length.next) /\ s.skipped = r.skipped
      /\ r.error => s.error
      /\ Clean(s) => Clean(r) /\ size = length.value
  BY WordAgrees
<1>3. PyBlob(c) = IF ~ length.next.ok \/ padded > storage.length
                    THEN [text |-> NoText, next |-> Bad]
                    ELSE [text |-> TextAt(length.next.position, length.value),
                          next |-> [length.next EXCEPT !.position = padded]]
  BY DEF PyBlob
<1>4. ~ length.next.ok => ~ PyBlob(c).next.ok
  BY <1>3, BadIs
<1> DEFINE t == ReadText(r, allocated)
<1>5. t = IF s.error THEN [text |-> NoText, reader |-> s]
          ELSE IF size > Limit
            THEN [text |-> NoText, reader |-> [s EXCEPT !.skipped = TRUE]]
          ELSE IF s.position > storage.length \/ n > storage.length - s.position
            THEN [text |-> NoText, reader |-> Failed(s)]
          ELSE IF ~ allocated
            THEN [text |-> [NoText EXCEPT !.length = size],
                  reader |-> Failed(Moved(s, n, {}))]
            ELSE [text |-> TextAt(s.position, size),
                  reader |-> Moved(s, n, Addresses(s.position, size))]
  BY DEF ReadText
<1>6. length.next \in Cursors
  BY HostWord
<1> SUFFICES /\ Agrees(t.reader, PyBlob(c).next)
             /\ r.error => t.reader.error
             /\ Clean(t.reader) => Clean(r) /\ t.text = PyBlob(c).text
  OBVIOUS
<1> HIDE DEF u, length, t
<1>7. CASE ~ Clean(s)
  <2>1. storage.scarce \/ ~ PyBlob(c).next.ok
    BY <1>2, <1>4, <1>7 DEF Agrees
  <2>2. ~ Clean(t.reader) /\ (s.error => t.reader.error)
    <3>1. /\ Failed(s).skipped = s.skipped
          /\ \A x, y : /\ Moved(s, x, y).skipped = s.skipped
                       /\ Failed(Moved(s, x, y)).skipped = s.skipped
      BY <1>1, ReaderFields
    <3>2. CASE s.error
      BY <1>5, <3>2 DEF Clean
    <3>3. CASE ~ s.error /\ size > Limit
      <4>1. t.reader = [s EXCEPT !.skipped = TRUE]
        BY <1>5, <3>3
      <4> QED
        BY <4>1, <3>3, <1>1 DEF Clean
    <3>4. CASE ~ s.error /\ ~ (size > Limit)
      <4>1. s.skipped
        BY <1>7, <3>4 DEF Clean
      <4>2. \/ t.reader = Failed(s) \/ t.reader = Failed(Moved(s, n, {}))
            \/ t.reader = Moved(s, n, Addresses(s.position, size))
        <5> HIDE DEF n, s, size
        <5> QED
          BY <1>5, <3>4
      <4> HIDE DEF n, s, size
      <4> QED
        BY <3>1, <3>4, <4>1, <4>2 DEF Clean
    <3> QED
      BY <3>2, <3>3, <3>4
  <2> QED
    BY <1>2, <2>1, <2>2 DEF Agrees
<1>8. CASE Clean(s)
  <2>1. /\ length.next = [position |-> s.position, ok |-> TRUE]
        /\ ~ s.error /\ ~ s.skipped /\ Clean(r) /\ ~ r.error
        /\ size = length.value
        /\ padded = s.position + ((size + 3) \div 4) * 4
    BY <1>2, <1>8 DEF Agrees, CursorOf, Clean
  <2>2. s.position \in Nat /\ s.position <= storage.length
    BY <1>1 DEF Inside
  <2>3. IF size <= Limit THEN n = ((size + 3) \div 4) * 4
                         ELSE ((size + 3) \div 4) * 4 >= Modulus
    BY <1>1, SamePadding
  <2>4. CASE size > Limit
    <3>1. padded > storage.length
      <4>1. Modulus \in Nat /\ Limit \in Int
        BY ReaderAssumption
      <4>2. ((size + 3) \div 4) * 4 >= Modulus /\ ((size + 3) \div 4) * 4 \in Int
        <5> HIDE DEF n, s, size, padded
        <5> QED
          BY <1>1, <2>3, <2>4, <4>1
      <4> HIDE DEF n, s, size, padded
      <4> QED
        BY <1>1, <2>1, <2>2, <4>1, <4>2
    <3>2. ~ PyBlob(c).next.ok
      BY <1>3, <3>1, BadIs
    <3>3. t.reader = [s EXCEPT !.skipped = TRUE]
      BY <1>5, <2>1, <2>4
    <3>4. ~ Clean(t.reader)
      BY <1>1, <3>3 DEF Clean
    <3> QED
      BY <2>1, <3>2, <3>4 DEF Agrees
  <2>5. CASE ~ (size > Limit) /\ padded > storage.length
    <3>1. n > storage.length - s.position
      <4>1. n = ((size + 3) \div 4) * 4 /\ n \in Int
        <5> HIDE DEF n, s, size, padded
        <5> QED
          BY <1>1, <2>3, <2>5, ReaderAssumption
      <4> HIDE DEF n, s, size, padded
      <4> QED
        BY <1>1, <2>1, <2>2, <2>5, <4>1
    <3>2. ~ PyBlob(c).next.ok
      BY <1>3, <2>5, BadIs
    <3>3. t.reader = Failed(s)
      BY <1>5, <2>1, <2>5, <3>1
    <3>4. ~ Clean(t.reader)
      BY <1>1, <3>3, ReaderFields DEF Clean
    <3> QED
      BY <2>1, <3>2, <3>4 DEF Agrees
  <2>6. CASE ~ (size > Limit) /\ ~ (padded > storage.length)
    <3>1. padded = s.position + n /\ n \in Nat
          /\ ~ (s.position > storage.length \/ n > storage.length - s.position)
      <4>1. n = ((size + 3) \div 4) * 4 /\ n \in Nat
        <5>1. Limit \in Int /\ size \in Int
          BY <1>1, ReaderAssumption
        <5>2. size <= Limit
          <6> HIDE DEF size
          <6> QED
            BY <2>6, <5>1
        <5> QED
          BY <1>1, <2>3, <5>2, PaddedSize
      <4> HIDE DEF n, s, size, padded
      <4> QED
        BY <1>1, <2>1, <2>2, <2>6, <4>1
    <3>2. PyBlob(c) = [text |-> TextAt(s.position, size), next |-> [position |-> padded, ok |-> TRUE]]
      <4> HIDE DEF n, s, size, padded
      <4>1. [length.next EXCEPT !.position = padded] = [position |-> padded, ok |-> TRUE]
        <5>1. padded \in Nat
          BY <2>2, <3>1
        <5>2. length.next.ok = TRUE
          BY <2>1
        <5> QED
          BY <1>6, <5>1, <5>2, CursorMoves, Zenon
      <4>2. length.next.ok /\ length.next.position = s.position
        BY <2>1
      <4> QED
        BY <1>3, <2>1, <2>6, <4>1, <4>2
    <3>3. CASE ~ allocated
      <4>1. storage.scarce
        BY <3>3 DEF Allocated
      <4>2. t.reader = Failed(Moved(s, n, {}))
        BY <1>5, <2>1, <2>6, <3>1, <3>3
      <4>3. ~ Clean(t.reader)
        BY <1>1, <4>2, ReaderFields DEF Clean
      <4> QED
        BY <2>1, <4>1, <4>3 DEF Agrees
    <3>4. CASE allocated
      <4>1. t = [text |-> TextAt(s.position, size),
                 reader |-> Moved(s, n, Addresses(s.position, size))]
        BY <1>5, <2>1, <2>6, <3>1, <3>4
      <4>2. t.reader.position = s.position + n /\ t.reader.error = s.error
            /\ t.reader.skipped = s.skipped
        BY <1>1, <4>1, ReaderFields
      <4>3. Agrees(t.reader, PyBlob(c).next)
        <5> HIDE DEF n, s, size, padded
        <5> QED
          BY <2>1, <3>1, <3>2, <4>2 DEF Agrees, Clean, CursorOf
      <4> QED
        BY <2>1, <3>2, <4>1, <4>3
    <3> QED
      BY <3>3, <3>4
  <2> QED
    BY <2>4, <2>5, <2>6
<1> QED
  BY <1>7, <1>8

-----------------------------------------------------------------------------
(* The decoder's lists, one record after the other.                          *)
Lists == [texts : Seq(Texts), next : Cursors]

LEMMA NextBlobIs ==
  ASSUME storage \in Storages, NEW v \in Lists
  PROVE  NextBlob(v) \in Lists
<1>1. v.texts \in Seq(Texts) /\ v.next \in Cursors
  BY DEF Lists
<1>2. PyBlob(v.next).text \in Texts /\ PyBlob(v.next).next \in Cursors
  BY <1>1, HostBlob
<1>3. Append(v.texts, PyBlob(v.next).text) \in Seq(Texts)
  BY <1>1, <1>2
<1> QED
  BY <1>2, <1>3 DEF NextBlob, Lists

LEMMA BlobsAre ==
  ASSUME storage \in Storages, NEW c \in Cursors
  PROVE  /\ Blobs(c) \in [0 .. Modulus -> Lists]
         /\ Blobs(c)[0] = [texts |-> << >>, next |-> c]
         /\ \A k \in 0 .. Modulus - 1 : Blobs(c)[k + 1] = NextBlob(Blobs(c)[k])
<1> DEFINE start == [texts |-> << >>, next |-> c]
           step == [k \in 1 .. Modulus |-> [v \in Lists |-> NextBlob(v)]]
           f == Blobs(c)
<1>1. Modulus \in Nat
  BY ReaderAssumption
<1>2. start \in Lists
  BY DEF Lists
<1>3. step \in [1 .. Modulus -> [Lists -> Lists]]
  BY NextBlobIs
<1>4. ASSUME NEW g \in [0 .. Modulus -> Lists], Solves(g, Modulus, start, step)
      PROVE  g = [k \in 0 .. Modulus |-> IF k = 0 THEN start ELSE NextBlob(g[k-1])]
  <2>1. ASSUME NEW k \in 0 .. Modulus, k # 0 PROVE step[k][g[k-1]] = NextBlob(g[k-1])
    <3>1. k \in 1 .. Modulus /\ k - 1 \in 0 .. Modulus
      BY <1>1, <2>1
    <3> QED
      BY <3>1
  <2>2. g = [k \in 0 .. Modulus |-> IF k = 0 THEN start ELSE step[k][g[k-1]]]
    BY <1>4 DEF Solves
  <2> HIDE DEF step, start
  <2> QED
    BY <2>1, <2>2
<1>5. PICK g \in [0 .. Modulus -> Lists] : Solves(g, Modulus, start, step)
  <2> HIDE DEF step, start
  <2> QED
    BY <1>1, <1>2, <1>3, RecursionExists
<1>6. g = [k \in 0 .. Modulus |-> IF k = 0 THEN start ELSE NextBlob(g[k-1])]
  BY <1>4, <1>5
<1>7. f = [k \in 0 .. Modulus |-> IF k = 0 THEN start ELSE NextBlob(f[k-1])]
  BY <1>6, Zenon DEF Blobs
<1> HIDE DEF f
<1>8. \A k \in 0 .. Modulus : f[k] \in Lists
  <2> DEFINE Wrong == {k \in 0 .. Modulus : ~ (f[k] \in Lists)}
  <2>1. ASSUME NEW k \in Wrong, \A j \in Wrong : k <= j PROVE FALSE
    <3>1. k \in 0 .. Modulus /\ ~ (f[k] \in Lists)
      OBVIOUS
    <3>2. k # 0 /\ f[k] = NextBlob(f[k - 1])
      <4> HIDE DEF start
      <4> QED
        BY <1>2, <1>7, <3>1
    <3>3. k - 1 \in 0 .. Modulus /\ ~ (k <= k - 1)
      BY <1>1, <3>1, <3>2
    <3>4. f[k - 1] \in Lists
      BY <2>1, <3>3
    <3> QED
      BY <3>1, <3>2, <3>4, NextBlobIs
  <2>2. Wrong \subseteq Nat
    BY <1>1
  <2>3. Wrong = {}
    <3> HIDE DEF Wrong
    <3> QED
      BY <2>1, <2>2, LeastExists
  <2> QED
    BY <2>3
<1>9. f \in [0 .. Modulus -> Lists]
  <2>1. f = [k \in 0 .. Modulus |-> f[k]]
    BY <1>7
  <2> QED
    BY <1>8, <2>1
<1>10. \A k \in 0 .. Modulus - 1 : f[k + 1] = NextBlob(f[k])
  <2> SUFFICES ASSUME NEW k \in 0 .. Modulus - 1 PROVE f[k + 1] = NextBlob(f[k])
    OBVIOUS
  <2>1. k + 1 \in 0 .. Modulus /\ k + 1 # 0 /\ (k + 1) - 1 = k
    BY <1>1
  <2> HIDE DEF start
  <2> QED
    BY <1>7, <2>1
<1>11. f[0] = start
  <2>1. 0 \in 0 .. Modulus
    BY <1>1
  <2> HIDE DEF start
  <2> QED
    BY <1>7, <2>1
<1> QED
  BY <1>9, <1>10, <1>11 DEF f

FileLists == [files : Seq(FileRecords), next : Cursors]

LEMMA NextFileIs ==
  ASSUME storage \in Storages, NEW v \in FileLists
  PROVE  /\ NextFile(v) \in FileLists
         /\ NextFile(v).next.ok =>
              v.next.ok /\ NextFile(v).next.position >= v.next.position + 4
<1> DEFINE kind == PyU32(v.next)
           path == PyBlob(kind.next)
           contents == PyBlob(path.next)
           record == [kind |-> kind.value, path |-> path.text, contents |-> contents.text]
           last == IF kind.value \in {1, 2} THEN contents.next ELSE Bad
<1>1. v.files \in Seq(FileRecords) /\ v.next \in Cursors
  BY DEF FileLists
<1>2. /\ kind.value \in 0 .. Modulus - 1 /\ kind.next \in Cursors
      /\ kind.next.ok => v.next.ok /\ kind.next.position = v.next.position + 4
  BY <1>1, HostWord
<1> HIDE DEF kind
<1>3. /\ path.text \in Texts /\ path.next \in Cursors
      /\ path.next.ok => kind.next.ok /\ path.next.position >= kind.next.position + 4
  BY <1>2, HostBlob
<1> HIDE DEF path
<1>4. /\ contents.text \in Texts /\ contents.next \in Cursors
      /\ contents.next.ok => path.next.ok /\ contents.next.position >= path.next.position + 4
  BY <1>3, HostBlob
<1> HIDE DEF contents
<1>5. record \in FileRecords
  BY <1>2, <1>3, <1>4 DEF FileRecords
<1>6. NextFile(v) = [files |-> Append(v.files, record), next |-> last]
  BY DEF NextFile, kind, path, contents
<1> HIDE DEF record
<1>7. last \in Cursors /\ (last.ok => last = contents.next)
  BY <1>4, BadIs
<1>8. last.ok => v.next.ok /\ last.position >= v.next.position + 4
  <2>1. \A c \in Cursors : c.position \in Nat
    BY DEF Cursors
  <2> HIDE DEF last
  <2> QED
    BY <1>1, <1>2, <1>3, <1>4, <1>7, <2>1
<1> HIDE DEF last
<1>9. Append(v.files, record) \in Seq(FileRecords)
  BY <1>1, <1>5
<1> QED
  BY <1>6, <1>7, <1>8, <1>9 DEF FileLists

LEMMA FilesAre ==
  ASSUME storage \in Storages, NEW c \in Cursors
  PROVE  /\ Files(c) \in [0 .. Modulus -> FileLists]
         /\ Files(c)[0] = [files |-> << >>, next |-> c]
         /\ \A k \in 0 .. Modulus - 1 : Files(c)[k + 1] = NextFile(Files(c)[k])
<1> DEFINE start == [files |-> << >>, next |-> c]
           step == [k \in 1 .. Modulus |-> [v \in FileLists |-> NextFile(v)]]
           f == Files(c)
<1>1. Modulus \in Nat
  BY ReaderAssumption
<1>2. start \in FileLists
  BY DEF FileLists
<1>3. step \in [1 .. Modulus -> [FileLists -> FileLists]]
  BY NextFileIs
<1>4. ASSUME NEW g \in [0 .. Modulus -> FileLists], Solves(g, Modulus, start, step)
      PROVE  g = [k \in 0 .. Modulus |-> IF k = 0 THEN start ELSE NextFile(g[k-1])]
  <2>1. ASSUME NEW k \in 0 .. Modulus, k # 0 PROVE step[k][g[k-1]] = NextFile(g[k-1])
    <3>1. k \in 1 .. Modulus /\ k - 1 \in 0 .. Modulus
      BY <1>1, <2>1
    <3> QED
      BY <3>1
  <2>2. g = [k \in 0 .. Modulus |-> IF k = 0 THEN start ELSE step[k][g[k-1]]]
    BY <1>4 DEF Solves
  <2> HIDE DEF step, start
  <2> QED
    BY <2>1, <2>2
<1>5. PICK g \in [0 .. Modulus -> FileLists] : Solves(g, Modulus, start, step)
  <2> HIDE DEF step, start
  <2> QED
    BY <1>1, <1>2, <1>3, RecursionExists
<1>6. g = [k \in 0 .. Modulus |-> IF k = 0 THEN start ELSE NextFile(g[k-1])]
  BY <1>4, <1>5
<1>7. f = [k \in 0 .. Modulus |-> IF k = 0 THEN start ELSE NextFile(f[k-1])]
  BY <1>6, Zenon DEF Files
<1> HIDE DEF f
<1>8. \A k \in 0 .. Modulus : f[k] \in FileLists
  <2> DEFINE Wrong == {k \in 0 .. Modulus : ~ (f[k] \in FileLists)}
  <2>1. ASSUME NEW k \in Wrong, \A j \in Wrong : k <= j PROVE FALSE
    <3>1. k \in 0 .. Modulus /\ ~ (f[k] \in FileLists)
      OBVIOUS
    <3>2. k # 0 /\ f[k] = NextFile(f[k - 1])
      <4> HIDE DEF start
      <4> QED
        BY <1>2, <1>7, <3>1
    <3>3. k - 1 \in 0 .. Modulus /\ ~ (k <= k - 1)
      BY <1>1, <3>1, <3>2
    <3>4. f[k - 1] \in FileLists
      BY <2>1, <3>3
    <3> QED
      BY <3>1, <3>2, <3>4, NextFileIs
  <2>2. Wrong \subseteq Nat
    BY <1>1
  <2>3. Wrong = {}
    <3> HIDE DEF Wrong
    <3> QED
      BY <2>1, <2>2, LeastExists
  <2> QED
    BY <2>3
<1>9. f \in [0 .. Modulus -> FileLists]
  <2>1. f = [k \in 0 .. Modulus |-> f[k]]
    BY <1>7
  <2> QED
    BY <1>8, <2>1
<1>10. \A k \in 0 .. Modulus - 1 : f[k + 1] = NextFile(f[k])
  <2> SUFFICES ASSUME NEW k \in 0 .. Modulus - 1 PROVE f[k + 1] = NextFile(f[k])
    OBVIOUS
  <2>1. k + 1 \in 0 .. Modulus /\ k + 1 # 0 /\ (k + 1) - 1 = k
    BY <1>1
  <2> HIDE DEF start
  <2> QED
    BY <1>7, <2>1
<1>11. f[0] = start
  <2>1. 0 \in 0 .. Modulus
    BY <1>1
  <2> HIDE DEF start
  <2> QED
    BY <1>7, <2>1
<1> QED
  BY <1>9, <1>10, <1>11 DEF f

(* A decoder that failed has failed for good, and every record takes a word. *)
LEMMA CursorsAdvance ==
  ASSUME NEW g, NEW N \in Nat, \A k \in 0 .. N : g[k] \in Cursors,
         \A k \in 0 .. N - 1 : g[k + 1].ok => g[k].ok /\ g[k + 1].position >= g[k].position + 4,
         NEW n \in 0 .. N
  PROVE  g[n].ok => (\A k \in 0 .. n : g[k].ok) /\ g[n].position >= 4 * n
<1> DEFINE P(m) == g[m].ok => (\A k \in 0 .. m : g[k].ok) /\ g[m].position >= 4 * m
           Wrong == {m \in 0 .. N : ~ P(m)}
<1>0. \A k \in 0 .. N : g[k].position \in Nat
  BY DEF Cursors
<1>1. ASSUME NEW m \in Wrong, \A j \in Wrong : m <= j PROVE FALSE
  <2>1. m \in 0 .. N /\ ~ P(m)
    OBVIOUS
  <2>2. CASE m = 0
    <3>1. g[0].position \in Nat /\ \A k \in 0 .. 0 : k = 0
      BY <1>0, <2>1, <2>2
    <3> QED
      BY <2>1, <2>2, <3>1
  <2>3. CASE m # 0
    <3>1. /\ m - 1 \in 0 .. N /\ m - 1 \in 0 .. N - 1 /\ (m - 1) + 1 = m
          /\ ~ (m <= m - 1) /\ m \in Nat
      BY <2>1, <2>3
    <3>2. P(m - 1)
      BY <1>1, <3>1
    <3>3. g[m].ok => g[m - 1].ok /\ g[m].position >= g[m - 1].position + 4
      BY <3>1
    <3>4. g[m].ok => \A k \in 0 .. m : g[k].ok
      <4>1. \A k \in 0 .. m : k = m \/ k \in 0 .. m - 1
        BY <3>1
      <4> QED
        BY <3>2, <3>3, <4>1
    <3>5. g[m].ok => g[m].position >= 4 * m
      <4>1. g[m].position \in Nat /\ g[m - 1].position \in Nat
        BY <1>0, <2>1, <3>1
      <4>2. g[m].ok => g[m - 1].position >= 4 * (m - 1)
        BY <3>2, <3>3
      <4> QED
        BY <3>1, <3>3, <4>1, <4>2
    <3> QED
      BY <2>1, <3>4, <3>5
  <2> QED
    BY <2>2, <2>3
<1>2. Wrong \subseteq Nat
  OBVIOUS
<1>3. Wrong = {}
  <2> HIDE DEF Wrong
  <2> QED
    BY <1>1, <1>2, LeastExists
<1> QED
  BY <1>3

-----------------------------------------------------------------------------
(* A reader that failed has failed for good, too.                            *)
LEMMA StaysFailed ==
  ASSUME storage \in Storages, NEW r, Inside(r), ~ Clean(r), NEW allocated \in Allocated
  PROVE  ~ Clean(ReadText(r, allocated).reader)
<1>1. Agrees(r, Bad)
  BY BadIs DEF Agrees
<1> QED
  BY <1>1, BadIs, TextAgrees

(* One turn of a loop, and its end: for texts,                               *)
LEMMA BlobRead ==
  ASSUME storage \in Storages, NEW r, Inside(r), NEW c \in Cursors,
         NEW k \in 0 .. Modulus - 1, Agrees(r, Blobs(c)[k].next),
         NEW list, Clean(r) => list = Blobs(c)[k].texts, NEW allocated \in Allocated
  PROVE  /\ Agrees(ReadText(r, allocated).reader, Blobs(c)[k + 1].next)
         /\ Clean(ReadText(r, allocated).reader) =>
              Append(list, ReadText(r, allocated).text) = Blobs(c)[k + 1].texts
<1>1. k \in 0 .. Modulus /\ Modulus \in Nat
  BY ReaderAssumption
<1>2. PICK v \in Lists : v = Blobs(c)[k]
  <2>1. Blobs(c) \in [0 .. Modulus -> Lists]
    BY BlobsAre
  <2>2. Blobs(c)[k] \in Lists
    BY <1>1, <2>1
  <2> QED
    BY <2>2
<1>3. PICK w : w = Blobs(c)[k + 1]
  OBVIOUS
<1>4. w = NextBlob(v)
  BY <1>2, <1>3, BlobsAre
<1>5. w.texts = Append(v.texts, PyBlob(v.next).text) /\ w.next = PyBlob(v.next).next
  BY <1>4 DEF NextBlob
<1>6. v.next \in Cursors /\ Agrees(r, v.next)
  BY <1>2 DEF Lists
<1>7. /\ Agrees(ReadText(r, allocated).reader, PyBlob(v.next).next)
      /\ Clean(ReadText(r, allocated).reader) =>
           Clean(r) /\ ReadText(r, allocated).text = PyBlob(v.next).text
  BY <1>6, TextAgrees
<1> QED
  BY <1>2, <1>3, <1>5, <1>7

LEMMA PyBlobsAre ==
  ASSUME storage \in Storages, NEW c \in Cursors, NEW n \in 0 .. Modulus - 1
  PROVE  /\ PyBlobs(n, c).next \in Cursors
         /\ PyBlobs(n, c).next.ok => PyBlobs(n, c) = Blobs(c)[n] /\ Blobs(c)[n].next.ok
         /\ ~ (4 * n > storage.length) => PyBlobs(n, c) = Blobs(c)[n]
         /\ Blobs(c)[n].next.ok => /\ \A j \in 0 .. n : Blobs(c)[j].next.ok
                                 /\ Blobs(c)[n].next.position >= 4 * n
<1> DEFINE cursor == [j \in 0 .. Modulus |-> Blobs(c)[j].next]
           all == PyBlobs(n, c)
<1>1. n \in 0 .. Modulus /\ Modulus \in Nat /\ n \in Nat
  BY ReaderAssumption
<1>2. all = IF 4 * n > storage.length THEN [texts |-> << >>, next |-> Bad] ELSE Blobs(c)[n]
  BY Zenon DEF PyBlobs, Blobs, NextBlob
<1>3. \A j \in 0 .. Modulus : cursor[j] \in Cursors /\ cursor[j] = Blobs(c)[j].next
  BY BlobsAre DEF Lists
<1>4. \A j \in 0 .. Modulus - 1 :
        cursor[j + 1].ok => cursor[j].ok /\ cursor[j + 1].position >= cursor[j].position + 4
  <2> SUFFICES ASSUME NEW j \in 0 .. Modulus - 1
               PROVE  cursor[j + 1].ok =>
                        cursor[j].ok /\ cursor[j + 1].position >= cursor[j].position + 4
    OBVIOUS
  <2>1. j \in 0 .. Modulus /\ j + 1 \in 0 .. Modulus
    BY <1>1
  <2>2. cursor[j + 1] = PyBlob(cursor[j]).next
    <3>1. PICK v : v = Blobs(c)[j]
      OBVIOUS
    <3>2. Blobs(c)[j + 1] = NextBlob(v)
      BY <3>1, BlobsAre
    <3>3. NextBlob(v).next = PyBlob(v.next).next
      BY DEF NextBlob
    <3>4. cursor[j] = v.next /\ cursor[j + 1] = NextBlob(v).next
      BY <1>3, <2>1, <3>1, <3>2
    <3> QED
      BY <3>3, <3>4
  <2> HIDE DEF cursor
  <2> QED
    BY <1>3, <2>1, <2>2, HostBlob
<1> HIDE DEF cursor, all
<1>5. cursor[n].ok => (\A j \in 0 .. n : cursor[j].ok) /\ cursor[n].position >= 4 * n
  BY <1>1, <1>3, <1>4, CursorsAdvance
<1>6. all.next \in Cursors /\ (all.next.ok => all = Blobs(c)[n] /\ cursor[n].ok)
  BY <1>1, <1>2, <1>3, BadIs
<1>7. \A j \in 0 .. n : cursor[j] = Blobs(c)[j].next
  <2> HIDE DEF cursor
  <2> QED
    BY <1>1, <1>3
<1>8. n \in 0 .. n /\ cursor[n] = Blobs(c)[n].next
  BY <1>1, <1>7
<1> QED
  BY <1>2, <1>5, <1>6, <1>7, <1>8 DEF all

LEMMA BlobsEnd ==
  ASSUME storage \in Storages, NEW r, Inside(r), NEW c \in Cursors,
         NEW n \in 0 .. Modulus - 1, NEW k \in 0 .. n, Agrees(r, Blobs(c)[k].next),
         r.error \/ k = n
  PROVE  /\ PyBlobs(n, c).next \in Cursors
         /\ Agrees(r, PyBlobs(n, c).next)
         /\ Clean(r) => k = n /\ PyBlobs(n, c).texts = Blobs(c)[k].texts
<1> DEFINE all == PyBlobs(n, c)
           blobs == Blobs(c)
<1>1. Modulus \in Nat /\ n \in Nat /\ k \in Nat
  BY ReaderAssumption
<1>2. /\ all.next \in Cursors
      /\ all.next.ok => all = blobs[n] /\ blobs[n].next.ok
      /\ ~ (4 * n > storage.length) => all = blobs[n]
      /\ blobs[n].next.ok => /\ \A j \in 0 .. n : blobs[j].next.ok
                             /\ blobs[n].next.position >= 4 * n
  BY PyBlobsAre
<1>3. Agrees(r, blobs[k].next)
  OBVIOUS
<1> HIDE DEF all, blobs
<1>4. CASE ~ Clean(r)
  <2>1. storage.scarce \/ ~ blobs[k].next.ok
    BY <1>3, <1>4 DEF Agrees
  <2>2. storage.scarce \/ ~ all.next.ok
    BY <1>2, <2>1
  <2> QED
    BY <1>2, <1>4, <2>2 DEF Agrees, all
<1>5. CASE Clean(r)
  <2>1. k = n /\ blobs[n].next = [position |-> r.position, ok |-> TRUE]
    BY <1>3, <1>5 DEF Agrees, Clean, CursorOf
  <2>2. r.position >= 4 * n
    BY <1>2, <2>1
  <2>3. r.position \in Nat /\ r.position <= storage.length /\ storage.length \in 0 .. Modulus - 1
    BY StoredWords DEF Inside
  <2>4. ~ (4 * n > storage.length)
    BY <1>1, <2>2, <2>3
  <2>5. all = blobs[n]
    BY <1>2, <2>4
  <2> QED
    BY <1>2, <1>3, <2>1, <2>5 DEF all, blobs
<1> QED
  BY <1>4, <1>5

(* and for files.                                                            *)
LEMMA FileRead ==
  ASSUME IInv, NEW c \in Cursors, NEW k \in 0 .. Modulus - 1,
         Agrees(reader, Files(c)[k].next), Clean(reader) => files = Files(c)[k].files,
         NEW p \in Allocated, NEW q \in Allocated, ReadFile(p, q)
  PROVE  /\ Agrees(reader', Files(c)[k + 1].next)
         /\ Clean(reader') => files' = Files(c)[k + 1].files
<1> DEFINE kind == ReadWord(reader)
           good == kind.value \in {1, 2}
           checked == Check(kind.reader, good)
           path == ReadText(checked, p)
           contents == ReadText(path.reader, q)
           file == [kind |-> kind.value, path |-> path.text, contents |-> contents.text]
<1>1. storage \in Storages /\ Inside(reader)
  BY DEF IInv
<1>2. k \in 0 .. Modulus /\ Modulus \in Nat
  BY ReaderAssumption
<1>3. PICK v \in FileLists : v = Files(c)[k]
  <2>1. Files(c) \in [0 .. Modulus -> FileLists]
    BY <1>1, FilesAre
  <2>2. Files(c)[k] \in FileLists
    BY <1>2, <2>1
  <2> QED
    BY <2>2
<1>4. PICK w : w = Files(c)[k + 1]
  OBVIOUS
<1>5. w = NextFile(v)
  BY <1>1, <1>3, <1>4, FilesAre
<1> DEFINE hostKind == PyU32(v.next)
           hostPath == PyBlob(hostKind.next)
           hostContents == PyBlob(hostPath.next)
<1>6. /\ w.files = Append(v.files, [kind |-> hostKind.value, path |-> hostPath.text,
                                    contents |-> hostContents.text])
      /\ w.next = IF hostKind.value \in {1, 2} THEN hostContents.next ELSE Bad
  BY <1>5 DEF NextFile
<1>7. v.next \in Cursors /\ Agrees(reader, v.next)
  BY <1>3 DEF FileLists
<1>8. /\ Inside(kind.reader) /\ Agrees(kind.reader, hostKind.next) /\ hostKind.next \in Cursors
      /\ Clean(kind.reader) => Clean(reader) /\ kind.value = hostKind.value
  BY <1>1, <1>7, WordAgrees, WordInside, HostWord
<1>9. p \in BOOLEAN /\ q \in BOOLEAN /\ good \in BOOLEAN
  <2>1. Allocated \subseteq BOOLEAN
    BY DEF Allocated
  <2> HIDE DEF kind
  <2> QED
    BY <2>1
<1>10. reader' = contents.reader /\ files' = Append(files, file)
  BY DEF ReadFile
<1> HIDE DEF kind, hostKind
<1>11. Inside(checked)
  BY <1>8, <1>9, CheckInside
<1>12. Clean(checked) <=> good /\ Clean(kind.reader)
  <2>1. good => checked = kind.reader
    BY DEF Check
  <2>2. ~ good => checked.error
    <3>1. Failed(kind.reader).error
      BY <1>8 DEF Failed, Inside
    <3> QED
      BY <3>1 DEF Check
  <2> HIDE DEF checked, good
  <2> QED
    BY <2>1, <2>2 DEF Clean
<1>13. good => checked = kind.reader
  BY DEF Check
<1> HIDE DEF checked
<1>14. CASE ~ Clean(checked)
  <2>1. storage.scarce \/ ~ w.next.ok
    <3>1. CASE ~ Clean(kind.reader)
      <4>1. storage.scarce \/ ~ hostKind.next.ok
        BY <1>8, <3>1 DEF Agrees
      <4>2. /\ hostPath.next \in Cursors /\ (hostPath.next.ok => hostKind.next.ok)
            /\ hostContents.next.ok => hostPath.next.ok
        BY <1>1, <1>8, HostBlob
      <4>3. w.next.ok => hostContents.next.ok
        BY <1>6, BadIs
      <4> QED
        BY <4>1, <4>2, <4>3
    <3>2. CASE Clean(kind.reader)
      <4>1. hostKind.value \notin {1, 2}
        BY <1>8, <1>12, <1>14, <3>2
      <4> QED
        BY <1>6, <4>1, BadIs
    <3> QED
      BY <3>1, <3>2
  <2>2. Inside(path.reader) /\ ~ Clean(path.reader)
    BY <1>1, <1>9, <1>11, <1>14, TextInside, StaysFailed
  <2> HIDE DEF path
  <2>3. ~ Clean(contents.reader)
    BY <1>1, <2>2, StaysFailed
  <2>4. Agrees(contents.reader, w.next)
    BY <2>1, <2>3 DEF Agrees
  <2> QED
    BY <1>4, <1>10, <2>3, <2>4, Zenon DEF path
<1>15. CASE Clean(checked)
  <2>1. /\ checked = kind.reader /\ Clean(kind.reader) /\ Clean(reader)
        /\ kind.value = hostKind.value /\ hostKind.value \in {1, 2}
    BY <1>8, <1>12, <1>13, <1>15
  <2>2. /\ Inside(path.reader) /\ Agrees(path.reader, hostPath.next)
        /\ Clean(path.reader) => path.text = hostPath.text
    BY <1>1, <1>8, <1>9, <1>11, <2>1, TextInside, TextAgrees
  <2>3. hostPath.next \in Cursors
    BY <1>1, <1>8, HostBlob
  <2> HIDE DEF path, hostPath
  <2>4. /\ Agrees(contents.reader, hostContents.next)
        /\ Clean(contents.reader) => Clean(path.reader) /\ contents.text = hostContents.text
    BY <1>1, <2>2, <2>3, TextAgrees
  <2> HIDE DEF contents, hostContents
  <2>5. w.next = hostContents.next
    BY <1>6, <2>1
  <2>6. ASSUME Clean(contents.reader) PROVE Append(files, file) = w.files
    <3>1. /\ files = v.files /\ kind.value = hostKind.value
          /\ path.text = hostPath.text /\ contents.text = hostContents.text
      BY <1>3, <2>1, <2>2, <2>4, <2>6
    <3> QED
      BY <1>6, <3>1
  <2> QED
    BY <1>4, <1>10, <2>4, <2>5, <2>6
<1> QED
  BY <1>14, <1>15

LEMMA PyFilesAre ==
  ASSUME storage \in Storages, NEW c \in Cursors, NEW n \in 0 .. Modulus - 1
  PROVE  /\ PyFiles(n, c).next \in Cursors
         /\ PyFiles(n, c).next.ok => PyFiles(n, c) = Files(c)[n] /\ Files(c)[n].next.ok
         /\ ~ (4 * n > storage.length) => PyFiles(n, c) = Files(c)[n]
         /\ Files(c)[n].next.ok => /\ \A j \in 0 .. n : Files(c)[j].next.ok
                                 /\ Files(c)[n].next.position >= 4 * n
<1> DEFINE cursor == [j \in 0 .. Modulus |-> Files(c)[j].next]
           all == PyFiles(n, c)
<1>1. n \in 0 .. Modulus /\ Modulus \in Nat /\ n \in Nat
  BY ReaderAssumption
<1>2. all = IF 4 * n > storage.length THEN [files |-> << >>, next |-> Bad] ELSE Files(c)[n]
  BY Zenon DEF PyFiles, Files, NextFile
<1>3. \A j \in 0 .. Modulus : cursor[j] \in Cursors /\ cursor[j] = Files(c)[j].next
  BY FilesAre DEF FileLists
<1>4. \A j \in 0 .. Modulus - 1 :
        cursor[j + 1].ok => cursor[j].ok /\ cursor[j + 1].position >= cursor[j].position + 4
  <2> SUFFICES ASSUME NEW j \in 0 .. Modulus - 1
               PROVE  cursor[j + 1].ok =>
                        cursor[j].ok /\ cursor[j + 1].position >= cursor[j].position + 4
    OBVIOUS
  <2>1. j \in 0 .. Modulus /\ j + 1 \in 0 .. Modulus
    BY <1>1
  <2>2. PICK v \in FileLists : v = Files(c)[j]
    BY <2>1, FilesAre
  <2>3. Files(c)[j + 1] = NextFile(v)
    BY <2>2, FilesAre
  <2>4. cursor[j] = v.next /\ cursor[j + 1] = NextFile(v).next
    BY <1>3, <2>1, <2>2, <2>3
  <2> HIDE DEF cursor
  <2> QED
    BY <2>2, <2>4, NextFileIs
<1> HIDE DEF cursor, all
<1>5. cursor[n].ok => (\A j \in 0 .. n : cursor[j].ok) /\ cursor[n].position >= 4 * n
  BY <1>1, <1>3, <1>4, CursorsAdvance
<1>6. all.next \in Cursors /\ (all.next.ok => all = Files(c)[n] /\ cursor[n].ok)
  BY <1>1, <1>2, <1>3, BadIs
<1>7. \A j \in 0 .. n : cursor[j] = Files(c)[j].next
  <2> HIDE DEF cursor
  <2> QED
    BY <1>1, <1>3
<1>8. n \in 0 .. n /\ cursor[n] = Files(c)[n].next
  BY <1>1, <1>7
<1> QED
  BY <1>2, <1>5, <1>6, <1>7, <1>8 DEF all

LEMMA FilesEnd ==
  ASSUME storage \in Storages, NEW r, Inside(r), NEW c \in Cursors,
         NEW n \in 0 .. Modulus - 1, NEW k \in 0 .. n, Agrees(r, Files(c)[k].next),
         r.error \/ k = n
  PROVE  /\ PyFiles(n, c).next \in Cursors
         /\ Agrees(r, PyFiles(n, c).next)
         /\ Clean(r) => k = n /\ PyFiles(n, c).files = Files(c)[k].files
<1> DEFINE all == PyFiles(n, c)
           records == Files(c)
<1>1. Modulus \in Nat /\ n \in Nat /\ k \in Nat
  BY ReaderAssumption
<1>2. /\ all.next \in Cursors
      /\ all.next.ok => all = records[n] /\ records[n].next.ok
      /\ ~ (4 * n > storage.length) => all = records[n]
      /\ records[n].next.ok => /\ \A j \in 0 .. n : records[j].next.ok
                             /\ records[n].next.position >= 4 * n
  BY PyFilesAre
<1>3. Agrees(r, records[k].next)
  OBVIOUS
<1> HIDE DEF all, records
<1>4. CASE ~ Clean(r)
  <2>1. storage.scarce \/ ~ records[k].next.ok
    BY <1>3, <1>4 DEF Agrees
  <2>2. storage.scarce \/ ~ all.next.ok
    BY <1>2, <2>1
  <2> QED
    BY <1>2, <1>4, <2>2 DEF Agrees, all
<1>5. CASE Clean(r)
  <2>1. k = n /\ records[n].next = [position |-> r.position, ok |-> TRUE]
    BY <1>3, <1>5 DEF Agrees, Clean, CursorOf
  <2>2. r.position >= 4 * n
    BY <1>2, <2>1
  <2>3. r.position \in Nat /\ r.position <= storage.length /\ storage.length \in 0 .. Modulus - 1
    BY StoredWords DEF Inside
  <2>4. ~ (4 * n > storage.length)
    BY <1>1, <2>2, <2>3
  <2>5. all = records[n]
    BY <1>2, <2>4
  <2> QED
    BY <1>2, <1>3, <2>1, <2>5 DEF all, records
<1> QED
  BY <1>4, <1>5

-----------------------------------------------------------------------------
(* Storage does not change, and neither does what the decoder makes of it.   *)
LEMMA HostWordKept ==
  ASSUME storage' = storage, NEW c
  PROVE  PyU32(c)' = PyU32(c)
<1>1. PICK a : a = c.position
  OBVIOUS
<1>2. PICK w : w = Load(a)
  OBVIOUS
<1>3. Load(a)' = w
  BY <1>2, Zenon DEF Load
<1>4. PyU32(c) = IF ~ c.ok \/ c.position + 4 > storage.length
                   THEN [value |-> 0, next |-> Bad]
                   ELSE [value |-> w, next |-> [c EXCEPT !.position = @ + 4]]
  BY <1>1, <1>2, Zenon DEF PyU32
<1>5. PyU32(c)' = IF ~ c.ok \/ c.position + 4 > storage'.length
                    THEN [value |-> 0, next |-> Bad]
                    ELSE [value |-> w, next |-> [c EXCEPT !.position = @ + 4]]
  BY <1>1, <1>3, Zenon DEF PyU32, Bad
<1> QED
  BY <1>4, <1>5, Zenon

LEMMA HostTextKept ==
  ASSUME storage' = storage, NEW a, NEW n
  PROVE  TextAt(a, n)' = TextAt(a, n)
<1>1. \A k \in 1 .. (n + 3) \div 4 : Load(a + 4 * (k - 1))' = Load(a + 4 * (k - 1))
  BY DEF Load
<1> QED
  BY <1>1 DEF TextAt

LEMMA HostBlobKept ==
  ASSUME storage' = storage, NEW c
  PROVE  PyBlob(c)' = PyBlob(c)
<1>1. PICK u : u = PyU32(c)
  OBVIOUS
<1>2. PyU32(c)' = u
  BY <1>1, HostWordKept
<1>3. PICK t : t = TextAt(u.next.position, u.value)
  OBVIOUS
<1>4. TextAt(u.next.position, u.value)' = t
  BY <1>3, HostTextKept
<1> DEFINE padded == u.next.position + ((u.value + 3) \div 4) * 4
<1>5. PyBlob(c) = IF ~ u.next.ok \/ padded > storage.length
                    THEN [text |-> NoText, next |-> Bad]
                    ELSE [text |-> t, next |-> [u.next EXCEPT !.position = padded]]
  BY <1>1, <1>3, Zenon DEF PyBlob
<1>6. PyBlob(c)' = IF ~ u.next.ok \/ padded > storage'.length
                     THEN [text |-> NoText, next |-> Bad]
                     ELSE [text |-> t, next |-> [u.next EXCEPT !.position = padded]]
  BY <1>2, <1>4, Zenon DEF PyBlob, NoText, Bad
<1> QED
  BY <1>5, <1>6, Zenon

LEMMA NextBlobKept ==
  ASSUME storage' = storage, NEW v
  PROVE  NextBlob(v)' = NextBlob(v)
<1>1. PyBlob(v.next)' = PyBlob(v.next)
  BY HostBlobKept
<1> QED
  BY <1>1, Zenon DEF NextBlob

LEMMA BlobsKept ==
  ASSUME storage \in Storages, storage' = storage, NEW c \in Cursors
  PROVE  Blobs(c)' = Blobs(c)
<1> DEFINE start == [texts |-> << >>, next |-> c]
<1>1. Modulus \in Nat
  BY ReaderAssumption
<1>2. PICK f : f = Blobs(c)
  OBVIOUS
<1>3. \A k \in 0 .. Modulus - 1 : f[k + 1] = NextBlob(f[k])
  BY <1>2, BlobsAre
<1>4. f[0] = start /\ f = [k \in 0 .. Modulus |-> f[k]]
  BY <1>2, BlobsAre
<1> HIDE DEF start
<1>5. \A v : NextBlob(v)' = NextBlob(v)
  BY NextBlobKept
<1>6. \A k \in 0 .. Modulus : f[k] = IF k = 0 THEN start ELSE NextBlob(f[k-1])'
  <2> SUFFICES ASSUME NEW k \in 0 .. Modulus
               PROVE  f[k] = IF k = 0 THEN start ELSE NextBlob(f[k-1])'
    OBVIOUS
  <2>1. k # 0 => k - 1 \in 0 .. Modulus - 1 /\ (k - 1) + 1 = k
    BY <1>1
  <2> QED
    BY <1>3, <1>4, <1>5, <2>1
<1>7. f = [k \in 0 .. Modulus |-> IF k = 0 THEN start ELSE NextBlob(f[k-1])']
  BY <1>4, <1>6
<1>8. PICK g : g = Blobs(c)'
  OBVIOUS
<1>9. g = [k \in 0 .. Modulus |-> IF k = 0 THEN start ELSE NextBlob(g[k-1])']
  BY <1>7, <1>8, Zenon DEF Blobs, start
<1>10. g[0] = start /\ g = [k \in 0 .. Modulus |-> g[k]]
  BY <1>1, <1>9
<1>11. \A k \in 0 .. Modulus - 1 : f[k] = g[k] => f[k + 1] = g[k + 1]
  <2> SUFFICES ASSUME NEW k \in 0 .. Modulus - 1, f[k] = g[k] PROVE f[k + 1] = g[k + 1]
    OBVIOUS
  <2>1. k + 1 \in 0 .. Modulus /\ k + 1 # 0 /\ (k + 1) - 1 = k
    BY <1>1
  <2>2. g[k + 1] = NextBlob(g[k])'
    BY <1>9, <2>1
  <2> QED
    BY <1>3, <1>5, <2>2
<1>12. f[0] = g[0]
  BY <1>4, <1>10, Zenon
<1>13. \A k \in 0 .. Modulus : f[k] = g[k]
  BY <1>1, <1>11, <1>12, SameByInduction, Zenon
<1> QED
  BY <1>2, <1>4, <1>8, <1>10, <1>13

LEMMA NextFileKept ==
  ASSUME storage' = storage, NEW v
  PROVE  NextFile(v)' = NextFile(v)
<1>1. PICK kind : kind = PyU32(v.next)
  OBVIOUS
<1>2. PICK path : path = PyBlob(kind.next)
  OBVIOUS
<1>3. PICK contents : contents = PyBlob(path.next)
  OBVIOUS
<1>4. PyU32(v.next)' = kind /\ PyBlob(kind.next)' = path /\ PyBlob(path.next)' = contents
  BY <1>1, <1>2, <1>3, HostWordKept, HostBlobKept
<1>5. NextFile(v) =
        [files |-> Append(v.files, [kind |-> kind.value, path |-> path.text,
                                    contents |-> contents.text]),
         next |-> IF kind.value \in {1, 2} THEN contents.next ELSE Bad]
  BY <1>1, <1>2, <1>3, Zenon DEF NextFile
<1>6. NextFile(v)' =
        [files |-> Append(v.files, [kind |-> kind.value, path |-> path.text,
                                    contents |-> contents.text]),
         next |-> IF kind.value \in {1, 2} THEN contents.next ELSE Bad]
  BY <1>4, Zenon DEF NextFile, Bad
<1> QED
  BY <1>5, <1>6, Zenon

LEMMA FilesKept ==
  ASSUME storage \in Storages, storage' = storage, NEW c \in Cursors
  PROVE  Files(c)' = Files(c)
<1> DEFINE start == [files |-> << >>, next |-> c]
<1>1. Modulus \in Nat
  BY ReaderAssumption
<1>2. PICK f : f = Files(c)
  OBVIOUS
<1>3. \A k \in 0 .. Modulus - 1 : f[k + 1] = NextFile(f[k])
  BY <1>2, FilesAre
<1>4. f[0] = start /\ f = [k \in 0 .. Modulus |-> f[k]]
  BY <1>2, FilesAre
<1> HIDE DEF start
<1>5. \A v : NextFile(v)' = NextFile(v)
  BY NextFileKept
<1>6. \A k \in 0 .. Modulus : f[k] = IF k = 0 THEN start ELSE NextFile(f[k-1])'
  <2> SUFFICES ASSUME NEW k \in 0 .. Modulus
               PROVE  f[k] = IF k = 0 THEN start ELSE NextFile(f[k-1])'
    OBVIOUS
  <2>1. k # 0 => k - 1 \in 0 .. Modulus - 1 /\ (k - 1) + 1 = k
    BY <1>1
  <2> QED
    BY <1>3, <1>4, <1>5, <2>1
<1>7. f = [k \in 0 .. Modulus |-> IF k = 0 THEN start ELSE NextFile(f[k-1])']
  BY <1>4, <1>6
<1>8. PICK g : g = Files(c)'
  OBVIOUS
<1>9. g = [k \in 0 .. Modulus |-> IF k = 0 THEN start ELSE NextFile(g[k-1])']
  BY <1>7, <1>8, Zenon DEF Files, start
<1>10. g[0] = start /\ g = [k \in 0 .. Modulus |-> g[k]]
  BY <1>1, <1>9
<1>11. \A k \in 0 .. Modulus - 1 : f[k] = g[k] => f[k + 1] = g[k + 1]
  <2> SUFFICES ASSUME NEW k \in 0 .. Modulus - 1, f[k] = g[k] PROVE f[k + 1] = g[k + 1]
    OBVIOUS
  <2>1. k + 1 \in 0 .. Modulus /\ k + 1 # 0 /\ (k + 1) - 1 = k
    BY <1>1
  <2>2. g[k + 1] = NextFile(g[k])'
    BY <1>9, <2>1
  <2> QED
    BY <1>3, <1>5, <2>2
<1>12. f[0] = g[0]
  BY <1>4, <1>10, Zenon
<1>13. \A k \in 0 .. Modulus : f[k] = g[k]
  BY <1>1, <1>11, <1>12, SameByInduction, Zenon
<1> QED
  BY <1>2, <1>4, <1>8, <1>10, <1>13

(* and the whole of what the decoder reads.                                  *)
LEMMA PyBlobsKept ==
  ASSUME storage \in Storages, storage' = storage, NEW n, NEW c \in Cursors
  PROVE  PyBlobs(n, c)' = PyBlobs(n, c)
<1>1. PICK f : f = Blobs(c)
  OBVIOUS
<1>2. Blobs(c)' = f
  BY <1>1, BlobsKept
<1>3. PyBlobs(n, c) = IF 4 * n > storage.length THEN [texts |-> << >>, next |-> Bad] ELSE f[n]
  <2>1. PyBlobs(n, c) =
          IF 4 * n > storage.length THEN [texts |-> << >>, next |-> Bad] ELSE Blobs(c)[n]
    BY Zenon DEF PyBlobs, Blobs, NextBlob
  <2> QED
    BY <1>1, <2>1, Zenon
<1>4. PyBlobs(n, c)' = IF 4 * n > storage'.length THEN [texts |-> << >>, next |-> Bad] ELSE f[n]
  <2>1. PyBlobs(n, c)' =
          IF 4 * n > storage'.length THEN [texts |-> << >>, next |-> Bad] ELSE Blobs(c)'[n]
    BY Zenon DEF PyBlobs, Blobs, NextBlob, Bad
  <2> QED
    BY <1>2, <2>1, Zenon
<1> QED
  BY <1>3, <1>4, Zenon

LEMMA PyFilesKept ==
  ASSUME storage \in Storages, storage' = storage, NEW n, NEW c \in Cursors
  PROVE  PyFiles(n, c)' = PyFiles(n, c)
<1>1. PICK f : f = Files(c)
  OBVIOUS
<1>2. Files(c)' = f
  BY <1>1, FilesKept
<1>3. PyFiles(n, c) = IF 4 * n > storage.length THEN [files |-> << >>, next |-> Bad] ELSE f[n]
  <2>1. PyFiles(n, c) =
          IF 4 * n > storage.length THEN [files |-> << >>, next |-> Bad] ELSE Files(c)[n]
    BY Zenon DEF PyFiles, Files, NextFile
  <2> QED
    BY <1>1, <2>1, Zenon
<1>4. PyFiles(n, c)' = IF 4 * n > storage'.length THEN [files |-> << >>, next |-> Bad] ELSE f[n]
  <2>1. PyFiles(n, c)' =
          IF 4 * n > storage'.length THEN [files |-> << >>, next |-> Bad] ELSE Files(c)'[n]
    BY Zenon DEF PyFiles, Files, NextFile, Bad
  <2> QED
    BY <1>2, <2>1, Zenon
<1> QED
  BY <1>3, <1>4, Zenon

-----------------------------------------------------------------------------
(* The six words of the header, which nothing in them moves.                 *)
LEMMA HeaderCursorIs ==
  ASSUME storage \in Storages, NEW k \in Nat
  PROVE  /\ HeaderCursor(k) \in Cursors
         /\ HeaderCursor(k).ok <=>
              4 * k <= storage.length /\ \A i \in 1 .. k : Expected(i, Load(4 * (i - 1)))
         /\ HeaderCursor(k).ok => HeaderCursor(k) = [position |-> 4 * k, ok |-> TRUE]
         /\ ~ HeaderCursor(k).ok => HeaderCursor(k) = Bad
<1>1. [position |-> 4 * k, ok |-> TRUE] \in Cursors
  BY DEF Cursors
<1>2. ~ Bad.ok /\ Bad \in Cursors
  BY BadIs
<1>3. CASE 4 * k <= storage.length /\ \A i \in 1 .. k : Expected(i, Load(4 * (i - 1)))
  <2>1. HeaderCursor(k) = [position |-> 4 * k, ok |-> TRUE]
    BY <1>3, Zenon DEF HeaderCursor
  <2> QED
    BY <1>1, <1>3, <2>1
<1>4. CASE ~ (4 * k <= storage.length /\ \A i \in 1 .. k : Expected(i, Load(4 * (i - 1))))
  <2>1. HeaderCursor(k) = Bad
    BY <1>4, Zenon DEF HeaderCursor
  <2> QED
    BY <1>2, <1>4, <2>1
<1> QED
  BY <1>3, <1>4

(* A reader the decoder has given up on.                                     *)
LEMMA AgreesWithBad == \A r : Agrees(r, Bad) <=> ~ Clean(r)
BY BadIs DEF Agrees, CursorOf

LEMMA HeaderWordRead ==
  ASSUME storage \in Storages, NEW r, Inside(r), NEW k \in Nat,
         Agrees(r, HeaderCursor(k))
  PROVE  LET u == ReadWord(r)
         IN  /\ Agrees(Check(u.reader, Expected(k + 1, u.value)), HeaderCursor(k + 1))
             /\ Clean(u.reader) => Clean(r) /\ u.value = Load(4 * k)
<1> DEFINE u == ReadWord(r)
           host == PyU32(HeaderCursor(k))
           next == Check(u.reader, Expected(k + 1, u.value))
<1>1. /\ HeaderCursor(k) \in Cursors /\ HeaderCursor(k + 1) \in Cursors
      /\ storage.length \in Nat /\ k + 1 \in Nat
  BY HeaderCursorIs, StoredWords, ReaderAssumption
<1>2. /\ Agrees(u.reader, host.next)
      /\ Clean(u.reader) => Clean(r) /\ u.value = host.value
  BY <1>1, WordAgrees
<1>3. /\ Inside(u.reader)
      /\ u.reader \in [position : Nat, error : BOOLEAN, touched : SUBSET Nat, skipped : BOOLEAN]
  BY WordInside DEF Inside
<1>4. (Clean(next) => next = u.reader /\ Expected(k + 1, u.value))
      /\ (Clean(u.reader) /\ Expected(k + 1, u.value) => next = u.reader)
  <2> HIDE DEF u
  <2>1. ~ Clean(Failed(u.reader))
    BY <1>3 DEF Clean, Failed
  <2> QED
    BY <2>1 DEF Check
<1>5. CASE ~ HeaderCursor(k).ok
  <2>1. HeaderCursor(k) = Bad
    BY <1>5, HeaderCursorIs
  <2>2. HeaderCursor(k + 1) = Bad
    <3>1. ~ HeaderCursor(k + 1).ok
      <4>1. ~ (4 * k <= storage.length /\ \A i \in 1 .. k : Expected(i, Load(4 * (i - 1))))
        BY <1>5, HeaderCursorIs
      <4>2. 1 .. k \subseteq 1 .. k + 1
        OBVIOUS
      <4>3. 4 * (k + 1) <= storage.length => 4 * k <= storage.length
        BY <1>1
      <4>4. ~ /\ 4 * (k + 1) <= storage.length
              /\ \A i \in 1 .. k + 1 : Expected(i, Load(4 * (i - 1)))
        BY <4>1, <4>2, <4>3, Zenon
      <4> QED
        BY <1>1, <4>4, HeaderCursorIs, Zenon
    <3> QED
      BY <1>1, <3>1, HeaderCursorIs
  <2>3. host.next = Bad
    BY <2>1, BadIs DEF PyU32
  <2>4. ~ Clean(u.reader)
    BY <1>2, <2>3, AgreesWithBad
  <2> QED
    BY <1>4, <2>2, <2>4, AgreesWithBad
<1>6. CASE HeaderCursor(k).ok
  <2>1. /\ HeaderCursor(k) = [position |-> 4 * k, ok |-> TRUE]
        /\ \A i \in 1 .. k : Expected(i, Load(4 * (i - 1)))
    BY <1>6, HeaderCursorIs
  <2>2. /\ 4 * (k + 1) = 4 * k + 4 /\ 4 * ((k + 1) - 1) = 4 * k /\ k + 1 \in 1 .. k + 1
        /\ 1 .. k + 1 = 1 .. k \cup {k + 1}
    OBVIOUS
  <2>3. HeaderCursor(k + 1).ok <=> 4 * k + 4 <= storage.length /\ Expected(k + 1, Load(4 * k))
    <3>1. (\A i \in 1 .. k + 1 : Expected(i, Load(4 * (i - 1)))) <=> Expected(k + 1, Load(4 * k))
      <4>1. Expected(k + 1, Load(4 * ((k + 1) - 1))) <=> Expected(k + 1, Load(4 * k))
        BY <2>2, Zenon
      <4> QED
        BY <2>1, <2>2, <4>1, Zenon
    <3>2. HeaderCursor(k + 1).ok <=>
            /\ 4 * (k + 1) <= storage.length
            /\ \A i \in 1 .. k + 1 : Expected(i, Load(4 * (i - 1)))
      BY <1>1, HeaderCursorIs, Zenon
    <3> QED
      BY <2>2, <3>1, <3>2, Zenon
  <2>4. CASE 4 * k + 4 > storage.length
    <3>1. host.next = Bad
      BY <2>1, <2>4 DEF PyU32
    <3>2. HeaderCursor(k + 1) = Bad
      BY <1>1, <2>3, <2>4, HeaderCursorIs
    <3>3. ~ Clean(u.reader)
      BY <1>2, <3>1, AgreesWithBad
    <3> QED
      BY <1>4, <3>2, <3>3, AgreesWithBad
  <2>5. CASE ~ (4 * k + 4 > storage.length)
    <3>1. host.value = Load(4 * k) /\ host.next = [position |-> 4 * k + 4, ok |-> TRUE]
      <4>1. /\ HeaderCursor(k).ok /\ HeaderCursor(k).position = 4 * k
            /\ HeaderCursor(k).position + 4 = 4 * k + 4
        BY <2>1
      <4> QED
        BY <1>1, <2>5, <4>1, HostWordIs, Zenon
    <3>2. CASE Clean(u.reader) /\ Expected(k + 1, u.value)
      <4>1. u.value = Load(4 * k) /\ Clean(r)
        BY <1>2, <3>1, <3>2
      <4>2. HeaderCursor(k + 1) = [position |-> 4 * k + 4, ok |-> TRUE]
        <5>1. HeaderCursor(k + 1).ok
          BY <1>1, <2>3, <2>5, <3>2, <4>1
        <5> QED
          BY <1>1, <2>2, <5>1, HeaderCursorIs
      <4> QED
        BY <1>2, <1>4, <3>1, <3>2, <4>1, <4>2
    <3>3. CASE ~ (Clean(u.reader) /\ Expected(k + 1, u.value))
      <4>1. ~ Clean(next)
        BY <1>4, <3>3
      <4>2. storage.scarce \/ ~ HeaderCursor(k + 1).ok
        <5>1. CASE ~ Clean(u.reader)
          BY <1>2, <3>1, <5>1 DEF Agrees
        <5>2. CASE Clean(u.reader)
          BY <1>2, <2>3, <3>1, <3>3, <5>2
        <5> QED
          BY <5>1, <5>2
      <4> QED
        BY <1>2, <3>1, <4>1, <4>2 DEF Agrees
    <3> QED
      BY <3>2, <3>3
  <2> QED
    BY <1>1, <2>4, <2>5
<1> QED
  BY <1>5, <1>6

-----------------------------------------------------------------------------
(* What the decoder makes of the whole stream, in terms of the above.        *)
RawCursor(k) == IF 4 * k <= storage.length THEN [position |-> 4 * k, ok |-> TRUE] ELSE Bad

LEMMA RawCursorIs ==
  ASSUME storage \in Storages, NEW k \in Nat
  PROVE  /\ RawCursor(k) \in Cursors
         /\ RawCursor(k).ok <=> 4 * k <= storage.length
         /\ RawCursor(k).ok => RawCursor(k).position = 4 * k
         /\ RawCursor(k) = IF RawCursor(k).ok THEN [position |-> 4 * k, ok |-> TRUE] ELSE Bad
<1>1. [position |-> 4 * k, ok |-> TRUE] \in Cursors
  BY DEF Cursors
<1> QED
  BY <1>1, BadIs DEF RawCursor

LEMMA RawWord ==
  ASSUME storage \in Storages, NEW k \in Nat
  PROVE  /\ PyU32(RawCursor(k)).next = RawCursor(k + 1)
         /\ RawCursor(k + 1).ok => PyU32(RawCursor(k)).value = Load(4 * k) /\ RawCursor(k).ok
<1> DEFINE u == PyU32(RawCursor(k))
<1>1. storage.length \in Nat /\ 4 * (k + 1) = 4 * k + 4 /\ k + 1 \in Nat /\ 4 * k \in Nat
  BY StoredWords, ReaderAssumption
<1>2. CASE RawCursor(k + 1).ok
  <2>1. 4 * k + 4 <= storage.length /\ RawCursor(k).ok /\ RawCursor(k).position = 4 * k
    BY <1>1, <1>2, RawCursorIs
  <2>2. RawCursor(k) \in Cursors /\ ~ (4 * k + 4 > storage.length)
    BY <1>1, <2>1, RawCursorIs
  <2>3. u.value = Load(4 * k) /\ u.next = [position |-> 4 * k + 4, ok |-> TRUE]
    BY <2>1, <2>2, HostWordIs, Zenon
  <2>4. RawCursor(k + 1) = [position |-> 4 * k + 4, ok |-> TRUE]
    BY <1>1, <1>2, RawCursorIs
  <2> QED
    BY <2>1, <2>3, <2>4
<1>3. CASE ~ RawCursor(k + 1).ok
  <2>1. ~ RawCursor(k).ok \/ RawCursor(k).position + 4 > storage.length
    BY <1>1, <1>3, RawCursorIs
  <2>2. u.next = Bad
    BY <2>1 DEF PyU32
  <2>3. RawCursor(k + 1) = Bad
    BY <1>1, <1>3, RawCursorIs
  <2> QED
    BY <1>3, <2>2, <2>3
<1> QED
  BY <1>2, <1>3

(* Before the first record nothing is read.                                  *)
LEMMA NothingRead ==
  ASSUME storage \in Storages, NEW c \in Cursors
  PROVE  /\ Blobs(c)[0].next = c /\ Blobs(c)[0].texts = << >>
         /\ Files(c)[0].next = c /\ Files(c)[0].files = << >>
<1>1. PICK f, g : f = Blobs(c)[0] /\ g = Files(c)[0]
  OBVIOUS
<1>2. f = [texts |-> << >>, next |-> c] /\ g = [files |-> << >>, next |-> c]
  BY <1>1, BlobsAre, FilesAre, Zenon
<1> QED
  BY <1>1, <1>2

LEMMA HostCursors ==
  ASSUME storage \in Storages
  PROVE  /\ HostHeader \in Cursors /\ HostRoots.next \in Cursors
         /\ HostDefinitions.next \in Cursors /\ HostFiles.next \in Cursors
         /\ HostFiles.next.ok => HostHeader.ok
         /\ \A a \in Nat : Load(a) \in 0 .. Modulus - 1
<1>1. HostHeader \in Cursors
  BY HeaderCursorIs DEF HostHeader, HeaderSize
<1>2. \A a \in Nat : Load(a) \in 0 .. Modulus - 1
  BY StoredWords
<1>3. Load(16) \in 0 .. Modulus - 1 /\ Load(20) \in 0 .. Modulus - 1 /\ Load(12) \in 0 .. Modulus - 1
  BY <1>2
<1>4. \A n \in 0 .. Modulus - 1 : 0 \in 0 .. n
  OBVIOUS
<1>5. HostRoots.next \in Cursors /\ (HostRoots.next.ok => HostHeader.ok)
  <2>1. Blobs(HostHeader)[0].next = HostHeader
    BY <1>1, NothingRead, Zenon
  <2> QED
    BY <1>1, <1>3, <1>4, <2>1, PyBlobsAre DEF HostRoots
<1>6. /\ HostDefinitions.next \in Cursors
      /\ HostDefinitions.next.ok => HostRoots.next.ok
  <2>1. Blobs(HostRoots.next)[0].next = HostRoots.next
    BY <1>5, NothingRead, Zenon
  <2> QED
    BY <1>3, <1>4, <1>5, <2>1, PyBlobsAre DEF HostDefinitions
<1>7. HostFiles.next \in Cursors /\ (HostFiles.next.ok => HostDefinitions.next.ok)
  <2>1. Files(HostDefinitions.next)[0].next = HostDefinitions.next
    BY <1>6, NothingRead, Zenon
  <2> QED
    BY <1>3, <1>4, <1>6, <2>1, PyFilesAre DEF HostFiles
<1> QED
  BY <1>1, <1>2, <1>5, <1>6, <1>7

(* The header in six steps or at once.                                       *)
LEMMA HeaderDecoded ==
  ASSUME storage \in Storages
  PROVE  /\ HostHeader.ok <=> /\ RawCursor(6).ok /\ Load(0) = Magic
                              /\ Load(4) = Version /\ Load(8) = 0
         /\ HostHeader.ok => HostHeader = RawCursor(6)
<1>1. /\ HostHeader.ok <=>
           4 * 6 <= storage.length /\ \A i \in 1 .. 6 : Expected(i, Load(4 * (i - 1)))
      /\ HostHeader.ok => HostHeader = [position |-> 4 * 6, ok |-> TRUE]
  BY HeaderCursorIs DEF HostHeader, HeaderSize
<1>2. (\A i \in 1 .. 6 : Expected(i, Load(4 * (i - 1))))
        <=> Load(0) = Magic /\ Load(4) = Version /\ Load(8) = 0
  <2>1. \A i \in 1 .. 6 : Expected(i, Load(4 * (i - 1))) <=>
          /\ i = 1 => Load(4 * (i - 1)) = Magic
          /\ i = 2 => Load(4 * (i - 1)) = Version
          /\ i = 3 => Load(4 * (i - 1)) = 0
    BY DEF Expected
  <2>2. 4 * (1 - 1) = 0 /\ 4 * (2 - 1) = 4 /\ 4 * (3 - 1) = 8
    OBVIOUS
  <2> QED
    BY <2>1, <2>2
<1>3. RawCursor(6).ok <=> 4 * 6 <= storage.length
  BY RawCursorIs
<1>4. RawCursor(6).ok => RawCursor(6) = [position |-> 4 * 6, ok |-> TRUE]
  BY RawCursorIs
<1> QED
  BY <1>1, <1>2, <1>3, <1>4

LEMMA DecodedIs ==
  ASSUME storage \in Storages
  PROVE  IF HostHeader.ok
           THEN /\ Decoded.ok <=> HostFiles.next.ok /\ HostFiles.next.position = storage.length
                /\ Decoded.roots = HostRoots.texts
                /\ Decoded.definitions = HostDefinitions.texts
                /\ Decoded.files = HostFiles.files
           ELSE ~ Decoded.ok
<1> DEFINE magic == PyU32(Start)
           version == PyU32(magic.next)
           flags == PyU32(version.next)
           nfiles == PyU32(flags.next)
           nroots == PyU32(nfiles.next)
           ndefs == PyU32(nroots.next)
           wellFormed == /\ ndefs.next.ok /\ magic.value = Magic
                         /\ version.value = Version /\ flags.value = 0
           rs == PyBlobs(nroots.value, ndefs.next)
           ds == PyBlobs(ndefs.value, rs.next)
           fs == PyFiles(nfiles.value, ds.next)
<1>1. Decoded = IF wellFormed
                  THEN [ok |-> fs.next.ok /\ fs.next.position = storage.length,
                        roots |-> rs.texts, definitions |-> ds.texts, files |-> fs.files]
                  ELSE [ok |-> FALSE, roots |-> << >>, definitions |-> << >>, files |-> << >>]
  BY Zenon DEF Decoded
<1>2. Start = RawCursor(0)
  BY StoredWords, ReaderAssumption DEF Start, RawCursor
<1>3. magic.next = RawCursor(1) /\ (RawCursor(1).ok => magic.value = Load(0))
  BY <1>2, RawWord
<1> HIDE DEF magic
<1>4. version.next = RawCursor(2) /\ (RawCursor(2).ok => version.value = Load(4) /\ RawCursor(1).ok)
  BY <1>3, RawWord
<1> HIDE DEF version
<1>5. flags.next = RawCursor(3) /\ (RawCursor(3).ok => flags.value = Load(8) /\ RawCursor(2).ok)
  BY <1>4, RawWord
<1> HIDE DEF flags
<1>6. nfiles.next = RawCursor(4) /\ (RawCursor(4).ok => nfiles.value = Load(12) /\ RawCursor(3).ok)
  BY <1>5, RawWord
<1> HIDE DEF nfiles
<1>7. nroots.next = RawCursor(5) /\ (RawCursor(5).ok => nroots.value = Load(16) /\ RawCursor(4).ok)
  BY <1>6, RawWord
<1> HIDE DEF nroots
<1>8. ndefs.next = RawCursor(6) /\ (RawCursor(6).ok => ndefs.value = Load(20) /\ RawCursor(5).ok)
  BY <1>7, RawWord
<1> HIDE DEF ndefs
<1>9. wellFormed <=> HostHeader.ok
  <2>1. ndefs.next.ok <=> RawCursor(6).ok
    BY <1>8
  <2>2. RawCursor(6).ok =>
          magic.value = Load(0) /\ version.value = Load(4) /\ flags.value = Load(8)
    BY <1>3, <1>4, <1>5, <1>6, <1>7, <1>8
  <2> QED
    BY <2>1, <2>2, HeaderDecoded
<1>10. HostHeader.ok => rs = HostRoots /\ ds = HostDefinitions /\ fs = HostFiles
  <2> SUFFICES ASSUME HostHeader.ok PROVE rs = HostRoots /\ ds = HostDefinitions /\ fs = HostFiles
    OBVIOUS
  <2>1. HostHeader = ndefs.next /\ RawCursor(6).ok
    BY <1>8, HeaderDecoded
  <2>2. nroots.value = Load(16) /\ ndefs.value = Load(20) /\ nfiles.value = Load(12)
    BY <1>6, <1>7, <1>8, <2>1
  <2>3. rs = HostRoots
    BY <2>1, <2>2, Zenon DEF HostRoots
  <2>4. ds = HostDefinitions
    BY <2>2, <2>3, Zenon DEF HostDefinitions
  <2> QED
    BY <2>2, <2>3, <2>4, Zenon DEF HostFiles
<1> HIDE DEF wellFormed, rs, ds, fs
<1>11. CASE HostHeader.ok
  <2>1. Decoded = [ok |-> fs.next.ok /\ fs.next.position = storage.length,
                   roots |-> rs.texts, definitions |-> ds.texts, files |-> fs.files]
    BY <1>1, <1>9, <1>11, Zenon
  <2>2. /\ Decoded.ok = (fs.next.ok /\ fs.next.position = storage.length)
        /\ Decoded.roots = rs.texts /\ Decoded.definitions = ds.texts /\ Decoded.files = fs.files
    BY <2>1
  <2> QED
    BY <1>10, <1>11, <2>2
<1>12. CASE ~ HostHeader.ok
  <2>1. Decoded = [ok |-> FALSE, roots |-> << >>, definitions |-> << >>, files |-> << >>]
    BY <1>1, <1>9, <1>12, Zenon
  <2>2. ~ Decoded.ok
    BY <2>1
  <2> QED
    BY <1>12, <2>2
<1> QED
  BY <1>11, <1>12

(* All of it stays as it is while storage does.                              *)
LEMMA HostKept ==
  ASSUME storage \in Storages, storage' = storage
  PROVE  /\ HostHeader' = HostHeader /\ HostRoots' = HostRoots
         /\ HostDefinitions' = HostDefinitions /\ HostFiles' = HostFiles
         /\ RootBlobs' = RootBlobs /\ DefinitionBlobs' = DefinitionBlobs
         /\ FileBlobs' = FileBlobs
<1>1. PICK hd, rs, ds, fs : /\ hd \in Cursors /\ hd = HostHeader /\ rs = HostRoots
                            /\ ds = HostDefinitions /\ fs = HostFiles
  BY HostCursors
<1>2. rs.next \in Cursors /\ ds.next \in Cursors
  BY <1>1, HostCursors
<1>3. PICK a, b, c : a = Load(16) /\ b = Load(20) /\ c = Load(12)
  OBVIOUS
<1>4. Load(16)' = a /\ Load(20)' = b /\ Load(12)' = c
  BY <1>3 DEF Load
<1>5. HostHeader' = hd
  BY <1>1 DEF HostHeader, HeaderCursor, HeaderSize, Load, Expected, Bad
<1>6. PyBlobs(a, hd) = rs /\ PyBlobs(b, rs.next) = ds /\ PyFiles(c, ds.next) = fs
  BY <1>1, <1>3, Zenon DEF HostRoots, HostDefinitions, HostFiles
<1>7. PyBlobs(a, hd)' = rs /\ PyBlobs(b, rs.next)' = ds /\ PyFiles(c, ds.next)' = fs
  <2>1. PyBlobs(a, hd)' = PyBlobs(a, hd)
    BY <1>1, PyBlobsKept, Zenon
  <2>2. PyBlobs(b, rs.next)' = PyBlobs(b, rs.next)
    BY <1>2, PyBlobsKept, Zenon
  <2>3. PyFiles(c, ds.next)' = PyFiles(c, ds.next)
    BY <1>2, PyFilesKept, Zenon
  <2> QED
    BY <1>6, <2>1, <2>2, <2>3, Zenon
<1>8. HostRoots' = rs
  BY <1>4, <1>5, <1>7, Zenon DEF HostRoots
<1>9. HostDefinitions' = ds
  BY <1>4, <1>7, <1>8, Zenon DEF HostDefinitions
<1>10. HostFiles' = fs
  BY <1>4, <1>7, <1>9, Zenon DEF HostFiles
<1>11. PICK rb, db, fb : rb = Blobs(hd) /\ db = Blobs(rs.next) /\ fb = Files(ds.next)
  OBVIOUS
<1>12. Blobs(hd)' = rb /\ Blobs(rs.next)' = db /\ Files(ds.next)' = fb
  <2>1. Blobs(hd)' = Blobs(hd)
    BY <1>1, BlobsKept, Zenon
  <2>2. Blobs(rs.next)' = Blobs(rs.next)
    BY <1>2, BlobsKept, Zenon
  <2>3. Files(ds.next)' = Files(ds.next)
    BY <1>2, FilesKept, Zenon
  <2> QED
    BY <1>11, <2>1, <2>2, <2>3, Zenon
<1>13. RootBlobs = rb /\ DefinitionBlobs = db /\ FileBlobs = fb
  BY <1>1, <1>11, Zenon DEF RootBlobs, DefinitionBlobs, FileBlobs
<1>14. RootBlobs' = rb /\ DefinitionBlobs' = db /\ FileBlobs' = fb
  BY <1>5, <1>8, <1>9, <1>12, Zenon DEF RootBlobs, DefinitionBlobs, FileBlobs
<1> QED
  BY <1>1, <1>5, <1>8, <1>9, <1>10, <1>13, <1>14, Zenon

-----------------------------------------------------------------------------
(* The reader keeps to the decoder: at first,                                *)
LEMMA InitAgrees == Init => Agreement
<1> SUFFICES ASSUME Init PROVE Agreement
  OBVIOUS
<1>1. storage \in Storages /\ storage.length \in Nat
  BY StoredWords, ReaderAssumption DEF Init
<1>2. /\ stage = "header" /\ header = << >> /\ roots = << >> /\ definitions = << >>
      /\ files = << >> /\ status = "reading"
      /\ reader.position = 0 /\ reader.error = FALSE /\ reader.skipped = FALSE
  BY DEF Init
<1>3. HeaderCursor(0) = [position |-> 0, ok |-> TRUE]
  <2>1. HeaderCursor(0).ok
    BY <1>1, HeaderCursorIs
  <2> QED
    BY <1>1, <2>1, HeaderCursorIs
<1>4. HeaderAgrees
  <2>1. Len(header) = 0 /\ header \in Seq(0 .. Modulus - 1)
    BY <1>2
  <2>2. Agrees(reader, HeaderCursor(0))
    BY <1>2, <1>3 DEF Agrees, Clean, CursorOf
  <2> QED
    BY <1>2, <2>1, <2>2 DEF HeaderAgrees, HeaderSize
<1> QED
  BY <1>2, <1>4 DEF Agreement, RootsAgree, DefinitionsAgree, FilesAgree, Verdict

(* in the header,                                                            *)
LEMMA ReadHeaderAgrees ==
  ASSUME IInv, Agreement, ReadHeader
  PROVE  Agreement'
<1> DEFINE u == ReadWord(reader)
           k == Len(header)
<1>1. storage \in Storages /\ Inside(reader)
  BY DEF IInv
<1>2. /\ stage = "header" /\ stage' = "header" /\ storage' = storage
      /\ roots' = roots /\ definitions' = definitions /\ files' = files /\ status' = status
      /\ k < 6 /\ header' = Append(header, u.value)
      /\ reader' = Check(u.reader, Expected(k + 1, u.value))
  BY DEF ReadHeader, HeaderSize
<1>3. /\ header \in Seq(0 .. Modulus - 1) /\ k \in Nat
      /\ reader.error \/ \A i \in 1 .. k : header[i] = Load(4 * (i - 1))
      /\ ~ reader.skipped /\ Agrees(reader, HeaderCursor(k))
  BY <1>2 DEF Agreement, HeaderAgrees
<1>4. /\ Agrees(reader', HeaderCursor(k + 1))
      /\ Clean(u.reader) => Clean(reader) /\ u.value = Load(4 * k)
  BY <1>1, <1>2, <1>3, HeaderWordRead
<1>5. u.value \in 0 .. Modulus - 1 /\ Inside(u.reader)
  BY <1>1, WordInside
<1>6. u.reader.skipped = reader.skipped
  BY <1>1, <1>3, WordAgrees, HeaderCursorIs
<1> HIDE DEF u, k
<1>7. reader'.skipped = u.reader.skipped /\ (u.reader.error => reader'.error)
  <2>1. Failed(u.reader).skipped = u.reader.skipped /\ Failed(u.reader).error
    BY <1>5 DEF Failed, Inside
  <2> QED
    BY <1>2, <2>1 DEF Check
<1>8. header' \in Seq(0 .. Modulus - 1) /\ Len(header') = k + 1
  BY <1>2, <1>3, <1>5 DEF k
<1>9. reader'.error \/ \A i \in 1 .. k + 1 : header'[i] = Load(4 * (i - 1))
  <2> SUFFICES ASSUME ~ reader'.error, NEW i \in 1 .. k + 1
               PROVE  header'[i] = Load(4 * (i - 1))
    OBVIOUS
  <2>1. u.value = Load(4 * k) /\ ~ reader.error
    BY <1>3, <1>4, <1>6, <1>7 DEF Clean
  <2>2. CASE i = k + 1
    <3>1. header'[i] = u.value /\ 4 * (i - 1) = 4 * k
      BY <1>2, <1>3, <2>2 DEF k
    <3> QED
      BY <2>1, <3>1
  <2>3. CASE i # k + 1
    <3>1. i \in 1 .. k /\ header'[i] = header[i]
      BY <1>2, <1>3, <2>3 DEF k
    <3> QED
      BY <1>3, <2>1, <3>1
  <2> QED
    BY <2>2, <2>3
<1>10. HeaderCursor(Len(header))' = HeaderCursor(Len(header'))
  BY <1>2 DEF HeaderCursor, Load, Expected, Bad
<1>11. \A i \in 1 .. k + 1 : Load(4 * (i - 1))' = Load(4 * (i - 1))
  BY <1>2 DEF Load
<1>12. Agrees(reader, HeaderCursor(Len(header)))'
  <2>1. HeaderCursor(Len(header))' = HeaderCursor(k + 1)
    BY <1>8, <1>10
  <2> QED
    BY <1>2, <1>4, <2>1 DEF Agrees, Clean, CursorOf
<1>13. HeaderAgrees'
  <2>1. k + 1 <= 6
    BY <1>2, <1>3
  <2> QED
    BY <1>2, <1>3, <1>6, <1>7, <1>8, <1>9, <1>11, <1>12, <2>1 DEF HeaderAgrees, HeaderSize
<1> QED
  BY <1>2, <1>13 DEF Agreement, RootsAgree, DefinitionsAgree, FilesAgree, Verdict

(* past it,                                                                  *)
LEMMA HeaderStays ==
  ASSUME Agreement, storage' = storage, header' = header, stage' # "header",
         Len(header) = HeaderSize, reader.error => reader'.error
  PROVE  HeaderAgrees'
<1>1. /\ header \in Seq(0 .. Modulus - 1)
      /\ reader.error \/ \A i \in 1 .. Len(header) : header[i] = Load(4 * (i - 1))
  BY DEF Agreement, HeaderAgrees
<1>2. \A i \in 1 .. Len(header) : Load(4 * (i - 1))' = Load(4 * (i - 1))
  BY DEF Load
<1>3. Len(header) <= HeaderSize
  BY DEF HeaderSize
<1> QED
  BY <1>1, <1>2, <1>3 DEF HeaderAgrees, HeaderSize

LEMMA Counts ==
  ASSUME IInv, Agreement, stage # "header", ~ reader.error
  PROVE  RootCount = Load(16) /\ DefinitionCount = Load(20) /\ FileCount = Load(12)
<1>1. Len(header) = 6 /\ \A i \in 1 .. Len(header) : header[i] = Load(4 * (i - 1))
  BY DEF Agreement, HeaderAgrees, HeaderSize
<1>2. 4 * (5 - 1) = 16 /\ 4 * (6 - 1) = 20 /\ 4 * (4 - 1) = 12
  OBVIOUS
<1> QED
  BY <1>1, <1>2 DEF RootCount, DefinitionCount, FileCount

LEMMA AllocateTablesAgrees ==
  ASSUME IInv, Agreement, NEW granted \in Allocated, AllocateTables(granted)
  PROVE  Agreement'
<1>1. storage \in Storages /\ Inside(reader)
  BY DEF IInv
<1>2. /\ stage = "header" /\ stage' = "roots" /\ storage' = storage
      /\ Len(header) = HeaderSize /\ header' = header
      /\ roots' = roots /\ definitions' = definitions /\ files' = files /\ status' = status
      /\ reader' = Check(reader, granted)
  BY DEF AllocateTables
<1>3. Agrees(reader, HostHeader)
  BY <1>2 DEF Agreement, HeaderAgrees, HostHeader
<1>4. /\ roots = << >> /\ definitions = << >> /\ files = << >> /\ status = "reading"
      /\ roots \in Seq(Texts) /\ definitions \in Seq(Texts) /\ files \in Seq(FileRecords)
  BY <1>2 DEF Agreement, RootsAgree, DefinitionsAgree, FilesAgree, Verdict
<1>5. Agrees(reader', HostHeader) /\ (reader.error => reader'.error)
  <2>1. CASE granted
    BY <1>2, <1>3, <2>1 DEF Check
  <2>2. CASE ~ granted
    <3>1. storage.scarce
      BY <2>2 DEF Allocated
    <3>2. reader'.error
      BY <1>1, <1>2, <2>2 DEF Check, Failed, Inside
    <3> QED
      BY <3>1, <3>2 DEF Agrees, Clean
  <2> QED
    BY <2>1, <2>2
<1>6. HeaderAgrees'
  BY <1>2, <1>5, HeaderStays
<1>7. RootsAgree'
  <2>1. RootBlobs[0].next = HostHeader /\ RootBlobs[0].texts = << >>
    BY <1>1, HostCursors, NothingRead DEF RootBlobs
  <2>2. RootBlobs' = RootBlobs
    BY <1>1, <1>2, HostKept
  <2>3. Load(16)' = Load(16) /\ Load(16) \in Nat
    <3>1. Load(16)' = Load(16)
      BY <1>2 DEF Load
    <3>2. Load(16) \in 0 .. Modulus - 1
      BY <1>1, HostCursors
    <3> QED
      BY <3>1, <3>2, ReaderAssumption
  <2>4. Len(roots') = 0
    BY <1>2, <1>4
  <2>5. Agrees(reader, RootBlobs[Len(roots)].next)'
    BY <1>2, <1>5, <2>1, <2>2, <2>4 DEF Agrees, Clean, CursorOf
  <2> QED
    BY <1>2, <1>4, <2>1, <2>2, <2>3, <2>4, <2>5 DEF RootsAgree
<1> QED
  BY <1>2, <1>4, <1>6, <1>7 DEF Agreement, DefinitionsAgree, FilesAgree, Verdict

(* and in the three lists.                                                   *)
LEMMA TextRead ==
  ASSUME storage \in Storages, NEW r, Inside(r), NEW allocated \in Allocated
  PROVE  /\ ReadText(r, allocated).text \in Texts
         /\ r.error => ReadText(r, allocated).reader.error
         /\ Clean(ReadText(r, allocated).reader) => Clean(r)
<1> DEFINE u == ReadWord(r)
           size == u.value
           at == u.reader.position
           t == ReadText(r, allocated)
<1>1. size \in 0 .. Modulus - 1 /\ Inside(u.reader) /\ size \in Nat /\ at \in Nat
  BY WordInside, ReaderAssumption DEF Inside
<1>2. t.text \in {NoText, [NoText EXCEPT !.length = size], TextAt(at, size)}
  BY DEF ReadText
<1>3. NoText \in Texts /\ TextAt(at, size) \in Texts
  BY <1>1, NoTextIs, TextIs
<1>4. [NoText EXCEPT !.length = size] \in Texts
  <2> HIDE DEF size
  <2> QED
    BY <1>1, NoTextIs DEF Texts
<1>5. t.text \in Texts
  <2> HIDE DEF size, at, t
  <2> QED
    BY <1>2, <1>3, <1>4
<1>6. Clean(t.reader) => Clean(r)
  BY StaysFailed
<1>7. r.error => t.reader.error
  <2> SUFFICES ASSUME r.error PROVE t.reader.error
    OBVIOUS
  <2>1. Agrees(r, Bad)
    BY AgreesWithBad DEF Clean
  <2> QED
    BY <2>1, BadIs, TextAgrees
<1> QED
  BY <1>5, <1>6, <1>7

LEMMA ReadRootAgrees ==
  ASSUME IInv, Agreement, NEW allocated \in Allocated, ReadRoot(allocated)
  PROVE  Agreement'
<1> DEFINE t == ReadText(reader, allocated)
           k == Len(roots)
<1>1. storage \in Storages /\ Inside(reader)
  BY DEF IInv
<1>2. /\ stage = "roots" /\ stage' = "roots" /\ storage' = storage /\ header' = header
      /\ k < RootCount /\ ~ reader.error /\ reader' = t.reader
      /\ roots' = Append(roots, t.text)
      /\ definitions' = definitions /\ files' = files /\ status' = status
  BY DEF ReadRoot
<1>3. Load(16) \in 0 .. Modulus - 1 /\ k < Load(16)
  BY <1>1, <1>2, HostCursors, Counts
<1>4. /\ roots \in Seq(Texts) /\ k \in Nat
      /\ Agrees(reader, RootBlobs[k].next)
      /\ Clean(reader) => roots = RootBlobs[k].texts
  BY <1>2 DEF Agreement, RootsAgree
<1>5. k \in 0 .. Modulus - 1 /\ k + 1 <= Load(16)
  BY <1>3, <1>4, ReaderAssumption
<1>6. /\ t.text \in Texts /\ (reader.error => t.reader.error)
      /\ Clean(t.reader) => Clean(reader)
  BY <1>1, TextRead
<1> HIDE DEF t, k
<1>7. /\ Agrees(t.reader, RootBlobs[k + 1].next)
      /\ Clean(t.reader) => Append(roots, t.text) = RootBlobs[k + 1].texts
  <2>1. /\ Agrees(reader, Blobs(HostHeader)[k].next)
        /\ Clean(reader) => roots = Blobs(HostHeader)[k].texts
    BY <1>4, Zenon DEF RootBlobs
  <2>2. HostHeader \in Cursors
    BY <1>1, HostCursors
  <2>3. /\ Agrees(t.reader, Blobs(HostHeader)[k + 1].next)
        /\ Clean(t.reader) => Append(roots, t.text) = Blobs(HostHeader)[k + 1].texts
    BY <1>1, <1>5, <2>1, <2>2, BlobRead, Zenon DEF t
  <2> QED
    BY <2>3, Zenon DEF RootBlobs
<1>8. roots' \in Seq(Texts) /\ Len(roots') = k + 1
  BY <1>2, <1>4, <1>6 DEF k
<1>9. RootBlobs' = RootBlobs /\ Load(16)' = Load(16)
  <2>1. Load(16)' = Load(16)
    BY <1>2 DEF Load
  <2> QED
    BY <1>1, <1>2, <2>1, HostKept
<1>10. RootsAgree'
  <2>1. Agrees(reader, RootBlobs[Len(roots)].next)'
    BY <1>2, <1>7, <1>8, <1>9 DEF Agrees, Clean, CursorOf
  <2>2. Clean(reader)' => roots' = RootBlobs'[Len(roots')].texts
    BY <1>2, <1>7, <1>8, <1>9 DEF Clean
  <2> QED
    BY <1>2, <1>5, <1>8, <1>9, <2>1, <2>2 DEF RootsAgree
<1>11. HeaderAgrees'
  <2>1. Len(header) = HeaderSize
    BY <1>2 DEF Agreement, HeaderAgrees
  <2> QED
    BY <1>2, <1>6, <2>1, HeaderStays
<1> QED
  BY <1>2, <1>10, <1>11 DEF Agreement, DefinitionsAgree, FilesAgree, Verdict

LEMMA ReadDefinitionAgrees ==
  ASSUME IInv, Agreement, NEW allocated \in Allocated, ReadDefinition(allocated)
  PROVE  Agreement'
<1> DEFINE t == ReadText(reader, allocated)
           k == Len(definitions)
<1>1. storage \in Storages /\ Inside(reader)
  BY DEF IInv
<1>2. /\ stage = "definitions" /\ stage' = "definitions" /\ storage' = storage
      /\ header' = header /\ k < DefinitionCount /\ ~ reader.error /\ reader' = t.reader
      /\ definitions' = Append(definitions, t.text)
      /\ roots' = roots /\ files' = files /\ status' = status
  BY DEF ReadDefinition
<1>3. Load(20) \in 0 .. Modulus - 1 /\ k < Load(20)
  BY <1>1, <1>2, HostCursors, Counts
<1>4. /\ definitions \in Seq(Texts) /\ k \in Nat
      /\ Agrees(reader, DefinitionBlobs[k].next)
      /\ Clean(reader) => definitions = DefinitionBlobs[k].texts
  BY <1>2 DEF Agreement, DefinitionsAgree
<1>5. k \in 0 .. Modulus - 1 /\ k + 1 <= Load(20)
  BY <1>3, <1>4, ReaderAssumption
<1>6. /\ t.text \in Texts /\ (reader.error => t.reader.error)
      /\ Clean(t.reader) => Clean(reader)
  BY <1>1, TextRead
<1> HIDE DEF t, k
<1>7. /\ Agrees(t.reader, DefinitionBlobs[k + 1].next)
      /\ Clean(t.reader) => Append(definitions, t.text) = DefinitionBlobs[k + 1].texts
  <2>1. /\ Agrees(reader, Blobs(HostRoots.next)[k].next)
        /\ Clean(reader) => definitions = Blobs(HostRoots.next)[k].texts
    BY <1>4, Zenon DEF DefinitionBlobs
  <2>2. HostRoots.next \in Cursors
    BY <1>1, HostCursors
  <2>3. /\ Agrees(t.reader, Blobs(HostRoots.next)[k + 1].next)
        /\ Clean(t.reader) => Append(definitions, t.text) = Blobs(HostRoots.next)[k + 1].texts
    BY <1>1, <1>5, <2>1, <2>2, BlobRead, Zenon DEF t
  <2> QED
    BY <2>3, Zenon DEF DefinitionBlobs
<1>8. definitions' \in Seq(Texts) /\ Len(definitions') = k + 1
  BY <1>2, <1>4, <1>6 DEF k
<1>9. DefinitionBlobs' = DefinitionBlobs /\ Load(20)' = Load(20) /\ HostRoots' = HostRoots
  <2>1. Load(20)' = Load(20)
    BY <1>2 DEF Load
  <2> QED
    BY <1>1, <1>2, <2>1, HostKept
<1>10. DefinitionsAgree'
  <2>1. Agrees(reader, DefinitionBlobs[Len(definitions)].next)'
    BY <1>2, <1>7, <1>8, <1>9 DEF Agrees, Clean, CursorOf
  <2>2. Clean(reader)' => definitions' = DefinitionBlobs'[Len(definitions')].texts
    BY <1>2, <1>7, <1>8, <1>9 DEF Clean
  <2> QED
    BY <1>2, <1>5, <1>8, <1>9, <2>1, <2>2 DEF DefinitionsAgree
<1>11. HeaderAgrees'
  <2>1. Len(header) = HeaderSize
    BY <1>2 DEF Agreement, HeaderAgrees
  <2> QED
    BY <1>2, <1>6, <2>1, HeaderStays
<1>12. RootsAgree'
  <2>1. Clean(reader') => Clean(reader)
    BY <1>2, <1>6
  <2> QED
    BY <1>2, <1>9, <2>1 DEF Agreement, RootsAgree, Clean
<1> QED
  BY <1>2, <1>10, <1>11, <1>12 DEF Agreement, FilesAgree, Verdict

LEMMA FileStays ==
  ASSUME IInv, NEW p \in Allocated, NEW q \in Allocated, ReadFile(p, q)
  PROVE  /\ reader.error => reader'.error
         /\ Clean(reader') => Clean(reader)
         /\ \E record \in FileRecords : files' = Append(files, record)
<1> DEFINE kind == ReadWord(reader)
           checked == Check(kind.reader, kind.value \in {1, 2})
           path == ReadText(checked, p)
           contents == ReadText(path.reader, q)
           record == [kind |-> kind.value, path |-> path.text, contents |-> contents.text]
<1>1. storage \in Storages /\ Inside(reader)
  BY DEF IInv
<1>2. /\ Inside(kind.reader) /\ kind.value \in 0 .. Modulus - 1
      /\ reader.error => kind.reader.error
      /\ Clean(kind.reader) => Clean(reader)
  <2>1. ~ Clean(reader) => Agrees(reader, Bad)
    BY AgreesWithBad
  <2>2. /\ reader.error => Agrees(reader, Bad)
    BY AgreesWithBad DEF Clean
  <2> QED
    BY <1>1, <2>1, <2>2, BadIs, WordInside, WordAgrees
<1>3. p \in BOOLEAN /\ q \in BOOLEAN
  BY DEF Allocated
<1>4. reader' = contents.reader /\ files' = Append(files, record)
  BY DEF ReadFile
<1> HIDE DEF kind
<1>5. /\ Inside(checked) /\ (kind.reader.error => checked.error)
      /\ Clean(checked) => Clean(kind.reader)
  <2>1. Inside(checked)
    <3>1. (kind.value \in {1, 2}) \in BOOLEAN
      OBVIOUS
    <3> QED
      BY <1>2, <3>1, CheckInside
  <2>2. Failed(kind.reader).error
    BY <1>2 DEF Failed, Inside
  <2>3. checked = kind.reader \/ checked = Failed(kind.reader)
    BY DEF Check
  <2> HIDE DEF checked
  <2> QED
    BY <2>1, <2>2, <2>3 DEF Clean
<1> HIDE DEF checked
<1>6. /\ Inside(path.reader) /\ path.text \in Texts
      /\ checked.error => path.reader.error
      /\ Clean(path.reader) => Clean(checked)
  BY <1>1, <1>3, <1>5, TextInside, TextRead
<1> HIDE DEF path
<1>7. /\ contents.text \in Texts
      /\ path.reader.error => contents.reader.error
      /\ Clean(contents.reader) => Clean(path.reader)
  BY <1>1, <1>6, TextRead
<1> HIDE DEF contents
<1>8. record \in FileRecords
  BY <1>2, <1>6, <1>7 DEF FileRecords
<1> HIDE DEF record
<1> QED
  BY <1>2, <1>4, <1>5, <1>6, <1>7, <1>8

LEMMA ReadFileAgrees ==
  ASSUME IInv, Agreement, NEW p \in Allocated, NEW q \in Allocated, ReadFile(p, q)
  PROVE  Agreement'
<1> DEFINE k == Len(files)
<1>1. storage \in Storages /\ Inside(reader)
  BY DEF IInv
<1>2. /\ stage = "files" /\ stage' = "files" /\ storage' = storage
      /\ header' = header /\ k < FileCount /\ ~ reader.error
      /\ roots' = roots /\ definitions' = definitions /\ status' = status
  BY DEF ReadFile
<1>3. Load(12) \in 0 .. Modulus - 1 /\ k < Load(12)
  BY <1>1, <1>2, HostCursors, Counts
<1>4. /\ files \in Seq(FileRecords) /\ k \in Nat
      /\ Agrees(reader, FileBlobs[k].next)
      /\ Clean(reader) => files = FileBlobs[k].files
  BY <1>2 DEF Agreement, FilesAgree
<1>5. k \in 0 .. Modulus - 1 /\ k + 1 <= Load(12)
  BY <1>3, <1>4, ReaderAssumption
<1>6. /\ reader.error => reader'.error
      /\ Clean(reader') => Clean(reader)
      /\ \E record \in FileRecords : files' = Append(files, record)
  BY FileStays
<1> HIDE DEF k
<1>7. /\ Agrees(reader', FileBlobs[k + 1].next)
      /\ Clean(reader') => files' = FileBlobs[k + 1].files
  <2> DEFINE host == HostDefinitions.next
  <2>1. /\ Agrees(reader, Files(host)[k].next)
        /\ Clean(reader) => files = Files(host)[k].files
    BY <1>4, Zenon DEF FileBlobs
  <2>2. host \in Cursors
    BY <1>1, HostCursors
  <2>3. /\ Agrees(reader', Files(host)[k + 1].next)
        /\ Clean(reader') => files' = Files(host)[k + 1].files
    BY <1>5, <2>1, <2>2, FileRead, Zenon
  <2> QED
    BY <2>3, Zenon DEF FileBlobs
<1>8. files' \in Seq(FileRecords) /\ Len(files') = k + 1
  BY <1>4, <1>6 DEF k
<1>9. /\ FileBlobs' = FileBlobs /\ Load(12)' = Load(12) /\ HostRoots' = HostRoots
      /\ HostDefinitions' = HostDefinitions
  <2>1. Load(12)' = Load(12)
    BY <1>2 DEF Load
  <2> QED
    BY <1>1, <1>2, <2>1, HostKept
<1>10. FilesAgree'
  <2>1. Agrees(reader, FileBlobs[Len(files)].next)'
    BY <1>2, <1>7, <1>8, <1>9 DEF Agrees, Clean, CursorOf
  <2>2. Clean(reader)' => files' = FileBlobs'[Len(files')].files
    BY <1>7, <1>8, <1>9 DEF Clean
  <2> QED
    BY <1>2, <1>5, <1>8, <1>9, <2>1, <2>2 DEF FilesAgree
<1>11. HeaderAgrees'
  <2>1. Len(header) = HeaderSize
    BY <1>2 DEF Agreement, HeaderAgrees
  <2> QED
    BY <1>2, <1>6, <2>1, HeaderStays
<1>12. RootsAgree' /\ DefinitionsAgree'
  BY <1>2, <1>6, <1>9 DEF Agreement, RootsAgree, DefinitionsAgree, Clean
<1> QED
  BY <1>2, <1>10, <1>11, <1>12 DEF Agreement, Verdict

(* A loop that ends leaves the decoder where the next begins.                *)
LEMMA LoopEndsAgrees ==
  ASSUME IInv, Agreement, LoopEnds
  PROVE  Agreement'
<1>1. storage \in Storages /\ Inside(reader)
  BY DEF IInv
<1>2. /\ storage' = storage /\ reader' = reader /\ header' = header /\ roots' = roots
      /\ definitions' = definitions /\ files' = files /\ status' = status
      /\ stage # "header" /\ stage' # "header" /\ stage # "done" /\ stage' # "done"
  BY DEF LoopEnds
<1>3. /\ Load(16) \in 0 .. Modulus - 1 /\ Load(20) \in 0 .. Modulus - 1
      /\ Load(12) \in 0 .. Modulus - 1
      /\ HostHeader \in Cursors /\ HostRoots.next \in Cursors /\ HostDefinitions.next \in Cursors
  BY <1>1, HostCursors
<1>4. /\ HostRoots' = HostRoots /\ HostDefinitions' = HostDefinitions /\ HostFiles' = HostFiles
      /\ DefinitionBlobs' = DefinitionBlobs /\ FileBlobs' = FileBlobs
      /\ Load(20)' = Load(20) /\ Load(12)' = Load(12)
  <2>1. Load(20)' = Load(20) /\ Load(12)' = Load(12)
    BY <1>2 DEF Load
  <2> QED
    BY <1>1, <1>2, <2>1, HostKept
<1>5. HeaderAgrees'
  <2>1. Len(header) = HeaderSize
    BY <1>2 DEF Agreement, HeaderAgrees
  <2> QED
    BY <1>2, <2>1, HeaderStays
<1>6. status' = "reading" /\ Verdict'
  BY <1>2 DEF Agreement, Verdict
<1>7. /\ roots \in Seq(Texts) /\ definitions \in Seq(Texts) /\ files \in Seq(FileRecords)
      /\ Len(roots) \in Nat /\ Len(definitions) \in Nat /\ Len(files) \in Nat
  BY DEF Agreement, RootsAgree, DefinitionsAgree, FilesAgree
<1>8. \A m \in Nat, n \in 0 .. Modulus - 1 : m <= n => m \in 0 .. n
  OBVIOUS
<1>9. CASE stage = "roots" /\ stage' = "definitions"
  <2>1. /\ Len(roots) \in 0 .. Load(16)
        /\ Agrees(reader, RootBlobs[Len(roots)].next)
        /\ Clean(reader) => roots = RootBlobs[Len(roots)].texts
        /\ definitions = << >> /\ files = << >>
    BY <1>3, <1>7, <1>8, <1>9 DEF Agreement, RootsAgree, DefinitionsAgree, FilesAgree
  <2>2. reader.error \/ Len(roots) = Load(16)
    BY <1>2, <1>9, Counts DEF LoopEnds
  <2>3. Agrees(reader, Blobs(HostHeader)[Len(roots)].next)
    BY <2>1, Zenon DEF RootBlobs
  <2>4. Agrees(reader, HostRoots.next) /\ (Clean(reader) => roots = HostRoots.texts)
    <3>1. /\ Agrees(reader, PyBlobs(Load(16), HostHeader).next)
          /\ Clean(reader) =>
               PyBlobs(Load(16), HostHeader).texts = Blobs(HostHeader)[Len(roots)].texts
      BY <1>1, <1>3, <2>1, <2>2, <2>3, BlobsEnd
    <3> QED
      BY <2>1, <3>1, Zenon DEF HostRoots, RootBlobs
  <2>5. RootsAgree'
    BY <1>2, <1>4, <1>7, <1>9, <2>4 DEF RootsAgree, Clean
  <2>6. /\ DefinitionBlobs[0].next = HostRoots.next
        /\ DefinitionBlobs[0].texts = << >>
    BY <1>1, <1>3, NothingRead, Zenon DEF DefinitionBlobs
  <2>7. Len(definitions) = 0 /\ 0 <= Load(20)
    BY <1>3, <2>1, ReaderAssumption
  <2>8. DefinitionsAgree'
    <3>1. Agrees(reader, DefinitionBlobs[Len(definitions)].next)'
      BY <1>2, <1>4, <2>4, <2>6, <2>7 DEF Agrees, Clean, CursorOf
    <3> QED
      BY <1>2, <1>4, <1>7, <1>9, <2>1, <2>6, <2>7, <3>1 DEF DefinitionsAgree
  <2>9. FilesAgree'
    BY <1>2, <1>7, <1>9, <2>1 DEF FilesAgree
  <2> QED
    BY <1>5, <1>6, <1>9, <2>5, <2>8, <2>9 DEF Agreement
<1>10. CASE stage = "definitions" /\ stage' = "files"
  <2>1. /\ Len(definitions) \in 0 .. Load(20)
        /\ Agrees(reader, DefinitionBlobs[Len(definitions)].next)
        /\ Clean(reader) => definitions = DefinitionBlobs[Len(definitions)].texts
        /\ files = << >>
    BY <1>3, <1>7, <1>8, <1>10 DEF Agreement, DefinitionsAgree, FilesAgree
  <2>2. reader.error \/ Len(definitions) = Load(20)
    BY <1>2, <1>10, Counts DEF LoopEnds
  <2>3. Agrees(reader, Blobs(HostRoots.next)[Len(definitions)].next)
    BY <2>1, Zenon DEF DefinitionBlobs
  <2>4. /\ Agrees(reader, HostDefinitions.next)
        /\ Clean(reader) => definitions = HostDefinitions.texts
    <3>1. /\ Agrees(reader, PyBlobs(Load(20), HostRoots.next).next)
          /\ Clean(reader) => PyBlobs(Load(20), HostRoots.next).texts
                                = Blobs(HostRoots.next)[Len(definitions)].texts
      BY <1>1, <1>3, <2>1, <2>2, <2>3, BlobsEnd
    <3> QED
      BY <2>1, <3>1, Zenon DEF HostDefinitions, DefinitionBlobs
  <2>5. RootsAgree' /\ DefinitionsAgree'
    BY <1>2, <1>4, <1>7, <1>10, <2>4 DEF Agreement, RootsAgree, DefinitionsAgree, Clean
  <2>6. /\ FileBlobs[0].next = HostDefinitions.next
        /\ FileBlobs[0].files = << >>
    BY <1>1, <1>3, NothingRead, Zenon DEF FileBlobs
  <2>7. Len(files) = 0 /\ 0 <= Load(12)
    BY <1>3, <2>1, ReaderAssumption
  <2>8. FilesAgree'
    <3>1. Agrees(reader, FileBlobs[Len(files)].next)'
      BY <1>2, <1>4, <2>4, <2>6, <2>7 DEF Agrees, Clean, CursorOf
    <3> QED
      BY <1>2, <1>4, <1>7, <1>10, <2>1, <2>6, <2>7, <3>1 DEF FilesAgree
  <2> QED
    BY <1>5, <1>6, <1>10, <2>5, <2>8 DEF Agreement
<1>11. CASE stage = "files" /\ stage' = "check"
  <2>1. /\ Len(files) \in 0 .. Load(12)
        /\ Agrees(reader, FileBlobs[Len(files)].next)
        /\ Clean(reader) => files = FileBlobs[Len(files)].files
    BY <1>3, <1>7, <1>8, <1>11 DEF Agreement, FilesAgree
  <2>2. reader.error \/ Len(files) = Load(12)
    BY <1>2, <1>11, Counts DEF LoopEnds
  <2>3. Agrees(reader, Files(HostDefinitions.next)[Len(files)].next)
    BY <2>1, Zenon DEF FileBlobs
  <2>4. Agrees(reader, HostFiles.next) /\ (Clean(reader) => files = HostFiles.files)
    <3>1. /\ Agrees(reader, PyFiles(Load(12), HostDefinitions.next).next)
          /\ Clean(reader) => PyFiles(Load(12), HostDefinitions.next).files
                                = Files(HostDefinitions.next)[Len(files)].files
      BY <1>1, <1>3, <2>1, <2>2, <2>3, FilesEnd
    <3> QED
      BY <2>1, <3>1, Zenon DEF HostFiles, FileBlobs
  <2>5. RootsAgree' /\ DefinitionsAgree'
    BY <1>2, <1>4, <1>11 DEF Agreement, RootsAgree, DefinitionsAgree, Clean
  <2>6. FilesAgree'
    <3>1. Agrees(reader, HostFiles.next)'
      BY <1>2, <1>4, <2>4 DEF Agrees, Clean, CursorOf
    <3> QED
      BY <1>2, <1>4, <1>7, <1>11, <2>4, <3>1 DEF FilesAgree, Clean
  <2> QED
    BY <1>5, <1>6, <1>11, <2>5, <2>6 DEF Agreement
<1> QED
  BY <1>9, <1>10, <1>11 DEF LoopEnds

LEMMA UnchangedAgrees ==
  ASSUME IInv, Agreement, UNCHANGED <<storage, reader, header, roots, definitions, files>>,
         \/ stage' = stage /\ status' = status
         \/ Finish
  PROVE  Agreement'
<1>1. storage \in Storages
  BY DEF IInv
<1>2. /\ storage' = storage /\ reader' = reader /\ header' = header /\ roots' = roots
      /\ definitions' = definitions /\ files' = files
  OBVIOUS
<1>3. /\ HostHeader' = HostHeader /\ HostRoots' = HostRoots
      /\ HostDefinitions' = HostDefinitions /\ HostFiles' = HostFiles
      /\ RootBlobs' = RootBlobs /\ DefinitionBlobs' = DefinitionBlobs /\ FileBlobs' = FileBlobs
      /\ Load(16)' = Load(16) /\ Load(20)' = Load(20) /\ Load(12)' = Load(12)
  <2>1. Load(16)' = Load(16) /\ Load(20)' = Load(20) /\ Load(12)' = Load(12)
    BY <1>2 DEF Load
  <2> QED
    BY <1>1, <1>2, <2>1, HostKept
<1>4. /\ stage \in {"header", "roots", "definitions", "files", "check", "done"}
      /\ \/ stage' = stage /\ status' = status
         \/ /\ stage = "check" /\ stage' = "done"
            /\ status' = IF \/ reader.error \/ reader.position # storage.length
                            \/ SourceCount(files) = 0
                           THEN "invalid" ELSE "ok"
  BY DEF Agreement, Finish
<1>5. HeaderAgrees'
  <2>1. HeaderCursor(Len(header))' = HeaderCursor(Len(header))
    BY <1>2 DEF HeaderCursor, Load, Expected, Bad
  <2>2. \A i \in 1 .. Len(header) : Load(4 * (i - 1))' = Load(4 * (i - 1))
    BY <1>2 DEF Load
  <2>3. Agrees(reader, HeaderCursor(Len(header)))' <=> Agrees(reader, HeaderCursor(Len(header)))
    BY <1>2, <2>1 DEF Agrees, Clean, CursorOf
  <2> QED
    BY <1>2, <1>4, <2>2, <2>3 DEF Agreement, HeaderAgrees, HeaderSize
<1>6. RootsAgree'
  <2>1. Agrees(reader, RootBlobs[Len(roots)].next)'
          <=> Agrees(reader, RootBlobs[Len(roots)].next)
    BY <1>2, <1>3 DEF Agrees, Clean, CursorOf
  <2> QED
    BY <1>2, <1>3, <1>4, <2>1 DEF Agreement, RootsAgree, Clean
<1>7. DefinitionsAgree'
  <2>1. Agrees(reader, DefinitionBlobs[Len(definitions)].next)'
          <=> Agrees(reader, DefinitionBlobs[Len(definitions)].next)
    BY <1>2, <1>3 DEF Agrees, Clean, CursorOf
  <2> QED
    BY <1>2, <1>3, <1>4, <2>1 DEF Agreement, DefinitionsAgree, Clean
<1>8. FilesAgree'
  <2>1. Agrees(reader, FileBlobs[Len(files)].next)'
          <=> Agrees(reader, FileBlobs[Len(files)].next)
    BY <1>2, <1>3 DEF Agrees, Clean, CursorOf
  <2>2. Agrees(reader, HostFiles.next)' <=> Agrees(reader, HostFiles.next)
    BY <1>2, <1>3 DEF Agrees, Clean, CursorOf
  <2> QED
    BY <1>2, <1>3, <1>4, <2>1, <2>2 DEF Agreement, FilesAgree, Clean
<1>9. Verdict'
  <2>1. SourceCount(files)' = SourceCount(files)
    BY <1>2
  <2> QED
    BY <1>2, <1>4, <2>1 DEF Agreement, Verdict
<1> QED
  BY <1>4, <1>5, <1>6, <1>7, <1>8, <1>9 DEF Agreement

LEMMA StepAgrees == IInv /\ Agreement /\ [Next]_vars => Agreement'
<1> SUFFICES ASSUME IInv, Agreement, [Next]_vars PROVE Agreement'
  OBVIOUS
<1>1. CASE ReadHeader
  BY <1>1, ReadHeaderAgrees
<1>2. ASSUME NEW ok \in Allocated, AllocateTables(ok) PROVE Agreement'
  BY <1>2, AllocateTablesAgrees
<1>3. ASSUME NEW ok \in Allocated, ReadRoot(ok) PROVE Agreement'
  BY <1>3, ReadRootAgrees
<1>4. ASSUME NEW ok \in Allocated, ReadDefinition(ok) PROVE Agreement'
  BY <1>4, ReadDefinitionAgrees
<1>5. ASSUME NEW p \in Allocated, NEW q \in Allocated, ReadFile(p, q) PROVE Agreement'
  BY <1>5, ReadFileAgrees
<1>6. CASE LoopEnds
  BY <1>6, LoopEndsAgrees
<1>7. CASE Finish
  <2>1. UNCHANGED <<storage, reader, header, roots, definitions, files>>
    BY <1>7 DEF Finish
  <2> QED
    BY <1>7, <2>1, UnchangedAgrees
<1>8. CASE UNCHANGED vars
  <2>1. UNCHANGED <<storage, reader, header, roots, definitions, files, stage, status>>
    BY <1>8 DEF vars
  <2> QED
    BY <2>1, UnchangedAgrees
<1> QED
  BY <1>1, <1>2, <1>3, <1>4, <1>5, <1>6, <1>7, <1>8 DEF Next

(* At every moment of the reading the host's decoder, run over the same      *)
(* words, is where the reader is and has read what the reader has, unless    *)
(* the reader failed; and then the decoder failed too, or memory ran out.    *)
THEOREM AgreementInvariance == Spec => [](IInv /\ Agreement)
<1>1. Init => IInv /\ Agreement
  BY InitInside, InitAgrees
<1>2. IInv /\ Agreement /\ [Next]_vars => (IInv /\ Agreement)'
  BY StepInside, StepAgrees
<1> QED
  BY <1>1, <1>2, PTL DEF Spec

LEMMA Finished ==
  ASSUME IInv, Agreement, stage = "done"
  PROVE  /\ Agrees(reader, HostFiles.next)
         /\ Clean(reader) => /\ roots = HostRoots.texts /\ definitions = HostDefinitions.texts
                             /\ files = HostFiles.files
         /\ status = "ok" <=> /\ ~ reader.error /\ reader.position = storage.length
                              /\ SourceCount(files) # 0
         /\ HostFiles.next.ok => HostHeader.ok
<1>1. storage \in Storages
  BY DEF IInv
<1> QED
  BY <1>1, HostCursors DEF Agreement, RootsAgree, DefinitionsAgree, FilesAgree, Verdict

(* What the self-hosted compiler accepts without having passed over a length *)
(* that cannot be padded, the host's decoder accepts, and both read the same *)
(* project, for every content of storage and every width of the integers     *)
(* (compiler.c:61-75, 356-358, project.py decode_project).                   *)
THEOREM AcceptsOnlyProjectsTheorem == Spec => []AcceptsOnlyProjects
<1>1. IInv /\ Agreement => AcceptsOnlyProjects
  <2> SUFFICES ASSUME IInv, Agreement, status = "ok", ~ reader.skipped
               PROVE  /\ Decoded.ok /\ roots = Decoded.roots
                      /\ definitions = Decoded.definitions /\ files = Decoded.files
    BY DEF AcceptsOnlyProjects
  <2>1. storage \in Storages
    BY DEF IInv
  <2>2. stage = "done"
    BY DEF Agreement, Verdict
  <2>3. Clean(reader) /\ reader.position = storage.length
    BY <2>2, Finished DEF Clean
  <2>4. HostFiles.next = [position |-> storage.length, ok |-> TRUE] /\ HostHeader.ok
    BY <2>2, <2>3, Finished DEF Agrees, CursorOf
  <2> QED
    BY <2>1, <2>2, <2>3, <2>4, Finished, DecodedIs
<1> QED
  BY <1>1, AgreementInvariance, PTL

(* What the host's decoder accepts with a source file in it, the self-hosted *)
(* compiler accepts and reads as the same project, unless an allocation may  *)
(* fail (compiler.c:317-358).                                                *)
THEOREM ReadsWhatThePackerWroteTheorem == Spec => []ReadsWhatThePackerWrote
<1>1. IInv /\ Agreement => ReadsWhatThePackerWrote
  <2> SUFFICES ASSUME IInv, Agreement, stage = "done", ~ storage.scarce, Decoded.ok,
                      SourceCount(Decoded.files) > 0
               PROVE  /\ status = "ok" /\ roots = Decoded.roots
                      /\ definitions = Decoded.definitions /\ files = Decoded.files
    BY DEF ReadsWhatThePackerWrote
  <2>1. storage \in Storages
    BY DEF IInv
  <2>2. HostHeader.ok /\ HostFiles.next.ok /\ HostFiles.next.position = storage.length
    BY <2>1, DecodedIs
  <2>3. Clean(reader) /\ reader.position = storage.length
    BY <2>2, Finished DEF Agrees, CursorOf
  <2>4. roots = Decoded.roots /\ definitions = Decoded.definitions /\ files = Decoded.files
    BY <2>1, <2>2, <2>3, Finished, DecodedIs
  <2>5. SourceCount(files) # 0
    BY <2>4
  <2> QED
    BY <2>3, <2>4, <2>5, Finished DEF Clean
<1> QED
  BY <1>1, AgreementInvariance, PTL

=============================================================================
