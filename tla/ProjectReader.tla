--------------------------- MODULE ProjectReader ---------------------------
(***************************************************************************)
(* How the self-hosted compiler reads a DCP1 project out of persistent      *)
(* storage, the reader of selfhost/src/compiler.c, against the decoder the  *)
(* host tools use, decode_project in symphony/project.py.                   *)
(*                                                                          *)
(* Storage is a sequence of words and addresses are bytes, the project      *)
(* starting at address 0.  Unsigned integers are 0 .. Modulus-1.  A text is *)
(* its length and its words, the last of them with its padding; what the    *)
(* characters are, UTF-8 and path spelling included, is left out.           *)
(***************************************************************************)
EXTENDS Naturals, Sequences, SequencesExt

CONSTANTS
  Modulus,   \* unsigned int is 0 .. Modulus-1, a multiple of 4
  Magic,     \* the word "DCP1"
  Version,   \* 1
  Storages,  \* the [words, length, scarce] a control block may describe, the last for
             \* a machine in which an allocation may fail
  Limit      \* the largest alignable size, 0xfffffffc

ASSUME ReaderAssumption ==
  /\ Modulus \in Nat /\ Modulus % 4 = 0
  /\ Limit = Modulus - 4
  /\ Storages \subseteq [words : Seq(0 .. Modulus - 1), length : 0 .. Modulus - 1,
                          scarce : BOOLEAN]

VARIABLES
  storage,      \* [words, length, scarce]: the persistent words, project_byte_length
  reader,       \* [position, error, touched, skipped]: the addresses loaded, and
                \* whether a size was too large to be padded
  stage,        \* "header", "roots", "definitions", "files", "check", "done"
  header,       \* the words of the header that have been read
  roots, definitions, files,  \* what has been read
  status        \* "reading", "ok" or "invalid"

vars == <<storage, reader, stage, header, roots, definitions, files, status>>

-----------------------------------------------------------------------------
(* persistent_load; past the stored words the device reads as zero.         *)
Load(address) ==
  LET w == (address \div 4) + 1
  IN  IF w \in DOMAIN storage.words THEN storage.words[w] ELSE 0

Failed(r) == [r EXCEPT !.error = TRUE]

(* n bytes further on, with some addresses loaded.                          *)
Moved(r, n, loaded) == [r EXCEPT !.position = @ + n, !.touched = @ \cup loaded]

(* dyn_project_u32: the word read and the reader after it.                  *)
ReadWord(r) ==
  IF r.position > storage.length \/ storage.length - r.position < 4
    THEN [value |-> 0, reader |-> Failed(r)]
    ELSE [value |-> Load(r.position),
          reader |-> Moved(r, 4, {r.position})]

NoText == [length |-> 0, words |-> << >>]

(* The words at `address` that hold `length` bytes.                         *)
TextAt(address, length) ==
  [length |-> length,
   words |-> [k \in 1 .. (length + 3) \div 4 |-> Load(address + 4 * (k - 1))]]

Addresses(address, length) == {a \in address .. address + length - 1 : a % 4 = 0}

(* Mutant: the size is rounded down.                                        *)
PaddedDown(size) == size - (size % 4)

(* (size + 3) & ~3 in unsigned arithmetic.                                  *)
Padded(size) == LET m == (size + 3) % Modulus IN m - (m % 4)

(* Mutant: the size is not compared with the largest alignable one.         *)
ReadTextUnguarded(r, allocated) ==
  LET size == ReadWord(r)
      padded == Padded(size.value)
      at == size.reader.position
  IN  IF size.reader.error
        THEN [text |-> NoText, reader |-> size.reader]
      ELSE IF at > storage.length \/ padded > storage.length - at
        THEN [text |-> NoText, reader |-> Failed(size.reader)]
      ELSE IF ~ allocated
        THEN [text |-> [NoText EXCEPT !.length = size.value],
              reader |-> Failed(Moved(size.reader, padded, {}))]
        ELSE [text |-> TextAt(at, size.value),
              reader |-> Moved(size.reader, padded, Addresses(at, size.value))]

(* Mutant: a text malloc has no storage for is left out.                    *)
ReadTextOrNull(r, allocated) ==
  LET size == ReadWord(r)
      padded == Padded(size.value)
      at == size.reader.position
  IN  IF size.reader.error
        THEN [text |-> NoText, reader |-> size.reader]
      ELSE IF size.value > Limit
        THEN [text |-> NoText, reader |-> [size.reader EXCEPT !.skipped = TRUE]]
      ELSE IF at > storage.length \/ padded > storage.length - at
        THEN [text |-> NoText, reader |-> Failed(size.reader)]
      ELSE IF ~ allocated
        THEN [text |-> [NoText EXCEPT !.length = size.value],
              reader |-> Moved(size.reader, padded, {})]
        ELSE [text |-> TextAt(at, size.value),
              reader |-> Moved(size.reader, padded, Addresses(at, size.value))]

(* dyn_project_skip_blob and dyn_project_read_text.  A size too large to be *)
(* padded returns early, and nothing is marked as an error; `allocated` is  *)
(* whether malloc gives the text's storage.                                 *)
ReadText(r, allocated) ==
  LET size == ReadWord(r)
      padded == Padded(size.value)
      at == size.reader.position
  IN  IF size.reader.error
        THEN [text |-> NoText, reader |-> size.reader]
      ELSE IF size.value > Limit
        THEN [text |-> NoText, reader |-> [size.reader EXCEPT !.skipped = TRUE]]
      ELSE IF at > storage.length \/ padded > storage.length - at
        THEN [text |-> NoText, reader |-> Failed(size.reader)]
      ELSE IF ~ allocated
        THEN [text |-> [NoText EXCEPT !.length = size.value],
              reader |-> Failed(Moved(size.reader, padded, {}))]
        ELSE [text |-> TextAt(at, size.value),
              reader |-> Moved(size.reader, padded, Addresses(at, size.value))]

-----------------------------------------------------------------------------
Init ==
  /\ storage \in Storages
  /\ reader = [position |-> 0, error |-> FALSE, touched |-> {},
               skipped |-> FALSE]
  /\ stage = "header"
  /\ header = << >>
  /\ roots = << >> /\ definitions = << >> /\ files = << >>
  /\ status = "reading"

Check(r, good) == IF good THEN r ELSE Failed(r)

Allocated == IF storage.scarce THEN BOOLEAN ELSE {TRUE}

(* The six words of the header: magic, version, flags and three counts.     *)
HeaderSize == 6

Expected(k, word) ==
  /\ k = 1 => word = Magic
  /\ k = 2 => word = Version
  /\ k = 3 => word = 0

FileCount == header[4]
RootCount == header[5]
DefinitionCount == header[6]

ReadHeader ==
  LET r == ReadWord(reader)
  IN  /\ stage = "header"
      /\ Len(header) < HeaderSize
      /\ header' = Append(header, r.value)
      /\ reader' = Check(r.reader, Expected(Len(header) + 1, r.value))
      /\ UNCHANGED <<storage, stage, roots, definitions, files, status>>

(* A table is asked for when its count is not zero, and missing one is an   *)
(* error like any other.                                                    *)
AllocateTables(granted) ==
  /\ stage = "header"
  /\ Len(header) = HeaderSize
  /\ granted \/ FileCount # 0 \/ RootCount # 0 \/ DefinitionCount # 0
  /\ stage' = "roots"
  /\ reader' = Check(reader, granted)
  /\ UNCHANGED <<storage, header, roots, definitions, files, status>>

ReadRoot(allocated) ==
  LET r == ReadText(reader, allocated)
  IN  /\ stage = "roots"
      /\ Len(roots) < RootCount
      /\ ~ reader.error
      /\ reader' = r.reader
      /\ roots' = Append(roots, r.text)
      /\ UNCHANGED <<storage, stage, header, definitions, files, status>>

ReadDefinition(allocated) ==
  LET r == ReadText(reader, allocated)
  IN  /\ stage = "definitions"
      /\ Len(definitions) < DefinitionCount
      /\ ~ reader.error
      /\ reader' = r.reader
      /\ definitions' = Append(definitions, r.text)
      /\ UNCHANGED <<storage, stage, header, roots, files, status>>

(* A file record: a wrong kind is noted, and the path and the contents are  *)
(* read all the same.                                                       *)
ReadFile(pathAllocated, contentsAllocated) ==
  LET kind == ReadWord(reader)
      path == ReadText(Check(kind.reader, kind.value \in {1, 2}), pathAllocated)
      contents == ReadText(path.reader, contentsAllocated)
  IN  /\ stage = "files"
      /\ Len(files) < FileCount
      /\ ~ reader.error
      /\ reader' = contents.reader
      /\ files' = Append(files, [kind |-> kind.value, path |-> path.text,
                                 contents |-> contents.text])
      /\ UNCHANGED <<storage, stage, header, roots, definitions, status>>

(* A loop ends when everything is read or at the first error.               *)
LoopEnds ==
  /\ \/ reader.error
     \/ stage = "roots" /\ Len(roots) = RootCount
     \/ stage = "definitions" /\ Len(definitions) = DefinitionCount
     \/ stage = "files" /\ Len(files) = FileCount
  /\ \/ stage = "roots" /\ stage' = "definitions"
     \/ stage = "definitions" /\ stage' = "files"
     \/ stage = "files" /\ stage' = "check"
  /\ UNCHANGED <<storage, reader, header, roots, definitions, files, status>>

SourceCount(list) == Len(SelectSeq(list, LAMBDA f : f.kind = 1))

Finish ==
  /\ stage = "check"
  /\ stage' = "done"
  /\ status' = IF \/ reader.error
                  \/ reader.position # storage.length
                  \/ SourceCount(files) = 0
                 THEN "invalid" ELSE "ok"
  /\ UNCHANGED <<storage, reader, header, roots, definitions, files>>

Next ==
  \/ ReadHeader
  \/ \E ok \in Allocated : AllocateTables(ok)
  \/ \E ok \in Allocated : ReadRoot(ok)
  \/ \E ok \in Allocated : ReadDefinition(ok)
  \/ \E p \in Allocated, c \in Allocated : ReadFile(p, c)
  \/ LoopEnds
  \/ Finish

Spec == Init /\ [][Next]_vars

-----------------------------------------------------------------------------
(* decode_project: the host's own decoder, over the same words, without its *)
(* tests of the padding, the paths and the file order.  A cursor that ran   *)
(* off the end is Bad from there.                                           *)
Bad == [position |-> 0, ok |-> FALSE]

PyU32(c) ==
  IF ~ c.ok \/ c.position + 4 > storage.length
    THEN [value |-> 0, next |-> Bad]
    ELSE [value |-> Load(c.position), next |-> [c EXCEPT !.position = @ + 4]]

(* _Reader.blob, in unbounded integers.                                     *)
PyBlob(c) ==
  LET length == PyU32(c)
      padded == length.next.position + ((length.value + 3) \div 4) * 4
  IN  IF ~ length.next.ok \/ padded > storage.length
        THEN [text |-> NoText, next |-> Bad]
        ELSE [text |-> TextAt(length.next.position, length.value),
              next |-> [length.next EXCEPT !.position = padded]]

(* n blobs from cursor c on: the texts and the cursor after them.  A blob   *)
(* has at least a length, so more blobs than words cannot all be there.     *)
PyBlobs(n, c) ==
  LET read[k \in 0 .. Modulus] ==
        IF k = 0 THEN [texts |-> << >>, next |-> c]
        ELSE LET before == read[k-1]
                 blob == PyBlob(before.next)
             IN  [texts |-> Append(before.texts, blob.text), next |-> blob.next]
  IN  IF 4 * n > storage.length THEN [texts |-> << >>, next |-> Bad] ELSE read[n]

PyFiles(n, c) ==
  LET read[k \in 0 .. Modulus] ==
        IF k = 0 THEN [files |-> << >>, next |-> c]
        ELSE LET before == read[k-1]
                 kind == PyU32(before.next)
                 path == PyBlob(kind.next)
                 contents == PyBlob(path.next)
                 file == [kind |-> kind.value, path |-> path.text, contents |-> contents.text]
             IN  [files |-> Append(before.files, file),
                  next |-> IF kind.value \in {1, 2} THEN contents.next ELSE Bad]
  IN  IF 4 * n > storage.length THEN [files |-> << >>, next |-> Bad] ELSE read[n]

Start == [position |-> 0, ok |-> TRUE]

Decoded ==
  LET magic == PyU32(Start)
      version == PyU32(magic.next)
      flags == PyU32(version.next)
      nfiles == PyU32(flags.next)
      nroots == PyU32(nfiles.next)
      ndefs == PyU32(nroots.next)
      wellFormed == /\ ndefs.next.ok /\ magic.value = Magic
                    /\ version.value = Version /\ flags.value = 0
      rs == PyBlobs(nroots.value, ndefs.next)
      ds == PyBlobs(ndefs.value, rs.next)
      fs == PyFiles(nfiles.value, ds.next)
  IN  IF wellFormed
        THEN [ok |-> fs.next.ok /\ fs.next.position = storage.length,
              roots |-> rs.texts, definitions |-> ds.texts, files |-> fs.files]
      ELSE [ok |-> FALSE, roots |-> << >>, definitions |-> << >>, files |-> << >>]

-----------------------------------------------------------------------------
(* No load of the reader or of a text copy leaves the project, whatever the *)
(* lengths in the stream say and however the arithmetic wraps               *)
(* (compiler.c:25-59).                                                      *)
StaysInside == \A a \in reader.touched : a + 4 <= storage.length

(* A project the host tools accept is accepted, unless memory ran out, and  *)
(* read as the same project (compiler.c:317-358, project.py decode_project).*)
ReadsWhatThePackerWrote ==
  stage = "done" /\ ~ storage.scarce /\ Decoded.ok /\ SourceCount(Decoded.files) > 0 =>
    /\ status = "ok"
    /\ roots = Decoded.roots
    /\ definitions = Decoded.definitions
    /\ files = Decoded.files

(* What is accepted, unless a length too large to be padded was passed over *)
(* as an empty text (compiler.c:46), is a project of the format up to paths,*)
(* order and padding, and it was read whole: no text is missing for want of *)
(* memory, no record is cut short and nothing follows the last one          *)
(* (compiler.c:61-75, 356-358).                                             *)
AcceptsOnlyProjects ==
  status = "ok" /\ ~ reader.skipped =>
    /\ Decoded.ok
    /\ roots = Decoded.roots
    /\ definitions = Decoded.definitions
    /\ files = Decoded.files

=============================================================================
