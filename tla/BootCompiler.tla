---------------------------- MODULE BootCompiler ----------------------------
(***************************************************************************)
(* A boot of the self-hosted compiler: main.c, the driver dyn_compile_-     *)
(* project / dyn_compile_buffer of selfhost/src/compiler.c with what the    *)
(* preprocessor and the emitter allocate, and the host on the other side of *)
(* the persistent control block.                                            *)
(*                                                                          *)
(* Persistent storage survives a reset, RAM does not.  Each persistent_-    *)
(* store is a step of its own, so that a reset or a host that looks can     *)
(* fall between any two.  Any allocation may fail unless CannotFail names   *)
(* it.  Sizes are in words, but for output_capacity, which is in bytes: the *)
(* region may end inside a word.  What a project says, and what is compiled *)
(* from it, is left out: a job's image is a number of words that carry its  *)
(* name.                                                                    *)
(***************************************************************************)
EXTENDS Naturals, Sequences, FiniteSets

CONSTANTS
  Jobs,        \* how many requests the host makes
  Resets,      \* how many times the machine is reset while it works
  MaxImage,    \* largest image, in words
  OutputCapacities,  \* the output_capacity of a request, in bytes
  MaxOutput,   \* words of storage from the output address on
  Garbage,     \* what a word of storage holds that nobody wrote
  CannotFail   \* allocations that always succeed, "emitter" for dyn_emit_image's

ASSUME BootAssumption ==
  /\ Jobs \in Nat /\ Resets \in Nat
  /\ MaxImage \in Nat \ {0} /\ MaxOutput \in Nat
  /\ \A c \in OutputCapacities : c \in Nat /\ c < 4 * MaxOutput + 4
  /\ Garbage # "ok"

VARIABLES
  (* persistent storage *)
  job,      \* the request in the control block: [id, magic, valid, run, capacity]
  status,   \* DCC1 status
  outLen,   \* DCC1 output_byte_length, in words
  record,   \* the output region
  (* the machine *)
  pc,
  blocks,   \* block -> "null", "live" or "freed"
  wanted,   \* the tables whose count is not zero
  ret,      \* the status to report
  length,   \* dyn_output_length, in words
  image,    \* words of the image compiled
  index,    \* progress of a copying loop
  then,     \* where dyn_write_failure returns to
  ram,      \* what was copied to the load address
  doubleFree,
  resets

storageVars == <<job, status, outLen, record>>
machineVars == <<blocks, wanted, ret, length, image, index, then, ram, doubleFree>>
vars == <<job, status, outLen, record, pc, blocks, wanted, ret, length, image,
          index, then, ram, doubleFree, resets>>

Pending == "pending"
Running == "running"
Failures == {"input_too_large", "out_of_memory", "parse_error", "semantic_error",
             "invalid_control", "invalid_project", "output_too_small"}
Final == Failures \cup {"ok"}

(* "file_flags" is once_files and active_files, allocated and freed alike.  *)
Tables == {"files", "roots", "definitions"}
Texts == {"path", "contents"}
PreprocessorBlocks == {"macros", "file_flags", "output"}

(* The tables of dyn_compile_buffer, in groups that are tested together.    *)
ProgramTables ==
  <<{"nodes"}, {"locals"}, {"functions"}, {"globals"}, {"constants"},
    {"aliases", "enums"}, {"structs", "members", "dimensions"}>>

Block == Tables \cup Texts \cup PreprocessorBlocks \cup {"image", "global_data"}
           \cup UNION {ProgramTables[k] : k \in DOMAIN ProgramTables}

Live == {b \in Block : blocks[b] = "live"}

(* Subsets of S that may be what malloc granted.                            *)
Granted(S) == {G \in SUBSET S : S \cap CannotFail \subseteq G}

Allocate(S) == blocks' = [b \in Block |-> IF b \in S THEN "live" ELSE blocks[b]]

(* `free` on each of S; null is allowed.                                    *)
Free(S) ==
  /\ blocks' = [b \in Block |-> IF b \in S /\ blocks[b] = "live" THEN "freed" ELSE blocks[b]]
  /\ doubleFree' = (doubleFree \/ \E b \in S : blocks[b] = "freed")

Fresh == [b \in Block |-> "null"]

Init ==
  /\ job = [id |-> 0, magic |-> FALSE, valid |-> FALSE, run |-> FALSE, capacity |-> 0]
  /\ status = Garbage
  /\ outLen = 0
  /\ record = [k \in 1 .. MaxOutput |-> Garbage]
  /\ pc = "off"
  /\ blocks = Fresh
  /\ wanted = {}
  /\ ret = "ok"
  /\ length = 0 /\ image = 0 /\ index = 0
  /\ then = "report"
  /\ ram = << >>
  /\ doubleFree = FALSE
  /\ resets = 0

-----------------------------------------------------------------------------
(* The host: a new control block, status set to pending, into a machine     *)
(* that is off; what the output region held stays.  The capacity of a       *)
(* request that is refused is never read.                                   *)
Submit ==
  /\ pc = "off"
  /\ job.id < Jobs
  /\ \E magic \in BOOLEAN, valid \in BOOLEAN, run \in BOOLEAN, capacity \in OutputCapacities :
       /\ valid => magic
       /\ run => valid
       /\ job' = [id |-> job.id + 1, magic |-> magic, valid |-> valid, run |-> run,
                  capacity |-> IF valid THEN capacity ELSE 0]
  /\ status' = Pending
  /\ outLen' = 0
  /\ UNCHANGED <<record, pc, blocks, wanted, ret, length, image, index, then, ram,
                 doubleFree, resets>>

PowerOn ==
  /\ pc = "off"
  /\ job.id > 0
  /\ pc' = "main"
  /\ UNCHANGED <<storageVars, machineVars, resets>>

RamLost ==
  /\ blocks' = Fresh
  /\ wanted' = {}
  /\ ret' = "ok"
  /\ length' = 0 /\ image' = 0 /\ index' = 0
  /\ then' = "report"
  /\ ram' = << >>
  /\ doubleFree' = FALSE

(* A reset while the machine works; it comes up again with PowerOn.         *)
Reset ==
  /\ pc \notin {"off", "returned", "program"}
  /\ resets < Resets
  /\ resets' = resets + 1
  /\ pc' = "off"
  /\ RamLost
  /\ UNCHANGED storageVars

(* The host is done with the machine and turns it off.                      *)
PowerOff ==
  /\ pc \in {"returned", "program"}
  /\ pc' = "off"
  /\ RamLost
  /\ UNCHANGED <<storageVars, resets>>

-----------------------------------------------------------------------------
(* main: the two words it wants to see before it looks at anything else.    *)
ReadControl ==
  /\ pc = "main"
  /\ pc' = IF ~ job.magic THEN "returned" ELSE IF ~ job.valid THEN "refuse" ELSE "start"
  /\ ret' = IF job.magic /\ job.valid THEN "ok" ELSE "invalid_control"
  /\ UNCHANGED <<storageVars, blocks, wanted, length, image, index, then, ram,
                 doubleFree, resets>>

(* Mutant: a control block that is refused is only returned from.           *)
RefuseQuietly ==
  /\ pc = "refuse"
  /\ pc' = "returned"
  /\ UNCHANGED <<storageVars, machineVars, resets>>

RefuseControl ==
  /\ pc = "refuse"
  /\ outLen' = 0
  /\ pc' = "status"
  /\ UNCHANGED <<job, status, record, machineVars, resets>>

Start ==
  /\ pc = "start"
  /\ status' = Running
  /\ pc' = "tables"
  /\ UNCHANGED <<job, outLen, record, machineVars, resets>>

(* The three tables of dyn_compile_project; those with a zero count are not *)
(* asked for.  A bad header or a missing table is an error.                 *)
AllocateTables ==
  /\ pc = "tables"
  /\ \E asked \in SUBSET Tables, header \in BOOLEAN : \E granted \in Granted(asked) :
       /\ wanted' = asked
       /\ Allocate(granted)
       /\ pc' = IF header /\ granted = asked THEN "texts" ELSE "bad_project"
  /\ UNCHANGED <<storageVars, ret, length, image, index, then, ram, doubleFree, resets>>

(* The texts read before the first error, if any.  A good project has a     *)
(* translation unit, so a file table.                                       *)
ReadTexts ==
  /\ pc = "texts"
  /\ \E granted \in SUBSET (IF wanted = {} THEN {} ELSE Texts), good \in BOOLEAN :
       /\ good => "files" \in wanted
       /\ Allocate(granted)
       /\ pc' = IF good THEN "preprocess" ELSE "bad_project"
  /\ UNCHANGED <<storageVars, wanted, ret, length, image, index, then, ram, doubleFree,
                 resets>>

(* dyn_free_project_texts walks every table its count is not zero for, the  *)
(* ones it did not get included.                                            *)
MissingTable == \E t \in wanted : blocks[t] = "null"

Fail(code) == ret' = code /\ then' = "report" /\ pc' = "fail_zero"

BadProject ==
  /\ pc = "bad_project"
  /\ IF MissingTable
       THEN /\ pc' = "wild"
            /\ UNCHANGED <<blocks, doubleFree, ret, then>>
       ELSE Free(Texts \cup Tables) /\ Fail("invalid_project")
  /\ UNCHANGED <<storageVars, wanted, length, image, index, ram, resets>>

(* What the walk finds at address zero and beyond decides whether it comes  *)
(* back; nothing makes it.                                                  *)
WildReturns ==
  /\ pc = "wild"
  /\ Free(Texts \cup Tables)
  /\ Fail("invalid_project")
  /\ UNCHANGED <<storageVars, wanted, length, image, index, ram, resets>>

PreprocessFails ==
  /\ pc = "preprocess_failed"
  /\ Free(Texts \cup Tables)
  /\ Fail("parse_error")
  /\ UNCHANGED <<storageVars, wanted, length, image, index, ram, resets>>

(* dyn_preprocess_project: too large a project returns before allocating.   *)
PreprocessAllocates ==
  /\ pc = "preprocess"
  /\ \/ /\ pc' = "preprocess_failed"
        /\ UNCHANGED blocks
     \/ \E granted \in Granted(PreprocessorBlocks) :
          /\ Allocate(granted)
          /\ pc' = "preprocessing"
  /\ UNCHANGED <<storageVars, wanted, ret, length, image, index, then, ram, doubleFree,
                 resets>>

(* Mutant: the output buffer of a failed preprocessing is given away, as if *)
(* it were the source.                                                      *)
PreprocessKeepsOutput ==
  /\ pc = "preprocessing"
  /\ \E good \in BOOLEAN :
       /\ good => PreprocessorBlocks \subseteq Live
       /\ pc' = IF good THEN "image" ELSE "preprocess_failed"
       /\ Free(PreprocessorBlocks \ {"output"})
  /\ UNCHANGED <<storageVars, wanted, ret, length, image, index, then, ram, resets>>

(* Success keeps the output buffer, which becomes the source.               *)
Preprocess ==
  /\ pc = "preprocessing"
  /\ \E good \in BOOLEAN :
       /\ good => PreprocessorBlocks \subseteq Live
       /\ pc' = IF good THEN "image" ELSE "preprocess_failed"
       /\ Free(IF good THEN PreprocessorBlocks \ {"output"} ELSE PreprocessorBlocks)
  /\ UNCHANGED <<storageVars, wanted, ret, length, image, index, then, ram, resets>>

AllocateImage ==
  /\ pc = "image"
  /\ \/ /\ Allocate({"image"})
        /\ pc' = "buffer"
        /\ index' = 1
        /\ UNCHANGED <<ret, then, doubleFree>>
     \/ /\ "image" \notin CannotFail
        /\ Free({"output"} \cup Texts \cup Tables)
        /\ Fail("out_of_memory")
        /\ UNCHANGED index
  /\ UNCHANGED <<storageVars, wanted, length, image, ram, resets>>

Earlier(k) == UNION {ProgramTables[j] : j \in 1 .. k - 1}

(* dyn_compile_buffer: group `index` of its tables, what was granted of it  *)
(* and everything before it being freed when the group is not complete.     *)
AllocateProgram ==
  /\ pc = "buffer"
  /\ index <= Len(ProgramTables)
  /\ \E granted \in Granted(ProgramTables[index]) :
       IF granted = ProgramTables[index]
         THEN /\ Allocate(granted)
              /\ index' = index + 1
              /\ UNCHANGED <<pc, ret, doubleFree>>
         ELSE /\ Free(Earlier(index))
              /\ ret' = "out_of_memory"
              /\ pc' = "compiled"
              /\ UNCHANGED index
  /\ UNCHANGED <<storageVars, wanted, length, image, then, ram, resets>>

(* The source is too large, before anything is allocated.                   *)
RefuseSource ==
  /\ pc = "buffer"
  /\ index = 1
  /\ ret' = "input_too_large"
  /\ pc' = "compiled"
  /\ UNCHANGED <<storageVars, blocks, wanted, length, image, index, then, ram,
                 doubleFree, resets>>

(* The image buffer is as large as the source may need, cut down to the     *)
(* output region when that has room for more than the length word.  A cut   *)
(* buffer ends where the region ends: in the middle of a word if it does.   *)
ImageCut == job.capacity > 4 /\ 4 * MaxImage > job.capacity - 4

RaggedImage == ImageCut /\ job.capacity % 4 # 0

(* In words, one that is there in part counted.                             *)
ImageCapacity == IF ImageCut THEN (job.capacity - 1) \div 4 ELSE MaxImage

(* dyn_parse, which allocates the data of initialized globals, dyn_lower    *)
(* and dyn_emit_image, which frees its own tables on every way out.         *)
Compile ==
  /\ pc = "buffer"
  /\ index > Len(ProgramTables)
  /\ \E data \in SUBSET {"global_data"} : Allocate(data)
  /\ \/ /\ ret' \in {"parse_error", "semantic_error"}
        /\ image' = 0
        /\ pc' = "release_program"
     \/ /\ ret' = "ok"
        /\ image' \in 1 .. ImageCapacity
        /\ pc' = "release_program"
     \/ (* The image does not fit.  Emission goes on without storing, and a   *)
        (* loop that pads or aligns never ends if the position is then stuck  *)
        (* in the middle of a word.                                           *)
        /\ ret' = "output_too_small"
        /\ image' = ImageCapacity
        /\ \/ pc' = "release_program"
           \/ RaggedImage /\ pc' = "padding"
     \/ (* A table of the emitter is missing: an error, but the code of the  *)
        (* functions is emitted all the same, through the missing table.     *)
        /\ "emitter" \notin CannotFail
        /\ ret' = "output_too_small"
        /\ image' = ImageCapacity
        /\ pc' = "wild_emit"
  /\ UNCHANGED <<storageVars, wanted, length, index, then, ram, doubleFree, resets>>

WildEmitReturns ==
  /\ pc = "wild_emit"
  /\ pc' = "release_program"
  /\ UNCHANGED <<storageVars, machineVars, resets>>

ReleaseProgram ==
  /\ pc = "release_program"
  /\ Free({"global_data"} \cup Earlier(Len(ProgramTables) + 1))
  /\ pc' = "compiled"
  /\ UNCHANGED <<storageVars, wanted, ret, length, image, index, then, ram, resets>>

(* Mutant: the record's own length word is not counted.                     *)
CheckRecordNoPrefix ==
  /\ pc = "compiled"
  /\ length' = image + 1
  /\ index' = 0
  /\ LET code == IF ret = "ok" /\ job.capacity < 4 * image THEN "output_too_small" ELSE ret
     IN  /\ ret' = code
         /\ pc' = IF code = "ok" THEN "record" ELSE "fail_zero"
  /\ then' = "cleanup"
  /\ UNCHANGED <<storageVars, blocks, wanted, image, ram, doubleFree, resets>>

(* Back in dyn_compile_project: does the record fit?                        *)
CheckRecord ==
  /\ pc = "compiled"
  /\ length' = image + 1
  /\ index' = 0
  /\ LET code == IF ret = "ok" /\ job.capacity < 4 * (image + 1) THEN "output_too_small" ELSE ret
     IN  /\ ret' = code
         /\ pc' = IF code = "ok" THEN "record" ELSE "fail_zero"
  /\ then' = "cleanup"
  /\ UNCHANGED <<storageVars, blocks, wanted, image, ram, doubleFree, resets>>

Store(k, word) == record' = [j \in DOMAIN record \cup {k} |-> IF j = k THEN word ELSE record[j]]

LengthWord == <<job.id, "length", image>>
ImageWord(k) == <<job.id, "image", k>>

(* The length word first, then the packed words of the image.               *)
WriteRecord ==
  /\ pc = "record"
  /\ Store(index + 1, IF index = 0 THEN LengthWord ELSE ImageWord(index))
  /\ index' = index + 1
  /\ pc' = IF index = image THEN "cleanup" ELSE "record"
  /\ UNCHANGED <<job, status, outLen, blocks, wanted, ret, length, image, then, ram,
                 doubleFree, resets>>

(* dyn_write_failure: two words, as far as the region holds them.           *)
FailZero ==
  /\ pc = "fail_zero"
  /\ length' = 2
  /\ IF job.capacity >= 4 THEN Store(1, <<"zero">>) ELSE UNCHANGED record
  /\ pc' = "fail_position"
  /\ UNCHANGED <<job, status, outLen, blocks, wanted, ret, image, index, then, ram,
                 doubleFree, resets>>

FailPosition ==
  /\ pc = "fail_position"
  /\ IF job.capacity >= 8 THEN Store(2, <<"position">>) ELSE UNCHANGED record
  /\ pc' = then
  /\ UNCHANGED <<job, status, outLen, machineVars, resets>>

Cleanup ==
  /\ pc = "cleanup"
  /\ Free({"image", "output"} \cup Texts \cup Tables)
  /\ pc' = "report"
  /\ UNCHANGED <<storageVars, wanted, ret, length, image, index, then, ram, resets>>

(* Mutant: the status is written before the length it goes with.            *)
ReportStatusFirst ==
  /\ pc = "report"
  /\ status' = ret
  /\ pc' = "status"
  /\ UNCHANGED <<job, outLen, record, machineVars, resets>>

(* main again: output_byte_length, then the status.                         *)
Report ==
  /\ pc = "report"
  /\ outLen' = length
  /\ pc' = "status"
  /\ UNCHANGED <<job, status, record, machineVars, resets>>

WriteStatus ==
  /\ pc = "status"
  /\ status' = ret
  /\ pc' = IF ret = "ok" /\ job.run THEN "copy" ELSE "returned"
  /\ index' = 0
  /\ UNCHANGED <<job, outLen, record, blocks, wanted, ret, length, image, then, ram,
                 doubleFree, resets>>

(* Mutant: the copy starts at the record's length word.                     *)
CopyToRamFromLength ==
  /\ pc = "copy"
  /\ IF index < record[1][3]
       THEN /\ ram' = Append(ram, record[index + 1])
            /\ index' = index + 1
            /\ UNCHANGED pc
       ELSE /\ pc' = "program"
            /\ UNCHANGED <<ram, index>>
  /\ UNCHANGED <<storageVars, blocks, wanted, ret, length, image, then, doubleFree, resets>>

(* dyn_run_compiled_program: it reads the record back from storage.         *)
CopyToRam ==
  /\ pc = "copy"
  /\ IF index < record[1][3]
       THEN /\ ram' = Append(ram, record[index + 2])
            /\ index' = index + 1
            /\ UNCHANGED pc
       ELSE /\ pc' = "program"
            /\ UNCHANGED <<ram, index>>
  /\ UNCHANGED <<storageVars, blocks, wanted, ret, length, image, then, doubleFree, resets>>

Machine ==
  \/ ReadControl \/ RefuseControl \/ Start
  \/ AllocateTables \/ ReadTexts \/ BadProject
  \/ PreprocessAllocates \/ Preprocess \/ PreprocessFails
  \/ AllocateImage \/ AllocateProgram \/ RefuseSource \/ Compile \/ ReleaseProgram
  \/ CheckRecord \/ WriteRecord \/ FailZero \/ FailPosition \/ Cleanup
  \/ Report \/ WriteStatus \/ CopyToRam

Next == Submit \/ PowerOn \/ PowerOff \/ Reset \/ Machine \/ WildReturns \/ WildEmitReturns

Spec == Init /\ [][Next]_vars

(* The machine computes while it is on, and a machine that was reset is     *)
(* started again; that the host makes requests is nobody's promise.         *)
FairSpec == Spec /\ WF_vars(Machine) /\ WF_vars(PowerOn)

-----------------------------------------------------------------------------
(* Whenever the host finds the status of success, at any moment and after   *)
(* any reset, the whole record of this request is there, its length word    *)
(* and output_byte_length included: "Writing status last makes completion   *)
(* observable without accepting a partially written result"                *)
(* (PROJECT-FORMAT.md:94-95; main.c:65-66).                                 *)
SuccessIsComplete ==
  status = "ok" =>
    \E n \in 1 .. MaxImage :
      /\ outLen = n + 1
      /\ record[1] = <<job.id, "length", n>>
      /\ \A k \in 1 .. n : record[k + 1] = <<job.id, "image", k>>

(* Nothing past the output region of the request being answered is touched, *)
(* however small the region is (compiler.c, dyn_write_failure and the two    *)
(* capacity checks).                                                         *)
RegionKept ==
  [][\A k \in DOMAIN record' :
       4 * k > job.capacity /\ k \in DOMAIN record => record'[k] = record[k]]_vars

(* Every way out of the compiler gives back everything it allocated, each   *)
(* block once: whichever allocation failed and whatever the project was.    *)
EverythingFreed ==
  /\ pc \in {"report", "status", "returned"} => Live = {}
  /\ ~ doubleFree

(* The program that is started is the one that was compiled from the        *)
(* request, whole and in order (main.c:4-19, 67-68).                        *)
RunsWhatWasCompiled ==
  pc = "program" => ram = [k \in 1 .. image |-> ImageWord(k)]

(* A request the compiler recognises gets an answer, whatever was reset on   *)
(* the way (PROJECT-FORMAT.md:149), unless the host replaces it first, or     *)
(* the compiler is in one of the two places it may not come back from: it    *)
(* went through a table it did not get, or it pads for ever in an image      *)
(* buffer whose end, like that of the output region, is no word boundary.    *)
Answered ==
  \A j \in 1 .. Jobs :
    (job.id = j /\ job.magic /\ pc = "main")
      ~> \/ status \in Final
         \/ job.id # j
         \/ pc \in {"wild", "wild_emit"}
         \/ pc = "padding" /\ job.capacity % 4 # 0

=============================================================================
