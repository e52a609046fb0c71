--------------------------- MODULE SelfHostedProofs ---------------------------
(***************************************************************************)
(* What the self-hosted compiler promises, proved of two of its parts that  *)
(* share nothing: the boot, for every number of requests and resets, every  *)
(* size of image and output region and whichever allocations fail, and the  *)
(* image emitter, for all code and globals it may be given.                 *)
(*                                                                          *)
(* The invariant of the boot has three parts that do not need each other:   *)
(* what the words in storage are at each point of the program (Answering),  *)
(* which blocks are held there (Holding), and the sizes both rest on        *)
(* (Typed).  That of the emitter is EmitInv, in the second half.            *)
(***************************************************************************)
EXTENDS BootCompiler, Emitter, Lemmas, FiniteSetTheorems, SequenceTheorems

Typed ==
  /\ job \in [id : Nat, magic : BOOLEAN, valid : BOOLEAN, run : BOOLEAN,
              capacity : Nat]
  /\ job.capacity < 4 * MaxOutput + 4
  /\ DOMAIN record = 1 .. MaxOutput
  /\ image \in 0 .. MaxImage
  /\ index \in Nat
  /\ then \in {"report", "cleanup"}

(* The first n words of a record are in the output region.                  *)
Begun(n) ==
  /\ n >= 1 => record[1] = LengthWord
  /\ \A k \in 1 .. n - 1 : record[k + 1] = ImageWord(k)

(* The record of this request is there, and the region has room for it.     *)
Complete == image \in 1 .. MaxImage /\ image + 1 <= MaxOutput /\ Begun(image + 1)

(* Success is only ever seen while nothing is being written.                *)
Resting == {"off", "main", "start", "copy", "program", "returned"}

Answering ==
  /\ SuccessIsComplete
  /\ status = "ok" => job.magic /\ job.valid /\ pc \in Resting
  /\ pc \notin {"off", "main", "refuse", "returned", "status"} => job.magic /\ job.valid
  /\ pc = "status" /\ ret = "ok" => job.magic /\ job.valid
  /\ pc = "refuse" => ret # "ok"
  /\ pc \in {"wild_emit", "release_program", "compiled"} /\ ret = "ok" => image >= 1
  /\ pc = "record" => /\ ret = "ok" /\ image >= 1 /\ 4 * (image + 1) <= job.capacity
                      /\ length = image + 1 /\ index <= image /\ Begun(index)
  /\ pc \in {"fail_zero", "fail_position"} => ret # "ok"
  /\ pc \in {"cleanup", "report", "status"} /\ ret = "ok" =>
       Complete /\ length = image + 1
  /\ pc = "status" /\ ret = "ok" => outLen = image + 1
  /\ pc = "copy" => /\ Complete /\ index <= image
                    /\ ram = [k \in 1 .. index |-> ImageWord(k)]
  /\ pc \notin {"copy", "program"} => ram = << >>
  /\ RunsWhatWasCompiled

-----------------------------------------------------------------------------
ProgramBlocks == UNION {ProgramTables[k] : k \in DOMAIN ProgramTables}
ProjectBlocks == Tables \cup Texts
Scratch == {"macros", "file_flags"}

Freed == {b \in Block : blocks[b] = "freed"}

(* What may be held, and what may have been given back, from one point of   *)
(* the program on.                                                          *)
Held(points, mayLive, mayFreed) ==
  pc \in points => Live \subseteq mayLive /\ Freed \subseteq mayFreed

Released == Scratch \cup ProgramBlocks \cup {"global_data"}

Holding ==
  /\ blocks \in [Block -> {"null", "live", "freed"}]
  /\ doubleFree = FALSE
  /\ Held({"off", "main", "refuse", "start", "tables"}, {}, {})
  /\ Held({"texts", "bad_project", "wild", "preprocess"}, ProjectBlocks, {})
  /\ Held({"preprocessing"}, ProjectBlocks \cup PreprocessorBlocks, {})
  /\ Held({"preprocess_failed"}, ProjectBlocks, PreprocessorBlocks)
  /\ Held({"image"}, ProjectBlocks \cup {"output"}, Scratch)
  /\ pc = "buffer" => index \in 1 .. Len(ProgramTables) + 1
  /\ Held({"buffer"}, ProjectBlocks \cup {"output", "image"} \cup Earlier(index), Scratch)
  /\ Held({"wild_emit", "release_program"},
          ProjectBlocks \cup {"output", "image", "global_data"}
            \cup Earlier(Len(ProgramTables) + 1), Scratch)
  /\ Held({"compiled", "record", "cleanup"}, ProjectBlocks \cup {"output", "image"}, Released)
  /\ then = "cleanup" =>
       Held({"fail_zero", "fail_position"}, ProjectBlocks \cup {"output", "image"}, Released)
  /\ then = "report" => Held({"fail_zero", "fail_position"}, {}, Block)
  /\ Held({"report", "status", "returned"}, {}, Block)

IInv == Typed /\ Answering /\ Holding

-----------------------------------------------------------------------------
(* The image buffer has no more room than the source may need, and some.     *)
LEMMA ImageRoom ==
  ASSUME Typed
  PROVE  ImageCapacity \in 1 .. MaxImage
<1>1. job.capacity \in Nat /\ MaxImage \in Nat \ {0}
  BY BootAssumption DEF Typed
<1>2. ASSUME NEW c \in Nat, NEW m \in Nat, c > 4, 4 * m > c - 4
      PROVE  (c - 1) \div 4 \in 1 .. m
  BY <1>2
<1> QED
  BY <1>1, <1>2 DEF ImageCapacity, ImageCut

(* The sizes of a machine that was never on.                                 *)
LEMMA InitTyped == Init => Typed
BY BootAssumption DEF Init, Typed

(* Sizes.  Only the submission of a request, the compilation and the three   *)
(* stores into the output region touch what Typed speaks of.                *)
LEMMA StepTyped == Typed /\ Answering /\ [Next]_vars => Typed'
<1> SUFFICES ASSUME Typed, Answering, [Next]_vars PROVE Typed'
  OBVIOUS
<1> USE BootAssumption
<1>1. CASE Submit
  BY <1>1 DEF Submit, Typed
<1>2. CASE PowerOn \/ PowerOff \/ Reset
  BY <1>2 DEF PowerOn, PowerOff, Reset, RamLost, storageVars, machineVars, Typed
<1>3. CASE \/ ReadControl \/ RefuseControl \/ Start \/ AllocateTables \/ ReadTexts
           \/ PreprocessAllocates \/ Preprocess \/ RefuseSource \/ ReleaseProgram
           \/ Cleanup \/ Report \/ WriteStatus \/ WildEmitReturns
  BY <1>3 DEF ReadControl, RefuseControl, Start, AllocateTables, ReadTexts,
              PreprocessAllocates, Preprocess, RefuseSource, ReleaseProgram, Cleanup,
              Report, WriteStatus, WildEmitReturns, storageVars, machineVars, Typed
<1>4. CASE BadProject \/ WildReturns \/ PreprocessFails
  BY <1>4 DEF BadProject, WildReturns, PreprocessFails, Fail, storageVars, Typed
<1>5. CASE AllocateImage \/ AllocateProgram \/ CheckRecord \/ CopyToRam
  BY <1>5 DEF AllocateImage, AllocateProgram, CheckRecord, CopyToRam, Fail, storageVars,
              Typed
<1>6. CASE Compile
  <2>1. ImageCapacity \in 0 .. MaxImage
    BY ImageRoom
  <2>2. image' \in 0 .. MaxImage
    BY <1>6, <2>1 DEF Compile
  <2> QED
    BY <1>6, <2>2 DEF Compile, storageVars, Typed
<1>7. CASE WriteRecord
  <2>1. index + 1 \in 1 .. MaxOutput
    BY <1>7 DEF WriteRecord, Typed, Answering
  <2> QED
    BY <1>7, <2>1 DEF WriteRecord, Store, Typed
<1>8. CASE FailZero \/ FailPosition
  <2>1. job.capacity \in Nat /\ job.capacity < 4 * MaxOutput + 4 /\ MaxOutput \in Nat
    BY DEF Typed
  <2>2. ASSUME NEW k \in 1 .. MaxOutput, NEW word, Store(k, word)
        PROVE  DOMAIN record' = 1 .. MaxOutput
    BY <2>2 DEF Store, Typed
  <2>3. DOMAIN record' = 1 .. MaxOutput
    BY <1>8, <2>1, <2>2 DEF FailZero, FailPosition, Typed
  <2> QED
    BY <1>8, <2>3 DEF FailZero, FailPosition, machineVars, Typed
<1>9. CASE UNCHANGED vars
  BY <1>9 DEF vars, Typed
<1> QED
  BY <1>1, <1>2, <1>3, <1>4, <1>5, <1>6, <1>7, <1>8, <1>9 DEF Next, Machine

-----------------------------------------------------------------------------
(* Storage nobody wrote holds no answer.                                     *)
LEMMA InitAnswering == Init => Answering
BY BootAssumption DEF Init, Answering, SuccessIsComplete, RunsWhatWasCompiled

(* A step that leaves the request, the region and the compiled image alone   *)
(* leaves every record in it as complete as it was.                         *)
LEMMA RecordsStay ==
  ASSUME UNCHANGED <<job, record, image>>
  PROVE  (Complete' <=> Complete) /\ \A n \in Nat : Begun(n)' <=> Begun(n)
BY DEF Complete, Begun, LengthWord, ImageWord

LEMMA SuccessStays ==
  ASSUME UNCHANGED <<job, status, outLen, record>>, SuccessIsComplete
  PROVE  SuccessIsComplete'
BY DEF SuccessIsComplete

(* The machine goes off, loses its memory and keeps its storage.             *)
LEMMA PowerAnswering ==
  ASSUME Answering, PowerOn \/ PowerOff \/ Reset
  PROVE  Answering'
<1>1. SuccessIsComplete'
  BY SuccessStays DEF Answering, PowerOn, PowerOff, Reset, storageVars
<1> QED
  BY <1>1 DEF Answering, PowerOn, PowerOff, Reset, RamLost, storageVars, machineVars,
              Resting, RunsWhatWasCompiled

(* From power on to the last table of the compiler nothing is in storage      *)
(* that could be taken for an answer.                                        *)
LEMMA PreparingAnswering ==
  ASSUME Typed, Answering,
         \/ ReadControl \/ RefuseControl \/ Start \/ AllocateTables \/ ReadTexts
         \/ BadProject \/ WildReturns \/ PreprocessAllocates \/ Preprocess
         \/ PreprocessFails \/ AllocateImage \/ AllocateProgram \/ RefuseSource
  PROVE  Answering'
<1>1. SuccessIsComplete'
  <2>1. CASE RefuseControl
    BY <2>1 DEF RefuseControl, Answering, SuccessIsComplete, Resting
  <2>2. CASE Start
    BY <2>2 DEF Start, SuccessIsComplete, Running
  <2>3. CASE ~ RefuseControl /\ ~ Start
    <3>1. UNCHANGED <<job, status, outLen, record>>
      BY <2>3 DEF ReadControl, AllocateTables, ReadTexts, BadProject, WildReturns,
                  PreprocessAllocates, Preprocess, PreprocessFails, AllocateImage,
                  AllocateProgram, RefuseSource, storageVars
    <3> QED
      BY <3>1, SuccessStays DEF Answering
  <2> QED
    BY <2>1, <2>2, <2>3
<1>2. CASE ReadControl
  BY <1>1, <1>2 DEF ReadControl, Answering, Resting, RunsWhatWasCompiled, storageVars
<1>3. CASE RefuseControl
  BY <1>1, <1>3 DEF RefuseControl, Answering, Resting, RunsWhatWasCompiled, machineVars
<1>4. CASE Start
  BY <1>1, <1>4 DEF Start, Answering, Resting, RunsWhatWasCompiled, machineVars, Running
<1>5. CASE AllocateTables \/ ReadTexts \/ PreprocessAllocates \/ Preprocess
  BY <1>1, <1>5 DEF AllocateTables, ReadTexts, PreprocessAllocates, Preprocess, Answering,
                    Resting, RunsWhatWasCompiled, storageVars
<1>6. CASE BadProject \/ WildReturns \/ PreprocessFails
  BY <1>1, <1>6 DEF BadProject, WildReturns, PreprocessFails, Fail, Answering, Resting,
                    RunsWhatWasCompiled, storageVars
<1>7. CASE AllocateImage \/ AllocateProgram \/ RefuseSource
  BY <1>1, <1>7 DEF AllocateImage, AllocateProgram, RefuseSource, Fail, Answering, Resting,
                    RunsWhatWasCompiled, storageVars
<1> QED
  BY <1>2, <1>3, <1>4, <1>5, <1>6, <1>7

(* The image is compiled, and found to fit with its length word or refused.  *)
LEMMA CompilingAnswering ==
  ASSUME Typed, Answering, Compile \/ WildEmitReturns \/ ReleaseProgram \/ CheckRecord
  PROVE  Answering'
<1> USE BootAssumption
<1>1. SuccessIsComplete'
  <2>1. UNCHANGED <<job, status, outLen, record>>
    BY DEF Compile, WildEmitReturns, ReleaseProgram, CheckRecord, storageVars
  <2> QED
    BY <2>1, SuccessStays DEF Answering
<1>2. CASE Compile
  <2>1. ImageCapacity \in 1 .. MaxImage
    BY ImageRoom
  <2>2. ret' = "ok" => image' >= 1
    BY <1>2, <2>1 DEF Compile
  <2> QED
    BY <1>1, <1>2, <2>2 DEF Compile, Answering, Resting, RunsWhatWasCompiled, storageVars
<1>3. CASE WildEmitReturns \/ ReleaseProgram
  BY <1>1, <1>3 DEF WildEmitReturns, ReleaseProgram, Answering, Resting,
                    RunsWhatWasCompiled, storageVars, machineVars
<1>4. CASE CheckRecord
  <2>1. Begun(0)'
    BY DEF Begun
  <2>2. ret' = "ok" => 4 * (image + 1) <= job.capacity /\ image >= 1
    BY <1>4 DEF CheckRecord, Answering, Typed
  <2> QED
    BY <1>1, <1>4, <2>1, <2>2 DEF CheckRecord, Answering, Typed, Resting,
                                  RunsWhatWasCompiled, storageVars
<1> QED
  BY <1>2, <1>3, <1>4

(* One more word of the record: those before it stay.                        *)
LEMMA RecordGrows ==
  ASSUME Typed, NEW n \in Nat, Begun(n), n + 1 <= MaxOutput, UNCHANGED <<job, image>>,
         Store(n + 1, IF n = 0 THEN LengthWord ELSE ImageWord(n))
  PROVE  Begun(n + 1)'
<1> USE BootAssumption
<1>1. /\ record'[n + 1] = IF n = 0 THEN LengthWord ELSE ImageWord(n)
      /\ \A j \in 1 .. n : record'[j] = record[j]
  BY DEF Typed, Store
<1>2. LengthWord' = LengthWord /\ \A k : ImageWord(k)' = ImageWord(k)
  BY DEF LengthWord, ImageWord
<1>3. record'[1] = LengthWord
  BY <1>1 DEF Begun
<1>4. ASSUME NEW k \in 1 .. n PROVE record'[k + 1] = ImageWord(k)
  BY <1>1 DEF Begun
<1> QED
  BY <1>2, <1>3, <1>4 DEF Begun

LEMMA WriteRecordAnswering ==
  ASSUME Typed, Answering, WriteRecord
  PROVE  Answering'
<1> USE BootAssumption
<1>1. status # "ok" /\ UNCHANGED <<job, image, status>>
  BY DEF WriteRecord, Answering, Resting
<1>2. job.capacity \in Nat /\ job.capacity < 4 * MaxOutput + 4 /\ MaxOutput \in Nat
  BY DEF Typed
<1>3. /\ index \in Nat /\ image \in 1 .. MaxImage
      /\ index <= image /\ 4 * (image + 1) <= job.capacity
      /\ Begun(index)
  BY DEF WriteRecord, Answering, Typed
<1>4. PICK n \in Nat : n = index
  BY <1>3
<1>5. Store(n + 1, IF n = 0 THEN LengthWord ELSE ImageWord(n))
  BY <1>4 DEF WriteRecord
<1>6. Begun(n + 1)'
  BY <1>1, <1>2, <1>3, <1>4, <1>5, RecordGrows
<1>7. index' = n + 1
  BY <1>4 DEF WriteRecord
<1>8. Begun(index)'
  BY <1>6, <1>7 DEF Begun
<1>9. index = image => Complete'
  BY <1>1, <1>2, <1>3, <1>4, <1>6 DEF Complete, Begun
<1>10. index # image => index' <= image
  BY <1>3, <1>4, <1>7
<1> QED
  BY <1>1, <1>3, <1>8, <1>9, <1>10
     DEF WriteRecord, Answering, SuccessIsComplete, Resting, RunsWhatWasCompiled

LEMMA FailingAnswering ==
  ASSUME Typed, Answering, FailZero \/ FailPosition
  PROVE  Answering'
BY DEF FailZero, FailPosition, Typed, Answering, SuccessIsComplete, Resting,
       RunsWhatWasCompiled, machineVars

LEMMA CleanupAnswering ==
  ASSUME Typed, Answering, Cleanup \/ Report
  PROVE  Answering'
<1>1. Complete' <=> Complete
  BY RecordsStay DEF Cleanup, Report, storageVars, machineVars
<1>2. status' # "ok"
  BY DEF Answering, Cleanup, Report, Resting, storageVars
<1> QED
  BY <1>1, <1>2 DEF Cleanup, Report, Answering, SuccessIsComplete, Resting,
                    RunsWhatWasCompiled, storageVars, machineVars

(* The status comes last: by then everything it stands for is in storage.    *)
LEMMA WriteStatusAnswering ==
  ASSUME Typed, Answering, WriteStatus
  PROVE  Answering'
<1> USE BootAssumption
<1>1. Complete' <=> Complete
  BY RecordsStay DEF WriteStatus
<1>2. CASE ret = "ok"
  <2>1. Complete /\ outLen = image + 1
    BY <1>2 DEF WriteStatus, Answering
  <2>2. SuccessIsComplete'
    <3>0. /\ image \in 1 .. MaxImage /\ outLen = image + 1 /\ Begun(image + 1)
          /\ image + 1 >= 1 /\ (image + 1) - 1 = image
      BY <2>1 DEF Complete
    <3>1. /\ image \in 1 .. MaxImage
          /\ outLen = image + 1
          /\ record[1] = <<job.id, "length", image>>
          /\ \A k \in 1 .. image : record[k + 1] = <<job.id, "image", k>>
      BY <3>0 DEF Begun, LengthWord, ImageWord
    <3>2. UNCHANGED <<job, outLen, record>>
      BY DEF WriteStatus
    <3> QED
      BY <3>1, <3>2 DEF SuccessIsComplete
  <2>3. job.magic /\ job.valid
    BY <1>2 DEF WriteStatus, Answering
  <2>4. ram = << >> /\ << >> = [k \in 1 .. 0 |-> ImageWord(k)]'
    BY DEF WriteStatus, Answering
  <2> QED
    BY <1>1, <1>2, <2>1, <2>2, <2>3, <2>4 DEF WriteStatus, Answering, Resting,
       RunsWhatWasCompiled, Complete
<1>3. CASE ret # "ok"
  BY <1>3 DEF WriteStatus, Answering, SuccessIsComplete, Resting, RunsWhatWasCompiled
<1> QED
  BY <1>2, <1>3

(* Every word the program is made of is read back from the record.           *)
LEMMA CopyAnswering ==
  ASSUME Typed, Answering, CopyToRam
  PROVE  Answering'
<1> USE BootAssumption
<1>1. UNCHANGED <<job, status, outLen, record, image>>
  BY DEF CopyToRam, storageVars
<1>2. SuccessIsComplete' /\ (Complete' <=> Complete)
  BY <1>1, SuccessStays, RecordsStay DEF Answering
<1>3. /\ Complete /\ index <= image /\ index \in Nat /\ image \in Nat
      /\ ram = [k \in 1 .. index |-> ImageWord(k)]
  BY DEF CopyToRam, Answering, Complete, Typed
<1>4. record[1][3] = image
  BY <1>3 DEF Complete, Begun, LengthWord
<1>5. CASE index < image
  <2>1. record[index + 2] = ImageWord(index + 1)
    <3>1. index + 1 \in 1 .. (image + 1) - 1 /\ (index + 1) + 1 = index + 2
      BY <1>3, <1>5
    <3> QED
      BY <1>3, <3>1 DEF Complete, Begun
  <2>2. Append(ram, ImageWord(index + 1)) = [k \in 1 .. index + 1 |-> ImageWord(k)]
    BY <1>3
  <2>3. /\ pc' = pc /\ pc = "copy" /\ index' = index + 1
        /\ ram' = [k \in 1 .. index' |-> ImageWord(k)']
    BY <1>1, <1>4, <1>5, <2>1, <2>2 DEF CopyToRam, ImageWord
  <2>4. index' <= image'
    BY <1>1, <1>3, <1>5, <2>3
  <2> QED
    BY <1>1, <1>2, <1>3, <2>3, <2>4 DEF Answering, Resting, RunsWhatWasCompiled
<1>6. CASE index >= image
  <2>1. /\ pc' = "program" /\ pc = "copy"
        /\ ram' = [k \in 1 .. image' |-> ImageWord(k)']
    BY <1>1, <1>3, <1>4, <1>6 DEF CopyToRam, ImageWord
  <2> QED
    BY <1>1, <1>2, <2>1 DEF Answering, Resting, RunsWhatWasCompiled
<1> QED
  BY <1>3, <1>5, <1>6

LEMMA SubmitAnswering ==
  ASSUME Typed, Answering, Submit
  PROVE  Answering'
BY DEF Submit, Pending, Answering, SuccessIsComplete, Resting, RunsWhatWasCompiled

(* No step leaves a false answer in storage.                                 *)
LEMMA StepAnswering == Typed /\ Answering /\ [Next]_vars => Answering'
<1> SUFFICES ASSUME Typed, Answering, [Next]_vars PROVE Answering'
  OBVIOUS
<1>1. CASE UNCHANGED vars
  BY <1>1, SuccessStays, RecordsStay
     DEF vars, Answering, Resting, RunsWhatWasCompiled, Begun, LengthWord, ImageWord
<1>2. CASE Next
  BY <1>2, SubmitAnswering, PowerAnswering, PreparingAnswering, CompilingAnswering,
     WriteRecordAnswering, FailingAnswering, CleanupAnswering, WriteStatusAnswering,
     CopyAnswering DEF Next, Machine
<1> QED
  BY <1>1, <1>2

-----------------------------------------------------------------------------
(* The groups of dyn_compile_buffer's tables are apart from every other      *)
(* block, and each group from the ones before it.                           *)
Others == ProjectBlocks \cup PreprocessorBlocks \cup {"image", "global_data"}

LEMMA BlocksApart ==
  /\ Len(ProgramTables) = 7 /\ DOMAIN ProgramTables = 1 .. 7
  /\ ProgramBlocks \cap Others = {}
  /\ Block = Others \cup ProgramBlocks
  /\ \A k \in 1 .. 8 : Earlier(k) \subseteq ProgramBlocks
  /\ Earlier(1) = {}
  /\ \A k \in 1 .. 7 : Earlier(k + 1) = Earlier(k) \cup ProgramTables[k]
<1>1. Len(ProgramTables) = 7 /\ DOMAIN ProgramTables = 1 .. 7
  BY DEF ProgramTables
<1>2. ASSUME NEW k \in 1 .. 7 PROVE ProgramTables[k] \cap Others = {}
  <2>1. /\ ProgramTables[1] = {"nodes"} /\ ProgramTables[2] = {"locals"}
        /\ ProgramTables[3] = {"functions"} /\ ProgramTables[4] = {"globals"}
        /\ ProgramTables[5] = {"constants"} /\ ProgramTables[6] = {"aliases", "enums"}
        /\ ProgramTables[7] = {"structs", "members", "dimensions"}
    BY DEF ProgramTables
  <2>2. k = 1 \/ k = 2 \/ k = 3 \/ k = 4 \/ k = 5 \/ k = 6 \/ k = 7
    OBVIOUS
  <2> QED
    BY <2>1, <2>2 DEF Others, ProjectBlocks, Tables, Texts, PreprocessorBlocks
<1>3. ProgramBlocks \cap Others = {}
  BY <1>1, <1>2 DEF ProgramBlocks
<1>4. Block = Others \cup ProgramBlocks
  BY DEF Block, Others, ProjectBlocks, ProgramBlocks
<1>5. \A k \in 1 .. 8 : Earlier(k) \subseteq ProgramBlocks
  BY <1>1 DEF Earlier, ProgramBlocks
<1>6. Earlier(1) = {}
  BY DEF Earlier
<1>7. ASSUME NEW k \in 1 .. 7 PROVE Earlier(k + 1) = Earlier(k) \cup ProgramTables[k]
  <2>1. 1 .. (k + 1) - 1 = (1 .. k - 1) \cup {k}
    OBVIOUS
  <2> QED
    BY <2>1 DEF Earlier
<1> QED
  BY <1>1, <1>3, <1>4, <1>5, <1>6, <1>7

(* What a granted allocation does to the two sets of blocks.                 *)
LEMMA Allocated ==
  ASSUME NEW S, S \subseteq Block, blocks \in [Block -> {"null", "live", "freed"}],
         Allocate(S)
  PROVE  /\ blocks' \in [Block -> {"null", "live", "freed"}]
         /\ Live' = Live \cup S
         /\ Freed' = Freed \ S
BY DEF Allocate, Live, Freed

(* What giving S back comes to, where no block of it was given back before.  *)
Returned(S) ==
  /\ blocks' \in [Block -> {"null", "live", "freed"}]
  /\ Live' = Live \ S
  /\ Freed' \subseteq Freed \cup S /\ Freed' \subseteq Block
  /\ doubleFree' = FALSE

LEMMA GivenBack ==
  ASSUME NEW S, S \subseteq Block, blocks \in [Block -> {"null", "live", "freed"}],
         doubleFree = FALSE, S \cap Freed = {}, Free(S)
  PROVE  Returned(S)
BY DEF Free, Live, Freed, Returned

LEMMA NothingHeld ==
  /\ Fresh \in [Block -> {"null", "live", "freed"}]
  /\ blocks = Fresh => Live = {} /\ Freed = {}
  /\ blocks' = Fresh => Live' = {} /\ Freed' = {}
BY DEF Fresh, Live, Freed

LEMMA InitHolding == Init => Holding
BY NothingHeld DEF Init, Holding, Held

LEMMA SameBlocks ==
  ASSUME blocks' = blocks
  PROVE  Live' = Live /\ Freed' = Freed
BY DEF Live, Freed

(* The blocks that are not tables of dyn_compile_buffer, told apart.         *)
LEMMA OthersAreBlocks ==
  /\ ProjectBlocks = Texts \cup Tables
  /\ ProjectBlocks \subseteq Block /\ PreprocessorBlocks \subseteq Block
  /\ {"image", "output", "global_data"} \subseteq Block
  /\ PreprocessorBlocks = Scratch \cup {"output"} /\ "output" \notin Scratch
  /\ ProjectBlocks \cap PreprocessorBlocks = {}
  /\ {"image", "global_data"} \cap (ProjectBlocks \cup PreprocessorBlocks) = {}
BY DEF Block, ProjectBlocks, Texts, Tables, PreprocessorBlocks, Scratch

LEMMA PowerHolding ==
  ASSUME Holding, PowerOn \/ PowerOff \/ Reset \/ Submit
  PROVE  Holding'
<1>1. CASE PowerOff \/ Reset
  BY <1>1, NothingHeld DEF PowerOff, Reset, RamLost, Holding, Held
<1>2. CASE PowerOn \/ Submit
  BY <1>2, SameBlocks DEF PowerOn, Submit, Holding, Held, storageVars, machineVars
<1> QED
  BY <1>1, <1>2

(* Steps that neither allocate nor free.                                     *)
LEMMA IdleHolding ==
  ASSUME Typed, Holding,
         \/ ReadControl \/ RefuseControl \/ Start \/ RefuseSource \/ WildEmitReturns
         \/ CheckRecord \/ WriteRecord \/ FailZero \/ FailPosition \/ Report
         \/ WriteStatus \/ CopyToRam
  PROVE  Holding'
<1>1. UNCHANGED <<blocks, doubleFree>> /\ Live' = Live /\ Freed' = Freed
  BY SameBlocks
     DEF ReadControl, RefuseControl, Start, RefuseSource, WildEmitReturns, CheckRecord,
         WriteRecord, FailZero, FailPosition, Report, WriteStatus, CopyToRam,
         storageVars, machineVars
<1>2. CASE ReadControl \/ RefuseControl \/ Start
  BY <1>1, <1>2 DEF ReadControl, RefuseControl, Start, storageVars, machineVars, Holding,
                    Held, Block
<1>3. CASE RefuseSource
  BY <1>1, <1>3, BlocksApart DEF RefuseSource, Holding, Held, Released
<1>4. CASE WildEmitReturns
  BY <1>1, <1>4 DEF WildEmitReturns, machineVars, Holding, Held
<1>5. CASE CheckRecord \/ WriteRecord
  BY <1>1, <1>5 DEF CheckRecord, WriteRecord, Holding, Held
<1>6. CASE FailZero
  BY <1>1, <1>6 DEF FailZero, Holding, Held
<1>7. CASE FailPosition
  BY <1>1, <1>7 DEF FailPosition, machineVars, Typed, Holding, Held
<1>8. CASE Report \/ WriteStatus \/ CopyToRam
  BY <1>1, <1>8 DEF Report, WriteStatus, CopyToRam, storageVars, machineVars, Holding, Held
<1> QED
  BY <1>2, <1>3, <1>4, <1>5, <1>6, <1>7, <1>8

(* Steps that may be granted memory.                                         *)
LEMMA AllocatingHolding ==
  ASSUME Holding,
         \/ AllocateTables \/ ReadTexts \/ PreprocessAllocates \/ Compile
  PROVE  Holding'
<1> USE OthersAreBlocks DEF Granted
<1>1. CASE AllocateTables
  <2>1. PICK granted \in SUBSET Tables : Allocate(granted)
    BY <1>1 DEF AllocateTables
  <2>2. pc = "tables" /\ pc' \in {"texts", "bad_project"} /\ doubleFree' = doubleFree
    BY <1>1 DEF AllocateTables
  <2>3. Live' \subseteq ProjectBlocks /\ Freed' = {}
        /\ blocks' \in [Block -> {"null", "live", "freed"}]
    BY <2>1, <2>2, Allocated DEF Holding, Held
  <2> QED
    BY <2>2, <2>3 DEF Holding, Held
<1>2. CASE ReadTexts
  <2>1. PICK granted \in SUBSET Texts : Allocate(granted)
    BY <1>2 DEF ReadTexts
  <2>2. pc = "texts" /\ pc' \in {"preprocess", "bad_project"} /\ doubleFree' = doubleFree
    BY <1>2 DEF ReadTexts
  <2>3. Live' \subseteq ProjectBlocks /\ Freed' = {}
        /\ blocks' \in [Block -> {"null", "live", "freed"}]
    BY <2>1, <2>2, Allocated DEF Holding, Held
  <2> QED
    BY <2>2, <2>3 DEF Holding, Held
<1>3. CASE PreprocessAllocates
  <2>1. pc = "preprocess" /\ doubleFree' = doubleFree
    BY <1>3 DEF PreprocessAllocates
  <2>2. CASE pc' = "preprocess_failed" /\ UNCHANGED blocks
    BY <2>1, <2>2, SameBlocks DEF Holding, Held
  <2>3. CASE pc' = "preprocessing" /\ \E granted \in SUBSET PreprocessorBlocks : Allocate(granted)
    <3>1. Live' \subseteq ProjectBlocks \cup PreprocessorBlocks /\ Freed' = {}
          /\ blocks' \in [Block -> {"null", "live", "freed"}]
      BY <2>1, <2>3, Allocated DEF Holding, Held
    <3> QED
      BY <2>1, <2>3, <3>1 DEF Holding, Held
  <2> QED
    BY <1>3, <2>2, <2>3 DEF PreprocessAllocates
<1>4. CASE Compile
  <2>1. PICK data \in SUBSET {"global_data"} : Allocate(data)
    BY <1>4 DEF Compile
  <2>2. pc = "buffer" /\ pc' \in {"release_program", "wild_emit", "padding"} /\ doubleFree' = doubleFree
    BY <1>4 DEF Compile
  <2>3. index = Len(ProgramTables) + 1
    BY <1>4, <2>2, BlocksApart DEF Compile, Holding
  <2>4. /\ data \subseteq Block
        /\ blocks \in [Block -> {"null", "live", "freed"}]
        /\ Live \subseteq ProjectBlocks \cup {"output", "image"} \cup Earlier(index)
        /\ Freed \subseteq Scratch
    BY <2>2 DEF Holding, Held
  <2>5. /\ Live' = Live \cup data /\ Freed' = Freed \ data
        /\ blocks' \in [Block -> {"null", "live", "freed"}]
    BY <2>1, <2>4, Allocated
  <2>6. /\ Live' \subseteq ProjectBlocks \cup {"output", "image", "global_data"} \cup Earlier(index)
        /\ Freed' \subseteq Scratch
    BY <2>4, <2>5
  <2> QED
    BY <2>2, <2>3, <2>5, <2>6 DEF Holding, Held, Earlier
<1> QED
  BY <1>1, <1>2, <1>3, <1>4

(* Steps that give memory back.                                              *)
LEMMA FreeingHolding ==
  ASSUME Holding,
         \/ BadProject \/ WildReturns \/ Preprocess \/ PreprocessFails \/ AllocateImage
         \/ AllocateProgram \/ ReleaseProgram \/ Cleanup
  PROVE  Holding'
<1> USE BlocksApart, OthersAreBlocks
<1>1. CASE BadProject \/ WildReturns
  <2>1. CASE pc' = "wild" /\ UNCHANGED <<blocks, doubleFree>>
    BY <1>1, <2>1, SameBlocks DEF BadProject, WildReturns, Holding, Held, Fail
  <2>2. CASE Free(Texts \cup Tables) /\ Fail("invalid_project")
    <3>1. pc \in {"bad_project", "wild"}
      BY <1>1 DEF BadProject, WildReturns
    <3>2. Live \subseteq Texts \cup Tables /\ Freed = {}
      BY <3>1 DEF Holding, Held, ProjectBlocks
    <3>3. Returned(Texts \cup Tables)
      BY <2>2, <3>2, GivenBack DEF Holding
    <3>4. Live' = {}
      BY <3>2, <3>3 DEF Returned
    <3> QED
      BY <2>2, <3>3, <3>4 DEF Fail, Holding, Held, Returned
  <2> QED
    BY <1>1, <2>1, <2>2 DEF BadProject, WildReturns
<1>2. CASE PreprocessFails
  <2>1. Live \subseteq Texts \cup Tables /\ Freed \subseteq PreprocessorBlocks
    BY <1>2 DEF PreprocessFails, Holding, Held, ProjectBlocks
  <2>2. PreprocessorBlocks \cap (Texts \cup Tables) = {}
    BY DEF PreprocessorBlocks, Texts, Tables
  <2>3. (Texts \cup Tables) \cap Freed = {} /\ Free(Texts \cup Tables)
    BY <1>2, <2>1, <2>2 DEF PreprocessFails
  <2>4. Returned(Texts \cup Tables)
    BY <2>3, GivenBack DEF Holding
  <2>5. Live' = {}
    BY <2>1, <2>4 DEF Returned
  <2> QED
    BY <1>2, <2>4, <2>5 DEF PreprocessFails, Fail, Holding, Held, Returned
<1>3. CASE Preprocess
  <2>1. Live \subseteq ProjectBlocks \cup PreprocessorBlocks /\ Freed = {}
    BY <1>3 DEF Preprocess, Holding, Held
  <2>2. PreprocessorBlocks \ {"output"} = Scratch /\ Scratch \subseteq Block
    OBVIOUS
  <2>3. CASE pc' = "image" /\ Free(PreprocessorBlocks \ {"output"})
    <3>1. Returned(Scratch)
      <4>1. Free(Scratch)
        BY <2>2, <2>3, Zenon
      <4>2. Scratch \cap Freed = {}
        BY <2>1
      <4> QED
        BY <4>1, <4>2, <2>2, GivenBack, Zenon DEF Holding
    <3>2. Live' \subseteq ProjectBlocks \cup {"output"} /\ Freed' \subseteq Scratch
      BY <2>1, <3>1 DEF Returned
    <3> QED
      BY <2>3, <3>1, <3>2 DEF Holding, Held, Returned
  <2>4. CASE pc' = "preprocess_failed" /\ Free(PreprocessorBlocks)
    <3>1. Returned(PreprocessorBlocks)
      <4>1. PreprocessorBlocks \cap Freed = {} /\ PreprocessorBlocks \subseteq Block
        BY <2>1
      <4> QED
        BY <4>1, <2>4, GivenBack, Zenon DEF Holding
    <3>2. Live' \subseteq ProjectBlocks /\ Freed' \subseteq PreprocessorBlocks
      BY <2>1, <3>1 DEF Returned
    <3> QED
      BY <2>4, <3>1, <3>2 DEF Holding, Held, Returned
  <2> QED
    BY <1>3, <2>3, <2>4 DEF Preprocess
<1>4. CASE AllocateImage
  <2>1. Live \subseteq ProjectBlocks \cup {"output"} /\ Freed \subseteq Scratch
    BY <1>4 DEF AllocateImage, Holding, Held
  <2>2. CASE Allocate({"image"}) /\ pc' = "buffer" /\ index' = 1 /\ UNCHANGED doubleFree
    <3>1. /\ Live' \subseteq ProjectBlocks \cup {"output", "image"} \cup Earlier(index')
          /\ Freed' \subseteq Scratch
          /\ blocks' \in [Block -> {"null", "live", "freed"}]
      BY <2>1, <2>2, Allocated DEF Holding
    <3> QED
      BY <2>2, <3>1 DEF Holding, Held, Earlier
  <2>3. CASE Free({"output"} \cup Texts \cup Tables) /\ Fail("out_of_memory")
    <3>1. /\ {"output"} \cup Texts \cup Tables \subseteq Block
          /\ Scratch \cap ({"output"} \cup Texts \cup Tables) = {}
      OBVIOUS
    <3>2. ({"output"} \cup Texts \cup Tables) \cap Freed = {}
      BY <2>1, <3>1
    <3>3. Returned({"output"} \cup Texts \cup Tables)
      BY <2>3, <3>1, <3>2, GivenBack DEF Holding
    <3>4. Live' = {}
      BY <2>1, <3>3 DEF Returned
    <3> QED
      BY <2>3, <3>3, <3>4 DEF Fail, Holding, Held, Returned
  <2> QED
    BY <1>4, <2>2, <2>3 DEF AllocateImage
<1>5. CASE AllocateProgram
  <2>0. pc = "buffer" /\ index \in 1 .. 7
    BY <1>5 DEF AllocateProgram, Holding
  <2>1. /\ Live \subseteq ProjectBlocks \cup {"output", "image"} \cup Earlier(index)
        /\ Freed \subseteq Scratch
    BY <2>0 DEF Holding, Held
  <2>2. CASE /\ Allocate(ProgramTables[index])
             /\ index' = index + 1
             /\ UNCHANGED <<pc, doubleFree>>
    <3>1. ProgramTables[index] \subseteq Block
      BY <2>0 DEF Block
    <3>2. index' \in 1 .. 8 /\ Earlier(index) \cup ProgramTables[index] = Earlier(index')
      BY <2>0, <2>2 DEF Earlier
    <3> QED
      BY <2>0, <2>1, <2>2, <3>1, <3>2, Allocated DEF Holding, Held
  <2>3. CASE Free(Earlier(index)) /\ pc' = "compiled"
    <3>1. Earlier(index) \subseteq ProgramBlocks /\ ProgramBlocks \cap Scratch = {}
      BY <2>0 DEF Others, PreprocessorBlocks, Scratch
    <3>2. Earlier(index) \subseteq Block /\ Earlier(index) \cap Freed = {}
      BY <2>1, <3>1
    <3>3. Returned(Earlier(index))
      BY <2>3, <3>2, GivenBack DEF Holding
    <3>4. /\ Live' \subseteq ProjectBlocks \cup {"output", "image"}
          /\ Freed' \subseteq Released
      BY <2>1, <3>1, <3>3 DEF Returned, Released
    <3> QED
      BY <2>3, <3>3, <3>4 DEF Holding, Held, Returned
  <2> QED
    BY <1>5, <2>2, <2>3 DEF AllocateProgram
<1>6. CASE ReleaseProgram
  <2>1. /\ Live \subseteq ProjectBlocks \cup {"output", "image", "global_data"} \cup Earlier(8)
        /\ Freed \subseteq Scratch
    BY <1>6 DEF ReleaseProgram, Holding, Held
  <2>2. /\ {"global_data"} \cup Earlier(8) \subseteq Block
        /\ ({"global_data"} \cup Earlier(8)) \cap Scratch = {}
        /\ {"global_data"} \cup Earlier(8) \subseteq Released
    BY DEF Others, PreprocessorBlocks, Scratch, Released
  <2>3. pc' = "compiled" /\ Free({"global_data"} \cup Earlier(8))
    BY <1>6 DEF ReleaseProgram
  <2>4. ({"global_data"} \cup Earlier(8)) \cap Freed = {}
    BY <2>1, <2>2
  <2>5. Returned({"global_data"} \cup Earlier(8))
    BY <2>2, <2>3, <2>4, GivenBack DEF Holding
  <2>6. /\ Live' \subseteq ProjectBlocks \cup {"output", "image"}
        /\ Freed' \subseteq Released
    BY <2>1, <2>2, <2>5 DEF Returned, Released
  <2> QED
    BY <2>3, <2>5, <2>6 DEF Holding, Held, Returned
<1>7. CASE Cleanup
  <2>1. Live \subseteq ProjectBlocks \cup {"output", "image"} /\ Freed \subseteq Released
    BY <1>7 DEF Cleanup, Holding, Held
  <2>2. /\ {"image", "output"} \cup Texts \cup Tables \subseteq Block
        /\ ({"image", "output"} \cup Texts \cup Tables) \cap Released = {}
    BY DEF Released, Others
  <2>3. /\ ({"image", "output"} \cup Texts \cup Tables) \cap Freed = {}
        /\ Free({"image", "output"} \cup Texts \cup Tables)
    BY <1>7, <2>1, <2>2 DEF Cleanup
  <2>4. Returned({"image", "output"} \cup Texts \cup Tables)
    BY <2>2, <2>3, GivenBack DEF Holding
  <2>5. Live' = {}
    BY <2>1, <2>4 DEF Returned
  <2> QED
    BY <1>7, <2>4, <2>5 DEF Cleanup, Holding, Held, Returned
<1> QED
  BY <1>1, <1>2, <1>3, <1>4, <1>5, <1>6, <1>7

(* No step holds more, or has given back more, than its place allows.        *)
LEMMA StepHolding == Typed /\ Holding /\ [Next]_vars => Holding'
<1> SUFFICES ASSUME Typed, Holding, [Next]_vars PROVE Holding'
  OBVIOUS
<1>1. CASE UNCHANGED vars
  BY <1>1, SameBlocks DEF vars, Holding, Held, Earlier
<1>2. CASE Next
  BY <1>2, PowerHolding, IdleHolding, AllocatingHolding, FreeingHolding DEF Next, Machine
<1> QED
  BY <1>1, <1>2

-----------------------------------------------------------------------------
(* The three parts hold together in every state a boot can reach.            *)
THEOREM Invariance == Spec => []IInv
<1>1. Init => IInv
  BY InitTyped, InitAnswering, InitHolding DEF IInv
<1>2. IInv /\ [Next]_vars => IInv'
  BY StepTyped, StepAnswering, StepHolding DEF IInv
<1> QED
  BY <1>1, <1>2, PTL DEF Spec

(* However many requests and resets there are, the status of success is      *)
(* never in storage without the whole record it speaks of (main.c:65-66).    *)
THEOREM SuccessTheorem == Spec => []SuccessIsComplete
<1>1. IInv => SuccessIsComplete
  BY DEF IInv, Answering
<1> QED
  BY <1>1, Invariance, PTL

(* The program that is started is the image compiled from the request, at    *)
(* every size of image and output region (main.c:4-19).                      *)
THEOREM ProgramTheorem == Spec => []RunsWhatWasCompiled
<1>1. IInv => RunsWhatWasCompiled
  BY DEF IInv, Answering
<1> QED
  BY <1>1, Invariance, PTL

(* Every way out gives back every block once, whichever allocations fail     *)
(* (compiler.c, dyn_compile_project and dyn_compile_buffer).                  *)
THEOREM FreedTheorem == Spec => []EverythingFreed
<1>1. IInv => EverythingFreed
  BY DEF IInv, Holding, Held, EverythingFreed
<1> QED
  BY <1>1, Invariance, PTL

(* No store reaches past the output region of the request, for any capacity  *)
(* and any image (compiler.c, dyn_write_failure and the capacity checks).     *)
THEOREM RegionTheorem == Spec => RegionKept
<1> DEFINE Kept == \A k \in DOMAIN record' :
                     4 * k > job.capacity /\ k \in DOMAIN record => record'[k] = record[k]
<1>1. ASSUME IInv, [Next]_vars PROVE [Kept]_vars
  <2> USE BootAssumption
  <2>1. job.capacity \in Nat /\ DOMAIN record = 1 .. MaxOutput
    BY <1>1 DEF IInv, Typed
  <2>2. CASE UNCHANGED record
    BY <2>2
  <2>3. CASE WriteRecord
    <3>1. index + 1 \in Nat /\ 4 * (index + 1) <= job.capacity
      BY <1>1, <2>1, <2>3 DEF IInv, Typed, Answering, WriteRecord
    <3> QED
      BY <2>1, <2>3, <3>1 DEF WriteRecord, Store
  <2>4. CASE FailZero
    BY <2>1, <2>4 DEF FailZero, Store
  <2>5. CASE FailPosition
    BY <2>1, <2>5 DEF FailPosition, Store
  <2>6. CASE UNCHANGED vars
    BY <2>6 DEF vars
  <2>7. CASE Next /\ ~ WriteRecord /\ ~ FailZero /\ ~ FailPosition
    <3>1. UNCHANGED record
      BY <2>7 DEF Next, Machine, Submit, PowerOn, PowerOff, Reset, ReadControl,
         RefuseControl, Start, AllocateTables, ReadTexts, BadProject,
         PreprocessAllocates, Preprocess, PreprocessFails, AllocateImage,
         AllocateProgram, RefuseSource, Compile, ReleaseProgram, CheckRecord, Cleanup,
         Report, WriteStatus, CopyToRam, WildReturns, WildEmitReturns, storageVars
    <3> QED
      BY <2>2, <3>1
  <2> QED
    BY <1>1, <2>3, <2>4, <2>5, <2>6, <2>7
<1> QED
  BY <1>1, Invariance, PTL DEF Spec, RegionKept
-----------------------------------------------------------------------------
(***************************************************************************)
(* The image emitter.  What is still to be done tells where it is in a      *)
(* piece, so that the invariant gives `todo` its shape: nothing (Still), a  *)
(* constant that has no place yet (Asking), one that is turned to (Lending) *)
(* and one of which n bytes are there (Patching), n instructions and j      *)
(* bytes of a piece of code (Writing), the bytes that align a global        *)
(* (Aligning) and its own (Filling).  Each shape says where the buffer is   *)
(* then, what of the current piece is in it, and that all pieces before are *)
(* whole: a patch goes back over written code, and it is the shape that     *)
(* keeps the place to return to.  A constant takes twelve bytes of its own, *)
(* before anything behind it is written.                                    *)
(***************************************************************************)
CodeKinds == {"instruction", "branch", "call", "address"}
DataKinds == {"global", "pointer"}
Uses == {"branch", "call", "address"}
Targets == Nat \cup {None}

Sized == {o \in Nat : EmittedBytes(o) = InstructionSize(o)}
Owns == {own \in Seq(Sized) : Len(own) \in {0, 1, 3}}

AnyCode == [kind : CodeKinds, at : Nat, own : Owns, align : {1}, link : Nat, target : Targets]
AnyData == [kind : DataKinds, at : Nat, own : Nat, align : {1, 2, 4}, link : Nat, target : Targets]

AnyFixup == [at : Nat, use : Uses, target : Targets]

EmitTyped ==
  /\ capacity \in Nat /\ symphony \in BOOLEAN /\ position \in Nat /\ pending \in Nat
  /\ DOMAIN output = 0 .. capacity - 1
  /\ pieces \in Seq(AnyCode \cup AnyData)
  /\ \A k \in DOMAIN pieces : pieces[k].kind = "pointer" => pieces[k].own = 4
  /\ stage = "code" => \A k \in DOMAIN pieces : pieces[k] \in AnyCode
  /\ fixups \in Seq(AnyFixup)

(* Nothing is written from `front` on, and every constant has its place     *)
(* before.                                                                  *)
Blank(front) == \A i \in DOMAIN output : i >= front => output[i] = Empty

Placed(f, front) ==
  /\ fixups[f].at + 12 <= front /\ fixups[f].at + 12 <= capacity
  /\ symphony => fixups[f].at % 4 = 0

Filled(front) == Blank(front) /\ \A f \in DOMAIN fixups : Placed(f, front)

ConstantsBut(f) == \A g \in DOMAIN fixups : g # f => ConstantIs(g, fixups[g].target)
AllConstants == ConstantsBut(0)

(* The first n bytes of a constant are written, and the others are nobody   *)
(* else's.                                                                  *)
Lendable(f, i) == output[i] = Empty \/ \E j, t : output[i] = <<"constant", f, j, t>>

Lent(f, n) ==
  /\ f \in DOMAIN fixups
  /\ \A b \in 0 .. n - 1 : output[fixups[f].at + b] = <<"constant", f, b \div 4 + 1, fixups[f].target>>
  /\ \A b \in n .. 11 : Lendable(f, fixups[f].at + b)

(* A piece is where it belongs, with all its bytes; the bytes of a pointer  *)
(* are its own until it is written.                                         *)
WholeCode(k) ==
  /\ OwnCells(k) \subseteq StartOf(k) .. Ends[k] - 1
  /\ Cardinality(OwnCells(k)) = OwnBytes(pieces[k].own)

WholeData(k) ==
  \/ OwnCells(k) = StartOf(k) .. Ends[k] - 1 /\ pieces[k].target = None
  \/ /\ pieces[k].kind = "pointer"
     /\ OwnCells(k) = {} /\ StartOf(k) + 4 <= capacity /\ PointerIs(k, pieces[k].target)

Whole(k) ==
  /\ pieces[k].at = StartOf(k)
  /\ IF pieces[k].kind \in CodeKinds THEN WholeCode(k) ELSE WholeData(k)

WholeUpTo(n) == \A k \in 1 .. n : Whole(k)

Now == Len(pieces)

AtRest(front) ==
  /\ WholeUpTo(Now) /\ front = Ends[Now]
  /\ stage = "code" /\ symphony => front % 4 = 0

(* The calls for a piece's own instructions, and how many there are for     *)
(* the first n of them.                                                     *)
OwnCode(own, k) ==
  LET part(n) == Instruction(own[n], <<"piece", k>>)
  IN  IF Len(own) = 0 THEN << >> ELSE IF Len(own) = 1 THEN part(1) ELSE part(1) \o part(2) \o part(3)

Cut(own, n) ==
  IF n = 0 THEN 0
  ELSE IF n = 1 THEN EmittedBytes(own[1])
  ELSE IF n = 2 THEN EmittedBytes(own[1]) + EmittedBytes(own[2])
  ELSE EmittedBytes(own[1]) + EmittedBytes(own[2]) + EmittedBytes(own[3])

CodeNow == OwnCode(pieces[Now].own, Now)

(* What is left to do of `calls` when n are done, with `rest` behind.       *)
Remaining(calls, n, rest) == SubSeq(calls, n + 1, Len(calls)) \o rest

Aligned4(al, calls) == IF al THEN <<Align(4)>> \o calls ELSE calls

(* The current piece is code that begins where the last one ended.          *)
Opened ==
  /\ stage = "code" /\ Now >= 1
  /\ WholeUpTo(Now - 1)
  /\ pieces[Now].at = Ends[Now - 1]
  /\ symphony => pieces[Now].at % 4 = 0

(* It has its constant's place and nothing else.                            *)
Ahead(front) ==
  /\ Opened /\ OwnCells(Now) = {} /\ pieces[Now].kind # "instruction"
  /\ front = pieces[Now].at + 12

(* What is left to do when the patch is done: nothing, or the piece whose   *)
(* constant it is.                                                          *)
Behind(rest, front) ==
  \/ rest = << >> /\ AtRest(front)
  \/ Ahead(front) /\ rest = CodeNow

Still == todo = << >> /\ pending = 0 /\ AtRest(position) /\ AllConstants /\ Filled(position)

Asking ==
  /\ Ahead(position + 12)
  /\ pending = 0 /\ AllConstants /\ Filled(position)
  /\ todo = <<ConstantFor(pieces[Now].kind)>> \o CodeNow

LendingWith(f, rest) ==
  /\ todo = <<At(fixups[f].at, f, fixups[f].target)>> \o rest
  /\ Behind(rest, position) /\ Filled(position) /\ pending = 0
  /\ Lent(f, 0) /\ ConstantsBut(f)

Lending == \E f \in DOMAIN fixups, rest \in {<< >>, CodeNow} : LendingWith(f, rest)

Back(front) == [op |-> "restore", position |-> front, pending |-> 0]

PatchingWith(f, rest, front, n, al) ==
  /\ todo = Aligned4(al, Remaining(ConstantCode(f, fixups[f].target), n, <<Back(front)>> \o rest))
  /\ Behind(rest, front) /\ Filled(front)
  /\ Lent(f, n) /\ ConstantsBut(f)
  /\ position = fixups[f].at + n
  /\ pending = IF symphony /\ n % 4 # 0 THEN 4 - (n % 4) ELSE 0
  /\ al => n % 4 = 0 /\ symphony

Patching ==
  \E f \in DOMAIN fixups, rest \in {<< >>, CodeNow}, front \in Nat, n \in 0 .. 12, al \in BOOLEAN :
    PatchingWith(f, rest, front, n, al)

(* n instructions of the current piece and j bytes of the next are there.   *)
Base == pieces[Now].at + Lead(pieces[Now])

Advanced(n, j, al) ==
  LET own == pieces[Now].own
  IN  IF symphony
        THEN /\ pending = IF j = 0 THEN 0 ELSE EmittedBytes(own[n + 1]) - j
             /\ IF al THEN j = 0 /\ n >= 1 /\ position \in Base + 4 * n - 3 .. Base + 4 * n
                      ELSE position = Base + 4 * n + j
        ELSE ~ al /\ pending = 0 /\ position = Base + Cut(own, n) + j

Written(n, j, al) ==
  LET own == pieces[Now].own
  IN  /\ n \in 0 .. Len(own) /\ j \in Nat
      /\ IF n < Len(own) THEN j < EmittedBytes(own[n + 1]) ELSE j = 0
      /\ todo = Aligned4(al, Remaining(CodeNow, Cut(own, n) + j, << >>))
      /\ OwnCells(Now) \subseteq Base .. position - 1
      /\ Cardinality(OwnCells(Now)) = Cut(own, n) + j
      /\ Advanced(n, j, al)

Writing ==
  /\ Opened /\ AllConstants /\ Filled(position)
  /\ \E n \in 0 .. 3, j \in 0 .. 3, al \in BOOLEAN : Written(n, j, al)

(* The current piece is a global.                                           *)
Raws(n, k) == [j \in 1 .. n |-> Raw(<<"piece", k>>)]
Begins == [op |-> "begin"]

Global ==
  /\ stage = "globals" /\ Now >= 1 /\ WholeUpTo(Now - 1)
  /\ pieces[Now].kind \in DataKinds /\ pieces[Now].target = None
  /\ AllConstants /\ Filled(position) /\ pending = 0

Aligning ==
  /\ Global /\ OwnCells(Now) = {}
  /\ position \in Ends[Now - 1] .. StartOf(Now)
  /\ LET calls == <<Begins>> \o Raws(pieces[Now].own, Now)
     IN  \/ todo = <<Align(pieces[Now].align)>> \o calls
         \/ position = StartOf(Now) /\ todo = calls

FilledUpTo(n) ==
  /\ position = StartOf(Now) + n
  /\ OwnCells(Now) = StartOf(Now) .. position - 1
  /\ todo = Remaining(Raws(pieces[Now].own, Now), n, << >>)

Filling ==
  /\ Global /\ pieces[Now].at = StartOf(Now)
  /\ \E n \in 0 .. pieces[Now].own : FilledUpTo(n)

Linked ==
  /\ stage \in {"addresses", "done"} => OpenPointers = {}
  /\ stage = "done" => todo = << >>

Shaped == Still \/ Asking \/ Lending \/ Patching \/ Writing \/ Aligning \/ Filling

(* Nothing is marked with a piece that is not begun.                        *)
Owned == \A k \in Nat : k > Len(pieces) => OwnCells(k) = {}

(* After an error nothing is promised of the buffer: nothing is emitted.    *)
EmitInv == error \/ (EmitTyped /\ Linked /\ Owned /\ Shaped)

-----------------------------------------------------------------------------
(* Calls, and lists of them.                                                *)
Marks == {<<"piece", k>> : k \in Nat} \cup {<<"constant", f, j, t>> : f, j \in Nat, t \in Targets}

Calls ==
  [op : {"byte"}, value : Nat, mark : Marks] \cup [op : {"raw"}, mark : Marks]
    \cup [op : {"constant"}, use : Uses] \cup [op : {"align"}, to : {1, 2, 4}]
    \cup [op : {"at"}, at : Nat, fixup : Nat, target : Targets]
    \cup [op : {"restore"}, position : Nat, pending : Nat] \cup [op : {"begin"}]

LEMMA FirstOfCalls ==
  ASSUME NEW c \in Calls, NEW calls \in Seq(Calls)
  PROVE  LET r == <<c>> \o calls
         IN  r \in Seq(Calls) /\ r # << >> /\ Head(r) = c /\ Tail(r) = calls
OBVIOUS

(* What remains of a list,                                                  *)
LEMMA RemainingElements ==
  ASSUME NEW calls \in Seq(Calls), NEW rest \in Seq(Calls), NEW n \in 0 .. Len(calls)
  PROVE  /\ Remaining(calls, n, rest) \in Seq(Calls)
         /\ Len(Remaining(calls, n, rest)) = (Len(calls) - n) + Len(rest)
         /\ \A i \in 1 .. (Len(calls) - n) + Len(rest) :
              Remaining(calls, n, rest)[i] =
                IF i <= Len(calls) - n THEN calls[n + i] ELSE rest[i - (Len(calls) - n)]
<1> DEFINE s == SubSeq(calls, n + 1, Len(calls))
<1>1. s \in Seq(Calls) /\ Len(s) = Len(calls) - n /\ \A i \in 1 .. Len(calls) - n : s[i] = calls[n + i]
  OBVIOUS
<1>2. Remaining(calls, n, rest) = s \o rest
  BY DEF Remaining
<1> HIDE DEF s
<1>3. /\ s \o rest \in Seq(Calls) /\ Len(s \o rest) = Len(s) + Len(rest)
      /\ \A i \in 1 .. Len(s) + Len(rest) :
           (s \o rest)[i] = IF i <= Len(s) THEN s[i] ELSE rest[i - Len(s)]
  BY <1>1, Concatenation
<1>4. Len(s) = Len(calls) - n
  BY <1>1
<1>5. /\ Len(s \o rest) = (Len(calls) - n) + Len(rest)
      /\ \A i \in 1 .. (Len(calls) - n) + Len(rest) :
           (s \o rest)[i] = IF i <= Len(calls) - n THEN s[i] ELSE rest[i - (Len(calls) - n)]
  BY <1>3, <1>4, Zenon
<1>6. ASSUME NEW i \in 1 .. (Len(calls) - n) + Len(rest)
      PROVE  (s \o rest)[i] = IF i <= Len(calls) - n THEN calls[n + i] ELSE rest[i - (Len(calls) - n)]
  BY <1>1, <1>5
<1> DEFINE t == s \o rest
<1>7. t \in Seq(Calls) /\ Len(t) = (Len(calls) - n) + Len(rest)
  BY <1>3, <1>5
<1>8. \A i \in 1 .. (Len(calls) - n) + Len(rest) :
        t[i] = IF i <= Len(calls) - n THEN calls[n + i] ELSE rest[i - (Len(calls) - n)]
  BY <1>6
<1> HIDE DEF t
<1> QED
  BY <1>2, <1>7, <1>8 DEF t

(* at first, at the end,                                                    *)
LEMMA RemainingFirst ==
  ASSUME NEW calls \in Seq(Calls), NEW rest \in Seq(Calls)
  PROVE  Remaining(calls, 0, rest) = calls \o rest /\ Remaining(calls, 0, << >>) = calls
<1>1. SubSeq(calls, 1, Len(calls)) = calls
  OBVIOUS
<1>2. 0 + 1 = 1 /\ calls \o << >> = calls
  BY ConcatEmptySeq
<1> QED
  BY <1>1, <1>2, Zenon DEF Remaining

LEMMA RemainingEnds ==
  ASSUME NEW calls \in Seq(Calls), NEW rest \in Seq(Calls), NEW n, n = Len(calls)
  PROVE  Remaining(calls, n, rest) = rest
<1>1. SubSeq(calls, Len(calls) + 1, Len(calls)) = << >>
  OBVIOUS
<1> QED
  BY <1>1 DEF Remaining

(* and in between.                                                          *)
LEMMA RemainingNext ==
  ASSUME NEW calls \in Seq(Calls), NEW rest \in Seq(Calls), NEW n \in 0 .. Len(calls) - 1,
         NEW t, t = Remaining(calls, n, rest)
  PROVE  t \in Seq(Calls) /\ t # << >> /\ Head(t) = calls[n + 1] /\ Tail(t) = Remaining(calls, n + 1, rest)
<1> DEFINE r == Remaining(calls, n, rest)
           q == Remaining(calls, n + 1, rest)
           m == (Len(calls) - n) + Len(rest)
<1>1. /\ r \in Seq(Calls) /\ Len(r) = m
      /\ \A i \in 1 .. m : r[i] = IF i <= Len(calls) - n THEN calls[n + i]
                                  ELSE rest[i - (Len(calls) - n)]
  <2>1. n \in 0 .. Len(calls)
    OBVIOUS
  <2> QED
    BY <2>1, RemainingElements
<1>2. /\ q \in Seq(Calls) /\ Len(q) = m - 1
      /\ \A i \in 1 .. m - 1 : q[i] = IF i <= (Len(calls) - n) - 1 THEN calls[n + 1 + i]
                                      ELSE rest[i - ((Len(calls) - n) - 1)]
  <2>1. n + 1 \in 0 .. Len(calls) /\ Len(calls) - (n + 1) = (Len(calls) - n) - 1
    OBVIOUS
  <2>2. /\ q \in Seq(Calls) /\ Len(q) = (Len(calls) - (n + 1)) + Len(rest)
        /\ \A i \in 1 .. (Len(calls) - (n + 1)) + Len(rest) :
             q[i] = IF i <= Len(calls) - (n + 1) THEN calls[n + 1 + i] ELSE rest[i - (Len(calls) - (n + 1))]
    BY <2>1, RemainingElements
  <2>3. (Len(calls) - (n + 1)) + Len(rest) = m - 1
    OBVIOUS
  <2> HIDE DEF q
  <2> QED
    BY <2>1, <2>2, <2>3, Zenon
<1>3. m \in Nat /\ m >= 1
  OBVIOUS
<1> HIDE DEF r, q, m
<1>4. r # << >> /\ Head(r) = r[1] /\ Tail(r) \in Seq(Calls) /\ Len(Tail(r)) = m - 1
  BY <1>1, <1>3
<1>5. r[1] = calls[n + 1]
  BY <1>1, <1>3
<1>6. ASSUME NEW i \in 1 .. m - 1 PROVE Tail(r)[i] = q[i]
  <2>1. Tail(r)[i] = r[i + 1] /\ i + 1 \in 1 .. m
    BY <1>1, <1>3
  <2>2. r[i + 1] = IF i + 1 <= Len(calls) - n THEN calls[n + (i + 1)]
                   ELSE rest[(i + 1) - (Len(calls) - n)]
    BY <2>1, <1>1
  <2>3. n + (i + 1) = n + 1 + i /\ (i + 1) - (Len(calls) - n) = i - ((Len(calls) - n) - 1)
        /\ (i + 1 <= Len(calls) - n <=> i <= (Len(calls) - n) - 1)
    BY <1>3
  <2> QED
    BY <2>1, <2>2, <2>3, <1>2
<1>7. Tail(r) = q
  <2>1. Len(q) = m - 1 /\ Len(Tail(r)) = m - 1
    BY <1>2, <1>4
  <2> QED
    BY <2>1, <1>2, <1>4, <1>6, SeqEqual
<1> QED
  BY <1>1, <1>4, <1>5, <1>7 DEF r, q

-----------------------------------------------------------------------------
(* The code of one instruction,                                             *)
LEMMA BytesOf ==
  ASSUME NEW opcode \in Nat
  PROVE  EmittedBytes(opcode) \in 2 .. 4
BY DEF EmittedBytes

LEMMA InstructionIs ==
  ASSUME NEW opcode \in Nat, NEW mark \in Marks
  PROVE  LET code == Instruction(opcode, mark)
         IN  /\ code \in Seq(Calls) /\ Len(code) = EmittedBytes(opcode)
             /\ \A j \in 1 .. EmittedBytes(opcode) :
                  code[j] = Byte(IF j = 1 THEN opcode ELSE 0, mark)
<1> DEFINE n == EmittedBytes(opcode)
<1>1. n \in Nat
  BY BytesOf
<1>2. Instruction(opcode, mark) = [j \in 1 .. n |-> Byte(IF j = 1 THEN opcode ELSE 0, mark)]
  BY DEF Instruction
<1> HIDE DEF n
<1>3. \A j \in 1 .. n : Byte(IF j = 1 THEN opcode ELSE 0, mark) \in Calls
  BY DEF Byte, Calls
<1> QED
  BY <1>1, <1>2, <1>3 DEF n

LEMMA ThreeParts ==
  ASSUME NEW S, NEW a \in Seq(S), NEW b \in Seq(S), NEW c \in Seq(S), NEW abc, abc = a \o b \o c
  PROVE  /\ abc \in Seq(S) /\ Len(abc) = Len(a) + Len(b) + Len(c)
         /\ \A i \in 1 .. Len(a) : abc[i] = a[i]
         /\ \A i \in 1 .. Len(b) : abc[Len(a) + i] = b[i]
         /\ \A i \in 1 .. Len(c) : abc[Len(a) + Len(b) + i] = c[i]
<1> DEFINE ab == a \o b
<1>1. Len(a) \in Nat /\ Len(b) \in Nat /\ Len(c) \in Nat
  OBVIOUS
<1>2. /\ ab \in Seq(S) /\ Len(ab) = Len(a) + Len(b)
      /\ \A k \in 1 .. Len(a) + Len(b) : ab[k] = IF k <= Len(a) THEN a[k] ELSE b[k - Len(a)]
  BY Concatenation
<1>0. abc = ab \o c
  OBVIOUS
<1> HIDE DEF ab
<1>3. /\ abc \in Seq(S) /\ Len(abc) = Len(ab) + Len(c)
      /\ \A k \in 1 .. Len(ab) + Len(c) : abc[k] = IF k <= Len(ab) THEN ab[k] ELSE c[k - Len(ab)]
  <2>1. ab \in Seq(S)
    BY <1>2
  <2> QED
    BY <2>1, <1>0, Concatenation
<1>4. ASSUME NEW i \in 1 .. Len(a) PROVE abc[i] = a[i]
  BY <1>1, <1>2, <1>3
<1>5. ASSUME NEW i \in 1 .. Len(b) PROVE abc[Len(a) + i] = b[i]
  <2>1. /\ Len(a) + i \in 1 .. Len(a) + Len(b) /\ Len(a) + i \in 1 .. Len(ab) + Len(c)
        /\ (Len(a) + i) - Len(a) = i /\ Len(a) + i <= Len(ab) /\ ~ (Len(a) + i <= Len(a))
    BY <1>1, <1>2
  <2> QED
    BY <2>1, <1>2, <1>3
<1>6. ASSUME NEW i \in 1 .. Len(c) PROVE abc[Len(a) + Len(b) + i] = c[i]
  <2>1. /\ Len(a) + Len(b) + i \in 1 .. Len(ab) + Len(c)
        /\ (Len(a) + Len(b) + i) - Len(ab) = i /\ ~ (Len(a) + Len(b) + i <= Len(ab))
    BY <1>1, <1>2
  <2> QED
    BY <2>1, <1>3
<1> QED
  BY <1>1, <1>2, <1>3, <1>4, <1>5, <1>6

(* of the instructions of a piece,                                          *)
LEMMA OwnCodeIs ==
  ASSUME NEW own \in Owns, NEW k \in Nat
  PROVE  /\ OwnCode(own, k) \in Seq(Calls)
         /\ Len(OwnCode(own, k)) = Cut(own, Len(own))
         /\ Cut(own, 0) = 0
         /\ \A n \in 0 .. Len(own) : Cut(own, n) \in Nat
         /\ \A n \in 0 .. Len(own) - 1 :
              /\ own[n + 1] \in Nat /\ InstructionSize(own[n + 1]) = EmittedBytes(own[n + 1])
              /\ EmittedBytes(own[n + 1]) \in 2 .. 4
              /\ Cut(own, n + 1) = Cut(own, n) + EmittedBytes(own[n + 1])
              /\ Cut(own, n + 1) <= Cut(own, Len(own))
              /\ \A j \in 0 .. EmittedBytes(own[n + 1]) - 1 :
                   OwnCode(own, k)[Cut(own, n) + j + 1] =
                     Byte(IF j = 0 THEN own[n + 1] ELSE 0, <<"piece", k>>)
<1> DEFINE mark == <<"piece", k>>
           size(n) == EmittedBytes(own[n])
           part(n) == Instruction(own[n], mark)
<1>1. mark \in Marks
  BY DEF Marks
<1>2. own \in Seq(Sized) /\ Len(own) \in {0, 1, 3}
  BY DEF Owns
<1>3. \A n \in 1 .. Len(own) : own[n] \in Sized
  BY <1>2
<1>4. \A n \in 1 .. Len(own) : own[n] \in Nat /\ InstructionSize(own[n]) = EmittedBytes(own[n])
  BY <1>3 DEF Sized
<1> HIDE DEF mark
<1>5. \A n \in 1 .. Len(own) : size(n) \in 2 .. 4
  BY <1>4, BytesOf
<1>6. \A n \in 1 .. Len(own) :
        /\ part(n) \in Seq(Calls) /\ Len(part(n)) = size(n)
        /\ \A j \in 1 .. size(n) : part(n)[j] = Byte(IF j = 1 THEN own[n] ELSE 0, mark)
  BY <1>1, <1>4, InstructionIs
<1>7. OwnCode(own, k) = IF Len(own) = 0 THEN << >> ELSE IF Len(own) = 1 THEN part(1)
                        ELSE part(1) \o part(2) \o part(3)
  BY DEF OwnCode, mark
<1>8. /\ Cut(own, 0) = 0 /\ Cut(own, 1) = size(1) /\ Cut(own, 2) = size(1) + size(2)
      /\ Cut(own, 3) = size(1) + size(2) + size(3)
  BY DEF Cut
<1> DEFINE code == OwnCode(own, k)
           at(n, j) == Byte(IF j = 0 THEN own[n + 1] ELSE 0, mark)
<1>9. /\ code \in Seq(Calls) /\ Len(code) = Cut(own, Len(own))
      /\ \A n \in 0 .. Len(own) - 1 : \A j \in 0 .. size(n + 1) - 1 :
           code[Cut(own, n) + j + 1] = at(n, j)
  <2>1. CASE Len(own) = 0
    BY <2>1, <1>7, <1>8
  <2>2. CASE Len(own) = 1
    <3>1. code = part(1) /\ 1 \in 1 .. Len(own)
      BY <2>2, <1>7
    <3> HIDE DEF code, part, size
    <3>2. code \in Seq(Calls) /\ Len(code) = size(1)
      BY <3>1, <1>6
    <3>3. ASSUME NEW j \in 0 .. size(1) - 1 PROVE code[j + 1] = at(0, j)
      <4>1. j + 1 \in 1 .. size(1) /\ (j + 1 = 1 <=> j = 0)
        BY <3>1, <1>5
      <4> QED
        BY <4>1, <3>1, <1>6
    <3> QED
      BY <2>2, <3>2, <3>3, <1>8, <1>5, <3>1
  <2>3. CASE Len(own) = 3
    <3>1. code = part(1) \o part(2) \o part(3) /\ {1, 2, 3} \subseteq 1 .. Len(own)
      BY <2>3, <1>7
    <3> HIDE DEF code, part
    <3>2. \A n \in {1, 2, 3} :
            /\ size(n) \in 2 .. 4
            /\ part(n) \in Seq(Calls) /\ Len(part(n)) = size(n)
            /\ \A j \in 0 .. size(n) - 1 : part(n)[j + 1] = at(n - 1, j)
      <4> SUFFICES ASSUME NEW n \in {1, 2, 3}
          PROVE  /\ size(n) \in 2 .. 4
                 /\ part(n) \in Seq(Calls) /\ Len(part(n)) = size(n)
                 /\ \A j \in 0 .. size(n) - 1 : part(n)[j + 1] = at(n - 1, j)
        OBVIOUS
      <4>1. n \in 1 .. Len(own)
        BY <3>1
      <4>2. size(n) \in 2 .. 4 /\ part(n) \in Seq(Calls) /\ Len(part(n)) = size(n)
        BY <4>1, <1>5, <1>6
      <4>3. ASSUME NEW j \in 0 .. size(n) - 1 PROVE part(n)[j + 1] = at(n - 1, j)
        <5>1. j + 1 \in 1 .. size(n) /\ (j + 1 = 1 <=> j = 0) /\ (n - 1) + 1 = n
          BY <4>2
        <5>2. part(n)[j + 1] = Byte(IF j + 1 = 1 THEN own[n] ELSE 0, mark)
          BY <4>1, <5>1, <1>6
        <5> QED
          BY <5>1, <5>2
      <4> QED
        BY <4>2, <4>3
    <3> HIDE DEF size, at
    <3>3. \A n \in {1, 2, 3} : size(n) \in Nat
      BY <3>2
    <3>4. /\ code \in Seq(Calls) /\ Len(code) = size(1) + size(2) + size(3)
          /\ \A i \in 1 .. size(1) : code[i] = part(1)[i]
          /\ \A i \in 1 .. size(2) : code[size(1) + i] = part(2)[i]
          /\ \A i \in 1 .. size(3) : code[size(1) + size(2) + i] = part(3)[i]
      <4> DEFINE a == part(1)  b == part(2)  c == part(3)
      <4>1. /\ a \in Seq(Calls) /\ Len(a) = size(1) /\ b \in Seq(Calls) /\ Len(b) = size(2)
            /\ c \in Seq(Calls) /\ Len(c) = size(3) /\ code = a \o b \o c
        BY <3>1, <3>2
      <4> HIDE DEF a, b, c
      <4>2. /\ code \in Seq(Calls) /\ Len(code) = Len(a) + Len(b) + Len(c)
            /\ \A i \in 1 .. Len(a) : code[i] = a[i]
            /\ \A i \in 1 .. Len(b) : code[Len(a) + i] = b[i]
            /\ \A i \in 1 .. Len(c) : code[Len(a) + Len(b) + i] = c[i]
        <5>1. a \in Seq(Calls) /\ b \in Seq(Calls) /\ c \in Seq(Calls)
          BY <4>1
        <5>2. code = a \o b \o c
          BY <4>1
        <5> QED
          BY <5>1, <5>2, ThreeParts
      <4> QED
        BY <4>1, <4>2 DEF a, b, c
    <3>5. ASSUME NEW j \in 0 .. size(1) - 1 PROVE code[0 + j + 1] = at(0, j)
      <4>1. j + 1 \in 1 .. size(1) /\ 0 + j + 1 = j + 1 /\ 1 - 1 = 0
        BY <3>3
      <4> QED
        BY <4>1, <3>2, <3>4
    <3>6. ASSUME NEW j \in 0 .. size(2) - 1 PROVE code[size(1) + j + 1] = at(1, j)
      <4>1. j + 1 \in 1 .. size(2) /\ size(1) + j + 1 = size(1) + (j + 1) /\ 2 - 1 = 1
        BY <3>3
      <4> QED
        BY <4>1, <3>2, <3>4
    <3>7. ASSUME NEW j \in 0 .. size(3) - 1 PROVE code[(size(1) + size(2)) + j + 1] = at(2, j)
      <4>1. j + 1 \in 1 .. size(3) /\ 3 - 1 = 2
            /\ (size(1) + size(2)) + j + 1 = size(1) + size(2) + (j + 1)
        BY <3>3
      <4> QED
        BY <4>1, <3>2, <3>4
    <3>8. ASSUME NEW n \in 0 .. Len(own) - 1, NEW j \in 0 .. size(n + 1) - 1
          PROVE  code[Cut(own, n) + j + 1] = at(n, j)
      <4>1. n \in {0, 1, 2}
        BY <2>3
      <4>2. CASE n = 0
        BY <4>2, <3>5, <1>8
      <4>3. CASE n = 1
        BY <4>3, <3>6, <1>8
      <4>4. CASE n = 2
        BY <4>4, <3>7, <1>8
      <4> QED
        BY <4>1, <4>2, <4>3, <4>4
    <3>9. Len(code) = Cut(own, Len(own))
      BY <2>3, <3>4, <1>8
    <3> QED
      BY <3>4, <3>8, <3>9 DEF at, size
  <2> QED
    BY <1>2, <2>1, <2>2, <2>3
<1>10. \A n \in 0 .. Len(own) : Cut(own, n) \in Nat
  BY <1>2, <1>5, <1>8
<1>11. ASSUME NEW n \in 0 .. Len(own) - 1
       PROVE  /\ own[n + 1] \in Nat /\ InstructionSize(own[n + 1]) = EmittedBytes(own[n + 1])
              /\ size(n + 1) \in 2 .. 4
              /\ Cut(own, n + 1) = Cut(own, n) + size(n + 1)
              /\ Cut(own, n + 1) <= Cut(own, Len(own))
  <2>1. n + 1 \in 1 .. Len(own) /\ Len(own) \in Nat
    BY <1>2
  <2>2. (n = 0 \/ n = 1 \/ n = 2) /\ (Len(own) = 1 => n = 0) /\ Len(own) # 0
    <3>1. Len(own) = 0 \/ Len(own) = 1 \/ Len(own) = 3
      BY <1>2
    <3>2. n \in Nat /\ n < Len(own)
      BY <2>1
    <3> DEFINE L == Len(own)
    <3>3. (L = 0 \/ L = 1 \/ L = 3) /\ n \in Nat /\ n < L
      BY <3>1, <3>2
    <3> HIDE DEF L
    <3>4. (n = 0 \/ n = 1 \/ n = 2) /\ (L = 1 => n = 0) /\ L # 0
      BY <3>3
    <3> QED
      BY <3>4 DEF L
  <2>3. /\ own[n + 1] \in Nat /\ InstructionSize(own[n + 1]) = EmittedBytes(own[n + 1])
        /\ size(n + 1) \in 2 .. 4
    BY <2>1, <1>4, <1>5
  <2> HIDE DEF size
  <2>4. CASE Len(own) = 1
    BY <2>1, <2>2, <2>3, <2>4, <1>8
  <2>5. CASE Len(own) = 3
    <3>1. size(1) \in 2 .. 4 /\ size(2) \in 2 .. 4 /\ size(3) \in 2 .. 4
      BY <2>5, <1>5
    <3>5. Cut(own, n + 1) = Cut(own, n) + size(n + 1) /\ Cut(own, n + 1) <= Cut(own, Len(own))
      <4>1. n = 0 \/ n = 1 \/ n = 2
        BY <2>2
      <4> QED
        BY <4>1, <3>1, <2>5, <1>8
    <3> QED
      BY <2>3, <3>5 DEF size
  <2> QED
    BY <2>1, <2>4, <2>5, <1>2
<1> QED
  BY <1>8, <1>9, <1>10, <1>11 DEF mark

LEMMA CutsAre ==
  ASSUME NEW own \in Owns, NEW n \in 0 .. Len(own) - 1
  PROVE  /\ EmittedBytes(own[n + 1]) \in 2 .. 4
         /\ InstructionSize(own[n + 1]) = EmittedBytes(own[n + 1])
         /\ Cut(own, n) \in Nat /\ Cut(own, n + 1) = Cut(own, n) + EmittedBytes(own[n + 1])
         /\ Cut(own, n + 1) <= Cut(own, Len(own)) /\ Cut(own, Len(own)) \in Nat
<1>1. Len(own) \in Nat /\ n \in 0 .. Len(own) /\ Len(own) \in 0 .. Len(own)
  BY DEF Owns
<1>2. PICK k : k = 0
  OBVIOUS
<1>3. k \in Nat
  BY <1>2
<1>4. /\ \A i \in 0 .. Len(own) : Cut(own, i) \in Nat
      /\ \A i \in 0 .. Len(own) - 1 :
              /\ own[i + 1] \in Nat /\ InstructionSize(own[i + 1]) = EmittedBytes(own[i + 1])
              /\ EmittedBytes(own[i + 1]) \in 2 .. 4
              /\ Cut(own, i + 1) = Cut(own, i) + EmittedBytes(own[i + 1])
              /\ Cut(own, i + 1) <= Cut(own, Len(own))
  BY <1>3, OwnCodeIs
<1> QED
  BY <1>1, <1>4

(* of a constant,                                                           *)
LEMMA ConstantCodeIs ==
  ASSUME NEW f \in Nat, NEW t \in Targets
  PROVE  /\ ConstantCode(f, t) \in Seq(Calls) /\ Len(ConstantCode(f, t)) = 12
         /\ \A b \in 0 .. 11 : \E v \in Nat :
              /\ ConstantCode(f, t)[b + 1] = Byte(v, <<"constant", f, b \div 4 + 1, t>>)
              /\ b % 4 = 0 => InstructionSize(v) = 4
<1> DEFINE mark(j) == <<"constant", f, j, t>>
           part(opcode, j) == [b \in 1 .. 4 |-> Byte(IF b = 1 THEN opcode ELSE 0, mark(j))]
           a == part(MoveImmediate, 1)
           b_ == part(ShiftImmediate, 2)
           c == part(MoveImmediate, 3)
           code == ConstantCode(f, t)
<1>1. code = a \o b_ \o c
  BY DEF ConstantCode
<1>2. \A j \in Nat : mark(j) \in Marks
  BY DEF Marks
<1>3. MoveImmediate \in Nat /\ ShiftImmediate \in Nat
      /\ InstructionSize(MoveImmediate) = 4 /\ InstructionSize(ShiftImmediate) = 4
  BY DEF MoveImmediate, ShiftImmediate, InstructionSize
<1> HIDE DEF mark
<1>4. ASSUME NEW opcode \in Nat, NEW j \in Nat
      PROVE  /\ part(opcode, j) \in Seq(Calls) /\ Len(part(opcode, j)) = 4
             /\ \A b \in 1 .. 4 : part(opcode, j)[b] = Byte(IF b = 1 THEN opcode ELSE 0, mark(j))
  <2>1. \A b \in 1 .. 4 : Byte(IF b = 1 THEN opcode ELSE 0, mark(j)) \in Calls
    BY <1>2 DEF Byte, Calls
  <2> QED
    BY <2>1
<1>5. /\ a \in Seq(Calls) /\ Len(a) = 4
      /\ \A b \in 1 .. 4 : a[b] = Byte(IF b = 1 THEN MoveImmediate ELSE 0, mark(1))
  BY <1>3, <1>4
<1>6. /\ b_ \in Seq(Calls) /\ Len(b_) = 4
      /\ \A b \in 1 .. 4 : b_[b] = Byte(IF b = 1 THEN ShiftImmediate ELSE 0, mark(2))
  BY <1>3, <1>4
<1>7. /\ c \in Seq(Calls) /\ Len(c) = 4
      /\ \A b \in 1 .. 4 : c[b] = Byte(IF b = 1 THEN MoveImmediate ELSE 0, mark(3))
  BY <1>3, <1>4
<1> HIDE DEF a, b_, c, code
<1>8. /\ code \in Seq(Calls) /\ Len(code) = Len(a) + Len(b_) + Len(c)
      /\ \A i \in 1 .. Len(a) : code[i] = a[i]
      /\ \A i \in 1 .. Len(b_) : code[Len(a) + i] = b_[i]
      /\ \A i \in 1 .. Len(c) : code[Len(a) + Len(b_) + i] = c[i]
  <2>1. a \in Seq(Calls) /\ b_ \in Seq(Calls) /\ c \in Seq(Calls)
    BY <1>5, <1>6, <1>7
  <2> QED
    BY <2>1, <1>1, ThreeParts
<1>9. /\ Len(code) = 12
      /\ \A i \in 1 .. 4 : code[i] = a[i] /\ code[4 + i] = b_[i] /\ code[8 + i] = c[i]
  BY <1>5, <1>6, <1>7, <1>8
<1>10. ASSUME NEW b \in 0 .. 11
       PROVE  \E v \in Nat : /\ code[b + 1] = Byte(v, mark(b \div 4 + 1))
                             /\ b % 4 = 0 => InstructionSize(v) = 4
  <2>1. CASE b \in 0 .. 3
    <3>1. b + 1 \in 1 .. 4 /\ b \div 4 + 1 = 1 /\ (b % 4 = 0 <=> b + 1 = 1)
      BY <2>1
    <3>2. code[b + 1] = Byte(IF b + 1 = 1 THEN MoveImmediate ELSE 0, mark(1))
      BY <3>1, <1>5, <1>9
    <3> QED
      BY <3>1, <3>2, <1>3
  <2>2. CASE b \in 4 .. 7
    <3>1. b - 3 \in 1 .. 4 /\ b \div 4 + 1 = 2 /\ (b % 4 = 0 <=> b - 3 = 1) /\ b + 1 = 4 + (b - 3)
      BY <2>2
    <3>2. code[b + 1] = Byte(IF b - 3 = 1 THEN ShiftImmediate ELSE 0, mark(2))
      BY <3>1, <1>6, <1>9
    <3> QED
      BY <3>1, <3>2, <1>3
  <2>3. CASE b \in 8 .. 11
    <3>1. b - 7 \in 1 .. 4 /\ b \div 4 + 1 = 3 /\ (b % 4 = 0 <=> b - 7 = 1) /\ b + 1 = 8 + (b - 7)
      BY <2>3
    <3>2. code[b + 1] = Byte(IF b - 7 = 1 THEN MoveImmediate ELSE 0, mark(3))
      BY <3>1, <1>7, <1>9
    <3> QED
      BY <3>1, <3>2, <1>3
  <2> QED
    BY <2>1, <2>2, <2>3
<1> QED
  BY <1>8, <1>9, <1>10 DEF code, mark

(* and of a global.                                                         *)
LEMMA RawsAre ==
  ASSUME NEW n \in Nat, NEW k \in Nat
  PROVE  /\ Raws(n, k) \in Seq(Calls) /\ Len(Raws(n, k)) = n
         /\ \A i \in 1 .. n : Raws(n, k)[i] = Raw(<<"piece", k>>)
<1>1. Raw(<<"piece", k>>) \in Calls
  BY DEF Raw, Calls, Marks
<1> QED
  BY <1>1 DEF Raws

-----------------------------------------------------------------------------
(* Sizes and places of pieces.                                              *)
LEMMA RoundedUpIs ==
  ASSUME NEW n \in Nat, NEW to \in {1, 2, 4}
  PROVE  LET up == RoundedUp(n, to)
         IN  /\ up \in Nat /\ n <= up /\ up % to = 0 /\ (to = 1 => up = n)
             /\ \A p \in n .. up : p % to = 0 => p = up
<1>1. CASE to = 1
  BY <1>1 DEF RoundedUp
<1>2. CASE to = 2
  <2>1. RoundedUp(n, 2) = ((n + 1) \div 2) * 2
    BY DEF RoundedUp
  <2> QED
    BY <1>2, <2>1
<1>3. CASE to = 4
  <2>1. RoundedUp(n, 4) = ((n + 3) \div 4) * 4
    BY DEF RoundedUp
  <2> QED
    BY <1>3, <2>1
<1> QED
  BY <1>1, <1>2, <1>3

LEMMA OwnBytesIs ==
  ASSUME NEW own \in Owns
  PROVE  OwnBytes(own) = Cut(own, Len(own))
<1> DEFINE N == Len(own)
           bytes == CHOOSE f : f = [n \in 0 .. N |-> IF n = 0 THEN 0 ELSE f[n-1] + InstructionSize(own[n])]
           add == [n \in 1 .. N |-> [v \in Nat |-> v + EmittedBytes(own[n])]]
<1>1. N \in {0, 1, 3} /\ \A n \in 1 .. N : own[n] \in Sized
  BY DEF Owns
<1>2. \A n \in 1 .. N : own[n] \in Nat /\ InstructionSize(own[n]) = EmittedBytes(own[n])
  BY <1>1 DEF Sized
<1>3. \A n \in 1 .. N : EmittedBytes(own[n]) \in Nat
  BY <1>2, BytesOf
<1>4. add \in [1 .. N -> [Nat -> Nat]]
  BY <1>3
<1>5. PICK f \in [0 .. N -> Nat] : Solves(f, N, 0, add)
  <2> HIDE DEF add, N
  <2>1. N \in Nat /\ 0 \in Nat
    BY <1>1
  <2> QED
    BY <2>1, <1>4, RecursionExists
<1>6. f = [n \in 0 .. N |-> IF n = 0 THEN 0 ELSE f[n-1] + InstructionSize(own[n])]
  <2>1. ASSUME NEW n \in 0 .. N, n # 0 PROVE add[n][f[n - 1]] = f[n - 1] + InstructionSize(own[n])
    <3>1. n \in 1 .. N /\ n - 1 \in 0 .. N /\ f[n - 1] \in Nat
      BY <2>1, <1>1
    <3> QED
      BY <3>1, <1>2
  <2>2. f = [n \in 0 .. N |-> IF n = 0 THEN 0 ELSE add[n][f[n - 1]]]
    BY <1>5 DEF Solves
  <2> HIDE DEF add
  <2> QED
    BY <2>1, <2>2
<1>7. bytes = [n \in 0 .. N |-> IF n = 0 THEN 0 ELSE bytes[n-1] + InstructionSize(own[n])]
  BY <1>6, Zenon
<1>8. OwnBytes(own) = bytes[N]
  BY DEF OwnBytes
<1> HIDE DEF bytes, add, N
<1>9. bytes[0] = 0 /\ \A n \in 1 .. N : bytes[n] = bytes[n - 1] + EmittedBytes(own[n])
  <2>1. N \in Nat
    BY <1>1
  <2> QED
    BY <2>1, <1>2, <1>7
<1>10. N = 0 \/ N = 1 \/ N = 3
  BY <1>1
<1>11. CASE N = 0
  BY <1>11, <1>8, <1>9 DEF Cut, N
<1>12. CASE N = 1
  <2>1. bytes[1] = EmittedBytes(own[1]) /\ Cut(own, N) = EmittedBytes(own[1])
    BY <1>12, <1>3, <1>9 DEF Cut
  <2> QED
    BY <2>1, <1>12, <1>8 DEF N
<1>13. CASE N = 3
  <2>1. {1, 2, 3} \subseteq 1 .. N /\ 2 - 1 = 1 /\ 3 - 1 = 2 /\ 1 - 1 = 0
    BY <1>13
  <2>2. /\ bytes[1] = 0 + EmittedBytes(own[1]) /\ bytes[2] = bytes[1] + EmittedBytes(own[2])
        /\ bytes[3] = bytes[2] + EmittedBytes(own[3])
    BY <2>1, <1>9
  <2>3. Cut(own, 3) = EmittedBytes(own[1]) + EmittedBytes(own[2]) + EmittedBytes(own[3])
    BY DEF Cut
  <2>4. bytes[3] = Cut(own, 3)
    BY <2>1, <2>2, <2>3, <1>3
  <2> QED
    BY <2>4, <1>13, <1>8 DEF N
<1> QED
  BY <1>10, <1>11, <1>12, <1>13

AnyPieces == Seq(AnyCode \cup AnyData)

LEMMA SizeIs ==
  ASSUME NEW piece \in AnyCode \cup AnyData, NEW wide \in BOOLEAN
  PROVE  /\ piece.align \in {1, 2, 4} /\ piece.at \in Nat /\ Size(piece, wide) \in Nat
         /\ piece \in AnyData => Size(piece, wide) = piece.own
         /\ piece \in AnyCode =>
              /\ piece.align = 1 /\ piece.own \in Owns
              /\ Size(piece, wide) = Lead(piece) + (IF wide THEN 4 * Len(piece.own)
                                                    ELSE Cut(piece.own, Len(piece.own)))
<1>1. CASE piece \in AnyData
  <2>1. ~ (piece \in AnyCode)
    BY <1>1 DEF AnyData, AnyCode, DataKinds, CodeKinds
  <2> QED
    BY <1>1, <2>1 DEF AnyData, DataKinds, Size
<1>2. CASE piece \in AnyCode
  <2>1. piece.own \in Owns /\ piece.align = 1 /\ piece.at \in Nat /\ piece.kind \notin {"global", "pointer"}
    BY <1>2 DEF AnyCode, CodeKinds
  <2>2. ~ (piece \in AnyData)
    BY <1>2 DEF AnyData, AnyCode, DataKinds, CodeKinds
  <2>3. Size(piece, wide) = Lead(piece) + (IF wide THEN 4 * Len(piece.own)
                                           ELSE Cut(piece.own, Len(piece.own)))
    BY <2>1, OwnBytesIs DEF Size
  <2>4. Len(piece.own) \in Nat /\ Cut(piece.own, Len(piece.own)) \in Nat
    <3>1. Len(piece.own) \in Nat
      BY <2>1 DEF Owns
    <3>2. Len(piece.own) \in 0 .. Len(piece.own)
      BY <3>1
    <3>3. \A n \in 0 .. Len(piece.own) : Cut(piece.own, n) \in Nat
      BY <2>1, OwnCodeIs
    <3> QED
      BY <3>1, <3>2, <3>3
  <2> QED
    BY <2>1, <2>2, <2>3, <2>4 DEF Lead
<1> QED
  BY <1>1, <1>2

(* Where each piece of a list ends,                                         *)
LEMMA EndsAre ==
  ASSUME NEW list \in AnyPieces, NEW wide \in BOOLEAN
  PROVE  /\ EndsOf(list, wide)[0] = 0
         /\ \A k \in 0 .. Len(list) : EndsOf(list, wide)[k] \in Nat
         /\ \A k \in 1 .. Len(list) :
              EndsOf(list, wide)[k] =
                RoundedUp(EndsOf(list, wide)[k-1], list[k].align) + Size(list[k], wide)
<1> DEFINE N == Len(list)
           ends == CHOOSE f : f = [k \in 0 .. N |->
                     IF k = 0 THEN 0 ELSE RoundedUp(f[k-1], list[k].align) + Size(list[k], wide)]
           add == [k \in 1 .. N |-> [v \in Nat |-> RoundedUp(v, list[k].align) + Size(list[k], wide)]]
<1>1. N \in Nat /\ \A k \in 1 .. N : list[k] \in AnyCode \cup AnyData
  BY DEF AnyPieces
<1>2. \A k \in 1 .. N : list[k].align \in {1, 2, 4} /\ Size(list[k], wide) \in Nat
  BY <1>1, SizeIs
<1>3. ASSUME NEW k \in 1 .. N, NEW v \in Nat
      PROVE  RoundedUp(v, list[k].align) + Size(list[k], wide) \in Nat
  <2>1. RoundedUp(v, list[k].align) \in Nat
    BY <1>2, RoundedUpIs
  <2> QED
    BY <2>1, <1>2
<1>4. add \in [1 .. N -> [Nat -> Nat]]
  BY <1>3
<1>5. PICK f \in [0 .. N -> Nat] : Solves(f, N, 0, add)
  <2> HIDE DEF add, N
  <2> QED
    BY <1>1, <1>4, RecursionExists
<1>6. f = [k \in 0 .. N |-> IF k = 0 THEN 0 ELSE RoundedUp(f[k-1], list[k].align) + Size(list[k], wide)]
  <2>1. ASSUME NEW k \in 0 .. N, k # 0
        PROVE  add[k][f[k - 1]] = RoundedUp(f[k-1], list[k].align) + Size(list[k], wide)
    <3>1. k \in 1 .. N /\ k - 1 \in 0 .. N /\ f[k - 1] \in Nat
      BY <2>1, <1>1
    <3> QED
      BY <3>1
  <2>2. f = [k \in 0 .. N |-> IF k = 0 THEN 0 ELSE add[k][f[k - 1]]]
    BY <1>5 DEF Solves
  <2> HIDE DEF add
  <2> QED
    BY <2>1, <2>2
<1>7. ends = [k \in 0 .. N |->
                IF k = 0 THEN 0 ELSE RoundedUp(ends[k-1], list[k].align) + Size(list[k], wide)]
  BY <1>6, Zenon
<1>8. EndsOf(list, wide) = ends
  BY DEF EndsOf
<1> HIDE DEF ends
<1>9. Solves(ends, N, 0, add)
  <2>1. \A k \in 0 .. N : ends[k] = IF k = 0 THEN 0
                                    ELSE RoundedUp(ends[k-1], list[k].align) + Size(list[k], wide)
    BY <1>7
  <2>2. \A k \in 0 .. N : ends[k] \in Nat
    <3> DEFINE Bad == {k \in 0 .. N : ~ (ends[k] \in Nat)}
    <3>1. ASSUME NEW k \in Bad, \A j \in Bad : k <= j PROVE FALSE
      <4>1. k \in 0 .. N /\ k # 0 /\ ~ (ends[k] \in Nat)
        BY <2>1
      <4>2. k - 1 \in 0 .. N /\ ~ (k <= k - 1) /\ k \in 1 .. N
        BY <4>1, <1>1
      <4>3. ends[k - 1] \in Nat
        BY <3>1, <4>2
      <4> QED
        BY <4>1, <4>2, <4>3, <2>1, <1>3
    <3>2. Bad \subseteq Nat
      BY <1>1
    <3>3. Bad = {}
      <4> HIDE DEF Bad
      <4> QED
        BY <3>1, <3>2, LeastExists
    <3> QED
      BY <3>3
  <2>3. \A k \in 0 .. N : k # 0 =>
          add[k][ends[k-1]] = RoundedUp(ends[k-1], list[k].align) + Size(list[k], wide)
    <3>1. \A k \in 0 .. N : k # 0 => k \in 1 .. N /\ k - 1 \in 0 .. N
      BY <1>1
    <3> QED
      BY <3>1, <2>2
  <2> HIDE DEF add
  <2>4. ends = [k \in 0 .. N |-> IF k = 0 THEN 0 ELSE add[k][ends[k-1]]]
    BY <1>7, <2>3
  <2> QED
    BY <2>4 DEF Solves
<1>10. ends \in [0 .. N -> Nat]
  <2> HIDE DEF add, N
  <2> QED
    BY <1>1, <1>4, <1>9, RecursionTyped
<1>11. \A k \in 1 .. N : k \in 0 .. N /\ k # 0
  BY <1>1
<1>12. 0 \in 0 .. N
  BY <1>1
<1>13. ends[0] = 0
  BY <1>7, <1>12
<1>14. \A k \in 1 .. N : ends[k] = RoundedUp(ends[k-1], list[k].align) + Size(list[k], wide)
  BY <1>7, <1>11
<1>15. \A k \in 0 .. N : ends[k] \in Nat
  BY <1>10
<1> QED
  BY <1>8, <1>13, <1>14, <1>15

(* which only depends on sizes and alignments, and not on what comes after. *)
LEMMA EndsAgree ==
  ASSUME NEW list \in AnyPieces, NEW more \in AnyPieces, NEW wide \in BOOLEAN,
         Len(list) <= Len(more),
         \A k \in 1 .. Len(list) : /\ more[k].align = list[k].align
                                   /\ Size(more[k], wide) = Size(list[k], wide)
  PROVE  \A k \in 0 .. Len(list) : EndsOf(more, wide)[k] = EndsOf(list, wide)[k]
<1> DEFINE f == EndsOf(more, wide)
           g == EndsOf(list, wide)
           N == Len(list)
<1>1. N \in Nat /\ Len(more) \in Nat
  BY DEF AnyPieces
<1>2. f[0] = g[0]
  BY EndsAre
<1>3. ASSUME NEW k \in 0 .. N - 1, f[k] = g[k] PROVE f[k + 1] = g[k + 1]
  <2>1. k + 1 \in 1 .. Len(list) /\ k + 1 \in 1 .. Len(more) /\ (k + 1) - 1 = k
    BY <1>1
  <2>2. f[k + 1] = RoundedUp(f[k], more[k + 1].align) + Size(more[k + 1], wide)
    BY <2>1, EndsAre
  <2>3. g[k + 1] = RoundedUp(g[k], list[k + 1].align) + Size(list[k + 1], wide)
    BY <2>1, EndsAre
  <2> HIDE DEF f, g, N
  <2> QED
    BY <1>3, <2>1, <2>2, <2>3
<1>4. \A k \in 0 .. N : f[k] = g[k]
  <2> HIDE DEF f, g, N
  <2> QED
    <3>1. N \in Nat /\ \A k \in 0 .. N - 1 : f[k] = g[k] => f[k + 1] = g[k + 1]
      BY <1>1, <1>3
    <3> QED
      BY <3>1, <1>2, SameByInduction, Zenon
<1> QED
  BY <1>4

-----------------------------------------------------------------------------
(* What a byte of the image can be marked with.                             *)
LEMMA MarksApart ==
  /\ \A k : Empty # <<"piece", k>>
  /\ \A k, t : Empty # <<"pointer", k, t>>
  /\ \A f, j, t : Empty # <<"constant", f, j, t>>
  /\ \A k : Pad # <<"piece", k>>
  /\ \A k, l, t : <<"piece", k>> # <<"pointer", l, t>>
  /\ \A k, f, j, t : <<"piece", k>> # <<"constant", f, j, t>>
  /\ \A k, s, f, j, t : <<"pointer", k, s>> # <<"constant", f, j, t>>
  /\ \A k, l : <<"piece", k>> = <<"piece", l>> => k = l
  /\ \A k, l, s, t : <<"pointer", k, s>> = <<"pointer", l, t>> => k = l
  /\ \A f, g, i, j, s, t : <<"constant", f, i, s>> = <<"constant", g, j, t>> => f = g
<1>1. /\ Empty[1] = "empty" /\ Pad[1] = "pad"
      /\ \A k : <<"piece", k>>[1] = "piece" /\ <<"piece", k>>[2] = k
      /\ \A k, t : <<"pointer", k, t>>[1] = "pointer" /\ <<"pointer", k, t>>[2] = k
      /\ \A f, j, t : <<"constant", f, j, t>>[1] = "constant" /\ <<"constant", f, j, t>>[2] = f
  BY DEF Empty, Pad
<1>2. /\ "empty" # "piece" /\ "empty" # "pointer" /\ "empty" # "constant" /\ "pad" # "piece"
      /\ "piece" # "pointer" /\ "piece" # "constant" /\ "pointer" # "constant"
  OBVIOUS
<1>3. (\A k : Empty # <<"piece", k>>) /\ (\A k : Pad # <<"piece", k>>)
  BY <1>1, <1>2
<1>4. (\A k, t : Empty # <<"pointer", k, t>>) /\ (\A f, j, t : Empty # <<"constant", f, j, t>>)
  BY <1>1, <1>2
<1>5. /\ \A k, l, t : <<"piece", k>> # <<"pointer", l, t>>
      /\ \A k, f, j, t : <<"piece", k>> # <<"constant", f, j, t>>
  BY <1>1, <1>2
<1>6. \A k, s, f, j, t : <<"pointer", k, s>> # <<"constant", f, j, t>>
  BY <1>1, <1>2
<1>7. \A k, l : <<"piece", k>> = <<"piece", l>> => k = l
  BY <1>1, Zenon
<1>8. \A k, l, s, t : <<"pointer", k, s>> = <<"pointer", l, t>> => k = l
  BY <1>1, Zenon
<1>9. \A f, g, i, j, s, t : <<"constant", f, i, s>> = <<"constant", g, j, t>> => f = g
  BY <1>1, Zenon
<1> QED
  BY <1>3, <1>4, <1>5, <1>6, <1>7, <1>8, <1>9, Zenon

(* A byte is written where there is nothing, or a byte of constant f.       *)
Stamped(f, p, mark) == p \in DOMAIN output /\ Lendable(f, p) /\ output' = Put(p, 1, mark)

LEMMA StampIs ==
  ASSUME EmitTyped, NEW f, NEW p, NEW mark, Stamped(f, p, mark)
  PROVE  /\ p \in 0 .. capacity - 1 /\ DOMAIN output' = DOMAIN output /\ output'[p] = mark
         /\ \A i \in DOMAIN output : i # p => output'[i] = output[i]
         /\ \A k : output[p] # <<"piece", k>>
         /\ \A k, t : output[p] # <<"pointer", k, t>>
         /\ \A g, j, t : g # f => output[p] # <<"constant", g, j, t>>
<1>1. p \in 0 .. capacity - 1 /\ DOMAIN output = 0 .. capacity - 1 /\ capacity \in Nat
  BY DEF Stamped, EmitTyped
<1>2. p .. p + 1 - 1 = {p}
  BY <1>1
<1>3. output' = [i \in DOMAIN output |-> IF i = p THEN mark ELSE output[i]]
  <2>1. DOMAIN output \cup {p} = DOMAIN output
    BY <1>1
  <2> QED
    BY <1>2, <2>1 DEF Stamped, Put
<1>4. output[p] = Empty \/ \E j, t : output[p] = <<"constant", f, j, t>>
  BY DEF Stamped, Lendable
<1>5. /\ \A k : output[p] # <<"piece", k>>
      /\ \A k, t : output[p] # <<"pointer", k, t>>
      /\ \A g, j, t : g # f => output[p] # <<"constant", g, j, t>>
  <2>1. CASE output[p] = Empty
    BY <2>1, MarksApart
  <2>2. CASE \E j, t : output[p] = <<"constant", f, j, t>>
    <3>1. PICK j, t : output[p] = <<"constant", f, j, t>>
      BY <2>2
    <3>2. \A k : output[p] # <<"piece", k>>
      BY <3>1, MarksApart
    <3>3. \A k, s : output[p] # <<"pointer", k, s>>
      BY <3>1, MarksApart
    <3>4. \A g, i, s : g # f => output[p] # <<"constant", g, i, s>>
      BY <3>1, MarksApart
    <3> QED
      BY <3>2, <3>3, <3>4
  <2> QED
    BY <1>4, <2>1, <2>2
<1> QED
  BY <1>1, <1>3, <1>5

LEMMA PieceTypes ==
  ASSUME EmitTyped
  PROVE  /\ Len(pieces) \in Nat /\ DOMAIN pieces = 1 .. Len(pieces) /\ pieces \in AnyPieces
         /\ \A k \in 1 .. Len(pieces) :
              /\ pieces[k] \in AnyCode \cup AnyData /\ pieces[k].at \in Nat
              /\ pieces[k].align \in {1, 2, 4} /\ Size(pieces[k], symphony) \in Nat
              /\ stage = "code" => pieces[k] \in AnyCode
         /\ Len(fixups) \in Nat /\ DOMAIN fixups = 1 .. Len(fixups)
         /\ \A f \in 1 .. Len(fixups) : fixups[f] \in AnyFixup
<1>1. Len(pieces) \in Nat /\ DOMAIN pieces = 1 .. Len(pieces) /\ pieces \in AnyPieces
  BY DEF EmitTyped, AnyPieces
<1>2. \A k \in 1 .. Len(pieces) : pieces[k] \in AnyCode \cup AnyData
  BY DEF EmitTyped
<1>3. symphony \in BOOLEAN
  BY DEF EmitTyped
<1>4. Len(fixups) \in Nat /\ DOMAIN fixups = 1 .. Len(fixups)
      /\ \A f \in 1 .. Len(fixups) : fixups[f] \in AnyFixup
  BY DEF EmitTyped
<1>5. stage = "code" => \A k \in 1 .. Len(pieces) : pieces[k] \in AnyCode
  BY <1>1 DEF EmitTyped
<1> QED
  BY <1>1, <1>2, <1>3, <1>4, <1>5, SizeIs

(* A piece stays whole, where its bytes and what is known of it stay.       *)
LEMMA WholeKept ==
  ASSUME NEW k, Whole(k), StartOf(k)' = StartOf(k), Ends'[k] = Ends[k], pieces'[k] = pieces[k],
         capacity' = capacity, OwnCells(k)' = OwnCells(k),
         StartOf(k) + 4 <= capacity => \A t : PointerIs(k, t) => PointerIs(k, t)'
  PROVE  Whole(k)'
<1>1. pieces'[k].at = StartOf(k)'
  BY DEF Whole
<1>2. CASE pieces[k].kind \in CodeKinds
  BY <1>1, <1>2 DEF Whole, WholeCode
<1>3. CASE pieces[k].kind \notin CodeKinds
  BY <1>1, <1>3 DEF Whole, WholeData
<1> QED
  BY <1>2, <1>3

(* What such a byte changes, and what it does not.                          *)
LEMMA StampKeepsPieces ==
  ASSUME EmitTyped, NEW f, NEW p, NEW mark, Stamped(f, p, mark), UNCHANGED <<fixed, pieces>>
  PROVE  /\ \A k : mark # <<"piece", k>> => OwnCells(k)' = OwnCells(k)
         /\ \A k : mark = <<"piece", k>> => OwnCells(k)' = OwnCells(k) \cup {p}
         /\ \A n \in Nat : n <= Len(pieces) /\ WholeUpTo(n) /\ (\A k \in 1 .. n : mark # <<"piece", k>>)
                     => WholeUpTo(n)'
<1>1. /\ DOMAIN output' = DOMAIN output /\ output'[p] = mark /\ p \in DOMAIN output
      /\ \A i \in DOMAIN output : i # p => output'[i] = output[i]
      /\ \A k : output[p] # <<"piece", k>>
      /\ \A k, t : output[p] # <<"pointer", k, t>>
  BY StampIs DEF Stamped
<1>2. ASSUME NEW k, mark # <<"piece", k>> PROVE OwnCells(k)' = OwnCells(k)
  <2>1. \A i \in DOMAIN output : output'[i] = <<"piece", k>> <=> output[i] = <<"piece", k>>
    BY <1>1, <1>2
  <2> QED
    BY <1>1, <2>1 DEF OwnCells
<1>3. ASSUME NEW k, mark = <<"piece", k>> PROVE OwnCells(k)' = OwnCells(k) \cup {p}
  <2>1. \A i \in DOMAIN output : output'[i] = <<"piece", k>> <=> output[i] = <<"piece", k>> \/ i = p
    BY <1>1, <1>3
  <2> QED
    BY <1>1, <2>1 DEF OwnCells
<1>4. ASSUME NEW n \in Nat, n <= Len(pieces), WholeUpTo(n), \A k \in 1 .. n : mark # <<"piece", k>>,
             NEW k \in 1 .. n
      PROVE  Whole(k)'
  <2>1. Ends' = Ends /\ StartOf(k)' = StartOf(k)
    BY DEF Ends, StartOf, EndsOf, fixed
  <2>2. OwnCells(k)' = OwnCells(k) /\ Whole(k)
    BY <1>2, <1>4 DEF WholeUpTo
  <2>3. ASSUME StartOf(k) + 4 <= capacity, NEW t, PointerIs(k, t) PROVE PointerIs(k, t)'
    <3>0. StartOf(k) \in Nat
      BY <2>2, PieceTypes, <1>4 DEF Whole
    <3>1. ASSUME NEW b \in 0 .. 3 PROVE output'[StartOf(k) + b] = <<"pointer", k, t>>
      <4>1. output[StartOf(k) + b] = <<"pointer", k, t>>
        BY <2>3 DEF PointerIs
      <4>2. StartOf(k) + b # p
        BY <4>1, <1>1
      <4>3. StartOf(k) + b \in DOMAIN output
        BY <3>0, <2>3 DEF EmitTyped
      <4> QED
        BY <4>1, <4>2, <4>3, <1>1
    <3> QED
      BY <3>1, <2>1 DEF PointerIs
  <2> QED
    BY <2>1, <2>2, <2>3, WholeKept DEF fixed
<1> QED
  BY <1>2, <1>3, <1>4 DEF WholeUpTo

LEMMA StampKeepsConstants ==
  ASSUME EmitTyped, NEW f, NEW p, NEW mark, Stamped(f, p, mark), UNCHANGED <<fixed, fixups>>,
         NEW front \in Nat, Filled(front)
  PROVE  /\ ConstantsBut(f) => ConstantsBut(f)'
         /\ p < front => Filled(front)'
         /\ p = front => Filled(front + 1)'
<1>1. /\ DOMAIN output' = DOMAIN output /\ p \in Nat /\ p \in DOMAIN output
      /\ \A i \in DOMAIN output : i # p => output'[i] = output[i]
      /\ \A g, j, t : g # f => output[p] # <<"constant", g, j, t>>
  BY StampIs DEF Stamped
<1>2. \A g \in DOMAIN fixups : fixups[g].at \in Nat
  BY PieceTypes DEF AnyFixup
<1>3. ASSUME ConstantsBut(f) PROVE ConstantsBut(f)'
  <2>1. ASSUME NEW g \in DOMAIN fixups, g # f, NEW b \in 0 .. 11
        PROVE  output'[fixups[g].at + b] = <<"constant", g, b \div 4 + 1, fixups[g].target>>
    <3>1. output[fixups[g].at + b] = <<"constant", g, b \div 4 + 1, fixups[g].target>>
      BY <1>3, <2>1 DEF ConstantsBut, ConstantIs
    <3>2. fixups[g].at + b \in DOMAIN output
      <4>1. fixups[g].at + 12 <= capacity
        BY <2>1 DEF Filled, Placed
      <4>2. capacity \in Nat /\ DOMAIN output = 0 .. capacity - 1
        BY DEF EmitTyped
      <4>3. fixups[g].at \in Nat
        BY <1>2
      <4>4. fixups[g].at + b \in 0 .. capacity - 1
        BY <4>1, <4>2, <4>3, TwelveBelow
      <4> QED
        BY <4>2, <4>4
    <3>3. fixups[g].at + b # p
      BY <3>1, <1>1, <2>1
    <3> QED
      BY <3>1, <3>2, <3>3, <1>1
  <2> QED
    BY <2>1 DEF ConstantsBut, ConstantIs
<1>4. /\ \A i \in DOMAIN output : i >= front => output[i] = Empty
      /\ \A g \in DOMAIN fixups : Placed(g, front)
  BY DEF Filled, Blank
<1>5. DOMAIN output \subseteq Nat
  BY DEF EmitTyped
<1>6. ASSUME p < front PROVE Filled(front)'
  <2>1. \A i \in DOMAIN output' : i >= front => output'[i] = Empty
    BY <1>1, <1>4, <1>5, <1>6
  <2> QED
    BY <2>1, <1>4 DEF Filled, Blank, Placed, fixed
<1>7. ASSUME p = front PROVE Filled(front + 1)'
  <2>1. \A i \in DOMAIN output' : i >= front + 1 => output'[i] = Empty
    BY <1>1, <1>4, <1>5, <1>7
  <2>2. ASSUME NEW g \in DOMAIN fixups PROVE Placed(g, front + 1)'
    <3>1. Placed(g, front) /\ fixups[g].at \in Nat
      BY <1>2, <1>4
    <3> QED
      BY <3>1 DEF Placed, fixed
  <2> QED
    BY <2>1, <2>2 DEF Filled, Blank
<1> QED
  BY <1>3, <1>6, <1>7

(* The next byte of a constant that is being patched,                       *)
LEMMA StampLends ==
  ASSUME EmitTyped, NEW f \in DOMAIN fixups, NEW n \in 0 .. 11, UNCHANGED <<fixed, fixups>>,
         Stamped(f, fixups[f].at + n, <<"constant", f, n \div 4 + 1, fixups[f].target>>),
         Lent(f, n), fixups[f].at + 12 <= capacity
  PROVE  Lent(f, n + 1)'
<1> DEFINE at == fixups[f].at
<1>1. at \in Nat /\ at + 12 <= capacity /\ capacity \in Nat /\ DOMAIN output = 0 .. capacity - 1
  <2>1. fixups[f] \in AnyFixup
    BY PieceTypes
  <2> QED
    BY <2>1 DEF AnyFixup, EmitTyped
<1>2. /\ DOMAIN output' = DOMAIN output
      /\ output'[at + n] = <<"constant", f, n \div 4 + 1, fixups[f].target>>
      /\ \A i \in DOMAIN output : i # at + n => output'[i] = output[i]
  BY StampIs
<1>3. \A b \in 0 .. 11 : at + b \in DOMAIN output /\ (at + b = at + n <=> b = n)
  <2> HIDE DEF at
  <2>1. \A b \in 0 .. 11 : at + b \in 0 .. capacity - 1
    BY <1>1, TwelveBelow
  <2>2. \A b \in 0 .. 11 : at + b = at + n <=> b = n
    <3>1. at \in Nat
      BY <1>1
    <3> QED
      BY <3>1
  <2>3. DOMAIN output = 0 .. capacity - 1
    BY <1>1
  <2> QED
    BY <2>1, <2>2, <2>3
<1> HIDE DEF at
<1>4. ASSUME NEW b \in 0 .. n
      PROVE  output'[at + b] = <<"constant", f, b \div 4 + 1, fixups[f].target>>
  <2>1. CASE b = n
    BY <2>1, <1>2
  <2>2. CASE b # n
    <3>1. b \in 0 .. n - 1 /\ b \in 0 .. 11
      BY <2>2
    <3>2. output'[at + b] = output[at + b]
      BY <3>1, <2>2, <1>2, <1>3
    <3> QED
      BY <3>1, <3>2 DEF Lent, at
  <2> QED
    BY <2>1, <2>2
<1>5. ASSUME NEW b \in n + 1 .. 11 PROVE Lendable(f, at + b)'
  <2>1. b \in n .. 11 /\ b \in 0 .. 11 /\ b # n
    OBVIOUS
  <2>2. output'[at + b] = output[at + b]
    BY <2>1, <1>2, <1>3
  <2>3. Lendable(f, at + b)
    BY <2>1 DEF Lent, at
  <2> QED
    BY <2>2, <2>3 DEF Lendable, at
<1>6. (n + 1) - 1 = n
  OBVIOUS
<1> QED
  BY <1>4, <1>5, <1>6 DEF Lent, Lendable, at

(* until it is a constant as the others.                                    *)
LEMMA LentWhole ==
  ASSUME NEW f, Lent(f, 12), ConstantsBut(f), EmitTyped
  PROVE  AllConstants
<1>1. ASSUME NEW b \in 0 .. 11
      PROVE  output[fixups[f].at + b] = <<"constant", f, b \div 4 + 1, fixups[f].target>>
  <2>1. b \in 0 .. 12 - 1
    OBVIOUS
  <2> QED
    BY <2>1 DEF Lent
<1>2. ConstantIs(f, fixups[f].target)
  BY <1>1 DEF ConstantIs
<1> QED
  BY <1>2 DEF ConstantsBut, AllConstants

(* Pieces that come later do not change where those before them end.        *)
LEMMA EndsKept ==
  ASSUME EmitTyped, pieces' \in AnyPieces, symphony' = symphony, Len(pieces) <= Len(pieces'),
         \A k \in 1 .. Len(pieces) :
           /\ pieces'[k].align = pieces[k].align /\ pieces'[k].own = pieces[k].own
           /\ pieces'[k].kind = pieces[k].kind
  PROVE  /\ \A k \in 0 .. Len(pieces) : Ends'[k] = Ends[k]
         /\ \A k \in 1 .. Len(pieces) : StartOf(k)' = StartOf(k)
<1>1. symphony \in BOOLEAN /\ Len(pieces) \in Nat /\ pieces \in AnyPieces
  BY DEF EmitTyped, AnyPieces
<1>2. \A k \in 1 .. Len(pieces) : Size(pieces'[k], symphony) = Size(pieces[k], symphony)
  BY DEF Size, Lead
<1>3. \A k \in 0 .. Len(pieces) : EndsOf(pieces', symphony)[k] = EndsOf(pieces, symphony)[k]
  BY <1>1, <1>2, EndsAgree
<1>4. \A k \in 0 .. Len(pieces) : Ends'[k] = Ends[k]
  BY <1>3 DEF Ends
<1>5. ASSUME NEW k \in 1 .. Len(pieces) PROVE StartOf(k)' = StartOf(k)
  <2>1. k - 1 \in 0 .. Len(pieces)
    BY <1>1
  <2> QED
    BY <2>1, <1>4 DEF StartOf
<1> QED
  BY <1>4, <1>5

LEMMA EndsTyped ==
  ASSUME EmitTyped
  PROVE  /\ Ends[0] = 0 /\ \A k \in 0 .. Len(pieces) : Ends[k] \in Nat
         /\ \A k \in 1 .. Len(pieces) :
              /\ Ends[k] = StartOf(k) + Size(pieces[k], symphony) /\ StartOf(k) \in Nat
              /\ Ends[k - 1] \in Nat /\ Ends[k - 1] <= StartOf(k) /\ StartOf(k) <= Ends[k]
              /\ pieces[k] \in AnyCode => StartOf(k) = Ends[k - 1]
              /\ \A p \in Ends[k - 1] .. StartOf(k) : p % pieces[k].align = 0 => p = StartOf(k)
<1>1. pieces \in AnyPieces /\ symphony \in BOOLEAN /\ Len(pieces) \in Nat
  BY DEF EmitTyped, AnyPieces
<1>2. /\ Ends[0] = 0
      /\ \A k \in 0 .. Len(pieces) : Ends[k] \in Nat
      /\ \A k \in 1 .. Len(pieces) :
           Ends[k] = RoundedUp(Ends[k-1], pieces[k].align) + Size(pieces[k], symphony)
  BY <1>1, EndsAre DEF Ends
<1>3. ASSUME NEW k \in 1 .. Len(pieces)
      PROVE  /\ Ends[k] = StartOf(k) + Size(pieces[k], symphony) /\ StartOf(k) \in Nat
             /\ Ends[k - 1] \in Nat /\ Ends[k - 1] <= StartOf(k) /\ StartOf(k) <= Ends[k]
             /\ pieces[k] \in AnyCode => StartOf(k) = Ends[k - 1]
             /\ \A p \in Ends[k - 1] .. StartOf(k) : p % pieces[k].align = 0 => p = StartOf(k)
  <2>1. Ends[k - 1] \in Nat
    BY <1>1, <1>2
  <2>2. pieces[k].align \in {1, 2, 4} /\ Size(pieces[k], symphony) \in Nat
    BY PieceTypes
  <2>3. pieces[k] \in AnyCode => pieces[k].align = 1
    BY DEF AnyCode
  <2>4. /\ StartOf(k) \in Nat /\ Ends[k - 1] <= StartOf(k)
        /\ (pieces[k].align = 1 => StartOf(k) = Ends[k - 1])
        /\ \A p \in Ends[k - 1] .. StartOf(k) : p % pieces[k].align = 0 => p = StartOf(k)
    BY <2>1, <2>2, RoundedUpIs DEF StartOf
  <2>5. Ends[k] = StartOf(k) + Size(pieces[k], symphony)
    BY <1>2 DEF StartOf
  <2> QED
    BY <2>1, <2>2, <2>3, <2>4, <2>5
<1> QED
  BY <1>2, <1>3

-----------------------------------------------------------------------------
(* The next call in each of the shapes of todo.                             *)
LEMMA FixupTypes ==
  ASSUME EmitTyped, NEW f \in DOMAIN fixups
  PROVE  f \in Nat /\ f # 0 /\ fixups[f].at \in Nat /\ fixups[f].target \in Targets
<1>1. f \in 1 .. Len(fixups) /\ fixups[f] \in AnyFixup /\ Len(fixups) \in Nat
  BY PieceTypes
<1> QED
  BY <1>1 DEF AnyFixup

LEMMA CodeNowIs ==
  ASSUME EmitTyped, stage = "code", Now >= 1
  PROVE  /\ Now \in Nat /\ Now \in 1 .. Len(pieces) /\ pieces[Now] \in AnyCode
         /\ pieces[Now].own \in Owns /\ CodeNow \in Seq(Calls)
<1>1. Now \in Nat /\ Now \in 1 .. Len(pieces)
  BY PieceTypes DEF Now
<1>2. pieces[Now] \in AnyCode
  BY <1>1, PieceTypes
<1>3. pieces[Now].own \in Owns
  BY <1>2 DEF AnyCode
<1> QED
  BY <1>1, <1>2, <1>3, OwnCodeIs DEF CodeNow

LEMMA BehindIs ==
  ASSUME EmitTyped, NEW rest, NEW front, Behind(rest, front)
  PROVE  rest \in Seq(Calls)
<1>1. CASE rest = << >>
  BY <1>1
<1>2. CASE Ahead(front) /\ rest = CodeNow
  BY <1>2, CodeNowIs DEF Ahead, Opened
<1> QED
  BY <1>1, <1>2 DEF Behind

LEMMA AlignCall ==
  ASSUME NEW n \in {1, 2, 4}
  PROVE  Align(n) \in Calls /\ Align(n).op = "align" /\ Align(n).to = n
BY DEF Align, Calls

LEMMA BackCall ==
  ASSUME NEW n \in Nat
  PROVE  /\ Back(n) \in Calls /\ Back(n).op = "restore"
         /\ Back(n).position = n /\ Back(n).pending = 0
BY DEF Back, Calls

LEMMA PatchingNext ==
  ASSUME EmitTyped, NEW f \in DOMAIN fixups, NEW rest, NEW front \in Nat, NEW n \in 0 .. 12,
         NEW al \in BOOLEAN, PatchingWith(f, rest, front, n, al)
  PROVE  LET code == ConstantCode(f, fixups[f].target)
             back == <<Back(front)>> \o rest
         IN  /\ todo # << >>
             /\ al => Head(todo) = Align(4) /\ Tail(todo) = Remaining(code, n, back)
             /\ ~ al /\ n # 12 => /\ Tail(todo) = Remaining(code, n + 1, back)
                                  /\ Head(todo).op = "byte"
                                  /\ Head(todo).mark = <<"constant", f, n \div 4 + 1, fixups[f].target>>
                                  /\ n % 4 = 0 => InstructionSize(Head(todo).value) = 4
             /\ ~ al /\ n = 12 => Head(todo) = Back(front) /\ Tail(todo) = rest
<1> DEFINE code == ConstantCode(f, fixups[f].target)
           back == <<Back(front)>> \o rest
           left == Remaining(code, n, back)
<1>1. f \in Nat /\ fixups[f].target \in Targets
  BY FixupTypes
<1>2. /\ code \in Seq(Calls) /\ Len(code) = 12
      /\ \A b \in 0 .. 11 : \E v \in Nat :
           /\ code[b + 1] = Byte(v, <<"constant", f, b \div 4 + 1, fixups[f].target>>)
           /\ b % 4 = 0 => InstructionSize(v) = 4
  BY <1>1, ConstantCodeIs
<1>3. rest \in Seq(Calls)
  BY BehindIs DEF PatchingWith
<1>4. back \in Seq(Calls) /\ back # << >> /\ Head(back) = Back(front) /\ Tail(back) = rest
  BY <1>3, BackCall, FirstOfCalls
<1>5. todo = IF al THEN <<Align(4)>> \o left ELSE left
  BY DEF PatchingWith, Aligned4
<1> HIDE DEF code, back
<1>6. /\ left \in Seq(Calls)
      /\ n = 12 => left = back
      /\ n # 12 => left # << >> /\ Head(left) = code[n + 1] /\ Tail(left) = Remaining(code, n + 1, back)
  <2>1. n \in 0 .. Len(code) /\ (n = 12 => n = Len(code)) /\ (n # 12 => n \in 0 .. Len(code) - 1)
    BY <1>2
  <2>2. code \in Seq(Calls) /\ back \in Seq(Calls)
    BY <1>2, <1>4
  <2>3. CASE n = 12
    <3>1. left = back
      BY <2>1, <2>2, <2>3, RemainingEnds
    <3> QED
      BY <2>2, <2>3, <3>1
  <2>4. CASE n # 12
    <3>1. left \in Seq(Calls) /\ left # << >> /\ Head(left) = code[n + 1]
          /\ Tail(left) = Remaining(code, n + 1, back)
      BY <2>1, <2>2, <2>4, RemainingNext
    <3> QED
      BY <2>4, <3>1
  <2> QED
    BY <2>3, <2>4
<1> HIDE DEF left
<1>7. ASSUME al PROVE todo # << >> /\ Head(todo) = Align(4) /\ Tail(todo) = left
  <2>1. todo = <<Align(4)>> \o left /\ Align(4) \in Calls
    BY <1>5, <1>7, AlignCall
  <2> QED
    BY <2>1, <1>6, FirstOfCalls
<1>8. ASSUME ~ al, n # 12
      PROVE  /\ todo # << >> /\ Tail(todo) = Remaining(code, n + 1, back)
             /\ Head(todo).op = "byte"
             /\ Head(todo).mark = <<"constant", f, n \div 4 + 1, fixups[f].target>>
             /\ n % 4 = 0 => InstructionSize(Head(todo).value) = 4
  <2>1. todo = left /\ n \in 0 .. 11
    BY <1>5, <1>8
  <2>2. PICK v \in Nat : /\ code[n + 1] = Byte(v, <<"constant", f, n \div 4 + 1, fixups[f].target>>)
                         /\ n % 4 = 0 => InstructionSize(v) = 4
    BY <2>1, <1>2
  <2>3. Head(todo) = Byte(v, <<"constant", f, n \div 4 + 1, fixups[f].target>>)
    BY <2>1, <2>2, <1>6, <1>8
  <2>4. Head(todo).op = "byte" /\ Head(todo).value = v
        /\ Head(todo).mark = <<"constant", f, n \div 4 + 1, fixups[f].target>>
    BY <2>3 DEF Byte
  <2> QED
    BY <2>1, <2>2, <2>4, <1>6, <1>8
<1>9. ASSUME ~ al, n = 12 PROVE todo # << >> /\ Head(todo) = Back(front) /\ Tail(todo) = rest
  BY <1>9, <1>4, <1>5, <1>6
<1> QED
  BY <1>7, <1>8, <1>9 DEF left, code, back

(* Which call it is tells how far the constant is.                          *)
LEMMA PatchingCall ==
  ASSUME EmitTyped, NEW f \in DOMAIN fixups, NEW rest, NEW front \in Nat, NEW n \in 0 .. 12,
         NEW al \in BOOLEAN, PatchingWith(f, rest, front, n, al)
  PROVE  Head(todo).op = IF al THEN "align" ELSE IF n # 12 THEN "byte" ELSE "restore"
<1>1. CASE al
  <2>1. Head(todo) = Align(4)
    BY <1>1, PatchingNext
  <2>2. Align(4).op = "align"
    BY AlignCall
  <2> QED
    BY <1>1, <2>1, <2>2
<1>2. CASE ~ al /\ n # 12
  <2>1. Head(todo).op = "byte"
    BY <1>2, PatchingNext
  <2> QED
    BY <1>2, <2>1
<1>3. CASE ~ al /\ n = 12
  <2>1. Head(todo) = Back(front)
    BY <1>3, PatchingNext
  <2>2. Back(front).op = "restore"
    BY BackCall
  <2> QED
    BY <1>3, <2>1, <2>2
<1> QED
  BY <1>1, <1>2, <1>3

LEMMA WritingNext ==
  ASSUME EmitTyped, Opened, NEW n \in 0 .. 3, NEW j \in 0 .. 3, NEW al \in BOOLEAN, Written(n, j, al)
  PROVE  LET own == pieces[Now].own
         IN  /\ todo = << >> => n = Len(own) /\ j = 0 /\ ~ al
             /\ todo # << >> =>
                  /\ al => Head(todo) = Align(4)
                           /\ Tail(todo) = Remaining(CodeNow, Cut(own, n) + j, << >>)
                  /\ ~ al => /\ n < Len(own)
                             /\ Head(todo) = Byte(IF j = 0 THEN own[n + 1] ELSE 0, <<"piece", Now>>)
                             /\ Tail(todo) = Remaining(CodeNow, Cut(own, n) + j + 1, << >>)
<1> DEFINE own == pieces[Now].own
           i == Cut(own, n) + j
           left == Remaining(CodeNow, i, << >>)
<1>1. own \in Owns /\ Now \in Nat /\ CodeNow = OwnCode(own, Now)
  BY CodeNowIs DEF Opened, CodeNow
<1>2. n \in 0 .. Len(own) /\ (IF n < Len(own) THEN j < EmittedBytes(own[n + 1]) ELSE j = 0)
      /\ todo = IF al THEN <<Align(4)>> \o left ELSE left
  BY DEF Written, Aligned4
<1>3. Len(own) \in Nat
  BY <1>1 DEF Owns
<1> HIDE DEF own
<1>4. CodeNow \in Seq(Calls) /\ Len(CodeNow) = Cut(own, Len(own)) /\ Cut(own, Len(own)) \in Nat
      /\ Cut(own, n) \in Nat
  <2>1. Len(own) \in 0 .. Len(own)
    BY <1>3
  <2> QED
    BY <2>1, <1>1, <1>2, OwnCodeIs
<1>5. ASSUME n < Len(own)
      PROVE  /\ i \in 0 .. Len(CodeNow) - 1
             /\ CodeNow[i + 1] = Byte(IF j = 0 THEN own[n + 1] ELSE 0, <<"piece", Now>>)
  <2>1. n \in 0 .. Len(own) - 1 /\ j < EmittedBytes(own[n + 1])
    BY <1>2, <1>3, <1>5
  <2>2. /\ EmittedBytes(own[n + 1]) \in 2 .. 4
        /\ Cut(own, n + 1) = Cut(own, n) + EmittedBytes(own[n + 1])
        /\ Cut(own, n + 1) <= Cut(own, Len(own))
    BY <2>1, <1>1, OwnCodeIs
  <2>3. j \in 0 .. EmittedBytes(own[n + 1]) - 1
    BY <2>1, <2>2
  <2>4. CodeNow[Cut(own, n) + j + 1] = Byte(IF j = 0 THEN own[n + 1] ELSE 0, <<"piece", Now>>)
    BY <2>1, <2>3, <1>1, OwnCodeIs
  <2> QED
    BY <2>2, <2>3, <2>4, <1>4
<1>6. /\ left \in Seq(Calls)
      /\ n < Len(own) => /\ left # << >> /\ Tail(left) = Remaining(CodeNow, i + 1, << >>)
                         /\ Head(left) = Byte(IF j = 0 THEN own[n + 1] ELSE 0, <<"piece", Now>>)
      /\ ~ (n < Len(own)) => n = Len(own) /\ j = 0 /\ left = << >>
  <2>1. << >> \in Seq(Calls)
    OBVIOUS
  <2>2. CASE n < Len(own)
    <3>1. i \in 0 .. Len(CodeNow) /\ i \in 0 .. Len(CodeNow) - 1
      BY <1>4, <1>5, <2>2
    <3> HIDE DEF i
    <3>2. left \in Seq(Calls) /\ left # << >> /\ Head(left) = CodeNow[i + 1]
          /\ Tail(left) = Remaining(CodeNow, i + 1, << >>)
      BY <3>1, <2>1, <1>4, RemainingNext
    <3> QED
      BY <3>2, <2>2, <1>5
  <2>3. CASE ~ (n < Len(own))
    <3>1. n = Len(own) /\ j = 0 /\ i = Len(CodeNow)
      BY <1>2, <1>3, <1>4, <2>3
    <3>2. left = << >>
      BY <3>1, <2>1, <1>4, RemainingEnds
    <3> QED
      BY <3>1, <3>2, <2>1, <2>3
  <2> QED
    BY <2>2, <2>3
<1> HIDE DEF left
<1>7. ASSUME al PROVE todo # << >> /\ Head(todo) = Align(4) /\ Tail(todo) = left
  <2>1. todo = <<Align(4)>> \o left /\ Align(4) \in Calls
    BY <1>2, <1>7, AlignCall
  <2> QED
    BY <2>1, <1>6, FirstOfCalls
<1>8. ~ al => todo = left
  BY <1>2
<1> QED
  BY <1>6, <1>7, <1>8 DEF left, own

LEMMA AskingNext ==
  ASSUME EmitTyped, Asking
  PROVE  /\ todo # << >> /\ Head(todo) = ConstantFor(pieces[Now].kind) /\ Tail(todo) = CodeNow
         /\ Head(todo).op = "constant" /\ Head(todo).use = pieces[Now].kind /\ pieces[Now].kind \in Uses
<1>1. stage = "code" /\ Now >= 1 /\ pieces[Now].kind # "instruction"
  BY DEF Asking, Ahead, Opened
<1>2. pieces[Now] \in AnyCode /\ CodeNow \in Seq(Calls)
  BY <1>1, CodeNowIs
<1>3. pieces[Now].kind \in Uses
  BY <1>1, <1>2 DEF AnyCode, CodeKinds, Uses
<1>4. ConstantFor(pieces[Now].kind) \in Calls
  BY <1>3 DEF ConstantFor, Calls
<1>5. todo = <<ConstantFor(pieces[Now].kind)>> \o CodeNow
  BY DEF Asking
<1>6. todo # << >> /\ Head(todo) = ConstantFor(pieces[Now].kind) /\ Tail(todo) = CodeNow
  BY <1>2, <1>4, <1>5, FirstOfCalls
<1> QED
  BY <1>3, <1>6 DEF ConstantFor

LEMMA LendingNext ==
  ASSUME EmitTyped, NEW f \in DOMAIN fixups, NEW rest, LendingWith(f, rest)
  PROVE  LET at == At(fixups[f].at, f, fixups[f].target)
         IN  todo # << >> /\ Head(todo) = at /\ Tail(todo) = rest
<1> DEFINE at == At(fixups[f].at, f, fixups[f].target)
<1>1. at \in Calls
  BY FixupTypes DEF At, Calls
<1>2. rest \in Seq(Calls) /\ todo = <<at>> \o rest
  BY BehindIs DEF LendingWith
<1> HIDE DEF at
<1>3. todo # << >> /\ Head(todo) = at /\ Tail(todo) = rest
  BY <1>1, <1>2, FirstOfCalls
<1> QED
  BY <1>3 DEF at

LEMMA GlobalIs ==
  ASSUME EmitTyped, Global
  PROVE  /\ Now \in Nat /\ Now \in 1 .. Len(pieces) /\ pieces[Now] \in AnyData
         /\ pieces[Now].own \in Nat /\ pieces[Now].align \in {1, 2, 4}
         /\ Raws(pieces[Now].own, Now) \in Seq(Calls)
         /\ Len(Raws(pieces[Now].own, Now)) = pieces[Now].own
<1>1. Now \in Nat /\ Now \in 1 .. Len(pieces) /\ pieces[Now].kind \in DataKinds
  BY PieceTypes DEF Global, Now
<1>2. pieces[Now] \in AnyData
  BY <1>1, PieceTypes DEF AnyCode, CodeKinds, DataKinds
<1>3. pieces[Now].own \in Nat /\ pieces[Now].align \in {1, 2, 4}
  BY <1>2 DEF AnyData
<1> QED
  BY <1>1, <1>2, <1>3, RawsAre

LEMMA AligningNext ==
  ASSUME EmitTyped, Aligning
  PROVE  LET raws == Raws(pieces[Now].own, Now)
         IN  /\ todo # << >>
             /\ \/ /\ Head(todo) = Align(pieces[Now].align)
                   /\ Tail(todo) = <<Begins>> \o raws
                \/ position = StartOf(Now) /\ Head(todo) = Begins /\ Tail(todo) = raws
<1> DEFINE raws == Raws(pieces[Now].own, Now)
           calls == <<Begins>> \o raws
<1>1. raws \in Seq(Calls) /\ pieces[Now].align \in {1, 2, 4}
  BY GlobalIs DEF Aligning
<1>2. \/ todo = <<Align(pieces[Now].align)>> \o calls
      \/ position = StartOf(Now) /\ todo = calls
  BY DEF Aligning
<1> HIDE DEF raws
<1>3. Begins \in Calls /\ Align(pieces[Now].align) \in Calls
  BY <1>1, AlignCall DEF Begins, Calls
<1>4. calls \in Seq(Calls) /\ calls # << >> /\ Head(calls) = Begins /\ Tail(calls) = raws
  BY <1>1, <1>3, FirstOfCalls
<1>5. CASE todo = <<Align(pieces[Now].align)>> \o calls
  <2> HIDE DEF calls
  <2>1. todo # << >> /\ Head(todo) = Align(pieces[Now].align) /\ Tail(todo) = calls
    BY <1>3, <1>4, <1>5, FirstOfCalls
  <2> QED
    BY <2>1 DEF calls, raws
<1>6. CASE position = StartOf(Now) /\ todo = calls
  <2> HIDE DEF calls
  <2> QED
    BY <1>4, <1>6 DEF raws
<1> QED
  BY <1>2, <1>5, <1>6

LEMMA FillingNext ==
  ASSUME EmitTyped, Global, NEW n \in 0 .. pieces[Now].own, FilledUpTo(n)
  PROVE  /\ n = pieces[Now].own => todo = << >>
         /\ n # pieces[Now].own =>
              /\ todo # << >> /\ Head(todo) = Raw(<<"piece", Now>>)
              /\ Tail(todo) = Remaining(Raws(pieces[Now].own, Now), n + 1, << >>)
<1> DEFINE N == pieces[Now].own
           raws == Raws(N, Now)
<1>1. N \in Nat /\ Now \in Nat /\ raws \in Seq(Calls) /\ Len(raws) = N
  BY GlobalIs
<1>2. todo = Remaining(raws, n, << >>) /\ n \in 0 .. N /\ << >> \in Seq(Calls)
  BY DEF FilledUpTo
<1>3. \A i \in 1 .. N : raws[i] = Raw(<<"piece", Now>>)
  BY <1>1, RawsAre
<1> HIDE DEF raws, N
<1>4. CASE n = N
  <2>1. todo = << >>
    BY <1>1, <1>2, <1>4, RemainingEnds
  <2> QED
    BY <2>1, <1>4 DEF raws, N
<1>5. CASE n # N
  <2>1. n \in 0 .. Len(raws) - 1 /\ n + 1 \in 1 .. N
    BY <1>1, <1>2, <1>5
  <2>2. todo # << >> /\ Head(todo) = raws[n + 1] /\ Tail(todo) = Remaining(raws, n + 1, << >>)
    BY <1>1, <1>2, <2>1, RemainingNext
  <2>3. raws[n + 1] = Raw(<<"piece", Now>>)
    BY <2>1, <1>3
  <2> QED
    BY <2>2, <2>3, <1>5 DEF raws, N
<1> QED
  BY <1>4, <1>5

-----------------------------------------------------------------------------
(* A piece that has all its bytes is whole, and the emitter rests.          *)
LEMMA WholeWithLast ==
  ASSUME EmitTyped, Now >= 1, WholeUpTo(Now - 1), Whole(Now)
  PROVE  WholeUpTo(Now)
<1>1. Now \in Nat
  BY PieceTypes DEF Now
<1>2. \A k \in 1 .. Now : k \in 1 .. Now - 1 \/ k = Now
  BY <1>1
<1> QED
  BY <1>2 DEF WholeUpTo

LEMMA WritingDone ==
  ASSUME EmitTyped, Writing, todo = << >>
  PROVE  Still
<1> DEFINE own == pieces[Now].own
<1>1. PICK n \in 0 .. 3, j \in 0 .. 3, al \in BOOLEAN : Written(n, j, al)
  BY DEF Writing
<1>2. n = Len(own) /\ j = 0 /\ ~ al
  BY <1>1, WritingNext DEF Writing
<1>3. /\ Now \in Nat /\ Now \in 1 .. Len(pieces) /\ pieces[Now] \in AnyCode /\ own \in Owns
      /\ Now >= 1 /\ stage = "code"
  BY CodeNowIs DEF Writing, Opened
<1>4. /\ Ends[Now] = StartOf(Now) + Size(pieces[Now], symphony)
      /\ StartOf(Now) = Ends[Now - 1] /\ StartOf(Now) = pieces[Now].at
  BY <1>3, EndsTyped DEF Writing, Opened
<1>5. pieces[Now].at \in Nat /\ symphony \in BOOLEAN
  BY <1>3, PieceTypes DEF EmitTyped
<1>6. /\ Size(pieces[Now], symphony) = Lead(pieces[Now]) + (IF symphony THEN 4 * n ELSE Cut(own, n))
      /\ OwnBytes(own) = Cut(own, n)
  BY <1>2, <1>3, <1>5, SizeIs, OwnBytesIs
<1>7. Lead(pieces[Now]) \in {0, 12} /\ Cut(own, n) \in Nat
  <2>1. n \in 0 .. Len(own)
    BY <1>2
  <2> QED
    BY <2>1, <1>3, OwnCodeIs DEF Lead
<1>8. /\ OwnCells(Now) \subseteq Base .. position - 1 /\ Cardinality(OwnCells(Now)) = Cut(own, n) + j
      /\ IF symphony THEN pending = 0 /\ position = Base + 4 * n + j
                     ELSE pending = 0 /\ position = Base + Cut(own, n) + j
  BY <1>1, <1>2 DEF Written, Advanced
<1>9. Base = pieces[Now].at + Lead(pieces[Now])
  BY DEF Base
<1>10. pending = 0 /\ position = Ends[Now]
  <2> DEFINE at == pieces[Now].at
             lead == Lead(pieces[Now])
             grown == IF symphony THEN 4 * n ELSE Cut(own, n)
  <2>1. pending = 0 /\ position = at + lead + grown
    <3> DEFINE cut == Cut(own, n)
    <3>1. at \in Nat /\ lead \in {0, 12} /\ cut \in Nat /\ n \in Nat /\ j = 0
      BY <1>1, <1>2, <1>5, <1>7
    <3>2. /\ pending = 0
          /\ position = at + lead + (IF symphony THEN 4 * n + j ELSE cut + j)
      <4>1. /\ pending = 0
            /\ position = Base + (IF symphony THEN 4 * n + j ELSE cut + j)
        <5>1. CASE symphony
          <6>1. 4 * n + j \in Nat /\ Base \in Nat
            BY <1>9, <3>1
          <6> QED
            BY <1>8, <3>1, <5>1, <6>1
        <5>2. CASE ~ symphony
          <6>1. cut + j \in Nat /\ Base \in Nat
            BY <1>9, <3>1
          <6> QED
            BY <1>8, <3>1, <5>2, <6>1
        <5> QED
          BY <5>1, <5>2
      <4> QED
        BY <1>9, <4>1
    <3> HIDE DEF at, lead, cut
    <3> QED
      BY <3>1, <3>2 DEF cut
  <2>2. Ends[Now] = at + (lead + grown)
    BY <1>4, <1>6
  <2>3. at \in Nat /\ lead \in Nat /\ grown \in Nat
    <3>1. 4 * n \in Nat
      BY <1>1
    <3> QED
      BY <3>1, <1>5, <1>7
  <2> HIDE DEF at, lead, grown
  <2> QED
    BY <2>1, <2>2, <2>3
<1>11. symphony => position % 4 = 0
  <2>1. symphony => pieces[Now].at % 4 = 0
    BY DEF Writing, Opened
  <2>2. symphony => position = pieces[Now].at + Lead(pieces[Now]) + 4 * n
    BY <1>2, <1>8, <1>9, <1>7, <1>5
  <2>3. \A a \in Nat, l \in {0, 12} : a % 4 = 0 => (a + l + 4 * n) % 4 = 0
    OBVIOUS
  <2> QED
    BY <2>1, <2>2, <2>3, <1>5, <1>7
<1>12. OwnCells(Now) \subseteq StartOf(Now) .. Ends[Now] - 1
  BY <1>4, <1>5, <1>7, <1>8, <1>9, <1>10
<1>13. Cardinality(OwnCells(Now)) = OwnBytes(own)
  BY <1>2, <1>6, <1>7, <1>8
<1>14. Whole(Now)
  BY <1>3, <1>4, <1>12, <1>13 DEF Whole, WholeCode, AnyCode
<1>15. WholeUpTo(Now)
  BY <1>3, <1>14, WholeWithLast DEF Writing, Opened
<1> QED
  BY <1>10, <1>11, <1>15 DEF Still, AtRest, Writing

LEMMA FillingDone ==
  ASSUME EmitTyped, Filling, todo = << >>
  PROVE  Still
<1>1. PICK n \in 0 .. pieces[Now].own : FilledUpTo(n)
  BY DEF Filling
<1>2. Global
  BY DEF Filling
<1>3. n = pieces[Now].own
  BY <1>1, <1>2, FillingNext
<1>4. Now \in 1 .. Len(pieces) /\ pieces[Now] \in AnyData
  BY <1>2, GlobalIs
<1>5. Ends[Now] = StartOf(Now) + pieces[Now].own
  <2>1. symphony \in BOOLEAN
    BY DEF EmitTyped
  <2>2. Size(pieces[Now], symphony) = pieces[Now].own
    BY <2>1, <1>4, SizeIs
  <2> QED
    BY <2>2, <1>4, EndsTyped
<1>6. position = Ends[Now] /\ OwnCells(Now) = StartOf(Now) .. Ends[Now] - 1
  BY <1>1, <1>3, <1>5 DEF FilledUpTo
<1>7. Whole(Now)
  <2>1. pieces[Now].kind \notin CodeKinds /\ pieces[Now].target = None
    BY <1>2 DEF Global, DataKinds, CodeKinds
  <2> QED
    BY <2>1, <1>6 DEF Whole, WholeData, Filling
<1>8. WholeUpTo(Now)
  BY <1>2, <1>7, WholeWithLast DEF Global
<1>9. stage # "code"
  BY <1>2 DEF Global
<1> QED
  BY <1>2, <1>6, <1>8, <1>9 DEF Still, AtRest, Global

(* What the emitter does next tells which shape it is in.                   *)
LEMMA PatchingOps ==
  ASSUME EmitTyped, Patching
  PROVE  todo # << >> /\ Head(todo).op \in {"byte", "align", "restore"}
<1>1. PICK f \in DOMAIN fixups, rest \in {<< >>, CodeNow}, front \in Nat, n \in 0 .. 12, al \in BOOLEAN :
        PatchingWith(f, rest, front, n, al)
  BY DEF Patching
<1>2. /\ todo # << >>
      /\ Head(todo).op = IF al THEN "align" ELSE IF n # 12 THEN "byte" ELSE "restore"
  BY <1>1, PatchingNext, PatchingCall
<1> QED
  BY <1>2

LEMMA WritingOps ==
  ASSUME EmitTyped, Writing, todo # << >>
  PROVE  Head(todo).op \in {"byte", "align"}
<1>1. PICK n \in 0 .. 3, j \in 0 .. 3, al \in BOOLEAN : Written(n, j, al)
  BY DEF Writing
<1>2. Head(todo) = Align(4) \/ \E v : Head(todo) = Byte(v, <<"piece", Now>>)
  BY <1>1, WritingNext DEF Writing
<1>3. \A v : Byte(v, <<"piece", Now>>).op = "byte"
  BY DEF Byte
<1> QED
  BY <1>2, <1>3, AlignCall

LEMMA AligningOps ==
  ASSUME EmitTyped, Aligning
  PROVE  todo # << >> /\ Head(todo).op \in {"align", "begin"}
<1>1. pieces[Now].align \in {1, 2, 4}
  BY GlobalIs DEF Aligning
<1>2. todo # << >> /\ (Head(todo) = Align(pieces[Now].align) \/ Head(todo) = Begins)
  BY AligningNext
<1> QED
  BY <1>1, <1>2, AlignCall DEF Begins

LEMMA FillingOps ==
  ASSUME EmitTyped, Filling, todo # << >>
  PROVE  Head(todo).op = "raw"
<1>1. PICK n \in 0 .. pieces[Now].own : FilledUpTo(n)
  BY DEF Filling
<1>2. Head(todo) = Raw(<<"piece", Now>>)
  BY <1>1, FillingNext DEF Filling
<1> QED
  BY <1>2 DEF Raw

LEMMA Dispatch ==
  ASSUME EmitTyped, Shaped
  PROVE  /\ todo = << >> => Still
         /\ NextIs("constant") => Asking
         /\ NextIs("at") => Lending
         /\ NextIs("restore") => Patching
         /\ NextIs("byte") => Patching \/ Writing
         /\ NextIs("align") => Patching \/ Writing \/ Aligning
         /\ NextIs("begin") => Aligning
         /\ NextIs("raw") => Filling
<1>1. CASE Still
  BY <1>1 DEF Still, NextIs
<1>2. CASE Asking
  BY <1>2, AskingNext DEF NextIs
<1>3. CASE Lending
  <2>1. PICK f \in DOMAIN fixups, rest \in {<< >>, CodeNow} : LendingWith(f, rest)
    BY <1>3 DEF Lending
  <2>2. todo # << >> /\ Head(todo) = At(fixups[f].at, f, fixups[f].target)
    BY <2>1, LendingNext
  <2>3. Head(todo).op = "at"
    BY <2>2 DEF At
  <2> QED
    BY <1>3, <2>2, <2>3 DEF NextIs
<1>4. CASE Patching
  BY <1>4, PatchingOps DEF NextIs
<1>5. CASE Writing
  BY <1>5, WritingDone, WritingOps DEF NextIs
<1>6. CASE Aligning
  BY <1>6, AligningOps DEF NextIs
<1>7. CASE Filling
  BY <1>7, FillingDone, FillingOps DEF NextIs
<1> QED
  BY <1>1, <1>2, <1>3, <1>4, <1>5, <1>6, <1>7 DEF Shaped

-----------------------------------------------------------------------------
(* Most steps of the emitter leave everything but the buffer alone.          *)
Steady == UNCHANGED <<fixed, pieces, fixups, stage>>

LEMMA SteadyKeeps ==
  ASSUME EmitTyped, Linked, Steady, todo # << >>,
         position' \in Nat, pending' \in Nat, DOMAIN output' = DOMAIN output
  PROVE  /\ EmitTyped' /\ Linked'
         /\ Now' = Now /\ Ends' = Ends /\ CodeNow' = CodeNow /\ Base' = Base
         /\ \A k : StartOf(k)' = StartOf(k)
<1>1. stage' = stage /\ pieces' = pieces /\ fixups' = fixups /\ capacity' = capacity /\ symphony' = symphony
  BY DEF Steady, fixed
<1>2. EmitTyped'
  BY <1>1 DEF EmitTyped
<1>3. Linked'
  BY <1>1 DEF Linked, OpenPointers
<1>4. Now' = Now
  BY <1>1 DEF Now
<1>5. Ends' = Ends
  BY <1>1 DEF Ends
<1>6. CodeNow' = CodeNow /\ Base' = Base
  BY <1>1, <1>4 DEF CodeNow, Base
<1>7. \A k : StartOf(k)' = StartOf(k)
  BY <1>1, <1>5 DEF StartOf
<1> QED
  BY <1>2, <1>3, <1>4, <1>5, <1>6, <1>7

LEMMA SameOutputKeepsPieces ==
  ASSUME UNCHANGED <<fixed, pieces, output>>
  PROVE  /\ \A k : OwnCells(k)' = OwnCells(k)
         /\ \A n \in Nat : WholeUpTo(n) => WholeUpTo(n)'
<1>1. pieces' = pieces /\ capacity' = capacity /\ symphony' = symphony
  BY DEF fixed
<1>2. \A k : OwnCells(k)' = OwnCells(k)
  BY DEF OwnCells
<1>3. ASSUME NEW n \in Nat, WholeUpTo(n) PROVE WholeUpTo(n)'
  <2>1. ASSUME NEW k \in 1 .. n PROVE Whole(k)'
    <3>1. Ends' = Ends
      BY <1>1 DEF Ends
    <3>2. StartOf(k)' = StartOf(k)
      BY <1>1, <3>1 DEF StartOf
    <3>3. \A t : PointerIs(k, t) => PointerIs(k, t)'
      BY <3>2 DEF PointerIs
    <3>4. Whole(k)
      BY <1>3 DEF WholeUpTo
    <3> QED
      BY <1>1, <1>2, <3>1, <3>2, <3>3, <3>4, WholeKept
  <2> QED
    BY <2>1 DEF WholeUpTo
<1> QED
  BY <1>2, <1>3

LEMMA SameOutputKeeps ==
  ASSUME Steady, output' = output
  PROVE  /\ \A k : OwnCells(k)' = OwnCells(k)
         /\ \A n \in Nat : WholeUpTo(n) => WholeUpTo(n)'
         /\ \A f : ConstantsBut(f) => ConstantsBut(f)'
         /\ \A front \in Nat : Filled(front) => Filled(front)'
         /\ \A f, n : Lent(f, n) => Lent(f, n)'
<1>1. stage' = stage /\ pieces' = pieces /\ fixups' = fixups /\ capacity' = capacity /\ symphony' = symphony
  BY DEF Steady, fixed
<1>2. /\ \A k : OwnCells(k)' = OwnCells(k)
      /\ \A n \in Nat : WholeUpTo(n) => WholeUpTo(n)'
  BY SameOutputKeepsPieces DEF Steady
<1>3. \A f : ConstantsBut(f) => ConstantsBut(f)'
  BY <1>1 DEF ConstantsBut, ConstantIs
<1>4. \A front \in Nat : Filled(front) => Filled(front)'
  BY <1>1 DEF Filled, Blank, Placed
<1>5. \A f, n : Lent(f, n) => Lent(f, n)'
  BY <1>1 DEF Lent, Lendable
<1> QED
  BY <1>2, <1>3, <1>4, <1>5

LEMMA BehindKept ==
  ASSUME EmitTyped, UNCHANGED <<fixed, pieces, stage>>, Now' = Now, Ends' = Ends, CodeNow' = CodeNow,
         \A k : OwnCells(k)' = OwnCells(k),
         \A n \in Nat : n <= Len(pieces) /\ WholeUpTo(n) => WholeUpTo(n)',
         NEW front \in Nat, NEW rest, Behind(rest, front)
  PROVE  Behind(rest, front)'
<1>1. stage' = stage /\ pieces' = pieces /\ symphony' = symphony
  BY DEF fixed
<1>2. Now \in Nat /\ Now <= Len(pieces) /\ (Now >= 1 => Now - 1 \in Nat /\ Now - 1 <= Len(pieces))
  BY PieceTypes DEF Now
<1>3. CASE rest = << >> /\ AtRest(front)
  <2>1. WholeUpTo(Now) /\ front = Ends[Now] /\ (stage = "code" /\ symphony => front % 4 = 0)
    BY <1>3 DEF AtRest
  <2>2. PICK N : N = Now
    OBVIOUS
  <2>3. WholeUpTo(N)'
    BY <1>2, <2>1, <2>2
  <2>4. WholeUpTo(Now)'
    BY <2>2, <2>3 DEF WholeUpTo
  <2> QED
    BY <1>1, <1>3, <2>1, <2>4 DEF Behind, AtRest
<1>4. CASE Ahead(front) /\ rest = CodeNow
  <2>1. /\ Opened /\ OwnCells(Now) = {} /\ pieces[Now].kind # "instruction" /\ front = pieces[Now].at + 12
    BY <1>4 DEF Ahead
  <2>2. OwnCells(Now)' = {}
    BY <2>1 DEF OwnCells
  <2>3. WholeUpTo(Now - 1)'
    <3>1. PICK N : N = Now - 1
      OBVIOUS
    <3>2. WholeUpTo(N)'
      BY <1>2, <2>1, <3>1 DEF Opened
    <3> QED
      BY <3>1, <3>2 DEF WholeUpTo
  <2>4. Opened'
    BY <1>1, <2>1, <2>3 DEF Opened
  <2> QED
    BY <1>1, <1>4, <2>1, <2>2, <2>4 DEF Behind, Ahead
<1> QED
  BY <1>3, <1>4 DEF Behind

LEMMA WriteStamps ==
  ASSUME EmitTyped, NEW mark, Write(mark), ~ error', NEW f, Lendable(f, position)
  PROVE  /\ Stamped(f, position, mark) /\ position' = position + 1 /\ position' \in Nat
         /\ position < capacity /\ DOMAIN output' = DOMAIN output
<1>1. position \in Nat /\ capacity \in Nat /\ DOMAIN output = 0 .. capacity - 1
  BY DEF EmitTyped
<1>2. /\ position < capacity /\ output' = Put(position, 1, mark) /\ position' = position + 1
  BY <1>1 DEF Write
<1>3. Stamped(f, position, mark)
  BY <1>1, <1>2 DEF Stamped
<1> QED
  BY <1>1, <1>2, <1>3, StampIs

(* A byte of a constant,                                                    *)
LEMMA PutByteOfConstant ==
  ASSUME EmitTyped, Linked, ~ error', PutByte, Patching
  PROVE  EmitTyped' /\ Linked' /\ Patching'
<1>1. PICK f \in DOMAIN fixups, rest \in {<< >>, CodeNow}, front \in Nat, n \in 0 .. 12, al \in BOOLEAN :
        PatchingWith(f, rest, front, n, al)
  BY DEF Patching
<1> DEFINE code == ConstantCode(f, fixups[f].target)
           back == <<Back(front)>> \o rest
           mark == <<"constant", f, n \div 4 + 1, fixups[f].target>>
<1>2. todo # << >> /\ Head(todo).op = "byte"
  BY DEF PutByte, NextIs
<1>3. ~ al /\ n \in 0 .. 11
  <2>1. Head(todo).op = IF al THEN "align" ELSE IF n # 12 THEN "byte" ELSE "restore"
    BY <1>1, PatchingCall
  <2>2. ~ al /\ n # 12
    BY <1>2, <2>1
  <2> QED
    BY <2>2
<1>4. /\ Tail(todo) = Remaining(code, n + 1, back) /\ Head(todo).mark = mark
      /\ n % 4 = 0 => InstructionSize(Head(todo).value) = 4
  <2>1. n # 12 /\ ~ al
    BY <1>3
  <2> QED
    BY <1>1, <2>1, PatchingNext
<1>5. /\ Behind(rest, front) /\ Filled(front) /\ Lent(f, n) /\ ConstantsBut(f)
      /\ position = fixups[f].at + n
      /\ pending = IF symphony /\ n % 4 # 0 THEN 4 - (n % 4) ELSE 0
  BY <1>1 DEF PatchingWith
<1>6. /\ fixups[f].at + 12 <= front /\ fixups[f].at + 12 <= capacity
      /\ fixups[f].at \in Nat /\ fixups[f].target \in Targets /\ f \in Nat
  BY <1>5, FixupTypes DEF Filled, Placed
<1> HIDE DEF code, back, mark
<1>7. Lendable(f, position)
  <2>1. n \in n .. 11
    BY <1>3
  <2> QED
    BY <1>5, <2>1 DEF Lent
<1>8. /\ Stamped(f, position, mark) /\ position' = position + 1 /\ position' \in Nat
      /\ DOMAIN output' = DOMAIN output
  <2>1. Write(mark)
    BY <1>4 DEF PutByte
  <2> QED
    BY <2>1, <1>7, WriteStamps
<1>9. Steady
  BY DEF PutByte, Steady
<1>10. /\ pending' = IF symphony /\ (n + 1) % 4 # 0 THEN 4 - ((n + 1) % 4) ELSE 0
       /\ pending' \in Nat
       /\ symphony => (pending' = 0 <=> (n + 1) % 4 = 0)
  <2>1. pending' = IF ~ symphony THEN pending
                   ELSE (IF pending = 0 THEN InstructionSize(Head(todo).value) ELSE pending) - 1
    BY DEF PutByte
  <2>2. CASE ~ symphony
    BY <2>1, <2>2, <1>5
  <2>3. CASE symphony /\ n % 4 = 0
    <3>1. (n + 1) % 4 = 1
      BY <2>3, <1>3
    <3>2. pending' = 3
      BY <2>1, <2>3, <1>4, <1>5
    <3> QED
      BY <2>3, <3>1, <3>2
  <2>4. CASE symphony /\ n % 4 # 0
    <3>1. n % 4 \in 1 .. 3 /\ (n + 1) % 4 = IF n % 4 = 3 THEN 0 ELSE (n % 4) + 1
      BY <2>4, <1>3
    <3>2. pending = 4 - (n % 4)
      BY <2>4, <1>5
    <3>3. pending' = (4 - (n % 4)) - 1
      BY <2>1, <2>4, <3>1, <3>2
    <3> QED
      BY <2>4, <3>1, <3>3
  <2> QED
    BY <2>2, <2>3, <2>4
<1>11. /\ EmitTyped' /\ Linked' /\ Now' = Now /\ Ends' = Ends /\ CodeNow' = CodeNow
  BY <1>2, <1>8, <1>9, <1>10, SteadyKeeps
<1>12. UNCHANGED <<fixed, pieces, fixups>>
  BY <1>9 DEF Steady
<1>13. /\ \A k : OwnCells(k)' = OwnCells(k)
       /\ \A m \in Nat : m <= Len(pieces) /\ WholeUpTo(m) => WholeUpTo(m)'
  <2>1. \A k : mark # <<"piece", k>>
    BY MarksApart DEF mark
  <2> QED
    BY <2>1, <1>8, <1>12, StampKeepsPieces
<1>14. Behind(rest, front)'
  BY <1>5, <1>9, <1>11, <1>13, BehindKept DEF Steady
<1>15. ConstantsBut(f)' /\ Filled(front)'
  <2>1. position < front
    <3>1. fixups[f].at \in Nat /\ fixups[f].at + 12 <= front /\ n \in 0 .. 11
      BY <1>3, <1>6, FixupTypes
    <3>2. fixups[f].at + n < front
      BY <3>1, TwelveBelow
    <3> QED
      BY <3>2, <1>5
  <2> QED
    BY <2>1, <1>5, <1>8, <1>12, StampKeepsConstants
<1>16. Lent(f, n + 1)'
  <2>1. Stamped(f, fixups[f].at + n, mark)
    BY <1>5, <1>8
  <2> QED
    BY <2>1, <1>3, <1>5, <1>6, <1>12, StampLends DEF mark
<1>17. n + 1 \in 0 .. 12 /\ fixups[f].at + n + 1 = fixups[f].at + (n + 1)
  BY <1>3, <1>6
<1>18. position' = fixups[f].at + (n + 1)
  BY <1>5, <1>8, <1>17
<1> DEFINE next == symphony /\ (n + 1) % 4 = 0
<1>19. todo' = Aligned4(next, Remaining(code, n + 1, back))
  <2>1. Remaining(code, n + 1, back) \in Seq(Calls)
    <3>1. code \in Seq(Calls) /\ Len(code) = 12
      BY <1>6, ConstantCodeIs DEF code
    <3>2. rest \in Seq(Calls)
      BY <1>5, BehindIs
    <3>3. back \in Seq(Calls)
      BY <3>2, BackCall, FirstOfCalls DEF back
    <3>4. n + 1 \in 0 .. Len(code)
      BY <1>17, <3>1
    <3> QED
      BY <3>1, <3>3, <3>4, RemainingElements
  <2>2. todo' = (IF symphony /\ pending' = 0 THEN <<Align(4)>> ELSE << >>) \o Remaining(code, n + 1, back)
    BY <1>4 DEF PutByte
  <2>3. << >> \o Remaining(code, n + 1, back) = Remaining(code, n + 1, back)
    BY <2>1, ConcatEmptySeq
  <2>4. CASE next
    BY <2>2, <2>4, <1>10 DEF Aligned4
  <2>5. CASE ~ next
    BY <2>2, <2>3, <2>5, <1>10 DEF Aligned4
  <2> QED
    BY <2>4, <2>5
<1>20. fixups' = fixups /\ symphony' = symphony
  BY <1>9 DEF Steady, fixed
<1>21. next \in BOOLEAN /\ (next => (n + 1) % 4 = 0 /\ symphony')
  BY <1>20
<1>22. PICK b \in BOOLEAN : b = next
  BY <1>21
<1> HIDE DEF next
<1>23. PatchingWith(f, rest, front, n + 1, b)'
  BY <1>10, <1>14, <1>15, <1>16, <1>18, <1>19, <1>20, <1>21, <1>22 DEF PatchingWith, code, back
<1>24. f \in DOMAIN fixups' /\ rest \in {<< >>, CodeNow'}
  BY <1>11, <1>20
<1> QED
  BY <1>11, <1>17, <1>23, <1>24 DEF Patching

(* its alignment in the wide encoding, where it is aligned already,          *)
LEMMA PutAlignOfConstant ==
  ASSUME EmitTyped, Linked, ~ error', PutAlign, Patching
  PROVE  EmitTyped' /\ Linked' /\ Patching'
<1>1. PICK f \in DOMAIN fixups, rest \in {<< >>, CodeNow}, front \in Nat, n \in 0 .. 12, al \in BOOLEAN :
        PatchingWith(f, rest, front, n, al)
  BY DEF Patching
<1> DEFINE code == ConstantCode(f, fixups[f].target)
           back == <<Back(front)>> \o rest
<1>2. todo # << >> /\ Head(todo).op = "align"
  BY DEF PutAlign, NextIs
<1>3. al
  <2>1. Head(todo).op = IF al THEN "align" ELSE IF n # 12 THEN "byte" ELSE "restore"
    BY <1>1, PatchingCall
  <2> QED
    BY <1>2, <2>1
<1>4. Head(todo) = Align(4) /\ Tail(todo) = Remaining(code, n, back)
  BY <1>1, <1>3, PatchingNext
<1> HIDE DEF code, back
<1>5. /\ Behind(rest, front) /\ Filled(front) /\ Lent(f, n) /\ ConstantsBut(f)
      /\ position = fixups[f].at + n /\ n % 4 = 0 /\ symphony
      /\ pending = IF symphony /\ n % 4 # 0 THEN 4 - (n % 4) ELSE 0
  BY <1>1, <1>3 DEF PatchingWith
<1>6. fixups[f].at \in Nat /\ fixups[f].at % 4 = 0
  BY <1>5, FixupTypes DEF Filled, Placed
<1>7. position % 4 = 0
  <2>1. (fixups[f].at + n) % 4 = 0
    BY <1>5, <1>6, FoursAdd
  <2> QED
    BY <2>1, <1>5
<1>8. todo' = Remaining(code, n, back) /\ UNCHANGED <<position, error, output, pending>> /\ Steady
  BY <1>4, <1>7, AlignCall DEF PutAlign, Steady
<1>9. EmitTyped' /\ Linked' /\ Now' = Now /\ Ends' = Ends /\ CodeNow' = CodeNow
  <2>1. position' \in Nat /\ pending' \in Nat /\ DOMAIN output' = DOMAIN output
    BY <1>8 DEF EmitTyped
  <2> QED
    BY <2>1, <1>2, <1>8, SteadyKeeps
<1>10. /\ Behind(rest, front)' /\ Filled(front)' /\ Lent(f, n)' /\ ConstantsBut(f)'
  <2>1. /\ \A k : OwnCells(k)' = OwnCells(k)
        /\ \A m \in Nat : WholeUpTo(m) => WholeUpTo(m)'
        /\ Filled(front)' /\ Lent(f, n)' /\ ConstantsBut(f)'
    BY <1>5, <1>8, SameOutputKeeps
  <2> QED
    BY <2>1, <1>5, <1>8, <1>9, BehindKept DEF Steady
<1>11. fixups' = fixups /\ symphony' = symphony
  BY <1>8 DEF Steady, fixed
<1>12. PatchingWith(f, rest, front, n, FALSE)'
  BY <1>5, <1>8, <1>10, <1>11 DEF PatchingWith, Aligned4, code, back
<1>13. f \in DOMAIN fixups' /\ rest \in {<< >>, CodeNow'}
  BY <1>9, <1>11
<1> QED
  BY <1>9, <1>12, <1>13 DEF Patching

(* The first of a piece's own instructions may begin.                        *)
AtFirst ==
  /\ Opened /\ AllConstants /\ Filled(position)
  /\ OwnCells(Now) = {} /\ position = Base /\ pending = 0 /\ todo = CodeNow

LEMMA WritingBegins == EmitTyped /\ AtFirst => Writing
<1> SUFFICES ASSUME EmitTyped, Opened, AllConstants, Filled(position),
                    OwnCells(Now) = {}, position = Base, pending = 0, todo = CodeNow
             PROVE  Writing
  BY DEF AtFirst
<1> DEFINE own == pieces[Now].own
<1>1. own \in Owns /\ CodeNow \in Seq(Calls) /\ CodeNow = OwnCode(own, Now) /\ position \in Nat
  BY CodeNowIs DEF Opened, CodeNow, EmitTyped
<1>2. Len(own) \in Nat
  BY <1>1 DEF Owns
<1>3. Cut(own, 0) = 0 /\ Cut(own, 0) + 0 = 0 /\ (0 < Len(own) => EmittedBytes(own[0 + 1]) \in 2 .. 4)
  <2>1. 0 < Len(own) => 0 \in 0 .. Len(own) - 1
    BY <1>2
  <2>2. Cut(own, 0) = 0
    BY DEF Cut
  <2>3. ASSUME 0 < Len(own) PROVE EmittedBytes(own[0 + 1]) \in 2 .. 4
    <3>1. PICK n \in 0 .. Len(own) - 1 : n = 0
      BY <2>1, <2>3
    <3> HIDE DEF own
    <3>2. EmittedBytes(own[n + 1]) \in 2 .. 4
      BY <1>1, <3>1, CutsAre
    <3> QED
      BY <3>1, <3>2
  <2> QED
    BY <2>2, <2>3
<1>4. todo = Aligned4(FALSE, Remaining(CodeNow, Cut(own, 0) + 0, << >>))
  <2>1. << >> \in Seq(Calls)
    OBVIOUS
  <2>2. Remaining(CodeNow, 0, << >>) = CodeNow
    BY <2>1, <1>1, RemainingFirst
  <2> QED
    BY <2>2, <1>3 DEF Aligned4
<1>5. Cardinality(OwnCells(Now)) = Cut(own, 0) + 0
  BY <1>3, FS_EmptySet
<1>6. Advanced(0, 0, FALSE)
  <2>1. position = Base + 4 * 0 + 0 /\ position = Base + Cut(own, 0) + 0
    BY <1>1, <1>3
  <2> QED
    BY <2>1 DEF Advanced
<1>7. Written(0, 0, FALSE)
  <2> HIDE DEF own
  <2>1. 0 \in 0 .. Len(own) /\ (IF 0 < Len(own) THEN 0 < EmittedBytes(own[0 + 1]) ELSE 0 = 0)
    BY <1>2, <1>3
  <2>2. OwnCells(Now) \subseteq Base .. position - 1
    OBVIOUS
  <2> QED
    BY <2>1, <2>2, <1>4, <1>5, <1>6 DEF Written, own
<1>8. \E i \in 0 .. 3, j \in 0 .. 3, b \in BOOLEAN : Written(i, j, b)
  <2>1. 0 \in 0 .. 3 /\ FALSE \in BOOLEAN
    OBVIOUS
  <2> QED
    BY <2>1, <1>7, Zenon
<1> QED
  BY <1>8 DEF Writing

(* and the end of the patch.                                                *)
LEMMA RestoreOfConstant ==
  ASSUME EmitTyped, Linked, Restore, Patching
  PROVE  EmitTyped' /\ Linked' /\ (Still' \/ Writing')
<1>1. PICK f \in DOMAIN fixups, rest \in {<< >>, CodeNow}, front \in Nat, n \in 0 .. 12, al \in BOOLEAN :
        PatchingWith(f, rest, front, n, al)
  BY DEF Patching
<1>2. todo # << >> /\ Head(todo).op = "restore"
  BY DEF Restore, NextIs
<1>3. ~ al /\ n = 12
  <2>1. Head(todo).op = IF al THEN "align" ELSE IF n # 12 THEN "byte" ELSE "restore"
    BY <1>1, PatchingCall
  <2> QED
    BY <1>2, <2>1
<1>4. Head(todo) = Back(front) /\ Tail(todo) = rest
  BY <1>1, <1>3, PatchingNext
<1>5. Behind(rest, front) /\ Filled(front) /\ Lent(f, 12) /\ ConstantsBut(f)
  BY <1>1, <1>3 DEF PatchingWith
<1>6. position' = front /\ pending' = 0 /\ todo' = rest /\ output' = output /\ Steady
  BY <1>4, BackCall DEF Restore, Steady
<1>7. /\ EmitTyped' /\ Linked' /\ Now' = Now /\ Ends' = Ends /\ CodeNow' = CodeNow /\ Base' = Base
  BY <1>2, <1>6, SteadyKeeps
<1>8. AllConstants
  BY <1>5, LentWhole
<1>9. /\ Behind(rest, front)' /\ Filled(front)' /\ AllConstants'
  <2>1. /\ \A k : OwnCells(k)' = OwnCells(k)
        /\ \A m \in Nat : WholeUpTo(m) => WholeUpTo(m)'
        /\ Filled(front)' /\ (ConstantsBut(0) => ConstantsBut(0)')
    BY <1>5, <1>6, SameOutputKeeps
  <2> QED
    BY <2>1, <1>5, <1>6, <1>7, <1>8, BehindKept DEF AllConstants, Steady
<1>10. Filled(position)'
  BY <1>6, <1>9 DEF Filled, Blank, Placed
<1>11. CASE rest = << >> /\ AtRest(front)'
  <2>1. AtRest(position)'
    BY <1>6, <1>11 DEF AtRest
  <2> QED
    BY <2>1, <1>6, <1>7, <1>9, <1>10, <1>11 DEF Still
<1>12. CASE Ahead(front)' /\ rest = CodeNow'
  <2>1. /\ Opened' /\ OwnCells(Now)' = {} /\ pieces'[Now'].kind # "instruction"
        /\ front = pieces'[Now'].at + 12
    BY <1>12 DEF Ahead
  <2>2. Base' = position'
    BY <2>1, <1>6 DEF Base, Lead
  <2>3. todo' = CodeNow'
    BY <1>6, <1>12
  <2>4. AtFirst'
    BY <2>1, <2>2, <2>3, <1>6, <1>9, <1>10 DEF AtFirst
  <2>5. EmitTyped'
    BY <1>7
  <2>6. Writing'
    BY <2>4, <2>5, WritingBegins, PTL
  <2> QED
    BY <2>6, <1>7
<1> QED
  BY <1>7, <1>9, <1>11, <1>12 DEF Behind

(* A constant gets its place at the end of the code,                        *)
LEMMA ConstantAsked ==
  ASSUME EmitTyped, Linked, ~ error', Constant, Asking
  PROVE  EmitTyped' /\ Linked' /\ Lending'
<1>0. PICK f : f = Len(fixups) + 1
  OBVIOUS
<1> DEFINE new == [at |-> position, use |-> pieces[Now].kind, target |-> None]
<1>1. /\ todo # << >> /\ Tail(todo) = CodeNow
      /\ Head(todo).use = pieces[Now].kind /\ pieces[Now].kind \in Uses
  BY AskingNext
<1>2. /\ position + 12 <= capacity /\ position' = position + 12 /\ fixups' = Append(fixups, new)
      /\ todo' = <<At(position, f, None)>> \o CodeNow
      /\ UNCHANGED <<fixed, pending, output, pieces, stage>>
  <2>1. position \in Nat /\ capacity \in Nat
    BY DEF EmitTyped
  <2>2. ~ (position + 12 > capacity)
    BY DEF Constant
  <2>3. new = [at |-> position, use |-> Head(todo).use, target |-> None]
    BY <1>1
  <2> HIDE DEF new
  <2>4. position + 12 <= capacity
    BY <2>1, <2>2
  <2>5. fixups' = Append(fixups, new) /\ UNCHANGED <<fixed, pending, output, pieces, stage>>
    BY <2>3 DEF Constant
  <2>6. position' = position + 12 /\ todo' = <<At(position, f, None)>> \o CodeNow
    BY <1>0, <1>1, <2>2 DEF Constant
  <2> QED
    BY <2>4, <2>5, <2>6
<1>3. /\ Ahead(position + 12) /\ pending = 0 /\ AllConstants /\ Filled(position)
  BY DEF Asking
<1>4. /\ position \in Nat /\ capacity \in Nat /\ DOMAIN output = 0 .. capacity - 1
      /\ Len(fixups) \in Nat /\ DOMAIN fixups = 1 .. Len(fixups) /\ fixups \in Seq(AnyFixup)
  BY PieceTypes DEF EmitTyped
<1>5. new \in AnyFixup
  BY <1>1, <1>4 DEF AnyFixup, Targets
<1> HIDE DEF new
<1>6. /\ fixups' \in Seq(AnyFixup) /\ DOMAIN fixups' = 1 .. f /\ fixups'[f] = new
      /\ \A g \in 1 .. Len(fixups) : fixups'[g] = fixups[g]
  BY <1>0, <1>2, <1>4, <1>5
<1>7. f \in Nat /\ f \in DOMAIN fixups' /\ \A g \in DOMAIN fixups' : g # f => g \in DOMAIN fixups
  BY <1>0, <1>4, <1>6
<1>8. new.at = position /\ new.target = None
  BY DEF new
<1>9. stage' = stage /\ pieces' = pieces /\ capacity' = capacity /\ symphony' = symphony /\ output' = output
      /\ position' \in Nat
  BY <1>2, <1>4 DEF fixed
<1>10. EmitTyped'
  BY <1>2, <1>6, <1>9 DEF EmitTyped
<1>11. Linked'
  BY <1>1, <1>9 DEF Linked, OpenPointers
<1>12. Now' = Now /\ Ends' = Ends /\ CodeNow' = CodeNow
  BY <1>9 DEF Now, Ends, CodeNow
<1>13. /\ pieces[Now].at = position /\ Opened
  <2>1. position + 12 = pieces[Now].at + 12 /\ Opened
    BY <1>3 DEF Ahead
  <2>2. pieces[Now].at \in Nat
    BY <2>1, CodeNowIs, PieceTypes DEF Opened
  <2> QED
    BY <2>1, <2>2, <1>4
<1>14. symphony => position % 4 = 0
  BY <1>13 DEF Opened
<1>15. PICK rest : rest = CodeNow
  OBVIOUS
<1>16. PICK front : front = position + 12
  OBVIOUS
<1>17. Behind(rest, front)'
  <2>1. /\ \A k : OwnCells(k)' = OwnCells(k)
        /\ \A m \in Nat : WholeUpTo(m) => WholeUpTo(m)'
    BY <1>2, SameOutputKeepsPieces
  <2>2. Ahead(front) /\ front \in Nat
    BY <1>3, <1>4, <1>16 DEF Ahead
  <2>3. Behind(rest, front)
    BY <2>2, <1>15 DEF Behind
  <2> QED
    BY <2>1, <2>2, <2>3, <1>2, <1>12, BehindKept
<1>18. Behind(rest, position)'
  BY <1>2, <1>16, <1>17 DEF Behind, AtRest, Ahead
<1>19. Filled(position)'
  <2>1. \A i \in DOMAIN output' : i >= position' => output'[i] = Empty
    BY <1>2, <1>3, <1>4, <1>9 DEF Filled, Blank
  <2>2. ASSUME NEW g \in DOMAIN fixups'
        PROVE  /\ fixups'[g].at + 12 <= position' /\ fixups'[g].at + 12 <= capacity'
               /\ symphony' => fixups'[g].at % 4 = 0
    <3>1. CASE g = f
      BY <3>1, <1>2, <1>4, <1>6, <1>8, <1>9, <1>14
    <3>2. CASE g # f
      <4>1. g \in DOMAIN fixups /\ fixups'[g] = fixups[g]
        BY <3>2, <1>4, <1>6, <1>7
      <4>2. Placed(g, position) /\ fixups[g].at \in Nat
        BY <4>1, <1>3, FixupTypes DEF Filled
      <4> QED
        BY <4>1, <4>2, <1>2, <1>4, <1>9 DEF Placed
    <3> QED
      BY <3>1, <3>2
  <2> QED
    BY <2>1, <2>2 DEF Filled, Blank, Placed
<1>20. Lent(f, 0)'
  <2>1. ASSUME NEW b \in 0 .. 11 PROVE output'[fixups'[f].at + b] = Empty
    <3>1. fixups'[f].at + b = position + b /\ position + b \in DOMAIN output /\ position + b >= position
      BY <1>2, <1>4, <1>6, <1>8
    <3>2. \A i \in DOMAIN output : i >= position => output[i] = Empty
      BY <1>3 DEF Filled, Blank
    <3>3. output[position + b] = Empty
      BY <3>1, <3>2
    <3> QED
      BY <3>1, <3>3, <1>9
  <2>2. 0 .. 0 - 1 = {}
    OBVIOUS
  <2> QED
    BY <2>1, <2>2, <1>7 DEF Lent, Lendable
<1>21. ConstantsBut(f)'
  <2>1. ASSUME NEW g \in DOMAIN fixups', g # f, NEW b \in 0 .. 11
        PROVE  output'[fixups'[g].at + b] = <<"constant", g, b \div 4 + 1, fixups'[g].target>>
    <3>1. g \in DOMAIN fixups /\ fixups'[g] = fixups[g] /\ g # 0
      BY <2>1, <1>4, <1>6, <1>7
    <3>2. ConstantIs(g, fixups[g].target)
      BY <3>1, <1>3 DEF AllConstants, ConstantsBut
    <3> QED
      BY <3>1, <3>2, <1>9 DEF ConstantIs
  <2> QED
    BY <2>1 DEF ConstantsBut, ConstantIs
<1>22. LendingWith(f, rest)'
  <2>1. todo' = <<At(fixups'[f].at, f, fixups'[f].target)>> \o rest
    BY <1>2, <1>6, <1>8, <1>15
  <2> QED
    BY <2>1, <1>2, <1>3, <1>18, <1>19, <1>20, <1>21 DEF LendingWith
<1>23. f \in DOMAIN fixups' /\ rest \in {<< >>, CodeNow'}
  BY <1>7, <1>12, <1>15
<1> QED
  BY <1>10, <1>11, <1>22, <1>23 DEF Lending

(* The emitter turns to a constant,                                         *)
LEMMA ConstantTurnedTo ==
  ASSUME EmitTyped, Linked, ConstantAt, Lending
  PROVE  EmitTyped' /\ Linked' /\ Patching'
<1>1. PICK f \in DOMAIN fixups, rest \in {<< >>, CodeNow} : LendingWith(f, rest)
  BY DEF Lending
<1>2. PICK front : front = position
  OBVIOUS
<1> DEFINE at == At(fixups[f].at, f, fixups[f].target)
           code == ConstantCode(f, fixups[f].target)
           back == <<Back(front)>> \o rest
<1>3. todo # << >> /\ Head(todo) = at /\ Tail(todo) = rest
  BY <1>1, LendingNext
<1>4. at.at = fixups[f].at /\ at.fixup = f /\ at.target = fixups[f].target
  BY DEF At
<1>5. /\ Behind(rest, front) /\ Filled(front) /\ pending = 0 /\ Lent(f, 0) /\ ConstantsBut(f)
      /\ front \in Nat
  BY <1>1, <1>2 DEF LendingWith, EmitTyped
<1>6. f \in Nat /\ fixups[f].at \in Nat /\ fixups[f].target \in Targets
  BY FixupTypes
<1>7. /\ position' = fixups[f].at /\ pending' = 0 /\ output' = output /\ Steady
      /\ todo' = code \o <<Back(front)>> \o rest
  <2>1. Back(front) = [op |-> "restore", position |-> position, pending |-> pending]
    BY <1>2, <1>5 DEF Back
  <2> HIDE DEF at
  <2>2. todo' = ConstantCode(Head(todo).fixup, Head(todo).target)
               \o <<[op |-> "restore", position |-> position, pending |-> pending]>> \o Tail(todo)
    BY DEF ConstantAt
  <2>3. todo' = code \o <<Back(front)>> \o rest
    BY <2>1, <2>2, <1>3, <1>4
  <2>4. position' = fixups[f].at /\ pending' = 0 /\ output' = output /\ Steady
    BY <1>3, <1>4 DEF ConstantAt, Steady
  <2> QED
    BY <2>3, <2>4
<1> HIDE DEF at
<1>8. todo' = Remaining(code, 0, back)
  <2>1. code \in Seq(Calls)
    BY <1>6, ConstantCodeIs
  <2>2. rest \in Seq(Calls)
    BY <1>5, BehindIs
  <2>3. <<Back(front)>> \in Seq(Calls)
    BY <1>5, BackCall
  <2> HIDE DEF code
  <2>4. back \in Seq(Calls)
    BY <2>2, <1>5, BackCall, FirstOfCalls
  <2>5. (code \o <<Back(front)>>) \o rest = code \o back
    BY <2>1, <2>2, <2>3, ConcatAssociative
  <2> HIDE DEF back
  <2>6. Remaining(code, 0, back) = code \o back
    BY <2>1, <2>4, RemainingFirst
  <2> QED
    BY <2>5, <2>6, <1>7
<1>9. EmitTyped' /\ Linked' /\ Now' = Now /\ Ends' = Ends /\ CodeNow' = CodeNow
  <2>1. position' \in Nat /\ pending' \in Nat /\ DOMAIN output' = DOMAIN output
    BY <1>6, <1>7
  <2> QED
    BY <2>1, <1>3, <1>7, SteadyKeeps
<1>10. /\ Behind(rest, front)' /\ Filled(front)' /\ Lent(f, 0)' /\ ConstantsBut(f)'
  <2>1. /\ \A k : OwnCells(k)' = OwnCells(k)
        /\ \A m \in Nat : WholeUpTo(m) => WholeUpTo(m)'
        /\ Filled(front)' /\ Lent(f, 0)' /\ ConstantsBut(f)'
    BY <1>5, <1>7, SameOutputKeeps
  <2> QED
    BY <2>1, <1>5, <1>7, <1>9, BehindKept DEF Steady
<1>11. fixups' = fixups /\ symphony' = symphony
  BY <1>7 DEF Steady, fixed
<1>12. position' = fixups'[f].at + 0
  BY <1>6, <1>7, <1>11
<1>13. todo' = Aligned4(FALSE, Remaining(ConstantCode(f, fixups'[f].target), 0, <<Back(front)>> \o rest))
  BY <1>8, <1>11 DEF Aligned4
<1>14. PatchingWith(f, rest, front, 0, FALSE)'
  <2>1. pending' = IF symphony' /\ 0 % 4 # 0 THEN 4 - (0 % 4) ELSE 0
    BY <1>7
  <2> QED
    BY <2>1, <1>10, <1>12, <1>13 DEF PatchingWith
<1>15. f \in DOMAIN fixups' /\ rest \in {<< >>, CodeNow'}
  BY <1>9, <1>11
<1> QED
  <2>1. 0 \in 0 .. 12 /\ FALSE \in BOOLEAN
    OBVIOUS
  <2>2. \E g \in DOMAIN fixups', r \in {<< >>, CodeNow'}, fr \in Nat, n \in 0 .. 12, al \in BOOLEAN :
          PatchingWith(g, r, fr, n, al)'
    BY <2>1, <1>5, <1>14, <1>15, Zenon
  <2> QED
    BY <2>2, <1>9 DEF Patching

-----------------------------------------------------------------------------
(* A byte of the current piece, or one to align it, goes behind everything.  *)
LEMMA WriteGoesOn ==
  ASSUME EmitTyped, Linked, Now >= 1, WholeUpTo(Now - 1), AllConstants, Filled(position),
         todo # << >>, Steady, pending' \in Nat,
         NEW k, k = Now, NEW mark, mark = Pad \/ mark = <<"piece", k>>, Write(mark), ~ error'
  PROVE  /\ EmitTyped' /\ Linked' /\ WholeUpTo(Now - 1)' /\ AllConstants' /\ Filled(position)'
         /\ position' = position + 1
         /\ pieces' = pieces /\ stage' = stage /\ symphony' = symphony
         /\ Now' = Now /\ Ends' = Ends /\ CodeNow' = CodeNow /\ Base' = Base /\ StartOf(k)' = StartOf(k)
         /\ mark = Pad => OwnCells(k)' = OwnCells(k)
         /\ mark = <<"piece", k>> => OwnCells(k)' = OwnCells(k) \cup {position}
<1>1. PICK p : p = position
  OBVIOUS
<1>2. p \in Nat /\ capacity \in Nat /\ DOMAIN output = 0 .. capacity - 1
  BY <1>1 DEF EmitTyped
<1>3. p < capacity
  BY <1>1, <1>2 DEF Write
<1>4. Lendable(0, p)
  <2>1. p \in DOMAIN output /\ p >= p
    BY <1>2, <1>3
  <2>2. output[p] = Empty
    BY <2>1, <1>1 DEF Filled, Blank
  <2> QED
    BY <2>2 DEF Lendable
<1>5. /\ Stamped(0, p, mark) /\ position' = p + 1 /\ position' \in Nat /\ DOMAIN output' = DOMAIN output
  BY <1>1, <1>4, WriteStamps
<1>6. UNCHANGED <<fixed, pieces, fixups>> /\ stage' = stage /\ pieces' = pieces /\ symphony' = symphony
  BY DEF Steady, fixed
<1>7. /\ EmitTyped' /\ Linked' /\ Now' = Now /\ Ends' = Ends /\ CodeNow' = CodeNow /\ Base' = Base
      /\ StartOf(k)' = StartOf(k)
  BY <1>5, SteadyKeeps
<1>8. AllConstants' /\ Filled(position)'
  <2>1. /\ ConstantsBut(0) => ConstantsBut(0)'
        /\ Filled(p) /\ p = p => Filled(p + 1)'
    BY <1>2, <1>5, <1>6, <1>1, StampKeepsConstants
  <2>2. Filled(p + 1)'
    BY <2>1, <1>1
  <2>3. PICK q : q = p + 1
    OBVIOUS
  <2>4. Filled(q)' /\ position' = q
    BY <2>2, <2>3, <1>5
  <2> QED
    BY <2>1, <2>4 DEF AllConstants, Filled, Blank, Placed
<1>9. WholeUpTo(Now - 1)'
  <2>1. PICK n : n = Now - 1
    OBVIOUS
  <2>2. Now \in Nat /\ Now = Len(pieces)
    BY PieceTypes DEF Now
  <2>3. n \in Nat /\ n <= Len(pieces) /\ k \notin 1 .. n
    BY <2>1, <2>2
  <2>4. \A l \in 1 .. n : mark # <<"piece", l>>
    BY <2>3, MarksApart
  <2>5. WholeUpTo(n)'
    BY <2>1, <2>3, <2>4, <1>5, <1>6, StampKeepsPieces
  <2> QED
    BY <2>1, <2>5, <1>7 DEF WholeUpTo
<1>10. /\ mark = Pad => OwnCells(k)' = OwnCells(k)
       /\ mark = <<"piece", k>> => OwnCells(k)' = OwnCells(k) \cup {p}
  <2>1. Pad # <<"piece", k>>
    BY MarksApart
  <2> QED
    BY <2>1, <1>5, <1>6, StampKeepsPieces
<1> QED
  BY <1>1, <1>5, <1>6, <1>7, <1>8, <1>9, <1>10

(* The cells grow by one.                                                   *)
LEMMA OneMore ==
  ASSUME NEW C, NEW a \in Nat, NEW p \in Nat, C \subseteq a .. p - 1
  PROVE  /\ IsFiniteSet(C) /\ Cardinality(C) \in Nat
         /\ a <= p => C \cup {p} \subseteq a .. p
         /\ Cardinality(C \cup {p}) = Cardinality(C) + 1
<1>1. IsFiniteSet(a .. p - 1)
  BY FS_Interval
<1>2. IsFiniteSet(C)
  BY <1>1, FS_Subset
<1>3. p \notin C
  OBVIOUS
<1>4. Cardinality(C \cup {p}) = Cardinality(C) + 1
  BY <1>2, <1>3, FS_AddElement
<1> QED
  BY <1>2, <1>4, FS_CardinalityType

(* A byte of an instruction,                                                *)
LEMMA PutByteOfPiece ==
  ASSUME EmitTyped, Linked, ~ error', PutByte, Writing
  PROVE  EmitTyped' /\ Linked' /\ Writing'
<1>1. PICK n \in 0 .. 3, j \in 0 .. 3, al \in BOOLEAN : Written(n, j, al)
  BY DEF Writing
<1>2. PICK k : k = Now
  OBVIOUS
<1>3. PICK own : own = pieces[Now].own
  OBVIOUS
<1> DEFINE code == OwnCode(own, k)
           size == EmittedBytes(own[n + 1])
           mark == <<"piece", k>>
<1>4. todo # << >> /\ Head(todo).op = "byte"
  BY DEF PutByte, NextIs
<1>5. /\ Opened /\ AllConstants /\ Filled(position) /\ Now >= 1 /\ WholeUpTo(Now - 1) /\ stage = "code"
  BY DEF Writing, Opened
<1>6. k \in Nat /\ own \in Owns /\ code = CodeNow /\ pieces[Now].at \in Nat
  BY <1>2, <1>3, <1>5, CodeNowIs, PieceTypes DEF CodeNow
<1>7. Base \in Nat /\ position \in Nat /\ symphony \in BOOLEAN
  <2>1. Lead(pieces[Now]) \in {0, 12}
    BY DEF Lead
  <2> QED
    BY <2>1, <1>6 DEF Base, EmitTyped
<1>8. ~ al
  BY <1>1, <1>4, <1>5, WritingNext, AlignCall
<1>9. /\ n < Len(own)
      /\ Head(todo) = Byte(IF j = 0 THEN own[n + 1] ELSE 0, mark)
      /\ Tail(todo) = Remaining(code, Cut(own, n) + j + 1, << >>)
  BY <1>1, <1>2, <1>3, <1>4, <1>5, <1>6, <1>8, WritingNext
<1>10. /\ Len(own) \in {0, 1, 3} /\ Len(own) \in Nat /\ n \in 0 .. Len(own) - 1
       /\ n \in 0 .. 3 /\ j \in 0 .. 3 /\ n + 1 \in 0 .. 3 /\ n + 1 \in 0 .. Len(own)
  <2>1. /\ Len(own) \in {0, 1, 3} /\ Len(own) \in Nat /\ n \in 0 .. 3 /\ j \in 0 .. 3
    BY <1>1, <1>6 DEF Owns
  <2>2. n \in 0 .. Len(own) - 1
    BY <2>1, <1>9
  <2>3. n + 1 \in 0 .. Len(own)
    BY <2>1, <1>9
  <2>4. n + 1 <= 3
    <3>1. CASE Len(own) = 3
      BY <2>2, <3>1
    <3>2. CASE Len(own) = 1
      BY <2>2, <3>2
    <3>3. CASE Len(own) = 0
      BY <2>2, <3>3
    <3> QED
      BY <2>1, <3>1, <3>2, <3>3
  <2> QED
    BY <2>1, <2>2, <2>3, <2>4
<1>11. /\ InstructionSize(own[n + 1]) = size /\ size \in 2 .. 4
       /\ Cut(own, n) \in Nat /\ Cut(own, n + 1) = Cut(own, n) + size
       /\ Cut(own, n + 1) <= Len(code) /\ code \in Seq(Calls) /\ Len(code) \in Nat
  <2>1. code \in Seq(Calls) /\ Len(code) = Cut(own, Len(own))
    BY <1>6, OwnCodeIs
  <2> QED
    BY <2>1, <1>6, <1>10, CutsAre
<1>12. /\ j < size
       /\ OwnCells(Now) \subseteq Base .. position - 1 /\ Cardinality(OwnCells(Now)) = Cut(own, n) + j
       /\ IF symphony THEN /\ pending = IF j = 0 THEN 0 ELSE size - j
                           /\ position = Base + 4 * n + j
                      ELSE pending = 0 /\ position = Base + Cut(own, n) + j
  BY <1>1, <1>3, <1>8, <1>9 DEF Written, Advanced
<1> DEFINE last == j + 1 = size
<1>13. Head(todo).mark = mark /\ (j = 0 => Head(todo).value = own[n + 1])
  BY <1>9 DEF Byte
<1> HIDE DEF size, mark, code
<1>14. /\ symphony => pending' = size - (j + 1)
       /\ ~ symphony => pending' = 0
       /\ pending' \in Nat
  <2>1. pending' = IF ~ symphony THEN pending
                   ELSE (IF pending = 0 THEN InstructionSize(Head(todo).value) ELSE pending) - 1
    BY DEF PutByte
  <2>2. CASE ~ symphony
    BY <2>1, <2>2, <1>12
  <2>3. CASE symphony /\ j = 0
    <3>1. pending = 0 /\ InstructionSize(Head(todo).value) = size
      BY <2>3, <1>11, <1>12, <1>13
    <3>2. pending' = size - 1
      BY <2>1, <2>3, <3>1
    <3> QED
      BY <2>3, <3>2, <1>11
  <2>4. CASE symphony /\ j # 0
    <3>1. pending = size - j /\ pending # 0
      BY <2>4, <1>11, <1>12
    <3>2. pending' = (size - j) - 1
      BY <2>1, <2>4, <3>1
    <3> QED
      BY <2>4, <3>2, <1>11, <1>12
  <2> QED
    BY <2>2, <2>3, <2>4, <1>7
<1>15. Write(mark) /\ Steady
  BY <1>13 DEF PutByte, Steady
<1>16. /\ EmitTyped' /\ Linked' /\ WholeUpTo(Now - 1)' /\ AllConstants' /\ Filled(position)'
       /\ position' = position + 1 /\ pieces' = pieces /\ stage' = stage /\ symphony' = symphony
       /\ Now' = Now /\ Ends' = Ends /\ CodeNow' = CodeNow /\ Base' = Base
       /\ OwnCells(k)' = OwnCells(k) \cup {position}
  <2>1. mark = <<"piece", k>>
    BY DEF mark
  <2> QED
    BY <2>1, <1>2, <1>4, <1>5, <1>14, <1>15, WriteGoesOn
<1>17. Opened'
  BY <1>5, <1>16 DEF Opened
<1>18. /\ OwnCells(Now)' \subseteq Base' .. position' - 1
       /\ Cardinality(OwnCells(Now)') = Cut(own, n) + (j + 1)
  <2>1. PICK C : C = OwnCells(Now)
    OBVIOUS
  <2>2. OwnCells(Now)' = C \cup {position}
    BY <2>1, <1>2, <1>16 DEF OwnCells
  <2>3. C \subseteq Base .. position - 1 /\ Base <= position
    <3>1. Base <= position
      BY <1>7, <1>10, <1>11, <1>12
    <3> QED
      BY <2>1, <3>1, <1>12
  <2>4. C \cup {position} \subseteq Base .. position /\ Cardinality(C \cup {position}) = Cardinality(C) + 1
    BY <2>3, <1>7, OneMore
  <2>5. position' - 1 = position
    BY <1>7, <1>16
  <2>6. (Cut(own, n) + j) + 1 = Cut(own, n) + (j + 1)
    BY <1>11
  <2> QED
    BY <2>1, <2>2, <2>4, <2>5, <2>6, <1>12, <1>16
<1>19. PICK m : m = Cut(own, n) + j + 1
  OBVIOUS
<1>20. m \in 0 .. Len(code)
  BY <1>10, <1>11, <1>12, <1>19
<1>21. Remaining(code, m, << >>) \in Seq(Calls)
  <2>1. << >> \in Seq(Calls)
    OBVIOUS
  <2> QED
    BY <2>1, <1>11, <1>20, RemainingElements
<1>22. todo' = Aligned4(symphony /\ last, Remaining(code, m, << >>))
  <2>1. todo' = (IF symphony /\ pending' = 0 THEN <<Align(4)>> ELSE << >>) \o Remaining(code, m, << >>)
    BY <1>9, <1>19 DEF PutByte
  <2>2. << >> \o Remaining(code, m, << >>) = Remaining(code, m, << >>)
    BY <1>21, ConcatEmptySeq
  <2>3. symphony => (pending' = 0 <=> last)
    BY <1>11, <1>14
  <2>4. CASE symphony /\ last
    BY <2>1, <2>3, <2>4 DEF Aligned4
  <2>5. CASE ~ (symphony /\ last)
    BY <2>1, <2>2, <2>3, <2>5 DEF Aligned4
  <2> QED
    BY <2>4, <2>5
<1>23. own = pieces'[Now'].own /\ code = CodeNow'
  BY <1>3, <1>6, <1>16
<1>24. CASE ~ last
  <2>1. j + 1 < size /\ j + 1 \in 0 .. 3 /\ n \in 0 .. Len(own)
    BY <1>10, <1>11, <1>12, <1>24
  <2>2. todo' = Aligned4(FALSE, Remaining(code, Cut(own, n) + (j + 1), << >>))
    <3>1. m = Cut(own, n) + (j + 1)
      BY <1>11, <1>19
    <3> QED
      BY <3>1, <1>22, <1>24 DEF Aligned4
  <2>3. Advanced(n, j + 1, FALSE)'
    <3>1. IF symphony THEN /\ pending' = size - (j + 1)
                           /\ position' = Base + 4 * n + (j + 1)
                      ELSE pending' = 0 /\ position' = Base + Cut(own, n) + (j + 1)
      BY <1>7, <1>11, <1>12, <1>14, <1>16
    <3>2. j + 1 # 0
      OBVIOUS
    <3> QED
      BY <3>1, <3>2, <1>16, <1>23 DEF Advanced, size
  <2>4. Written(n, j + 1, FALSE)'
    <3>1. IF n < Len(own) THEN j + 1 < EmittedBytes(own[n + 1]) ELSE j + 1 = 0
      BY <2>1, <1>9 DEF size
    <3>2. j + 1 \in Nat
      OBVIOUS
    <3> QED
      BY <2>1, <2>2, <2>3, <3>1, <3>2, <1>18, <1>23 DEF Written
  <2>5. \E i \in 0 .. 3, c \in 0 .. 3, b \in BOOLEAN : Written(i, c, b)'
    <3>1. FALSE \in BOOLEAN
      OBVIOUS
    <3> QED
      BY <2>1, <2>4, <3>1, Zenon
  <2> QED
    BY <2>5, <1>16, <1>17 DEF Writing
<1>25. CASE last
  <2>1. PICK b \in BOOLEAN : b = symphony
    BY <1>7
  <2>2. n + 1 \in 0 .. 3 /\ n + 1 \in 0 .. Len(own) /\ n + 1 >= 1
    BY <1>10
  <2>3. Cut(own, n + 1) + 0 = m /\ Cut(own, n + 1) + 0 = Cut(own, n) + (j + 1)
    BY <1>11, <1>19, <1>25
  <2>4. todo' = Aligned4(b, Remaining(code, Cut(own, n + 1) + 0, << >>))
    BY <2>1, <2>3, <1>7, <1>22, <1>25 DEF Aligned4
  <2>5. Advanced(n + 1, 0, b)'
    <3>1. IF symphony THEN pending' = 0 /\ position' \in Base + 4 * (n + 1) - 3 .. Base + 4 * (n + 1)
                      ELSE pending' = 0 /\ position' = Base + Cut(own, n + 1) + 0
      BY <1>7, <1>11, <1>12, <1>14, <1>16, <1>25
    <3> QED
      BY <2>1, <2>2, <3>1, <1>16, <1>23 DEF Advanced
  <2>6. Written(n + 1, 0, b)'
    <3>1. IF n + 1 < Len(own) THEN 0 < EmittedBytes(own[n + 1 + 1]) ELSE 0 = 0
      <4>1. CASE n + 1 < Len(own)
        <5>1. n + 1 \in 0 .. Len(own) - 1
          BY <4>1, <1>10
        <5>2. EmittedBytes(own[n + 1 + 1]) \in 2 .. 4
          BY <5>1, <1>6, CutsAre
        <5> QED
          BY <4>1, <5>2
      <4> QED
        BY <4>1
    <3>2. Cardinality(OwnCells(Now)') = Cut(own, n + 1) + 0
      BY <2>3, <1>18
    <3> QED
      BY <2>2, <2>4, <2>5, <3>1, <3>2, <1>18, <1>23 DEF Written
  <2>7. \E i \in 0 .. 3, c \in 0 .. 3, d \in BOOLEAN : Written(i, c, d)'
    <3>1. 0 \in 0 .. 3
      OBVIOUS
    <3> QED
      BY <2>1, <2>2, <2>6, <3>1, Zenon
  <2> QED
    BY <2>7, <1>16, <1>17 DEF Writing
<1> QED
  BY <1>24, <1>25

(* the alignment behind it in the wide encoding,                            *)
LEMMA PutAlignOfPiece ==
  ASSUME EmitTyped, Linked, ~ error', PutAlign, Writing
  PROVE  EmitTyped' /\ Linked' /\ Writing'
<1>1. PICK n \in 0 .. 3, j \in 0 .. 3, al \in BOOLEAN : Written(n, j, al)
  BY DEF Writing
<1>2. PICK k : k = Now
  OBVIOUS
<1>3. PICK own : own = pieces[Now].own
  OBVIOUS
<1>4. todo # << >> /\ Head(todo).op = "align"
  BY DEF PutAlign, NextIs
<1>5. /\ Opened /\ AllConstants /\ Filled(position) /\ Now >= 1 /\ WholeUpTo(Now - 1) /\ stage = "code"
  BY DEF Writing, Opened
<1>6. pieces[Now].at \in Nat /\ position \in Nat /\ symphony \in BOOLEAN /\ own \in Owns
  BY <1>3, <1>5, CodeNowIs, PieceTypes DEF EmitTyped
<1>7. al
  <2>1. CASE ~ al
    <3>1. Head(todo) = Byte(IF j = 0 THEN own[n + 1] ELSE 0, <<"piece", Now>>)
      BY <1>1, <1>3, <1>4, <1>5, <2>1, WritingNext
    <3>2. Head(todo).op = "byte"
      BY <3>1 DEF Byte
    <3> QED
      BY <3>2, <1>4
  <2> QED
    BY <2>1
<1>8. Head(todo) = Align(4) /\ Tail(todo) = Remaining(CodeNow, Cut(own, n) + j, << >>)
  BY <1>1, <1>3, <1>4, <1>5, <1>7, WritingNext
<1>9. /\ n \in 0 .. Len(own) /\ j = 0 /\ n >= 1 /\ pending = 0 /\ symphony
      /\ IF n < Len(own) THEN j < EmittedBytes(own[n + 1]) ELSE j = 0
      /\ todo = Aligned4(TRUE, Remaining(CodeNow, Cut(own, n) + j, << >>))
      /\ OwnCells(Now) \subseteq Base .. position - 1
      /\ Cardinality(OwnCells(Now)) = Cut(own, n) + j
      /\ position \in Base + 4 * n - 3 .. Base + 4 * n
  BY <1>1, <1>3, <1>6, <1>7 DEF Written, Advanced
<1>10. Base \in Nat /\ Base % 4 = 0 /\ n \in Nat
  <2>1. pieces[Now].at % 4 = 0
    BY <1>5, <1>9 DEF Opened
  <2>2. \A a \in Nat : a % 4 = 0 => (a + 0) % 4 = 0 /\ (a + 12) % 4 = 0
    OBVIOUS
  <2> QED
    BY <2>1, <2>2, <1>1, <1>6 DEF Base, Lead
<1>11. position % 4 = 0 => position = Base + 4 * n
  BY <1>6, <1>9, <1>10
<1>12. (Base + 4 * n) % 4 = 0
  BY <1>10
<1>13. Steady /\ pending' = 0
  BY <1>9 DEF PutAlign, Steady
<1>14. CASE position % 4 = 0
  <2>1. todo' = Tail(todo) /\ UNCHANGED <<position, output>>
    BY <1>8, <1>14, AlignCall DEF PutAlign
  <2>2. /\ EmitTyped' /\ Linked' /\ Now' = Now /\ Ends' = Ends /\ CodeNow' = CodeNow /\ Base' = Base
    <3>1. position' \in Nat /\ pending' \in Nat /\ DOMAIN output' = DOMAIN output
      BY <2>1, <1>6, <1>13
    <3> QED
      BY <3>1, <1>4, <1>13, SteadyKeeps
  <2>3. /\ OwnCells(k)' = OwnCells(k)
        /\ \A m \in Nat : WholeUpTo(m) => WholeUpTo(m)'
        /\ AllConstants' /\ Filled(position)'
    <3>1. PICK p : p = position
      OBVIOUS
    <3>2. /\ \A m \in Nat : WholeUpTo(m) => WholeUpTo(m)'
          /\ \A l : OwnCells(l)' = OwnCells(l)
          /\ ConstantsBut(0)' /\ Filled(p)'
      BY <3>1, <2>1, <1>5, <1>6, <1>13, SameOutputKeeps DEF AllConstants
    <3> QED
      BY <3>1, <3>2, <2>1 DEF AllConstants, Filled, Blank, Placed
  <2>4. WholeUpTo(Now - 1)'
    <3>1. PICK m : m = Now - 1
      OBVIOUS
    <3>2. m \in Nat
      BY <3>1, <1>5, PieceTypes DEF Now
    <3>3. WholeUpTo(m)'
      BY <3>1, <3>2, <2>3, <1>5
    <3> QED
      BY <3>1, <3>3, <2>2 DEF WholeUpTo
  <2>5. pieces' = pieces /\ stage' = stage /\ symphony' = symphony
    BY <1>13 DEF Steady, fixed
  <2>6. Opened'
    BY <2>2, <2>4, <2>5, <1>5 DEF Opened
  <2>7. OwnCells(Now)' = OwnCells(Now)
    BY <2>2, <2>3, <1>2 DEF OwnCells
  <2>8. Advanced(n, 0, FALSE)'
    BY <2>1, <2>2, <2>5, <1>9, <1>10, <1>11, <1>13, <1>14 DEF Advanced
  <2>9. todo' = Aligned4(FALSE, Remaining(CodeNow', Cut(own, n) + j, << >>))
    BY <2>1, <2>2, <1>8 DEF Aligned4
  <2>10. own = pieces'[Now'].own
    BY <2>2, <2>5, <1>3
  <2>11. Written(n, 0, FALSE)'
    BY <2>1, <2>2, <2>7, <2>8, <2>9, <2>10, <1>9 DEF Written
  <2>12. \E i \in 0 .. 3, c \in 0 .. 3, b \in BOOLEAN : Written(i, c, b)'
    <3>1. FALSE \in BOOLEAN /\ 0 \in 0 .. 3
      OBVIOUS
    <3> QED
      BY <2>11, <3>1, <1>1, Zenon
  <2> QED
    BY <2>2, <2>3, <2>6, <2>12 DEF Writing
<1>15. CASE position % 4 # 0
  <2>1. Write(Pad) /\ todo' = todo
    <3>1. Head(todo).to = 4
      BY <1>8, AlignCall
    <3> QED
      BY <3>1, <1>15 DEF PutAlign
  <2>2. /\ EmitTyped' /\ Linked' /\ WholeUpTo(Now - 1)' /\ AllConstants' /\ Filled(position)'
        /\ position' = position + 1 /\ pieces' = pieces /\ stage' = stage /\ symphony' = symphony
        /\ Now' = Now /\ Ends' = Ends /\ CodeNow' = CodeNow /\ Base' = Base
        /\ OwnCells(k)' = OwnCells(k)
    <3>1. pending' \in Nat
      BY <1>13
    <3>2. PICK m : m = Pad
      OBVIOUS
    <3> QED
      BY <3>1, <3>2, <2>1, <1>2, <1>4, <1>5, <1>13, WriteGoesOn
  <2>3. Opened'
    BY <2>2, <1>5 DEF Opened
  <2>4. OwnCells(Now)' = OwnCells(Now)
    BY <2>2, <1>2 DEF OwnCells
  <2>5. position' \in Base + 4 * n - 3 .. Base + 4 * n
    <3>1. position # Base + 4 * n
      BY <1>12, <1>15
    <3> QED
      BY <3>1, <2>2, <1>6, <1>9, <1>10
  <2>6. Advanced(n, 0, TRUE)'
    BY <2>2, <2>5, <1>9, <1>13 DEF Advanced
  <2>7. OwnCells(Now)' \subseteq Base' .. position' - 1
    BY <2>2, <2>4, <1>6, <1>9, <1>10
  <2>8. own = pieces'[Now'].own /\ todo' = Aligned4(TRUE, Remaining(CodeNow', Cut(own, n) + j, << >>))
    BY <2>1, <2>2, <1>3, <1>9
  <2>9. Written(n, 0, TRUE)'
    BY <2>4, <2>6, <2>7, <2>8, <1>9 DEF Written
  <2>10. \E i \in 0 .. 3, c \in 0 .. 3, b \in BOOLEAN : Written(i, c, b)'
    <3>1. TRUE \in BOOLEAN /\ 0 \in 0 .. 3
      OBVIOUS
    <3> QED
      BY <2>9, <3>1, <1>1, Zenon
  <2> QED
    BY <2>2, <2>3, <2>10 DEF Writing
<1> QED
  BY <1>14, <1>15

-----------------------------------------------------------------------------
(* The bytes that align a global,                                           *)
LEMMA PutAlignOfGlobal ==
  ASSUME EmitTyped, Linked, ~ error', PutAlign, Aligning
  PROVE  EmitTyped' /\ Linked' /\ Aligning'
<1>1. PICK k : k = Now
  OBVIOUS
<1>2. PICK piece : piece = pieces[Now]
  OBVIOUS
<1> DEFINE calls == <<Begins>> \o Raws(piece.own, k)
<1>3. todo # << >> /\ Head(todo).op = "align"
  BY DEF PutAlign, NextIs
<1>4. Global /\ OwnCells(Now) = {} /\ position \in Ends[Now - 1] .. StartOf(Now)
  BY DEF Aligning
<1>5. /\ stage = "globals" /\ Now >= 1 /\ WholeUpTo(Now - 1)
      /\ piece.kind \in DataKinds /\ piece.target = None
      /\ AllConstants /\ Filled(position) /\ pending = 0
  BY <1>2, <1>4 DEF Global
<1>6. Now \in 1 .. Len(pieces) /\ piece.align \in {1, 2, 4} /\ position \in Nat
  BY <1>2, <1>4, GlobalIs DEF EmitTyped
<1>7. Head(todo) = Align(piece.align) /\ Tail(todo) = calls
  <2>1. Begins.op = "begin"
    BY DEF Begins
  <2>2. Head(todo) # Begins
    BY <2>1, <1>3
  <2> QED
    BY <2>2, <1>1, <1>2, AligningNext
<1>8. todo = <<Align(piece.align)>> \o calls
  <2>1. todo = <<Align(piece.align)>> \o calls \/ todo = calls
    BY <1>1, <1>2 DEF Aligning
  <2>2. CASE todo = calls
    <3>1. Raws(piece.own, k) \in Seq(Calls) /\ Begins \in Calls
      BY <1>1, <1>2, <1>4, GlobalIs DEF Calls, Begins
    <3>2. Head(todo) = Begins
      BY <2>2, <3>1, FirstOfCalls
    <3>3. Begins.op = "begin"
      BY DEF Begins
    <3> QED
      BY <3>2, <3>3, <1>3
  <2> QED
    BY <2>1, <2>2
<1>9. /\ Ends[Now - 1] \in Nat /\ StartOf(Now) \in Nat
      /\ position % piece.align = 0 => position = StartOf(Now)
      /\ StartOf(Now) % piece.align = 0
  <2>1. Ends[Now - 1] \in Nat /\ StartOf(Now) \in Nat
    BY <1>6, EndsTyped
  <2>2. position % piece.align = 0 => position = StartOf(Now)
    BY <1>2, <1>4, <1>6, EndsTyped
  <2>3. StartOf(Now) % piece.align = 0
    <3>1. PICK n, to : n = Ends[Now - 1] /\ to = piece.align
      OBVIOUS
    <3>2. n \in Nat /\ to \in {1, 2, 4}
      BY <1>6, <2>1, <3>1
    <3>3. RoundedUp(n, to) % to = 0
      BY <3>2, RoundedUpIs
    <3>4. StartOf(Now) = RoundedUp(n, to)
      BY <1>2, <3>1 DEF StartOf
    <3> QED
      BY <3>1, <3>3, <3>4
  <2> QED
    BY <2>1, <2>2, <2>3
<1>10. Steady /\ pending' = 0
  BY <1>5 DEF PutAlign, Steady
<1> HIDE DEF calls
<1>11. CASE position % piece.align = 0
  <2>1. todo' = calls /\ UNCHANGED <<position, output>>
    BY <1>6, <1>7, <1>11, AlignCall DEF PutAlign
  <2>2. /\ EmitTyped' /\ Linked' /\ Now' = Now /\ Ends' = Ends /\ StartOf(k)' = StartOf(k)
    <3>1. position' \in Nat /\ pending' \in Nat /\ DOMAIN output' = DOMAIN output
      BY <2>1, <1>6, <1>10
    <3> QED
      BY <3>1, <1>3, <1>10, SteadyKeeps
  <2>3. WholeUpTo(Now - 1)' /\ AllConstants' /\ Filled(position)' /\ OwnCells(k)' = OwnCells(k)
    <3>1. PICK p : p = position
      OBVIOUS
    <3>2. PICK m : m = Now - 1
      OBVIOUS
    <3>3. m \in Nat
      BY <3>2, <1>6, PieceTypes
    <3>4. WholeUpTo(m)' /\ OwnCells(k)' = OwnCells(k) /\ ConstantsBut(0)' /\ Filled(p)'
      BY <3>1, <3>2, <3>3, <2>1, <1>5, <1>6, <1>10, SameOutputKeeps DEF AllConstants
    <3> QED
      BY <3>1, <3>2, <3>4, <2>1, <2>2 DEF AllConstants, Filled, Blank, Placed, WholeUpTo
  <2>4. pieces' = pieces /\ stage' = stage
    BY <1>10 DEF Steady
  <2>5. Global'
    BY <2>2, <2>3, <2>4, <1>2, <1>5, <1>10 DEF Global
  <2>6. OwnCells(Now)' = {} /\ StartOf(Now)' = StartOf(Now)
    BY <2>2, <2>3, <1>1, <1>4 DEF OwnCells, StartOf
  <2>7. calls = <<Begins>> \o Raws(pieces'[Now'].own, Now')
    BY <2>2, <2>4, <1>1, <1>2 DEF calls
  <2> QED
    BY <2>1, <2>2, <2>5, <2>6, <2>7, <1>4, <1>9, <1>11 DEF Aligning
<1>12. CASE position % piece.align # 0
  <2>1. Write(Pad) /\ todo' = todo
    <3>1. Head(todo).to = piece.align
      BY <1>6, <1>7, AlignCall
    <3> QED
      BY <3>1, <1>12 DEF PutAlign
  <2>2. /\ EmitTyped' /\ Linked' /\ WholeUpTo(Now - 1)' /\ AllConstants' /\ Filled(position)'
        /\ position' = position + 1 /\ pieces' = pieces /\ stage' = stage
        /\ Now' = Now /\ Ends' = Ends /\ StartOf(k)' = StartOf(k) /\ OwnCells(k)' = OwnCells(k)
    <3>1. pending' \in Nat
      BY <1>10
    <3>2. PICK m : m = Pad
      OBVIOUS
    <3> QED
      BY <3>1, <3>2, <2>1, <1>1, <1>3, <1>5, <1>10, WriteGoesOn
  <2>3. Global'
    BY <2>2, <1>2, <1>5, <1>10 DEF Global
  <2>4. OwnCells(Now)' = {} /\ StartOf(Now)' = StartOf(Now)
    BY <2>2, <1>1, <1>4 DEF OwnCells, StartOf
  <2>5. position' \in Ends'[Now' - 1] .. StartOf(Now)'
    <3>1. position # StartOf(Now)
      BY <1>9, <1>12
    <3> QED
      BY <3>1, <2>2, <2>4, <1>4, <1>6, <1>9
  <2>6. todo' = <<Align(pieces'[Now'].align)>> \o (<<Begins>> \o Raws(pieces'[Now'].own, Now'))
    BY <2>1, <2>2, <1>1, <1>2, <1>8 DEF calls
  <2> QED
    BY <2>2, <2>3, <2>4, <2>5, <2>6 DEF Aligning
<1> QED
  BY <1>11, <1>12

(* its place,                                                               *)
LEMMA GlobalBegun ==
  ASSUME EmitTyped, Linked, GlobalBegins, Aligning
  PROVE  EmitTyped' /\ Linked' /\ Filling'
<1>1. PICK k : k = Now
  OBVIOUS
<1>2. PICK piece : piece = pieces[Now]
  OBVIOUS
<1> DEFINE raws == Raws(piece.own, k)
<1>3. todo # << >> /\ Head(todo).op = "begin"
  BY DEF GlobalBegins, NextIs
<1>4. Global /\ OwnCells(k) = {}
  BY <1>1 DEF Aligning
<1>5. /\ stage = "globals" /\ Now >= 1 /\ WholeUpTo(Now - 1)
      /\ piece.kind \in DataKinds /\ piece.target = None
      /\ AllConstants /\ Filled(position) /\ pending = 0
  BY <1>2, <1>4 DEF Global
<1>6. /\ k \in 1 .. Len(pieces) /\ k = Len(pieces) /\ Len(pieces) \in Nat /\ piece.align \in {1, 2, 4}
      /\ position \in Nat /\ piece.own \in Nat /\ piece \in AnyData
      /\ raws \in Seq(Calls) /\ Len(raws) = piece.own
  BY <1>1, <1>2, <1>4, GlobalIs, PieceTypes DEF EmitTyped, Now
<1>7. position = StartOf(k) /\ Tail(todo) = raws
  <2>1. Head(todo) # Align(piece.align)
    BY <1>3, <1>6, AlignCall
  <2> QED
    BY <2>1, <1>1, <1>2, AligningNext
<1> HIDE DEF raws
<1>8. /\ pieces' = [pieces EXCEPT ![k].at = position] /\ todo' = raws
      /\ UNCHANGED <<fixed, position, pending, output, fixups, stage>>
  BY <1>1, <1>7 DEF GlobalBegins, Now
<1>9. /\ capacity' = capacity /\ symphony' = symphony /\ stage' = stage /\ fixups' = fixups
      /\ output' = output /\ position' = position /\ pending' = 0
  BY <1>5, <1>8 DEF fixed
<1>10. pieces \in Seq(AnyCode \cup AnyData) /\ DOMAIN pieces = 1 .. Len(pieces)
  BY PieceTypes DEF EmitTyped
<1>11. PICK new : new = [piece EXCEPT !.at = position]
  OBVIOUS
<1>12. /\ new \in AnyData /\ new.at = position /\ new.kind = piece.kind /\ new.own = piece.own
       /\ new.align = piece.align /\ new.target = piece.target
  BY <1>6, <1>11 DEF AnyData
<1>13. pieces' = [pieces EXCEPT ![k] = new]
  BY <1>1, <1>2, <1>8, <1>11
<1>14. /\ pieces' \in Seq(AnyCode \cup AnyData) /\ Len(pieces') = Len(pieces)
       /\ DOMAIN pieces' = DOMAIN pieces
       /\ pieces'[k] = new /\ \A l \in DOMAIN pieces : l # k => pieces'[l] = pieces[l]
  BY <1>6, <1>10, <1>12, <1>13
<1>15. \A l \in 1 .. Len(pieces) : /\ pieces'[l].align = pieces[l].align /\ pieces'[l].own = pieces[l].own
                                   /\ pieces'[l].kind = pieces[l].kind
  BY <1>1, <1>2, <1>10, <1>12, <1>14
<1>16. Now' = Now /\ Now' = k
  BY <1>1, <1>14 DEF Now
<1>17. /\ \A l \in 0 .. Len(pieces) : Ends'[l] = Ends[l]
       /\ \A l \in 1 .. Len(pieces) : StartOf(l)' = StartOf(l)
  BY <1>9, <1>14, <1>15, EndsKept DEF AnyPieces
<1>18. EmitTyped'
  <2>1. \A l \in DOMAIN pieces' : pieces'[l].kind = "pointer" => pieces'[l].own = 4
    BY <1>10, <1>14, <1>15 DEF EmitTyped
  <2> QED
    BY <2>1, <1>5, <1>9, <1>14 DEF EmitTyped
<1>19. Linked'
  BY <1>5, <1>9 DEF Linked
<1>20. WholeUpTo(Now - 1)'
  <2>1. ASSUME NEW l \in 1 .. k - 1 PROVE Whole(l)'
    <3>1. l \in 1 .. Len(pieces) /\ l \in 0 .. Len(pieces) /\ l # k
      BY <1>6
    <3>2. Whole(l)
      BY <1>1, <1>5 DEF WholeUpTo
    <3>3. OwnCells(l)' = OwnCells(l)
      BY <1>9 DEF OwnCells
    <3>4. StartOf(l)' = StartOf(l) /\ Ends'[l] = Ends[l] /\ pieces'[l] = pieces[l]
      BY <3>1, <1>10, <1>14, <1>17
    <3>5. \A t : PointerIs(l, t) => PointerIs(l, t)'
      BY <3>4, <1>9 DEF PointerIs
    <3> QED
      BY <3>2, <3>3, <3>4, <3>5, <1>9, WholeKept
  <2> QED
    BY <2>1, <1>16 DEF WholeUpTo
<1>21. AllConstants' /\ Filled(position)'
  BY <1>5, <1>9 DEF AllConstants, ConstantsBut, ConstantIs, Filled, Blank, Placed
<1>22. Global' /\ pieces'[Now'].at = StartOf(Now)'
  <2>1. StartOf(Now)' = StartOf(k)
    BY <1>6, <1>16, <1>17 DEF StartOf
  <2> QED
    BY <2>1, <1>5, <1>7, <1>9, <1>12, <1>14, <1>16, <1>20, <1>21 DEF Global
<1>23. FilledUpTo(0)'
  <2>1. StartOf(Now)' = position /\ position' = StartOf(Now)' + 0
    BY <1>6, <1>7, <1>9, <1>16, <1>17 DEF StartOf
  <2>2. OwnCells(Now)' = {}
    BY <1>4, <1>9, <1>16 DEF OwnCells
  <2>3. StartOf(Now)' .. position' - 1 = {}
    BY <2>1, <1>6, <1>9
  <2>4. todo' = Remaining(Raws(pieces'[Now'].own, Now'), 0, << >>)
    <3>1. << >> \in Seq(Calls)
      OBVIOUS
    <3>2. Remaining(raws, 0, << >>) = raws
      BY <3>1, <1>6, RemainingFirst
    <3>3. Raws(pieces'[Now'].own, Now') = raws
      BY <1>12, <1>14, <1>16 DEF raws
    <3> QED
      BY <3>2, <3>3, <1>8
  <2> QED
    BY <2>1, <2>2, <2>3, <2>4 DEF FilledUpTo
<1>24. 0 \in 0 .. pieces'[Now'].own
  BY <1>6, <1>12, <1>14, <1>16
<1> QED
  BY <1>18, <1>19, <1>22, <1>23, <1>24 DEF Filling

(* and its bytes.                                                           *)
LEMMA PutRawOfGlobal ==
  ASSUME EmitTyped, Linked, ~ error', PutRaw, Filling
  PROVE  EmitTyped' /\ Linked' /\ Filling'
<1>1. PICK k : k = Now
  OBVIOUS
<1>2. PICK piece : piece = pieces[Now]
  OBVIOUS
<1>3. PICK n \in 0 .. pieces[Now].own : FilledUpTo(n)
  BY DEF Filling
<1> DEFINE mark == <<"piece", k>>
<1>4. todo # << >> /\ Head(todo).op = "raw"
  BY DEF PutRaw, NextIs
<1>5. Global /\ pieces[Now].at = StartOf(Now)
  BY DEF Filling
<1>6. /\ stage = "globals" /\ Now >= 1 /\ WholeUpTo(Now - 1)
      /\ piece.kind \in DataKinds /\ piece.target = None
      /\ AllConstants /\ Filled(position) /\ pending = 0
  BY <1>2, <1>5 DEF Global
<1>7. Now \in 1 .. Len(pieces) /\ piece.own \in Nat /\ n \in 0 .. piece.own /\ position \in Nat
  BY <1>2, <1>3, <1>5, GlobalIs DEF EmitTyped
<1>8. /\ n # piece.own /\ Head(todo) = Raw(mark)
      /\ Tail(todo) = Remaining(Raws(piece.own, k), n + 1, << >>)
  BY <1>1, <1>2, <1>3, <1>4, <1>5, FillingNext
<1>9. Head(todo).mark = mark
  BY <1>8 DEF Raw
<1>10. /\ position = StartOf(k) + n /\ OwnCells(k) = StartOf(k) .. position - 1 /\ StartOf(k) \in Nat
  BY <1>1, <1>3, <1>7, EndsTyped DEF FilledUpTo
<1> HIDE DEF mark
<1>11. Write(mark) /\ Steady /\ pending' = 0 /\ pending' \in Nat
  BY <1>6, <1>9 DEF PutRaw, Steady
<1>12. /\ EmitTyped' /\ Linked' /\ WholeUpTo(Now - 1)' /\ AllConstants' /\ Filled(position)'
       /\ position' = position + 1 /\ pieces' = pieces /\ stage' = stage
       /\ Now' = Now /\ Ends' = Ends /\ StartOf(k)' = StartOf(k)
       /\ OwnCells(k)' = OwnCells(k) \cup {position}
  <2>1. mark = <<"piece", k>>
    BY DEF mark
  <2> QED
    BY <2>1, <1>1, <1>4, <1>6, <1>11, WriteGoesOn
<1>13. Global'
  BY <1>2, <1>6, <1>11, <1>12 DEF Global
<1>14. /\ StartOf(Now)' = StartOf(k) /\ OwnCells(Now)' = OwnCells(k) \cup {position}
  BY <1>1, <1>12 DEF StartOf, OwnCells
<1>15. pieces'[Now'].at = StartOf(Now)'
  BY <1>1, <1>5, <1>12, <1>14
<1>16. PICK start : start = StartOf(k)
  OBVIOUS
<1>17. /\ position' = start + (n + 1)
       /\ start .. position' - 1 = (start .. position - 1) \cup {position}
  BY <1>7, <1>10, <1>12, <1>16
<1>18. todo' = Remaining(Raws(pieces'[Now'].own, Now'), n + 1, << >>)
  BY <1>1, <1>2, <1>8, <1>12 DEF PutRaw
<1>19. FilledUpTo(n + 1)'
  BY <1>10, <1>14, <1>16, <1>17, <1>18 DEF FilledUpTo
<1>20. n + 1 \in 0 .. pieces'[Now'].own
  BY <1>2, <1>7, <1>8, <1>12
<1> QED
  BY <1>12, <1>13, <1>15, <1>19, <1>20 DEF Filling

-----------------------------------------------------------------------------
(* A new piece begins where the emitter rests.                              *)
LEMMA FirstIs ==
  ASSUME NEW K, K \subseteq Nat, K # {}
  PROVE  First(K) \in K
<1>1. \E k \in K : \A l \in K : k <= l
  BY LeastExists
<1> QED
  BY <1>1 DEF First

LEMMA PieceBegins ==
  ASSUME EmitTyped, Linked, Owned, Still, UNCHANGED <<fixed, position, pending, output, fixups, stage>>,
         NEW piece \in AnyCode \cup AnyData,
         (stage = "code" /\ piece \in AnyCode) \/ stage = "globals",
         piece.kind = "pointer" => piece.own = 4,
         NEW k, k = Len(pieces) + 1, pieces' = Append(pieces, piece)
  PROVE  /\ EmitTyped' /\ Linked' /\ Owned'
         /\ Now' = k /\ k >= 1 /\ k \in Nat /\ pieces'[k] = piece /\ stage' = stage
         /\ position \in Nat /\ position' = position /\ pending' = 0
         /\ WholeUpTo(Now - 1)' /\ AllConstants' /\ Filled(position)' /\ OwnCells(Now)' = {}
         /\ Ends'[k - 1] = position /\ symphony' = symphony
         /\ stage = "code" /\ symphony => position % 4 = 0
<1>1. /\ capacity' = capacity /\ symphony' = symphony /\ stage' = stage /\ fixups' = fixups
      /\ output' = output /\ position' = position /\ pending' = pending
  BY DEF fixed
<1>2. /\ Len(pieces) \in Nat /\ DOMAIN pieces = 1 .. Len(pieces) /\ pieces \in Seq(AnyCode \cup AnyData)
      /\ position \in Nat
  BY PieceTypes DEF EmitTyped
<1>3. /\ pieces' \in Seq(AnyCode \cup AnyData) /\ Len(pieces') = k /\ DOMAIN pieces' = 1 .. k
      /\ pieces'[k] = piece /\ \A l \in 1 .. Len(pieces) : pieces'[l] = pieces[l]
  BY <1>2
<1>4. /\ k \in Nat /\ k >= 1 /\ k - 1 = Len(pieces) /\ \A l \in 1 .. k : l \in 1 .. Len(pieces) \/ l = k
  BY <1>2
<1>5. /\ pending = 0 /\ WholeUpTo(Now) /\ position = Ends[Now] /\ AllConstants /\ Filled(position)
      /\ stage = "code" /\ symphony => position % 4 = 0
  BY DEF Still, AtRest
<1>6. Now' = k /\ Now = Len(pieces)
  BY <1>3 DEF Now
<1>7. /\ \A l \in 0 .. Len(pieces) : Ends'[l] = Ends[l]
      /\ \A l \in 1 .. Len(pieces) : StartOf(l)' = StartOf(l)
  <2>1. Len(pieces) <= Len(pieces')
    BY <1>2, <1>3
  <2> QED
    BY <2>1, <1>1, <1>3, EndsKept DEF AnyPieces
<1>8. EmitTyped'
  <2>1. \A l \in DOMAIN pieces' : pieces'[l].kind = "pointer" => pieces'[l].own = 4
    BY <1>2, <1>3, <1>4 DEF EmitTyped
  <2>2. stage' = "code" => \A l \in DOMAIN pieces' : pieces'[l] \in AnyCode
    <3> SUFFICES ASSUME stage' = "code", NEW l \in DOMAIN pieces' PROVE pieces'[l] \in AnyCode
      OBVIOUS
    <3>1. stage = "code" /\ piece \in AnyCode
      BY <1>1
    <3>2. CASE l = k
      BY <3>1, <3>2, <1>3
    <3>3. CASE l # k
      BY <3>1, <3>3, <1>2, <1>3, <1>4 DEF EmitTyped
    <3> QED
      BY <3>2, <3>3
  <2> QED
    BY <2>1, <2>2, <1>1, <1>3 DEF EmitTyped
<1>9. Linked'
  BY <1>1 DEF Linked
<1>10. \A l : OwnCells(l)' = OwnCells(l)
  BY <1>1 DEF OwnCells
<1>11. Owned'
  <2>1. ASSUME NEW l \in Nat, l > Len(pieces') PROVE OwnCells(l)' = {}
    <3>1. l > Len(pieces)
      BY <2>1, <1>2, <1>3
    <3> QED
      BY <3>1, <1>10 DEF Owned
  <2> QED
    BY <2>1 DEF Owned
<1>12. OwnCells(Now)' = {}
  <2>1. OwnCells(k) = {}
    <3>1. k > Len(pieces)
      BY <1>2
    <3> QED
      BY <3>1, <1>4 DEF Owned
  <2> QED
    BY <2>1, <1>6, <1>10 DEF OwnCells
<1>13. WholeUpTo(Now - 1)'
  <2>1. ASSUME NEW l \in 1 .. k - 1 PROVE Whole(l)'
    <3>1. l \in 1 .. Len(pieces) /\ l \in 0 .. Len(pieces)
      BY <1>2
    <3>2. Whole(l)
      BY <3>1, <1>5, <1>6 DEF WholeUpTo
    <3>3. StartOf(l)' = StartOf(l) /\ Ends'[l] = Ends[l] /\ pieces'[l] = pieces[l]
      BY <3>1, <1>3, <1>7
    <3>4. \A t : PointerIs(l, t) => PointerIs(l, t)'
      BY <3>3, <1>1 DEF PointerIs
    <3> QED
      BY <3>2, <3>3, <3>4, <1>1, <1>10, WholeKept
  <2> QED
    BY <2>1, <1>6 DEF WholeUpTo
<1>14. AllConstants' /\ Filled(position)'
  BY <1>1, <1>5 DEF AllConstants, ConstantsBut, ConstantIs, Filled, Blank, Placed
<1>15. Ends'[k - 1] = position
  BY <1>2, <1>4, <1>5, <1>6, <1>7
<1> QED
  BY <1>1, <1>2, <1>3, <1>4, <1>5, <1>6, <1>8, <1>9, <1>11, <1>12, <1>13, <1>14, <1>15

(* Code: an instruction of its own or a constant comes first.               *)
LEMMA CodeBegins ==
  ASSUME EmitTyped, Linked, Owned, Still, UNCHANGED <<fixed, position, pending, error, output, fixups, stage>>,
         stage = "code", NEW piece \in AnyCode, piece.at = position,
         pieces' = Append(pieces, piece), NEW own, own = piece.own,
         NEW code, code = OwnCode(own, Len(pieces) + 1),
         IF piece.kind = "instruction" THEN todo' = code
                                       ELSE todo' = <<ConstantFor(piece.kind)>> \o code
  PROVE  EmitTyped' /\ Linked' /\ Owned' /\ (Writing' \/ Asking')
<1>1. PICK k : k = Len(pieces) + 1
  OBVIOUS
<1>2. piece.kind # "pointer"
  BY DEF AnyCode, CodeKinds
<1>3. /\ EmitTyped' /\ Linked' /\ Owned'
      /\ Now' = k /\ k >= 1 /\ k \in Nat /\ pieces'[k] = piece /\ stage' = stage
      /\ position \in Nat /\ position' = position /\ pending' = 0
      /\ WholeUpTo(Now - 1)' /\ AllConstants' /\ Filled(position)' /\ OwnCells(Now)' = {}
      /\ Ends'[k - 1] = position /\ symphony' = symphony
      /\ stage = "code" /\ symphony => position % 4 = 0
  BY <1>1, <1>2, PieceBegins
<1>4. Opened'
  BY <1>3 DEF Opened
<1>5. CodeNow' = code
  BY <1>1, <1>3 DEF CodeNow
<1>6. CASE piece.kind = "instruction"
  <2>1. Base' = position'
    BY <1>3, <1>6 DEF Base, Lead
  <2>2. todo' = CodeNow'
    BY <1>5, <1>6
  <2>3. AtFirst'
    BY <2>1, <2>2, <1>3, <1>4 DEF AtFirst
  <2>4. EmitTyped'
    BY <1>3
  <2>5. Writing'
    BY <2>3, <2>4, WritingBegins, PTL
  <2> QED
    BY <2>5, <1>3
<1>7. CASE piece.kind # "instruction"
  <2>1. Ahead(position + 12)'
    BY <1>3, <1>4, <1>7 DEF Ahead
  <2>2. todo' = <<ConstantFor(pieces'[Now'].kind)>> \o CodeNow'
    BY <1>3, <1>5, <1>7
  <2> QED
    BY <2>1, <2>2, <1>3 DEF Asking
<1> QED
  BY <1>6, <1>7

LEMMA OpcodesAreSized ==
  Opcodes \subseteq Sized /\ {JumpOpcode, CounterOpcode, AddImmediate, MoveOpcode} \subseteq Sized
<1>1. EmittedBytes(72) = 3 /\ InstructionSize(72) = 3
  BY DEF EmittedBytes, InstructionSize
<1>2. EmittedBytes(7) = 2 /\ InstructionSize(7) = 2
  BY DEF EmittedBytes, InstructionSize
<1>3. EmittedBytes(52) = 4 /\ InstructionSize(52) = 4
  BY DEF EmittedBytes, InstructionSize
<1>4. EmittedBytes(33) = 3 /\ InstructionSize(33) = 3
  BY DEF EmittedBytes, InstructionSize
<1>5. Opcodes \subseteq Sized
  BY OpcodesAssumption DEF Sized
<1>6. 72 \in Sized /\ 7 \in Sized /\ 52 \in Sized /\ 33 \in Sized
  BY <1>1, <1>2, <1>3, <1>4 DEF Sized
<1> QED
  BY <1>5, <1>6 DEF JumpOpcode, CounterOpcode, AddImmediate, MoveOpcode

LEMMA OwnsOfOne ==
  ASSUME NEW o \in Sized, NEW k \in Nat
  PROVE  /\ <<o>> \in Owns /\ OwnCode(<<o>>, k) = Instruction(o, <<"piece", k>>)
         /\ Instruction(o, <<"piece", k>>) \in Seq(Calls)
<1>1. <<o>> \in Seq(Sized) /\ Len(<<o>>) = 1 /\ <<o>>[1] = o
  OBVIOUS
<1>2. <<o>> \in Owns
  BY <1>1 DEF Owns
<1>3. OwnCode(<<o>>, k) = Instruction(o, <<"piece", k>>)
  BY <1>1 DEF OwnCode
<1>4. o \in Nat /\ <<"piece", k>> \in Marks
  BY DEF Sized, Marks
<1> QED
  BY <1>2, <1>3, <1>4, InstructionIs

LEMMA NewPieceIs ==
  ASSUME EmitTyped, NEW kind \in CodeKinds, NEW own \in Owns
  PROVE  /\ Piece(kind, own) \in AnyCode /\ Piece(kind, own).at = position
         /\ Piece(kind, own).own = own /\ Piece(kind, own).kind = kind
BY DEF EmitTyped, Piece, AnyCode, Targets

(* The emitter is given a piece of code.                                    *)
LEMMA CodeEmitted ==
  ASSUME EmitTyped, Linked, Owned, Still, EmitCode
  PROVE  EmitTyped' /\ Linked' /\ Owned' /\ (Writing' \/ Asking')
<1>1. PICK k : k = Len(pieces) + 1
  OBVIOUS
<1>2. k \in Nat /\ Mark = <<"piece", k>>
  BY <1>1, PieceTypes DEF Mark
<1>3. stage = "code" /\ UNCHANGED <<fixed, position, pending, error, output, fixups, stage>>
  BY DEF EmitCode
<1> DEFINE I(o) == Instruction(o, <<"piece", k>>)
<1>4. CASE EmitInstruction
  <2>1. PICK opcode \in Opcodes : Begin(Piece("instruction", <<opcode>>), Instruction(opcode, Mark))
    BY <1>4 DEF EmitInstruction
  <2>2. PICK own, piece : own = <<opcode>> /\ piece = Piece("instruction", own)
    OBVIOUS
  <2>3. own \in Owns /\ OwnCode(own, k) = I(opcode)
    BY <2>2, <1>2, OpcodesAreSized, OwnsOfOne
  <2>4. "instruction" \in CodeKinds
    BY DEF CodeKinds
  <2>5. piece \in AnyCode /\ piece.at = position /\ piece.own = own /\ piece.kind = "instruction"
    BY <2>2, <2>3, <2>4, NewPieceIs
  <2>6. pieces' = Append(pieces, piece) /\ todo' = I(opcode)
    BY <2>1, <2>2, <1>2 DEF Begin
  <2>7. PICK code : code = OwnCode(own, Len(pieces) + 1)
    OBVIOUS
  <2>8. IF piece.kind = "instruction" THEN todo' = code
                                      ELSE todo' = <<ConstantFor(piece.kind)>> \o code
    BY <2>3, <2>5, <2>6, <2>7, <1>1
  <2> HIDE DEF I
  <2> QED
    BY <2>5, <2>6, <2>7, <2>8, <1>3, CodeBegins
<1>5. CASE EmitBranch
  <2>1. PICK own, piece : own = <<JumpOpcode>> /\ piece = Piece("branch", own)
    OBVIOUS
  <2>2. own \in Owns /\ OwnCode(own, k) = I(JumpOpcode)
    BY <2>1, <1>2, OpcodesAreSized, OwnsOfOne
  <2>3. "branch" \in CodeKinds
    BY DEF CodeKinds
  <2>4. piece \in AnyCode /\ piece.at = position /\ piece.own = own /\ piece.kind = "branch"
    BY <2>1, <2>2, <2>3, NewPieceIs
  <2>5. pieces' = Append(pieces, piece) /\ todo' = <<ConstantFor("branch")>> \o I(JumpOpcode)
    BY <2>1, <1>2, <1>5 DEF EmitBranch, Begin
  <2>6. PICK code : code = OwnCode(own, Len(pieces) + 1)
    OBVIOUS
  <2>7. IF piece.kind = "instruction" THEN todo' = code
                                      ELSE todo' = <<ConstantFor(piece.kind)>> \o code
    BY <2>2, <2>4, <2>5, <2>6, <1>1
  <2> HIDE DEF I
  <2> QED
    BY <2>4, <2>5, <2>6, <2>7, <1>3, CodeBegins
<1>6. CASE EmitCall
  <2>1. PICK own, link, piece : /\ own = <<CounterOpcode, AddImmediate, JumpOpcode>>
                                /\ link = position + 12 + LinkDistance
                                /\ piece = [Piece("call", own) EXCEPT !.link = link]
    OBVIOUS
  <2>2. /\ I(CounterOpcode) \in Seq(Calls) /\ I(AddImmediate) \in Seq(Calls) /\ I(JumpOpcode) \in Seq(Calls)
    BY <1>2, OpcodesAreSized, OwnsOfOne
  <2>3. own \in Owns
    <3>1. own \in Seq(Sized) /\ Len(own) = 3
      BY <2>1, OpcodesAreSized
    <3> QED
      BY <3>1 DEF Owns
  <2>4. OwnCode(own, k) = I(CounterOpcode) \o I(AddImmediate) \o I(JumpOpcode)
    <3>1. Len(own) = 3 /\ own[1] = CounterOpcode /\ own[2] = AddImmediate /\ own[3] = JumpOpcode
      BY <2>1
    <3> QED
      BY <3>1 DEF OwnCode
  <2>5. link \in Nat
    BY <2>1 DEF EmitTyped, LinkDistance
  <2>6. "call" \in CodeKinds
    BY DEF CodeKinds
  <2>7. piece \in AnyCode /\ piece.at = position /\ piece.own = own /\ piece.kind = "call"
    <3>1. PICK p : p = Piece("call", own)
      OBVIOUS
    <3>2. p \in AnyCode /\ p.at = position /\ p.own = own /\ p.kind = "call"
      BY <2>3, <2>6, <3>1, NewPieceIs
    <3> QED
      BY <2>1, <2>5, <3>1, <3>2 DEF AnyCode
  <2>8. /\ pieces' = Append(pieces, piece)
        /\ todo' = <<ConstantFor("call")>> \o I(CounterOpcode) \o I(AddImmediate) \o I(JumpOpcode)
    BY <2>1, <1>2, <1>6 DEF EmitCall, Begin
  <2> HIDE DEF I
  <2>9. todo' = <<ConstantFor("call")>> \o (I(CounterOpcode) \o I(AddImmediate) \o I(JumpOpcode))
    <3>1. PICK a, b, c, d : /\ a = <<ConstantFor("call")>> /\ b = I(CounterOpcode)
                            /\ c = I(AddImmediate) /\ d = I(JumpOpcode)
      OBVIOUS
    <3>2. a \in Seq(Calls)
      BY <3>1 DEF Calls, ConstantFor, Uses
    <3>3. b \in Seq(Calls) /\ c \in Seq(Calls) /\ d \in Seq(Calls) /\ b \o c \in Seq(Calls)
      BY <2>2, <3>1
    <3>4. (a \o b) \o c = a \o (b \o c)
      BY <3>2, <3>3, ConcatAssociative
    <3>5. (a \o (b \o c)) \o d = a \o ((b \o c) \o d)
      BY <3>2, <3>3, ConcatAssociative
    <3> QED
      BY <2>8, <3>1, <3>4, <3>5
  <2>10. PICK code : code = OwnCode(own, Len(pieces) + 1)
    OBVIOUS
  <2>11. IF piece.kind = "instruction" THEN todo' = code
                                       ELSE todo' = <<ConstantFor(piece.kind)>> \o code
    BY <2>4, <2>7, <2>9, <2>10, <1>1
  <2> QED
    BY <2>7, <2>8, <2>10, <2>11, <1>3, CodeBegins
<1>7. CASE EmitAddress
  <2> DEFINE Alone == Begin(Piece("address", << >>), <<ConstantFor("address")>>)
             Moved == Begin(Piece("address", <<MoveOpcode>>),
                            <<ConstantFor("address")>> \o Instruction(MoveOpcode, Mark))
  <2>1. PICK own : \/ own = << >> /\ Alone
                   \/ own = <<MoveOpcode>> /\ Moved
    BY <1>7 DEF EmitAddress
  <2>2. PICK piece, code : piece = Piece("address", own) /\ code = OwnCode(own, Len(pieces) + 1)
    OBVIOUS
  <2>3. /\ own \in Owns /\ pieces' = Append(pieces, piece)
        /\ todo' = <<ConstantFor("address")>> \o code
    <3>1. CASE own = << >> /\ Alone
      <4>1. own \in Seq(Sized) /\ Len(own) = 0
        BY <3>1
      <4>2. own \in Owns
        BY <4>1 DEF Owns
      <4>3. code = << >>
        BY <4>1, <2>2 DEF OwnCode
      <4>4. <<ConstantFor("address")>> = <<ConstantFor("address")>> \o << >>
        OBVIOUS
      <4> QED
        BY <4>2, <4>3, <4>4, <3>1, <2>2 DEF Begin
    <3>2. CASE own = <<MoveOpcode>> /\ Moved
      <4>1. own \in Owns /\ OwnCode(own, k) = I(MoveOpcode)
        BY <3>2, <1>2, OpcodesAreSized, OwnsOfOne
      <4> QED
        BY <4>1, <3>2, <2>2, <1>1, <1>2 DEF Begin
    <3> QED
      BY <2>1, <3>1, <3>2
  <2> HIDE DEF Alone, Moved
  <2>4. "address" \in CodeKinds
    BY DEF CodeKinds
  <2>5. piece \in AnyCode /\ piece.at = position /\ piece.own = own /\ piece.kind = "address"
    BY <2>2, <2>3, <2>4, NewPieceIs
  <2>6. IF piece.kind = "instruction" THEN todo' = code
                                      ELSE todo' = <<ConstantFor(piece.kind)>> \o code
    BY <2>3, <2>5
  <2> HIDE DEF I
  <2> QED
    BY <2>2, <2>3, <2>5, <2>6, <1>3, CodeBegins
<1> HIDE DEF I
<1> QED
  BY <1>4, <1>5, <1>6, <1>7 DEF EmitCode

LEMMA TwoFirst ==
  ASSUME NEW S, NEW a \in S, NEW b \in S, NEW rest \in Seq(S)
  PROVE  <<a, b>> \o rest = <<a>> \o (<<b>> \o rest)
<1>1. <<a, b>> = Append(<<a>>, b)
  OBVIOUS
<1>2. Append(<<a>>, b) = <<a>> \o <<b>> /\ <<a>> \in Seq(S) /\ <<b>> \in Seq(S)
  OBVIOUS
<1>3. (<<a>> \o <<b>>) \o rest = <<a>> \o (<<b>> \o rest)
  BY <1>2, ConcatAssociative
<1> QED
  BY <1>1, <1>2, <1>3

(* The emitter is given a global.                                           *)
LEMMA GlobalEmitted ==
  ASSUME EmitTyped, Linked, Owned, Still, EmitGlobal
  PROVE  EmitTyped' /\ Linked' /\ Owned' /\ Aligning'
<1>1. PICK k : k = Len(pieces) + 1
  OBVIOUS
<1>2. k \in Nat /\ Mark = <<"piece", k>>
  BY <1>1, PieceTypes DEF Mark
<1>3. stage = "globals" /\ UNCHANGED <<fixed, position, pending, error, output, fixups, stage>>
  BY DEF EmitGlobal
<1>4. PICK g \in Globals :
       Begin([Piece(IF g.pointer THEN "pointer" ELSE "global", g.bytes) EXCEPT !.align = Alignment(g)],
             <<Align(Alignment(g)), [op |-> "begin"]>> \o [j \in 1 .. g.bytes |-> Raw(Mark)])
  BY DEF EmitGlobal
<1>5. PICK kind, align, bytes, piece :
        /\ kind = (IF g.pointer THEN "pointer" ELSE "global") /\ align = Alignment(g) /\ bytes = g.bytes
        /\ piece = [Piece(kind, bytes) EXCEPT !.align = align]
  OBVIOUS
<1>6. /\ align \in {1, 2, 4} /\ bytes \in Nat /\ kind \in DataKinds /\ (kind = "pointer" => bytes = 4)
  <2>1. /\ g.bytes \in Nat /\ g.alignment \in {1, 2, 4, 8}
        /\ g.pointer \in BOOLEAN /\ (g.pointer => g.bytes = 4)
    BY <1>4, EmitterAssumption
  <2>2. Alignment(g) \in {1, 2, 4}
    BY <2>1 DEF Alignment
  <2>3. kind \in DataKinds /\ (kind = "pointer" => bytes = 4)
    BY <2>1, <1>5 DEF DataKinds
  <2> QED
    BY <2>1, <2>2, <2>3, <1>5
<1>7. /\ piece \in AnyData /\ piece.kind = kind /\ piece.own = bytes /\ piece.align = align
      /\ piece.target = None
  BY <1>5, <1>6 DEF EmitTyped, Piece, AnyData, Targets
<1> DEFINE raws == Raws(bytes, k)
<1>8. pieces' = Append(pieces, piece) /\ todo' = <<Align(align), Begins>> \o raws
  BY <1>2, <1>4, <1>5 DEF Begin, Raws, Begins
<1>9. raws \in Seq(Calls)
  BY <1>2, <1>6, RawsAre
<1> HIDE DEF raws
<1>10. todo' = <<Align(align)>> \o (<<Begins>> \o raws)
  <2>1. PICK a, b : a = Align(align) /\ b = Begins
    OBVIOUS
  <2>2. a \in Calls /\ b \in Calls
    BY <2>1, <1>6, AlignCall DEF Begins, Calls
  <2>3. <<a, b>> \o raws = <<a>> \o (<<b>> \o raws)
    BY <2>2, <1>9, TwoFirst
  <2>4. todo' = <<a, b>> \o raws
    BY <2>1, <1>8
  <2> QED
    BY <2>1, <2>3, <2>4
<1>11. /\ EmitTyped' /\ Linked' /\ Owned'
       /\ Now' = k /\ k >= 1 /\ k \in Nat /\ pieces'[k] = piece /\ stage' = stage
       /\ position \in Nat /\ position' = position /\ pending' = 0
       /\ WholeUpTo(Now - 1)' /\ AllConstants' /\ Filled(position)' /\ OwnCells(Now)' = {}
       /\ Ends'[k - 1] = position
  BY <1>1, <1>3, <1>6, <1>7, <1>8, PieceBegins
<1>12. Global'
  BY <1>3, <1>6, <1>7, <1>11 DEF Global
<1>13. position' \in Ends'[Now' - 1] .. StartOf(Now)'
  <2>1. StartOf(Now)' = RoundedUp(position, align)
    BY <1>7, <1>11 DEF StartOf
  <2>2. RoundedUp(position, align) \in Nat /\ position <= RoundedUp(position, align)
    BY <1>6, <1>11, RoundedUpIs
  <2> QED
    BY <2>1, <2>2, <1>11
<1>14. todo' = <<Align(pieces'[Now'].align)>> \o (<<Begins>> \o Raws(pieces'[Now'].own, Now'))
  BY <1>7, <1>10, <1>11 DEF raws
<1> QED
  BY <1>11, <1>12, <1>13, <1>14 DEF Aligning

(* A constant is patched.                                                   *)
LEMMA PatchLends ==
  ASSUME EmitTyped, Linked, Owned, Still, NEW f \in DOMAIN fixups, NEW target \in Targets,
         Patch(f, target), UNCHANGED <<fixed, position, pending, error, output, pieces, stage>>,
         stage # "done"
  PROVE  EmitTyped' /\ Linked' /\ Owned' /\ Lending'
<1>1. /\ fixups' = [fixups EXCEPT ![f].target = target] /\ todo' = <<At(fixups[f].at, f, target)>>
      /\ capacity' = capacity /\ symphony' = symphony /\ stage' = stage /\ pieces' = pieces
      /\ output' = output /\ position' = position /\ pending' = pending
  BY DEF Patch, fixed
<1>2. /\ fixups \in Seq(AnyFixup) /\ fixups[f] \in AnyFixup /\ position \in Nat /\ capacity \in Nat
  BY DEF EmitTyped
<1>3. /\ DOMAIN fixups' = DOMAIN fixups /\ fixups' \in Seq(AnyFixup)
      /\ fixups'[f].at = fixups[f].at /\ fixups'[f].target = target
      /\ \A g \in DOMAIN fixups : g # f => fixups'[g] = fixups[g]
      /\ \A g \in DOMAIN fixups : fixups'[g].at = fixups[g].at
  <2>1. PICK new : new = [fixups[f] EXCEPT !.target = target]
    OBVIOUS
  <2>2. new \in AnyFixup /\ new.at = fixups[f].at /\ new.target = target
    BY <2>1, <1>2 DEF AnyFixup
  <2>3. fixups' = [fixups EXCEPT ![f] = new]
    BY <2>1, <1>1
  <2> QED
    BY <2>2, <2>3, <1>2
<1>4. EmitTyped'
  BY <1>1, <1>3 DEF EmitTyped
<1>5. Linked' /\ Owned'
  BY <1>1 DEF Linked, OpenPointers, Owned, OwnCells
<1>6. /\ pending = 0 /\ AtRest(position) /\ AllConstants /\ Filled(position)
  BY DEF Still
<1>7. Now' = Now /\ Ends' = Ends
  BY <1>1 DEF Now, Ends
<1>8. AtRest(position)'
  <2>1. PICK n : n = Now
    OBVIOUS
  <2>2. n \in Nat
    BY <2>1, PieceTypes DEF Now
  <2>3. WholeUpTo(n)'
    BY <2>1, <2>2, <1>1, <1>6, SameOutputKeepsPieces DEF AtRest
  <2>4. WholeUpTo(Now)'
    BY <2>1, <2>3, <1>7 DEF WholeUpTo
  <2> QED
    BY <2>4, <1>1, <1>6, <1>7 DEF AtRest
<1>9. Filled(position)'
  <2>1. ASSUME NEW g \in DOMAIN fixups' PROVE Placed(g, position)'
    BY <2>1, <1>1, <1>3, <1>6 DEF Filled, Placed
  <2>2. Blank(position)'
    BY <1>1, <1>6 DEF Filled, Blank
  <2> QED
    BY <2>1, <2>2 DEF Filled
<1>10. Lent(f, 0)'
  <2>1. ConstantIs(f, fixups[f].target)
    BY <1>6, FixupTypes DEF AllConstants, ConstantsBut
  <2>2. PICK at, old : at = fixups[f].at /\ old = fixups[f].target
    OBVIOUS
  <2>3. ASSUME NEW b \in 0 .. 11 PROVE \E j, t : output'[at + b] = <<"constant", f, j, t>>
    <3>1. output'[at + b] = <<"constant", f, b \div 4 + 1, old>>
      BY <2>1, <2>2, <1>1 DEF ConstantIs
    <3> QED
      BY <3>1, Zenon
  <2>4. fixups'[f].at = at /\ f \in DOMAIN fixups'
    BY <2>2, <1>3
  <2>5. 0 .. 0 - 1 = {}
    OBVIOUS
  <2> QED
    BY <2>3, <2>4, <2>5 DEF Lent, Lendable
<1>11. ConstantsBut(f)'
  <2>1. ASSUME NEW g \in DOMAIN fixups', g # f, NEW b \in 0 .. 11
        PROVE  output'[fixups'[g].at + b] = <<"constant", g, b \div 4 + 1, fixups'[g].target>>
    <3>1. g \in DOMAIN fixups /\ fixups'[g] = fixups[g] /\ g # 0
      BY <2>1, <1>3, FixupTypes
    <3>2. ConstantIs(g, fixups[g].target)
      BY <3>1, <1>6 DEF AllConstants, ConstantsBut
    <3> QED
      BY <3>1, <3>2, <1>1 DEF ConstantIs
  <2> QED
    BY <2>1 DEF ConstantsBut, ConstantIs
<1>12. todo' = <<At(fixups'[f].at, f, fixups'[f].target)>> \o << >>
  <2>1. todo' = <<At(fixups'[f].at, f, fixups'[f].target)>>
    BY <1>1, <1>3
  <2>2. PICK a : a = At(fixups'[f].at, f, fixups'[f].target)
    OBVIOUS
  <2>3. <<a>> \o << >> = <<a>>
    OBVIOUS
  <2> QED
    BY <2>1, <2>2, <2>3
<1>13. LendingWith(f, << >>)'
  <2>1. Behind(<< >>, position)'
    BY <1>8 DEF Behind
  <2> QED
    BY <2>1, <1>1, <1>6, <1>9, <1>10, <1>11, <1>12 DEF LendingWith
<1>14. f \in DOMAIN fixups'
  BY <1>3
<1>15. \E g \in DOMAIN fixups', rest \in {<< >>, CodeNow'} : LendingWith(g, rest)'
  <2>1. << >> \in {<< >>, CodeNow'}
    OBVIOUS
  <2> QED
    BY <2>1, <1>13, <1>14, Zenon
<1> QED
  BY <1>4, <1>5, <1>15 DEF Lending

LEMMA OpenIs ==
  ASSUME EmitTyped, NEW use
  PROVE  Open(use) \subseteq DOMAIN fixups /\ Open(use) \subseteq Nat
BY PieceTypes DEF Open

LEMMA Patched ==
  ASSUME EmitTyped, Linked, Owned, Still, PatchBranch \/ PatchCall \/ PatchAddress
  PROVE  EmitTyped' /\ Linked' /\ Owned' /\ Lending'
<1>1. position \in Targets /\ \A i \in DOMAIN pieces : pieces[i].at \in Targets
  BY PieceTypes DEF EmitTyped, Targets
<1>2. CodePieces \subseteq DOMAIN pieces
  BY DEF CodePieces
<1>3. UNCHANGED <<fixed, position, pending, error, output, pieces, stage>> /\ stage # "done"
  BY DEF PatchBranch, PatchCall, PatchAddress
<1>4. \E f \in DOMAIN fixups, target \in Targets : Patch(f, target)
  <2>1. CASE PatchBranch
    BY <2>1, <1>1, <1>2, OpenIs DEF PatchBranch
  <2>2. CASE PatchCall
    <3>1. First(Open("call")) \in DOMAIN fixups
      BY <2>2, OpenIs, FirstIs DEF PatchCall
    <3> QED
      BY <2>2, <3>1, <1>1, <1>2 DEF PatchCall
  <2>3. CASE PatchAddress
    <3>1. First(Open("address")) \in DOMAIN fixups
      BY <2>3, OpenIs, FirstIs DEF PatchAddress
    <3> QED
      BY <2>3, <3>1, <1>1, <1>2 DEF PatchAddress
  <2> QED
    BY <2>1, <2>2, <2>3
<1> QED
  BY <1>3, <1>4, PatchLends

(* The stages, one after the other.                                         *)
LEMMA StageEnds ==
  ASSUME EmitTyped, Linked, Owned, Still, EndCode \/ EndCalls \/ EndGlobals \/ EndPointers \/ Finish
  PROVE  EmitTyped' /\ Linked' /\ Owned' /\ Still'
<1>1. /\ UNCHANGED <<fixed, position, pending, error, output, todo, pieces, fixups>>
      /\ stage' \in {"calls", "globals", "pointers", "addresses", "done"}
  BY DEF EndCode, EndCalls, EndGlobals, EndPointers, Finish
<1>2. stage' \in {"addresses", "done"} => OpenPointers = {}
  BY DEF EndCode, EndCalls, EndGlobals, EndPointers, Finish, Linked
<1>3. /\ capacity' = capacity /\ symphony' = symphony /\ fixups' = fixups /\ pieces' = pieces
      /\ output' = output /\ position' = position /\ pending' = pending /\ todo' = todo
      /\ stage' # "code"
  BY <1>1 DEF fixed
<1>4. /\ todo = << >> /\ pending = 0 /\ AtRest(position) /\ AllConstants /\ Filled(position)
  BY DEF Still
<1>5. EmitTyped' /\ Owned'
  BY <1>3 DEF EmitTyped, Owned, OwnCells
<1>6. Linked'
  BY <1>2, <1>3, <1>4 DEF Linked, OpenPointers
<1>7. AtRest(position)'
  <2>1. Now' = Now /\ Ends' = Ends
    BY <1>3 DEF Now, Ends
  <2>2. PICK n : n = Now
    OBVIOUS
  <2>3. n \in Nat
    BY <2>2, PieceTypes DEF Now
  <2>4. WholeUpTo(n)'
    BY <2>2, <2>3, <1>1, <1>4, SameOutputKeepsPieces DEF AtRest
  <2>5. WholeUpTo(Now)'
    BY <2>1, <2>2, <2>4 DEF WholeUpTo
  <2> QED
    BY <2>1, <2>5, <1>3, <1>4 DEF AtRest
<1>8. AllConstants' /\ Filled(position)'
  BY <1>3, <1>4 DEF AllConstants, ConstantsBut, ConstantIs, Filled, Blank, Placed
<1> QED
  BY <1>3, <1>4, <1>5, <1>6, <1>7, <1>8 DEF Still

(* The bytes of a pointer are written over its own.                         *)
LEMMA PointerWritten ==
  ASSUME EmitTyped, Linked, Owned, Still, ~ error', WritePointer
  PROVE  EmitTyped' /\ Linked' /\ Owned' /\ Still'
<1>1. PICK k : k = First(OpenPointers)
  OBVIOUS
<1>2. PICK at : at = pieces[k].at
  OBVIOUS
<1>3. PICK target : /\ pieces' = [pieces EXCEPT ![k].target = target] /\ target \in Nat
                    /\ ~ (at + 4 > capacity) /\ output' = Put(at, 4, <<"pointer", k, target>>)
  <2>1. \E i \in DOMAIN pieces \ CodePieces :
          /\ pieces' = [pieces EXCEPT ![k].target = pieces[i].at]
          /\ IF at + 4 > capacity
               THEN error' = TRUE /\ UNCHANGED output
               ELSE output' = Put(at, 4, <<"pointer", k, pieces[i].at>>) /\ UNCHANGED error
    BY <1>1, <1>2 DEF WritePointer
  <2>2. PICK i \in DOMAIN pieces :
          /\ pieces' = [pieces EXCEPT ![k].target = pieces[i].at]
          /\ ~ (at + 4 > capacity) /\ output' = Put(at, 4, <<"pointer", k, pieces[i].at>>)
    BY <2>1
  <2>3. pieces[i].at \in Nat
    BY <2>2, PieceTypes
  <2> QED
    BY <2>2, <2>3
<1> DEFINE mark == <<"pointer", k, target>>
           Cells == at .. at + 3
<1>4. /\ k \in 1 .. Len(pieces) /\ Len(pieces) \in Nat /\ DOMAIN pieces = 1 .. Len(pieces)
      /\ pieces[k].kind = "pointer" /\ pieces[k].own = 4
  <2>1. OpenPointers \subseteq Nat /\ OpenPointers # {}
    BY PieceTypes DEF OpenPointers, WritePointer
  <2>2. k \in OpenPointers
    BY <2>1, <1>1, FirstIs
  <2> QED
    BY <2>2, PieceTypes DEF OpenPointers, EmitTyped
<1>5. pieces[k] \in AnyData
  BY <1>4, PieceTypes DEF AnyCode, CodeKinds
<1>6. /\ todo = << >> /\ pending = 0 /\ AtRest(position) /\ AllConstants /\ Filled(position)
      /\ WholeUpTo(Now) /\ position = Ends[Now] /\ Now = Len(pieces)
  BY DEF Still, AtRest, Now
<1>7. Whole(k) /\ at = StartOf(k) /\ Ends[k] = at + 4 /\ at \in Nat
  <2>1. Whole(k)
    BY <1>4, <1>6 DEF WholeUpTo
  <2>2. at = StartOf(k)
    BY <2>1, <1>2 DEF Whole
  <2>3. Size(pieces[k], symphony) = 4
    BY <1>4, <1>5, SizeIs DEF EmitTyped
  <2> QED
    BY <2>1, <2>2, <2>3, <1>4, EndsTyped
<1>8. /\ capacity \in Nat /\ DOMAIN output = 0 .. capacity - 1 /\ at + 4 <= capacity
  BY <1>3, <1>7 DEF EmitTyped
<1>9. /\ UNCHANGED <<fixed, position, pending, todo, fixups, stage>> /\ stage = "pointers"
      /\ capacity' = capacity /\ symphony' = symphony /\ fixups' = fixups /\ position' = position
      /\ pending' = pending /\ todo' = todo /\ stage' = stage
  BY DEF WritePointer, fixed
<1>10. /\ DOMAIN output' = DOMAIN output /\ Cells \subseteq DOMAIN output
       /\ \A i \in DOMAIN output : output'[i] = IF i \in Cells THEN mark ELSE output[i]
  <2>1. Cells \subseteq DOMAIN output /\ at + 4 - 1 = at + 3
    BY <1>7, <1>8
  <2>2. DOMAIN output \cup Cells = DOMAIN output
    BY <2>1
  <2> QED
    BY <2>1, <2>2, <1>3 DEF Put
<1>11. \A i \in Cells : output[i] = <<"piece", k>> \/ \E t : output[i] = <<"pointer", k, t>>
  <2>1. WholeData(k)
    BY <1>4, <1>7 DEF Whole, CodeKinds
  <2>2. CASE OwnCells(k) = StartOf(k) .. Ends[k] - 1
    <3>1. Cells = StartOf(k) .. Ends[k] - 1
      BY <1>7
    <3> QED
      BY <3>1, <2>2 DEF OwnCells
  <2>3. CASE PointerIs(k, pieces[k].target)
    <3>1. PICK t : t = pieces[k].target
      OBVIOUS
    <3>2. ASSUME NEW i \in Cells PROVE \E s : output[i] = <<"pointer", k, s>>
      <4>1. i - at \in 0 .. 3 /\ StartOf(k) + (i - at) = i
        BY <1>7, <3>2
      <4>2. output[i] = <<"pointer", k, t>>
        BY <2>3, <3>1, <4>1 DEF PointerIs
      <4> QED
        BY <4>2, Zenon
    <3> QED
      BY <3>2
  <2> QED
    BY <2>1, <2>2, <2>3 DEF WholeData
<1>12. OwnCells(k) \subseteq Cells
  <2>1. WholeData(k)
    BY <1>4, <1>7 DEF Whole, CodeKinds
  <2>2. StartOf(k) .. Ends[k] - 1 = Cells
    BY <1>7
  <2> QED
    BY <2>1, <2>2 DEF WholeData
<1> HIDE DEF mark, Cells
<1>13. /\ \A i \in Cells : output[i] # Empty
       /\ \A i \in Cells : \A l : l # k => output[i] # <<"piece", l>>
       /\ \A i \in Cells : \A l, t : l # k => output[i] # <<"pointer", l, t>>
       /\ \A i \in Cells : \A f, j, t : output[i] # <<"constant", f, j, t>>
       /\ \A l : mark # <<"piece", l>>
  <2>1. ASSUME NEW i \in Cells PROVE output[i] # Empty
    BY <1>11, MarksApart
  <2>2. ASSUME NEW i \in Cells, NEW l, l # k PROVE output[i] # <<"piece", l>>
    BY <2>2, <1>11, MarksApart
  <2>3. ASSUME NEW i \in Cells, NEW l, NEW t, l # k PROVE output[i] # <<"pointer", l, t>>
    BY <2>3, <1>11, MarksApart
  <2>4. ASSUME NEW i \in Cells, NEW f, NEW j, NEW t PROVE output[i] # <<"constant", f, j, t>>
    BY <1>11, MarksApart
  <2>5. \A l : mark # <<"piece", l>>
    BY MarksApart DEF mark
  <2> QED
    BY <2>1, <2>2, <2>3, <2>4, <2>5
<1>14. /\ \A l : l # k => OwnCells(l)' = OwnCells(l)
       /\ OwnCells(k)' = {}
  <2>1. ASSUME NEW l, l # k PROVE OwnCells(l)' = OwnCells(l)
    BY <2>1, <1>10, <1>13 DEF OwnCells
  <2>2. ASSUME NEW i \in OwnCells(k)' PROVE FALSE
    <3>1. i \in DOMAIN output /\ output'[i] = <<"piece", k>>
      BY <1>10 DEF OwnCells
    <3>2. i \notin Cells
      BY <3>1, <1>10, <1>13
    <3>3. i \in OwnCells(k)
      BY <3>1, <3>2, <1>10 DEF OwnCells
    <3> QED
      BY <3>2, <3>3, <1>12
  <2> QED
    BY <2>1, <2>2
<1>15. /\ pieces' \in Seq(AnyCode \cup AnyData) /\ DOMAIN pieces' = DOMAIN pieces /\ Len(pieces') = Len(pieces)
       /\ \A l \in DOMAIN pieces : l # k => pieces'[l] = pieces[l]
       /\ pieces'[k] \in AnyData /\ pieces'[k].kind = "pointer" /\ pieces'[k].own = 4
       /\ pieces'[k].align = pieces[k].align /\ pieces'[k].at = at /\ pieces'[k].target = target
  <2>1. PICK new : new = [pieces[k] EXCEPT !.target = target]
    OBVIOUS
  <2>2. /\ new \in AnyData /\ new.kind = "pointer" /\ new.own = 4 /\ new.align = pieces[k].align
        /\ new.at = at /\ new.target = target
    BY <2>1, <1>2, <1>3, <1>4, <1>5 DEF AnyData, Targets
  <2>3. pieces' = [pieces EXCEPT ![k] = new] /\ pieces \in Seq(AnyCode \cup AnyData)
    BY <2>1, <1>3 DEF EmitTyped
  <2> QED
    BY <2>2, <2>3, <1>4
<1>16. \A l \in 1 .. Len(pieces) : /\ pieces'[l].align = pieces[l].align /\ pieces'[l].own = pieces[l].own
                                   /\ pieces'[l].kind = pieces[l].kind
  <2>1. ASSUME NEW l \in 1 .. Len(pieces)
        PROVE  /\ pieces'[l].align = pieces[l].align /\ pieces'[l].own = pieces[l].own
               /\ pieces'[l].kind = pieces[l].kind
    <3>1. CASE l = k
      BY <3>1, <1>4, <1>15
    <3>2. CASE l # k
      BY <3>2, <1>4, <1>15
    <3> QED
      BY <3>1, <3>2
  <2> QED
    BY <2>1
<1>17. /\ \A l \in 0 .. Len(pieces) : Ends'[l] = Ends[l]
       /\ \A l \in 1 .. Len(pieces) : StartOf(l)' = StartOf(l)
  <2>1. Len(pieces) <= Len(pieces') /\ pieces' \in AnyPieces
    BY <1>4, <1>15 DEF AnyPieces
  <2> QED
    BY <2>1, <1>9, <1>16, EndsKept
<1>18. EmitTyped'
  <2>1. \A l \in DOMAIN pieces' : pieces'[l].kind = "pointer" => pieces'[l].own = 4
    BY <1>4, <1>15, <1>16 DEF EmitTyped
  <2> QED
    BY <2>1, <1>9, <1>10, <1>15 DEF EmitTyped
<1>19. Linked'
  BY <1>9 DEF Linked
<1>20. Owned'
  <2>1. ASSUME NEW l \in Nat, l > Len(pieces') PROVE OwnCells(l)' = {}
    <3>1. l > Len(pieces) /\ l # k
      BY <2>1, <1>4, <1>15
    <3> QED
      BY <3>1, <1>14 DEF Owned
  <2> QED
    BY <2>1 DEF Owned
<1>21. ASSUME NEW l \in 1 .. Len(pieces), l # k PROVE Whole(l)'
  <2>1. Whole(l)
    BY <1>6 DEF WholeUpTo
  <2>2. StartOf(l)' = StartOf(l) /\ Ends'[l] = Ends[l] /\ pieces'[l] = pieces[l] /\ StartOf(l) \in Nat
    <3>1. l \in 0 .. Len(pieces) /\ l \in DOMAIN pieces
      BY <1>4
    <3> QED
      BY <3>1, <1>15, <1>17, <1>21, EndsTyped
  <2>3. ASSUME StartOf(l) + 4 <= capacity, NEW t, PointerIs(l, t) PROVE PointerIs(l, t)'
    <3>1. PICK s : s = StartOf(l)
      OBVIOUS
    <3>2. ASSUME NEW b \in 0 .. 3 PROVE output'[s + b] = <<"pointer", l, t>>
      <4>1. s + b \in DOMAIN output
        BY <2>2, <2>3, <3>1, <1>8
      <4>2. output[s + b] = <<"pointer", l, t>>
        BY <2>3, <3>1 DEF PointerIs
      <4>3. s + b \notin Cells
        BY <4>2, <1>13, <1>21
      <4> QED
        BY <4>1, <4>2, <4>3, <1>10
    <3> QED
      BY <2>2, <3>1, <3>2 DEF PointerIs
  <2>4. OwnCells(l)' = OwnCells(l)
    BY <1>14, <1>21
  <2> QED
    BY <2>1, <2>2, <2>3, <2>4, <1>9, WholeKept
<1>22. Whole(k)'
  <2>1. StartOf(k)' = at
    BY <1>4, <1>7, <1>17
  <2>2. PointerIs(k, target)'
    <3>1. ASSUME NEW b \in 0 .. 3 PROVE output'[at + b] = <<"pointer", k, target>>
      <4>1. at + b \in Cells
        BY <1>7 DEF Cells
      <4> QED
        BY <4>1, <1>10 DEF mark
    <3> QED
      BY <2>1, <3>1 DEF PointerIs
  <2>4. WholeData(k)'
    BY <2>1, <2>2, <1>8, <1>9, <1>14, <1>15 DEF WholeData, PointerIs
  <2>5. pieces'[k].kind \notin CodeKinds
    BY <1>15 DEF CodeKinds
  <2> QED
    BY <2>1, <2>4, <2>5, <1>15 DEF Whole
<1>23. AtRest(position)'
  <2>1. Now' = Now
    BY <1>15 DEF Now
  <2>2. Ends'[Now] = Ends[Now]
    BY <1>4, <1>6, <1>17
  <2>3. WholeUpTo(Now)'
    BY <2>1, <1>6, <1>21, <1>22 DEF WholeUpTo
  <2> QED
    BY <2>1, <2>2, <2>3, <1>6, <1>9 DEF AtRest
<1>24. AllConstants'
  <2>1. ASSUME NEW f \in DOMAIN fixups, NEW b \in 0 .. 11, f # 0
        PROVE  output'[fixups[f].at + b] = <<"constant", f, b \div 4 + 1, fixups[f].target>>
    <3>1. fixups[f].at + b \in DOMAIN output
      <4>1. fixups[f].at \in Nat /\ fixups[f].at + 12 <= capacity
        BY <1>6, FixupTypes DEF Filled, Placed
      <4> QED
        BY <4>1, <1>8
    <3>2. output[fixups[f].at + b] = <<"constant", f, b \div 4 + 1, fixups[f].target>>
      BY <2>1, <1>6 DEF AllConstants, ConstantsBut, ConstantIs
    <3>3. fixups[f].at + b \notin Cells
      BY <3>2, <1>13
    <3> QED
      BY <3>1, <3>2, <3>3, <1>10
  <2> QED
    BY <2>1, <1>9 DEF AllConstants, ConstantsBut, ConstantIs
<1>25. Filled(position)'
  <2>1. Blank(position)'
    BY <1>6, <1>9, <1>10, <1>13 DEF Filled, Blank
  <2> QED
    BY <2>1, <1>6, <1>9 DEF Filled, Placed
<1> QED
  BY <1>6, <1>9, <1>18, <1>19, <1>20, <1>23, <1>24, <1>25 DEF Still

-----------------------------------------------------------------------------
(* Nothing is marked with a piece that is not begun, in any step of a piece. *)
LEMMA OwnedByMarks ==
  ASSUME EmitTyped, Owned, pieces' \in Seq(AnyCode \cup AnyData), Len(pieces') = Len(pieces), NEW mark,
         \A k \in Nat : k > Len(pieces) => mark # <<"piece", k>>,
         output' = output \/ (DOMAIN output' = DOMAIN output
                              /\ \A i \in DOMAIN output : output'[i] = mark \/ output'[i] = output[i])
  PROVE  Owned'
<1> SUFFICES ASSUME NEW k \in Nat, k > Len(pieces) PROVE OwnCells(k)' = {}
  BY DEF Owned
<1>1. OwnCells(k) = {} /\ mark # <<"piece", k>>
  BY DEF Owned
<1> QED
  BY <1>1 DEF OwnCells

LEMMA WriteKeepsOwned ==
  ASSUME EmitTyped, Owned, Shaped, Steady, NEW mark, Write(mark), ~ error',
         mark = <<"piece", Len(pieces)>> \/ \A k : mark # <<"piece", k>>
  PROVE  Owned'
<1>1. /\ Len(pieces) \in Nat /\ position \in Nat /\ capacity \in Nat /\ DOMAIN output = 0 .. capacity - 1
  BY PieceTypes DEF EmitTyped
<1>2. position < capacity /\ output' = Put(position, 1, mark)
  BY <1>1 DEF Write
<1>3. DOMAIN output' = DOMAIN output /\ \A i \in DOMAIN output : output'[i] = mark \/ output'[i] = output[i]
  <2>1. DOMAIN output \cup position .. position + 1 - 1 = DOMAIN output
    BY <1>1, <1>2
  <2> QED
    BY <2>1, <1>2 DEF Put
<1>4. \A k \in Nat : k > Len(pieces) => mark # <<"piece", k>>
  BY <1>1, MarksApart
<1> QED
  BY <1>3, <1>4, OwnedByMarks DEF Steady, Owned, OwnCells

(* Every step of the emitter keeps the invariant.                           *)
LEMMA ByteStep ==
  ASSUME EmitTyped, Linked, Owned, Shaped, ~ error', PutByte
  PROVE  EmitTyped' /\ Linked' /\ Owned' /\ Shaped'
<1>1. NextIs("byte") /\ Write(Head(todo).mark) /\ Steady
  BY DEF PutByte, Steady
<1>2. PICK mark : mark = Head(todo).mark
  OBVIOUS
<1>3. CASE Patching
  <2>1. EmitTyped' /\ Linked' /\ Patching'
    BY <1>3, PutByteOfConstant
  <2>2. \A k : mark # <<"piece", k>>
    <3>1. PICK f \in DOMAIN fixups, rest \in {<< >>, CodeNow}, front \in Nat, n \in 0 .. 12, al \in BOOLEAN :
            PatchingWith(f, rest, front, n, al)
      BY <1>3 DEF Patching
    <3>2. ~ al /\ n # 12
      <4>1. Head(todo).op = IF al THEN "align" ELSE IF n # 12 THEN "byte" ELSE "restore"
        BY <3>1, PatchingCall
      <4>2. Head(todo).op = "byte"
        BY <1>1 DEF NextIs
      <4> QED
        BY <4>1, <4>2
    <3>3. mark = <<"constant", f, n \div 4 + 1, fixups[f].target>>
      BY <3>1, <3>2, <1>2, PatchingNext
    <3> QED
      BY <3>3, MarksApart
  <2>3. Owned'
    BY <2>2, <1>1, <1>2, WriteKeepsOwned
  <2> QED
    BY <2>1, <2>3 DEF Shaped
<1>4. CASE Writing
  <2>1. EmitTyped' /\ Linked' /\ Writing'
    BY <1>4, PutByteOfPiece
  <2>2. mark = <<"piece", Len(pieces)>>
    <3>1. PICK n \in 0 .. 3, j \in 0 .. 3, al \in BOOLEAN : Written(n, j, al)
      BY <1>4 DEF Writing
    <3>2. todo # << >> /\ Opened
      BY <1>1, <1>4 DEF NextIs, Writing
    <3>3. ~ al
      BY <3>1, <3>2, <1>1, WritingNext, AlignCall DEF NextIs
    <3>4. Head(todo) = Byte(IF j = 0 THEN pieces[Now].own[n + 1] ELSE 0, <<"piece", Now>>)
      BY <3>1, <3>2, <3>3, WritingNext
    <3> QED
      BY <3>4, <1>2 DEF Byte, Now
  <2>3. Owned'
    BY <2>2, <1>1, <1>2, WriteKeepsOwned
  <2> QED
    BY <2>1, <2>3 DEF Shaped
<1> QED
  BY <1>1, <1>3, <1>4, Dispatch

LEMMA RawStep ==
  ASSUME EmitTyped, Linked, Owned, Shaped, ~ error', PutRaw
  PROVE  EmitTyped' /\ Linked' /\ Owned' /\ Shaped'
<1>1. NextIs("raw") /\ Write(Head(todo).mark) /\ Steady
  BY DEF PutRaw, Steady
<1>2. PICK mark : mark = Head(todo).mark
  OBVIOUS
<1>3. Filling
  BY <1>1, Dispatch
<1>4. EmitTyped' /\ Linked' /\ Filling'
  BY <1>3, PutRawOfGlobal
<1>5. mark = <<"piece", Len(pieces)>>
  <2>1. PICK n \in 0 .. pieces[Now].own : FilledUpTo(n)
    BY <1>3 DEF Filling
  <2>2. todo # << >> /\ Global
    BY <1>1, <1>3 DEF NextIs, Filling
  <2>3. Head(todo) = Raw(<<"piece", Now>>)
    BY <2>1, <2>2, FillingNext
  <2> QED
    BY <2>3, <1>2 DEF Raw, Now
<1>6. Owned'
  BY <1>1, <1>2, <1>5, WriteKeepsOwned
<1> QED
  BY <1>4, <1>6 DEF Shaped

LEMMA AlignStep ==
  ASSUME EmitTyped, Linked, Owned, Shaped, ~ error', PutAlign
  PROVE  EmitTyped' /\ Linked' /\ Owned' /\ Shaped'
<1>1. NextIs("align") /\ Steady
  BY DEF PutAlign, Steady
<1>2. EmitTyped' /\ Linked' /\ Shaped'
  <2>1. Patching \/ Writing \/ Aligning
    BY <1>1, Dispatch
  <2> QED
    BY <2>1, PutAlignOfConstant, PutAlignOfPiece, PutAlignOfGlobal DEF Shaped
<1>3. Owned'
  <2>1. CASE output' = output
    BY <2>1, <1>1 DEF Owned, OwnCells, Steady
  <2>2. CASE Write(Pad)
    <3>1. PICK mark : mark = Pad
      OBVIOUS
    <3>2. \A k : mark # <<"piece", k>>
      BY <3>1, MarksApart
    <3> QED
      BY <3>1, <3>2, <2>2, <1>1, WriteKeepsOwned
  <2> QED
    BY <2>1, <2>2 DEF PutAlign
<1> QED
  BY <1>2, <1>3

LEMMA QuietStep ==
  ASSUME EmitTyped, Linked, Owned, Shaped, ~ error', Constant \/ ConstantAt \/ Restore \/ GlobalBegins
  PROVE  EmitTyped' /\ Linked' /\ Owned' /\ Shaped'
<1>1. output' = output /\ Len(pieces') = Len(pieces)
  <2>1. CASE Constant \/ ConstantAt \/ Restore
    BY <2>1 DEF Constant, ConstantAt, Restore
  <2>2. CASE GlobalBegins
    <3>1. pieces' = [pieces EXCEPT ![Len(pieces)].at = position] /\ output' = output
      BY <2>2 DEF GlobalBegins
    <3> QED
      BY <3>1 DEF EmitTyped
  <2> QED
    BY <2>1, <2>2
<1>2. Owned'
  BY <1>1 DEF Owned, OwnCells
<1>3. CASE Constant
  BY <1>2, <1>3, Dispatch, ConstantAsked DEF Constant, Shaped
<1>4. CASE ConstantAt
  BY <1>2, <1>4, Dispatch, ConstantTurnedTo DEF ConstantAt, Shaped
<1>5. CASE Restore
  BY <1>2, <1>5, Dispatch, RestoreOfConstant DEF Restore, Shaped
<1>6. CASE GlobalBegins
  BY <1>2, <1>6, Dispatch, GlobalBegun DEF GlobalBegins, Shaped
<1> QED
  BY <1>3, <1>4, <1>5, <1>6

LEMMA GivenStep ==
  ASSUME EmitTyped, Linked, Owned, Shaped, ~ error',
         \/ EmitCode \/ PatchBranch \/ EndCode \/ PatchCall \/ EndCalls \/ EmitGlobal \/ EndGlobals
         \/ WritePointer \/ EndPointers \/ PatchAddress \/ Finish
  PROVE  EmitTyped' /\ Linked' /\ Owned' /\ Shaped'
<1>1. Still
  <2>1. todo = << >>
    BY DEF EmitCode, PatchBranch, EndCode, PatchCall, EndCalls, EmitGlobal, EndGlobals,
           WritePointer, EndPointers, PatchAddress, Finish, Idle
  <2> QED
    BY <2>1, Dispatch
<1>2. CASE EmitCode
  BY <1>1, <1>2, CodeEmitted DEF Shaped
<1>3. CASE PatchBranch \/ PatchCall \/ PatchAddress
  BY <1>1, <1>3, Patched DEF Shaped
<1>4. CASE EmitGlobal
  BY <1>1, <1>4, GlobalEmitted DEF Shaped
<1>5. CASE WritePointer
  BY <1>1, <1>5, PointerWritten DEF Shaped
<1>6. CASE EndCode \/ EndCalls \/ EndGlobals \/ EndPointers \/ Finish
  BY <1>1, <1>6, StageEnds DEF Shaped
<1> QED
  BY <1>2, <1>3, <1>4, <1>5, <1>6

(* An error stays: dyn_emit_image looks at it at the end.                   *)
LEMMA ErrorStays ==
  ASSUME error = TRUE, EmitNext
  PROVE  error' = TRUE
<1>1. CASE Step
  <2>1. ASSUME NEW mark, Write(mark) PROVE error' = TRUE
    BY <2>1 DEF Write
  <2>2. CASE PutByte \/ PutRaw
    BY <2>1, <2>2 DEF PutByte, PutRaw
  <2>3. CASE PutAlign
    BY <2>1, <2>3 DEF PutAlign
  <2>4. CASE Constant \/ ConstantAt \/ Restore \/ GlobalBegins
    BY <2>4 DEF Constant, ConstantAt, Restore, GlobalBegins
  <2> QED
    BY <1>1, <2>2, <2>3, <2>4 DEF Step
<1>2. CASE WritePointer
  BY <1>2 DEF WritePointer
<1>3. CASE \/ EmitCode \/ PatchBranch \/ EndCode \/ PatchCall \/ EndCalls \/ EmitGlobal \/ EndGlobals
           \/ EndPointers \/ PatchAddress \/ Finish
  BY <1>3 DEF EmitCode, PatchBranch, EndCode, PatchCall, EndCalls, EmitGlobal, EndGlobals,
              EndPointers, PatchAddress, Finish
<1> QED
  BY <1>1, <1>2, <1>3 DEF EmitNext

LEMMA EmitInitially ==
  ASSUME EmitInit
  PROVE  EmitInv
<1>1. /\ capacity \in Nat /\ symphony \in BOOLEAN /\ position = 0 /\ pending = 0 /\ todo = << >>
      /\ output = [i \in 0 .. capacity - 1 |-> Empty] /\ pieces = << >> /\ fixups = << >> /\ stage = "code"
  BY EmitterAssumption DEF EmitInit
<1>2. DOMAIN pieces = {} /\ DOMAIN fixups = {} /\ Len(pieces) = 0 /\ Now = 0 /\ 1 .. 0 = {}
  BY <1>1 DEF Now
<1>3. EmitTyped
  BY <1>1, <1>2 DEF EmitTyped
<1>4. Linked
  BY <1>1 DEF Linked
<1>5. Owned
  BY <1>1, MarksApart DEF Owned, OwnCells
<1>6. Ends[0] = 0
  BY <1>3, EndsTyped
<1>7. AtRest(0)
  BY <1>2, <1>6 DEF AtRest, WholeUpTo
<1>8. AllConstants /\ Filled(0)
  BY <1>1, <1>2 DEF AllConstants, ConstantsBut, Filled, Blank
<1> QED
  BY <1>1, <1>3, <1>4, <1>5, <1>7, <1>8 DEF EmitInv, Shaped, Still

LEMMA Stuttering ==
  ASSUME EmitTyped, Linked, Owned, Shaped, UNCHANGED emitVars
  PROVE  EmitTyped' /\ Linked' /\ Owned' /\ Shaped'
<1>1. /\ output' = output /\ position' = position /\ pending' = pending /\ todo' = todo
      /\ capacity' = capacity /\ symphony' = symphony /\ stage' = stage /\ pieces' = pieces
      /\ fixups' = fixups
  BY DEF emitVars, fixed
<1>2. EmitTyped' /\ Linked' /\ Owned'
  BY <1>1 DEF EmitTyped, Linked, OpenPointers, Owned, OwnCells
<1>3. Now' = Now /\ Ends' = Ends /\ CodeNow' = CodeNow /\ Base' = Base
  BY <1>1 DEF Now, Ends, CodeNow, Base
<1>4. \A k : OwnCells(k)' = OwnCells(k)
  BY <1>1 DEF OwnCells
<1>5. \A k : StartOf(k)' = StartOf(k)
  BY <1>1, <1>3 DEF StartOf
<1>6. \A k : Whole(k)' <=> Whole(k)
  BY <1>1, <1>3, <1>4, <1>5 DEF Whole, WholeCode, WholeData, PointerIs
<1>7. /\ \A f, t : ConstantIs(f, t)' <=> ConstantIs(f, t)
      /\ \A f, i : Lendable(f, i)' <=> Lendable(f, i)
      /\ \A front : Filled(front)' <=> Filled(front)
  BY <1>1 DEF ConstantIs, Lendable, Filled, Blank, Placed
<1>8. /\ \A front : AtRest(front)' <=> AtRest(front)
      /\ Opened' <=> Opened
      /\ \A front : Ahead(front)' <=> Ahead(front)
      /\ \A rest, front : Behind(rest, front)' <=> Behind(rest, front)
  <2>1. \A front : AtRest(front)' <=> AtRest(front)
    BY <1>1, <1>3, <1>6 DEF AtRest, WholeUpTo
  <2>2. Opened' <=> Opened
    BY <1>1, <1>3, <1>6 DEF Opened, WholeUpTo
  <2>3. OwnCells(Now)' = OwnCells(Now)
    BY <1>1, <1>3 DEF OwnCells
  <2>4. \A front : Ahead(front)' <=> Ahead(front)
    BY <1>1, <1>3, <2>2, <2>3 DEF Ahead
  <2>5. \A rest, front : Behind(rest, front)' <=> Behind(rest, front)
    BY <1>3, <2>1, <2>4 DEF Behind
  <2> QED
    BY <2>1, <2>2, <2>4, <2>5
<1>9. /\ \A f, n : Lent(f, n)' <=> Lent(f, n)
      /\ \A f : ConstantsBut(f)' <=> ConstantsBut(f)
      /\ AllConstants' <=> AllConstants
      /\ Filled(position)' <=> Filled(position)
  <2>1. \A f, n : Lent(f, n)' <=> Lent(f, n)
    BY <1>1 DEF Lent, Lendable
  <2>2. \A f : ConstantsBut(f)' <=> ConstantsBut(f)
    BY <1>1 DEF ConstantsBut, ConstantIs
  <2>3. AllConstants' <=> AllConstants
    BY <2>2 DEF AllConstants
  <2>4. Filled(position)' <=> Filled(position)
    BY <1>1 DEF Filled, Blank, Placed
  <2> QED
    BY <2>1, <2>2, <2>3, <2>4
<1>10. CASE Still
  <2>1. AtRest(position)'
    BY <1>1, <1>3, <1>6, <1>10 DEF Still, AtRest, WholeUpTo
  <2> QED
    BY <2>1, <1>1, <1>2, <1>9, <1>10 DEF Still, Shaped
<1>11. CASE Asking
  <2>1. Ahead(position + 12)'
    BY <1>1, <1>3, <1>8, <1>11 DEF Asking, Ahead, OwnCells
  <2> QED
    BY <2>1, <1>1, <1>2, <1>3, <1>9, <1>11 DEF Asking, Shaped
<1>12. CASE Lending
  <2>1. PICK f \in DOMAIN fixups, rest \in {<< >>, CodeNow} : LendingWith(f, rest)
    BY <1>12 DEF Lending
  <2>2. PICK front : front = position
    OBVIOUS
  <2>3. Behind(rest, front)'
    BY <2>1, <2>2, <1>8 DEF LendingWith
  <2>4. Behind(rest, position)'
    BY <2>2, <2>3, <1>1 DEF Behind, AtRest, Ahead
  <2>5. LendingWith(f, rest)'
    BY <2>1, <2>4, <1>1, <1>9 DEF LendingWith
  <2>6. f \in DOMAIN fixups' /\ rest \in {<< >>, CodeNow'}
    BY <2>1, <1>1, <1>3
  <2> QED
    BY <2>5, <2>6, <1>2 DEF Lending, Shaped
<1>13. CASE Patching
  <2>1. PICK f \in DOMAIN fixups, rest \in {<< >>, CodeNow}, front \in Nat, n \in 0 .. 12, al \in BOOLEAN :
          PatchingWith(f, rest, front, n, al)
    BY <1>13 DEF Patching
  <2>2. PatchingWith(f, rest, front, n, al)'
    BY <2>1, <1>1, <1>7, <1>8, <1>9 DEF PatchingWith
  <2>3. f \in DOMAIN fixups' /\ rest \in {<< >>, CodeNow'}
    BY <2>1, <1>1, <1>3
  <2> QED
    BY <2>1, <2>2, <2>3, <1>2 DEF Patching, Shaped
<1>14. CASE Writing
  <2>1. PICK n \in 0 .. 3, j \in 0 .. 3, al \in BOOLEAN : Written(n, j, al)
    BY <1>14 DEF Writing
  <2>2. OwnCells(Now)' = OwnCells(Now)
    BY <1>1, <1>3 DEF OwnCells
  <2>3. Advanced(n, j, al)'
    BY <2>1, <1>1, <1>3 DEF Written, Advanced
  <2>4. Written(n, j, al)'
    BY <2>1, <2>2, <2>3, <1>1, <1>3 DEF Written
  <2> QED
    BY <2>1, <2>4, <1>2, <1>8, <1>9, <1>14 DEF Writing, Shaped
<1>15. CASE Aligning \/ Filling
  <2>1. Global
    BY <1>15 DEF Aligning, Filling
  <2>2. Global'
    BY <2>1, <1>1, <1>3, <1>6, <1>9 DEF Global, WholeUpTo
  <2>3. OwnCells(Now)' = OwnCells(Now) /\ StartOf(Now)' = StartOf(Now)
    BY <1>1, <1>3 DEF OwnCells, StartOf
  <2>4. CASE Aligning
    BY <2>2, <2>3, <2>4, <1>1, <1>2, <1>3 DEF Aligning, Shaped
  <2>5. CASE Filling
    <3>1. PICK n \in 0 .. pieces[Now].own : FilledUpTo(n)
      BY <2>5 DEF Filling
    <3>2. FilledUpTo(n)'
      BY <3>1, <2>3, <1>1, <1>3 DEF FilledUpTo
    <3> QED
      BY <3>1, <3>2, <2>2, <2>3, <2>5, <1>1, <1>2, <1>3 DEF Filling, Shaped
  <2> QED
    BY <1>15, <2>4, <2>5
<1> QED
  BY <1>2, <1>10, <1>11, <1>12, <1>13, <1>14, <1>15 DEF Shaped

LEMMA EmitSteps ==
  ASSUME EmitInv, [EmitNext]_emitVars
  PROVE  EmitInv'
<1>1. CASE error'
  BY <1>1 DEF EmitInv
<1>2. CASE error /\ EmitNext
  BY <1>2, ErrorStays DEF EmitInv
<1>3. CASE error /\ UNCHANGED emitVars
  BY <1>3 DEF EmitInv, emitVars
<1>4. CASE ~ error /\ ~ error'
  <2>1. EmitTyped /\ Linked /\ Owned /\ Shaped
    BY <1>4 DEF EmitInv
  <2>2. EmitTyped' /\ Linked' /\ Owned' /\ Shaped'
    <3>1. CASE UNCHANGED emitVars
      BY <2>1, <3>1, Stuttering
    <3>2. CASE PutByte
      BY <1>4, <2>1, <3>2, ByteStep
    <3>3. CASE PutRaw
      BY <1>4, <2>1, <3>3, RawStep
    <3>4. CASE PutAlign
      BY <1>4, <2>1, <3>4, AlignStep
    <3>5. CASE Constant \/ ConstantAt \/ Restore \/ GlobalBegins
      BY <1>4, <2>1, <3>5, QuietStep
    <3>6. CASE \/ EmitCode \/ PatchBranch \/ EndCode \/ PatchCall \/ EndCalls \/ EmitGlobal \/ EndGlobals
               \/ WritePointer \/ EndPointers \/ PatchAddress \/ Finish
      BY <1>4, <2>1, <3>6, GivenStep
    <3> QED
      BY <3>1, <3>2, <3>3, <3>4, <3>5, <3>6 DEF EmitNext, Step
  <2> QED
    BY <2>2 DEF EmitInv
<1> QED
  BY <1>1, <1>2, <1>3, <1>4

LEMMA EmitInvImplies ==
  ASSUME EmitInv
  PROVE  LayoutKept
<1> SUFFICES ASSUME stage = "done", ~ error
             PROVE  /\ position = Ends[Len(pieces)]
                    /\ \A k \in DOMAIN pieces : InPlace(k)
                    /\ \A k \in DOMAIN pieces : pieces[k].kind = "pointer" => PointerIs(k, pieces[k].target)
                    /\ \A k \in DOMAIN fixups : ConstantIs(k, fixups[k].target)
  BY DEF LayoutKept
<1>1. EmitTyped /\ Linked /\ Shaped
  BY DEF EmitInv
<1>2. Still /\ OpenPointers = {}
  BY <1>1, Dispatch DEF Linked
<1>3. position = Ends[Len(pieces)] /\ WholeUpTo(Len(pieces)) /\ AllConstants
  BY <1>2 DEF Still, AtRest, Now
<1>4. ASSUME NEW k \in DOMAIN fixups PROVE ConstantIs(k, fixups[k].target)
  BY <1>1, <1>3, FixupTypes DEF AllConstants, ConstantsBut
<1>5. ASSUME NEW k \in DOMAIN pieces
      PROVE  InPlace(k) /\ (pieces[k].kind = "pointer" => PointerIs(k, pieces[k].target))
  <2>1. /\ k \in 1 .. Len(pieces) /\ pieces[k] \in AnyCode \cup AnyData
        /\ pieces[k].kind = "pointer" => pieces[k].target # None
    BY <1>1, <1>2, PieceTypes DEF OpenPointers
  <2>2. Whole(k)
    BY <1>3, <2>1 DEF WholeUpTo
  <2>3. CASE pieces[k].kind \in CodeKinds
    BY <2>2, <2>3 DEF Whole, WholeCode, InPlace, CodeKinds
  <2>4. CASE pieces[k].kind \notin CodeKinds
    <3>1. pieces[k] \in AnyData /\ WholeData(k) /\ pieces[k].at = StartOf(k)
      BY <2>1, <2>2, <2>4 DEF AnyCode, Whole
    <3>2. /\ pieces[k].kind \in {"global", "pointer"} /\ pieces[k].own \in Nat
          /\ Size(pieces[k], symphony) = pieces[k].own
      BY <3>1, <1>1, SizeIs DEF AnyData, DataKinds, EmitTyped
    <3>3. Ends[k] = StartOf(k) + pieces[k].own /\ StartOf(k) \in Nat
      BY <2>1, <3>2, <1>1, EndsTyped
    <3>4. CASE pieces[k].kind = "pointer"
      <4>1. OwnCells(k) = {} /\ PointerIs(k, pieces[k].target)
        BY <2>1, <3>1, <3>4 DEF WholeData
      <4>2. Cardinality(OwnCells(k)) = 0
        BY <4>1, FS_EmptySet
      <4> QED
        BY <4>1, <4>2, <3>1, <3>4 DEF InPlace
    <3>5. CASE pieces[k].kind = "global"
      <4>1. OwnCells(k) = StartOf(k) .. Ends[k] - 1
        BY <3>1, <3>5 DEF WholeData
      <4>2. Cardinality(OwnCells(k)) = pieces[k].own
        <5>1. PICK s, n : s = StartOf(k) /\ n = pieces[k].own
          OBVIOUS
        <5>2. s \in Int /\ n \in Nat /\ OwnCells(k) = s .. s + n - 1
          BY <5>1, <4>1, <3>2, <3>3
        <5>3. Cardinality(s .. s + n - 1) = n
          BY <5>2, FS_Interval
        <5> QED
          BY <5>1, <5>2, <5>3
      <4> QED
        BY <4>1, <4>2, <3>1, <3>5 DEF InPlace
    <3> QED
      BY <3>2, <3>4, <3>5
  <2> QED
    BY <2>3, <2>4
<1> QED
  BY <1>3, <1>4, <1>5

(* Every image of the emitter has its layout, however much is emitted, of   *)
(* whatever opcodes and globals and into whatever room: no byte of a piece  *)
(* is lost or spilled over by what is patched later (dyn_constant_at).      *)
THEOREM LayoutTheorem == EmitSpec => []LayoutKept
<1>1. EmitInit => EmitInv
  BY EmitInitially
<1>2. EmitInv /\ [EmitNext]_emitVars => EmitInv'
  BY EmitSteps
<1>3. EmitInv => LayoutKept
  BY EmitInvImplies
<1> QED
  BY <1>1, <1>2, <1>3, PTL DEF EmitSpec
=============================================================================
