--------------------------- MODULE ParseDispatch ---------------------------
(***************************************************************************)
(* How one ld64 invocation reads its input files in the build the sources  *)
(* select (ld64/src/ld/InputFiles.cpp defines HAVE_LIBDISPATCH): the       *)
(* constructor parses all files in one dispatch_apply, whose blocks run    *)
(* concurrently and in any order, and forEachInitialAtom then hands the    *)
(* files to the resolver one by one.  ParsePool is the same code built     *)
(* without libdispatch; both implement OrderedDelivery.                    *)
(*                                                                         *)
(* A block is one action up to each access to state it shares with other   *)
(* blocks: the test and the assignment of firstError are two steps.        *)
(***************************************************************************)
EXTENDS Integers

CONSTANTS
  N,         \* number of input files
  MayFail    \* the failures to explore: a subset of FailureKinds

Slots == 0 .. N-1
NoFile == -1
NoError == -1
NoMsg == "none"
FailureKinds == {"parse", "handler", "addDylib"}

ASSUME ConstantsOK ==
  /\ N \in Nat \ {0}
  /\ MayFail \subseteq FailureKinds

VARIABLES
  inputFiles,   \* _inputFiles: slot -> what makeFile returned for it, or NoFile
  firstError,   \* __block firstError: the slot whose message it is, or NoError
  bpc,          \* per block of the dispatch_apply: where it is
  failures,     \* the slots whose makeFile threw an error that is not ignored
  mpc,          \* main thread: where it is
  fileIndex,    \* main thread: local variable fileIndex
  exception     \* _exception: NoMsg, or what forEachAtom threw

blocks == <<inputFiles, firstError, bpc, failures>>
main   == <<mpc, fileIndex, exception>>
vars   == <<blocks, main>>

Init ==
  /\ inputFiles = [s \in Slots |-> NoFile]
  /\ firstError = NoError
  /\ bpc = [s \in Slots |-> "start"]
  /\ failures = {}
  /\ mpc = "apply"
  /\ fileIndex = 0
  /\ exception = NoMsg
-----------------------------------------------------------------------------
(* The block for one file.                                                 *)

Goto(i, l) == bpc' = [bpc EXCEPT ![i] = l]

MakeFile(i) ==
  /\ bpc[i] = "start"
  /\ inputFiles' = [inputFiles EXCEPT ![i] = i]
  /\ Goto(i, "done")
  /\ UNCHANGED <<firstError, failures, main>>

\* A file of another architecture, or of an unexpected kind: at most a warning.
MakeFileIgnored(i) ==
  /\ bpc[i] = "start"
  /\ Goto(i, "ignore")
  /\ UNCHANGED <<inputFiles, firstError, failures, main>>

MakeFileThrows(i) ==
  /\ "parse" \in MayFail
  /\ bpc[i] = "start"
  /\ failures' = failures \cup {i}
  /\ Goto(i, "test")
  /\ UNCHANGED <<inputFiles, firstError, main>>

\* if ( firstError == nullptr )
TestFirstError(i) ==
  /\ bpc[i] = "test"
  /\ Goto(i, IF firstError = NoError THEN "report" ELSE "ignore")
  /\ UNCHANGED <<inputFiles, firstError, failures, main>>

\* Mutant: the message is formatted into a variable of the block.
MutReportLocally(i) ==
  /\ bpc[i] = "report"
  /\ Goto(i, "ignore")
  /\ UNCHANGED <<inputFiles, firstError, failures, main>>

\* asprintf stores the message.  Another block may have stored one meanwhile.
ReportError(i) ==
  /\ bpc[i] = "report"
  /\ firstError' = i
  /\ Goto(i, "ignore")
  /\ UNCHANGED <<inputFiles, failures, main>>

\* Mutant: a file that is skipped leaves its slot empty.
MutSkipFile(i) ==
  /\ bpc[i] = "ignore"
  /\ Goto(i, "done")
  /\ UNCHANGED <<inputFiles, firstError, failures, main>>

IgnoreFile(i) ==
  /\ bpc[i] = "ignore"
  /\ inputFiles' = [inputFiles EXCEPT ![i] = i]
  /\ Goto(i, "done")
  /\ UNCHANGED <<firstError, failures, main>>

Block(i) ==
  \/ MakeFile(i) \/ MakeFileIgnored(i) \/ MakeFileThrows(i)
  \/ TestFirstError(i) \/ ReportError(i) \/ IgnoreFile(i)
-----------------------------------------------------------------------------
(* The main thread: the rest of the constructor, then forEachInitialAtom.  *)

\* dispatch_apply returns when every block has.
ApplyReturns ==
  /\ mpc = "apply"
  /\ \A i \in Slots : bpc[i] = "done"
  /\ mpc' = IF firstError # NoError THEN "thrown" ELSE "loop"
  /\ UNCHANGED <<blocks, fileIndex, exception>>

\* Mutant: the test of _exception in the loop is dropped.
MutTakeDespiteError ==
  /\ mpc = "loop"
  /\ inputFiles[fileIndex] # NoFile
  /\ mpc' = "consume"
  /\ UNCHANGED <<blocks, fileIndex, exception>>

\* With an empty slot main would wait for a worker that nobody starts: no step.
MainTake ==
  /\ mpc = "loop"
  /\ inputFiles[fileIndex] # NoFile
  /\ exception = NoMsg
  /\ mpc' = "consume"
  /\ UNCHANGED <<blocks, fileIndex, exception>>

\* The switch on the file's type and forEachAtom.  What forEachAtom throws is
\* stored in _exception; what addDylib throws leaves forEachInitialAtom at once.
MainConsume ==
  /\ mpc = "consume"
  /\ \/ /\ mpc' = IF fileIndex + 1 < N THEN "loop" ELSE "allRead"
        /\ fileIndex' = fileIndex + 1
        /\ \/ exception' = exception
           \/ "handler" \in MayFail /\ exception' = "handler"
     \/ /\ "addDylib" \in MayFail
        /\ mpc' = "escaped"
        /\ UNCHANGED <<fileIndex, exception>>
  /\ UNCHANGED blocks

\* The two tests of _exception, in the loop and after it.
MainThrow ==
  /\ mpc \in {"loop", "allRead"}
  /\ exception # NoMsg
  /\ mpc' = "thrown"
  /\ UNCHANGED <<blocks, fileIndex, exception>>

MainDone ==
  /\ mpc = "allRead"
  /\ exception = NoMsg
  /\ mpc' = "done"
  /\ UNCHANGED <<blocks, fileIndex, exception>>

MainNext ==
  \/ ApplyReturns \/ MainTake \/ MainConsume \/ MainThrow \/ MainDone

Next == MainNext \/ \E i \in Slots : Block(i)

\* libdispatch runs every block, and the main thread is scheduled.
Fairness == WF_vars(MainNext) /\ \A i \in Slots : WF_vars(Block(i))

Spec == Init /\ [][Next]_vars
FairSpec == Spec /\ Fairness
-----------------------------------------------------------------------------
(* Properties.                                                             *)

\* Type invariant of the blocks' and the main thread's state.
TypeOK ==
  /\ inputFiles \in [Slots -> Slots \cup {NoFile}]
  /\ firstError \in Slots \cup {NoError}
  /\ bpc \in [Slots -> {"start", "test", "report", "ignore", "done"}]
  /\ failures \subseteq Slots
  /\ mpc \in {"apply", "loop", "consume", "allRead", "thrown", "escaped", "done"}
  /\ fileIndex \in 0 .. N
  /\ exception \in {NoMsg, "handler"}

\* An error met by any block, whoever else meets one at the same time, stops the
\* link before a single file is handed on, and the message thrown is that of a
\* file that did fail.
ErrorNotLost ==
  /\ firstError # NoError => firstError \in failures
  /\ failures # {} /\ mpc # "apply" => mpc = "thrown" /\ fileIndex = 0

\* Main is never starved: the loop in forEachInitialAtom that waits for a worker
\* does not wait in this build, where no worker exists that could wake it.
NeverStarved == mpc = "loop" => inputFiles[fileIndex] # NoFile

\* Reading the input files ends.
MainTerminates == <>(mpc \in {"done", "thrown", "escaped"})
-----------------------------------------------------------------------------
(* The inductive invariant, and the refinement.                            *)

\* What a block has done so far, by where it is, and what main can rely on once
\* dispatch_apply returned.
BlockInv ==
  /\ \A i \in Slots : inputFiles[i] # NoFile <=> bpc[i] = "done"
  /\ \A i \in Slots : bpc[i] \in {"test", "report"} => i \in failures
  /\ failures # {} => firstError # NoError \/ \E i \in Slots : bpc[i] \in {"test", "report"}
  /\ mpc # "apply" => \A i \in Slots : bpc[i] = "done"

MainInv ==
  /\ mpc \in {"loop", "consume"} => fileIndex \in Slots
  /\ mpc = "apply" => fileIndex = 0
  /\ mpc \in {"allRead", "done"} => fileIndex = N
  /\ mpc \in {"apply", "consume", "escaped"} => exception = NoMsg

IInv == TypeOK /\ BlockInv /\ MainInv /\ ErrorNotLost /\ NeverStarved

Delivered == IF mpc \in {"consume", "escaped"} THEN fileIndex + 1 ELSE fileIndex

OD == INSTANCE OrderedDelivery WITH
        parsed <- {s \in Slots : inputFiles[s] # NoFile},
        delivered <- Delivered,
        failed <- (failures # {} \/ exception # NoMsg \/ mpc = "escaped"),
        outcome <- IF mpc = "done" THEN "done"
                   ELSE IF mpc \in {"thrown", "escaped"} THEN "thrown" ELSE "running"

\* Concurrent parsing followed by the loop delivers the files as OrderedDelivery
\* says.
DeliversInOrder == OD!Spec
=============================================================================
