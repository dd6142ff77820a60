------------------------ MODULE ParseDispatch_proofs ------------------------
(***************************************************************************)
(* Proofs about ParseDispatch for any number of files and every failure.   *)
(***************************************************************************)
EXTENDS ParseDispatch, TLAPS

\* Initially no block ran and main is inside dispatch_apply.
LEMMA InitIInv == Init => IInv
  BY ConstantsOK DEF Init, IInv, TypeOK, BlockInv, MainInv, ErrorNotLost, NeverStarved,
     Slots, NoFile, NoError, NoMsg

\* A step of the block for one file keeps the invariant, whatever the other
\* blocks are doing.  Main is inside dispatch_apply meanwhile.
LEMMA BlockStep == ASSUME IInv, NEW i \in Slots, Block(i) PROVE IInv'
  <1> USE DEF Goto, main
  <1>1. mpc = "apply" /\ UNCHANGED main
    BY DEF IInv, BlockInv, Block, MakeFile, MakeFileIgnored, MakeFileThrows, TestFirstError,
       ReportError, IgnoreFile
  <1>2. MainInv' /\ NeverStarved'
    BY <1>1 DEF IInv, MainInv, NeverStarved
  <1>3. TypeOK' /\ BlockInv' /\ ErrorNotLost'
    <2> USE <1>1 DEF IInv, TypeOK, BlockInv, ErrorNotLost
    <2>1. CASE MakeFile(i)
      BY <2>1 DEF MakeFile, Slots, NoFile
    <2>2. CASE MakeFileIgnored(i)
      BY <2>2 DEF MakeFileIgnored, Slots, NoFile
    <2>3. CASE MakeFileThrows(i)
      BY <2>3 DEF MakeFileThrows, Slots, NoFile
    <2>4. CASE TestFirstError(i)
      BY <2>4 DEF TestFirstError, Slots, NoFile
    <2>5. CASE ReportError(i)
      BY <2>5 DEF ReportError, Slots, NoFile, NoError
    <2>6. CASE IgnoreFile(i)
      BY <2>6 DEF IgnoreFile, Slots, NoFile
    <2> QED BY <2>1, <2>2, <2>3, <2>4, <2>5, <2>6 DEF Block
  <1> QED BY <1>2, <1>3 DEF IInv

\* A step of the main thread keeps the invariant.
LEMMA MainStep == ASSUME IInv, MainNext PROVE IInv'
  <1> USE ConstantsOK DEF blocks, NoMsg, IInv, TypeOK, BlockInv, ErrorNotLost, MainInv, NeverStarved,
          Slots
  <1>1. CASE ApplyReturns
    <2>1. /\ UNCHANGED <<blocks, fileIndex, exception>>
          /\ fileIndex = 0 /\ exception = NoMsg
          /\ \A i \in Slots : bpc[i] = "done" /\ inputFiles[i] # NoFile
          /\ mpc' \in {"thrown", "loop"}
      BY <1>1 DEF ApplyReturns
    <2>2. failures # {} => mpc' = "thrown"
      BY <1>1, <2>1 DEF ApplyReturns
    <2>3. TypeOK' /\ BlockInv'
      BY <2>1, Zenon
    <2>4. MainInv' /\ ErrorNotLost' /\ NeverStarved'
      BY <2>1, <2>2
    <2> QED BY <2>3, <2>4, Zenon
  <1>2. CASE MainTake
    BY <1>2, Zenon DEF MainTake
  <1>3. CASE MainConsume
    <2>1. UNCHANGED blocks /\ failures = {}
      BY <1>3 DEF MainConsume
    <2>2. TypeOK' /\ MainInv'
      <3>1. fileIndex \in Slots /\ N \in Nat /\ exception = NoMsg
        BY <1>3 DEF MainConsume
      <3>2. CASE UNCHANGED fileIndex
        BY <1>3, <2>1, <3>1, <3>2 DEF MainConsume
      <3>3. CASE fileIndex' = fileIndex + 1 /\ fileIndex + 1 < N /\ mpc' = "loop"
        BY <1>3, <2>1, <3>1, <3>3 DEF MainConsume
      <3>4. CASE fileIndex' = fileIndex + 1 /\ fileIndex + 1 = N /\ mpc' = "allRead"
        BY <1>3, <2>1, <3>1, <3>4 DEF MainConsume
      <3>5. fileIndex + 1 < N \/ fileIndex + 1 = N
        BY <3>1
      <3>6. \/ UNCHANGED fileIndex
            \/ fileIndex' = fileIndex + 1 /\ mpc' = IF fileIndex + 1 < N THEN "loop" ELSE "allRead"
        BY <1>3 DEF MainConsume
      <3>7. fileIndex + 1 = N => ~(fileIndex + 1 < N)
        BY <3>1
      <3> HIDE DEF IInv, TypeOK, BlockInv, ErrorNotLost, MainInv, NeverStarved, Slots
      <3> QED BY <3>2, <3>3, <3>4, <3>5, <3>6, <3>7
    <2>3. BlockInv' /\ ErrorNotLost'
      BY <1>3, <2>1 DEF MainConsume
    <2>4. NeverStarved'
      BY <1>3, <2>1, <2>2 DEF MainConsume
    <2> QED BY <2>2, <2>3, <2>4
  <1>4. CASE MainThrow
    BY <1>4, Zenon DEF MainThrow
  <1>5. CASE MainDone
    BY <1>5 DEF MainDone
  <1> QED BY <1>1, <1>2, <1>3, <1>4, <1>5 DEF MainNext

\* The inductive invariant holds in every reachable state.
THEOREM Invariance == Spec => []IInv
  <1>1. IInv /\ [Next]_vars => IInv'
    <2> SUFFICES ASSUME IInv, [Next]_vars PROVE IInv'
      OBVIOUS
    <2>1. CASE UNCHANGED vars
      BY <2>1 DEF vars, blocks, main, IInv, TypeOK, BlockInv, ErrorNotLost, MainInv, NeverStarved
    <2> QED BY <2>1, BlockStep, MainStep DEF Next
  <1> QED BY InitIInv, <1>1, PTL DEF Spec

\* Type correctness.
THEOREM TypeCorrect == Spec => []TypeOK
  BY Invariance, PTL DEF IInv

\* Although blocks race for firstError, no error is lost and none is made up.
THEOREM ErrorIsNotLost == Spec => []ErrorNotLost
  BY Invariance, PTL DEF IInv

\* forEachInitialAtom never waits for a parser thread.
THEOREM MainIsNeverStarved == Spec => []NeverStarved
  BY Invariance, PTL DEF IInv
-----------------------------------------------------------------------------
\* The constructor starts where OrderedDelivery does.
LEMMA RefinesInit == Init => OD!Init
  BY ConstantsOK DEF Init, OD!Init, Delivered, NoMsg

\* Every step of a block or of main is a step of OrderedDelivery, or changes
\* none of its variables.
LEMMA RefinesStep == IInv /\ [Next]_vars => [OD!Next]_(OD!avars)
  <1> SUFFICES ASSUME IInv, [Next]_vars PROVE OD!Next \/ UNCHANGED OD!avars
    OBVIOUS
  <1> USE ConstantsOK DEF IInv, TypeOK, Goto, blocks, main, NoMsg, Delivered, OD!avars
  <1>1. ASSUME NEW i \in Slots, MakeFile(i) \/ IgnoreFile(i) PROVE OD!Next
    <2>1. OD!Parse(i)
      BY <1>1 DEF MakeFile, IgnoreFile, BlockInv, OD!Parse, Slots, NoFile
    <2> QED BY <2>1 DEF OD!Next, OD!Files, Slots
  <1>2. ASSUME NEW i \in Slots, MakeFileIgnored(i) \/ TestFirstError(i) \/ ReportError(i)
        PROVE  UNCHANGED OD!avars
    BY <1>2 DEF MakeFileIgnored, TestFirstError, ReportError
  <1>3. ASSUME NEW i \in Slots, MakeFileThrows(i) PROVE OD!Next
    BY <1>3 DEF MakeFileThrows, OD!Next, OD!Fail
  <1>4. CASE ApplyReturns
    BY <1>4 DEF ApplyReturns, ErrorNotLost, OD!Next, OD!Throw, NoError
  <1>5. CASE MainTake
    BY <1>5 DEF MainTake, MainInv, ErrorNotLost, OD!Next, OD!Deliver
  <1>6. CASE MainConsume
    BY <1>6 DEF MainConsume, OD!Next, OD!Fail, OD!Throw
  <1>7. CASE MainThrow
    BY <1>7 DEF MainThrow, OD!Next, OD!Throw
  <1>8. CASE MainDone
    BY <1>8 DEF MainDone, MainInv, ErrorNotLost, OD!Next, OD!Finish
  <1>9. CASE UNCHANGED vars
    BY <1>9 DEF vars
  <1> QED BY <1>1, <1>2, <1>3, <1>4, <1>5, <1>6, <1>7, <1>8, <1>9 DEF Next, MainNext, Block

\* Whatever the order and the interleaving of the blocks, the resolver gets the
\* files in command line order, each fully parsed, and none if one failed.
THEOREM DispatchDeliversInOrder == Spec => DeliversInOrder
  BY RefinesInit, RefinesStep, Invariance, PTL DEF Spec, DeliversInOrder, OD!Spec
=============================================================================
