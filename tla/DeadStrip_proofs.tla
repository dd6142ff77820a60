-------------------------- MODULE DeadStrip_proofs --------------------------
(***************************************************************************)
(* Proofs about DeadStrip for every set of atoms and every graph on it.    *)
(***************************************************************************)
EXTENDS DeadStrip, SequenceTheorems, TLAPS

\* What a push does to the sequence of active calls.
LEMMA Push == ASSUME NEW S, NEW s \in Seq(S), NEW a \in S
              PROVE  /\ Append(s, a) \in Seq(S)
                     /\ Len(Append(s, a)) = Len(s) + 1
                     /\ \A i \in 1 .. Len(s) : Append(s, a)[i] = s[i]
                     /\ Append(s, a)[Len(s) + 1] = a
  OBVIOUS

\* What a pop does to the sequence of active calls.
LEMMA Pop == ASSUME NEW S, NEW s \in Seq(S), s # <<>>
             PROVE  /\ Len(s) \in Nat \ {0}
                    /\ SubSeq(s, 1, Len(s) - 1) \in Seq(S)
                    /\ Len(SubSeq(s, 1, Len(s) - 1)) = Len(s) - 1
                    /\ \A i \in 1 .. Len(s) - 1 : SubSeq(s, 1, Len(s) - 1)[i] = s[i]
  <1>1. Len(s) \in Nat \ {0} /\ \A i \in 1 .. Len(s) - 1 : s[i] \in S
    BY EmptySeq
  <1> DEFINE n == Len(s) - 1
  <1>2. n \in Nat
    BY <1>1
  <1> HIDE DEF n
  <1>3. /\ SubSeq(s, 1, n) \in Seq(S)
        /\ Len(SubSeq(s, 1, n)) = IF 1 <= n THEN n - 1 + 1 ELSE 0
        /\ \A i \in 1 .. n - 1 + 1 : SubSeq(s, 1, n)[i] = s[1 + i - 1]
    BY <1>1, <1>2, SubSeqProperties, 1 \in Int, n \in Int DEF n
  <1>4. Len(SubSeq(s, 1, n)) = n /\ \A i \in 1 .. n : SubSeq(s, 1, n)[i] = s[i]
    BY <1>2, <1>3
  <1> QED BY <1>1, <1>3, <1>4, Zenon DEF n

\* The graphs to start from are graphs on the given atoms.
LEMMA ChoicesOK == ASSUME NEW A \in SUBSET Atoms
                   PROVE  /\ \A f \in Fixups(A) : /\ f \in [Atoms -> SUBSET (Atoms \cup {NoAtom})]
                                                  /\ \A a \in Atoms : f[a] \subseteq A \cup {NoAtom}
                          /\ \A f \in OneFixup(A) : /\ f \in [Atoms -> SUBSET Atoms]
                                                    /\ \A a \in Atoms : f[a] \subseteq A
                          /\ \A s \in Lists(A) : /\ s \in Seq(Atoms)
                                                 /\ \A i \in 1 .. Len(s) : s[i] \in A
  <1>1. ASSUME NEW f \in Fixups(A)
        PROVE  /\ f \in [Atoms -> SUBSET (Atoms \cup {NoAtom})]
               /\ \A a \in Atoms : f[a] \subseteq A \cup {NoAtom}
    BY <1>1, Zenon DEF Fixups
  <1>2. ASSUME NEW f \in OneFixup(A)
        PROVE  /\ f \in [Atoms -> SUBSET Atoms]
               /\ \A a \in Atoms : f[a] \subseteq A
    BY <1>2 DEF OneFixup
  <1>3. ASSUME NEW s \in Lists(A)
        PROVE  /\ s \in Seq(Atoms)
               /\ \A i \in 1 .. Len(s) : s[i] \in A
    <2>1. PICK n \in 0 .. MaxSupports[bitcode] : s \in [1 .. n -> A]
      BY <1>3, Zenon DEF Lists
    <2>2. n \in Nat
      BY <2>1
    <2> QED BY <2>1, <2>2
  <1> QED BY <1>1, <1>2, <1>3, Zenon

\* Initially nothing is marked.
LEMMA InitIInv == Init => IInv
  <1> SUFFICES ASSUME Init PROVE IInv
    BY Zenon
  <1>1. /\ refs \in [Atoms -> SUBSET (Atoms \cup {NoAtom})]
        /\ \A a \in Atoms : refs[a] \subseteq atoms \cup {NoAtom}
        /\ otherRefs \in [Atoms -> SUBSET Atoms]
        /\ \A a \in Atoms : otherRefs[a] \subseteq atoms
        /\ supports \in Seq(Atoms)
        /\ \A i \in 1 .. Len(supports) : supports[i] \in atoms
    BY ChoicesOK, Zenon DEF Init
  <1>2. combinable \subseteq atoms /\ bitcode \in {"none", "input"}
    BY ConstantsOK, Zenon DEF Init
  <1>3. TypeOK
    BY <1>1, <1>2 DEF Init, TypeOK
  <1>4. GraphInv /\ MarkInv
    BY <1>1, <1>2, Zenon DEF Init, GraphInv, MarkInv
  <1>5. StackInv
    BY DEF Init, StackInv, RecursionBounded
  <1>6. OnlyNeededLive
    BY Zenon DEF Init, OnlyNeededLive
  <1> QED BY <1>3, <1>4, <1>5, <1>6, Zenon DEF IInv
-----------------------------------------------------------------------------
\* A call of markLive on an atom of _atoms that must be live keeps what is known
\* of the marks; lf is left after the caller took the fixup off its list.
LEMMA CallStep ==
  ASSUME IInv, Marking, NEW a \in atoms,
         NEW lf \in [Atoms -> SUBSET (Atoms \cup {NoAtom})],
         \A b \in Atoms : lf[b] \subseteq left[b] /\ left[b] \ lf[b] \subseteq {a},
         \A S \in SUBSET Atoms :
           roots \subseteq S /\ Closed(S) /\ SupportClosed(S) => a \in S,
         Call(a, lf), UNCHANGED <<graph, table>>, phase' = phase
  PROVE  /\ live' \subseteq Atoms /\ live \cup {a} = live'
         /\ stack' \in Seq(Atoms)
         /\ left' \in [Atoms -> SUBSET (Atoms \cup {NoAtom})]
         /\ GraphInv' /\ StackInv' /\ OnlyNeededLive'
         /\ \A b \in Atoms : left'[b] \subseteq refs'[b]
         /\ \A b \in live' \cap atoms' :
              (refs'[b] \ left'[b]) \ {NoAtom} \subseteq live' \cap atoms'
  <1> USE DEF graph, table
  <1>0. /\ TypeOK /\ GraphInv /\ StackInv /\ MarkInv /\ OnlyNeededLive
        /\ a \in Atoms /\ Marking' /\ phase # "reset" /\ phase # "swept"
    BY Zenon DEF IInv, TypeOK, Marking
  <1>1. live' = live \cup {a}
    BY Zenon DEF Call
  <1>2. live' \subseteq Atoms
    BY <1>0, <1>1, Zenon DEF TypeOK
  <1>3. GraphInv'
    BY <1>0, Zenon DEF GraphInv
  <1>4. OnlyNeededLive'
    <2> SUFFICES ASSUME NEW S \in SUBSET Atoms, roots' \subseteq S, Closed(S)', SupportClosed(S)'
                 PROVE  live' \cap atoms' \subseteq S
      BY Zenon DEF OnlyNeededLive
    <2>1. Closed(S) /\ SupportClosed(S)
      BY Zenon DEF Closed, SupportClosed
    <2> QED BY <1>0, <1>1, <2>1, Zenon DEF OnlyNeededLive
  <1>5. CASE a \in live
    <2>1. left' = lf /\ stack' = stack /\ live' = live
      BY <1>5, Zenon DEF Call
    <2>2. StackInv'
      BY <1>0, <2>1 DEF StackInv, RecursionBounded, OnStack, Marking
    <2>3. \A b \in Atoms : left'[b] \subseteq refs'[b]
      BY <1>0, <2>1, Zenon DEF MarkInv
    <2>4. \A b \in live' \cap atoms' :
            (refs'[b] \ left'[b]) \ {NoAtom} \subseteq live' \cap atoms'
      BY <1>0, <1>5, <2>1, ZenonT(40) DEF MarkInv, TypeOK
    <2> QED BY <1>0, <1>1, <1>2, <1>3, <1>4, <2>1, <2>2, <2>3, <2>4, Zenon DEF TypeOK
  <1>6. CASE a \notin live
    <2>1. /\ left' = [lf EXCEPT ![a] = refs[a]]
          /\ stack' = Append(stack, a)
      BY <1>6, Zenon DEF Call
    <2>2. left' \in [Atoms -> SUBSET (Atoms \cup {NoAtom})]
      BY <1>0, <2>1, Zenon DEF TypeOK
    <2>3. /\ stack' \in Seq(Atoms)
          /\ Len(stack) \in Nat
          /\ Len(stack') = Len(stack) + 1
          /\ \A i \in 1 .. Len(stack) : stack'[i] = stack[i]
          /\ stack'[Len(stack) + 1] = a
      BY <1>0, <2>1, Push DEF TypeOK
    <2>4. StackInv'
      <3>1. \A i \in 1 .. Len(stack') : stack'[i] \in live' \cap atoms'
        BY <1>0, <1>1, <2>3 DEF StackInv
      <3>2. RecursionBounded'
        BY <1>0, <1>6, <2>3 DEF StackInv, RecursionBounded
      <3>3. ASSUME NEW b \in Atoms, left'[b] # {} PROVE OnStack(b)'
        <4>1. CASE b = a
          BY <2>3, <4>1 DEF OnStack
        <4>2. CASE b # a
          <5>1. left[b] # {}
            BY <2>1, <3>3, <4>2, Zenon
          <5>2. PICK i \in 1 .. Len(stack) : stack[i] = b
            BY <1>0, <5>1, Zenon DEF StackInv, OnStack
          <5> QED BY <2>3, <5>2 DEF OnStack
        <4> QED BY <4>1, <4>2, Zenon
      <3> QED BY <1>0, <3>1, <3>2, <3>3, Zenon DEF StackInv
    <2>5. \A b \in Atoms : left'[b] \subseteq refs'[b]
      BY <1>0, <2>1, Zenon DEF MarkInv
    <2>6. ASSUME NEW b \in live' \cap atoms'
          PROVE  (refs'[b] \ left'[b]) \ {NoAtom} \subseteq live' \cap atoms'
      <3>1. CASE b = a
        BY <1>0, <2>1, <3>1, Zenon
      <3>2. CASE b # a
        <4>1. b \in live \cap atoms /\ b \in Atoms /\ left'[b] = lf[b]
          BY <1>0, <1>1, <2>1, <3>2, Zenon DEF TypeOK
        <4>2. (refs[b] \ left[b]) \ {NoAtom} \subseteq live \cap atoms
          BY <1>0, <4>1, Zenon DEF MarkInv
        <4> QED BY <1>1, <4>1, <4>2, Zenon
      <3> QED BY <3>1, <3>2, Zenon
    <2> QED BY <1>1, <1>2, <1>3, <1>4, <2>2, <2>3, <2>4, <2>5, <2>6, Zenon
  <1> QED BY <1>5, <1>6, Zenon

\* Following one fixup of the innermost call keeps the invariant.
LEMMA VisitStep == ASSUME IInv, NEW t \in Atoms \cup {NoAtom}, VisitFixup(t) PROVE IInv'
  <1> USE DEF graph, table, Idle, Top
  <1>0. TypeOK /\ GraphInv /\ StackInv /\ MarkInv /\ OnlyNeededLive
    BY Zenon DEF IInv
  <1>1. /\ Marking /\ phase # "reset" /\ phase # "swept"
        /\ UNCHANGED <<graph, table, rootsLeft, next, phase>>
    BY <1>0, Zenon DEF VisitFixup, StackInv, Marking
  <1>2. Len(stack) \in 1 .. Len(stack) /\ Top \in live \cap atoms /\ Top \in Atoms
    BY <1>0, Pop DEF VisitFixup, StackInv, TypeOK
  <1>3. Visited(t) \in [Atoms -> SUBSET (Atoms \cup {NoAtom})]
    BY <1>0, Zenon DEF Visited, TypeOK
  <1>4. \A b \in Atoms : Visited(t)[b] \subseteq left[b] /\ left[b] \ Visited(t)[b] \subseteq {t}
    BY <1>0, <1>2, Zenon DEF Visited, TypeOK
  <1>5. CASE t = NoAtom
    <2>1. left' = Visited(t) /\ UNCHANGED <<live, stack>>
      BY <1>5, Zenon DEF VisitFixup
    <2>2. TypeOK' /\ GraphInv'
      BY <1>0, <1>1, <1>3, <2>1, Zenon DEF TypeOK, GraphInv
    <2>3. StackInv'
      BY <1>0, <1>1, <1>4, <2>1 DEF StackInv, RecursionBounded, OnStack, Marking
    <2>4. MarkInv'
      BY <1>0, <1>1, <1>4, <1>5, <2>1, ZenonT(40) DEF MarkInv, TypeOK
    <2>5. OnlyNeededLive'
      BY <1>0, <1>1, <2>1, Zenon DEF OnlyNeededLive, Closed, SupportClosed
    <2> QED BY <2>2, <2>3, <2>4, <2>5, Zenon DEF IInv
  <1>6. CASE t # NoAtom
    <2>1. Call(t, Visited(t))
      BY <1>6, Zenon DEF VisitFixup
    <2>2. t \in refs[Top] /\ t \in atoms
      BY <1>0, <1>1, <1>2, <1>6, Zenon DEF VisitFixup, MarkInv, GraphInv
    <2>3. ASSUME NEW S \in SUBSET Atoms, roots \subseteq S, Closed(S), SupportClosed(S)
          PROVE  t \in S
      BY <1>0, <1>1, <1>2, <1>6, <2>2, <2>3, Zenon DEF OnlyNeededLive, Closed
    <2>4. /\ live' \subseteq Atoms /\ live \cup {t} = live'
          /\ stack' \in Seq(Atoms)
          /\ left' \in [Atoms -> SUBSET (Atoms \cup {NoAtom})]
          /\ GraphInv' /\ StackInv' /\ OnlyNeededLive'
          /\ \A b \in Atoms : left'[b] \subseteq refs'[b]
          /\ \A b \in live' \cap atoms' :
               (refs'[b] \ left'[b]) \ {NoAtom} \subseteq live' \cap atoms'
      BY <1>1, <1>3, <1>4, <2>1, <2>2, <2>3, CallStep, Zenon
    <2>5. TypeOK'
      BY <1>0, <1>1, <2>4, Zenon DEF TypeOK
    <2>6. MarkInv'
      BY <1>0, <1>1, <2>4, Zenon DEF MarkInv
    <2> QED BY <2>4, <2>5, <2>6, Zenon DEF IInv
  <1> QED BY <1>5, <1>6, Zenon

\* Marking the next root keeps the invariant.
LEMMA RootStep == ASSUME IInv, NEW r \in Atoms, MarkRoot(r) PROVE IInv'
  <1> USE DEF graph, table
  <1>0. TypeOK /\ GraphInv /\ StackInv /\ MarkInv /\ OnlyNeededLive
    BY Zenon DEF IInv
  <1>1. /\ Marking /\ phase = "roots" /\ r \in roots /\ r \in atoms
        /\ UNCHANGED <<graph, table, next, phase>> /\ rootsLeft' = rootsLeft \ {r}
    BY <1>0, Zenon DEF MarkRoot, Marking, MarkInv, GraphInv
  <1>2. left \in [Atoms -> SUBSET (Atoms \cup {NoAtom})]
    BY <1>0, Zenon DEF TypeOK
  <1>3. /\ live' \subseteq Atoms /\ live \cup {r} = live'
        /\ stack' \in Seq(Atoms)
        /\ left' \in [Atoms -> SUBSET (Atoms \cup {NoAtom})]
        /\ GraphInv' /\ StackInv' /\ OnlyNeededLive'
        /\ \A b \in Atoms : left'[b] \subseteq refs'[b]
        /\ \A b \in live' \cap atoms' :
             (refs'[b] \ left'[b]) \ {NoAtom} \subseteq live' \cap atoms'
    BY <1>1, <1>2, CallStep, Zenon DEF MarkRoot
  <1>4. TypeOK'
    BY <1>0, <1>1, <1>3, Zenon DEF TypeOK
  <1>5. MarkInv'
    BY <1>0, <1>1, <1>3, Zenon DEF MarkInv
  <1> QED BY <1>3, <1>4, <1>5, Zenon DEF IInv

\* A step that leaves the active calls alone, and every atom of them live and in
\* the graph, keeps StackInv.
LEMMA StackKept ==
  ASSUME StackInv, stack' = stack, left' = left, ~Marking' => stack = <<>>,
         stack # <<>> => live' = live /\ atoms' = atoms
  PROVE  StackInv'
  <1>1. \A a \in Atoms : OnStack(a)' <=> OnStack(a)
    BY Zenon DEF OnStack
  <1>2. \A a \in Atoms : left'[a] # {} => OnStack(a)'
    BY <1>1, Zenon DEF StackInv
  <1>3. RecursionBounded'
    BY DEF StackInv, RecursionBounded
  <1>4. \A i \in 1 .. Len(stack') : stack'[i] \in live' \cap atoms'
    <2>1. CASE stack = <<>>
      BY <2>1
    <2>2. CASE stack # <<>>
      BY <2>2, Zenon DEF StackInv
    <2> QED BY <2>1, <2>2, Zenon
  <1> QED BY <1>2, <1>3, <1>4, Zenon DEF StackInv

\* Checking one live-if-references-live atom keeps the invariant.
LEMMA SupportStep == ASSUME IInv, CheckSupport PROVE IInv'
  <1> USE DEF graph, table
  <1>0. TypeOK /\ GraphInv /\ StackInv /\ MarkInv /\ OnlyNeededLive
    BY Zenon DEF IInv
  <1>a. PICK a : a = supports[next]
    BY Zenon
  <1>1. /\ Marking /\ phase = "supports" /\ next' \in Nat \ {0}
        /\ UNCHANGED <<graph, table, rootsLeft, phase>>
    BY <1>0 DEF CheckSupport, Marking, TypeOK
  <1>2. CASE AtomHasLiveRef(a)
    <2>1. Call(a, left)
      BY <1>a, <1>2, Zenon DEF CheckSupport
    <2>2. next \in 1 .. Len(supports) /\ a \in atoms /\ a \in Atoms
      BY <1>0, <1>1, <1>a DEF CheckSupport, GraphInv, TypeOK
    <2>3. PICK t \in live : t \in refs[a] \cup otherRefs[a]
      BY <1>2, Zenon DEF AtomHasLiveRef
    <2>4. t \in live \cap atoms
      BY <1>0, <1>1, <2>2, <2>3, ConstantsOK, Zenon DEF GraphInv, TypeOK
    <2>5. ASSUME NEW S \in SUBSET Atoms, roots \subseteq S, Closed(S), SupportClosed(S)
          PROVE  a \in S
      <3>1. t \in S
        BY <1>0, <1>1, <2>4, <2>5, Zenon DEF OnlyNeededLive
      <3> QED BY <1>a, <2>2, <2>3, <2>5, <3>1, Zenon DEF SupportClosed
    <2>6. left \in [Atoms -> SUBSET (Atoms \cup {NoAtom})]
      BY <1>0, Zenon DEF TypeOK
    <2>7. /\ live' \subseteq Atoms /\ live \cup {a} = live'
          /\ stack' \in Seq(Atoms)
          /\ left' \in [Atoms -> SUBSET (Atoms \cup {NoAtom})]
          /\ GraphInv' /\ StackInv' /\ OnlyNeededLive'
          /\ \A b \in Atoms : left'[b] \subseteq refs'[b]
          /\ \A b \in live' \cap atoms' :
               (refs'[b] \ left'[b]) \ {NoAtom} \subseteq live' \cap atoms'
      BY <1>1, <2>1, <2>2, <2>5, <2>6, CallStep, Zenon
    <2>8. TypeOK'
      BY <1>0, <1>1, <2>7, Zenon DEF TypeOK
    <2>9. MarkInv'
      BY <1>0, <1>1, <2>7, Zenon DEF MarkInv
    <2> QED BY <2>7, <2>8, <2>9, Zenon DEF IInv
  <1>3. CASE ~AtomHasLiveRef(a)
    <2>1. UNCHANGED <<live, stack, left>>
      BY <1>a, <1>3, Zenon DEF CheckSupport
    <2>2. TypeOK' /\ GraphInv' /\ MarkInv'
      BY <1>0, <1>1, <2>1, Zenon DEF TypeOK, GraphInv, MarkInv
    <2>3. StackInv'
      <3>1. ~Marking' => stack = <<>>
        BY <1>0, <1>1, Zenon DEF StackInv, Marking
      <3> QED BY <1>0, <1>1, <2>1, <3>1, StackKept, Zenon
    <2>4. OnlyNeededLive'
      BY <1>0, <1>1, <2>1, Zenon DEF OnlyNeededLive, Closed, SupportClosed
    <2> QED BY <2>2, <2>3, <2>4, Zenon DEF IInv
  <1> QED BY <1>2, <1>3, Zenon

\* Returning from a call, passing from the roots to the supports, and the sweep.
LEMMA PlainSteps == ASSUME IInv, Return \/ RootsMarked \/ Sweep PROVE IInv'
  <1> USE DEF graph, table, Idle
  <1>0. TypeOK /\ GraphInv /\ StackInv /\ MarkInv /\ OnlyNeededLive
    BY Zenon DEF IInv
  <1>1. CASE Return
    <2>1. /\ UNCHANGED <<graph, table, live, left, rootsLeft, next, phase>>
          /\ left[Top] = {} /\ stack' = SubSeq(stack, 1, Len(stack) - 1)
      BY <1>1, Zenon DEF Return
    <2>2. /\ Len(stack) \in Nat \ {0}
          /\ stack' \in Seq(Atoms)
          /\ Len(stack') = Len(stack) - 1
          /\ \A i \in 1 .. Len(stack) - 1 : stack'[i] = stack[i]
      BY <1>0, <1>1, <2>1, Pop DEF Return, TypeOK
    <2>3. TypeOK' /\ GraphInv' /\ MarkInv' /\ OnlyNeededLive'
      BY <1>0, <2>1, <2>2, Zenon DEF TypeOK, GraphInv, MarkInv, OnlyNeededLive, Closed, SupportClosed
    <2>4. StackInv'
      <3>1. Marking
        BY <1>0, <1>1, Zenon DEF Return, StackInv
      <3>2. ASSUME NEW b \in Atoms, left'[b] # {} PROVE OnStack(b)'
        <4>1. PICK i \in 1 .. Len(stack) : stack[i] = b
          BY <1>0, <2>1, <3>2, Zenon DEF StackInv, OnStack
        <4>2. i # Len(stack)
          BY <2>1, <3>2, <4>1, Zenon DEF Top
        <4> QED BY <2>2, <4>1, <4>2 DEF OnStack
      <3>3. RecursionBounded' /\ \A i \in 1 .. Len(stack') : stack'[i] \in live' \cap atoms'
        BY <1>0, <2>1, <2>2 DEF StackInv, RecursionBounded
      <3> QED BY <2>1, <3>1, <3>2, <3>3, Zenon DEF StackInv, Marking
    <2> QED BY <2>3, <2>4, Zenon DEF IInv
  <1>2. CASE RootsMarked
    <2>1. /\ UNCHANGED <<graph, table, live, stack, left, rootsLeft, next>>
          /\ phase = "roots" /\ phase' = "supports" /\ rootsLeft = {}
      BY <1>2, Zenon DEF RootsMarked
    <2>2. TypeOK' /\ GraphInv' /\ MarkInv' /\ OnlyNeededLive'
      BY <1>0, <2>1, Zenon DEF TypeOK, GraphInv, MarkInv, OnlyNeededLive, Closed, SupportClosed
    <2>3. StackInv'
      BY <1>0, <2>1, StackKept, Zenon DEF Marking
    <2> QED BY <2>2, <2>3 DEF IInv
  <1>3. CASE Sweep
    <2>1. /\ UNCHANGED <<refs, otherRefs, roots, supports, combinable, bitcode, live, stack,
                         left, rootsLeft, next>>
          /\ phase = "supports" /\ phase' = "swept" /\ stack = <<>>
          /\ atoms' = atoms \cap Kept
          /\ named' = IF bitcode = "input" THEN named \cap live ELSE named
      BY <1>3, Zenon DEF Sweep, RemoveDeadAtoms
    <2>2. live \cap atoms' = live \cap atoms /\ atoms' \subseteq atoms
      BY <2>1, Zenon DEF Kept
    <2>3. TypeOK'
      BY <1>0, <2>1, Zenon DEF TypeOK
    <2>4. GraphInv'
      BY <1>0, <2>1, <2>2, Zenon DEF GraphInv, MarkInv, Kept
    <2>5. MarkInv'
      BY <1>0, <2>1, <2>2, ZenonT(40) DEF MarkInv
    <2>6. OnlyNeededLive'
      BY <1>0, <2>1, <2>2, Zenon DEF OnlyNeededLive, Closed, SupportClosed
    <2>7. StackInv'
      BY <1>0, <2>1, StackKept, Zenon
    <2> QED BY <2>3, <2>4, <2>5, <2>6, <2>7, Zenon DEF IInv
  <1> QED BY <1>1, <1>2, <1>3, Zenon

\* Code generation replaces the graph, and the second run clears the marks.
LEMMA SecondRun == ASSUME IInv, CodeGen \/ Reset PROVE IInv'
  <1> USE DEF graph, table
  <1>0. TypeOK /\ GraphInv /\ StackInv /\ MarkInv /\ OnlyNeededLive
    BY Zenon DEF IInv
  <1>1. CASE CodeGen
    <2>1. /\ phase = "swept" /\ bitcode = "input" /\ phase' = "reset" /\ bitcode' = "compiled"
          /\ UNCHANGED <<live, stack, left, rootsLeft, next>> /\ stack = <<>>
          /\ otherRefs' = [a \in Atoms |-> {}]
      BY <1>0, <1>1, Zenon DEF CodeGen, StackInv, Marking
    <2>2. PICK gone \in SUBSET atoms, new \in SUBSET (Atoms \ (atoms \cup live)) :
            /\ atoms' = (atoms \ gone) \cup new
            /\ refs' \in Fixups((atoms \ gone) \cup new)
            /\ roots' \subseteq (atoms \ gone) \cup new
            /\ supports' \in Lists((atoms \ gone) \cup new)
            /\ named' = (named \ gone) \cup new
            /\ combinable' = combinable \cap ((atoms \ gone) \cup new)
      BY <1>1, Zenon DEF CodeGen
    <2>3. atoms' \in SUBSET Atoms
      BY <1>0, <2>2, Zenon DEF TypeOK
    <2>4. /\ refs' \in [Atoms -> SUBSET (Atoms \cup {NoAtom})]
          /\ \A a \in Atoms : refs'[a] \subseteq atoms' \cup {NoAtom}
          /\ supports' \in Seq(Atoms)
          /\ \A i \in 1 .. Len(supports') : supports'[i] \in atoms'
      BY <2>2, <2>3, ChoicesOK, Zenon
    <2>5. TypeOK'
      BY <1>0, <2>1, <2>2, <2>3, <2>4, Zenon DEF TypeOK
    <2>6. atoms' \ combinable' \subseteq named'
      BY <1>0, <2>1, <2>2, Zenon DEF GraphInv
    <2>7. GraphInv'
      BY <2>1, <2>2, <2>4, <2>6, Zenon DEF GraphInv
    <2>8. StackInv'
      BY <1>0, <2>1, StackKept, Zenon
    <2>9. \A a \in Atoms : left[a] = {}
      BY <1>0, <2>1 DEF StackInv, OnStack
    <2>10. MarkInv' /\ OnlyNeededLive'
      BY <2>1, <2>9, Zenon DEF MarkInv, OnlyNeededLive
    <2> QED BY <2>5, <2>7, <2>8, <2>10, Zenon DEF IInv
  <1>2. CASE Reset
    <2>1. /\ phase = "reset" /\ phase' = "roots" /\ rootsLeft' = roots /\ next' = 1
          /\ UNCHANGED <<graph, table, stack, left>> /\ live' = live \ atoms /\ stack = <<>>
      BY <1>0, <1>2, Zenon DEF Reset, StackInv, Marking
    <2>2. TypeOK' /\ GraphInv' /\ MarkInv' /\ OnlyNeededLive'
      BY <1>0, <2>1 DEF TypeOK, GraphInv, MarkInv, OnlyNeededLive
    <2>3. StackInv'
      BY <1>0, <2>1, StackKept, Zenon
    <2> QED BY <2>2, <2>3, Zenon DEF IInv
  <1> QED BY <1>1, <1>2, Zenon
-----------------------------------------------------------------------------
\* The inductive invariant holds in every reachable state.
THEOREM Invariance == Spec => []IInv
  <1>1. IInv /\ [Next]_vars => IInv'
    <2> SUFFICES ASSUME IInv, [Next]_vars PROVE IInv'
      BY Zenon
    <2>1. CASE UNCHANGED vars
      <3>1. UNCHANGED <<atoms, refs, otherRefs, roots, supports, combinable, named, bitcode,
                        live, stack, left, rootsLeft, next, phase>>
        BY <2>1, Zenon DEF vars, graph, table
      <3>2. TypeOK'
        BY <3>1, Zenon DEF IInv, TypeOK
      <3>3. GraphInv'
        BY <3>1, Zenon DEF IInv, GraphInv
      <3>4. StackInv'
        <4>1. StackInv /\ (~Marking => stack = <<>>)
          BY Zenon DEF IInv, StackInv
        <4> QED BY <3>1, <4>1, StackKept, Zenon DEF Marking
      <3>5. MarkInv'
        BY <3>1, Zenon DEF IInv, MarkInv
      <3>6. OnlyNeededLive'
        BY <3>1, Zenon DEF IInv, OnlyNeededLive, Closed, SupportClosed
      <3> QED BY <3>2, <3>3, <3>4, <3>5, <3>6, Zenon DEF IInv
    <2> QED BY <2>1, RootStep, VisitStep, PlainSteps, SupportStep, SecondRun, Zenon DEF Next
  <1> QED BY InitIInv, <1>1, PTL DEF Spec

\* Type correctness.
THEOREM TypeCorrect == Spec => []TypeOK
  BY Invariance, PTL DEF IInv

\* Dead stripping leaves no live atom with a reference to a removed one.
THEOREM NothingLiveDangles == Spec => []NoDanglingEdges
  <1>1. IInv => NoDanglingEdges
    <2> SUFFICES ASSUME IInv, phase = "swept" PROVE NoDanglingEdges
      BY Zenon DEF NoDanglingEdges
    <2>0. TypeOK /\ GraphInv /\ StackInv /\ MarkInv
      BY Zenon DEF IInv
    <2>1. \A a \in Atoms : left[a] = {}
      BY <2>0 DEF StackInv, OnStack, Marking
    <2> QED BY <2>0, <2>1, Zenon DEF NoDanglingEdges, GraphInv, MarkInv, TypeOK
  <1> QED BY Invariance, <1>1, PTL

\* Dead stripping keeps nothing that the roots and live support do not call for.
THEOREM NothingDeadIsMarked == Spec => []OnlyNeededLive
  BY Invariance, PTL DEF IInv

\* markLive has at most one active call per atom, on every graph, cyclic or not.
THEOREM RecursionIsBounded == Spec => []RecursionBounded
  <1>1. IInv => RecursionBounded
    BY Zenon DEF IInv, StackInv
  <1> QED BY Invariance, <1>1, PTL
=============================================================================
