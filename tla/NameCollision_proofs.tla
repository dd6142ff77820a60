------------------------ MODULE NameCollision_proofs ------------------------
(* Proofs about NameCollision, for any number of atoms with any attributes. *)
EXTENDS NameCollision, TLAPS

\* Attributes of an atom have their types.
LEMMA AttrOK ==
  ASSUME TypeOK, NEW a \in Atoms
  PROVE  attr[a] \in AttributeType
  BY ConstantsOK DEF TypeOK

\* Being better is negatively transitive: what is not better than y is not better
\* than anything y is not better than.
LEMMA NotBetterTransitive ==
  ASSUME TypeOK,
         NEW x \in Atoms, NEW y \in Atoms, NEW z \in Atoms,
         ~Is(x, "absolute"), ~Is(y, "absolute"), ~Is(z, "absolute"),
         ~Better(x, y), ~Better(y, z)
  PROVE  ~Better(x, z)
  <1>1. attr[x] \in AttributeType /\ attr[y] \in AttributeType /\ attr[z] \in AttributeType
    BY AttrOK
  <1>2. commons \in Commons
    BY DEF TypeOK
  <1>3. Class(x) <= Class(y) /\ Class(y) <= Class(z)
    BY <1>1 DEF Better, Class, Is, IsWeak, AttributeType
  <1>4. Class(x) \in Int /\ Class(y) \in Int /\ Class(z) \in Int
    BY DEF Class
  <1>5. CASE Class(x) # Class(z)
    BY <1>1, <1>2, <1>3, <1>4, <1>5 DEF Better, Class, Is, IsWeak, AttributeType, Commons
  <1>6. CASE Class(x) = Class(z)
    <2>1. Class(x) = Class(y) /\ Class(y) = Class(z)
      BY <1>3, <1>4, <1>6
    <2>2. ASSUME Class(x) = 4, BetterWeak(x, z) PROVE FALSE
      <3>1. ~BetterWeak(x, y) /\ ~BetterWeak(y, z)
        BY <2>1, <2>2 DEF Better
      <3> QED BY <1>1, <2>2, <3>1 DEF BetterWeak, AttributeType
    <2>3. ASSUME Is(x, "tentative"), Is(z, "tentative"), attr[x].size > attr[z].size PROVE FALSE
      <3>1. Is(y, "tentative")
        BY <1>1, <1>2, <2>1, <2>3 DEF Class, Is, IsWeak, AttributeType, Commons
      <3> QED BY <1>1, <2>3, <3>1 DEF Better, AttributeType
    <2> QED BY <1>4, <1>6, <2>2, <2>3 DEF Better
  <1> QED BY <1>5, <1>6

\* NameCollisionResolution chooses one of its two atoms, and never one that the
\* other is better than.
LEMMA ChoiceIsBest ==
  ASSUME TypeOK,
         NEW a \in Atoms, NEW b \in Atoms, NEW d, NEW c \in Choices(a, b, d),
         ~Throws(a, b)
  PROVE  /\ c \in {a, b}
         /\ ~Is(a, "absolute") /\ ~Is(b, "absolute") => ~Better(a, c) /\ ~Better(b, c)
  <1>1. attr[a] \in AttributeType /\ attr[b] \in AttributeType
    BY AttrOK
  <1>2. commons \in Commons
    BY DEF TypeOK
  <1>3. c \in {a, b}
    BY DEF Choices, CommonsChoice, LargerSize, LowerOrdinal, HigherOrdinal, BetweenRegular,
           BetweenWeak, GreaterAlignment
  <1>4. ASSUME ~Is(a, "absolute"), ~Is(b, "absolute") PROVE ~Better(a, c) /\ ~Better(b, c)
    <2>1. CASE Is(a, "regular") /\ Is(b, "regular")
      <3>1. c \in BetweenRegular(a, b, d)
        BY <2>1 DEF Choices, Is
      <3>2. CASE IsWeak(a) /\ IsWeak(b)
        <4>1. c = BetweenWeak(a, b)
          BY <3>1, <3>2 DEF BetweenRegular
        <4>2. ~BetterWeak(a, c) /\ ~BetterWeak(b, c)
          <5>1. ~BetterWeak(a, a) /\ ~BetterWeak(b, b)
            BY <1>1 DEF BetterWeak, AttributeType
          <5>2. BetweenWeak(a, b) = a \/ ~BetterWeak(a, b)
            BY <1>1 DEF BetweenWeak, GreaterAlignment, BetterWeak, AttributeType
          <5>3. BetweenWeak(a, b) = b \/ ~BetterWeak(b, a)
            BY <1>1 DEF BetweenWeak, GreaterAlignment, BetterWeak, AttributeType
          <5> QED BY <1>3, <4>1, <5>1, <5>2, <5>3
        <4>3. Class(a) = 4 /\ Class(b) = 4
          BY <2>1, <3>2 DEF Class
        <4>4. Class(c) = 4
          BY <1>3, <4>3
        <4>5. ~Is(a, "tentative") /\ ~Is(b, "tentative")
          BY <2>1 DEF Is
        <4> QED BY <4>2, <4>3, <4>4, <4>5 DEF Better
      <3>3. CASE ~(IsWeak(a) /\ IsWeak(b))
        BY <1>1, <2>1, <3>1, <3>3 DEF BetweenRegular, LowerOrdinal, Better, Class, Is, AttributeType
      <3> QED BY <3>2, <3>3
    <2>2. CASE Is(a, "tentative") /\ Is(b, "tentative")
      <3>1. c = LargerSize(a, b)
        BY <2>2 DEF Choices, Is
      <3>2. Class(a) = Class(b) /\ Class(a) \in {0, 3}
        BY <2>2 DEF Class, Is
      <3>3. Class(c) = Class(a)
        BY <1>3, <3>2
      <3>4. attr[a].size \in Int /\ attr[b].size \in Int
        BY <1>1 DEF AttributeType
      <3>5. ~(attr[a].size > attr[c].size) /\ ~(attr[b].size > attr[c].size)
        BY <3>1, <3>4 DEF LargerSize, LowerOrdinal
      <3> QED BY <3>2, <3>3, <3>5 DEF Better
    <2>3. CASE attr[a].definition # attr[b].definition
      <3>1. ASSUME NEW x \in Atoms, NEW y \in Atoms, Class(y) \in Int, Class(x) \in Int,
                   Class(x) < Class(y), ~(Is(x, "tentative") /\ Is(y, "tentative"))
            PROVE  ~Better(x, y)
        BY <3>1 DEF Better
      <3>2. Class(a) \in Int /\ Class(b) \in Int
        BY DEF Class
      <3>3. ~Better(a, a) /\ ~Better(b, b)
        BY <1>1, <3>2 DEF Better, BetterWeak, AttributeType
      <3>4. \/ c = a /\ Class(b) < Class(a)
            \/ c = b /\ Class(a) < Class(b)
        <4>1. CASE Is(a, "regular")
          BY <1>1, <1>2, <1>4, <2>3, <4>1 DEF Choices, Class, Is, AttributeType
        <4>2. CASE Is(b, "regular")
          BY <1>1, <1>2, <1>4, <2>3, <4>2 DEF Choices, Class, Is, AttributeType
        <4>3. CASE Is(a, "tentative") /\ Is(b, "proxy")
          BY <1>2, <4>3 DEF Choices, CommonsChoice, Throws, Class, Is, Commons
        <4>4. CASE Is(a, "proxy") /\ Is(b, "tentative")
          BY <1>2, <4>4 DEF Choices, CommonsChoice, Throws, Class, Is, Commons
        <4> QED BY <1>1, <1>4, <2>3, <4>1, <4>2, <4>3, <4>4 DEF Is, AttributeType
      <3> QED BY <2>3, <3>1, <3>2, <3>3, <3>4 DEF Is
    <2>4. CASE Is(a, "proxy") /\ Is(b, "proxy")
      BY <1>1, <1>2, <2>4 DEF Choices, Throws, Better, Class, Is, IsWeak, AttributeType, Commons
    <2> QED BY <1>1, <1>4, <2>1, <2>2, <2>3, <2>4 DEF Is, AttributeType
  <1> QED BY <1>3, <1>4

\* The invariant holds before the first atom is added.
LEMMA InitIInv == Init => IInv
  BY ConstantsOK DEF Init, IInv, TypeOK, OneSurvivor, BestKept, DuplicatesNoticed, Commons, Strips

\* Adding an atom keeps the types, and one survivor.
LEMMA AddKeepsOne ==
  ASSUME IInv, NEW a \in Atoms, Add(a)
  PROVE  /\ TypeOK' /\ OneSurvivor'
         /\ slot' # NoAtom /\ added' # {}
         /\ (strip = "no" => warnings = {})'
  <1> USE ConstantsOK
  <1>1. CASE slot = NoAtom
    BY <1>1 DEF IInv, TypeOK, OneSurvivor, Add, AddFirst, options
  <1>2. CASE slot # NoAtom /\ Throws(a, slot)
    BY <1>2 DEF IInv, TypeOK, OneSurvivor, Add, AddCollision, AddThrows, options
  <1>3. CASE slot # NoAtom /\ ~Throws(a, slot)
    <2>1. slot \in Atoms /\ slot \in added /\ AddCollision(a) /\ outcome = "running"
      BY <1>3 DEF IInv, TypeOK, OneSurvivor, Add, AddThrows
    <2>2. PICK c \in Choices(a, slot, Duplicates) : Replace(a, c)
      BY <2>1 DEF AddCollision
    <2>3. c \in {a, slot}
      BY <1>3, <2>1, <2>2, ChoiceIsBest DEF IInv
    <2>4. errors' \subseteq Atoms /\ warnings' \subseteq Atoms
      BY <2>1 DEF IInv, TypeOK, AddCollision, Listed
    <2>5. (strip = "no" => warnings = {})'
      BY <2>1 DEF IInv, Add, AddCollision, Duplicates, options
    <2> QED BY <2>1, <2>2, <2>3, <2>4, <2>5
            DEF IInv, TypeOK, OneSurvivor, Add, AddCollision, Replace, MarkCoalescedAway,
                options
  <1> QED BY <1>1, <1>2, <1>3

\* Adding an atom leaves the best one in the slot.
LEMMA AddKeepsBest ==
  ASSUME IInv, NEW a \in Atoms, Add(a)
  PROVE  BestKept'
  <1> SUFFICES ASSUME outcome' # "conflict", \A x \in added' : ~Is(x, "absolute")',
                      NEW x \in added'
               PROVE  ~Better(x, slot)'
    BY DEF BestKept
  <1> USE ConstantsOK
  <1>1. attr' = attr /\ commons' = commons /\ added' = added \cup {a} /\ outcome = "running"
    BY DEF Add, options
  <1>2. TypeOK /\ x \in Atoms /\ added \subseteq Atoms
    BY <1>1 DEF IInv, TypeOK
  <1>3. \A y \in added \cup {a} : ~Is(y, "absolute")
    BY <1>1 DEF Is
  <1>4. PICK s : s = slot'
    OBVIOUS
  <1>5. ~Better(x, s)
    <2>1. CASE slot = NoAtom
      <3>1. s = a /\ x = a
        BY <1>1, <1>4, <2>1 DEF IInv, Add, AddFirst
      <3>2. attr[a] \in AttributeType /\ Class(a) \in Int
        BY <1>2, AttrOK DEF Class
      <3> QED BY <3>1, <3>2 DEF Better, BetterWeak, AttributeType
    <2>2. CASE slot # NoAtom
      <3>1. slot \in added /\ AddCollision(a) /\ ~Throws(a, slot)
        BY <1>1, <2>2 DEF IInv, OneSurvivor, Add, AddCollision, AddThrows
      <3>2. PICK c \in Choices(a, slot, Duplicates) : Replace(a, c)
        BY <3>1 DEF AddCollision
      <3>3. s = c
        BY <1>4, <3>2 DEF Replace, MarkCoalescedAway
      <3>4. ~Better(a, s) /\ ~Better(slot, s) /\ s \in {a, slot}
        BY <1>2, <1>3, <3>1, <3>2, <3>3, ChoiceIsBest
      <3>5. CASE x = a
        BY <3>4, <3>5
      <3>6. CASE x \in added
        <4>1. ~Better(x, slot)
          BY <1>1, <1>3, <3>6 DEF IInv, BestKept
        <4> QED BY <1>2, <1>3, <3>1, <3>4, <3>6, <4>1, NotBetterTransitive
      <3> QED BY <1>1, <3>5, <3>6
    <2> QED BY <2>1, <2>2
  <1> QED BY <1>1, <1>4, <1>5 DEF Better, BetterWeak, Class, Is, IsWeak

\* Adding an atom notices a strong definition next to another.
LEMMA AddKeepsNoticed ==
  ASSUME IInv, NEW a \in Atoms, Add(a)
  PROVE  DuplicatesNoticed'
  <1> SUFFICES ASSUME outcome' # "conflict",
                      \A c \in added' : (attr[c].header = "no" /\ ~Is(c, "absolute"))',
                      NEW x \in added', NEW y \in added', x # y, BothStrong(x, y)'
               PROVE  /\ outcome' # "linked"
                      /\ strip # "allowDeadDuplicates" => slot' \in errors' \cup warnings'
    BY DEF DuplicatesNoticed, Add, options
  <1> USE ConstantsOK
  <1>1. attr' = attr /\ strip' = strip /\ added' = added \cup {a} /\ outcome = "running"
    BY DEF Add, options
  <1>2. \A c \in added \cup {a} : attr[c].header = "no" /\ ~Is(c, "absolute")
    BY <1>1 DEF Is
  <1>3. BothStrong(x, y)
    BY <1>1 DEF BothStrong, Is, IsWeak
  <1>4. slot # NoAtom
    BY <1>1 DEF IInv
  <1>5. slot \in added /\ AddCollision(a) /\ ~Throws(a, slot) /\ slot \in Atoms
    BY <1>1, <1>4 DEF IInv, TypeOK, OneSurvivor, Add, AddCollision, AddThrows
  <1>6. PICK c \in Choices(a, slot, Duplicates) : Replace(a, c)
    BY <1>5 DEF AddCollision
  <1>7. c \in {a, slot} /\ slot' = c
    BY <1>5, <1>6, ChoiceIsBest DEF IInv, Replace
  <1>8. PICK z \in added : z \in {x, y}
    BY <1>1
  <1>9. Is(z, "regular") /\ ~IsWeak(z) /\ ~Better(z, slot)
    BY <1>1, <1>2, <1>3, <1>8 DEF BothStrong, IInv, BestKept
  <1>10. Is(slot, "regular") /\ ~IsWeak(slot) /\ attr[slot].header = "no"
    <2>1. attr[slot] \in AttributeType
      BY <1>5, AttrOK DEF IInv
    <2>2. commons \in Commons
      BY DEF IInv, TypeOK
    <2>3. ~(Class(z) > Class(slot)) /\ Class(z) = 5
      BY <1>9 DEF Better, Class
    <2> QED BY <1>2, <1>5, <2>1, <2>2, <2>3 DEF Class, Is, IsWeak, AttributeType, Commons
  <1>11. strip # "allowDeadDuplicates" => Duplicates \in {"error", "warning"}
    BY DEF Duplicates
  <1>12. CASE x \in added /\ y \in added
    <2>1. strip # "allowDeadDuplicates" => slot \in errors \cup warnings
      BY <1>1, <1>2, <1>3, <1>12 DEF IInv, DuplicatesNoticed
    <2>2. errors \cup warnings \subseteq errors' \cup warnings'
      BY <1>5 DEF AddCollision, Listed
    <2>3. CASE c = slot
      BY <1>1, <1>5, <1>7, <2>1, <2>2, <2>3 DEF AddCollision
    <2>4. CASE c = a /\ BothStrong(a, slot)
      BY <1>1, <1>5, <1>7, <1>11, <2>4 DEF AddCollision, Listed, IsDuplicate
    <2>5. CASE c = a /\ c # slot /\ ~BothStrong(a, slot)
      <3>1. ~Better(slot, a)
        BY <1>2, <1>5, <1>6, <2>5, ChoiceIsBest DEF IInv
      <3>2. attr[a] \in AttributeType /\ commons \in Commons
        BY AttrOK DEF IInv, TypeOK
      <3>3. ~(Class(slot) > Class(a)) /\ Class(slot) = 5
        BY <1>10, <3>1 DEF Better, Class
      <3>4. Is(a, "regular") /\ ~IsWeak(a)
        BY <1>2, <3>2, <3>3 DEF Class, Is, IsWeak, AttributeType, Commons
      <3> QED BY <1>2, <1>10, <2>5, <3>4 DEF BothStrong
    <2> QED BY <1>7, <2>3, <2>4, <2>5
  <1>13. CASE x = a \/ y = a
    <2>1. BothStrong(a, slot)
      BY <1>3, <1>10, <1>13 DEF BothStrong
    <2> QED BY <1>1, <1>5, <1>7, <1>11, <2>1, Zenon DEF AddCollision, Listed, IsDuplicate
  <1> QED BY <1>1, <1>12, <1>13

\* The steps that add nothing keep the invariant.
LEMMA OtherSteps ==
  ASSUME IInv, InitialFilesDone \/ CheckDuplicateSymbols \/ UNCHANGED vars
  PROVE  IInv'
  <1>1. /\ UNCHANGED <<attr, commons, strip, slot, added, coalesced, errors, warnings>>
        /\ outcome' = "conflict" => outcome = "conflict"
    BY DEF InitialFilesDone, CheckDuplicateSymbols, vars, options
  <1>2. TypeOK'
    BY <1>1 DEF IInv, TypeOK, InitialFilesDone, CheckDuplicateSymbols, vars
  <1>3. OneSurvivor' /\ (slot = NoAtom <=> added = {})' /\ (strip = "no" => warnings = {})'
    BY <1>1 DEF IInv, OneSurvivor, InitialFilesDone, CheckDuplicateSymbols, vars
  <1>4. outcome' # "conflict" => outcome # "conflict"
    BY DEF InitialFilesDone, CheckDuplicateSymbols, vars
  <1>5. BestKept'
    <2>1. \A x : Is(x, "absolute")' <=> Is(x, "absolute")
      BY <1>1 DEF Is
    <2>2. \A x, y : BetterWeak(x, y)' <=> BetterWeak(x, y)
      BY <1>1 DEF BetterWeak
    <2>3. \A x : Class(x)' = Class(x)
      BY <1>1 DEF Class, Is, IsWeak
    <2>4. \A x, y : Better(x, y)' <=> Better(x, y)
      BY <1>1, <2>2, <2>3 DEF Better, Is
    <2> QED BY <1>1, <1>4, <2>1, <2>4 DEF IInv, BestKept
  <1>6. DuplicatesNoticed'
    <2>1. strip = "no" /\ outcome' = "linked" /\ outcome # "linked" => errors = {}
      BY DEF InitialFilesDone, CheckDuplicateSymbols, vars
    <2> SUFFICES ASSUME outcome' # "conflict",
                        \A c \in added : attr[c].header = "no" /\ ~Is(c, "absolute"),
                        NEW x \in added, NEW y \in added, x # y, BothStrong(x, y)
                 PROVE  /\ strip = "no" => outcome' # "linked"
                        /\ strip # "allowDeadDuplicates" => slot \in errors \cup warnings
      BY <1>1 DEF DuplicatesNoticed, BothStrong, Is, IsWeak
    <2>2. /\ strip = "no" => outcome # "linked"
          /\ strip # "allowDeadDuplicates" => slot \in errors \cup warnings
      BY <1>4 DEF IInv, DuplicatesNoticed
    <2> QED BY <2>1, <2>2 DEF IInv
  <1> QED BY <1>2, <1>3, <1>5, <1>6 DEF IInv

\* The inductive invariant holds of every behaviour of addByName.
THEOREM Invariance == Spec => []IInv
  <1>1. IInv /\ [Next]_vars => IInv'
    <2> SUFFICES ASSUME IInv, [Next]_vars PROVE IInv'
      OBVIOUS
    <2>1. ASSUME NEW a \in Atoms, Add(a) PROVE IInv'
      BY <2>1, AddKeepsOne, AddKeepsBest, AddKeepsNoticed DEF IInv
    <2> QED BY <2>1, OtherSteps DEF Next
  <1> QED BY <1>1, InitIInv, PTL DEF Spec

\* Type correctness of the symbol table entry and its lists.
THEOREM TypeCorrect == Spec => []TypeOK
  BY Invariance, PTL DEF IInv

\* Of all atoms with a name exactly the one in the slot is not coalesced away.
THEOREM OneAtomSurvives == Spec => []OneSurvivor
  BY Invariance, PTL DEF IInv

\* Without absolute symbols no order of additions leaves a worse atom in the slot.
THEOREM BestAtomSurvives == Spec => []BestKept
  BY Invariance, PTL DEF IInv

\* Two strong definitions of a name are noticed, in whatever order they come.
THEOREM DuplicatesAreNoticed == Spec => []DuplicatesNoticed
  BY Invariance, PTL DEF IInv
=============================================================================
