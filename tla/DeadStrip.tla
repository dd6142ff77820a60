------------------------------ MODULE DeadStrip ------------------------------
(***************************************************************************)
(* -dead_strip in ld64/src/ld/Resolver.cpp: deadStripOptimize marks what   *)
(* the roots reach, then what only has to live because it refers to        *)
(* something live, and removes the other atoms.  When some input is        *)
(* bitcode it runs twice: the first sweep spares what link-time            *)
(* optimization may bring back, code generation then replaces atoms and    *)
(* references, and the second run starts over on the new graph.            *)
(*                                                                         *)
(* Atoms are opaque; a fixup is the atom it leads to once its direct or    *)
(* indirect binding is followed.  markLive is recursive: stack holds the   *)
(* atoms whose calls are active, left the fixups each has still to visit   *)
(* (in any order).  The graph is state, so that every small graph is one   *)
(* initial state and code generation can replace it.                       *)
(***************************************************************************)
EXTENDS Integers, Sequences, FiniteSets

CONSTANTS
  Atoms,        \* every atom that exists at some time
  NoAtom,       \* NULL: the slot of a name nothing defines
  Inputs,       \* the values of bitcode to start from
  MaxFanOut,    \* per value of bitcode, bound on the fixups of an atom
  MaxRoots,     \* bound on the number of roots
  MaxSupports   \* bound on the atoms that are live if what they refer to is

ASSUME ConstantsOK ==
  /\ NoAtom \notin Atoms
  /\ Inputs \subseteq {"none", "input"}
  /\ {MaxFanOut, MaxRoots, MaxSupports} \subseteq [{"none", "input"} -> Nat]

VARIABLES
  atoms,      \* _atoms
  refs,       \* atom -> targets of the fixups that markLive follows
  otherRefs,  \* atom -> targets of its other bound fixups
  roots,      \* what forEachDeadStripRoot calls back for
  supports,   \* dontDeadStripIfReferencesLive, in the order of _atoms
  combinable, \* atoms that combine by content or by references
  named,      \* atoms bound to a name in the symbol table
  bitcode,    \* _haveLLVMObjs: "none", "input" or, once it is compiled, "compiled"
  live,       \* atoms whose live bit is set
  stack,      \* active calls of markLive, the innermost last
  left,       \* per active call: the fixups not visited yet
  rootsLeft,  \* roots not called back for yet
  next,       \* index into supports
  phase       \* "roots", "supports", "swept", "reset"

graph == <<atoms, refs, otherRefs, roots, supports, combinable>>
table == <<named, bitcode>>
vars  == <<graph, table, live, stack, left, rootsLeft, next, phase>>
-----------------------------------------------------------------------------
(* The graphs to start from.                                               *)

Fixups(A) == [Atoms -> {T \in SUBSET (A \cup {NoAtom}) : Cardinality(T) <= MaxFanOut[bitcode]}]

Lists(A) == UNION {{s \in [1 .. n -> A] : \A i, j \in 1 .. n : s[i] = s[j] => i = j}
                     : n \in 0 .. MaxSupports[bitcode]}

\* The bound of otherRefs is one fixup in the whole graph.
OneFixup(A) == {[a \in Atoms |-> IF a = b THEN T ELSE {}] :
                   b \in Atoms, T \in {{}} \cup {{t} : t \in A}}

Init ==
  /\ bitcode \in Inputs
  /\ atoms \in SUBSET Atoms
  /\ refs \in Fixups(atoms)
  /\ otherRefs \in OneFixup(atoms)
  /\ roots \in {R \in SUBSET atoms : Cardinality(R) <= MaxRoots[bitcode]}
  /\ supports \in Lists(atoms)
  /\ combinable \in IF bitcode = "input" THEN SUBSET atoms ELSE {{}}
  /\ named = atoms \ combinable
  /\ live = {}
  /\ stack = <<>>
  /\ left = [a \in Atoms |-> {}]
  /\ rootsLeft = roots
  /\ next = 1
  /\ phase = "roots"
-----------------------------------------------------------------------------
(* markLive.                                                               *)

Top == stack[Len(stack)]
Idle == stack = <<>>

\* Mutant: the call that marks an atom does not look at its fixups.
MutCallShallow(a, lf) ==
  /\ live' = live \cup {a}
  /\ UNCHANGED stack
  /\ left' = lf

\* Mutant: an atom is marked when its call returns.
MutCallMarksLate(a, lf) ==
  IF a \in live
  THEN left' = lf /\ UNCHANGED <<live, stack>>
  ELSE /\ live' = live \cup (IF refs[a] = {} THEN {a} ELSE {})
       /\ stack' = Append(stack, a)
       /\ left' = [lf EXCEPT ![a] = refs[a]]

\* A call for atom a.  Nothing happens if it is live; lf is left as the caller
\* leaves it.
Call(a, lf) ==
  IF a \in live
  THEN left' = lf /\ UNCHANGED <<live, stack>>
  ELSE /\ live' = live \cup {a}
       /\ stack' = Append(stack, a)
       /\ left' = [lf EXCEPT ![a] = refs[a]]

Visited(t) == [left EXCEPT ![Top] = @ \ {t}]

VisitFixup(t) ==
  /\ ~Idle
  /\ t \in left[Top]
  /\ IF t = NoAtom
     THEN left' = Visited(t) /\ UNCHANGED <<live, stack>>
     ELSE Call(t, Visited(t))
  /\ UNCHANGED <<graph, table, rootsLeft, next, phase>>

Return ==
  /\ ~Idle
  /\ left[Top] = {}
  /\ stack' = SubSeq(stack, 1, Len(stack) - 1)
  /\ UNCHANGED <<graph, table, live, left, rootsLeft, next, phase>>
-----------------------------------------------------------------------------
(* deadStripOptimize.                                                      *)

MarkRoot(r) ==
  /\ phase = "roots" /\ Idle
  /\ r \in rootsLeft
  /\ rootsLeft' = rootsLeft \ {r}
  /\ Call(r, left)
  /\ UNCHANGED <<graph, table, next, phase>>

RootsMarked ==
  /\ phase = "roots" /\ Idle
  /\ rootsLeft = {}
  /\ phase' = "supports"
  /\ UNCHANGED <<graph, table, live, stack, left, rootsLeft, next>>

\* Mutant: the test for a live reference is dropped.
MutAtomHasLiveRef(a) == TRUE

\* atomHasLiveRef looks at every bound fixup, whatever its kind.
AtomHasLiveRef(a) == (refs[a] \cup otherRefs[a]) \cap live # {}

CheckSupport ==
  /\ phase = "supports" /\ Idle
  /\ next <= Len(supports)
  /\ next' = next + 1
  /\ IF AtomHasLiveRef(supports[next])
     THEN Call(supports[next], left)
     ELSE UNCHANGED <<live, stack, left>>
  /\ UNCHANGED <<graph, table, rootsLeft, phase>>

\* NotLiveLTO in the first run with bitcode, NotLive otherwise.
Kept == IF bitcode = "input" THEN live \cup combinable ELSE live

\* SymbolTable::removeDeadAtoms, for names: a dead atom loses its slot.
RemoveDeadAtoms == named \cap live

\* Only the first run with bitcode calls removeDeadAtoms.
Sweep ==
  /\ phase = "supports" /\ Idle
  /\ next > Len(supports)
  /\ atoms' = atoms \cap Kept
  /\ named' = IF bitcode = "input" THEN RemoveDeadAtoms ELSE named
  /\ phase' = "swept"
  /\ UNCHANGED <<refs, otherRefs, roots, supports, combinable, bitcode, live, stack,
                 left, rootsLeft, next>>
-----------------------------------------------------------------------------
(* linkTimeOptimize, as far as it concerns dead stripping: code generation  *)
(* (libLTO) removes atoms and brings new ones, with any new references      *)
(* between the atoms there are now; then deadStripOptimize(true).           *)

CodeGen ==
  /\ phase = "swept" /\ bitcode = "input"
  /\ bitcode' = "compiled"
  /\ \E gone \in SUBSET atoms, new \in SUBSET (Atoms \ (atoms \cup live)) :
       LET A == (atoms \ gone) \cup new IN
         /\ atoms' = A
         /\ refs' \in Fixups(A)
         /\ roots' \in {R \in SUBSET A : Cardinality(R) <= MaxRoots[bitcode]}
         /\ supports' \in Lists(A)
         /\ named' = (named \ gone) \cup new
         /\ combinable' = combinable \cap A
  /\ otherRefs' = [a \in Atoms |-> {}]
  /\ phase' = "reset"
  /\ UNCHANGED <<live, stack, left, rootsLeft, next>>

\* Mutant: the live bits of the first run stay.
MutReset ==
  /\ phase = "reset"
  /\ rootsLeft' = roots
  /\ next' = 1
  /\ phase' = "roots"
  /\ UNCHANGED <<graph, table, live, stack, left>>

\* The second run clears the live bits of the atoms in _atoms, of no others.
Reset ==
  /\ phase = "reset"
  /\ live' = live \ atoms
  /\ rootsLeft' = roots
  /\ next' = 1
  /\ phase' = "roots"
  /\ UNCHANGED <<graph, table, stack, left>>

Next ==
  \/ \E r \in Atoms : MarkRoot(r)
  \/ \E t \in Atoms \cup {NoAtom} : VisitFixup(t)
  \/ Return \/ RootsMarked \/ CheckSupport \/ Sweep \/ CodeGen \/ Reset

Spec == Init /\ [][Next]_vars
-----------------------------------------------------------------------------
(* Properties.                                                             *)

\* Type invariant.
TypeOK ==
  /\ atoms \subseteq Atoms
  /\ refs \in [Atoms -> SUBSET (Atoms \cup {NoAtom})]
  /\ otherRefs \in [Atoms -> SUBSET Atoms]
  /\ roots \subseteq Atoms
  /\ supports \in Seq(Atoms)
  /\ combinable \subseteq Atoms
  /\ named \subseteq Atoms
  /\ bitcode \in {"none", "input", "compiled"}
  /\ live \subseteq Atoms
  /\ stack \in Seq(Atoms)
  /\ left \in [Atoms -> SUBSET (Atoms \cup {NoAtom})]
  /\ rootsLeft \subseteq Atoms
  /\ next \in Nat \ {0}
  /\ phase \in {"roots", "supports", "swept", "reset"}

\* doc/design/linker.html: passes run on a graph with no dangling edges.  Every
\* root is kept, and what a live atom refers to is kept, live and still bound
\* to its name, in the first as in the second run.
NoDanglingEdges ==
  phase = "swept" =>
    /\ roots \subseteq live \cap atoms
    /\ \A a \in live \cap atoms : refs[a] \ {NoAtom} \subseteq live \cap atoms
    /\ (live \cap atoms) \ combinable \subseteq named

Closed(S) == \A a \in S : refs[a] \ {NoAtom} \subseteq S
SupportClosed(S) ==
  \A i \in 1 .. Len(supports) :
    (refs[supports[i]] \cup otherRefs[supports[i]]) \cap S # {} => supports[i] \in S

\* Nothing is kept without a reason: the live atoms are in every set that holds
\* the roots and is closed under references and under live support.
OnlyNeededLive ==
  phase # "reset" =>
    \A S \in SUBSET Atoms :
      roots \subseteq S /\ Closed(S) /\ SupportClosed(S) => live \cap atoms \subseteq S

\* No atom is visited twice by one run: the recursion is never deeper than there
\* are atoms, and an atom has at most one active call.
RecursionBounded ==
  \A i, j \in 1 .. Len(stack) : stack[i] = stack[j] => i = j

-----------------------------------------------------------------------------
(* The inductive invariant.                                                *)

Marking == phase \in {"roots", "supports"}
OnStack(a) == \E i \in 1 .. Len(stack) : stack[i] = a

\* Until the sweep the graph is closed; what the sweep takes is neither a root
\* nor live, and with bitcode not combinable either.
GraphInv ==
  /\ phase # "swept" =>
       /\ \A a \in Atoms : refs[a] \subseteq atoms \cup {NoAtom}
       /\ \A a \in Atoms : otherRefs[a] \subseteq atoms
       /\ \A i \in 1 .. Len(supports) : supports[i] \in atoms
       /\ atoms \ combinable \subseteq named
  /\ phase = "swept" => (live \cap atoms) \ combinable \subseteq named
  /\ phase = "swept" /\ bitcode = "input" => atoms \subseteq live \cup combinable
  /\ roots \subseteq atoms

\* Active calls are for different live atoms, and only they have fixups to visit.
StackInv ==
  /\ ~Marking => stack = <<>>
  /\ \A i \in 1 .. Len(stack) : stack[i] \in live \cap atoms
  /\ RecursionBounded
  /\ \A a \in Atoms : left[a] # {} => OnStack(a)

\* What a live atom refers to is live, except for the fixups still to visit.
MarkInv ==
  /\ \A a \in Atoms : left[a] \subseteq refs[a]
  /\ phase # "reset" =>
       \A a \in live \cap atoms : (refs[a] \ left[a]) \ {NoAtom} \subseteq live \cap atoms
  /\ phase = "roots" => roots \ rootsLeft \subseteq live /\ rootsLeft \subseteq roots
  /\ phase \in {"supports", "swept"} => roots \subseteq live

IInv == TypeOK /\ GraphInv /\ StackInv /\ MarkInv /\ OnlyNeededLive
-----------------------------------------------------------------------------
\* cctools/include/mach-o/loader.h:564, S_ATTR_LIVE_SUPPORT: "blocks are live if
\* they reference live blocks".  No atom of such a section is removed while
\* something it refers to stays.
LiveSupportComplete ==
  phase = "swept" => SupportClosed(live \cap atoms)
=============================================================================
