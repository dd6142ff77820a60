--------------------------- MODULE NameCollision ---------------------------
(***************************************************************************)
(* What becomes of several atoms with the same name: SymbolTable::addByName *)
(* and NameCollisionResolution (ld64/src/ld/SymbolTable.cpp), the choice    *)
(* of how duplicates are treated in Resolver::doAtom, and                  *)
(* checkDuplicateSymbols at the end of the link.                           *)
(*                                                                         *)
(* One name; its atoms are added in any order, which archives and linker   *)
(* options make independent of the files' ordinals.                        *)
(***************************************************************************)
EXTENDS Integers, FiniteSets

CONSTANTS
  Atoms,        \* the atoms with this name
  NoAtom,       \* an empty slot
  Attributes    \* what an atom may look like: see AttributeType

\* combine  byName: a weak definition
\* content  bitcode: typeLTOtemporary
\* hide     auto: .weak_def_can_be_hidden
\* header   yes: it is in a section of typeMachHeader
\* align    the exponent of the alignment
AttributeType ==
  [definition : {"regular", "tentative", "absolute", "proxy"},
   combine : {"never", "byName"}, content : {"macho", "bitcode"},
   hide : {"auto", "no"}, scope : {"global", "linkageUnit"}, header : {"yes", "no"},
   align : Nat, size : Nat, ordinal : Nat]

ASSUME ConstantsOK ==
  /\ NoAtom \notin Atoms
  /\ Attributes \subseteq AttributeType

Commons == {"ignoreDylibs", "useDylibs", "error"}
Strips == {"no", "deadStrip", "allowDeadDuplicates"}

VARIABLES
  attr,        \* atom -> its attributes
  commons,     \* -commons
  strip,       \* -dead_strip, and whether dead duplicates are allowed
  initial,     \* "reading" until _completedInitialObjectFiles, then "completed"
  slot,        \* the entry of _indirectBindingTable
  added,       \* the atoms that were added
  coalesced,   \* the atoms marked coalesced away
  errors,      \* the name's list in _duplicateSymbolErrors
  warnings,    \* the name's list in _duplicateSymbolWarnings
  outcome      \* "running", "linked", "duplicate" or "conflict" (thrown)

options == <<attr, commons, strip>>
vars == <<options, initial, slot, added, coalesced, errors, warnings, outcome>>

Init ==
  /\ attr \in [Atoms -> Attributes]
  /\ commons \in Commons
  /\ strip \in Strips
  /\ initial = "reading"
  /\ slot = NoAtom
  /\ added = {}
  /\ coalesced = {}
  /\ errors = {}
  /\ warnings = {}
  /\ outcome = "running"
-----------------------------------------------------------------------------
(* NameCollisionResolution: a is the new atom, b the existing one.         *)

Is(a, d) == attr[a].definition = d
IsWeak(a) == attr[a].combine = "byName"

\* A lower ordinal is a higher precedence.
HigherOrdinal(a, b) == IF attr[a].ordinal < attr[b].ordinal THEN a ELSE b
LowerOrdinal(a, b) == IF attr[a].ordinal > attr[b].ordinal THEN a ELSE b

\* Mutant: the larger size is not looked at.
MutLargerSize(a, b) == LowerOrdinal(a, b)

LargerSize(a, b) ==
  IF attr[a].size = attr[b].size THEN LowerOrdinal(a, b)
  ELSE IF attr[a].size > attr[b].size THEN a ELSE b

GreaterAlignment(a, b) == IF attr[a].align > attr[b].align THEN a ELSE b

BetweenWeak(a, b) ==
  IF attr[a].content # attr[b].content
  THEN IF attr[a].content = "macho" THEN a ELSE b
  ELSE IF attr[a].hide # attr[b].hide
  THEN IF attr[a].hide = "no" THEN a ELSE b
  ELSE IF attr[a].hide = "no" /\ attr[a].scope # attr[b].scope
  THEN IF attr[a].scope = "global" THEN a ELSE b
  ELSE GreaterAlignment(a, b)

\* Two definitions that are not weak, neither of them a mach header.
BothStrong(a, b) ==
  /\ Is(a, "regular") /\ Is(b, "regular")
  /\ ~IsWeak(a) /\ ~IsWeak(b)
  /\ attr[a].header = "no" /\ attr[b].header = "no"

\* The atoms that pickBetweenRegularAtoms may choose.  For duplicates that are
\* errors it leaves _chosen uninitialized: then the new atom is used or not.
BetweenRegular(a, b, duplicates) ==
  IF IsWeak(a) /\ IsWeak(b) THEN {BetweenWeak(a, b)}
  ELSE IF IsWeak(a) THEN {b}
  ELSE IF IsWeak(b) THEN {a}
  ELSE IF attr[a].header = "yes" THEN {a}
  ELSE IF attr[b].header = "yes" THEN {b}
  ELSE IF duplicates = "error" THEN {a, b}
  ELSE {LowerOrdinal(a, b)}

\* pickCommonsMode, for one tentative definition and one proxy.
CommonsChoice(tentative, proxy) ==
  IF commons = "ignoreDylibs" THEN tentative ELSE proxy

Throws(a, b) ==
  \/ commons = "error" /\ Is(a, "tentative") /\ Is(b, "proxy")
  \/ commons = "error" /\ Is(a, "proxy") /\ Is(b, "tentative")
  \/ Is(a, "proxy") /\ Is(b, "proxy") /\ ~IsWeak(a) /\ ~IsWeak(b)

\* pickAtom.
Choices(a, b, duplicates) ==
  IF Is(b, "proxy")
  THEN IF Is(a, "proxy") THEN {IF IsWeak(a) THEN b ELSE a}
       ELSE IF Is(a, "tentative") THEN {CommonsChoice(a, b)} ELSE {a}
  ELSE IF Is(a, "proxy")
  THEN IF Is(b, "tentative") THEN {CommonsChoice(b, a)} ELSE {b}
  ELSE IF Is(b, "tentative")
  THEN IF Is(a, "tentative") THEN {LargerSize(a, b)} ELSE {a}
  ELSE IF Is(a, "tentative")
  THEN IF Is(b, "regular") THEN {b} ELSE {HigherOrdinal(a, b)}
  ELSE IF Is(a, "regular") /\ Is(b, "regular")
  THEN BetweenRegular(a, b, duplicates)
  ELSE {HigherOrdinal(a, b)}

\* Mutant: only definitions that are absolute are reported.
MutIsDuplicate(a, b) ==
  Is(a, "absolute") /\ Is(b, "absolute")

\* _reportDuplicate
IsDuplicate(a, b) ==
  \/ BothStrong(a, b)
  \/ Is(a, "absolute") /\ (Is(b, "regular") \/ Is(b, "absolute"))
  \/ Is(a, "regular") /\ Is(b, "absolute")
-----------------------------------------------------------------------------
(* Resolver::doAtom and SymbolTable::addByName.                            *)

Duplicates ==
  IF strip = "allowDeadDuplicates" THEN "suppress"
  ELSE IF strip = "deadStrip" /\ initial = "completed" THEN "warning"
  ELSE "error"

AddFirst(a) ==
  /\ slot' = a
  /\ UNCHANGED <<coalesced, errors, warnings, outcome>>

MarkCoalescedAway(S) == coalesced' = coalesced \cup S

\* Mutant: the atom that was in the slot is not marked.
MutReplace(a, chosen) == slot' = chosen /\ MarkCoalescedAway({a} \ {chosen})

Replace(a, chosen) == slot' = chosen /\ MarkCoalescedAway({a, slot} \ {chosen})

\* addDuplicateSymbol, for atoms of different files.
Listed(list, a) == IF IsDuplicate(a, slot) THEN list \cup {slot, a} ELSE list

AddCollision(a) ==
  /\ ~Throws(a, slot)
  /\ \E chosen \in Choices(a, slot, Duplicates) : Replace(a, chosen)
  /\ errors' = IF Duplicates = "error" THEN Listed(errors, a) ELSE errors
  /\ warnings' = IF Duplicates = "warning" THEN Listed(warnings, a) ELSE warnings
  /\ UNCHANGED outcome

AddThrows(a) ==
  /\ Throws(a, slot)
  /\ outcome' = "conflict"
  /\ UNCHANGED <<slot, coalesced, errors, warnings>>

Add(a) ==
  /\ outcome = "running"
  /\ a \notin added
  /\ added' = added \cup {a}
  /\ IF slot = NoAtom THEN AddFirst(a) ELSE AddCollision(a) \/ AddThrows(a)
  /\ UNCHANGED <<options, initial>>

\* forEachInitialAtom is done: what comes now is from archives.
InitialFilesDone ==
  /\ outcome = "running"
  /\ initial = "reading"
  /\ initial' = "completed"
  /\ UNCHANGED <<options, slot, added, coalesced, errors, warnings, outcome>>

\* checkDuplicateSymbols: with dead stripping only lists with a live atom count.
\* Markings depend on the rest of the program; an atom that is coalesced away is
\* marked too when its own file refers to it directly.
CheckDuplicateSymbols ==
  /\ outcome = "running"
  /\ initial = "completed"
  /\ \E live \in SUBSET added :
       outcome' = IF errors # {} /\ (strip = "no" \/ errors \cap live # {})
                  THEN "duplicate" ELSE "linked"
  /\ UNCHANGED <<options, initial, slot, added, coalesced, errors, warnings>>

Next == (\E a \in Atoms : Add(a)) \/ InitialFilesDone \/ CheckDuplicateSymbols

Spec == Init /\ [][Next]_vars
-----------------------------------------------------------------------------
(* Properties.                                                             *)

\* Type invariant of the slot, the lists and the options.
TypeOK ==
  /\ attr \in [Atoms -> Attributes]
  /\ commons \in Commons
  /\ strip \in Strips
  /\ initial \in {"reading", "completed"}
  /\ slot \in Atoms \cup {NoAtom}
  /\ added \subseteq Atoms
  /\ coalesced \subseteq Atoms
  /\ errors \subseteq Atoms
  /\ warnings \subseteq Atoms
  /\ outcome \in {"running", "linked", "duplicate", "conflict"}

\* removeCoalescedAwayAtoms leaves exactly one atom with the name: the one that
\* references through the slot lead to.
OneSurvivor ==
  outcome # "conflict" =>
    /\ added # {} => slot \in added
    /\ coalesced = added \ {slot}

\* How much an atom is worth, whatever it collides with: the classes first.
Class(a) ==
  IF Is(a, "regular") THEN (IF IsWeak(a) THEN 4 ELSE 5)
  ELSE IF Is(a, "tentative") THEN (IF commons = "ignoreDylibs" THEN 3 ELSE 0)
  ELSE IF IsWeak(a) THEN 1 ELSE 2

\* Within a class: for weak definitions mach-o before bitcode, then not
\* auto-hidden, then global if they are not, then alignment; for commons the size.
BetterWeak(a, b) ==
  \/ attr[a].content = "macho" /\ attr[b].content = "bitcode"
  \/ /\ attr[a].content = attr[b].content
     /\ \/ attr[a].hide = "no" /\ attr[b].hide = "auto"
        \/ /\ attr[a].hide = "no" /\ attr[b].hide = "no"
           /\ \/ attr[a].scope = "global" /\ attr[b].scope = "linkageUnit"
              \/ attr[a].scope = attr[b].scope /\ attr[a].align > attr[b].align
        \/ /\ attr[a].hide = "auto" /\ attr[b].hide = "auto"
           /\ attr[a].align > attr[b].align

Better(a, b) ==
  \/ Class(a) > Class(b)
  \/ Class(a) = 4 /\ Class(b) = 4 /\ BetterWeak(a, b)
  \/ Is(a, "tentative") /\ Is(b, "tentative") /\ attr[a].size > attr[b].size

\* Without absolute symbols the order in which files are read does not decide
\* between a better and a worse atom: nothing that was added is better than what
\* the collisions, pairwise, have left in the slot.
BestKept ==
  outcome # "conflict" /\ (\A a \in added : ~Is(a, "absolute")) =>
    \A a \in added : ~Better(a, slot)

\* Two strong definitions do not go unnoticed (absolute symbols, and the mach
\* header, which replaces any other definition, aside): without dead stripping the
\* link fails; with it the survivor is on a list, so that the link fails, or warns,
\* if it is live.
DuplicatesNoticed ==
  outcome # "conflict" /\ (\A c \in added : attr[c].header = "no" /\ ~Is(c, "absolute")) =>
    \A a, b \in added : a # b /\ BothStrong(a, b) =>
      /\ strip = "no" => outcome # "linked"
      /\ strip # "allowDeadDuplicates" => slot \in errors \cup warnings
-----------------------------------------------------------------------------
\* The inductive invariant.
IInv ==
  /\ TypeOK
  /\ OneSurvivor
  /\ slot = NoAtom <=> added = {}
  /\ BestKept
  /\ DuplicatesNoticed
  /\ strip = "no" => warnings = {}
=============================================================================
