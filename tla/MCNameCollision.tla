-------------------------- MODULE MCNameCollision --------------------------
(* Instances of NameCollision for TLC.                                     *)
EXTENDS NameCollision, TLC

CONSTANTS a1, a2, a3

MCAtoms == {a1, a2, a3}
Symmetry == Permutations(MCAtoms)

Plain == [definition |-> "regular", combine |-> "never", content |-> "macho", hide |-> "no",
          scope |-> "global", header |-> "no", align |-> 1, size |-> 1, ordinal |-> 1]

\* Every kind of definition, with two ordinals and, for commons, two sizes.
MCKinds ==
  {[Plain EXCEPT !.definition = d, !.combine = c, !.ordinal = o] :
     d \in {"regular", "proxy"}, c \in {"never", "byName"}, o \in 1 .. 2}
  \cup {[Plain EXCEPT !.definition = "tentative", !.size = s, !.ordinal = o] : s \in 1 .. 2, o \in 1 .. 2}
  \cup {[Plain EXCEPT !.definition = "absolute", !.ordinal = o] : o \in 1 .. 2}
  \cup {[Plain EXCEPT !.header = "yes"]}

\* Weak definitions of every kind.
MCWeak ==
  {[Plain EXCEPT !.combine = "byName", !.content = c, !.hide = h, !.scope = s, !.align = l] :
     c \in {"macho", "bitcode"}, h \in {"auto", "no"}, s \in {"global", "linkageUnit"}, l \in 1 .. 2}

MCAttributes == MCKinds \cup MCWeak
=============================================================================
