---------------------------- MODULE MCUndefines ----------------------------
(* Families of links for Undefines.  There are three names.  A member defines *)
(* one name, and perhaps a common symbol too, and refers to at most one other *)
(* name.                                                                      *)
EXTENDS Undefines

MCNames == 1 .. 3
MCLibs == 1 .. 3

NoNames == [n \in MCNames |-> "no"]
NoExports == [l \in MCLibs |-> NoNames]

\* The members that define n as kind k and, unless c = n, c as a common symbol.
\* The table of contents has the commons too if tocCommons (ranlib -c).
Shape(l, n, k, c, r, o, tocCommons) ==
  LET defs == [[NoNames EXCEPT ![c] = "tentative"] EXCEPT ![n] = k] IN
    [lib |-> l, defs |-> defs,
     toc |-> {x \in MCNames : defs[x] \in {"data", "code"} \/ (tocCommons /\ defs[x] = "tentative")},
     refs |-> {x \in r : defs[x] = "no"}, opts |-> o]

AtMostOne(S) == {{}} \cup {{x} : x \in S}

Setting(initial, commons) ==
  [exports |-> NoExports, cmdLine |-> <<1, 2>>, found |-> MCLibs, opts |-> {}, boundary |-> {},
   initial |-> initial, commons |-> commons, undefs |-> "error"]

\* Two archives, of which the second defines only name 1; name 1 is undefined or
\* tentative, name 2 may be tentative.
ArchiveMembers ==
  {Shape(1, n, k, n, r, {}, TRUE) :
     n \in MCNames, k \in {"data", "tentative"}, r \in AtMostOne(MCNames)}
  \cup {Shape(l, 1, k, 1, r, {}, TRUE) :
     l \in 1 .. 2, k \in {"data", "code", "tentative"}, r \in AtMostOne(MCNames)}
ArchiveSettings ==
  {Setting(<<i, j, "absent">>, "ignoreDylibs") :
     i \in {"undefined", "tentative"}, j \in {"absent", "tentative"}}

\* One archive between two dylibs that export the same name.
DylibMembers ==
  {Shape(2, n, "data", c, r, {}, t) :
     n \in MCNames, c \in MCNames, r \in AtMostOne(MCNames), t \in BOOLEAN}
DylibSettings ==
  {[Setting(<<"undefined", j, "absent">>, c)
      EXCEPT !.exports[1][x] = e, !.exports[3][x] = f, !.cmdLine = <<1, 2, 3>>,
             !.boundary = {3}, !.undefs = "other"] :
     x \in MCNames, e \in {"weak", "strong"}, f \in {"no", "strong"},
     j \in {"absent", "undefined", "tentative"}, c \in {"ignoreDylibs", "useDylibs", "error"}}

\* An archive of the command line, and another that only linker options name.
OptionMembers ==
  {Shape(l, n, "data", n, r, o, FALSE) :
     l \in 1 .. 2, n \in MCNames, r \in AtMostOne(MCNames), o \in {{}, {2}}}
OptionSettings ==
  {[Setting([n \in MCNames |-> IF n \in u THEN "undefined" ELSE "absent"], "ignoreDylibs")
      EXCEPT !.cmdLine = <<1>>, !.opts = o] :
     u \in SUBSET MCNames, o \in {{}, {2}}}
\* A member may refer to names before and after the ones undefined at first.
LiveSettings ==
  {s \in OptionSettings : s.initial \in {<<"absent", "undefined", "absent">>,
                                        <<"undefined", "absent", "undefined">>}}
TwoUndefined == {s \in OptionSettings : s.opts = {} /\ s.initial = <<"undefined", "undefined", "absent">>}

\* A member that is never looked for.
Empty == [lib |-> 3, defs |-> NoNames, toc |-> {}, refs |-> {}, opts |-> {}]
Two(S) == {<<a, b, Empty>> : a \in S, b \in S}

AllMembers == ArchiveMembers \cup DylibMembers \cup OptionMembers \cup {Empty}
AllSettings == ArchiveSettings \cup DylibSettings \cup LiveSettings

\* Three members in two archives, or two members in the other families.
MCInit ==
  /\ \/ member \in [1 .. 3 -> ArchiveMembers] /\ env \in ArchiveSettings
     \/ member \in Two(DylibMembers) /\ env \in DylibSettings
     \/ member \in Two(OptionMembers) /\ env \in LiveSettings
  /\ Start

MCSpec == MCInit /\ [][Next]_vars
=============================================================================
