------------------------------ MODULE Undefines ------------------------------
(***************************************************************************)
(* How ld64 pulls definitions out of libraries: resolveAllUndefines and    *)
(* resolveCurrentUndefines of Resolver.cpp, searchLibraries and            *)
(* addLinkerOptionLibraries of InputFiles.cpp, and the lazy loading of     *)
(* archive members in parsers/archive_file.cpp.                            *)
(*                                                                         *)
(* It starts when the initial files are read.  Names are numbers, so that  *)
(* "sorted" means something.  A program (the members of the archives, the  *)
(* exports of the dylibs) is chosen at the start.  One action handles one  *)
(* name of the list that the loops go through; loading a member, with all  *)
(* that follows from it, is part of that action.                           *)
(***************************************************************************)
EXTENDS Integers, Sequences, FiniteSets, FiniteSetsExt, Functions

CONSTANTS
  Names,         \* symbol names: a finite set of numbers
  Members,       \* archive members: a finite set of numbers, in file order
  Libs,          \* libraries: a finite set of numbers
  MemberChoices, \* how a member may look: see MemberType
  Settings       \* what else a link consists of: see SettingType

\* lib      the archive the member is in
\* defs[n]  how the member defines name n
\* toc      the names under which the table of contents lists the member
\* refs     the names the member refers to
\* opts     the libraries named by its -l linker options
MemberType ==
  [lib : Libs, defs : [Names -> {"no", "data", "code", "tentative"}],
   toc : SUBSET Names, refs : SUBSET Names, opts : SUBSET Libs]

\* exports  what a dylib exports: for an archive, nothing
\* cmdLine  the libraries of the command line, in order
\* found    the libraries that findLibrary finds
\* opts     the libraries named by linker options of the initial files
\* boundary the names section$..., segment$..., which the linker defines
\* initial  the symbol table after the initial files
\* commons  -commons
\* undefs   -undefined
SettingType ==
  [exports : [Libs -> [Names -> {"no", "weak", "strong"}]],
   cmdLine : Seq(Libs), found : SUBSET Libs, opts : SUBSET Libs,
   boundary : SUBSET Names,
   initial : [Names -> {"absent", "undefined", "tentative", "defined"}],
   commons : {"ignoreDylibs", "useDylibs", "error"}, undefs : {"error", "other"}]

ASSUME ConstantsOK ==
  /\ Names \subseteq Nat /\ IsFiniteSet(Names)
  /\ Members \subseteq Nat
  /\ Libs \subseteq Nat /\ IsFiniteSet(Libs)
  /\ MemberChoices \subseteq MemberType
  /\ Settings \subseteq SettingType

\* A table of contents lists a member only under names that the member defines.
ASSUME TocOK == \A m \in MemberChoices : \A n \in m.toc : m.defs[n] # "no"

NoMember == -1
Never == -1      \* 0xFFFFFFFF, which no updateCount equals

VARIABLES
  member,       \* the members of the archives
  env,          \* the rest of the input
  def,          \* name -> what its slot holds; "absent": it has no slot
  loaded,       \* members whose MemberState::loaded is set
  libs,         \* _searchLibraries
  optionLibs,   \* linkerOptionLibraries
  outerGen,     \* undefineGenCount
  innerGen,     \* innerUndefineGenCount
  queue,        \* names of the current list that are still to do
  pc            \* "inner", "undefs", "tents", "options", "proxies", "done", "thrown"

table == <<def, loaded, libs, optionLibs>>
loops == <<outerGen, innerGen>>
input == <<member, env>>
vars  == <<input, table, loops, queue, pc>>

States == {"absent", "undefined", "weakProxy", "proxy", "tentative", "defined"}
-----------------------------------------------------------------------------
\* addLinkerOptionLibraries, for libraries that have no linker options of their
\* own: those that are new and found join the end of the search list, sorted.
AddedLibs(wanted, list, known) ==
  {l \in wanted \cap env.found : l \notin known /\ l \notin Range(list)}

Sorted(S) ==
  {s \in [1 .. Cardinality(S) -> S] : \A i, j \in 1 .. Cardinality(S) : i < j => s[i] < s[j]}

\* The state in which resolveAllUndefines is called.
Start ==
  /\ def = env.initial
  /\ loaded = {}
  /\ \E s \in Sorted(AddedLibs(env.opts, env.cmdLine, {})) : libs = env.cmdLine \o s
  /\ optionLibs = env.opts
  /\ outerGen = Never
  /\ innerGen = Never
  /\ queue = {}
  /\ pc = "inner"

Init ==
  /\ member \in [Members -> MemberChoices]
  /\ env \in Settings
  /\ Start
-----------------------------------------------------------------------------
(* The symbol table.                                                       *)

Undefs == {n \in Names : def[n] = "undefined"}
Tentatives == {n \in Names : def[n] = "tentative"}

\* updateCount: slots are never removed here.
Slots == {n \in Names : def[n] # "absent"}
UpdateCount == Cardinality(Slots)

IsProxy(d) == d \in {"weakProxy", "proxy"}

\* Mutant: of two proxies the first stays.
MutMerge(old, new) ==
  IF old \in {"absent", "undefined"} THEN new
  ELSE IF old = "defined" \/ new = "defined" THEN "defined"
  ELSE IF IsProxy(old) /\ IsProxy(new) THEN old
  ELSE "tentative"

\* addByName: what a slot holds after another definition is added.  "conflict":
\* the linker throws.
Merge(old, new) ==
  IF old \in {"absent", "undefined"} THEN new
  ELSE IF old = "defined" \/ new = "defined" THEN "defined"
  ELSE IF IsProxy(old) /\ IsProxy(new)
       THEN IF new = "weakProxy" THEN old
            ELSE IF old = "weakProxy" THEN new ELSE "conflict"
  ELSE IF ~IsProxy(old) /\ ~IsProxy(new) THEN "tentative"
  ELSE CASE env.commons = "ignoreDylibs" -> "tentative"
         [] env.commons = "useDylibs"    -> IF IsProxy(old) THEN old ELSE new
         [] OTHER                         -> "conflict"
-----------------------------------------------------------------------------
(* Loading an archive member: doFile, then doAtom for each of its atoms.   *)

AsDefinition(k) == IF k = "tentative" THEN "tentative" ELSE "defined"

WithDefinitions(d, m) ==
  [n \in Names |-> IF member[m].defs[n] = "no" THEN d[n]
                   ELSE Merge(d[n], AsDefinition(member[m].defs[n]))]

\* convertReferencesToIndirect makes a slot for each name referred to.
WithReferences(d, m) ==
  [n \in Names |-> IF n \in member[m].refs /\ d[n] = "absent" THEN "undefined" ELSE d[n]]

AfterMember(d, m) == WithReferences(WithDefinitions(d, m), m)

\* loadMember marks the member, so that it is loaded once.
LoadMember(m) == loaded' = loaded \cup {m}

AddLinkerOptionLibraries(m) ==
  /\ \E s \in Sorted(AddedLibs(member[m].opts, libs, optionLibs)) : libs' = libs \o s
  /\ optionLibs' = optionLibs \cup member[m].opts
-----------------------------------------------------------------------------
(* searchLibraries.                                                        *)

\* The hash table made from the table of contents: of several members with the
\* same name the earliest one is found.
Toc(l, n) ==
  LET Found == {m \in Members : member[m].lib = l /\ n \in member[m].toc}
  IN IF Found = {} THEN NoMember ELSE Min(Found)

\* justInTimeforEachAtom, or justInTimeDataOnlyforEachAtom, of an archive does
\* something.
ArchiveHit(l, n, dataOnly) ==
  LET m == Toc(l, n) IN
    /\ m # NoMember
    /\ m \notin loaded
    /\ dataOnly => member[m].defs[n] = "data"

StopsAt(i, n, dylibs, dataOnly) ==
  \/ ArchiveHit(libs[i], n, dataOnly)
  \/ dylibs /\ env.exports[libs[i]][n] = "strong"

\* The position where the search stops: past the end if it does not.
StopPos(n, dylibs, dataOnly) ==
  LET Stops == {i \in 1 .. Len(libs) : StopsAt(i, n, dylibs, dataOnly)}
  IN IF Stops = {} THEN Len(libs) + 1 ELSE Min(Stops)

\* What the slot of n holds after the dylibs before position i gave a proxy for
\* their weak exports.
AfterWeak(n, dylibs, i) ==
  IF dylibs /\ \E j \in 1 .. i - 1 : env.exports[libs[j]][n] = "weak"
  THEN [def EXCEPT ![n] = Merge(@, "weakProxy")]
  ELSE def

\* resolveCurrentUndefines makes a boundary atom for a name that was not found.
WithBoundary(d, n) ==
  IF pc = "undefs" /\ n \in env.boundary /\ d[n] = "undefined"
  THEN [d EXCEPT ![n] = "defined"] ELSE d

\* A conflict throws out of all loops; otherwise pc is next.
Settle(d, next) ==
  /\ def' = d
  /\ pc' = IF \E n \in Names : d[n] = "conflict" THEN "thrown" ELSE next

SearchLibraries(n, dylibs, dataOnly) ==
  LET i == StopPos(n, dylibs, dataOnly)
      d == AfterWeak(n, dylibs, i)
  IN IF i > Len(libs)
     THEN Settle(WithBoundary(d, n), pc) /\ UNCHANGED <<loaded, libs, optionLibs>>
     ELSE IF ArchiveHit(libs[i], n, dataOnly)
          THEN LET m == Toc(libs[i], n) IN
                 /\ Settle(WithBoundary(AfterMember(d, m), n), pc)
                 /\ LoadMember(m)
                 /\ AddLinkerOptionLibraries(m)
          ELSE /\ Settle([d EXCEPT ![n] = Merge(@, "proxy")], pc)
               /\ UNCHANGED <<loaded, libs, optionLibs>>
-----------------------------------------------------------------------------
(* resolveAllUndefines.                                                    *)

\* The lists are sorted.
IsNext(n) == n \in queue /\ \A k \in queue : n <= k
Skip == UNCHANGED <<table, pc>>

\* Mutant: the count is not taken over from the inner loop.
MutInnerTest ==
  /\ pc = "inner"
  /\ IF innerGen # UpdateCount
     THEN innerGen' = UpdateCount /\ queue' = Undefs /\ pc' = "undefs"
     ELSE queue' = Tentatives /\ pc' = "tents" /\ UNCHANGED innerGen
  /\ UNCHANGED <<input, table, outerGen>>

\* The inner while: another round if slots were added, else the tentatives.
InnerTest ==
  /\ pc = "inner"
  /\ IF innerGen # UpdateCount
     THEN /\ innerGen' = UpdateCount
          /\ queue' = Undefs
          /\ pc' = "undefs"
          /\ UNCHANGED outerGen
     ELSE /\ outerGen' = innerGen
          /\ queue' = Tentatives
          /\ pc' = "tents"
          /\ UNCHANGED innerGen
  /\ UNCHANGED <<input, table>>

\* Mutant: the test whether an earlier load defined the name is dropped.
MutResolveUndefine(n) ==
  /\ pc = "undefs"
  /\ IsNext(n)
  /\ queue' = queue \ {n}
  /\ SearchLibraries(n, TRUE, FALSE)
  /\ UNCHANGED <<input, loops>>

\* resolveCurrentUndefines, one name.
ResolveUndefine(n) ==
  /\ pc = "undefs"
  /\ IsNext(n)
  /\ queue' = queue \ {n}
  /\ IF def[n] = "undefined" THEN SearchLibraries(n, TRUE, FALSE) ELSE Skip
  /\ UNCHANGED <<input, loops>>

EndOfRound ==
  /\ pc = "undefs"
  /\ queue = {}
  /\ pc' = "inner"
  /\ UNCHANGED <<input, table, loops, queue>>

\* Mutant: the loop ends after one tentative definition.
MutResolveTentative(n) ==
  /\ pc = "tents"
  /\ IsNext(n)
  /\ queue' = {}
  /\ IF def[n] = "tentative"
     THEN SearchLibraries(n, env.commons = "useDylibs", TRUE) ELSE Skip
  /\ UNCHANGED <<input, loops>>

ResolveTentative(n) ==
  /\ pc = "tents"
  /\ IsNext(n)
  /\ queue' = queue \ {n}
  /\ IF def[n] = "tentative"
     THEN SearchLibraries(n, env.commons = "useDylibs", TRUE) ELSE Skip
  /\ UNCHANGED <<input, loops>>

\* Mutant: the outer loop runs once.
MutOuterTest ==
  /\ pc = "tents"
  /\ queue = {}
  /\ pc' = "options"
  /\ queue' = IF optionLibs # {} THEN Undefs ELSE {}
  /\ UNCHANGED <<input, table, loops>>

\* The outer while; after it, one pass for the libraries of linker options.
OuterTest ==
  /\ pc = "tents"
  /\ queue = {}
  /\ IF outerGen # UpdateCount
     THEN pc' = "inner" /\ innerGen' = Never /\ UNCHANGED queue
     ELSE /\ pc' = "options"
          /\ queue' = IF optionLibs # {} THEN Undefs ELSE {}
          /\ UNCHANGED innerGen
  /\ UNCHANGED <<input, table, outerGen>>

ResolveWithOptions(n) ==
  /\ pc = "options"
  /\ IsNext(n)
  /\ queue' = queue \ {n}
  /\ IF def[n] = "undefined" THEN SearchLibraries(n, TRUE, FALSE) ELSE Skip
  /\ UNCHANGED <<input, loops>>

EndOfOptions ==
  /\ pc = "options"
  /\ queue = {}
  /\ pc' = "proxies"
  /\ UNCHANGED <<input, table, loops, queue>>

\* Unless undefined symbols are errors, each gets a proxy.
CreateProxies ==
  /\ pc = "proxies"
  /\ def' = IF env.undefs = "error" THEN def
            ELSE [n \in Names |-> IF def[n] = "undefined" THEN "proxy" ELSE def[n]]
  /\ pc' = "done"
  /\ UNCHANGED <<input, loaded, libs, optionLibs, loops, queue>>

Next ==
  \/ InnerTest \/ EndOfRound \/ OuterTest \/ EndOfOptions \/ CreateProxies
  \/ \E n \in Names : ResolveUndefine(n) \/ ResolveTentative(n) \/ ResolveWithOptions(n)

Spec == Init /\ [][Next]_vars
\* One thread runs to completion: no loop stops while it has a step to take.
FairSpec == Spec /\ WF_vars(Next)
-----------------------------------------------------------------------------
(* Properties.                                                             *)

\* Type invariant of what the loops of resolveAllUndefines change: a conflict is
\* found in the table only once it was thrown.
TypeOK ==
  /\ def \in [Names -> States \cup {"conflict"}]
  /\ (\E n \in Names : def[n] = "conflict") => pc = "thrown"
  /\ loaded \subseteq Members
  /\ libs \in Seq(Libs)
  /\ optionLibs \subseteq Libs
  /\ {outerGen, innerGen} \subseteq {Never} \cup 0 .. Cardinality(Names)
  /\ queue \subseteq Slots
  /\ pc \in {"inner", "undefs", "tents", "options", "proxies", "done", "thrown"}

\* No library of the search list has anything for a name.
Searched(n) ==
  \A i \in 1 .. Len(libs) :
    ~ArchiveHit(libs[i], n, FALSE) /\ env.exports[libs[i]][n] = "no"

\* When the searching ends, no name is undefined that a library of the search
\* list could define: "ld-classic will continually search a static library while
\* linking" (doc/man/man1/ld-classic.1:53).
AllSearched == pc = "proxies" => \A n \in Undefs : Searched(n)

\* The same for links without linker options, where the loops of
\* resolveAllUndefines are all the searching there is (Resolver.cpp:988).
LoopsSearchAll ==
  pc = "proxies" /\ optionLibs = {} => \A n \in Undefs : Searched(n)

\* A member that is not loaded yet has data for a name.
DataLeft(n) == \E i \in 1 .. Len(libs) : ArchiveHit(libs[i], n, TRUE)

Exported(n) == \E i \in 1 .. Len(libs) : env.exports[libs[i]][n] # "no"
ExportedStrongly(n) == \E i \in 1 .. Len(libs) : env.exports[libs[i]][n] = "strong"
NotLoaded(n) == \A m \in loaded : member[m].defs[n] = "no"

\* When the searching ends, no tentative definition is left that a member not yet
\* loaded defines as data: "need to search archives for overrides of common
\* symbols" (Resolver.cpp:1003).  This is about links without linker options and
\* names that no dylib exports: a common symbol that takes the place of a proxy
\* during the last search is not looked up.
LoopsOverrideCommons ==
  pc = "proxies" /\ optionLibs = {} =>
    \A n \in Tentatives : ~Exported(n) => ~DataLeft(n)

\* In links without linker options, a weak export of one dylib is taken only if
\* no dylib of the search list exports the name strongly (names that a loaded
\* member defines aside): "else continue search for a non-weak definition"
\* (InputFiles.cpp:1433).
WeakOnlyAsLastResort ==
  pc = "proxies" /\ optionLibs = {} =>
    \A n \in Names : def[n] = "weakProxy" /\ NotLoaded(n) => ~ExportedStrongly(n)

\* A member is loaded only if its table of contents lists a name that is
\* undefined at that time, or tentative where the member has data for it: "will
\* only pull .o files out of a static library if needed to resolve some symbol
\* reference" (ld-classic.1:51).
OnlyNeededLoaded ==
  [][\A m \in loaded' \ loaded : \E n \in member[m].toc :
       def[n] = "undefined" \/ (def[n] = "tentative" /\ member[m].defs[n] = "data")]_vars

\* How far the loops are from their end if no further slot is added.
LoopRank ==
  IF pc = "tents" THEN (IF outerGen = UpdateCount THEN 4 ELSE 8)
  ELSE IF pc = "undefs" THEN (IF innerGen = UpdateCount THEN 6 ELSE 8)
  ELSE IF pc = "inner" THEN (IF innerGen = UpdateCount THEN 5 ELSE 7)
  ELSE IF pc = "options" THEN 3
  ELSE IF pc = "proxies" THEN 2 ELSE 0

\* A slot is added, or the loops come closer to their end, or the list they go
\* through gets shorter; and no slot is removed.
Closer ==
  /\ Slots \subseteq Slots'
  /\ \/ Slots' # Slots
     \/ LoopRank' < LoopRank
     \/ LoopRank' = LoopRank /\ queue' \subseteq queue /\ queue' # queue

\* The generation counts of resolveAllUndefines never start a round in vain: every
\* step brings the loops closer to their end, so that only finitely many steps are
\* possible, whatever members load each other.
NoIdleRound == [][Closer]_vars

\* resolveAllUndefines ends, whatever members load each other.
Terminates == <>(pc \in {"done", "thrown"})
-----------------------------------------------------------------------------
(* The inductive invariant.                                                *)

\* The input is one of those to explore, and never changes.
InputInv == member \in [Members -> MemberChoices] /\ env \in Settings

\* A round is finished if it has added no slot: the count it started with is the
\* present one.
CountInv ==
  /\ pc = "undefs" => innerGen \in 0 .. UpdateCount
  /\ pc = "tents" => outerGen \in 0 .. UpdateCount

Over == pc \in {"done", "thrown"}

\* An undefined name was searched for, unless it is on the list of this round or
\* there will be another round.
SearchInv ==
  \A n \in Undefs :
    \/ Searched(n) \/ Over
    \/ pc = "inner" /\ innerGen # UpdateCount
    \/ pc = "undefs" /\ (n \in queue \/ innerGen # UpdateCount)
    \/ pc = "tents" /\ outerGen # UpdateCount

\* The same for tentative definitions, which the outer loop looks at.
CommonsInv ==
  \A n \in Tentatives :
    \/ Exported(n) \/ ~DataLeft(n) \/ Over
    \/ pc \in {"inner", "undefs"}
    \/ pc = "tents" /\ (n \in queue \/ outerGen # UpdateCount)

\* Proxies stand for exports, weak ones for names that are nowhere exported
\* strongly.
ProxyInv ==
  ~Over => \A n \in Names :
    /\ IsProxy(def[n]) => Exported(n)
    /\ def[n] = "weakProxy" /\ NotLoaded(n) => ~ExportedStrongly(n)

IInv ==
  /\ TypeOK /\ InputInv /\ CountInv
  /\ optionLibs = {} =>
       SearchInv /\ CommonsInv /\ ProxyInv /\ (pc = "options" => queue = {})
=============================================================================
