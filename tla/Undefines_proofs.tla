-------------------------- MODULE Undefines_proofs --------------------------
(***************************************************************************)
(* What is proved about Undefines, for any archives, dylibs, names and     *)
(* options: the inductive invariant IInv, and from it that the loops of    *)
(* resolveAllUndefines miss nothing.                                       *)
(***************************************************************************)
EXTENDS Undefines, FiniteSetTheorems, WellFoundedInduction, TLAPS
-----------------------------------------------------------------------------
(* The operators.                                                          *)

Held == States \cup {"conflict"}

\* A set of numbers has a least one.
LEMMA Least ==
  ASSUME NEW T, T \subseteq Nat, T # {}
  PROVE  \E x \in T : \A y \in T : x <= y
<1>1. PICK x \in T : \A y \in T : ~(<<y, x>> \in OpToRel(<, Nat))
  BY NatLessThanWellFounded, WFMin, Zenon
<1>2. \A y \in T : ~(y < x)
  BY <1>1, Zenon DEF OpToRel
<1>3. QED
  BY <1>2

\* That is the one that Min chooses.
LEMMA MinFacts ==
  ASSUME NEW T, T \subseteq Nat, T # {}
  PROVE  Min(T) \in T
BY Least, Zenon DEF Min

\* addByName makes a slot hold a definition, and a proxy only from a proxy; a weak
\* proxy gives way.
LEMMA MergeFacts ==
  ASSUME NEW old \in Held, NEW new \in {"weakProxy", "proxy", "tentative", "defined"}
  PROVE  /\ Merge(old, new) \in Held \ {"absent", "undefined"}
         /\ IsProxy(Merge(old, new)) => IsProxy(old) \/ IsProxy(new)
         /\ Merge(old, new) = "weakProxy" =>
              new = "weakProxy" \/ (old = "weakProxy" /\ new # "proxy")
         /\ old = "defined" \/ new = "defined" => Merge(old, new) = "defined"
BY Zenon DEF Merge, IsProxy, Held, States

\* What the table of contents finds is in the archive and lists the name.
LEMMA TocFinds ==
  ASSUME NEW l, NEW n, Toc(l, n) # NoMember
  PROVE  /\ Toc(l, n) \in Members
         /\ member[Toc(l, n)].lib = l /\ n \in member[Toc(l, n)].toc
<1> DEFINE Found == {m \in Members : member[m].lib = l /\ n \in member[m].toc}
<1>1. Found # {} /\ Toc(l, n) = Min(Found)
  BY Zenon DEF Toc
<1>2. Found \subseteq Nat
  BY ConstantsOK, Zenon
<1>3. Toc(l, n) \in Found
  BY <1>1, <1>2, MinFacts, Zenon
<1>4. QED
  BY <1>3, Zenon

\* A search stops at the first library that has something, or goes past the end.
LEMMA StopPosFacts ==
  ASSUME libs \in Seq(Libs), NEW n, NEW dylibs, NEW dataOnly
  PROVE  LET i == StopPos(n, dylibs, dataOnly) IN
           /\ i \in 1 .. Len(libs) + 1
           /\ i > Len(libs) => \A j \in 1 .. Len(libs) : ~StopsAt(j, n, dylibs, dataOnly)
           /\ i <= Len(libs) => StopsAt(i, n, dylibs, dataOnly)
<1> DEFINE Stops == {i \in 1 .. Len(libs) : StopsAt(i, n, dylibs, dataOnly)}
<1>1. StopPos(n, dylibs, dataOnly) =
        IF Stops = {} THEN Len(libs) + 1 ELSE Min(Stops)
  BY Zenon DEF StopPos
<1>2. Len(libs) \in Nat /\ Stops \subseteq Nat
  OBVIOUS
<1>3. CASE Stops = {}
  <2>1. StopPos(n, dylibs, dataOnly) = Len(libs) + 1
    BY <1>1, <1>3, Zenon
  <2>2. QED
    BY <1>2, <1>3, <2>1
<1>4. CASE Stops # {}
  <2>1. StopPos(n, dylibs, dataOnly) \in Stops
    BY <1>1, <1>2, <1>4, MinFacts, Zenon
  <2>2. QED
    BY <1>2, <2>1
<1>5. QED
  BY <1>3, <1>4, Zenon

\* The libraries of linker options that join the search list are libraries; without
\* linker options there are none.
LEMMA SortedFacts ==
  ASSUME NEW S, S \subseteq Libs, NEW s \in Sorted(S), NEW q \in Seq(Libs)
  PROVE  /\ q \o s \in Seq(Libs)
         /\ S = {} => q \o s = q
<1>1. IsFiniteSet(S)
  BY ConstantsOK, FS_Subset, Zenon
<1>2. Cardinality(S) \in Nat
  BY <1>1, FS_CardinalityType, Zenon
<1>3. s \in [1 .. Cardinality(S) -> S]
  BY Zenon DEF Sorted
<1>4. s \in Seq(Libs) /\ Len(s) = Cardinality(S)
  BY <1>2, <1>3
<1>5. q \o s \in Seq(Libs)
  BY <1>4
<1>6. ASSUME S = {}
      PROVE  q \o s = q
  <2>1. Len(s) = 0
    BY <1>4, <1>6, FS_EmptySet, Zenon
  <2>2. s = << >>
    BY <1>4, <2>1
  <2>3. QED
    BY <2>2
<1>7. QED
  BY <1>5, <1>6, Zenon
-----------------------------------------------------------------------------
(* searchLibraries.                                                        *)

\* The search finds no library that ends it.
Miss(n, d, dylibs, dataOnly) ==
  /\ \A j \in 1 .. Len(libs) : ~StopsAt(j, n, dylibs, dataOnly)
  /\ dylibs /\ (\E j \in 1 .. Len(libs) : env.exports[libs[j]][n] = "weak") =>
       d[n] = Merge(def[n], "weakProxy")
  /\ Settle(WithBoundary(d, n), pc)
  /\ UNCHANGED <<loaded, libs, optionLibs>>

\* It ends at an archive, from which it loads a member.
Load(n, d, dataOnly, m) ==
  /\ m \notin loaded /\ n \in member[m].toc
  /\ dataOnly => member[m].defs[n] = "data"
  /\ Settle(WithBoundary(AfterMember(d, m), n), pc)
  /\ loaded' = loaded \cup {m}
  /\ AddLinkerOptionLibraries(m)

\* It ends at a dylib that exports the name strongly.
Export(n, d) ==
  /\ Exported(n)
  /\ Settle([d EXCEPT ![n] = Merge(@, "proxy")], pc)
  /\ UNCHANGED <<loaded, libs, optionLibs>>

\* What weak exports make of the table.
Weakened(n, d, dylibs) ==
  \/ d = def
  \/ dylibs /\ Exported(n) /\ d = [def EXCEPT ![n] = Merge(@, "weakProxy")]

\* A search finds nothing, loads a member or takes an export, after what weak
\* exports did (searchLibraries).
LEMMA SearchCases ==
  ASSUME TypeOK, InputInv, NEW n \in Names, NEW dylibs, NEW dataOnly,
         SearchLibraries(n, dylibs, dataOnly)
  PROVE  \E d : /\ Weakened(n, d, dylibs)
                /\ \/ Miss(n, d, dylibs, dataOnly)
                   \/ \E m \in Members : Load(n, d, dataOnly, m)
                   \/ dylibs /\ Export(n, d)
<1>1. libs \in Seq(Libs) /\ Len(libs) \in Nat /\ def \in [Names -> Held]
  BY DEF TypeOK, Held
<1>2. PICK i : i = StopPos(n, dylibs, dataOnly)
  BY Zenon
<1>3. /\ i \in 1 .. Len(libs) + 1
      /\ i > Len(libs) => \A j \in 1 .. Len(libs) : ~StopsAt(j, n, dylibs, dataOnly)
      /\ i <= Len(libs) => StopsAt(i, n, dylibs, dataOnly)
  BY <1>1, <1>2, StopPosFacts, Zenon
<1>4. PICK d : d = AfterWeak(n, dylibs, i)
  BY Zenon
<1>5. Weakened(n, d, dylibs)
  <2>1. CASE dylibs /\ \E j \in 1 .. i - 1 : env.exports[libs[j]][n] = "weak"
    <3>1. PICK j \in 1 .. Len(libs) : env.exports[libs[j]][n] = "weak"
      BY <1>1, <1>3, <2>1
    <3>2. Exported(n)
      BY <3>1, Zenon DEF Exported
    <3>3. QED
      BY <1>4, <2>1, <3>2, Zenon DEF AfterWeak, Weakened
  <2>2. CASE ~(dylibs /\ \E j \in 1 .. i - 1 : env.exports[libs[j]][n] = "weak")
    BY <1>4, <2>2, Zenon DEF AfterWeak, Weakened
  <2>3. QED
    BY <2>1, <2>2, Zenon
<1>6. CASE i > Len(libs)
  <2>1. Settle(WithBoundary(d, n), pc) /\ UNCHANGED <<loaded, libs, optionLibs>>
    BY <1>2, <1>4, <1>6, Zenon DEF SearchLibraries
  <2>2. i - 1 = Len(libs)
    BY <1>1, <1>3, <1>6
  <2>3. dylibs /\ (\E j \in 1 .. Len(libs) : env.exports[libs[j]][n] = "weak") =>
          d[n] = Merge(def[n], "weakProxy")
    BY <1>1, <1>4, <2>2, Zenon DEF AfterWeak
  <2>4. Miss(n, d, dylibs, dataOnly)
    BY <1>3, <1>6, <2>1, <2>3, Zenon DEF Miss
  <2>5. QED
    BY <1>5, <2>4, Zenon
<1>7. CASE i <= Len(libs) /\ ArchiveHit(libs[i], n, dataOnly)
  <2>1. PICK m : m = Toc(libs[i], n)
    BY Zenon
  <2>2. /\ m # NoMember /\ m \notin loaded
        /\ dataOnly => member[m].defs[n] = "data"
    BY <1>7, <2>1, Zenon DEF ArchiveHit
  <2>3. m \in Members /\ n \in member[m].toc
    BY <2>1, <2>2, TocFinds, Zenon
  <2>4. /\ Settle(WithBoundary(AfterMember(d, m), n), pc)
        /\ LoadMember(m) /\ AddLinkerOptionLibraries(m)
    <3>1. ~(i > Len(libs))
      BY <1>1, <1>3, <1>7
    <3>2. QED
      BY <1>2, <1>4, <1>7, <2>1, <3>1, Zenon DEF SearchLibraries
  <2>5. Load(n, d, dataOnly, m)
    BY <2>2, <2>3, <2>4, Zenon DEF Load, LoadMember
  <2>6. QED
    BY <1>5, <2>3, <2>5, Zenon
<1>8. CASE i <= Len(libs) /\ ~ArchiveHit(libs[i], n, dataOnly)
  <2>1. dylibs /\ env.exports[libs[i]][n] = "strong"
    BY <1>3, <1>8, Zenon DEF StopsAt
  <2>2. i \in 1 .. Len(libs) /\ ~(i > Len(libs))
    BY <1>1, <1>3, <1>8
  <2>3. Exported(n)
    BY <2>1, <2>2, Zenon DEF Exported
  <2>4. /\ Settle([d EXCEPT ![n] = Merge(@, "proxy")], pc)
        /\ UNCHANGED <<loaded, libs, optionLibs>>
    BY <1>2, <1>4, <1>8, <2>2, Zenon DEF SearchLibraries
  <2>5. QED
    BY <1>5, <2>1, <2>3, <2>4, Zenon DEF Export
<1>9. QED
  BY <1>1, <1>3, <1>6, <1>7, <1>8

\* What a search for n may make of a table a: no slot goes away, only new slots are
\* undefined, a definition stays one, and only n gets a proxy.
Grows(n, a, b) ==
  /\ b \in [Names -> Held]
  /\ \A k \in Names :
       /\ a[k] # "absent" => b[k] # "absent"
       /\ b[k] = "undefined" => a[k] \in {"undefined", "absent"}
       /\ a[k] = "defined" => b[k] = "defined"
       /\ IsProxy(b[k]) => IsProxy(a[k]) \/ k = n
       /\ b[k] = "weakProxy" => a[k] = "weakProxy" \/ k = n

\* This composes.
LEMMA GrowsOn ==
  ASSUME NEW n, NEW a, NEW b, NEW c, Grows(n, a, b), Grows(n, b, c)
  PROVE  Grows(n, a, c)
BY Zenon DEF Grows

\* One more definition of n.
LEMMA GrowsByName ==
  ASSUME NEW n \in Names, NEW a \in [Names -> Held], NEW new \in {"weakProxy", "proxy"}
  PROVE  /\ Grows(n, a, [a EXCEPT ![n] = Merge(@, new)])
         /\ [a EXCEPT ![n] = Merge(@, new)][n] = Merge(a[n], new)
BY MergeFacts DEF Grows

\* The atoms of a member.
LEMMA GrowsByMember ==
  ASSUME InputInv, NEW n \in Names, NEW a \in [Names -> Held], NEW m \in Members,
         n \in member[m].toc
  PROVE  /\ Grows(n, a, AfterMember(a, m))
         /\ AfterMember(a, m)[n] = Merge(a[n], AsDefinition(member[m].defs[n]))
         /\ AsDefinition(member[m].defs[n]) \in {"tentative", "defined"}
         /\ member[m].defs[n] # "no"
<1>1. member[m] \in MemberChoices /\ member[m] \in MemberType
  BY ConstantsOK, Zenon DEF InputInv
<1>2. member[m].defs \in [Names -> {"no", "data", "code", "tentative"}]
  BY <1>1, Zenon DEF MemberType
<1>3. \A k \in Names : AsDefinition(member[m].defs[k]) \in {"tentative", "defined"}
  BY Zenon DEF AsDefinition
<1>4. member[m].defs[n] # "no"
  BY <1>1, TocOK, Zenon
<1>5. PICK b : b = WithDefinitions(a, m)
  BY Zenon
<1>6. b \in [Names -> Held] /\ \A k \in Names :
        b[k] = IF member[m].defs[k] = "no" THEN a[k]
               ELSE Merge(a[k], AsDefinition(member[m].defs[k]))
  BY <1>3, <1>5, MergeFacts, Zenon DEF WithDefinitions
<1>7. Grows(n, a, b)
  <2>1. SUFFICES ASSUME NEW k \in Names
                 PROVE  /\ a[k] # "absent" => b[k] # "absent"
                        /\ b[k] = "undefined" => a[k] \in {"undefined", "absent"}
                        /\ a[k] = "defined" => b[k] = "defined"
                        /\ IsProxy(b[k]) => IsProxy(a[k])
                        /\ b[k] = "weakProxy" => a[k] = "weakProxy"
    BY <1>6, Zenon DEF Grows
  <2>2. CASE member[m].defs[k] = "no"
    BY <1>6, <2>2, Zenon
  <2>3. CASE member[m].defs[k] # "no"
    <3>1. PICK new \in {"tentative", "defined"} : b[k] = Merge(a[k], new)
      BY <1>3, <1>6, <2>3, Zenon
    <3>2. QED
      BY <3>1, MergeFacts DEF IsProxy
  <2>4. QED
    BY <2>2, <2>3, Zenon
<1>8. b[n] = Merge(a[n], AsDefinition(member[m].defs[n])) /\ b[n] # "absent"
  BY <1>3, <1>4, <1>6, MergeFacts
<1>9. Grows(n, b, WithReferences(b, m)) /\ WithReferences(b, m)[n] = b[n]
  BY <1>6, <1>8, Zenon DEF WithReferences, Grows, Held, States, IsProxy
<1>10. Grows(n, a, WithReferences(b, m))
  BY <1>7, <1>9, GrowsOn, Zenon
<1>11. QED
  BY <1>3, <1>4, <1>5, <1>8, <1>9, <1>10, Zenon DEF AfterMember

\* A boundary atom.
LEMMA GrowsByBoundary ==
  ASSUME NEW n \in Names, NEW a \in [Names -> Held]
  PROVE  /\ Grows(n, a, WithBoundary(a, n))
         /\ WithBoundary(a, n)[n] \in {a[n], "defined"}
         /\ a[n] # "undefined" => WithBoundary(a, n)[n] = a[n]
BY Zenon DEF WithBoundary, Grows, Held, States, IsProxy

\* What a search does to the table and to the lists.
Search(n) ==
  /\ Grows(n, def, def')
  /\ pc' = IF \E k \in Names : def'[k] = "conflict" THEN "thrown" ELSE pc
  /\ loaded \subseteq loaded' /\ loaded' \subseteq Members
  /\ libs' \in Seq(Libs)
  /\ optionLibs \subseteq optionLibs' /\ optionLibs' \subseteq Libs
  /\ optionLibs' = {} => libs' = libs
  /\ IsProxy(def'[n]) => IsProxy(def[n]) \/ Exported(n)
  /\ def'[n] = "weakProxy" =>
       \/ def[n] = "weakProxy" \/ ~ExportedStrongly(n)
       \/ \E m \in loaded' : member[m].defs[n] # "no"

\* Every search does so.
LEMMA SearchFacts ==
  ASSUME TypeOK, InputInv, NEW n \in Names, NEW dylibs, NEW dataOnly,
         SearchLibraries(n, dylibs, dataOnly)
  PROVE  Search(n)
<1>1. /\ def \in [Names -> Held] /\ loaded \subseteq Members /\ libs \in Seq(Libs)
      /\ optionLibs \subseteq Libs
  BY Zenon DEF TypeOK, Held
<1>2. PICK d : /\ Weakened(n, d, dylibs)
               /\ \/ Miss(n, d, dylibs, dataOnly)
                  \/ \E m \in Members : Load(n, d, dataOnly, m)
                  \/ dylibs /\ Export(n, d)
  BY SearchCases, Zenon
<1>3. /\ d \in [Names -> Held] /\ Grows(n, def, d)
      /\ \/ d[n] = def[n]
         \/ dylibs /\ Exported(n)
  <2>1. CASE d = def
    BY <1>1, <2>1, Zenon DEF Grows
  <2>2. CASE dylibs /\ Exported(n) /\ d = [def EXCEPT ![n] = Merge(@, "weakProxy")]
    BY <1>1, <2>2, GrowsByName, Zenon DEF Grows
  <2>3. QED
    BY <1>2, <2>1, <2>2, Zenon DEF Weakened
<1>4. CASE Miss(n, d, dylibs, dataOnly)
  <2>1. /\ def' = WithBoundary(d, n)
        /\ pc' = IF \E k \in Names : def'[k] = "conflict" THEN "thrown" ELSE pc
        /\ UNCHANGED <<loaded, libs, optionLibs>>
    BY <1>4, Zenon DEF Miss, Settle
  <2>2. Grows(n, d, def') /\ def'[n] \in {d[n], "defined"}
    BY <1>3, <2>1, GrowsByBoundary, Zenon
  <2>3. Grows(n, def, def')
    BY <1>3, <2>2, GrowsOn, Zenon
  <2>4. IsProxy(def'[n]) => IsProxy(def[n]) \/ Exported(n)
    BY <1>3, <2>2, Zenon DEF IsProxy
  <2>5. def'[n] = "weakProxy" => def[n] = "weakProxy" \/ ~ExportedStrongly(n)
    <3>1. dylibs => ~ExportedStrongly(n)
      BY <1>4, Zenon DEF Miss, StopsAt, ExportedStrongly
    <3>2. QED
      BY <1>3, <2>2, <3>1, Zenon
  <2>6. QED
    BY <1>1, <2>1, <2>3, <2>4, <2>5, Zenon DEF Search
<1>5. ASSUME NEW m \in Members, Load(n, d, dataOnly, m)
      PROVE  Search(n)
  <2>1. PICK e : e = AfterMember(d, m)
    BY Zenon
  <2>2. /\ def' = WithBoundary(e, n)
        /\ pc' = IF \E k \in Names : def'[k] = "conflict" THEN "thrown" ELSE pc
        /\ loaded' = loaded \cup {m} /\ n \in member[m].toc
    BY <1>5, <2>1, Zenon DEF Load, Settle
  <2>3. PICK new \in {"tentative", "defined"} : e[n] = Merge(d[n], new)
    BY <1>3, <2>1, <2>2, GrowsByMember, Zenon
  <2>4. Grows(n, d, e) /\ member[m].defs[n] # "no"
    BY <1>3, <2>1, <2>2, GrowsByMember, Zenon
  <2>5. e \in [Names -> Held]
    BY <2>4, Zenon DEF Grows
  <2>6. Grows(n, e, def') /\ def'[n] \in {e[n], "defined"}
    BY <2>2, <2>5, GrowsByBoundary, Zenon
  <2>7. Grows(n, def, def')
    BY <1>3, <2>4, <2>6, GrowsOn, Zenon
  <2>8. IsProxy(def'[n]) => IsProxy(def[n]) \/ Exported(n)
    BY <1>3, <2>3, <2>6, MergeFacts DEF IsProxy
  <2>9. PICK s \in Sorted(AddedLibs(member[m].opts, libs, optionLibs)) : libs' = libs \o s
    BY <1>5, Zenon DEF Load, AddLinkerOptionLibraries
  <2>10. optionLibs' = optionLibs \cup member[m].opts /\ member[m].opts \subseteq Libs
    <3>1. member[m] \in MemberType
      BY ConstantsOK, Zenon DEF InputInv
    <3>2. QED
      BY <1>5, <3>1, Zenon DEF Load, AddLinkerOptionLibraries, MemberType
  <2>11. /\ AddedLibs(member[m].opts, libs, optionLibs) \subseteq Libs
         /\ member[m].opts = {} => AddedLibs(member[m].opts, libs, optionLibs) = {}
    BY <2>10, Zenon DEF AddedLibs
  <2>12. libs' \in Seq(Libs) /\ (optionLibs' = {} => libs' = libs)
    BY <1>1, <2>9, <2>10, <2>11, SortedFacts, Zenon
  <2>13. QED
    BY <1>1, <2>2, <2>4, <2>7, <2>8, <2>10, <2>12, Zenon DEF Search
<1>6. CASE dylibs /\ Export(n, d)
  <2>1. /\ def' = [d EXCEPT ![n] = Merge(@, "proxy")]
        /\ pc' = IF \E k \in Names : def'[k] = "conflict" THEN "thrown" ELSE pc
        /\ UNCHANGED <<loaded, libs, optionLibs>> /\ Exported(n)
    BY <1>6, Zenon DEF Export, Settle
  <2>2. Grows(n, d, def') /\ def'[n] = Merge(d[n], "proxy")
    BY <1>3, <2>1, GrowsByName, Zenon
  <2>3. Grows(n, def, def')
    BY <1>3, <2>2, GrowsOn, Zenon
  <2>4. def'[n] # "weakProxy"
    BY <1>3, <2>2, MergeFacts
  <2>5. QED
    BY <1>1, <2>1, <2>3, <2>4, Zenon DEF Search
<1>7. QED
  BY <1>2, <1>4, <1>5, <1>6, Zenon

\* What a search loads lists the name, as data if it must.
LEMMA SearchLoads ==
  ASSUME TypeOK, InputInv, NEW n \in Names, NEW dylibs, NEW dataOnly,
         SearchLibraries(n, dylibs, dataOnly), NEW m \in loaded' \ loaded
  PROVE  n \in member[m].toc /\ (dataOnly => member[m].defs[n] = "data")
<1>1. PICK d : /\ Weakened(n, d, dylibs)
               /\ \/ Miss(n, d, dylibs, dataOnly)
                  \/ \E k \in Members : Load(n, d, dataOnly, k)
                  \/ dylibs /\ Export(n, d)
  BY SearchCases, Zenon
<1>2. PICK k \in Members : Load(n, d, dataOnly, k)
  BY <1>1, Zenon DEF Miss, Export
<1>3. m = k
  BY <1>2, Zenon DEF Load
<1>4. QED
  BY <1>2, <1>3, Zenon DEF Load

\* A search for an undefined name that leaves it undefined has found nothing.
LEMMA UndefineSearched ==
  ASSUME TypeOK, InputInv, NEW n \in Names, def[n] = "undefined",
         SearchLibraries(n, TRUE, FALSE), def'[n] = "undefined"
  PROVE  Searched(n) /\ loaded' = loaded
<1>1. def \in [Names -> Held] /\ libs \in Seq(Libs)
  BY Zenon DEF TypeOK, Held
<1>2. PICK d : /\ Weakened(n, d, TRUE)
               /\ \/ Miss(n, d, TRUE, FALSE)
                  \/ \E m \in Members : Load(n, d, FALSE, m)
                  \/ Export(n, d)
  BY SearchCases, Zenon
<1>3. d \in [Names -> Held]
  BY <1>1, <1>2, GrowsByName DEF Weakened, Grows
<1>4. ~Export(n, d)
  BY <1>3, MergeFacts, GrowsByName DEF Export, Settle
<1>5. ASSUME NEW m \in Members, Load(n, d, FALSE, m)
      PROVE  FALSE
  <2>1. PICK e : e = AfterMember(d, m)
    BY Zenon
  <2>2. e \in [Names -> Held] /\ e[n] # "undefined"
    BY <1>3, <1>5, <2>1, GrowsByMember, MergeFacts DEF Load, Grows
  <2>3. def' = WithBoundary(e, n)
    BY <1>5, <2>1, Zenon DEF Load, Settle
  <2>4. QED
    BY <2>2, <2>3, GrowsByBoundary, Zenon
<1>6. Miss(n, d, TRUE, FALSE)
  BY <1>2, <1>4, <1>5, Zenon
<1>7. d[n] = "undefined"
  BY <1>3, <1>6, GrowsByBoundary, Zenon DEF Miss, Settle
<1>8. ASSUME NEW j \in 1 .. Len(libs)
      PROVE  ~ArchiveHit(libs[j], n, FALSE) /\ env.exports[libs[j]][n] = "no"
  <2>1. ~ArchiveHit(libs[j], n, FALSE) /\ env.exports[libs[j]][n] # "strong"
    BY <1>6, Zenon DEF Miss, StopsAt
  <2>2. env.exports[libs[j]][n] # "weak"
    BY <1>1, <1>6, <1>7, MergeFacts DEF Miss
  <2>3. env.exports[libs[j]][n] \in {"no", "weak", "strong"}
    <3>1. env \in SettingType /\ libs[j] \in Libs
      BY <1>1, ConstantsOK DEF InputInv
    <3>2. QED
      BY <3>1 DEF SettingType
  <2>4. QED
    BY <2>1, <2>2, <2>3, Zenon
<1>9. QED
  BY <1>6, <1>8, Zenon DEF Searched, Miss

\* A search for data that leaves a tentative definition has found none, or a dylib
\* exports the name.
LEMMA TentativeSearched ==
  ASSUME TypeOK, InputInv, NEW n \in Names, NEW dylibs,
         SearchLibraries(n, dylibs, TRUE), def'[n] = "tentative"
  PROVE  Exported(n) \/ (~DataLeft(n) /\ loaded' = loaded)
<1>1. def \in [Names -> Held] /\ libs \in Seq(Libs)
  BY Zenon DEF TypeOK, Held
<1>2. PICK d : /\ Weakened(n, d, dylibs)
               /\ \/ Miss(n, d, dylibs, TRUE)
                  \/ \E m \in Members : Load(n, d, TRUE, m)
                  \/ dylibs /\ Export(n, d)
  BY SearchCases, Zenon
<1>3. d \in [Names -> Held]
  BY <1>1, <1>2, GrowsByName DEF Weakened, Grows
<1>4. ASSUME NEW m \in Members, Load(n, d, TRUE, m)
      PROVE  FALSE
  <2>1. PICK e : e = AfterMember(d, m)
    BY Zenon
  <2>2. e[n] = Merge(d[n], AsDefinition(member[m].defs[n])) /\ e \in [Names -> Held]
    BY <1>3, <1>4, <2>1, GrowsByMember DEF Load, Grows
  <2>3. e[n] = "defined"
    BY <1>3, <1>4, <2>2, MergeFacts, Zenon DEF Load, AsDefinition
  <2>4. def' = WithBoundary(e, n)
    BY <1>4, <2>1, Zenon DEF Load, Settle
  <2>5. QED
    BY <2>2, <2>3, <2>4, GrowsByBoundary, Zenon
<1>5. CASE Miss(n, d, dylibs, TRUE)
  BY <1>5, Zenon DEF Miss, StopsAt, DataLeft
<1>6. CASE Export(n, d)
  BY <1>6, Zenon DEF Export
<1>7. QED
  BY <1>2, <1>4, <1>5, <1>6, Zenon
-----------------------------------------------------------------------------
(* What a step keeps, when the search list is the same and members are only *)
(* added to those loaded.                                                   *)

\* A table of contents finds what it found before.
LEMMA TocStays ==
  ASSUME member' = member, NEW l, NEW n
  PROVE  Toc(l, n)' = Toc(l, n)
<1>1. {m \in Members : member'[m].lib = l /\ n \in member'[m].toc}
        = {m \in Members : member[m].lib = l /\ n \in member[m].toc}
  BY Zenon
<1>2. QED
  BY <1>1, Zenon DEF Toc

\* No archive has anything for a name that it did not have before.
LEMMA HitsVanish ==
  ASSUME UNCHANGED input, libs' = libs, loaded \subseteq loaded', NEW n,
         NEW i \in 1 .. Len(libs)
  PROVE  /\ ArchiveHit(libs[i], n, FALSE)' => ArchiveHit(libs[i], n, FALSE)
         /\ ArchiveHit(libs[i], n, TRUE)' => ArchiveHit(libs[i], n, TRUE)
<1>1. PICK l : l = libs[i] /\ l = libs'[i]
  BY Zenon
<1>2. PICK m : m = Toc(l, n) /\ m = Toc(l, n)'
  BY TocStays, Zenon DEF input
<1>3. member' = member
  BY Zenon DEF input
<1>4. QED
  BY <1>1, <1>2, <1>3, Zenon DEF ArchiveHit, Toc

\* What was searched for needs no other search, and proxies stand for what they
\* stood for.
LEMMA FactsStay ==
  ASSUME UNCHANGED input, libs' = libs, loaded \subseteq loaded', NEW n
  PROVE  /\ Searched(n) => Searched(n)'
         /\ ~DataLeft(n) => ~DataLeft(n)'
         /\ Exported(n) => Exported(n)'
         /\ ~ExportedStrongly(n) => ~ExportedStrongly(n)'
         /\ NotLoaded(n)' => NotLoaded(n)
<1>1. member' = member /\ env' = env
  BY Zenon DEF input
<1>2. Searched(n) => Searched(n)'
  BY <1>1, HitsVanish, Zenon DEF Searched
<1>3. ~DataLeft(n) => ~DataLeft(n)'
  BY <1>1, HitsVanish, Zenon DEF DataLeft
<1>4. Exported(n) => Exported(n)'
  BY <1>1, Zenon DEF Exported
<1>5. ~ExportedStrongly(n) => ~ExportedStrongly(n)'
  BY <1>1, Zenon DEF ExportedStrongly
<1>6. NotLoaded(n)' => NotLoaded(n)
  BY <1>1, Zenon DEF NotLoaded
<1>7. QED
  BY <1>2, <1>3, <1>4, <1>5, <1>6, Zenon

\* What was searched for has no data left either.
LEMMA SearchedHasNoData ==
  ASSUME NEW n, Searched(n)
  PROVE  ~DataLeft(n)
BY Zenon DEF Searched, DataLeft, ArchiveHit

\* updateCount is a number, which counts at most all names and grows with the slots.
LEMMA CountType ==
  UpdateCount \in 0 .. Cardinality(Names)
<1>1. Slots \subseteq Names /\ IsFiniteSet(Names)
  BY ConstantsOK, Zenon DEF Slots
<1>2. IsFiniteSet(Slots) /\ Cardinality(Slots) <= Cardinality(Names)
  BY <1>1, FS_Subset, Zenon
<1>3. Cardinality(Slots) \in Nat /\ Cardinality(Names) \in Nat
  BY <1>1, <1>2, FS_CardinalityType, Zenon
<1>4. QED
  BY <1>2, <1>3 DEF UpdateCount

\* A name that gets a slot raises the count, which is how the loops notice.
LEMMA CountGrows ==
  ASSUME NEW n, Grows(n, def, def')
  PROVE  /\ UpdateCount' \in 0 .. Cardinality(Names)
         /\ UpdateCount' >= UpdateCount
         /\ \A k \in Names : def[k] = "absent" /\ def'[k] # "absent" =>
              UpdateCount' > UpdateCount
<1>1. PICK a : a = Slots
  BY Zenon
<1>2. PICK b : b = {k \in Names : def'[k] # "absent"}
  BY Zenon
<1>3. a \subseteq b /\ b \subseteq Names
  BY <1>1, <1>2, Zenon DEF Slots, Grows
<1>4. IsFiniteSet(Names) /\ IsFiniteSet(b)
  BY <1>3, ConstantsOK, FS_Subset, Zenon
<1>5. /\ IsFiniteSet(a) /\ Cardinality(a) <= Cardinality(b)
      /\ Cardinality(a) = Cardinality(b) => a = b
      /\ Cardinality(b) <= Cardinality(Names)
  BY <1>3, <1>4, FS_Subset, Zenon
<1>6. Cardinality(a) \in Nat /\ Cardinality(b) \in Nat /\ Cardinality(Names) \in Nat
  BY <1>4, <1>5, FS_CardinalityType, Zenon
<1>7. UpdateCount = Cardinality(a) /\ UpdateCount' = Cardinality(b)
  BY <1>1, <1>2, Zenon DEF UpdateCount, Slots
<1>8. ASSUME NEW k \in Names, def[k] = "absent", def'[k] # "absent"
      PROVE  a # b
  BY <1>1, <1>2, <1>8, Zenon DEF Slots
<1>9. QED
  BY <1>5, <1>6, <1>7, <1>8
-----------------------------------------------------------------------------
(* The steps keep the invariant.                                           *)

\* After the loops nothing is claimed any more.
LEMMA OverKeeps ==
  ASSUME pc' \in {"done", "thrown"}
  PROVE  SearchInv' /\ CommonsInv' /\ ProxyInv' /\ (pc' = "options" => queue' = {})
BY Zenon DEF SearchInv, CommonsInv, ProxyInv, Over

\* One name of a list, with what the loops need to know of the search for it.
LEMMA NameKeeps ==
  ASSUME IInv, NEW n \in Names, IsNext(n), pc \in {"undefs", "tents", "options"},
         queue' = queue \ {n}, UNCHANGED <<input, loops>>, Search(n),
         pc = "undefs" /\ def'[n] = "undefined" => Searched(n) /\ loaded' = loaded,
         pc = "tents" /\ def'[n] = "tentative" =>
           Exported(n) \/ (~DataLeft(n) /\ loaded' = loaded)
  PROVE  IInv'
<1>1. TypeOK /\ InputInv /\ CountInv
  BY Zenon DEF IInv
<1>2. /\ Grows(n, def, def') /\ def' \in [Names -> Held]
      /\ pc' = IF \E k \in Names : def'[k] = "conflict" THEN "thrown" ELSE pc
      /\ loaded \subseteq loaded' /\ loaded' \subseteq Members
      /\ libs' \in Seq(Libs)
      /\ optionLibs \subseteq optionLibs' /\ optionLibs' \subseteq Libs
      /\ optionLibs' = {} => libs' = libs
  BY Zenon DEF Search, Grows
<1>3. /\ UpdateCount \in 0 .. Cardinality(Names) /\ UpdateCount' \in 0 .. Cardinality(Names)
      /\ UpdateCount' >= UpdateCount
      /\ \A k \in Names : def[k] = "absent" /\ def'[k] # "absent" =>
           UpdateCount' > UpdateCount
  BY <1>2, CountType, CountGrows, Zenon
<1>4. member' = member /\ env' = env /\ outerGen' = outerGen /\ innerGen' = innerGen
  BY Zenon DEF input, loops
<1>5. TypeOK'
  <2>1. queue' \subseteq Slots'
    BY <1>1, <1>2, Zenon DEF TypeOK, Slots, Grows
  <2>2. (\E k \in Names : def'[k] = "conflict") => pc' = "thrown"
    BY <1>2, Zenon
  <2>3. pc' \in {"inner", "undefs", "tents", "options", "proxies", "done", "thrown"}
    BY <1>2, Zenon
  <2>4. QED
    BY <1>1, <1>2, <1>4, <2>1, <2>2, <2>3, Zenon DEF TypeOK, Held
<1>6. InputInv'
  BY <1>1, <1>4, Zenon DEF InputInv
<1>7. CountInv'
  <2>1. pc' \in {"undefs", "tents"} => pc = pc'
    BY <1>2, Zenon
  <2>2. QED
    BY <1>1, <1>3, <1>4, <2>1 DEF CountInv
<1>8. ASSUME optionLibs' = {}
      PROVE  SearchInv' /\ CommonsInv' /\ ProxyInv' /\ (pc' = "options" => queue' = {})
  <2>1. CASE pc' = "thrown"
    BY <2>1, OverKeeps, Zenon
  <2>2. CASE pc' # "thrown"
    <3>1. pc' = pc /\ optionLibs = {} /\ libs' = libs
      BY <1>2, <1>8, <2>2, Zenon
    <3>2. SearchInv /\ CommonsInv /\ ProxyInv /\ pc # "options"
      BY <3>1, Zenon DEF IInv, IsNext
    <3>3. pc \in {"undefs", "tents"}
      BY <3>2, Zenon
    <3>4. /\ pc = "undefs" => innerGen \in 0 .. UpdateCount
          /\ pc = "tents" => outerGen \in 0 .. UpdateCount
      BY <1>1, Zenon DEF CountInv
    <3>5. \A k \in Names : /\ Searched(k) => Searched(k)'
                           /\ ~DataLeft(k) => ~DataLeft(k)'
                           /\ Exported(k) => Exported(k)'
                           /\ ~ExportedStrongly(k) => ~ExportedStrongly(k)'
                           /\ NotLoaded(k)' => NotLoaded(k)
      BY <1>2, <3>1, FactsStay, Zenon
    <3>6. SearchInv'
      <4>1. SUFFICES ASSUME NEW k \in Names, def'[k] = "undefined"
                     PROVE  \/ Searched(k)'
                            \/ pc' = "undefs" /\ (k \in queue' \/ innerGen' # UpdateCount')
                            \/ pc' = "tents" /\ outerGen' # UpdateCount'
        BY Zenon DEF SearchInv, Undefs
      <4>2. CASE def[k] = "absent"
        BY <1>3, <1>4, <3>1, <3>3, <3>4, <4>1, <4>2
      <4>3. CASE def[k] = "undefined"
        <5>1. \/ Searched(k)
              \/ pc = "undefs" /\ (k \in queue \/ innerGen # UpdateCount)
              \/ pc = "tents" /\ outerGen # UpdateCount
          BY <3>2, <3>3, <4>3, Zenon DEF SearchInv, Undefs, Over
        <5>2. CASE Searched(k)
          BY <3>5, <5>2, Zenon
        <5>3. CASE pc = "undefs" /\ k \in queue
          BY <3>1, <3>5, <4>1, <5>3, Zenon
        <5>4. CASE \/ pc = "undefs" /\ innerGen # UpdateCount
                   \/ pc = "tents" /\ outerGen # UpdateCount
          BY <1>3, <1>4, <3>1, <3>4, <5>4
        <5>5. QED
          BY <5>1, <5>2, <5>3, <5>4, Zenon
      <4>4. QED
        BY <1>2, <4>1, <4>2, <4>3, Zenon DEF Grows
    <3>7. CommonsInv'
      <4>1. SUFFICES ASSUME NEW k \in Names, def'[k] = "tentative", pc = "tents"
                     PROVE  \/ Exported(k)' \/ ~DataLeft(k)'
                            \/ k \in queue' \/ outerGen' # UpdateCount'
        BY <3>1, <3>3, Zenon DEF CommonsInv, Tentatives
      <4>2. CASE def[k] = "absent"
        BY <1>3, <1>4, <3>4, <4>1, <4>2
      <4>3. CASE def[k] = "undefined"
        <5>1. Searched(k) \/ outerGen # UpdateCount
          BY <3>2, <4>1, <4>3, Zenon DEF SearchInv, Undefs, Over
        <5>2. CASE Searched(k)
          BY <3>5, <5>2, SearchedHasNoData, Zenon
        <5>3. CASE outerGen # UpdateCount
          BY <1>3, <1>4, <3>4, <4>1, <5>3
        <5>4. QED
          BY <5>1, <5>2, <5>3, Zenon
      <4>4. CASE IsProxy(def[k])
        BY <3>2, <3>3, <3>5, <4>4, Zenon DEF ProxyInv, Over
      <4>5. CASE def[k] = "tentative"
        <5>1. Exported(k) \/ ~DataLeft(k) \/ k \in queue \/ outerGen # UpdateCount
          BY <3>2, <4>1, <4>5, Zenon DEF CommonsInv, Tentatives, Over
        <5>2. CASE Exported(k) \/ ~DataLeft(k)
          BY <3>5, <5>2, Zenon
        <5>3. CASE k \in queue
          BY <3>5, <4>1, <5>3, Zenon
        <5>4. CASE outerGen # UpdateCount
          BY <1>3, <1>4, <3>4, <4>1, <5>4
        <5>5. QED
          BY <5>1, <5>2, <5>3, <5>4, Zenon
      <4>6. def[k] \in States \ {"defined"}
        <5>1. def[k] # "defined"
          BY <1>2, <4>1, Zenon DEF Grows
        <5>2. QED
          BY <1>1, <4>1, <5>1, Zenon DEF TypeOK
      <4>7. QED
        BY <4>2, <4>3, <4>4, <4>5, <4>6, Zenon DEF States, IsProxy
    <3>8. ProxyInv'
      <4>1. SUFFICES ASSUME NEW k \in Names
                     PROVE  /\ IsProxy(def'[k]) => Exported(k)'
                            /\ def'[k] = "weakProxy" /\ NotLoaded(k)' => ~ExportedStrongly(k)'
        BY Zenon DEF ProxyInv, IsProxy
      <4>2. /\ IsProxy(def[k]) => Exported(k)
            /\ def[k] = "weakProxy" /\ NotLoaded(k) => ~ExportedStrongly(k)
        BY <3>2, <3>3, Zenon DEF ProxyInv, Over
      <4>3. CASE k # n
        BY <1>2, <3>5, <4>2, <4>3, Zenon DEF Grows
      <4>4. CASE k = n
        <5>1. IsProxy(def'[n]) => Exported(n)'
          BY <3>5, <4>2, <4>4, Zenon DEF Search
        <5>2. ASSUME def'[n] = "weakProxy", NotLoaded(n)'
              PROVE  ~ExportedStrongly(n)
          <6>1. ~(\E m \in loaded' : member[m].defs[n] # "no")
            BY <1>4, <5>2, Zenon DEF NotLoaded
          <6>2. def[n] = "weakProxy" \/ ~ExportedStrongly(n)
            BY <5>2, <6>1, Zenon DEF Search
          <6>3. QED
            BY <3>5, <4>2, <4>4, <5>2, <6>2, Zenon
        <5>3. QED
          BY <3>5, <4>4, <5>1, <5>2, Zenon
      <4>5. QED
        BY <4>3, <4>4, Zenon
    <3>9. QED
      BY <3>1, <3>2, <3>6, <3>7, <3>8, Zenon
  <2>3. QED
    BY <2>1, <2>2, Zenon
<1>9. QED
  BY <1>5, <1>6, <1>7, <1>8, Zenon DEF IInv

\* A name that is skipped counts as a search that changes nothing.
LEMMA SkipSearch ==
  ASSUME TypeOK, NEW n \in Names, pc # "thrown", Skip
  PROVE  Search(n) /\ def' = def
<1>1. UNCHANGED <<def, loaded, libs, optionLibs, pc>>
  BY Zenon DEF Skip, table
<1>2. Grows(n, def, def')
  BY <1>1, Zenon DEF Grows, TypeOK, Held
<1>3. QED
  BY <1>1, <1>2, Zenon DEF Search, TypeOK

\* resolveCurrentUndefines and the pass for linker options keep the invariant.
LEMMA UndefineKeeps ==
  ASSUME IInv, NEW n \in Names, ResolveUndefine(n) \/ ResolveWithOptions(n)
  PROVE  IInv'
<1>1. TypeOK /\ InputInv
  BY Zenon DEF IInv
<1>2. /\ pc \in {"undefs", "options"} /\ IsNext(n) /\ queue' = queue \ {n}
      /\ UNCHANGED <<input, loops>>
  BY Zenon DEF ResolveUndefine, ResolveWithOptions
<1>3. CASE def[n] = "undefined" /\ SearchLibraries(n, TRUE, FALSE)
  <2>1. Search(n)
    BY <1>1, <1>3, SearchFacts, Zenon
  <2>2. def'[n] = "undefined" => Searched(n) /\ loaded' = loaded
    BY <1>1, <1>3, UndefineSearched, Zenon
  <2>3. QED
    BY <1>2, <2>1, <2>2, NameKeeps, Zenon
<1>4. CASE def[n] # "undefined" /\ Skip
  <2>1. Search(n) /\ def'[n] # "undefined"
    BY <1>1, <1>2, <1>4, SkipSearch, Zenon
  <2>2. QED
    BY <1>2, <2>1, NameKeeps, Zenon
<1>5. QED
  BY <1>3, <1>4, Zenon DEF ResolveUndefine, ResolveWithOptions

\* The search for overrides of common symbols keeps the invariant.
LEMMA TentativeKeeps ==
  ASSUME IInv, NEW n \in Names, ResolveTentative(n)
  PROVE  IInv'
<1>1. TypeOK /\ InputInv
  BY Zenon DEF IInv
<1>2. /\ pc = "tents" /\ IsNext(n) /\ queue' = queue \ {n}
      /\ UNCHANGED <<input, loops>>
  BY Zenon DEF ResolveTentative
<1>3. CASE SearchLibraries(n, env.commons = "useDylibs", TRUE)
  <2>1. Search(n)
    BY <1>1, <1>3, SearchFacts, Zenon
  <2>2. def'[n] = "tentative" => Exported(n) \/ (~DataLeft(n) /\ loaded' = loaded)
    BY <1>1, <1>3, TentativeSearched, Zenon
  <2>3. QED
    BY <1>2, <2>1, <2>2, NameKeeps, Zenon
<1>4. CASE def[n] # "tentative" /\ Skip
  <2>1. Search(n) /\ def'[n] # "tentative"
    BY <1>1, <1>2, <1>4, SkipSearch, Zenon
  <2>2. QED
    BY <1>2, <2>1, NameKeeps, Zenon
<1>5. QED
  BY <1>3, <1>4, Zenon DEF ResolveTentative

\* A step that does no search leaves what is known of the names as it is.
LEMMA SameTable ==
  ASSUME UNCHANGED <<input, table>>
  PROVE  /\ UNCHANGED <<member, env, def, loaded, libs, optionLibs>>
         /\ UpdateCount' = UpdateCount /\ Slots' = Slots
         /\ Undefs' = Undefs /\ Tentatives' = Tentatives
         /\ \A k \in Names : /\ Searched(k) => Searched(k)'
                             /\ ~DataLeft(k) => ~DataLeft(k)'
                             /\ Exported(k) => Exported(k)'
                             /\ ~ExportedStrongly(k) => ~ExportedStrongly(k)'
                             /\ NotLoaded(k)' => NotLoaded(k)
<1>1. UNCHANGED <<member, env, def, loaded, libs, optionLibs>>
  BY Zenon DEF input, table
<1>2. Slots' = Slots /\ Undefs' = Undefs /\ Tentatives' = Tentatives
  BY <1>1, Zenon DEF Slots, Undefs, Tentatives
<1>3. UpdateCount' = UpdateCount
  BY <1>2, Zenon DEF UpdateCount
<1>4. QED
  BY <1>1, <1>2, <1>3, FactsStay, Zenon

\* The tests and ends of the loops keep the invariant.
LEMMA LoopsKeep ==
  ASSUME IInv, InnerTest \/ EndOfRound \/ OuterTest \/ EndOfOptions
  PROVE  IInv'
<1>1. TypeOK /\ InputInv /\ CountInv
  BY Zenon DEF IInv
<1>2. UNCHANGED <<input, table>>
  BY Zenon DEF InnerTest, EndOfRound, OuterTest, EndOfOptions
<1>3. /\ UNCHANGED <<member, env, def, loaded, libs, optionLibs>>
      /\ UpdateCount' = UpdateCount /\ Slots' = Slots
      /\ Undefs' = Undefs /\ Tentatives' = Tentatives
      /\ \A k \in Names : /\ Searched(k) => Searched(k)'
                          /\ ~DataLeft(k) => ~DataLeft(k)'
                          /\ Exported(k) => Exported(k)'
                          /\ ~ExportedStrongly(k) => ~ExportedStrongly(k)'
                          /\ NotLoaded(k)' => NotLoaded(k)
  BY <1>2, SameTable, Zenon
<1>4. UpdateCount \in 0 .. Cardinality(Names) /\ UpdateCount # Never
  BY CountType DEF Never
<1>5. \/ /\ pc = "inner" /\ innerGen # UpdateCount /\ innerGen' = UpdateCount
         /\ queue' = Undefs /\ pc' = "undefs" /\ outerGen' = outerGen
      \/ /\ pc = "inner" /\ innerGen = UpdateCount /\ outerGen' = innerGen
         /\ queue' = Tentatives /\ pc' = "tents" /\ innerGen' = innerGen
      \/ /\ pc = "undefs" /\ queue = {} /\ pc' = "inner"
         /\ UNCHANGED <<outerGen, innerGen, queue>>
      \/ /\ pc = "tents" /\ queue = {} /\ outerGen # UpdateCount
         /\ pc' = "inner" /\ innerGen' = Never /\ UNCHANGED <<outerGen, queue>>
      \/ /\ pc = "tents" /\ queue = {} /\ outerGen = UpdateCount /\ pc' = "options"
         /\ queue' = (IF optionLibs # {} THEN Undefs ELSE {})
         /\ UNCHANGED <<outerGen, innerGen>>
      \/ /\ pc = "options" /\ queue = {} /\ pc' = "proxies"
         /\ UNCHANGED <<outerGen, innerGen, queue>>
  BY Zenon DEF InnerTest, EndOfRound, OuterTest, EndOfOptions, loops
<1>6. TypeOK'
  <2>1. Undefs \subseteq Slots /\ Tentatives \subseteq Slots
    BY Zenon DEF Undefs, Tentatives, Slots
  <2>2. queue' \subseteq Slots'
    BY <1>1, <1>3, <1>5, <2>1, Zenon DEF TypeOK
  <2>3. {outerGen', innerGen'} \subseteq {Never} \cup 0 .. Cardinality(Names)
    BY <1>1, <1>4, <1>5, Zenon DEF TypeOK
  <2>4. /\ pc' \in {"inner", "undefs", "tents", "options", "proxies"}
        /\ pc \in {"inner", "undefs", "tents", "options", "proxies"}
    BY <1>5, Zenon
  <2>5. QED
    BY <1>1, <1>3, <2>2, <2>3, <2>4, Zenon DEF TypeOK
<1>7. InputInv'
  BY <1>1, <1>3, Zenon DEF InputInv
<1>8. CountInv'
  BY <1>3, <1>4, <1>5 DEF CountInv
<1>9. ASSUME optionLibs' = {}
      PROVE  SearchInv' /\ CommonsInv' /\ ProxyInv' /\ (pc' = "options" => queue' = {})
  <2>1. SearchInv /\ CommonsInv /\ ProxyInv /\ optionLibs = {}
    BY <1>3, <1>9, Zenon DEF IInv
  <2>2. SearchInv'
    <3>1. SUFFICES ASSUME NEW k \in Undefs
                   PROVE  \/ Searched(k)'
                          \/ pc' = "inner" /\ innerGen' # UpdateCount'
                          \/ pc' = "undefs" /\ k \in queue'
      BY <1>3, Zenon DEF SearchInv
    <3>2. k \in Names
      BY Zenon DEF Undefs
    <3>3. \/ Searched(k)
          \/ pc = "inner" /\ innerGen # UpdateCount
          \/ pc = "undefs" /\ (k \in queue \/ innerGen # UpdateCount)
          \/ pc = "tents" /\ outerGen # UpdateCount
      BY <1>5, <2>1, Zenon DEF SearchInv, Over
    <3>4. QED
      BY <1>3, <1>4, <1>5, <3>2, <3>3, Zenon
  <2>3. CommonsInv'
    <3>1. SUFFICES ASSUME NEW k \in Tentatives
                   PROVE  \/ Exported(k)' \/ ~DataLeft(k)'
                          \/ pc' \in {"inner", "undefs"}
                          \/ pc' = "tents" /\ k \in queue'
      BY <1>3, Zenon DEF CommonsInv
    <3>2. k \in Names
      BY Zenon DEF Tentatives
    <3>3. \/ Exported(k) \/ ~DataLeft(k)
          \/ pc \in {"inner", "undefs"}
          \/ pc = "tents" /\ (k \in queue \/ outerGen # UpdateCount)
      BY <1>5, <2>1, Zenon DEF CommonsInv, Over
    <3>4. QED
      BY <1>3, <1>5, <3>2, <3>3, Zenon
  <2>4. ProxyInv'
    <3>1. SUFFICES ASSUME NEW k \in Names
                   PROVE  /\ IsProxy(def'[k]) => Exported(k)'
                          /\ def'[k] = "weakProxy" /\ NotLoaded(k)' => ~ExportedStrongly(k)'
      BY Zenon DEF ProxyInv, IsProxy
    <3>2. /\ IsProxy(def[k]) => Exported(k)
          /\ def[k] = "weakProxy" /\ NotLoaded(k) => ~ExportedStrongly(k)
      BY <1>5, <2>1, Zenon DEF ProxyInv, Over
    <3>3. QED
      BY <1>3, <3>2, Zenon
  <2>5. pc' = "options" => queue' = {}
    BY <1>5, <2>1, Zenon
  <2>6. QED
    BY <2>2, <2>3, <2>4, <2>5, Zenon
<1>10. QED
  BY <1>6, <1>7, <1>8, <1>9, Zenon DEF IInv

\* So does the end of resolveAllUndefines.
LEMMA ProxiesKeep ==
  ASSUME IInv, CreateProxies
  PROVE  IInv'
<1>1. TypeOK /\ InputInv
  BY Zenon DEF IInv
<1>2. /\ pc = "proxies" /\ pc' = "done"
      /\ def' = (IF env.undefs = "error" THEN def
                 ELSE [n \in Names |-> IF def[n] = "undefined" THEN "proxy" ELSE def[n]])
      /\ UNCHANGED <<member, env, loaded, libs, optionLibs, outerGen, innerGen, queue>>
  BY Zenon DEF CreateProxies, input, loops
<1>3. def \in [Names -> States]
  BY <1>1, <1>2, Zenon DEF TypeOK
<1>4. def' \in [Names -> States] /\ queue' \subseteq Slots'
  BY <1>1, <1>2, <1>3, Zenon DEF TypeOK, Slots, States
<1>5. TypeOK'
  BY <1>1, <1>2, <1>4, Zenon DEF TypeOK, States
<1>6. InputInv' /\ CountInv'
  BY <1>1, <1>2, Zenon DEF InputInv, CountInv
<1>7. QED
  BY <1>2, <1>5, <1>6, OverKeeps, Zenon DEF IInv

\* The invariant holds when resolveAllUndefines is called.
LEMMA InitInv ==
  ASSUME Init
  PROVE  IInv
<1>1. InputInv
  BY Zenon DEF Init, InputInv
<1>2. env \in SettingType
  BY <1>1, ConstantsOK, Zenon DEF InputInv
<1>3. /\ env.initial \in [Names -> {"absent", "undefined", "tentative", "defined"}]
      /\ env.cmdLine \in Seq(Libs) /\ env.opts \subseteq Libs
  BY <1>2, Zenon DEF SettingType
<1>4. /\ def = env.initial /\ loaded = {} /\ optionLibs = env.opts
      /\ outerGen = Never /\ innerGen = Never /\ queue = {} /\ pc = "inner"
  BY Zenon DEF Init, Start
<1>5. libs \in Seq(Libs)
  <2>1. PICK s \in Sorted(AddedLibs(env.opts, env.cmdLine, {})) : libs = env.cmdLine \o s
    BY Zenon DEF Init, Start
  <2>2. AddedLibs(env.opts, env.cmdLine, {}) \subseteq Libs
    BY <1>3, Zenon DEF AddedLibs
  <2>3. QED
    BY <1>3, <2>1, <2>2, SortedFacts, Zenon
<1>6. TypeOK
  BY <1>3, <1>4, <1>5, Zenon DEF TypeOK, States
<1>7. CountInv
  BY <1>4, Zenon DEF CountInv
<1>8. innerGen # UpdateCount
  BY <1>4, CountType DEF Never
<1>9. SearchInv /\ CommonsInv
  BY <1>4, <1>8, Zenon DEF SearchInv, CommonsInv
<1>10. ProxyInv
  BY <1>3, <1>4, Zenon DEF ProxyInv, IsProxy
<1>11. QED
  BY <1>1, <1>4, <1>6, <1>7, <1>9, <1>10, Zenon DEF IInv

\* Every step of resolveAllUndefines keeps the invariant.
LEMMA StepInv ==
  ASSUME IInv, [Next]_vars
  PROVE  IInv'
<1>1. CASE UNCHANGED vars
  <2>1. UNCHANGED <<input, table, outerGen, innerGen, queue, pc>>
    BY <1>1, Zenon DEF vars, loops
  <2>2. /\ UNCHANGED <<member, env, def, loaded, libs, optionLibs>>
        /\ UpdateCount' = UpdateCount /\ Slots' = Slots
        /\ Undefs' = Undefs /\ Tentatives' = Tentatives
        /\ \A k \in Names : /\ Searched(k) => Searched(k)'
                            /\ ~DataLeft(k) => ~DataLeft(k)'
                            /\ Exported(k) => Exported(k)'
                            /\ ~ExportedStrongly(k) => ~ExportedStrongly(k)'
                            /\ NotLoaded(k)' => NotLoaded(k)
    BY <2>1, SameTable, Zenon
  <2>3. TypeOK' /\ InputInv' /\ CountInv'
    BY <2>1, <2>2, Zenon DEF IInv, TypeOK, InputInv, CountInv
  <2>4. ASSUME optionLibs' = {}
        PROVE  SearchInv' /\ CommonsInv' /\ ProxyInv' /\ (pc' = "options" => queue' = {})
    <3>1. SearchInv /\ CommonsInv /\ ProxyInv /\ (pc = "options" => queue = {})
      BY <2>2, <2>4, Zenon DEF IInv
    <3>2. SearchInv'
      BY <2>1, <2>2, <3>1, Zenon DEF SearchInv, Over, Undefs
    <3>3. CommonsInv'
      BY <2>1, <2>2, <3>1, Zenon DEF CommonsInv, Over, Tentatives
    <3>4. ProxyInv'
      BY <2>1, <2>2, <3>1, Zenon DEF ProxyInv, Over, IsProxy
    <3>5. QED
      BY <2>1, <3>1, <3>2, <3>3, <3>4, Zenon
  <2>5. QED
    BY <2>3, <2>4, Zenon DEF IInv
<1>2. CASE Next
  BY <1>2, UndefineKeeps, TentativeKeeps, LoopsKeep, ProxiesKeep, Zenon DEF Next
<1>3. QED
  BY <1>1, <1>2, Zenon
-----------------------------------------------------------------------------
(* Theorems.                                                               *)

\* The inductive invariant holds throughout resolveAllUndefines, for any members,
\* dylibs and options.
THEOREM Invariance == Spec => []IInv
<1>1. Init => IInv
  BY InitInv, Zenon
<1>2. IInv /\ [Next]_vars => IInv'
  BY StepInv, Zenon
<1>3. QED
  BY <1>1, <1>2, PTL DEF Spec

\* The symbol table, the lists and the counts hold what the code can store in them;
\* a conflict is always thrown (addByName).
THEOREM TypeCorrect == Spec => []TypeOK
<1>1. IInv => TypeOK
  BY Zenon DEF IInv
<1>2. QED
  BY <1>1, Invariance, PTL

\* In a link without linker options the loops of resolveAllUndefines leave no name
\* undefined that a library of the search list could define.
THEOREM LoopsSearchEverything == Spec => []LoopsSearchAll
<1>1. IInv => LoopsSearchAll
  BY Zenon DEF IInv, SearchInv, LoopsSearchAll, Over
<1>2. QED
  BY <1>1, Invariance, PTL

\* They leave no common symbol for which an archive has data, if no dylib exports it.
THEOREM CommonsAreOverridden == Spec => []LoopsOverrideCommons
<1>1. IInv => LoopsOverrideCommons
  BY Zenon DEF IInv, CommonsInv, LoopsOverrideCommons, Over
<1>2. QED
  BY <1>1, Invariance, PTL

\* searchLibraries takes a weak export only for want of a strong one.
THEOREM WeakIsLastResort == Spec => []WeakOnlyAsLastResort
<1>1. IInv => WeakOnlyAsLastResort
  BY Zenon DEF IInv, ProxyInv, WeakOnlyAsLastResort, Over
<1>2. QED
  BY <1>1, Invariance, PTL

\* A member is loaded only for a name that its table of contents lists and that is
\* needed (justInTimeforEachAtom, justInTimeDataOnlyforEachAtom).
THEOREM OnlyNeededMembersLoaded == Spec => OnlyNeededLoaded
<1>1. ASSUME IInv, Next, NEW m \in loaded' \ loaded
      PROVE  \E n \in member[m].toc :
               def[n] = "undefined" \/ (def[n] = "tentative" /\ member[m].defs[n] = "data")
  <2>1. TypeOK /\ InputInv
    BY <1>1, Zenon DEF IInv
  <2>2. loaded' # loaded
    BY <1>1, Zenon
  <2>3. PICK n \in Names : ResolveUndefine(n) \/ ResolveTentative(n) \/ ResolveWithOptions(n)
    BY <1>1, <2>2, Zenon DEF Next, InnerTest, EndOfRound, OuterTest, EndOfOptions, CreateProxies,
       table
  <2>4. CASE ResolveUndefine(n) \/ ResolveWithOptions(n)
    <3>1. def[n] = "undefined" /\ SearchLibraries(n, TRUE, FALSE)
      BY <2>2, <2>4, Zenon DEF ResolveUndefine, ResolveWithOptions, Skip, table
    <3>2. n \in member[m].toc
      BY <1>1, <2>1, <3>1, SearchLoads, Zenon
    <3>3. QED
      BY <3>1, <3>2, Zenon
  <2>5. CASE ResolveTentative(n)
    <3>1. def[n] = "tentative" /\ SearchLibraries(n, env.commons = "useDylibs", TRUE)
      BY <2>2, <2>5, Zenon DEF ResolveTentative, Skip, table
    <3>2. n \in member[m].toc /\ member[m].defs[n] = "data"
      BY <1>1, <2>1, <3>1, SearchLoads, Zenon
    <3>3. QED
      BY <3>1, <3>2, Zenon
  <2>6. QED
    BY <2>3, <2>4, <2>5, Zenon
<1>2. IInv /\ [Next]_vars =>
        [\A m \in loaded' \ loaded : \E n \in member[m].toc :
           def[n] = "undefined" \/ (def[n] = "tentative" /\ member[m].defs[n] = "data")]_vars
  BY <1>1, Zenon
<1>3. QED
  BY <1>2, Invariance, PTL DEF Spec, OnlyNeededLoaded
-----------------------------------------------------------------------------
(* The loops come to an end.                                               *)

\* Looking up one name adds a slot, throws, or takes the name off the list.
LEMMA NameComesCloser ==
  ASSUME IInv, NEW n \in Names, ResolveUndefine(n) \/ ResolveTentative(n) \/ ResolveWithOptions(n)
  PROVE  Closer
<1>1. TypeOK /\ InputInv
  BY Zenon DEF IInv
<1>2. /\ pc \in {"undefs", "tents", "options"} /\ n \in queue /\ queue' = queue \ {n}
      /\ UNCHANGED <<outerGen, innerGen>>
  BY Zenon DEF ResolveUndefine, ResolveTentative, ResolveWithOptions, IsNext, loops
<1>3. Search(n)
  <2>1. CASE Skip
    BY <1>1, <1>2, <2>1, SkipSearch, Zenon
  <2>2. CASE ~Skip
    <3>1. SearchLibraries(n, TRUE, FALSE) \/ SearchLibraries(n, env.commons = "useDylibs", TRUE)
      BY <2>2, Zenon DEF ResolveUndefine, ResolveTentative, ResolveWithOptions
    <3>2. QED
      BY <1>1, <3>1, SearchFacts, Zenon
  <2>3. QED
    BY <2>1, <2>2, Zenon
<1>4. Slots \subseteq Slots' /\ (pc' = pc \/ pc' = "thrown")
  BY <1>3, Zenon DEF Search, Grows, Slots
<1>5. CASE Slots' = Slots
  <2>1. UpdateCount' = UpdateCount
    BY <1>5, Zenon DEF UpdateCount
  <2>2. pc' = pc => LoopRank' = LoopRank
    BY <1>2, <2>1, Zenon DEF LoopRank
  <2>3. pc' = "thrown" => LoopRank' < LoopRank
    BY <1>2 DEF LoopRank
  <2>4. QED
    BY <1>2, <1>4, <2>2, <2>3, Zenon DEF Closer
<1>6. QED
  BY <1>4, <1>5, Zenon DEF Closer

\* A test of the counts starts another round only if a slot was added since.
LEMMA LoopComesCloser ==
  ASSUME IInv, InnerTest \/ EndOfRound \/ OuterTest \/ EndOfOptions \/ CreateProxies
  PROVE  Closer
<1>1. CASE CreateProxies
  <2>1. pc = "proxies" /\ pc' = "done"
    BY <1>1, Zenon DEF CreateProxies
  <2>2. LoopRank' < LoopRank
    BY <2>1 DEF LoopRank
  <2>3. Slots \subseteq Slots'
    BY <1>1, Zenon DEF CreateProxies, Slots
  <2>4. QED
    BY <2>2, <2>3, Zenon DEF Closer
<1>2. CASE ~CreateProxies
  <2>1. UNCHANGED <<input, table>>
    BY <1>2, Zenon DEF InnerTest, EndOfRound, OuterTest, EndOfOptions
  <2>2. UpdateCount' = UpdateCount /\ Slots' = Slots
    BY <2>1, SameTable, Zenon
  <2>3. UpdateCount # Never
    BY CountType DEF Never
  <2>4. \/ pc = "inner" /\ innerGen # UpdateCount /\ innerGen' = UpdateCount /\ pc' = "undefs"
        \/ pc = "inner" /\ innerGen = UpdateCount /\ outerGen' = innerGen /\ pc' = "tents"
        \/ pc = "undefs" /\ pc' = "inner" /\ innerGen' = innerGen
        \/ pc = "tents" /\ outerGen # UpdateCount /\ pc' = "inner" /\ innerGen' = Never
        \/ pc = "tents" /\ outerGen = UpdateCount /\ pc' = "options"
        \/ pc = "options" /\ pc' = "proxies"
    BY <1>2, Zenon DEF InnerTest, EndOfRound, OuterTest, EndOfOptions, loops
  <2>5. LoopRank' < LoopRank
    BY <2>2, <2>3, <2>4 DEF LoopRank
  <2>6. QED
    BY <2>2, <2>5, Zenon DEF Closer
<1>3. QED
  BY <1>1, <1>2, Zenon

\* No round of resolveAllUndefines is in vain: only finitely many steps are
\* possible.
THEOREM LoopsGetCloser == Spec => NoIdleRound
<1>1. IInv /\ [Next]_vars => [Closer]_vars
  BY NameComesCloser, LoopComesCloser, Zenon DEF Next
<1>2. QED
  BY Invariance, <1>1, PTL DEF Spec, NoIdleRound
=============================================================================
