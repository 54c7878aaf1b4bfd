------------------------- MODULE PathIndexerProofs -------------------------
(***************************************************************************)
(* What the parser's loops keep and what they have computed when they      *)
(* return, for paths of any length and an array of any size.               *)
(***************************************************************************)
EXTENDS PathIndexer, FiniteSetTheorems, TLAPS

(* The slashes of a path before position i.                                *)
Before(p, i) == {h \in Slashes(p) : h < i}

LEMMA SlashCount ==
  ASSUME NEW p \in Seq(STRING)
  PROVE  /\ Len(p) \in Nat
         /\ Slashes(p) \subseteq 0 .. Len(p) - 1
         /\ IsFiniteSet(Slashes(p))
         /\ Cardinality(Slashes(p)) \in Nat
         /\ Before(p, Len(p)) = Slashes(p)
         /\ Cardinality(Before(p, 0)) = 0
<1>1. Len(p) \in Nat /\ Slashes(p) \subseteq 0 .. Len(p) - 1
  BY DEF Slashes
<1>. DEFINE last == Len(p) - 1
<1>2. IsFiniteSet(Slashes(p))
  <2>1. last \in Int
    BY <1>1
  <2>2. IsFiniteSet(0 .. last)
    <3>. HIDE DEF last
    <3>. QED BY <2>1, FS_Interval
  <2>. QED BY <1>1, <2>2, FS_Subset
<1>3. Before(p, Len(p)) = Slashes(p)
  BY <1>1 DEF Before
<1>4. Before(p, 0) = {}
  BY <1>1 DEF Before
<1>. QED BY <1>1, <1>2, <1>3, <1>4, FS_CardinalityType, FS_EmptySet

LEMMA CountBefore ==
  ASSUME NEW p \in Seq(STRING), NEW i \in Nat
  PROVE  /\ IsFiniteSet(Before(p, i))
         /\ Cardinality(Before(p, i)) \in Nat
         /\ Cardinality(Before(p, i)) <= Cardinality(Slashes(p))
         /\ i \notin Slashes(p) => Before(p, i + 1) = Before(p, i)
         /\ i \in Slashes(p) =>
              Cardinality(Before(p, i + 1)) = Cardinality(Before(p, i)) + 1
<1>1. /\ IsFiniteSet(Before(p, i)) /\ Cardinality(Before(p, i)) \in Nat
      /\ Cardinality(Before(p, i)) <= Cardinality(Slashes(p))
  <2>1. Before(p, i) \subseteq Slashes(p)
    BY DEF Before
  <2>. QED BY <2>1, SlashCount, FS_Subset, FS_CardinalityType
<1>2. Before(p, i + 1) = IF i \in Slashes(p) THEN Before(p, i) \cup {i} ELSE Before(p, i)
  <2>1. \A h \in Slashes(p) : h < i + 1 <=> h < i \/ h = i
    BY SlashCount
  <2>. QED BY <2>1 DEF Before
<1>3. i \notin Before(p, i)
  BY DEF Before
<1>. QED BY <1>1, <1>2, <1>3, FS_AddElement

(* There is one slash with n slashes before it, at most.                   *)
LEMMA SlashAfterIs ==
  ASSUME NEW p \in Seq(STRING), NEW s \in Slashes(p)
  PROVE  SlashAfter(p, Cardinality(Before(p, s))) = s
<1>. DEFINE n == Cardinality(Before(p, s))
<1>1. ASSUME NEW t \in Slashes(p), NEW u \in Slashes(p), t < u
      PROVE  Cardinality(Before(p, t)) # Cardinality(Before(p, u))
  <2>1. Slashes(p) \subseteq Nat
    BY SlashCount
  <2>2. Before(p, t) \subseteq Before(p, u) /\ t \in Before(p, u) /\ t \notin Before(p, t)
    BY <1>1, <2>1 DEF Before
  <2>. QED BY <2>1, <2>2, CountBefore, FS_Subset
<1>2. \A t \in Slashes(p) : Cardinality(Before(p, t)) = n => t = s
  BY <1>1, SlashCount
<1>. QED BY <1>2, Zenon DEF SlashAfter, Before

-----------------------------------------------------------------------------
(* The first n entries end at the first n slashes, and each starts behind  *)
(* the one before it.                                                      *)
StartOf(j) == IF j = 1 THEN 0 ELSE entries[j - 1].end + 1

EndAtSlashes(n) ==
  \A j \in 1 .. n : /\ entries[j].end \in Slashes(path)
                    /\ Cardinality(Before(path, entries[j].end)) = j - 1
                    /\ entries[j].start = StartOf(j)

(* The loops' invariant: as many entries are stored as slashes were passed.*)
ParserInv ==
  /\ ParserTypeOK
  /\ pc = "begin" => entries = <<>> /\ index = 0
  /\ pc = "next" => index = Len(entries) /\ EndAtSlashes(Len(entries))
  /\ pc \in {"scan", "store"} =>
       /\ index = Len(entries) /\ EndAtSlashes(Len(entries))
       /\ comp_start = StartOf(Len(entries) + 1)
       /\ comp_indexer \in comp_start .. Len(path)
       /\ Cardinality(Before(path, comp_indexer)) = Len(entries)
  /\ pc = "store" => comp_indexer = Len(path) \/ comp_indexer \in Slashes(path)
  /\ pc = "done" =>
       /\ Len(entries) = NComponents(path)
       /\ EndAtSlashes(Len(entries) - 1)
       /\ entries[Len(entries)].start = StartOf(Len(entries))
       /\ entries[Len(entries)].end = Len(path) - 1
  /\ pc = "undefined" => NComponents(path) > PATH_ENTRIES

EntryType == [start : 0 .. Len(path), end : -1 .. Len(path)]

LEMMA PathTyped ==
  ASSUME ParserTypeOK
  PROVE  /\ path \in Seq(STRING) /\ Len(path) \in Nat
         /\ entries \in Seq(EntryType) /\ Len(entries) \in Nat
         /\ PATH_ENTRIES \in Nat /\ PATH_ENTRIES > 0
         /\ NComponents(path) = Cardinality(Slashes(path)) + 1
         /\ Cardinality(Slashes(path)) \in Nat
BY PathsAssumption, PathAssumption, SlashCount DEF ParserTypeOK, EntryType, NComponents

LEMMA ParserInvInit == ParserInit => ParserInv
BY PathsAssumption, PathAssumption DEF ParserInit, ParserInv, ParserTypeOK, Labels

(* What storing an entry adds, while there is room for it.                 *)
LEMMA Stored ==
  ASSUME ParserTypeOK, NEW start \in 0 .. Len(path), NEW end \in -1 .. Len(path),
         NEW then, StoreEntry(start, end, then), path' = path
  PROVE  \/ /\ pc' = then
            /\ Len(entries) < PATH_ENTRIES
            /\ entries' \in Seq(EntryType)
            /\ Len(entries') = Len(entries) + 1
            /\ ncomponents' = Len(entries')
            /\ entries'[Len(entries) + 1] = [start |-> start, end |-> end]
            /\ \A j \in 1 .. Len(entries) : entries'[j] = entries[j]
            /\ \A j \in 1 .. Len(entries) + 1 : StartOf(j)' = StartOf(j)
            /\ \A n \in 0 .. Len(entries) : EndAtSlashes(n) => EndAtSlashes(n)'
         \/ /\ pc' = "undefined"
            /\ Len(entries) >= PATH_ENTRIES
            /\ UNCHANGED <<entries, ncomponents>>
<1>1. CASE Len(entries) < PATH_ENTRIES
  <2>. DEFINE entry == [start |-> start, end |-> end]
  <2>1. entry \in EntryType
    BY DEF EntryType
  <2>2. entries' = Append(entries, entry) /\ pc' = then /\ ncomponents' = ncomponents + 1
    BY <1>1 DEF StoreEntry
  <2>3. /\ entries' \in Seq(EntryType) /\ Len(entries') = Len(entries) + 1
        /\ entries'[Len(entries) + 1] = entry
        /\ \A j \in 1 .. Len(entries) : entries'[j] = entries[j]
    BY <2>1, <2>2, PathTyped
  <2>4. \A j \in 1 .. Len(entries) + 1 : StartOf(j)' = StartOf(j)
    BY <2>3, PathTyped DEF StartOf
  <2>5. ASSUME NEW n \in 0 .. Len(entries), EndAtSlashes(n) PROVE EndAtSlashes(n)'
    <3>1. ASSUME NEW j \in 1 .. n
          PROVE  /\ entries'[j].end \in Slashes(path')
                 /\ Cardinality(Before(path', entries'[j].end)) = j - 1
                 /\ entries'[j].start = StartOf(j)'
      <4>1. j \in 1 .. Len(entries) /\ entries'[j] = entries[j]
        BY <2>3, PathTyped
      <4>. QED BY <2>4, <2>5, <4>1, PathTyped DEF EndAtSlashes
    <3>. QED BY <3>1 DEF EndAtSlashes
  <2>. QED BY <1>1, <2>2, <2>3, <2>4, <2>5, PathTyped DEF ParserTypeOK
<1>2. CASE ~ (Len(entries) < PATH_ENTRIES)
  BY <1>2, PathTyped DEF StoreEntry
<1>. QED BY <1>1, <1>2

(* The part of the invariant about where the loops are.                    *)
LEMMA BeginStep ==
  ASSUME ParserInv, Begin
  PROVE  ParserInv'
<1>0. ParserTypeOK /\ entries = <<>> /\ index = 0 /\ ncomponents = 0 /\ path' = path
  BY DEF ParserInv, Begin, ParserTypeOK
<1>1. Len(entries) = 0
  BY <1>0
<1>2. CASE 0 \in Slashes(path)
  <2>1. StoreEntry(0, 0, "next") /\ index' = 1 /\ UNCHANGED <<comp_start, comp_indexer>>
    BY <1>0, <1>2 DEF Begin
  <2>2. /\ pc' = "next" /\ entries' \in Seq(EntryType) /\ Len(entries') = 1
        /\ ncomponents' = 1
        /\ entries'[1] = [start |-> 0, end |-> 0]
    <3>1. 0 \in 0 .. Len(path) /\ 0 \in -1 .. Len(path) /\ Len(entries) < PATH_ENTRIES
      BY <1>0, <1>1, PathTyped
    <3>2. /\ pc' = "next" /\ entries' \in Seq(EntryType)
          /\ Len(entries') = Len(entries) + 1 /\ ncomponents' = Len(entries')
          /\ entries'[Len(entries) + 1] = [start |-> 0, end |-> 0]
      BY <1>0, <2>1, <3>1, Stored, PathTyped
    <3>. QED BY <1>1, <3>2
  <2>3. Cardinality(Before(path, 0)) = 0
    BY <1>0, PathTyped, SlashCount
  <2>4. EndAtSlashes(1)'
    BY <1>0, <1>2, <2>2, <2>3 DEF EndAtSlashes, StartOf
  <2>5. ParserTypeOK'
    BY <1>0, <2>1, <2>2, PathTyped DEF ParserTypeOK, Labels, EntryType
  <2>. QED BY <2>1, <2>2, <2>4, <2>5 DEF ParserInv
<1>3. CASE 0 \notin Slashes(path)
  <2>1. pc' = "next" /\ UNCHANGED <<entries, ncomponents, index, comp_start, path>>
    BY <1>3 DEF Begin
  <2>2. EndAtSlashes(0)'
    BY DEF EndAtSlashes
  <2>3. ParserTypeOK'
    BY <1>0, <2>1 DEF ParserTypeOK, Labels
  <2>. QED BY <1>0, <1>1, <2>1, <2>2, <2>3 DEF ParserInv
<1>. QED BY <1>2, <1>3

LEMMA NextStep ==
  ASSUME ParserInv, NextComponent
  PROVE  ParserInv'
<1>. DEFINE n == Len(entries)
<1>1. /\ ParserTypeOK /\ pc' = "scan" /\ index = n /\ ncomponents = n /\ EndAtSlashes(n)
      /\ UNCHANGED <<path, entries, ncomponents, index>>
      /\ comp_indexer' = comp_start'
      /\ comp_start' = IF n = 0 THEN 0 ELSE entries[n].end + 1
  BY DEF ParserInv, NextComponent, ParserTypeOK
<1>2. n \in Nat /\ path \in Seq(STRING) /\ Len(path) \in Nat
  BY <1>1, PathTyped
<1>3. comp_start' = StartOf(n + 1)
  BY <1>1, <1>2 DEF StartOf
<1>4. comp_start' \in 0 .. Len(path) /\ Cardinality(Before(path, comp_start')) = n
  <2>1. CASE n = 0
    BY <1>1, <1>2, <2>1, SlashCount
  <2>2. CASE n > 0
    <3>1. /\ entries[n].end \in Slashes(path)
          /\ Cardinality(Before(path, entries[n].end)) = n - 1
      BY <1>1, <1>2, <2>2 DEF EndAtSlashes
    <3>2. entries[n].end \in 0 .. Len(path) - 1
      BY <1>2, <3>1, SlashCount
    <3>3. comp_start' = entries[n].end + 1 /\ comp_start' \in 0 .. Len(path)
      BY <1>1, <1>2, <2>2, <3>2
    <3>4. PICK s \in Slashes(path) : s = entries[n].end
      BY <3>1
    <3>5. s \in Nat /\ Cardinality(Before(path, s)) = n - 1
      BY <1>2, <3>1, <3>2, <3>4
    <3>6. Cardinality(Before(path, s + 1)) = Cardinality(Before(path, s)) + 1
      BY <1>2, <3>4, <3>5, CountBefore
    <3>. QED BY <1>2, <3>3, <3>4, <3>5, <3>6
  <2>. QED BY <1>2, <2>1, <2>2
<1>5. EndAtSlashes(n)' /\ StartOf(n + 1)' = StartOf(n + 1)
  BY <1>1 DEF EndAtSlashes, StartOf
<1>6. ParserTypeOK'
  BY <1>1, <1>4 DEF ParserTypeOK, Labels
<1>. QED BY <1>1, <1>2, <1>3, <1>4, <1>5, <1>6 DEF ParserInv

LEMMA ScanStep ==
  ASSUME ParserInv, Scan
  PROVE  ParserInv'
<1>1. /\ ParserTypeOK /\ index = Len(entries) /\ EndAtSlashes(Len(entries))
      /\ comp_start = StartOf(Len(entries) + 1)
      /\ comp_indexer \in comp_start .. Len(path)
      /\ Cardinality(Before(path, comp_indexer)) = Len(entries)
      /\ UNCHANGED <<path, entries, ncomponents, index, comp_start>>
  BY DEF ParserInv, Scan
<1>2. /\ path \in Seq(STRING) /\ Len(path) \in Nat
      /\ comp_start \in Nat /\ comp_indexer \in Nat
  BY <1>1, PathTyped DEF ParserTypeOK
<1>3. /\ EndAtSlashes(Len(entries))' /\ comp_start' = StartOf(Len(entries) + 1)'
  BY <1>1 DEF EndAtSlashes, StartOf
<1>4. CASE comp_indexer \notin Slashes(path) /\ comp_indexer < Len(path)
  <2>1. comp_indexer' = comp_indexer + 1 /\ pc' = "scan"
    BY <1>4 DEF Scan
  <2>2. Cardinality(Before(path, comp_indexer')) = Len(entries)
    BY <1>1, <1>2, <1>4, <2>1, CountBefore
  <2>3. ParserTypeOK'
    BY <1>1, <2>1 DEF ParserTypeOK, Labels
  <2>. QED BY <1>1, <1>2, <1>3, <1>4, <2>1, <2>2, <2>3 DEF ParserInv
<1>5. CASE ~ (comp_indexer \notin Slashes(path) /\ comp_indexer < Len(path))
  <2>1. comp_indexer' = comp_indexer /\ pc' = "store"
    BY <1>5 DEF Scan
  <2>2. comp_indexer = Len(path) \/ comp_indexer \in Slashes(path)
    BY <1>1, <1>2, <1>5
  <2>3. ParserTypeOK'
    BY <1>1, <2>1 DEF ParserTypeOK, Labels
  <2>. QED BY <1>1, <1>3, <2>1, <2>2, <2>3 DEF ParserInv
<1>. QED BY <1>4, <1>5

(* What a round of the outer loop has found when it stores its component.  *)
LEMMA AtStore ==
  ASSUME ParserInv, pc = "store"
  PROVE  /\ ParserTypeOK /\ index = Len(entries) /\ EndAtSlashes(Len(entries))
         /\ comp_start = StartOf(Len(entries) + 1)
         /\ comp_start \in 0 .. Len(path)
         /\ comp_indexer \in 0 .. Len(path)
         /\ Cardinality(Before(path, comp_indexer)) = Len(entries)
         /\ comp_indexer = Len(path) \/ comp_indexer \in Slashes(path)
<1>1. comp_start \in 0 .. Len(path) /\ comp_indexer \in comp_start .. Len(path)
  BY DEF ParserInv, ParserTypeOK
<1>2. comp_indexer \in 0 .. Len(path)
  BY <1>1
<1>. QED BY <1>1, <1>2 DEF ParserInv

LEMMA StoreLastStep ==
  ASSUME ParserInv, StoreLast
  PROVE  ParserInv'
<1>0. PICK n \in Nat : n = Len(entries)
  BY AtStore, PathTyped DEF StoreLast, StoreInner
<1>1. /\ pc = "store" /\ comp_indexer = Len(path) /\ comp_indexer' = Len(path) - 1
      /\ StoreEntry(comp_start, Len(path) - 1, "done")
      /\ UNCHANGED <<path, index, comp_start>>
  BY DEF StoreLast
<1>2. ParserTypeOK /\ EndAtSlashes(n) /\ comp_start = StartOf(n + 1)
  BY <1>0, <1>1, AtStore
<1>3. n \in Nat /\ path \in Seq(STRING) /\ Len(path) \in Nat /\ Len(path) - 1 \in -1 .. Len(path)
  BY <1>0, <1>2, PathTyped
<1>4. NComponents(path) = n + 1
  BY <1>0, <1>1, <1>3, AtStore, SlashCount DEF NComponents
<1>5. CASE pc' = "undefined" /\ n >= PATH_ENTRIES /\ UNCHANGED <<entries, ncomponents>>
  <2>1. ParserTypeOK'
    BY <1>0, <1>1, <1>2, <1>5 DEF ParserTypeOK, Labels
  <2>2. NComponents(path) > PATH_ENTRIES
    BY <1>3, <1>4, <1>5, PathAssumption
  <2>. QED BY <1>1, <1>5, <2>1, <2>2 DEF ParserInv
<1>6. CASE /\ pc' = "done"
           /\ n < PATH_ENTRIES
           /\ entries' \in Seq(EntryType)
           /\ Len(entries') = n + 1 /\ ncomponents' = Len(entries')
           /\ entries'[n + 1] = [start |-> comp_start, end |-> Len(path) - 1]
           /\ StartOf(n + 1)' = StartOf(n + 1)
           /\ EndAtSlashes(n)'
  <2>1. ParserTypeOK'
    BY <1>1, <1>2, <1>3, <1>6, PathAssumption DEF ParserTypeOK, Labels, EntryType
  <2>2. Len(entries') - 1 = n
    BY <1>3, <1>6
  <2>. QED BY <1>0, <1>1, <1>2, <1>4, <1>6, <2>1, <2>2 DEF ParserInv
<1>7. n + 1 \in 1 .. n + 1 /\ n \in 0 .. n /\ comp_start \in 0 .. Len(path)
  BY <1>1, <1>3, AtStore
<1>. QED BY <1>0, <1>1, <1>2, <1>3, <1>5, <1>6, <1>7, Stored

LEMMA StoreInnerStep ==
  ASSUME ParserInv, StoreInner
  PROVE  ParserInv'
<1>0. PICK n \in Nat : n = Len(entries)
  BY AtStore, PathTyped DEF StoreLast, StoreInner
<1>1. /\ pc = "store" /\ comp_indexer # Len(path)
      /\ StoreEntry(comp_start, comp_indexer, "next")
      /\ index' = index + 1
      /\ UNCHANGED <<path, comp_start, comp_indexer>>
  BY DEF StoreInner
<1>2. /\ ParserTypeOK /\ index = n /\ EndAtSlashes(n) /\ comp_start = StartOf(n + 1)
      /\ comp_start \in 0 .. Len(path) /\ comp_indexer \in 0 .. Len(path)
      /\ comp_indexer \in Slashes(path) /\ Cardinality(Before(path, comp_indexer)) = n
  BY <1>0, <1>1, AtStore
<1>3. /\ n \in Nat /\ n <= PATH_ENTRIES /\ path \in Seq(STRING) /\ Len(path) \in Nat
      /\ comp_indexer \in -1 .. Len(path) /\ comp_indexer \in Nat
      /\ PATH_ENTRIES \in Nat
  BY <1>0, <1>2, PathTyped DEF ParserTypeOK
<1>4. CASE pc' = "undefined" /\ n >= PATH_ENTRIES /\ UNCHANGED <<entries, ncomponents>>
  <2>1. ParserTypeOK'
    BY <1>1, <1>2, <1>3, <1>4 DEF ParserTypeOK, Labels
  <2>2. n + 1 <= Cardinality(Slashes(path))
    <3>1. Cardinality(Before(path, comp_indexer + 1)) = n + 1
      BY <1>2, <1>3, CountBefore
    <3>. QED BY <1>3, <3>1, CountBefore
  <2>3. NComponents(path) > PATH_ENTRIES
    BY <1>2, <1>3, <1>4, <2>2, PathTyped
  <2>. QED BY <1>1, <1>4, <2>1, <2>3 DEF ParserInv
<1>5. CASE /\ pc' = "next"
           /\ n < PATH_ENTRIES
           /\ entries' \in Seq(EntryType)
           /\ Len(entries') = n + 1 /\ ncomponents' = Len(entries')
           /\ entries'[n + 1] = [start |-> comp_start, end |-> comp_indexer]
           /\ StartOf(n + 1)' = StartOf(n + 1)
           /\ EndAtSlashes(n)'
  <2>1. ParserTypeOK'
    BY <1>1, <1>2, <1>3, <1>5 DEF ParserTypeOK, Labels, EntryType
  <2>2. ASSUME NEW j \in 1 .. n + 1
        PROVE  /\ entries'[j].end \in Slashes(path')
               /\ Cardinality(Before(path', entries'[j].end)) = j - 1
               /\ entries'[j].start = StartOf(j)'
    <3>1. CASE j = n + 1
      BY <1>1, <1>2, <1>3, <1>5, <3>1
    <3>2. CASE j # n + 1
      <4>1. j \in 1 .. n
        BY <1>3, <3>2
      <4>. QED BY <1>5, <4>1 DEF EndAtSlashes
    <3>. QED BY <3>1, <3>2
  <2>3. EndAtSlashes(n + 1)'
    BY <2>2 DEF EndAtSlashes
  <2>. QED BY <1>0, <1>1, <1>2, <1>5, <2>1, <2>3 DEF ParserInv
<1>6. n + 1 \in 1 .. n + 1 /\ n \in 0 .. n
  BY <1>3
<1>. QED BY <1>0, <1>1, <1>2, <1>3, <1>4, <1>5, <1>6, Stored

LEMMA ParserInvariant == ParserSpec => []ParserInv
<1>1. ASSUME ParserInv, [ParserNext]_parserVars PROVE ParserInv'
  <2>1. CASE UNCHANGED parserVars
    BY <1>1, <2>1 DEF parserVars, ParserInv, ParserTypeOK, EndAtSlashes, StartOf
  <2>. QED BY <1>1, <2>1, BeginStep, NextStep, ScanStep, StoreLastStep, StoreInnerStep
           DEF ParserNext
<1>. QED BY <1>1, ParserInvInit, PTL DEF ParserSpec

-----------------------------------------------------------------------------
(* For paths of any length and an array of any size: as many components    *)
(* are counted as entries stored, and every offset stored is one of a      *)
(* character of the path or of its NUL, or the -1 the path of no character *)
(* has as its end.  (That a parse may run past the array is the label      *)
(* "undefined"; OverflowsOnlyThen says of which paths.)                    *)
THEOREM ParserTypeCorrect == ParserSpec => []ParserTypeOK
BY ParserInvariant, PTL DEF ParserInv

(* The scan looks at no character past the end of the path.                *)
THEOREM ScanStops == ParserSpec => []ScanStaysInPath
<1>1. ParserInv => ScanStaysInPath
  BY DEF ParserInv, ParserTypeOK, ScanStaysInPath
<1>. QED BY <1>1, ParserInvariant, PTL

(* The array overflows for the paths with too many components only.        *)
THEOREM OverflowsOnlyThen == ParserSpec => []OverflowsOnlyWhenTooMany
<1>1. ParserInv => OverflowsOnlyWhenTooMany
  BY DEF ParserInv, ParserTypeOK, OverflowsOnlyWhenTooMany
<1>. QED BY <1>1, ParserInvariant, PTL

(* A parse that returns has split the path at every slash, for paths of    *)
(* any length and arrays of any size.                                      *)
THEOREM ParsesRight == ParserSpec => []ParsesAsEntries
<1>1. ASSUME ParserInv PROVE ParsesAsEntries
  <2>. SUFFICES ASSUME pc = "done"
                PROVE  /\ ncomponents = NComponents(path)
                       /\ \A j \in 0 .. ncomponents - 1 : entries[j + 1] = Entries(path)[j]
    BY DEF ParsesAsEntries
  <2>. DEFINE n == Len(entries)
  <2>1. /\ ParserTypeOK /\ n = NComponents(path) /\ ncomponents = n
        /\ EndAtSlashes(n - 1)
        /\ entries[n].start = StartOf(n) /\ entries[n].end = Len(path) - 1
    BY <1>1 DEF ParserInv, ParserTypeOK
  <2>2. path \in Seq(STRING) /\ entries \in Seq(EntryType) /\ n \in Nat /\ n >= 1
    BY <2>1, PathTyped
  <2>3. ASSUME NEW j \in 1 .. n - 1 PROVE SlashAfter(path, j - 1) = entries[j].end
    BY <2>1, <2>2, SlashAfterIs DEF EndAtSlashes
  <2>4. ASSUME NEW j \in 0 .. n - 1 PROVE entries[j + 1] = Entry(path, j)
    <3>1. /\ entries[j + 1].start = StartOf(j + 1)
          /\ entries[j + 1].end = IF j = n - 1 THEN Len(path) - 1
                                               ELSE SlashAfter(path, j)
      <4>1. CASE j = n - 1
        BY <2>1, <2>2, <4>1
      <4>2. CASE j # n - 1
        <5>1. j + 1 \in 1 .. n - 1 /\ j + 1 - 1 = j
          BY <2>2, <4>2
        <5>. QED BY <2>1, <2>3, <4>2, <5>1 DEF EndAtSlashes
      <4>. QED BY <4>1, <4>2
    <3>2. StartOf(j + 1) = IF j = 0 THEN 0 ELSE SlashAfter(path, j - 1) + 1
      BY <2>2, <2>3 DEF StartOf
    <3>3. entries[j + 1] \in EntryType
      BY <2>2
    <3>. QED BY <2>1, <3>1, <3>2, <3>3 DEF Entry, EntryType
  <2>. QED BY <2>1, <2>4 DEF Entries
<1>. QED BY <1>1, ParserInvariant, PTL
=============================================================================
