--------------------------- MODULE ContentProofs ----------------------------
(*****************************************************************************)
(* Theorems about AssetVersions and KnowledgePacks, for every set of        *)
(* contents, sources, entries, searches and requests.                       *)
(*****************************************************************************)
EXTENDS AssetVersions, KnowledgePacks, FiniteSetTheorems, TLAPS

-----------------------------------------------------------------------------
(* Content assets and their versions.                                       *)

(* The rows and the transactions keep their shape. *)
THEOREM AssetTypeCorrect == AssetSpec => []AssetTypeOK
<1> USE DEF AssetTypeOK, VersionRow
<1>1. ASSUME AssetInit
      PROVE  AssetTypeOK
  BY <1>1 DEF AssetInit
<1>2. AssetTypeOK /\ [AssetNext]_assetVars => AssetTypeOK'
  <2> SUFFICES ASSUME AssetTypeOK, [AssetNext]_assetVars
               PROVE  AssetTypeOK'
    OBVIOUS
  <2>1. CASE CreateAsset
    BY <2>1 DEF CreateAsset
  <2>2. ASSUME NEW u \in AssetUsers, NEW c \in Checksums, ReadVersions(u, c)
        PROVE  AssetTypeOK'
    <3>1. PICK n \in {1} \cup {v.number + 1 : v \in versions} :
            adding' = [adding EXCEPT ![u] = [number |-> n, checksum |-> c]]
      BY <2>2 DEF ReadVersions
    <3>2. n \in Nat \ {0}
      BY <3>1
    <3> QED
      BY <2>2, <3>1, <3>2 DEF ReadVersions
  <2>3. ASSUME NEW u \in AssetUsers, AddVersion(u)
        PROVE  AssetTypeOK'
    <3>1. adding[u] \in VersionRow
      BY <2>3 DEF AddVersion
    <3> QED
      BY <2>3, <3>1 DEF AddVersion
  <2>4. ASSUME NEW u \in AssetUsers, RefuseVersion(u) \/ AbandonVersion(u)
        PROVE  AssetTypeOK'
    BY <2>4 DEF RefuseVersion, AbandonVersion
  <2>5. ASSUME NEW v \in versions, PublishVersion(v)
        PROVE  AssetTypeOK'
    BY <2>5 DEF PublishVersion
  <2>6. CASE UNCHANGED assetVars
    BY <2>6 DEF assetVars
  <2> QED
    BY <2>1, <2>2, <2>3, <2>4, <2>5, <2>6 DEF AssetNext
<1> QED
  BY <1>1, <1>2, PTL DEF AssetSpec

-----------------------------------------------------------------------------
(* Why an unlocked read is enough.  Numbers have no gap, so two transactions*)
(* that both still may commit carry the same number, and the index on it   *)
(* keeps the second one out: with it goes whatever the first one has stored*)
(* meanwhile.  Still(u) is what u's read means as long as its number is    *)
(* free: it is the next one, and its content is new.                       *)
IsNext(n) == (\A v \in versions : v.number < n) /\ (n = 1 \/ NumberTaken(n - 1))

Still(u) ==
  adding[u] # NotAdding /\ ~ NumberTaken(adding[u].number) =>
    IsNext(adding[u].number) /\ ~ IsDuplicate(adding[u].checksum)

AssetInv ==
  /\ AssetTypeOK
  /\ ContentStoredOnce
  /\ \A u \in AssetUsers : Still(u)
  /\ PointerNotBehind

(* Two numbers that are both next are the same number. *)
LEMMA NextIsUnique ==
  ASSUME AssetTypeOK, NEW m \in Nat \ {0}, NEW n \in Nat \ {0}, IsNext(m), IsNext(n)
  PROVE  m = n
<1> USE DEF AssetTypeOK, VersionRow
<1>1. ASSUME NEW a \in Nat \ {0}, NEW b \in Nat \ {0}, IsNext(a), IsNext(b), a < b
      PROVE  FALSE
  <2>1. PICK v \in versions : v.number = b - 1
    BY <1>1 DEF IsNext, NumberTaken
  <2>2. v.number < a
    BY <1>1 DEF IsNext
  <2> QED
    BY <1>1, <2>1, <2>2
<1>2. m < n \/ n < m \/ m = n
  OBVIOUS
<1> QED
  BY <1>1, <1>2

LEMMA NextNumberIsNext ==
  ASSUME AssetTypeOK, NEW n, NextNumber(n)
  PROVE  n \in Nat \ {0} /\ IsNext(n)
<1> USE DEF AssetTypeOK, VersionRow
<1>1. n \in {1} \cup {v.number + 1 : v \in versions} /\ \A v \in versions : v.number < n
  BY DEF NextNumber
<1>2. CASE n = 1
  BY <1>1, <1>2 DEF IsNext
<1>3. ASSUME NEW v \in versions, n = v.number + 1
      PROVE  n \in Nat \ {0} /\ IsNext(n)
  <2>1. v.number \in Nat
    OBVIOUS
  <2>2. n - 1 = v.number
    BY <1>3, <2>1
  <2> QED
    BY <1>1, <1>3, <2>1, <2>2 DEF IsNext, NumberTaken
<1> QED
  BY <1>1, <1>2, <1>3

LEMMA AssetInvInit == AssetInit => AssetInv
<1> SUFFICES ASSUME AssetInit
             PROVE  AssetInv
  OBVIOUS
<1> USE DEF AssetInit
<1>1. AssetTypeOK
  BY DEF AssetTypeOK, VersionRow
<1>2. ContentStoredOnce /\ PointerNotBehind
  BY DEF ContentStoredOnce, PointerNotBehind, NumberTaken
<1>3. \A u \in AssetUsers : Still(u)
  BY DEF Still
<1> QED
  BY <1>1, <1>2, <1>3 DEF AssetInv

(* Steps that leave the versions alone keep what is said of them. *)
LEMMA VersionsUnchanged ==
  ASSUME AssetInv, UNCHANGED versions
  PROVE  /\ ContentStoredOnce'
         /\ \A u \in AssetUsers : adding'[u] = adding[u] => Still(u)'
<1> USE DEF AssetInv
<1>1. \A n : NumberTaken(n)' <=> NumberTaken(n)
  BY DEF NumberTaken
<1>2. ContentStoredOnce'
  BY <1>1 DEF ContentStoredOnce
<1>3. ASSUME NEW u \in AssetUsers, adding'[u] = adding[u]
      PROVE  Still(u)'
  BY <1>1, <1>3 DEF Still, IsNext, IsDuplicate
<1> QED
  BY <1>2, <1>3

(* The row that goes in is the next one, and new. *)
LEMMA AddKeeps ==
  ASSUME AssetInv, AssetTypeOK', NEW u \in AssetUsers, AddVersion(u)
  PROVE  AssetInv'
<1> USE DEF AssetTypeOK, VersionRow
<1> DEFINE new == adding[u]
<1>1. /\ new \in VersionRow
      /\ new.number \in Nat \ {0}
      /\ versions' = versions \cup {new}
      /\ current' = new.number
      /\ chosen' = FALSE
      /\ adding' = [adding EXCEPT ![u] = NotAdding]
      /\ ~ NumberTaken(new.number)
  BY DEF AddVersion, AssetInv
<1>2. IsNext(new.number) /\ ~ IsDuplicate(new.checksum)
  BY <1>1 DEF AssetInv, Still, AddVersion
<1> HIDE DEF new
<1>3. \A n : NumberTaken(n)' <=> NumberTaken(n) \/ n = new.number
  BY <1>1 DEF NumberTaken
<1>4. ContentStoredOnce'
  <2>1. ASSUME NEW v \in versions', NEW w \in versions',
               v.number = w.number \/ v.checksum = w.checksum
        PROVE  v = w
    <3>1. \A x \in versions : x.number # new.number /\ x.checksum # new.checksum
      BY <1>1, <1>2 DEF NumberTaken, IsDuplicate
    <3> QED
      BY <1>1, <2>1, <3>1 DEF AssetInv, ContentStoredOnce
  <2>2. ASSUME NEW v \in versions'
        PROVE  v.number = 1 \/ NumberTaken(v.number - 1)'
    BY <1>1, <1>2, <1>3, <2>2 DEF AssetInv, ContentStoredOnce, IsNext
  <2> QED
    BY <2>1, <2>2 DEF ContentStoredOnce
<1>5. ASSUME NEW w \in AssetUsers
      PROVE  Still(w)'
  <2>1. CASE w = u
    BY <1>1, <2>1 DEF Still, AssetInv
  <2>2. CASE w # u
    <3>1. adding'[w] = adding[w]
      BY <1>1, <2>2 DEF AssetInv
    <3> SUFFICES ASSUME adding[w] # NotAdding,
                        \A v \in versions' : v.number # adding[w].number
                 PROVE  FALSE
      BY <3>1 DEF Still, NumberTaken
    <3>2. adding[w].number \in Nat \ {0}
      BY DEF AssetInv
    <3>3. IsNext(adding[w].number) /\ adding[w].number # new.number
      BY <1>1 DEF AssetInv, Still, NumberTaken
    <3> QED
      BY <1>1, <1>2, <3>2, <3>3, NextIsUnique DEF AssetInv
  <2> QED
    BY <2>1, <2>2
<1>6. PointerNotBehind'
  <2>1. \A v \in versions' : v.number <= new.number
    <3>1. \A v \in versions : v.number < new.number /\ v.number \in Nat
      BY <1>2 DEF IsNext, AssetInv
    <3> QED
      BY <1>1, <3>1
  <2> QED
    BY <1>1, <1>3, <2>1 DEF PointerNotBehind
<1> QED
  BY <1>4, <1>5, <1>6 DEF AssetInv

LEMMA AssetInvStep == AssetInv /\ AssetTypeOK' /\ [AssetNext]_assetVars => AssetInv'
<1> SUFFICES ASSUME AssetInv, AssetTypeOK', [AssetNext]_assetVars
             PROVE  AssetInv'
  OBVIOUS
<1> USE DEF AssetInv
<1>1. CASE CreateAsset
  BY <1>1, VersionsUnchanged DEF CreateAsset, PointerNotBehind, NumberTaken
<1>2. ASSUME NEW u \in AssetUsers, NEW c \in Checksums, ReadVersions(u, c)
      PROVE  AssetInv'
  <2>1. PICK n : NextNumber(n) /\ adding' = [adding EXCEPT ![u] = [number |-> n, checksum |-> c]]
    BY <1>2 DEF ReadVersions
  <2>2. UNCHANGED <<versions, current, chosen>>
    BY <1>2 DEF ReadVersions
  <2>3. IsNext(n) /\ ~ IsDuplicate(c)
    BY <1>2, <2>1, NextNumberIsNext DEF ReadVersions
  <2>4. ASSUME NEW w \in AssetUsers
        PROVE  Still(w)'
    <3>1. CASE w # u
      BY <2>1, <2>2, <3>1, VersionsUnchanged DEF AssetTypeOK
    <3>2. CASE w = u
      <4>1. adding'[w] = [number |-> n, checksum |-> c]
        BY <2>1, <3>2 DEF AssetTypeOK
      <4> QED
        BY <2>2, <2>3, <4>1 DEF Still, IsNext, IsDuplicate, NumberTaken
    <3> QED
      BY <3>1, <3>2
  <2>5. PointerNotBehind'
    BY <2>2 DEF PointerNotBehind, NumberTaken
  <2> QED
    BY <2>2, <2>4, <2>5, VersionsUnchanged
<1>3. ASSUME NEW u \in AssetUsers, AddVersion(u)
      PROVE  AssetInv'
  BY <1>3, AddKeeps
<1>4. ASSUME NEW u \in AssetUsers, RefuseVersion(u) \/ AbandonVersion(u)
      PROVE  AssetInv'
  <2>1. UNCHANGED <<versions, current, chosen>> /\ adding' = [adding EXCEPT ![u] = NotAdding]
    BY <1>4 DEF RefuseVersion, AbandonVersion
  <2>2. ASSUME NEW w \in AssetUsers
        PROVE  Still(w)'
    BY <2>1, VersionsUnchanged DEF AssetTypeOK, Still
  <2>3. PointerNotBehind'
    BY <2>1 DEF PointerNotBehind, NumberTaken
  <2> QED
    BY <2>1, <2>2, <2>3, VersionsUnchanged
<1>5. ASSUME NEW v \in versions, PublishVersion(v)
      PROVE  AssetInv'
  <2>1. PointerNotBehind'
    BY <1>5 DEF PublishVersion, PointerNotBehind, NumberTaken, AssetTypeOK, VersionRow
  <2> QED
    BY <1>5, <2>1, VersionsUnchanged DEF PublishVersion
<1>6. CASE UNCHANGED assetVars
  BY <1>6, VersionsUnchanged DEF assetVars, PointerNotBehind, NumberTaken
<1> QED
  BY <1>1, <1>2, <1>3, <1>4, <1>5, <1>6 DEF AssetNext

LEMMA AssetInvHolds == AssetSpec => []AssetInv
<1>1. AssetSpec => []AssetTypeOK
  BY AssetTypeCorrect
<1> QED
  BY <1>1, AssetInvInit, AssetInvStep, PTL DEF AssetSpec

(* The versions of an asset are a history without gaps that stores no      *)
(* content twice, whatever requests overlap (createVersion).               *)
THEOREM ContentStoredOnceHolds == AssetSpec => []ContentStoredOnce
<1>1. AssetInv => ContentStoredOnce
  BY DEF AssetInv
<1> QED
  BY <1>1, AssetInvHolds, PTL

(* The current version is the newest one unless a user chose another since *)
(* (createVersion, publishVersion).                                        *)
THEOREM PointerNotBehindHolds == AssetSpec => []PointerNotBehind
<1>1. AssetInv => PointerNotBehind
  BY DEF AssetInv
<1> QED
  BY <1>1, AssetInvHolds, PTL

-----------------------------------------------------------------------------
(* The knowledge base and the context packs made from it.                   *)

(* What a transaction carries at each point, and that the row it has        *)
(* changed, or that row's source, is there.                                 *)
TxShape(tx) ==
  /\ tx \in [phase : {"idle", "begun", "changed", "refreshing", "found"},
             kind : {"none", "materialize"} \cup SourceKinds \cup EntryKinds,
             on : {tx.on}, at : Nat, todo : {tx.todo}, created : {tx.created}, raced : BOOLEAN]
  /\ tx.phase \in {"begun", "changed", "refreshing"} =>
       \/ tx.kind \in SourceKinds /\ tx.on \in Sources
       \/ tx.kind \in EntryKinds /\ tx.on \in Entries
  /\ tx.phase # "refreshing" => tx.todo = {}
  /\ tx.phase \in {"idle", "begun", "changed"} => tx.created = {}

Grounded(tx) ==
  tx.phase \in {"changed", "refreshing"} =>
    /\ tx.kind \in SourceKinds => sourceStatus[tx.on] # "absent"
    /\ tx.kind \in EntryKinds => sourceStatus[SourceOf[tx.on]] # "absent"

FromSearch(p) == p.scope = "task" /\ p.query \in Queries
UpToDate(u, p) == p.ids = Found(u, p.query, p.limit)
Outdone(p, S) == \E r \in S : r.task = p.task /\ r.query = p.query /\ p.version < r.version

(* As long as it is alone, a materialisation holds what the search returns, *)
(* and a refresh has dealt with every latest pack that it has left behind.  *)
FoundNow(u) ==
  ktx[u].phase = "found" => \A p \in ktx[u].created : FromSearch(p) /\ (ktx[u].raced \/ Fresh(p))
RefreshSoFar(u) ==
  ktx[u].phase = "refreshing" =>
    /\ \A p \in ktx[u].todo \cup ktx[u].created : FromSearch(p)
    /\ ~ktx[u].raced =>
         /\ \A r \in ktx[u].created : UpToDate(u, r)
         /\ \A p \in LatestByTaskAndQuery(packs) :
              \/ p.task \in edited \/ p \in ktx[u].todo
              \/ UpToDate(u, p) \/ Outdone(p, ktx[u].created)

PackTransactions ==
  /\ ktx = [u \in KnowledgeUsers |-> ktx[u]]
  /\ \A u \in KnowledgeUsers :
       TxShape(ktx[u]) /\ Grounded(ktx[u]) /\ FoundNow(u) /\ RefreshSoFar(u)
  /\ \A u, v \in InFlight : u # v => ktx[u].raced
EntriesHaveSources ==
  \A e \in Entries : entryStatus[e] # "absent" => sourceStatus[SourceOf[e]] # "absent"
OwnPacksNameNothing ==
  \A p \in packs : p.query = NoQuery => DOMAIN p.ids = {} \/ p.task \in edited

KnowledgeInv ==
  /\ KnowledgeTypeOK /\ PackTransactions
  /\ EntriesHaveSources /\ OwnPacksNameNothing /\ StaleOnlyIfRaced

-----------------------------------------------------------------------------
(* Searches.                                                                *)

LEMMA SearchType ==
  ASSUME NEW q \in Queries, NEW limit \in Nat, NEW sources, NEW entries, NEW at
  PROVE  LET ids == SearchEntries(q, limit, sources, entries, at)
         IN /\ DOMAIN ids \subseteq Hits(q, sources, entries)
            /\ DOMAIN ids \subseteq Entries
            /\ ids \in [DOMAIN ids -> 1 .. limit]
<1> DEFINE hits == Hits(q, sources, entries)
<1>1. hits \subseteq Entries /\ IsFiniteSet(hits)
  BY KnowledgeAssumption, FS_Subset DEF Hits
<1>2. ASSUME NEW e \in hits PROVE Place(e, hits, at) \in Nat \ {0}
  <2>1. IsFiniteSet({d \in hits : at[d] > at[e]})
    BY <1>1, FS_Subset
  <2>2. Cardinality({d \in hits : at[d] > at[e]}) \in Nat
    BY <2>1, FS_CardinalityType
  <2> QED
    BY <2>2 DEF Place
<1> QED
  BY <1>1, <1>2 DEF SearchEntries, TopRanked

(* The change of a source that has no entries changes no search. *)
LEMMA SameHitsSameSearch ==
  ASSUME NEW q, NEW limit, NEW s1, NEW s2, NEW entries, NEW at,
         Hits(q, s1, entries) = Hits(q, s2, entries)
  PROVE  SearchEntries(q, limit, s1, entries, at) = SearchEntries(q, limit, s2, entries, at)
BY DEF SearchEntries

LEMMA PackFields ==
  ASSUME NEW p, IsPack(p)
  PROVE  /\ p.task \in PackTasks /\ p.scope \in {"task", "stage"} /\ p.version \in Nat \ {0}
         /\ p.limit \in Nat /\ p.query \in Queries \cup {NoQuery} /\ p.raced \in BOOLEAN
BY DEF IsPack

LEMMA MarkedPack ==
  ASSUME NEW p, IsPack(p), NEW b \in BOOLEAN
  PROVE  LET r == [p EXCEPT !.raced = b]
         IN /\ IsPack(r) /\ r.raced = b /\ r.task = p.task /\ r.scope = p.scope
            /\ r.version = p.version /\ r.query = p.query /\ r.limit = p.limit /\ r.ids = p.ids
BY DEF IsPack

PackRecords(ids) ==
  [task : PackTasks, scope : {"task", "stage"}, version : Nat \ {0}, limit : Nat,
   query : Queries \cup {NoQuery}, ids : {ids}, raced : BOOLEAN]

LEMMA NextVersion ==
  ASSUME NEW p, p \in PackRecords(p.ids), NEW ids
  PROVE  LET r == [p EXCEPT !.version = p.version + 1, !.ids = ids, !.raced = FALSE]
         IN /\ r \in PackRecords(ids) /\ r.ids = ids
            /\ r.task = p.task /\ r.scope = p.scope /\ r.version = p.version + 1
            /\ r.query = p.query /\ r.limit = p.limit
<1> DEFINE r == [p EXCEPT !.version = p.version + 1, !.ids = ids, !.raced = FALSE]
<1>1. r.version = p.version + 1
  BY DEF PackRecords
<1>2. r.ids = ids /\ r.raced = FALSE
  BY DEF PackRecords
<1>3. r.task = p.task /\ r.scope = p.scope
  BY DEF PackRecords
<1>4. r.query = p.query /\ r.limit = p.limit
  BY DEF PackRecords
<1>5. p.version + 1 \in Nat \ {0} /\ p.version \in Nat
  BY DEF PackRecords
<1>6. \A n \in Nat \ {0} : [p EXCEPT !.version = n, !.ids = ids, !.raced = FALSE] \in PackRecords(ids)
  BY DEF PackRecords
<1> QED
  BY <1>1, <1>2, <1>3, <1>4, <1>5, <1>6

LEMMA RefreshedPack ==
  ASSUME NEW u, NEW p, IsPack(p), p.query \in Queries
  PROVE  LET r == Refreshed(u, p)
         IN /\ IsPack(r) /\ UpToDate(u, r) /\ r.task = p.task /\ r.scope = p.scope
            /\ r.version = p.version + 1 /\ r.query = p.query /\ r.limit = p.limit
<1> DEFINE ids == Found(u, p.query, p.limit)
           r == [p EXCEPT !.version = p.version + 1, !.ids = ids, !.raced = FALSE]
<1>1. Refreshed(u, p) = r
  BY DEF Refreshed
<1>2. p.limit \in Nat /\ p \in PackRecords(p.ids)
  BY PackFields DEF IsPack, PackRecords
<1>3. DOMAIN ids \subseteq Entries /\ ids \in [DOMAIN ids -> 1 .. p.limit]
  BY <1>2, SearchType DEF Found
<1> HIDE DEF ids
<1>4. /\ r \in PackRecords(ids) /\ r.ids = ids
      /\ r.task = p.task /\ r.scope = p.scope /\ r.version = p.version + 1
      /\ r.query = p.query /\ r.limit = p.limit
  BY <1>2, NextVersion
<1> HIDE DEF r
<1>5. IsPack(r)
  BY <1>3, <1>4 DEF IsPack, PackRecords
<1>6. UpToDate(u, r)
  BY <1>4 DEF UpToDate, ids
<1> QED
  BY <1>1, <1>4, <1>5, <1>6

LEMMA LatestIs ==
  ASSUME NEW S, NEW p
  PROVE  p \in LatestByTaskAndQuery(S) <=>
           /\ p \in S /\ p.task \in PackTasks /\ FromSearch(p)
           /\ \A r \in S : r.task = p.task /\ r.scope = "task" /\ r.query = p.query
                             => r.version <= p.version
<1>1. p \in LatestByTaskAndQuery(S) <=>
        \E t \in PackTasks, q \in Queries : p \in Latest(QueryPacks(S, t, q))
  BY DEF LatestByTaskAndQuery
<1>2. \A t, q, r : r \in QueryPacks(S, t, q) <=>
                     r \in S /\ r.task = t /\ r.scope = "task" /\ r.query = q
  BY DEF QueryPacks, TaskPacks
<1>3. \A t, q : p \in Latest(QueryPacks(S, t, q)) <=>
        /\ p \in QueryPacks(S, t, q)
        /\ \A r \in QueryPacks(S, t, q) : r.version <= p.version
  BY DEF Latest
<1> QED
  BY <1>1, <1>2, <1>3 DEF FromSearch

-----------------------------------------------------------------------------
LEMMA KnowledgeInvInit == KnowledgeInit => KnowledgeInv
<1> SUFFICES ASSUME KnowledgeInit PROVE KnowledgeInv
  OBVIOUS
<1> DEFINE there(e) == \E i \in DOMAIN InitialEntries : InitialEntries[i] = e
<1>1. KnowledgeTypeOK
  <2>1. DOMAIN InitialEntries \subseteq Nat /\ Len(InitialEntries) \in Nat
    BY KnowledgeAssumption
  <2>2. entryAt \in [Entries -> Nat]
    <3>1. ASSUME NEW e \in Entries, there(e)
          PROVE  (CHOOSE i \in DOMAIN InitialEntries : InitialEntries[i] = e) \in Nat
      BY <2>1, <3>1
    <3> QED
      BY <3>1 DEF KnowledgeInit
  <2>3. sourceStatus \in [Sources -> RowStatus] /\ entryStatus \in [Entries -> RowStatus]
    BY DEF KnowledgeInit, RowStatus
  <2> QED
    BY <2>1, <2>2, <2>3 DEF KnowledgeInit, KnowledgeTypeOK, Idle
<1>2. PackTransactions
  BY DEF KnowledgeInit, PackTransactions, TxShape, Grounded, FoundNow, RefreshSoFar, InFlight, Idle
<1>3. EntriesHaveSources
  BY KnowledgeAssumption DEF KnowledgeInit, EntriesHaveSources
<1>4. OwnPacksNameNothing /\ StaleOnlyIfRaced
  BY LatestIs DEF KnowledgeInit, OwnPacksNameNothing, StaleOnlyIfRaced
<1> QED
  BY <1>1, <1>2, <1>3, <1>4 DEF KnowledgeInv

-----------------------------------------------------------------------------
(* What a transaction sees of the rows is rows again, and none that is      *)
(* there disappears.                                                        *)
LEMMA SeenRows ==
  ASSUME KnowledgeInv, NEW u \in KnowledgeUsers, ktx[u].phase \in {"changed", "refreshing"}
  PROVE  /\ SourceSeen(u) \in [Sources -> RowStatus]
         /\ EntrySeen(u) \in [Entries -> RowStatus]
         /\ AtSeen(u) \in [Entries -> Nat]
         /\ \A s \in Sources : sourceStatus[s] # "absent" => SourceSeen(u)[s] # "absent"
         /\ \A e \in Entries : EntrySeen(u)[e] # "absent" =>
              /\ sourceStatus[SourceOf[e]] # "absent"
              /\ SourceSeen(u)[SourceOf[e]] # "absent"
<1>1. /\ TxShape(ktx[u]) /\ Grounded(ktx[u]) /\ EntriesHaveSources
      /\ sourceStatus \in [Sources -> RowStatus]
      /\ entryStatus \in [Entries -> RowStatus] /\ entryAt \in [Entries -> Nat]
  BY DEF KnowledgeInv, PackTransactions, KnowledgeTypeOK
<1>2. \A k : StatusSet(k) \in RowStatus /\ StatusSet(k) # "absent"
  BY DEF StatusSet, RowStatus
<1>3. SourceOf \in [Entries -> Sources]
  BY KnowledgeAssumption
<1>4. CASE Wrote(u, SourceKinds)
  <2> DEFINE set == StatusSet(ktx[u].kind)
  <2>1. /\ SourceSeen(u) = [sourceStatus EXCEPT ![ktx[u].on] = set]
        /\ EntrySeen(u) = entryStatus /\ AtSeen(u) = entryAt
    BY <1>4 DEF SourceSeen, EntrySeen, AtSeen, Wrote, SourceKinds, EntryKinds
  <2>2. set \in RowStatus /\ set # "absent"
    BY <1>2
  <2> HIDE DEF set
  <2>3. SourceSeen(u) \in [Sources -> RowStatus]
    BY <1>1, <2>1, <2>2
  <2>4. \A s \in Sources : sourceStatus[s] # "absent" => SourceSeen(u)[s] # "absent"
    BY <1>1, <2>1, <2>2
  <2> QED
    BY <1>1, <1>3, <2>1, <2>3, <2>4 DEF EntriesHaveSources
<1>5. CASE Wrote(u, EntryKinds)
  <2> DEFINE set == StatusSet(ktx[u].kind)
  <2>1. /\ EntrySeen(u) = [entryStatus EXCEPT ![ktx[u].on] = set]
        /\ AtSeen(u) = [entryAt EXCEPT ![ktx[u].on] = ktx[u].at]
        /\ SourceSeen(u) = sourceStatus
    BY <1>5 DEF SourceSeen, EntrySeen, AtSeen, Wrote, SourceKinds, EntryKinds
  <2>2. ktx[u].at \in Nat /\ sourceStatus[SourceOf[ktx[u].on]] # "absent"
    BY <1>1, <1>5 DEF TxShape, Grounded, Wrote
  <2>3. set \in RowStatus
    BY <1>2
  <2> HIDE DEF set
  <2>4. EntrySeen(u) \in [Entries -> RowStatus] /\ AtSeen(u) \in [Entries -> Nat]
    BY <1>1, <2>1, <2>2, <2>3
  <2>5. ASSUME NEW e \in Entries, EntrySeen(u)[e] # "absent"
        PROVE  sourceStatus[SourceOf[e]] # "absent"
    <3>1. CASE e = ktx[u].on
      BY <2>2, <3>1
    <3>2. CASE e # ktx[u].on
      <4>1. EntrySeen(u)[e] = entryStatus[e]
        BY <1>1, <2>1, <3>2
      <4> QED
        BY <1>1, <2>5, <4>1 DEF EntriesHaveSources
    <3> QED
      BY <3>1, <3>2
  <2> QED
    BY <1>1, <2>1, <2>4, <2>5
<1>6. Wrote(u, SourceKinds) \/ Wrote(u, EntryKinds)
  BY <1>1 DEF Wrote, TxShape
<1> QED
  BY <1>4, <1>5, <1>6

LEMMA SameView ==
  ASSUME NEW v, UNCHANGED <<sourceStatus, entryStatus, entryAt>>,
         ktx'[v].phase = ktx[v].phase, ktx'[v].kind = ktx[v].kind,
         ktx'[v].on = ktx[v].on, ktx'[v].at = ktx[v].at
  PROVE  \A p : UpToDate(v, p)' <=> UpToDate(v, p)
BY DEF UpToDate, Found, SourceSeen, EntrySeen, AtSeen, Wrote

(* A step of one transaction that leaves the committed rows alone. *)
LEMMA OwnStep ==
  ASSUME KnowledgeInv, NEW u \in KnowledgeUsers, NEW tx,
         ktx' = [ktx EXCEPT ![u] = tx],
         UNCHANGED <<sourceStatus, entryStatus, entryAt, packs, clock, edited>>,
         TxShape(tx), Grounded(tx), \A p \in tx.todo \cup tx.created : IsPack(p),
         tx.phase # "idle" => ktx[u].phase # "idle" /\ tx.raced = ktx[u].raced,
         FoundNow(u)', RefreshSoFar(u)'
  PROVE  KnowledgeInv'
<1>1. KnowledgeTypeOK /\ PackTransactions
  BY DEF KnowledgeInv
<1>2. ktx'[u] = tx /\ \A v \in KnowledgeUsers \ {u} : ktx'[v] = ktx[v]
  BY <1>1 DEF PackTransactions
<1>3. ktx' = [v \in KnowledgeUsers |-> ktx'[v]]
  BY <1>1 DEF PackTransactions
<1>4. KnowledgeTypeOK'
  BY <1>1, <1>2 DEF KnowledgeTypeOK, TxShape
<1>5. \A v \in KnowledgeUsers : TxShape(ktx'[v]) /\ Grounded(ktx'[v])
  BY <1>1, <1>2 DEF PackTransactions
<1>6. \A v \in KnowledgeUsers : Grounded(ktx[v])'
  BY <1>5 DEF Grounded
<1>7. ASSUME NEW v \in KnowledgeUsers \ {u}
      PROVE  FoundNow(v)' /\ RefreshSoFar(v)'
  <2>1. ktx'[v] = ktx[v] /\ FoundNow(v) /\ RefreshSoFar(v)
    BY <1>1, <1>2 DEF PackTransactions
  <2>2. FoundNow(v)'
    BY <2>1 DEF FoundNow, Fresh
  <2>3. RefreshSoFar(v)'
    BY <2>1, SameView DEF RefreshSoFar
  <2> QED
    BY <2>2, <2>3
<1>8. \A v, w \in InFlight' : v # w => ktx'[v].raced
  BY <1>1, <1>2 DEF PackTransactions, InFlight
<1>9. PackTransactions'
  BY <1>3, <1>5, <1>6, <1>7, <1>8 DEF PackTransactions
<1>10. (EntriesHaveSources /\ OwnPacksNameNothing /\ StaleOnlyIfRaced)'
  BY DEF KnowledgeInv, EntriesHaveSources, OwnPacksNameNothing, StaleOnlyIfRaced, Fresh
<1> QED
  BY <1>4, <1>9, <1>10 DEF KnowledgeInv

LEMMA EndKeeps ==
  ASSUME KnowledgeInv, NEW u \in KnowledgeUsers, End(u),
         UNCHANGED <<sourceStatus, entryStatus, entryAt, packs, clock, edited>>
  PROVE  KnowledgeInv'
<1>1. ktx'[u] = Idle
  BY DEF End, KnowledgeInv, PackTransactions
<1>2. TxShape(Idle) /\ Grounded(Idle) /\ FoundNow(u)' /\ RefreshSoFar(u)'
  BY <1>1 DEF TxShape, Grounded, FoundNow, RefreshSoFar, Idle
<1>3. Idle.todo = {} /\ Idle.created = {} /\ Idle.phase = "idle"
  BY DEF Idle
<1> QED
  BY <1>2, <1>3, OwnStep DEF End

(* A transaction that begins marks those it begins beside. *)
LEMMA StartKeeps ==
  ASSUME KnowledgeInv, NEW u \in KnowledgeUsers, NEW tx, Start(u, tx), TxShape(tx),
         UNCHANGED <<sourceStatus, entryStatus, entryAt, packs, edited>>,
         tx.phase \in {"begun", "found"},
         \A p \in tx.created : IsPack(p) /\ FromSearch(p) /\ Fresh(p)
  PROVE  KnowledgeInv'
<1>0. PICK beside \in BOOLEAN : beside = (InFlight # {})
  OBVIOUS
<1> DEFINE new == [tx EXCEPT !.raced = beside]
<1>1. KnowledgeTypeOK /\ PackTransactions
  BY DEF KnowledgeInv
<1>2. /\ ktx[u].phase = "idle" /\ clock' = clock + 1
      /\ ktx' = [v \in KnowledgeUsers |->
                   IF v = u THEN new
                   ELSE IF v \in InFlight THEN [ktx[v] EXCEPT !.raced = TRUE] ELSE ktx[v]]
  BY <1>0 DEF Start
<1>4. /\ new.phase = tx.phase /\ new.kind = tx.kind /\ new.on = tx.on /\ new.todo = tx.todo
      /\ new.created = tx.created /\ new.raced = beside
      /\ TxShape(new)
  BY DEF TxShape
<1>5. ktx'[u] = new /\ ktx' = [v \in KnowledgeUsers |-> ktx'[v]]
  BY <1>2
<1>6. ASSUME NEW v \in KnowledgeUsers, v # u
      PROVE  /\ TxShape(ktx'[v])
             /\ ktx'[v].phase = ktx[v].phase /\ ktx'[v].kind = ktx[v].kind
             /\ ktx'[v].on = ktx[v].on
             /\ ktx'[v].todo = ktx[v].todo /\ ktx'[v].created = ktx[v].created
             /\ ktx[v].phase # "idle" => ktx'[v].raced
  <2>1. TxShape(ktx[v])
    BY <1>1 DEF PackTransactions
  <2>2. CASE v \in InFlight
    <3>1. ktx'[v] = [ktx[v] EXCEPT !.raced = TRUE]
      BY <1>2, <1>6, <2>2
    <3> QED
      BY <2>1, <3>1 DEF TxShape
  <2>3. CASE v \notin InFlight
    <3>1. ktx'[v] = ktx[v] /\ ktx[v].phase = "idle"
      BY <1>2, <1>6, <2>3 DEF InFlight
    <3> QED
      BY <2>1, <3>1
  <2> QED
    BY <2>2, <2>3
<1> HIDE DEF new
<1>7. KnowledgeTypeOK'
  <2>1. \A v \in KnowledgeUsers :
          /\ ktx'[v].phase \in {"idle", "begun", "changed", "refreshing", "found"}
          /\ \A p \in ktx'[v].todo \cup ktx'[v].created : IsPack(p)
    <3>1. new.todo = {}
      BY <1>4 DEF TxShape
    <3> QED
      BY <1>1, <1>4, <1>5, <1>6, <3>1 DEF KnowledgeTypeOK
  <2> QED
    BY <1>1, <1>2, <2>1 DEF KnowledgeTypeOK
<1>8. ASSUME NEW v \in KnowledgeUsers
      PROVE  /\ TxShape(ktx'[v]) /\ Grounded(ktx[v])'
             /\ FoundNow(v)' /\ RefreshSoFar(v)'
  <2>1. CASE v = u
    <3>1. Grounded(ktx[v])' /\ RefreshSoFar(v)'
      BY <1>4, <1>5, <2>1 DEF Grounded, RefreshSoFar
    <3>2. FoundNow(v)'
      BY <1>4, <1>5, <2>1 DEF FoundNow, Fresh
    <3> QED
      BY <1>4, <1>5, <2>1, <3>1, <3>2
  <2>2. CASE v # u
    <3>1. Grounded(ktx[v]) /\ FoundNow(v) /\ RefreshSoFar(v)
      BY <1>1 DEF PackTransactions
    <3>2. Grounded(ktx[v])'
      BY <1>6, <2>2, <3>1 DEF Grounded
    <3>3. FoundNow(v)'
      BY <1>6, <2>2, <3>1 DEF FoundNow
    <3>4. RefreshSoFar(v)'
      BY <1>6, <2>2, <3>1 DEF RefreshSoFar
    <3> QED
      BY <1>6, <2>2, <3>2, <3>3, <3>4
  <2> QED
    BY <2>1, <2>2
<1>9. ASSUME NEW v \in InFlight', NEW w \in InFlight', v # w
      PROVE  ktx'[v].raced
  <2>1. CASE v = u
    <3>1. w \in InFlight
      BY <1>6, <1>9, <2>1 DEF InFlight
    <3> QED
      BY <1>0, <1>4, <1>5, <2>1, <3>1
  <2>2. CASE v # u
    BY <1>6, <2>2 DEF InFlight
  <2> QED
    BY <2>1, <2>2
<1>10. PackTransactions'
  BY <1>5, <1>8, <1>9 DEF PackTransactions
<1>11. (EntriesHaveSources /\ OwnPacksNameNothing /\ StaleOnlyIfRaced)'
  BY DEF KnowledgeInv, EntriesHaveSources, OwnPacksNameNothing, StaleOnlyIfRaced, Fresh
<1> QED
  BY <1>7, <1>10, <1>11 DEF KnowledgeInv

(* A commit: whatever else is in flight has run beside it. *)
LEMMA CommitKeepsPacks ==
  ASSUME KnowledgeInv, NEW u \in KnowledgeUsers, ktx[u].phase # "idle", End(u),
         UNCHANGED <<clock, edited>>,
         sourceStatus' \in [Sources -> RowStatus], entryStatus' \in [Entries -> RowStatus],
         entryAt' \in [Entries -> Nat],
         \A s \in Sources : sourceStatus[s] # "absent" => sourceStatus'[s] # "absent",
         \A p \in packs' : IsPack(p),
         EntriesHaveSources', OwnPacksNameNothing', StaleOnlyIfRaced'
  PROVE  KnowledgeInv'
<1>1. KnowledgeTypeOK /\ PackTransactions
  BY DEF KnowledgeInv
<1>2. /\ ktx'[u] = Idle /\ \A v \in KnowledgeUsers \ {u} : ktx'[v] = ktx[v]
      /\ ktx' = [v \in KnowledgeUsers |-> ktx'[v]]
  BY <1>1 DEF End, PackTransactions
<1>3. KnowledgeTypeOK'
  <2>1. Idle.phase = "idle" /\ Idle.todo = {} /\ Idle.created = {}
    BY DEF Idle
  <2> QED
    BY <1>1, <1>2, <2>1 DEF KnowledgeTypeOK
<1>4. ASSUME NEW v \in KnowledgeUsers
      PROVE  /\ TxShape(ktx'[v]) /\ Grounded(ktx[v])'
             /\ FoundNow(v)' /\ RefreshSoFar(v)'
  <2>1. CASE v = u
    <3>1. ktx'[v] = Idle /\ Idle.phase = "idle"
      BY <1>2, <2>1 DEF Idle
    <3>2. TxShape(Idle)
      BY DEF TxShape, Idle
    <3> QED
      BY <3>1, <3>2 DEF Grounded, FoundNow, RefreshSoFar
  <2>2. CASE v # u
    <3>1. /\ TxShape(ktx[v]) /\ Grounded(ktx[v]) /\ FoundNow(v) /\ RefreshSoFar(v)
          /\ ktx'[v] = ktx[v]
      BY <1>1, <1>2, <2>2 DEF PackTransactions
    <3>2. ktx[v].phase # "idle" => ktx[v].raced
      BY <1>1, <2>2 DEF PackTransactions, InFlight
    <3>3. Grounded(ktx[v])'
      BY <3>1, KnowledgeAssumption DEF Grounded, TxShape, SourceKinds, EntryKinds
    <3>4. FoundNow(v)' /\ RefreshSoFar(v)'
      BY <3>1, <3>2 DEF FoundNow, RefreshSoFar
    <3> QED
      BY <3>1, <3>3, <3>4
  <2> QED
    BY <2>1, <2>2
<1>5. \A v, w \in InFlight' : v # w => ktx'[v].raced
  BY <1>1, <1>2 DEF PackTransactions, InFlight, Idle
<1>6. PackTransactions'
  BY <1>2, <1>4, <1>5 DEF PackTransactions
<1> QED
  BY <1>3, <1>6 DEF KnowledgeInv

-----------------------------------------------------------------------------
(* The steps of a change.                                                   *)

LEMMA BeginChangeKeeps ==
  ASSUME KnowledgeInv, NEW u \in KnowledgeUsers, NEW kind, NEW x, BeginChange(u, kind, x),
         \/ kind \in SourceKinds /\ x \in Sources
         \/ kind \in EntryKinds /\ x \in Entries
  PROVE  KnowledgeInv'
<1> DEFINE tx == [Idle EXCEPT !.phase = "begun", !.kind = kind, !.on = x, !.at = clock + 1]
<1>1. clock + 1 \in Nat
  BY DEF KnowledgeInv, KnowledgeTypeOK
<1>2. /\ tx.phase = "begun" /\ tx.created = {}
      /\ TxShape(tx)
  BY <1>1 DEF TxShape, Idle
<1> QED
  BY <1>2, StartKeeps DEF BeginChange

LEMMA MakeChangeKeeps ==
  ASSUME KnowledgeInv, NEW u \in KnowledgeUsers, MakeChange(u)
  PROVE  KnowledgeInv'
<1> DEFINE tx == [ktx[u] EXCEPT !.phase = "changed"]
<1>1. TxShape(ktx[u]) /\ EntriesHaveSources /\ ktx[u].phase = "begun"
  BY DEF KnowledgeInv, PackTransactions, MakeChange
<1>2. /\ tx.phase = "changed" /\ tx.kind = ktx[u].kind /\ tx.on = ktx[u].on
      /\ tx.todo = {} /\ tx.created = {} /\ tx.raced = ktx[u].raced
      /\ TxShape(tx)
  BY <1>1 DEF TxShape
<1>3. ktx' = [ktx EXCEPT ![u] = tx] /\ MayChange(ktx[u].kind, ktx[u].on)
  BY DEF MakeChange
<1> HIDE DEF tx
<1>4. ktx'[u] = tx
  BY <1>3 DEF KnowledgeInv, PackTransactions
<1>5. Grounded(tx)
  BY <1>1, <1>2, <1>3 DEF Grounded, MayChange, TxShape, SourceKinds, EntryKinds,
                          EntriesHaveSources
<1>6. FoundNow(u)' /\ RefreshSoFar(u)'
  BY <1>2, <1>4 DEF FoundNow, RefreshSoFar
<1> QED
  BY <1>1, <1>2, <1>3, <1>5, <1>6, OwnStep DEF MakeChange

LEMMA ListPacksKeeps ==
  ASSUME KnowledgeInv, NEW u \in KnowledgeUsers, ListPacks(u)
  PROVE  KnowledgeInv'
<1> DEFINE listed == LatestByTaskAndQuery(packs)
           tx == [ktx[u] EXCEPT !.phase = "refreshing", !.todo = listed]
<1>1. TxShape(ktx[u]) /\ Grounded(ktx[u]) /\ ktx[u].phase = "changed" /\ ktx[u].created = {}
  BY DEF KnowledgeInv, PackTransactions, ListPacks, TxShape
<1>2. \A p \in listed : IsPack(p) /\ FromSearch(p)
  BY LatestIs DEF KnowledgeInv, KnowledgeTypeOK
<1>3. ktx' = [ktx EXCEPT ![u] = tx] /\ UNCHANGED packs
  BY DEF ListPacks
<1> HIDE DEF listed
<1>4. /\ tx.phase = "refreshing" /\ tx.kind = ktx[u].kind /\ tx.on = ktx[u].on
      /\ tx.todo = listed /\ tx.created = {} /\ tx.raced = ktx[u].raced
      /\ TxShape(tx)
  BY <1>1 DEF TxShape
<1> HIDE DEF tx
<1>5. ktx'[u] = tx
  BY <1>3 DEF KnowledgeInv, PackTransactions
<1>6. Grounded(tx)
  BY <1>1, <1>4 DEF Grounded
<1>7. FoundNow(u)'
  BY <1>4, <1>5 DEF FoundNow
<1>8. RefreshSoFar(u)'
  BY <1>2, <1>3, <1>4, <1>5 DEF RefreshSoFar, listed
<1> QED
  BY <1>1, <1>2, <1>3, <1>4, <1>6, <1>7, <1>8, OwnStep DEF ListPacks

LEMMA RefreshPackKeeps ==
  ASSUME KnowledgeInv, NEW u \in KnowledgeUsers, NEW p \in ktx[u].todo, RefreshPack(u, p)
  PROVE  KnowledgeInv'
<1> DEFINE next == Refreshed(u, p)
           made == IF next.ids = p.ids THEN {} ELSE {next}
           tx == [ktx[u] EXCEPT !.todo = @ \ {p}, !.created = @ \cup made]
<1>1. /\ TxShape(ktx[u]) /\ Grounded(ktx[u]) /\ RefreshSoFar(u) /\ ktx[u].phase = "refreshing"
      /\ \A r \in ktx[u].todo \cup ktx[u].created : IsPack(r)
  BY DEF KnowledgeInv, KnowledgeTypeOK, PackTransactions, RefreshPack
<1>2. IsPack(p) /\ FromSearch(p)
  BY <1>1 DEF RefreshSoFar
<1>3. /\ IsPack(next) /\ UpToDate(u, next) /\ next.task = p.task /\ next.scope = p.scope
      /\ next.version = p.version + 1 /\ next.query = p.query /\ next.limit = p.limit
  BY <1>2, RefreshedPack DEF FromSearch
<1>4. ktx' = [ktx EXCEPT ![u] = tx] /\ UNCHANGED <<sourceStatus, entryStatus, entryAt, packs, clock, edited>>
  <2>1. ktx' = [ktx EXCEPT ![u].todo = @ \ {p}, ![u].created = @ \cup made]
    BY DEF RefreshPack
  <2> HIDE DEF made
  <2> QED
    BY <1>1, <2>1 DEF RefreshPack, TxShape
<1>5. FromSearch(next) /\ p.version < next.version
  BY <1>2, <1>3, PackFields DEF FromSearch
<1>6. next.ids = p.ids => UpToDate(u, p)
  BY <1>3 DEF UpToDate
<1>7. made \subseteq {next} /\ (made = {} => UpToDate(u, p)) /\ (made # {} => next \in made)
  BY <1>6
<1> HIDE DEF made, next
<1>8. /\ tx.phase = "refreshing" /\ tx.kind = ktx[u].kind /\ tx.on = ktx[u].on /\ tx.at = ktx[u].at
      /\ tx.todo = ktx[u].todo \ {p} /\ tx.created = ktx[u].created \cup made
      /\ tx.raced = ktx[u].raced /\ TxShape(tx)
  BY <1>1 DEF TxShape
<1> HIDE DEF tx
<1>9. ktx'[u] = tx
  BY <1>4 DEF KnowledgeInv, PackTransactions
<1>10. \A r : UpToDate(u, r)' <=> UpToDate(u, r)
  BY <1>1, <1>4, <1>8, <1>9, SameView
<1>11. Grounded(tx) /\ FoundNow(u)'
  BY <1>1, <1>8, <1>9 DEF Grounded, FoundNow
<1>12. ASSUME ~ktx[u].raced
       PROVE  /\ \A r \in tx.created : UpToDate(u, r)
              /\ \A r \in LatestByTaskAndQuery(packs) :
                   r.task \in edited \/ r \in tx.todo \/ UpToDate(u, r) \/ Outdone(r, tx.created)
  <2>1. \A r \in tx.created : UpToDate(u, r)
    BY <1>1, <1>3, <1>7, <1>8, <1>12 DEF RefreshSoFar
  <2>2. ASSUME NEW r \in LatestByTaskAndQuery(packs)
        PROVE  r.task \in edited \/ r \in tx.todo \/ UpToDate(u, r) \/ Outdone(r, tx.created)
    <3>1. \/ r.task \in edited \/ r \in ktx[u].todo
          \/ UpToDate(u, r) \/ Outdone(r, ktx[u].created)
      BY <1>1, <1>12 DEF RefreshSoFar
    <3>2. Outdone(r, ktx[u].created) => Outdone(r, tx.created)
      BY <1>8 DEF Outdone
    <3>3. CASE r = p
      <4>1. made # {} => Outdone(p, tx.created)
        BY <1>3, <1>5, <1>7, <1>8 DEF Outdone
      <4> QED
        BY <1>7, <3>3, <4>1
    <3> QED
      BY <1>8, <3>1, <3>2, <3>3
  <2> QED
    BY <2>1, <2>2
<1>13. RefreshSoFar(u)'
  <2>1. \A r \in tx.todo \cup tx.created : FromSearch(r)
    BY <1>1, <1>5, <1>7, <1>8 DEF RefreshSoFar
  <2> QED
    BY <1>4, <1>8, <1>9, <1>10, <1>12, <2>1 DEF RefreshSoFar
<1>14. \A r \in tx.todo \cup tx.created : IsPack(r)
  BY <1>1, <1>3, <1>7, <1>8
<1> QED
  BY <1>1, <1>4, <1>8, <1>11, <1>13, <1>14, OwnStep

(* What is latest among the packs a commit leaves was latest before, or is  *)
(* the commit's own.                                                        *)
LEMMA CommitChangeKeeps ==
  ASSUME KnowledgeInv, NEW u \in KnowledgeUsers, CommitChange(u)
  PROVE  KnowledgeInv'
<1> DEFINE rows == packs \cup ktx[u].created
           marked(p) == [p EXCEPT !.raced = ktx[u].raced]
<1>1. /\ TxShape(ktx[u]) /\ RefreshSoFar(u) /\ ktx[u].phase = "refreshing" /\ ktx[u].todo = {}
      /\ ktx[u].raced \in BOOLEAN /\ OwnPacksNameNothing
  BY DEF KnowledgeInv, PackTransactions, CommitChange, TxShape
<1>2. \A p \in rows : IsPack(p)
  BY DEF KnowledgeInv, KnowledgeTypeOK
<1>3. \A p \in rows : /\ IsPack(marked(p)) /\ marked(p).raced = ktx[u].raced
                      /\ marked(p).task = p.task /\ marked(p).scope = p.scope
                      /\ marked(p).version = p.version /\ marked(p).query = p.query
                      /\ marked(p).limit = p.limit /\ marked(p).ids = p.ids
  BY <1>1, <1>2, MarkedPack
<1>4. /\ packs' = {marked(p) : p \in rows} /\ UNCHANGED <<clock, edited>> /\ End(u)
      /\ sourceStatus' = SourceSeen(u) /\ entryStatus' = EntrySeen(u) /\ entryAt' = AtSeen(u)
  BY DEF CommitChange
<1> HIDE DEF rows, marked
<1>5. \A p \in packs' : IsPack(p)
  BY <1>3, <1>4
<1>6. EntriesHaveSources'
  BY <1>1, <1>4, SeenRows DEF EntriesHaveSources
<1>7. OwnPacksNameNothing'
  <2>1. ASSUME NEW p \in rows, p.query = NoQuery PROVE DOMAIN p.ids = {} \/ p.task \in edited
    BY <1>1, <2>1, KnowledgeAssumption DEF rows, OwnPacksNameNothing, RefreshSoFar, FromSearch
  <2> QED
    BY <1>3, <1>4, <2>1 DEF OwnPacksNameNothing
<1>8. StaleOnlyIfRaced'
  <2> SUFFICES ASSUME NEW r \in LatestByTaskAndQuery(packs'), ~r.raced, r.task \notin edited
               PROVE  Fresh(r)'
    BY <1>4 DEF StaleOnlyIfRaced
  <2>1. PICK p \in rows : r = marked(p)
    BY <1>4, LatestIs
  <2>2. /\ p.task = r.task /\ p.query = r.query /\ p.ids = r.ids /\ p.limit = r.limit
        /\ p.version = r.version /\ p.scope = r.scope
        /\ ~ktx[u].raced /\ IsPack(p) /\ FromSearch(p) /\ p.task \in PackTasks
    BY <1>2, <1>3, <2>1, LatestIs DEF FromSearch
  <2>3. \A q \in rows : q.task = p.task /\ q.scope = "task" /\ q.query = p.query
                          => q.version <= p.version
    BY <1>3, <1>4, <2>2, LatestIs
  <2>4. UpToDate(u, p)
    <3>1. CASE p \in ktx[u].created
      BY <1>1, <2>2, <3>1 DEF RefreshSoFar
    <3>2. CASE p \in packs
      <4>1. p \in LatestByTaskAndQuery(packs)
        BY <2>2, <2>3, <3>2, LatestIs DEF rows
      <4>2. ~Outdone(p, ktx[u].created)
        <5> SUFFICES ASSUME NEW q \in ktx[u].created, q.task = p.task, q.query = p.query,
                            p.version < q.version
                     PROVE  FALSE
          BY DEF Outdone
        <5>1. q \in rows /\ q.scope = "task"
          BY <1>1 DEF rows, RefreshSoFar, FromSearch
        <5>2. q.version \in Nat /\ p.version \in Nat
          BY <1>2, <2>2, <5>1, PackFields
        <5> QED
          BY <2>3, <5>1, <5>2
      <4> QED
        BY <1>1, <2>2, <4>1, <4>2 DEF RefreshSoFar
    <3> QED
      BY <3>1, <3>2 DEF rows
  <2> QED
    BY <1>4, <2>2, <2>4 DEF UpToDate, Fresh, Found
<1> QED
  BY <1>1, <1>4, <1>5, <1>6, <1>7, <1>8, SeenRows, CommitKeepsPacks

-----------------------------------------------------------------------------
(* The packs that users ask for, and new sources.                           *)

LEMMA BeginMaterializeKeeps ==
  ASSUME KnowledgeInv, NEW u \in KnowledgeUsers, NEW ask \in Ask, BeginMaterialize(u, ask)
  PROVE  KnowledgeInv'
<1> DEFINE ids == SearchEntries(ask.query, ask.limit, sourceStatus, entryStatus, entryAt)
           row == [task |-> ask.task, scope |-> "task", version |-> ask.version,
                   query |-> ask.query, limit |-> ask.limit, ids |-> ids, raced |-> FALSE]
           tx == [Idle EXCEPT !.phase = "found", !.kind = "materialize", !.created = {row}]
<1>1. /\ ask.task \in PackTasks /\ ask.query \in Queries /\ ask.version \in Nat \ {0}
      /\ ask.limit \in Nat
  <2>1. Limits \subseteq 1 .. 50 /\ 1 .. MaxPackVersion \subseteq Nat \ {0}
    BY KnowledgeAssumption
  <2>2. /\ ask.task \in PackTasks /\ ask.query \in Queries
        /\ ask.limit \in Limits /\ ask.version \in 1 .. MaxPackVersion
    BY DEF Ask
  <2>3. ask.limit \in 1 .. 50
    BY <2>1, <2>2
  <2>4. ask.version \in Nat \ {0}
    BY <2>1, <2>2
  <2> QED
    BY <2>2, <2>3, <2>4
<1>2. DOMAIN ids \subseteq Entries /\ ids \in [DOMAIN ids -> 1 .. ask.limit]
  BY <1>1, SearchType
<1>3. Start(u, tx) /\ UNCHANGED <<sourceStatus, entryStatus, entryAt, packs, edited>>
  BY DEF BeginMaterialize
<1>4. row.query = ask.query /\ row.limit = ask.limit /\ row.scope = "task" /\ row.ids = ids
  OBVIOUS
<1>5. Fresh(row)
  BY <1>4 DEF Fresh
<1> HIDE DEF ids
<1>6. IsPack(row) /\ FromSearch(row)
  BY <1>1, <1>2 DEF IsPack, FromSearch
<1> HIDE DEF row
<1>7. tx.phase = "found" /\ tx.created = {row} /\ TxShape(tx)
  BY DEF TxShape, Idle
<1> QED
  BY <1>3, <1>5, <1>6, <1>7, StartKeeps

LEMMA CommitMaterializeKeeps ==
  ASSUME KnowledgeInv, NEW u \in KnowledgeUsers, CommitMaterialize(u)
  PROVE  KnowledgeInv'
<1> DEFINE marked(p) == [p EXCEPT !.raced = ktx[u].raced]
           rows == {marked(p) : p \in ktx[u].created}
<1>1. /\ TxShape(ktx[u]) /\ FoundNow(u) /\ ktx[u].phase = "found" /\ ktx[u].raced \in BOOLEAN
      /\ OwnPacksNameNothing /\ EntriesHaveSources /\ KnowledgeTypeOK /\ StaleOnlyIfRaced
  BY DEF KnowledgeInv, PackTransactions, CommitMaterialize, TxShape
<1>2. \A p \in ktx[u].created :
        /\ IsPack(marked(p)) /\ marked(p).raced = ktx[u].raced
        /\ marked(p).query = p.query /\ marked(p).limit = p.limit /\ marked(p).ids = p.ids
        /\ marked(p).scope = p.scope
  BY <1>1, MarkedPack DEF KnowledgeTypeOK
<1>3. /\ packs' = packs \cup rows /\ End(u)
      /\ UNCHANGED <<sourceStatus, entryStatus, entryAt, clock, edited>>
  BY DEF CommitMaterialize
<1> HIDE DEF marked
<1>4. \A r \in rows : IsPack(r) /\ FromSearch(r) /\ (r.raced \/ Fresh(r))
  BY <1>1, <1>2 DEF FoundNow, FromSearch, Fresh
<1> HIDE DEF rows
<1>5. \A p \in packs' : IsPack(p)
  BY <1>1, <1>3, <1>4 DEF KnowledgeTypeOK
<1>6. OwnPacksNameNothing' /\ EntriesHaveSources'
  BY <1>1, <1>3, <1>4, KnowledgeAssumption DEF OwnPacksNameNothing, EntriesHaveSources, FromSearch
<1>7. StaleOnlyIfRaced'
  <2> SUFFICES ASSUME NEW r \in LatestByTaskAndQuery(packs')
               PROVE  (Fresh(r) \/ r.raced \/ r.task \in edited)'
    BY DEF StaleOnlyIfRaced
  <2>1. Fresh(r) => Fresh(r)'
    BY <1>3 DEF Fresh
  <2>2. CASE r \in rows
    BY <1>4, <2>1, <2>2
  <2>3. CASE r \in packs
    <3>1. r \in LatestByTaskAndQuery(packs)
      BY <1>3, <2>3, LatestIs
    <3> QED
      BY <1>1, <1>3, <2>1, <3>1 DEF StaleOnlyIfRaced
  <2> QED
    BY <1>3, <2>2, <2>3, LatestIs
<1> QED
  BY <1>1, <1>3, <1>5, <1>6, <1>7, CommitKeepsPacks DEF KnowledgeTypeOK

(* A statement outside of any transaction, if no search changes by it and   *)
(* no pack becomes the latest whose task nobody has edited.                 *)
LEMMA StatementKeeps ==
  ASSUME KnowledgeInv, UNCHANGED <<entryStatus, entryAt, ktx>>, clock' \in Nat,
         sourceStatus' \in [Sources -> RowStatus],
         \A s \in Sources : sourceStatus[s] # "absent" => sourceStatus'[s] # "absent",
         \A r : FromSearch(r) => (Fresh(r)' <=> Fresh(r)),
         \A v \in KnowledgeUsers : \A r : ktx[v].phase = "refreshing" /\ FromSearch(r)
            => (UpToDate(v, r)' <=> UpToDate(v, r)),
         edited \subseteq edited', edited' \subseteq PackTasks,
         \A p \in packs' : IsPack(p), OwnPacksNameNothing',
         \A p \in LatestByTaskAndQuery(packs') :
            p.task \in edited' \/ p \in LatestByTaskAndQuery(packs)
  PROVE  KnowledgeInv'
<1>1. KnowledgeTypeOK /\ PackTransactions /\ EntriesHaveSources /\ StaleOnlyIfRaced
  BY DEF KnowledgeInv
<1>2. KnowledgeTypeOK'
  BY <1>1 DEF KnowledgeTypeOK
<1>3. ASSUME NEW v \in KnowledgeUsers
      PROVE  /\ TxShape(ktx[v])' /\ Grounded(ktx[v])'
             /\ FoundNow(v)' /\ RefreshSoFar(v)'
  <2>1. TxShape(ktx[v]) /\ Grounded(ktx[v]) /\ FoundNow(v) /\ RefreshSoFar(v)
    BY <1>1 DEF PackTransactions
  <2>2. TxShape(ktx[v])'
    BY <2>1 DEF TxShape
  <2>3. Grounded(ktx[v])'
    BY <2>1, KnowledgeAssumption DEF Grounded, TxShape, SourceKinds, EntryKinds
  <2>4. FoundNow(v)'
    BY <2>1 DEF FoundNow
  <2>5. RefreshSoFar(v)'
    <3>1. ASSUME ktx[v].phase = "refreshing", ~ktx[v].raced,
                 NEW p \in LatestByTaskAndQuery(packs')
          PROVE  \/ p.task \in edited' \/ p \in ktx[v].todo
                 \/ UpToDate(v, p)' \/ Outdone(p, ktx[v].created)
      BY <2>1, <3>1, LatestIs DEF RefreshSoFar
    <3> QED
      BY <2>1, <3>1 DEF RefreshSoFar
  <2> QED
    BY <2>2, <2>3, <2>4, <2>5
<1>4. PackTransactions'
  BY <1>1, <1>3 DEF PackTransactions, InFlight
<1>5. EntriesHaveSources'
  BY <1>1, KnowledgeAssumption DEF EntriesHaveSources
<1>6. StaleOnlyIfRaced'
  BY <1>1, LatestIs DEF StaleOnlyIfRaced
<1> QED
  BY <1>2, <1>4, <1>5, <1>6 DEF KnowledgeInv

LEMMA CreateSourceKeeps ==
  ASSUME KnowledgeInv, NEW s \in Sources, CreateSource(s)
  PROVE  KnowledgeInv'
<1>1. /\ sourceStatus[s] = "absent" /\ sourceStatus' = [sourceStatus EXCEPT ![s] = "active"]
      /\ UNCHANGED <<entryStatus, entryAt, packs, ktx, edited>> /\ clock' = clock + 1
  BY DEF CreateSource
<1>2. /\ KnowledgeTypeOK /\ EntriesHaveSources /\ OwnPacksNameNothing /\ PackTransactions
      /\ sourceStatus \in [Sources -> RowStatus]
  BY DEF KnowledgeInv, KnowledgeTypeOK
<1>3. \A x \in Sources : x # s => sourceStatus'[x] = sourceStatus[x]
  BY <1>1, <1>2
<1>4. \A q \in Queries : Hits(q, sourceStatus', entryStatus) = Hits(q, sourceStatus, entryStatus)
  BY <1>1, <1>2, <1>3, KnowledgeAssumption DEF Hits, EntriesHaveSources
<1>5. ASSUME NEW r, FromSearch(r)
      PROVE  Fresh(r)' <=> Fresh(r)
  <2>1. SearchEntries(r.query, r.limit, sourceStatus', entryStatus, entryAt)
          = SearchEntries(r.query, r.limit, sourceStatus, entryStatus, entryAt)
    BY <1>4, <1>5, SameHitsSameSearch DEF FromSearch
  <2> QED
    BY <1>1, <2>1 DEF Fresh
<1>6. ASSUME NEW v \in KnowledgeUsers, ktx[v].phase = "refreshing",
             NEW r, FromSearch(r)
      PROVE  UpToDate(v, r)' <=> UpToDate(v, r)
  <2>1. EntrySeen(v)' = EntrySeen(v) /\ AtSeen(v)' = AtSeen(v)
    BY <1>1 DEF EntrySeen, AtSeen, Wrote
  <2>2. \A x \in Sources : x # s => SourceSeen(v)'[x] = SourceSeen(v)[x]
    BY <1>1, <1>2, <1>3 DEF SourceSeen, Wrote
  <2>3. \A e \in Entries : EntrySeen(v)[e] # "absent" => SourceOf[e] # s
    BY <1>1, <1>6, SeenRows
  <2>4. Hits(r.query, SourceSeen(v)', EntrySeen(v)) = Hits(r.query, SourceSeen(v), EntrySeen(v))
    BY <1>6, <2>2, <2>3, KnowledgeAssumption DEF Hits, FromSearch
  <2> QED
    BY <2>1, <2>4, SameHitsSameSearch DEF UpToDate, Found
<1>7. sourceStatus' \in [Sources -> RowStatus] /\ clock' \in Nat
  BY <1>1, <1>2 DEF KnowledgeTypeOK, RowStatus
<1>8. \A x \in Sources : sourceStatus[x] # "absent" => sourceStatus'[x] # "absent"
  BY <1>1, <1>3
<1>9. OwnPacksNameNothing' /\ edited \subseteq PackTasks /\ \A p \in packs : IsPack(p)
  BY <1>1, <1>2 DEF OwnPacksNameNothing, KnowledgeTypeOK
<1> QED
  BY <1>1, <1>5, <1>6, <1>7, <1>8, <1>9, StatementKeeps

LEMMA NothingChangesASearch ==
  ASSUME UNCHANGED <<sourceStatus, entryStatus, entryAt, ktx>>
  PROVE  /\ \A r : Fresh(r)' <=> Fresh(r)
         /\ \A v, r : UpToDate(v, r)' <=> UpToDate(v, r)
BY SameView DEF Fresh

LEMMA CreateContextPackKeeps ==
  ASSUME KnowledgeInv, NEW t \in PackTasks, NEW scope \in {"task", "stage"},
         NEW n \in Nat \ {0}, CreateContextPack(t, scope, n)
  PROVE  KnowledgeInv'
<1> DEFINE row == [task |-> t, scope |-> scope, version |-> n, query |-> NoQuery,
                   limit |-> 0, ids |-> NoEntries, raced |-> FALSE]
<1>1. /\ packs' = packs \cup {row} /\ clock' = clock + 1
      /\ UNCHANGED <<sourceStatus, entryStatus, entryAt, ktx, edited>>
  BY DEF CreateContextPack
<1>2. DOMAIN NoEntries = {} /\ NoEntries \in [{} -> 1 .. 0]
  BY DEF NoEntries
<1>3. IsPack(row) /\ row.query = NoQuery /\ DOMAIN row.ids = {}
  BY <1>2 DEF IsPack
<1> HIDE DEF row
<1>4. KnowledgeTypeOK /\ OwnPacksNameNothing
  BY DEF KnowledgeInv
<1>5. ASSUME NEW p \in LatestByTaskAndQuery(packs')
      PROVE  p \in LatestByTaskAndQuery(packs)
  <2>1. p # row
    BY <1>3, LatestIs, KnowledgeAssumption DEF FromSearch
  <2> QED
    BY <1>1, <2>1, LatestIs
<1>6. \A p \in packs' : IsPack(p)
  BY <1>1, <1>3, <1>4 DEF KnowledgeTypeOK
<1>7. OwnPacksNameNothing'
  BY <1>1, <1>3, <1>4 DEF OwnPacksNameNothing
<1>8. clock' \in Nat /\ edited \subseteq PackTasks /\ sourceStatus \in [Sources -> RowStatus]
  BY <1>1, <1>4 DEF KnowledgeTypeOK
<1> QED
  BY <1>1, <1>5, <1>6, <1>7, <1>8, NothingChangesASearch, StatementKeeps

LEMMA UpdateContextPackKeeps ==
  ASSUME KnowledgeInv, NEW p \in packs, UpdateContextPack(p)
  PROVE  KnowledgeInv'
<1>1. IsPack(p) /\ KnowledgeTypeOK /\ OwnPacksNameNothing
  BY DEF KnowledgeInv, KnowledgeTypeOK
<1>2. PICK c \in {[p EXCEPT !.query = NoQuery], [p EXCEPT !.ids = NoEntries]} :
        packs' = (packs \ {p}) \cup {c}
  BY DEF UpdateContextPack
<1>3. /\ edited' = edited \cup {p.task}
      /\ UNCHANGED <<sourceStatus, entryStatus, entryAt, ktx, clock>>
  BY DEF UpdateContextPack
<1>4. IsPack(c) /\ c.task = p.task
  <2>1. CASE c = [p EXCEPT !.query = NoQuery]
    BY <1>1, <2>1 DEF IsPack
  <2>2. CASE c = [p EXCEPT !.ids = NoEntries]
    <3>1. DOMAIN NoEntries = {} /\ NoEntries \in [{} -> 1 .. p.limit]
      BY DEF NoEntries
    <3>2. p \in PackRecords(p.ids)
      BY <1>1 DEF IsPack, PackRecords
    <3>3. c.ids = NoEntries /\ c.limit = p.limit /\ c.task = p.task
      BY <2>2, <3>2 DEF PackRecords
    <3>4. c \in PackRecords(NoEntries)
      BY <2>2, <3>2 DEF PackRecords
    <3> QED
      BY <3>1, <3>3, <3>4 DEF IsPack, PackRecords
  <2> QED
    BY <1>2, <2>1, <2>2
<1>5. ASSUME NEW r \in LatestByTaskAndQuery(packs'), r.task # p.task
      PROVE  r \in LatestByTaskAndQuery(packs)
  BY <1>2, <1>4, <1>5, LatestIs
<1>6. \A r \in packs' : IsPack(r)
  BY <1>1, <1>2, <1>4 DEF KnowledgeTypeOK
<1>7. OwnPacksNameNothing'
  BY <1>1, <1>2, <1>3, <1>4 DEF OwnPacksNameNothing
<1>8. /\ clock' \in Nat /\ edited' \subseteq PackTasks /\ edited \subseteq edited'
      /\ sourceStatus \in [Sources -> RowStatus]
  BY <1>1, <1>3, PackFields DEF KnowledgeTypeOK
<1> QED
  BY <1>3, <1>5, <1>6, <1>7, <1>8, NothingChangesASearch, StatementKeeps

-----------------------------------------------------------------------------
LEMMA KnowledgeInvStep == KnowledgeInv /\ [KnowledgeNext]_knowledgeVars => KnowledgeInv'
<1> SUFFICES ASSUME KnowledgeInv, [KnowledgeNext]_knowledgeVars PROVE KnowledgeInv'
  OBVIOUS
<1>1. CASE UNCHANGED knowledgeVars
  BY <1>1, NothingChangesASearch, StatementKeeps
     DEF knowledgeVars, KnowledgeInv, KnowledgeTypeOK, OwnPacksNameNothing
<1>2. ASSUME NEW s \in Sources, CreateSource(s) PROVE KnowledgeInv'
  BY <1>2, CreateSourceKeeps
<1>3. CASE ChangeBegins
  <2>1. \/ \E u \in KnowledgeUsers, s \in Sources, kind \in SourceKinds : BeginChange(u, kind, s)
        \/ \E u \in KnowledgeUsers, e \in Entries, kind \in EntryKinds : BeginChange(u, kind, e)
    BY <1>3 DEF ChangeBegins
  <2>2. ASSUME NEW u \in KnowledgeUsers, NEW s \in Sources, NEW kind \in SourceKinds,
               BeginChange(u, kind, s)
        PROVE  KnowledgeInv'
    BY <2>2, BeginChangeKeeps
  <2>3. ASSUME NEW u \in KnowledgeUsers, NEW e \in Entries, NEW kind \in EntryKinds,
               BeginChange(u, kind, e)
        PROVE  KnowledgeInv'
    BY <2>3, BeginChangeKeeps
  <2> QED
    BY <2>1, <2>2, <2>3
<1>4. CASE ChangeRuns
  <2>1. ASSUME NEW u \in KnowledgeUsers,
               RefuseChange(u) \/ AbortChange(u) \/ \E p \in ktx[u].todo : RefuseRefresh(u, p)
        PROVE  KnowledgeInv'
    BY <2>1, EndKeeps DEF RefuseChange, AbortChange, RefuseRefresh
  <2> QED
    BY <1>4, <2>1, MakeChangeKeeps, ListPacksKeeps, RefreshPackKeeps, CommitChangeKeeps
       DEF ChangeRuns
<1>5. CASE PackRequests
  <2>1. \A n \in 1 .. MaxPackVersion : n \in Nat \ {0}
    BY KnowledgeAssumption
  <2> QED
    BY <1>5, <2>1, BeginMaterializeKeeps, CommitMaterializeKeeps, CreateContextPackKeeps,
       UpdateContextPackKeeps DEF PackRequests
<1> QED
  BY <1>1, <1>2, <1>3, <1>4, <1>5 DEF KnowledgeNext

LEMMA KnowledgeInvariant == KnowledgeSpec => []KnowledgeInv
BY KnowledgeInvInit, KnowledgeInvStep, PTL DEF KnowledgeSpec

(* The rows of the knowledge base and of its packs are what the code can    *)
(* write; a pack holds no more entries than its search was asked for.       *)
THEOREM KnowledgeTypeCorrect == KnowledgeSpec => []KnowledgeTypeOK
<1>1. KnowledgeInv => KnowledgeTypeOK
  BY DEF KnowledgeInv
<1> QED
  BY <1>1, KnowledgeInvariant, PTL

(* However many sources, entries, queries and requests there are, only a    *)
(* race or an edit leaves the latest pack of a query behind its search.     *)
THEOREM StaleOnlyIfRacedHolds == KnowledgeSpec => []StaleOnlyIfRaced
<1>1. KnowledgeInv => StaleOnlyIfRaced
  BY DEF KnowledgeInv
<1> QED
  BY <1>1, KnowledgeInvariant, PTL

(* What a stage is given names entries in use: the latest pack of a task is *)
(* the latest of its query, and what is not from a search names nothing.    *)
LEMMA CurrentForStages == KnowledgeInv => StageContextCurrent
<1> SUFFICES ASSUME KnowledgeInv, NEW t \in PackTasks \ edited,
                    NEW p \in ResolveTaskContext(t), ~p.raced, NEW e \in DOMAIN p.ids
             PROVE  entryStatus[e] = "active" /\ sourceStatus[SourceOf[e]] = "active"
  BY DEF StageContextCurrent
<1>1. /\ p \in packs /\ p.task = t /\ p.scope = "task"
      /\ \A r \in packs : r.task = t /\ r.scope = "task" => r.version <= p.version
  BY DEF ResolveTaskContext, Latest, TaskPacks
<1>2. IsPack(p) /\ p.query # NoQuery
  BY <1>1 DEF KnowledgeInv, KnowledgeTypeOK, OwnPacksNameNothing
<1>3. p.query \in Queries /\ p.limit \in Nat
  BY <1>2, PackFields
<1>4. p \in LatestByTaskAndQuery(packs)
  BY <1>1, <1>3, LatestIs DEF FromSearch
<1>5. Fresh(p)
  BY <1>1, <1>4 DEF KnowledgeInv, StaleOnlyIfRaced
<1>6. e \in Hits(p.query, sourceStatus, entryStatus)
  BY <1>3, <1>5, SearchType DEF Fresh
<1> QED
  BY <1>6 DEF Hits

(* A stage whose task's pack neither raced nor was edited is given no entry *)
(* that has been archived (resolveContextForStage).                         *)
THEOREM StageContextCurrentHolds == KnowledgeSpec => []StageContextCurrent
BY CurrentForStages, KnowledgeInvariant, PTL
=============================================================================
