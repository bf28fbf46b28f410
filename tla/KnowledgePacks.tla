--------------------------- MODULE KnowledgePacks ---------------------------
(***************************************************************************)
(* The knowledge base of one project and the context packs made from it:   *)
(* application/knowledge.service.ts, application/context-pack.service.ts    *)
(* and their repositories.                                                 *)
(*                                                                         *)
(* A pack materialised from the knowledge base is a snapshot of a search.  *)
(* Every change of the knowledge base refreshes, in its own transaction,   *)
(* the packs whose search it changes, by adding the next version.  The     *)
(* transactions are READ COMMITTED: each statement sees what is committed  *)
(* when it starts, and what its own transaction wrote.                     *)
(***************************************************************************)
EXTENDS Naturals, Sequences, FiniteSets

CONSTANTS
    Sources, Entries,   \* rows of knowledge_sources and knowledge_entries
    SourceOf,           \* the source of an entry
    PackTasks,          \* content tasks that have packs
    Queries,            \* search strings
    Matching,           \* the entries whose text a query matches
    NoQuery,            \* the query of a pack that is not from the knowledge base
    Limits,             \* the limits a search is asked with
    KnowledgeUsers,     \* requests that may be in flight together
    InitialSources,     \* the sources there are at first
    InitialEntries,     \* the entries there are at first, oldest first
    MaxPackVersion,     \* bound: versions users ask for
    MaxKnowledgeRequests \* bound: requests begun in a behaviour

ASSUME KnowledgeAssumption ==
    /\ IsFiniteSet(Entries) /\ SourceOf \in [Entries -> Sources]
    /\ Matching \in [Queries -> SUBSET Entries]
    /\ NoQuery \notin Queries
    /\ Limits \subseteq 1..50
    /\ InitialSources \subseteq Sources
    /\ InitialEntries \in Seq(Entries)
    /\ \A i \in DOMAIN InitialEntries : SourceOf[InitialEntries[i]] \in InitialSources
    /\ MaxPackVersion \in Nat /\ MaxKnowledgeRequests \in Nat

VARIABLES
    sourceStatus,  \* committed status of each source, "absent" before its insert
    entryStatus,   \* committed status of each entry
    entryAt,       \* committed updated_at of each entry
    packs,         \* committed rows of context_packs
    ktx,           \* the transaction of each request
    clock,         \* the time, one tick per request begun
    edited         \* history: the tasks whose packs a user has edited

knowledgeVars == <<sourceStatus, entryStatus, entryAt, packs, ktx, clock, edited>>

RowStatus == {"absent", "active", "archived"}
SourceKinds == {"archiveSource", "restoreSource"}
EntryKinds == {"createEntry", "archiveEntry", "restoreEntry"}
Ask == [task: PackTasks, query: Queries, limit: Limits, version: 1..MaxPackVersion]

NoEntries == [e \in {} |-> 0]
Idle == [phase |-> "idle", kind |-> "none", on |-> NoQuery, at |-> 0,
         todo |-> {}, created |-> {}, raced |-> FALSE]

\* Several steps of a transaction are between BEGIN and COMMIT.
InFlight == {u \in KnowledgeUsers : ktx[u].phase # "idle"}

-----------------------------------------------------------------------------
(* What a statement of u sees.                                             *)

StatusSet(kind) == IF kind \in {"archiveSource", "archiveEntry"} THEN "archived" ELSE "active"
Wrote(u, kinds) == ktx[u].phase \in {"changed", "refreshing"} /\ ktx[u].kind \in kinds

SourceSeen(u) ==
    IF Wrote(u, SourceKinds)
    THEN [sourceStatus EXCEPT ![ktx[u].on] = StatusSet(ktx[u].kind)] ELSE sourceStatus
EntrySeen(u) ==
    IF Wrote(u, EntryKinds)
    THEN [entryStatus EXCEPT ![ktx[u].on] = StatusSet(ktx[u].kind)] ELSE entryStatus
AtSeen(u) ==
    IF Wrote(u, EntryKinds) THEN [entryAt EXCEPT ![ktx[u].on] = ktx[u].at] ELSE entryAt

\* Active entries of active sources that match, last updated first, at most limit.
\* A list of entries is the function that gives each of them its place.
Hits(q, sources, entries) ==
    {e \in Matching[q] : entries[e] = "active" /\ sources[SourceOf[e]] = "active"}
Place(e, hits, at) == 1 + Cardinality({d \in hits : at[d] > at[e]})
TopRanked(hits, limit, at) ==
    [e \in {h \in hits : Place(h, hits, at) <= limit} |-> Place(e, hits, at)]
SearchEntries(q, limit, sources, entries, at) ==
    TopRanked(Hits(q, sources, entries), limit, at)

Found(u, q, limit) == SearchEntries(q, limit, SourceSeen(u), EntrySeen(u), AtSeen(u))

\* Mutant: the pack that counts is the one with the lowest version.
MutantLatest(S) == {p \in S : \A r \in S : p.version <= r.version}
Latest(S) == {p \in S : \A r \in S : r.version <= p.version}

TaskPacks(S, t) == {p \in S : p.task = t /\ p.scope = "task"}
QueryPacks(S, t, q) == {p \in TaskPacks(S, t) : p.query = q}

\* The latest materialised pack of each task and query.
LatestByTaskAndQuery(S) ==
    UNION {Latest(QueryPacks(S, t, q)) : t \in PackTasks, q \in Queries}

\* The unique index on (content_task_id, scope, version).
KeyOf(p) == <<p.task, p.scope, p.version>>
KeyTaken(key) == key \in {KeyOf(p) : p \in packs}
KeyPending(users, key) ==
    \E v \in users : ktx[v].phase = "refreshing" /\ key \in {KeyOf(p) : p \in ktx[v].created}

-----------------------------------------------------------------------------
KnowledgeInit ==
    /\ sourceStatus = [s \in Sources |-> IF s \in InitialSources THEN "active" ELSE "absent"]
    /\ entryStatus = [e \in Entries |->
                        IF \E i \in DOMAIN InitialEntries : InitialEntries[i] = e
                        THEN "active" ELSE "absent"]
    /\ entryAt = [e \in Entries |->
                    IF \E i \in DOMAIN InitialEntries : InitialEntries[i] = e
                    THEN CHOOSE i \in DOMAIN InitialEntries : InitialEntries[i] = e ELSE 0]
    /\ packs = {}
    /\ ktx = [u \in KnowledgeUsers |-> Idle]
    /\ clock = Len(InitialEntries)
    /\ edited = {}

RequestsLeft == clock < Len(InitialEntries) + MaxKnowledgeRequests

\* A transaction that begins while another is in flight races with it.
Start(u, tx) ==
    /\ ktx[u].phase = "idle"
    /\ RequestsLeft
    /\ clock' = clock + 1
    /\ ktx' = [v \in KnowledgeUsers |->
                 IF v = u THEN [tx EXCEPT !.raced = InFlight # {}]
                 ELSE IF v \in InFlight THEN [ktx[v] EXCEPT !.raced = TRUE] ELSE ktx[v]]

End(u) == ktx' = [ktx EXCEPT ![u] = Idle]

CreateSource(s) ==
    /\ sourceStatus[s] = "absent"
    /\ RequestsLeft
    /\ clock' = clock + 1
    /\ sourceStatus' = [sourceStatus EXCEPT ![s] = "active"]
    /\ UNCHANGED <<entryStatus, entryAt, packs, ktx, edited>>

\* BEGIN of a change: now() is fixed here for the whole transaction.
BeginChange(u, kind, x) ==
    /\ Start(u, [Idle EXCEPT !.phase = "begun", !.kind = kind, !.on = x, !.at = clock + 1])
    /\ UNCHANGED <<sourceStatus, entryStatus, entryAt, packs, edited>>

\* The row of the change is there, the source of a new or restored entry is active.
MayChange(kind, x) ==
    CASE kind \in SourceKinds -> sourceStatus[x] # "absent"
      [] kind = "createEntry" -> entryStatus[x] = "absent" /\ sourceStatus[SourceOf[x]] = "active"
      [] kind = "archiveEntry" -> entryStatus[x] # "absent"
      [] kind = "restoreEntry" -> entryStatus[x] # "absent" /\ sourceStatus[SourceOf[x]] = "active"

\* The row is locked by the first write and stays so until the end.
RowLocked(u, x) == \E v \in InFlight \ {u} : Wrote(v, SourceKinds \cup EntryKinds) /\ ktx[v].on = x

\* Mutant: restoring an entry does not refresh the packs.
MutantMakeChange(u) ==
    /\ ktx[u].phase = "begun"
    /\ MayChange(ktx[u].kind, ktx[u].on)
    /\ ~RowLocked(u, ktx[u].on)
    /\ ktx' = [ktx EXCEPT ![u].phase =
                 IF ktx[u].kind = "restoreEntry" THEN "refreshing" ELSE "changed"]
    /\ UNCHANGED <<sourceStatus, entryStatus, entryAt, packs, clock, edited>>
MakeChange(u) ==
    /\ ktx[u].phase = "begun"
    /\ MayChange(ktx[u].kind, ktx[u].on)
    /\ ~RowLocked(u, ktx[u].on)
    /\ ktx' = [ktx EXCEPT ![u].phase = "changed"]
    /\ UNCHANGED <<sourceStatus, entryStatus, entryAt, packs, clock, edited>>

RefuseChange(u) ==
    /\ ktx[u].phase = "begun"
    /\ ~MayChange(ktx[u].kind, ktx[u].on)
    /\ End(u)
    /\ UNCHANGED <<sourceStatus, entryStatus, entryAt, packs, clock, edited>>

ListPacks(u) ==
    /\ ktx[u].phase = "changed"
    /\ ktx' = [ktx EXCEPT ![u].phase = "refreshing", ![u].todo = LatestByTaskAndQuery(packs)]
    /\ UNCHANGED <<sourceStatus, entryStatus, entryAt, packs, clock, edited>>

Refreshed(u, p) ==
    [p EXCEPT !.version = p.version + 1, !.ids = Found(u, p.query, p.limit), !.raced = FALSE]

\* One round of the loop: skip a pack that is still right, else insert the next
\* version; the insert waits for a transaction that has inserted the same key.
RefreshPack(u, p) ==
    /\ ktx[u].phase = "refreshing"
    /\ p \in ktx[u].todo
    /\ LET next == Refreshed(u, p)
           made == IF next.ids = p.ids THEN {} ELSE {next}
       IN  /\ \A r \in made : ~KeyTaken(KeyOf(r)) /\ ~KeyPending(KnowledgeUsers \ {u}, KeyOf(r))
           /\ ktx' = [ktx EXCEPT ![u].todo = @ \ {p}, ![u].created = @ \cup made]
    /\ UNCHANGED <<sourceStatus, entryStatus, entryAt, packs, clock, edited>>

\* The next version exists: ConflictError rolls the whole change back.
RefuseRefresh(u, p) ==
    /\ ktx[u].phase = "refreshing"
    /\ p \in ktx[u].todo
    /\ Refreshed(u, p).ids # p.ids
    /\ KeyTaken(KeyOf(Refreshed(u, p)))
    /\ End(u)
    /\ UNCHANGED <<sourceStatus, entryStatus, entryAt, packs, clock, edited>>

\* Every pack has been held against what this change saw, so that a change that ran
\* beside no other one ends the race of those before it.
CommitChange(u) ==
    /\ ktx[u].phase = "refreshing"
    /\ ktx[u].todo = {}
    /\ sourceStatus' = SourceSeen(u)
    /\ entryStatus' = EntrySeen(u)
    /\ entryAt' = AtSeen(u)
    /\ packs' = {[p EXCEPT !.raced = ktx[u].raced] : p \in packs \cup ktx[u].created}
    /\ End(u)
    /\ UNCHANGED <<clock, edited>>

\* The connection is lost, the process dies or a deadlock is broken.
AbortChange(u) ==
    /\ ktx[u].phase \in {"begun", "changed", "refreshing", "found"}
    /\ End(u)
    /\ UNCHANGED <<sourceStatus, entryStatus, entryAt, packs, clock, edited>>

-----------------------------------------------------------------------------
(* Context packs asked for by users.                                       *)

\* materializeKnowledgeContextPack up to its search; no hit is a 404.
BeginMaterialize(u, ask) ==
    LET ids == SearchEntries(ask.query, ask.limit, sourceStatus, entryStatus, entryAt)
        row == [task |-> ask.task, scope |-> "task", version |-> ask.version,
                query |-> ask.query, limit |-> ask.limit, ids |-> ids,
                raced |-> FALSE]
    IN  /\ DOMAIN ids # {}
        /\ Start(u, [Idle EXCEPT !.phase = "found", !.kind = "materialize", !.created = {row}])
        /\ UNCHANGED <<sourceStatus, entryStatus, entryAt, packs, edited>>

CommitMaterialize(u) ==
    /\ ktx[u].phase = "found"
    /\ \A p \in ktx[u].created : ~KeyTaken(KeyOf(p)) /\ ~KeyPending(KnowledgeUsers, KeyOf(p))
    /\ packs' = packs \cup {[p EXCEPT !.raced = ktx[u].raced] : p \in ktx[u].created}
    /\ End(u)
    /\ UNCHANGED <<sourceStatus, entryStatus, entryAt, clock, edited>>

\* createContextPack with data of the caller's own.
CreateContextPack(t, scope, version) ==
    LET row == [task |-> t, scope |-> scope, version |-> version, query |-> NoQuery,
                limit |-> 0, ids |-> NoEntries, raced |-> FALSE]
    IN  /\ RequestsLeft
        /\ ~KeyTaken(KeyOf(row)) /\ ~KeyPending(KnowledgeUsers, KeyOf(row))
        /\ clock' = clock + 1
        /\ packs' = packs \cup {row}
        /\ UNCHANGED <<sourceStatus, entryStatus, entryAt, ktx, edited>>

\* updateContextPack: new data forgets the query, new source_refs the entries.
UpdateContextPack(p) ==
    /\ p \in packs
    /\ p.task \notin edited   \* bound: one edit of a task's packs
    /\ \E changed \in {[p EXCEPT !.query = NoQuery], [p EXCEPT !.ids = NoEntries]} :
          packs' = (packs \ {p}) \cup {changed}
    /\ edited' = edited \cup {p.task}
    /\ UNCHANGED <<sourceStatus, entryStatus, entryAt, ktx, clock>>

\* resolveContextForStage, the task's part: the highest version of any query.
ResolveTaskContext(t) == Latest(TaskPacks(packs, t))

-----------------------------------------------------------------------------
ChangeBegins ==
    \E u \in KnowledgeUsers :
       \/ \E s \in Sources, kind \in SourceKinds : BeginChange(u, kind, s)
       \/ \E e \in Entries, kind \in EntryKinds : BeginChange(u, kind, e)
ChangeRuns ==
    \E u \in KnowledgeUsers :
       \/ MakeChange(u) \/ RefuseChange(u) \/ ListPacks(u)
       \/ \E p \in ktx[u].todo : RefreshPack(u, p) \/ RefuseRefresh(u, p)
       \/ CommitChange(u) \/ AbortChange(u)
PackRequests ==
    \/ \E u \in KnowledgeUsers, ask \in Ask : BeginMaterialize(u, ask)
    \/ \E u \in KnowledgeUsers : CommitMaterialize(u)
    \/ \E t \in PackTasks, scope \in {"task", "stage"}, n \in 1..MaxPackVersion :
          CreateContextPack(t, scope, n)
    \/ \E p \in packs : UpdateContextPack(p)

KnowledgeNext ==
    \/ \E s \in Sources : CreateSource(s)
    \/ ChangeBegins
    \/ ChangeRuns
    \/ PackRequests

KnowledgeSpec == KnowledgeInit /\ [][KnowledgeNext]_knowledgeVars

-----------------------------------------------------------------------------
(* What the service means to keep.                                         *)

IsPack(p) ==
    /\ p \in [task : PackTasks, scope : {"task", "stage"}, version : Nat \ {0}, limit : Nat,
              query : Queries \cup {NoQuery}, ids : {p.ids}, raced : BOOLEAN]
    /\ p.ids \in [DOMAIN p.ids -> 1 .. p.limit] /\ DOMAIN p.ids \subseteq Entries

\* Type invariant: the rows and the transactions in flight are what the code can write.
KnowledgeTypeOK ==
    /\ sourceStatus \in [Sources -> RowStatus]
    /\ entryStatus \in [Entries -> RowStatus]
    /\ entryAt \in [Entries -> Nat]
    /\ \A p \in packs : IsPack(p)
    /\ \A u \in KnowledgeUsers :
          /\ ktx[u].phase \in {"idle", "begun", "changed", "refreshing", "found"}
          /\ \A p \in ktx[u].todo \cup ktx[u].created : IsPack(p)
    /\ clock \in Nat
    /\ edited \subseteq PackTasks

Fresh(p) == p.ids = SearchEntries(p.query, p.limit, sourceStatus, entryStatus, entryAt)

\* The refresh policy (refreshMaterializedKnowledgeContextPacks): the latest pack of
\* a task and a query is what the search returns now.  It may be behind only when its
\* own transaction or the last change of the knowledge base ran beside another one, or
\* when a user has edited the task's packs: no order of changes one after the other
\* leaves one behind, and the first change that runs alone repairs them all.
StaleOnlyIfRaced ==
    \A p \in LatestByTaskAndQuery(packs) : Fresh(p) \/ p.raced \/ p.task \in edited

\* What a stage is given (mergeOf, latest): with the same two exceptions, it names
\* no entry that is archived or whose source is.
StageContextCurrent ==
    \A t \in PackTasks \ edited : \A p \in ResolveTaskContext(t) :
       ~p.raced => \A e \in DOMAIN p.ids :
                      entryStatus[e] = "active" /\ sourceStatus[SourceOf[e]] = "active"
=============================================================================
