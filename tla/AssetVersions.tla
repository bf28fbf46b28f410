--------------------------- MODULE AssetVersions ---------------------------
(***************************************************************************)
(* The versions of one content asset: application/asset.service.ts,        *)
(* domain/asset-version/asset-version.ts and the asset repository.         *)
(*                                                                         *)
(* A version is added under the number after the highest one its           *)
(* transaction has read, without any lock; the unique index on asset and   *)
(* number lets one of two rivals in.  The same read decides whether the    *)
(* content is stored already: no index does.  Two assets share no row, so  *)
(* one is enough.                                                          *)
(***************************************************************************)
EXTENDS Naturals

CONSTANTS
    Checksums,    \* contents, by checksum
    AssetUsers    \* requests that may be in flight together

VARIABLES
    assetExists,  \* the row of content_assets is there
    versions,     \* committed rows of asset_versions
    current,      \* the number current_version_id stands for, 0 for none
    adding,       \* the createVersion transaction of each request
    chosen        \* history: since the last version was added a user published one

assetVars == <<assetExists, versions, current, adding, chosen>>

VersionRow == [number : Nat \ {0}, checksum : Checksums]
NotAdding == [number |-> 0]

\* Mutant: only the current version is looked at.
MutantIsDuplicate(c) == \E v \in versions : v.number = current /\ v.checksum = c
IsDuplicate(c) == \E v \in versions : v.checksum = c

\* max(version) + 1 over the rows read, 1 when there is none.
NextNumber(n) ==
    /\ n \in {1} \cup {v.number + 1 : v \in versions}
    /\ \A v \in versions : v.number < n

NumberTaken(n) == \E v \in versions : v.number = n

-----------------------------------------------------------------------------
AssetInit ==
    /\ assetExists = FALSE
    /\ versions = {}
    /\ current = 0
    /\ adding = [u \in AssetUsers |-> NotAdding]
    /\ chosen = FALSE

CreateAsset ==
    /\ ~assetExists
    /\ assetExists' = TRUE
    /\ UNCHANGED <<versions, current, adding, chosen>>

\* createVersion up to appendVersion.  A duplicate is answered with the version
\* there is, and nothing is written.
ReadVersions(u, c) ==
    /\ assetExists
    /\ adding[u] = NotAdding
    /\ ~IsDuplicate(c)
    /\ \E n \in {1} \cup {v.number + 1 : v \in versions} :
          /\ NextNumber(n)
          /\ adding' = [adding EXCEPT ![u] = [number |-> n, checksum |-> c]]
    /\ UNCHANGED <<assetExists, versions, current, chosen>>

\* The insert, the pointer and the commit.  An insert of a number another transaction
\* is about to commit waits for it, so nobody sees anything in between.
AddVersion(u) ==
    /\ adding[u] # NotAdding
    /\ ~NumberTaken(adding[u].number)
    /\ versions' = versions \cup {adding[u]}
    /\ current' = adding[u].number
    /\ chosen' = FALSE
    /\ adding' = [adding EXCEPT ![u] = NotAdding]
    /\ UNCHANGED assetExists

\* Mutant: the pointer is moved all the same.
MutantRefuseVersion(u) ==
    /\ adding[u] # NotAdding
    /\ NumberTaken(adding[u].number)
    /\ current' = adding[u].number
    /\ chosen' = FALSE
    /\ adding' = [adding EXCEPT ![u] = NotAdding]
    /\ UNCHANGED <<assetExists, versions>>

\* The unique index refuses the number.
RefuseVersion(u) ==
    /\ adding[u] # NotAdding
    /\ NumberTaken(adding[u].number)
    /\ adding' = [adding EXCEPT ![u] = NotAdding]
    /\ UNCHANGED <<assetExists, versions, current, chosen>>

AbandonVersion(u) ==
    /\ adding[u] # NotAdding
    /\ adding' = [adding EXCEPT ![u] = NotAdding]
    /\ UNCHANGED <<assetExists, versions, current, chosen>>

\* publishVersion: its target was read among the versions, which are never removed.
PublishVersion(v) ==
    /\ v \in versions
    /\ current' = v.number
    /\ chosen' = TRUE
    /\ UNCHANGED <<assetExists, versions, adding>>

AssetNext ==
    \/ CreateAsset
    \/ \E u \in AssetUsers, c \in Checksums : ReadVersions(u, c)
    \/ \E u \in AssetUsers : AddVersion(u) \/ RefuseVersion(u) \/ AbandonVersion(u)
    \/ \E v \in versions : PublishVersion(v)

AssetSpec == AssetInit /\ [][AssetNext]_assetVars

-----------------------------------------------------------------------------
\* Type invariant.
AssetTypeOK ==
    /\ assetExists \in BOOLEAN
    /\ versions \subseteq VersionRow
    /\ current \in Nat
    /\ adding \in [AssetUsers -> VersionRow \cup {NotAdding}]
    /\ chosen \in BOOLEAN

\* The list of versions is a history without gaps in which no content is stored twice
\* (appendVersion, isDuplicate), though both are decided on an unlocked read and only
\* the number has a unique index.
ContentStoredOnce ==
    /\ \A v, w \in versions : v.number = w.number \/ v.checksum = w.checksum => v = w
    /\ \A v \in versions : v.number = 1 \/ NumberTaken(v.number - 1)

\* The pointer of the asset (setCurrentVersion) names a stored version, and the latest
\* unless a user has published another since: a rival that is late never moves it back.
PointerNotBehind ==
    /\ current = 0 <=> versions = {}
    /\ versions # {} => NumberTaken(current)
    /\ chosen \/ \A v \in versions : v.number <= current
=============================================================================
