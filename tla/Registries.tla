------------------------------ MODULE Registries ------------------------------
(***************************************************************************)
(* The rows people administer: content tasks, agent profiles, MCP servers, *)
(* publisher channels, marketplace installations, organisation members and *)
(* project memberships.  Their services share one shape: in a transaction, *)
(* read the row without a lock, assert the move against a matrix, write by *)
(* id (which takes the row's lock until the commit), then audit what the   *)
(* UPDATE returned.  They differ in their matrices, in what an INSERT asks *)
(* first, and in their UNIQUE indexes; and two of them insert a row of     *)
(* another service's table, past its audit.                                *)
(***************************************************************************)
EXTENDS Naturals, FiniteSets

CONSTANTS
  RegistryRows,    \* rows that may exist
  SlotOf,          \* row -> its key: (project, entry), (project, key), ...
  RegistryUsers    \* requests, each with a transaction of its own

RegistryKinds ==
  {"task", "agent_profile", "mcp_server", "channel", "installation",
   "member", "membership"}

VARIABLES
  kindOf,          \* row -> its table, for ever
  row,             \* the committed status of a row, or "absent"
  lastAudit,       \* status in the newest audit of a change of the row
  unlogged,        \* rows whose insertion wrote no audit (history)
  revocations,     \* committed revocations of a membership (history)
  rtx              \* the transaction of each request

registryVars == <<kindOf, row, lastAudit, unlogged, revocations, rtx>>

RegistryStatus ==
  {"draft", "ready", "running", "completed", "cancelled", "active", "disabled",
   "archived", "installed", "uninstalled", "inactive", "revoked"}

(* The matrices.  A status equal to the present one is no transition for   *)
(* channels and installations, and an error for profiles and servers.      *)
TaskMoves == {<<"draft", "ready">>, <<"ready", "cancelled">>,
              <<"completed", "archived">>, <<"cancelled", "archived">>}

ProfileMoves == {<<"active", "disabled">>, <<"disabled", "active">>,
                 <<"active", "archived">>, <<"disabled", "archived">>}

ServerMoves == {<<"active", "disabled">>, <<"disabled", "active">>,
                <<"active", "archived">>, <<"disabled", "archived">>}

ChannelMoves == ProfileMoves \cup {<<s, s>> : s \in {"active", "disabled", "archived"}}

InstallationMoves ==
  {<<"installed", "disabled">>, <<"installed", "uninstalled">>,
   <<"disabled", "uninstalled">>, <<"disabled", "disabled">>,
   <<"uninstalled", "uninstalled">>}

MemberMoves == {"active", "inactive"} \X {"active", "inactive"}

MembershipMoves == {<<"active", "revoked">>}

Audited == RegistryKinds \ {"channel", "installation"}

(* The statuses under which a row counts for the UNIQUE index of its table. *)
Indexed(kind) ==
  CASE kind = "installation" -> {"installed", "disabled"}
    [] kind \in {"channel", "member", "membership"} -> RegistryStatus
    [] OTHER -> {}

NoRequest == [at |-> "idle"]
Reading(u) == rtx[u].at = "read"
Writing(u) == rtx[u].at = "wrote"

RegistryTypeOK ==
  /\ kindOf \in [RegistryRows -> RegistryKinds]
  /\ row \in [RegistryRows -> RegistryStatus \cup {"absent"}]
  /\ lastAudit \in [RegistryRows -> RegistryStatus \cup {"none"}]
  /\ unlogged \subseteq RegistryRows
  /\ revocations \in [RegistryRows -> Nat]
  /\ rtx \in [RegistryUsers -> {NoRequest}
       \cup [at : {"read"}, row : RegistryRows, seen : RegistryStatus \cup {"absent"},
             to : RegistryStatus \cup {"keep"}, silent : SUBSET RegistryRows]
       \cup [at : {"wrote"}, row : RegistryRows, seen : RegistryStatus \cup {"absent"},
             after : RegistryStatus, silent : SUBSET RegistryRows, audit : RegistryStatus]]

RegistryInit ==
  /\ kindOf \in [RegistryRows -> RegistryKinds]
  /\ row = [r \in RegistryRows |-> "absent"]
  /\ lastAudit = [r \in RegistryRows |-> "none"]
  /\ unlogged = {}
  /\ revocations = [r \in RegistryRows |-> 0]
  /\ rtx = [u \in RegistryUsers |-> NoRequest]

Counts(r, s) == s \in Indexed(kindOf[r])
SameSlot(r) == {q \in RegistryRows \ {r} : kindOf[q] = kindOf[r] /\ SlotOf[q] = SlotOf[r]}

-----------------------------------------------------------------------------
(* A transaction has read the row and asserted what it is about to do; a   *)
(* move the matrix refuses ends in a conflict.  "keep" is a patch that     *)
(* names other fields and leaves the status alone.  The rows in silent are *)
(* inserted as active and not audited.                                     *)
ReadRow(u, r, to, silent) ==
  /\ rtx[u] = NoRequest
  /\ rtx' = [rtx EXCEPT ![u] =
               [at |-> "read", row |-> r, seen |-> row[r], to |-> to, silent |-> silent]]
  /\ UNCHANGED <<kindOf, row, lastAudit, unlogged, revocations>>

Insert(u, r, kind, first) ==
  kindOf[r] = kind /\ row[r] = "absent" /\ ReadRow(u, r, first, {})

Move(u, r, kind, moves) ==
  /\ kindOf[r] = kind
  /\ \E to \in RegistryStatus : <<row[r], to>> \in moves /\ ReadRow(u, r, to, {})

Patch(u, r, kind) ==
  kindOf[r] = kind /\ row[r] # "absent" /\ ReadRow(u, r, "keep", {})

CreateTask(u, r) == Insert(u, r, "task", "draft")
UpdateTask(u, r) == Move(u, r, "task", TaskMoves) \/ Patch(u, r, "task")

CreateProfile(u, r) == Insert(u, r, "agent_profile", "active")
UpdateProfile(u, r) ==
  Move(u, r, "agent_profile", ProfileMoves) \/ Patch(u, r, "agent_profile")

CreateServer(u, r) == Insert(u, r, "mcp_server", "active")
UpdateServer(u, r) ==
  Move(u, r, "mcp_server", ServerMoves) \/ Patch(u, r, "mcp_server")

(* disable and archive are updates of the status. *)
CreateChannel(u, r) == Insert(u, r, "channel", "active")
UpdateChannel(u, r) == Move(u, r, "channel", ChannelMoves) \/ Patch(u, r, "channel")

(* findOrCreateServer: the new server of an installation, if its endpoint  *)
(* has none; where no row may be one, the server is taken to be there.     *)
NewServers(r) ==
  LET servers == {q \in RegistryRows : kindOf[q] = "mcp_server" /\ SlotOf[q] = SlotOf[r]}
  IN IF servers = {} \/ \E q \in servers : row[q] # "absent" THEN {{}}
     ELSE {{q} : q \in servers}

(* Looks for a live installation first, which the index decides again.     *)
InstallEntry(u, r) ==
  /\ kindOf[r] = "installation" /\ row[r] = "absent"
  /\ \A q \in SameSlot(r) : ~ Counts(q, row[q])
  /\ \E silent \in NewServers(r) : ReadRow(u, r, "installed", silent)

TransitionInstallation(u, r) == Move(u, r, "installation", InstallationMoves)

(* The owner of a new organisation, which has no other members.            *)
CreateOrganization(u, r) ==
  /\ kindOf[r] = "member" /\ row[r] = "absent"
  /\ \A q \in SameSlot(r) : row[q] = "absent"
  /\ ReadRow(u, r, "active", {r})

AddMember(u, r) == Insert(u, r, "member", "active")
UpdateMember(u, r) == Move(u, r, "member", MemberMoves) \/ Patch(u, r, "member")
DeactivateMember(u, r) ==
  Move(u, r, "member", MemberMoves \cap (RegistryStatus \X {"inactive"}))

(* The member must be active when it is read; one that is none of the rows *)
(* is taken to be.                                                         *)
GrantMembership(u, r) ==
  /\ \A m \in RegistryRows :
       kindOf[m] = "member" /\ SlotOf[m] = SlotOf[r] => row[m] = "active"
  /\ Insert(u, r, "membership", "active")

RevokeMembership(u, r) == Move(u, r, "membership", MembershipMoves)

(* The rows a transaction writes.                                          *)
Written(u) == {rtx[u].row} \cup rtx[u].silent

(* Someone else's uncommitted write of these rows or, for a row the index  *)
(* is about to count, of another row under the same key.                   *)
MustWait(u, r, to) ==
  \E v \in RegistryUsers \ {u} :
    /\ Writing(v)
    /\ Written(v) \cap (Written(u) \cup (IF Counts(r, to) THEN SameSlot(r) ELSE {})) # {}

(* revokeProjectMembership names the status it expects; an INSERT expects  *)
(* no row; every other UPDATE matches by id alone.                         *)
\* Mutant: the revocation matches by id alone.
MutantStillMatches(u, r) ==
  /\ rtx[u].seen = "absent" => row[r] = "absent"
  /\ \A q \in rtx[u].silent : row[q] = "absent"

StillMatches(u, r) ==
  /\ rtx[u].seen = "absent" => row[r] = "absent"
  /\ \A q \in rtx[u].silent : row[q] = "absent"
  /\ rtx[u].seen # "absent" /\ kindOf[r] = "membership" => row[r] = "active"

\* Mutant: any number of rows of a key may be live.
MutantUnique(r, to) == TRUE

Unique(r, to) == Counts(r, to) => \A q \in SameSlot(r) : ~ Counts(q, row[q])

\* Mutant: the audit entry is built from the row read first.
MutantWriteRegistry(u) ==
  /\ Reading(u)
  /\ LET r == rtx[u].row
         to == IF rtx[u].to = "keep" THEN row[r] ELSE rtx[u].to
         said == IF rtx[u].to = "keep" THEN rtx[u].seen ELSE to
     IN /\ ~ MustWait(u, r, to)
        /\ StillMatches(u, r) /\ Unique(r, to)
        /\ rtx' = [rtx EXCEPT ![u] =
             [at |-> "wrote", row |-> r, seen |-> rtx[u].seen,
              after |-> to, silent |-> rtx[u].silent, audit |-> said]]
  /\ UNCHANGED <<kindOf, row, lastAudit, unlogged, revocations>>

(* UPDATE ... RETURNING, and the audit of what it returned. *)
WriteRegistry(u) ==
  /\ Reading(u)
  /\ LET r == rtx[u].row
         to == IF rtx[u].to = "keep" THEN row[r] ELSE rtx[u].to
     IN /\ ~ MustWait(u, r, to)
        /\ StillMatches(u, r) /\ Unique(r, to)
        /\ rtx' = [rtx EXCEPT ![u] =
             [at |-> "wrote", row |-> r, seen |-> rtx[u].seen,
              after |-> to, silent |-> rtx[u].silent, audit |-> to]]
  /\ UNCHANGED <<kindOf, row, lastAudit, unlogged, revocations>>

CommitRow(u) ==
  /\ Writing(u)
  /\ LET r == rtx[u].row
     IN /\ row' = [q \in RegistryRows |->
                    IF q = r THEN rtx[u].after
                    ELSE IF q \in rtx[u].silent THEN "active" ELSE row[q]]
        /\ unlogged' = unlogged \cup rtx[u].silent
        /\ lastAudit' = IF kindOf[r] \in Audited /\ r \notin rtx[u].silent
                          THEN [lastAudit EXCEPT ![r] = rtx[u].audit] ELSE lastAudit
        /\ revocations' = IF kindOf[r] = "membership" /\ rtx[u].after = "revoked"
                            THEN [revocations EXCEPT ![r] = @ + 1] ELSE revocations
  /\ rtx' = [rtx EXCEPT ![u] = NoRequest]
  /\ UNCHANGED kindOf

(* A conflict, a lost connection, a failed audit: everything rolls back. *)
Rollback(u) ==
  /\ Reading(u) \/ Writing(u)
  /\ rtx' = [rtx EXCEPT ![u] = NoRequest]
  /\ UNCHANGED <<kindOf, row, lastAudit, unlogged, revocations>>

RegistryNext ==
  \E u \in RegistryUsers :
    \/ \E r \in RegistryRows :
         \/ CreateTask(u, r) \/ UpdateTask(u, r)
         \/ CreateProfile(u, r) \/ UpdateProfile(u, r)
         \/ CreateServer(u, r) \/ UpdateServer(u, r)
         \/ CreateChannel(u, r) \/ UpdateChannel(u, r)
         \/ InstallEntry(u, r) \/ TransitionInstallation(u, r)
         \/ CreateOrganization(u, r) \/ AddMember(u, r)
         \/ UpdateMember(u, r) \/ DeactivateMember(u, r)
         \/ GrantMembership(u, r) \/ RevokeMembership(u, r)
    \/ WriteRegistry(u) \/ CommitRow(u) \/ Rollback(u)

RegistrySpec == RegistryInit /\ [][RegistryNext]_registryVars

-----------------------------------------------------------------------------
(* A project has at most one live installation of a marketplace entry,     *)
(* however installs race with each other and with a disable that read the  *)
(* row before it was uninstalled and another took its place                *)
(* (mcp-marketplace.service.ts, installEntry and transitionInstallation).  *)
OneLivePerKey ==
  \A r \in RegistryRows : Counts(r, row[r]) =>
    \A q \in SameSlot(r) : ~ Counts(q, row[q])

(* The newest audit of a row shows the row as it is now, however patches   *)
(* of different fields overlap: the entry is made from what the UPDATE     *)
(* returned while the row is still locked, not from what was read.  Only   *)
(* the owner of a new organisation and the server an installation makes    *)
(* begin without an audit, and until their first change have none          *)
(* (rbac.service.ts, createOrganization; mcp-marketplace.service.ts).      *)
TrailEndsAtRow ==
  \A r \in RegistryRows :
    kindOf[r] \in Audited /\ row[r] # "absent" =>
      \/ lastAudit[r] = row[r]
      \/ r \in unlogged /\ lastAudit[r] = "none" /\ row[r] = "active"

(* Administrators who revoke one membership together do it once: one of    *)
(* them commits and is audited, the others meet a conflict                 *)
(* (rbac.service.ts, revokeProjectMembership; rbac.repository.ts).         *)
RevokedOnce == \A r \in RegistryRows : revocations[r] <= 1
=============================================================================
