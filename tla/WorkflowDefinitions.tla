------------------------ MODULE WorkflowDefinitions ------------------------
(***************************************************************************)
(* The versions of one workflow definition: the check of a graph           *)
(* (domain/workflow/dag.ts, workflow-definition.ts), createDefinition and  *)
(* activateDefinition (workflow-definition.service.ts, its repository) and *)
(* the unique indexes of db/migrations/0006_workflow_definitions.js.       *)
(*                                                                         *)
(* The search for a cycle is a recursion in the code and a sequence of     *)
(* steps here, one for each stage entered, dependency followed and stage   *)
(* left, with the calls that are open on a stack.  It may visit stages and *)
(* dependencies in any order.                                              *)
(*                                                                         *)
(* An activation is two UPDATE statements of one transaction: deprecate    *)
(* the active version, then make the target active.  A statement sees what *)
(* is committed when it starts, waits for rows it finds locked and looks   *)
(* at them again.  Definitions of two names share no row.                  *)
(***************************************************************************)
EXTENDS Naturals, Sequences, SequencesExt

CONSTANTS
    DefVersions,   \* version numbers of the definition
    DefGraphs,     \* graphs a request may send: [stages, deps], deps by key
    GraphsFor,     \* the graphs sent as each version
    Activators     \* activations that may be in flight together

ASSUME DefinitionAssumption ==
    /\ GraphsFor \in [DefVersions -> SUBSET DefGraphs]
    /\ \A g \in DefGraphs : \A d \in g.deps : d = <<d[1], d[2]>>

VARIABLES
    check,         \* the check in progress: its graph, how far the search is
    answer,        \* the last validation asked for: its graph and result
    definition,    \* status and graph of each version
    activation     \* the transaction of each activator

definitionVars == <<check, answer, definition, activation>>

-----------------------------------------------------------------------------
(* The check of a graph.  A dependency is <<upstream, downstream>>.        *)

\* Between known stages, loops excluded.
Successors(g, u) == {v \in g.stages : u # v /\ <<u, v>> \in g.deps}

White == 0
Gray == 1
Black == 2

\* A search that has not begun; "wanted" is the version to create, if any.
NewCheck(g, wanted) ==
    [phase |-> "searching", graph |-> g, wanted |-> wanted, stack |-> <<>>, cycle |-> {},
     color |-> [u \in g.stages |-> White], left |-> [u \in g.stages |-> {}]]
NotChecking == [phase |-> "idle"]

\* The call dfs(u) begins: "left" are the dependencies its loop has still to follow.
Entered(c, u) ==
    [c EXCEPT !.color[u] = Gray, !.stack = Append(@, u), !.left[u] = Successors(c.graph, u)]
OnStackFrom(s, v) == {s[j] : j \in {k \in DOMAIN s : \E i \in 1..k : s[i] = v}}

\* The loop of the stage on top follows a dependency to v.
\* Mutant: a stage that is done is not told from one on the stack.
MutantFollowed(c, v) ==
    LET next == [c EXCEPT !.left[Last(c.stack)] = @ \ {v}]
    IN  IF c.color[v] = White THEN Entered(next, v)
        ELSE [next EXCEPT !.cycle = OnStackFrom(c.stack, v) \cup {v}]
Followed(c, v) ==
    LET next == [c EXCEPT !.left[Last(c.stack)] = @ \ {v}]
    IN  CASE c.color[v] = White -> Entered(next, v)
          [] c.color[v] = Gray -> [next EXCEPT !.cycle = OnStackFrom(c.stack, v)]
          [] c.color[v] = Black -> next

\* Its loop is over and it returns.
Left(c) == [c EXCEPT !.color[Last(c.stack)] = Black, !.stack = Front(@)]

\* On an edge to another stage, known or not; only asked of several stages.
Connected(g) == UNION {{d[1], d[2]} : d \in {d \in g.deps : d[1] # d[2]}}
Isolated(g) == IF \E s, t \in g.stages : s # t THEN g.stages \ Connected(g) ELSE {}

ValidateDAG(g, cycle) ==
    [unknown  |-> {d \in g.deps : d[1] \notin g.stages \/ d[2] \notin g.stages},
     selves   |-> {d[1] : d \in {d \in g.deps : d[1] = d[2]}},
     cycle    |-> cycle,
     isolated |-> Isolated(g)]

Valid(result) == \A error \in DOMAIN result : result[error] = {}

-----------------------------------------------------------------------------
NoAnswer == [asked |-> FALSE]
NotActivating == [phase |-> "idle"]
Undefined == [status |-> "absent"]

DefinitionInit ==
    /\ check = NotChecking
    /\ answer = NoAnswer
    /\ definition = [v \in DefVersions |-> Undefined]
    /\ activation = [u \in Activators |-> NotActivating]

InTransaction == {u \in Activators : activation[u].phase # "idle"}

\* validateDefinition is called by a client's question or by createDefinition, before
\* its transaction: it looks at nothing that is stored.
BeginCheck(g, wanted) ==
    /\ check = NotChecking   \* bound: one check at a time,
    /\ InTransaction = {}    \* and no activation in flight until it has searched
    /\ check' = NewCheck(g, wanted)
    /\ answer' = NoAnswer    \* the client's earlier question no longer matters
    /\ UNCHANGED <<definition, activation>>
AskDefinition(g) ==
    /\ answer = NoAnswer   \* bound: one question, before there is a definition
    /\ \A v \in DefVersions : definition[v] = Undefined
    /\ BeginCheck(g, {})

Searching == check.phase = "searching" /\ check.cycle = {}

\* The outermost loop finds a stage that has not been visited.
StartFrom(u) ==
    /\ Searching /\ check.stack = <<>> /\ check.color[u] = White
    /\ check' = Entered(check, u)
    /\ UNCHANGED <<answer, definition, activation>>
Follow(v) ==
    /\ Searching /\ check.stack # <<>> /\ v \in check.left[Last(check.stack)]
    /\ check' = Followed(check, v)
    /\ UNCHANGED <<answer, definition, activation>>
Leave ==
    /\ Searching /\ check.stack # <<>> /\ check.left[Last(check.stack)] = {}
    /\ check' = Left(check)
    /\ UNCHANGED <<answer, definition, activation>>

\* A cycle ends the search wherever it is, else every stage has been visited.
Searched ==
    /\ check.phase = "searching"
    /\ \/ check.cycle # {}
       \/ check.stack = <<>> /\ \A u \in check.graph.stages : check.color[u] # White
Result == ValidateDAG(check.graph, check.cycle)

\* validateDefinition: answers, writes nothing.
ValidateDefinition ==
    /\ Searched /\ check.wanted = {}
    /\ answer' = [asked |-> TRUE, graph |-> check.graph, result |-> Result]
    /\ check' = NotChecking
    /\ UNCHANGED <<definition, activation>>

\* createDefinition: a draft; the version number is the caller's and unique.
CreateDefinition(v) ==
    /\ Searched /\ check.wanted = {v}
    /\ Valid(Result)
    /\ definition[v] = Undefined
    /\ definition' = [definition EXCEPT ![v] = [status |-> "draft", graph |-> check.graph]]
    /\ check' = NotChecking
    /\ UNCHANGED <<answer, activation>>

\* A 400 for the graph, a conflict for the number.
RefuseDefinition(v) ==
    /\ Searched /\ check.wanted = {v}
    /\ ~Valid(Result) \/ definition[v] # Undefined
    /\ check' = NotChecking
    /\ UNCHANGED <<answer, definition, activation>>

ActiveVersions == {v \in DefVersions : definition[v].status = "active"}
\* Rows that u has deprecated or made active and holds.
HeldBy(u) ==
    CASE activation[u].phase \in {"idle", "read", "scanned"} -> {}
      [] activation[u].phase = "deprecated" -> activation[u].lowered
      [] activation[u].phase = "raised" -> activation[u].lowered \cup {activation[u].target}
FreeFor(u, v) == \A w \in Activators \ {u} : v \notin HeldBy(w)

BeginActivate(u, v) ==
    /\ activation[u].phase = "idle"
    /\ check = NotChecking \/ Searched   \* bound, as for BeginCheck
    /\ definition[v] # Undefined
    /\ activation' = [activation EXCEPT ![u] =
                        [phase |-> "read", target |-> v, found |-> {}, lowered |-> {}]]
    /\ UNCHANGED <<check, answer, definition>>

\* The first UPDATE starts: its rows are the active ones now.
FindActive(u) ==
    /\ activation[u].phase = "read"
    /\ activation' = [activation EXCEPT ![u].phase = "scanned", ![u].found = ActiveVersions]
    /\ UNCHANGED <<check, answer, definition>>

\* It has their locks; a row that is no longer active by then is left alone.
DeprecateActive(u) ==
    /\ activation[u].phase = "scanned"
    /\ \A v \in activation[u].found : FreeFor(u, v)
    /\ activation' = [activation EXCEPT ![u].phase = "deprecated",
                                        ![u].lowered = activation[u].found \cap ActiveVersions]
    /\ UNCHANGED <<check, answer, definition>>

\* The partial unique index on (project, name) where active: the other entries for it.
Rivals(u) == ActiveVersions \ (activation[u].lowered \cup {activation[u].target})
RaisedByOthers(u) ==
    {activation[w].target : w \in {w \in Activators \ {u} : activation[w].phase = "raised"}}

\* The second UPDATE: waits for the row and for a rival entry that is not committed.
\* Mutant: there is no such index.
MutantRaiseTarget(u) ==
    /\ activation[u].phase = "deprecated"
    /\ FreeFor(u, activation[u].target)
    /\ activation' = [activation EXCEPT ![u].phase = "raised"]
    /\ UNCHANGED <<check, answer, definition>>
RaiseTarget(u) ==
    /\ activation[u].phase = "deprecated"
    /\ FreeFor(u, activation[u].target)
    /\ RaisedByOthers(u) = {}
    /\ Rivals(u) = {}
    /\ activation' = [activation EXCEPT ![u].phase = "raised"]
    /\ UNCHANGED <<check, answer, definition>>

\* The index refuses it: another version has been committed as active.
RefuseActivation(u) ==
    /\ activation[u].phase = "deprecated"
    /\ \E v \in Rivals(u) : FreeFor(u, v)
    /\ activation' = [activation EXCEPT ![u] = NotActivating]
    /\ UNCHANGED <<check, answer, definition>>

CommitActivation(u) ==
    /\ activation[u].phase = "raised"
    /\ definition' = [v \in DefVersions |->
                        IF v = activation[u].target THEN [definition[v] EXCEPT !.status = "active"]
                        ELSE IF v \in activation[u].lowered
                             THEN [definition[v] EXCEPT !.status = "deprecated"]
                        ELSE definition[v]]
    /\ activation' = [activation EXCEPT ![u] = NotActivating]
    /\ UNCHANGED <<check, answer>>

\* A lost connection or a crash.
AbortActivation(u) ==
    /\ activation[u].phase # "idle"
    /\ activation' = [activation EXCEPT ![u] = NotActivating]
    /\ UNCHANGED <<check, answer, definition>>

CheckRuns ==
    \/ \E g \in DefGraphs : AskDefinition(g)
    \/ \E v \in DefVersions : \E g \in GraphsFor[v] : BeginCheck(g, {v})
    \/ Searching /\ \E u \in check.graph.stages : StartFrom(u) \/ Follow(u)
    \/ Leave
    \/ ValidateDefinition
    \/ \E v \in DefVersions : CreateDefinition(v) \/ RefuseDefinition(v)

DefinitionNext ==
    \/ CheckRuns
    \/ \E u \in Activators :
          \/ \E v \in DefVersions : BeginActivate(u, v)
          \/ FindActive(u) \/ DeprecateActive(u) \/ RaiseTarget(u)
          \/ RefuseActivation(u) \/ CommitActivation(u) \/ AbortActivation(u)

DefinitionSpec == DefinitionInit /\ [][DefinitionNext]_definitionVars

-----------------------------------------------------------------------------
DefinitionRow == [status : {"draft", "active", "deprecated"}, graph : DefGraphs]

IsCheck(c) ==
    c \in [phase : {"searching"}, graph : DefGraphs, wanted : SUBSET DefVersions,
           stack : Seq(c.graph.stages), cycle : SUBSET c.graph.stages,
           color : [c.graph.stages -> {White, Gray, Black}],
           left : [c.graph.stages -> SUBSET c.graph.stages]]

\* Type invariant.
DefinitionTypeOK ==
    /\ check = NotChecking \/ IsCheck(check)
    /\ answer = NoAnswer \/ (answer.asked /\ answer.graph \in DefGraphs)
    /\ definition \in [DefVersions -> {Undefined} \cup DefinitionRow]
    /\ activation \in [Activators ->
          {NotActivating} \cup
          [phase : {"read", "scanned", "deprecated", "raised"}, target : DefVersions,
           found : SUBSET DefVersions, lowered : SUBSET DefVersions]]

\* t is downstream of s, by one or more dependencies between known stages: no set
\* of stages leads from s, and from each of its own, without leading to t.
After(g, s) == {v \in g.stages : <<s, v>> \in g.deps}
Downstream(g, s) ==
    {t \in g.stages :
       \A C \in SUBSET g.stages :
          After(g, s) \subseteq C /\ (\A u \in C : After(g, u) \subseteq C) => t \in C}
OnCycle(g) == {s \in g.stages : s \in Downstream(g, s)}
Roots(g) == {s \in g.stages : \A d \in g.deps : d[2] # s}

\* What validateDAG is to find out.
SoundGraph(g) ==
    /\ \A d \in g.deps : d[1] \in g.stages /\ d[2] \in g.stages
    /\ OnCycle(g) = {}
    /\ \A s, t \in g.stages : s # t => \E d \in g.deps : d[1] # d[2] /\ s \in {d[1], d[2]}

\* What startWorkflow relies on: it begins with the stages without upstream, and an
\* approval goes on from a stage to the next, so that each stage must follow one.
StartsEverywhere(g) == \A s \in g.stages \ Roots(g) : \E r \in Roots(g) : s \in Downstream(g, r)

\* A client learns from a validation (validateDAG), in whatever order stages and
\* dependencies are visited, exactly whether the graph is sound, and the stages of a
\* reported cycle are on one.  No definition is stored (createDefinition) that is not
\* sound or has a stage which no run would come to.
ValidationExact ==
    /\ answer # NoAnswer =>
          /\ Valid(answer.result) <=> SoundGraph(answer.graph)
          /\ Valid(answer.result) => StartsEverywhere(answer.graph)
          /\ answer.result.cycle \subseteq OnCycle(answer.graph)
    /\ \A v \in DefVersions :
          definition[v] # Undefined =>
             SoundGraph(definition[v].graph) /\ StartsEverywhere(definition[v].graph)

\* One active version (activateVersion): once a version has been activated there is
\* exactly one active version, however activations overlap, fail or end early.
OneActiveVersion ==
    /\ \A v, w \in ActiveVersions : v = w
    /\ (\E v \in DefVersions : definition[v].status = "deprecated") => ActiveVersions # {}
=============================================================================
