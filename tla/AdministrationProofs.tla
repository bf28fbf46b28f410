------------------------ MODULE AdministrationProofs ------------------------
(*****************************************************************************)
(* Theorems about WorkflowDefinitions, Registries and RuntimeCalls, for every *)
(* set of versions, graphs, rows, deployments and requests.                 *)
(*****************************************************************************)
EXTENDS WorkflowDefinitions, Registries, RuntimeCalls, SequenceTheorems, TLAPS

-----------------------------------------------------------------------------
(* The versions of a workflow definition.                                   *)

(* The search for a cycle.                                                  *)

(* What is downstream of a stage: closed under dependencies, and each of it *)
(* follows the stage itself or another one that is downstream.              *)
LEMMA DownstreamIs ==
  ASSUME NEW g, NEW s \in g.stages
  PROVE  /\ Downstream(g, s) \subseteq g.stages
         /\ After(g, s) \subseteq Downstream(g, s)
         /\ \A u \in Downstream(g, s) : After(g, u) \subseteq Downstream(g, s)
         /\ \A t \in Downstream(g, s) :
              \E u \in {s} \cup Downstream(g, s) : t \in After(g, u)
<1>1. Downstream(g, s) \subseteq g.stages /\ \A u \in g.stages : After(g, u) \subseteq g.stages
  BY DEF Downstream, After
<1>2. After(g, s) \subseteq Downstream(g, s)
  BY <1>1 DEF Downstream
<1>3. ASSUME NEW u \in Downstream(g, s), NEW t \in After(g, u)
      PROVE  t \in Downstream(g, s)
  <2> SUFFICES ASSUME NEW C \in SUBSET g.stages, After(g, s) \subseteq C,
                      \A x \in C : After(g, x) \subseteq C
               PROVE  t \in C
    BY <1>1, <1>3 DEF Downstream
  <2>1. u \in C
    BY <1>3 DEF Downstream
  <2> QED
    BY <1>3, <2>1
<1>4. ASSUME NEW t \in Downstream(g, s)
      PROVE  \E u \in {s} \cup Downstream(g, s) : t \in After(g, u)
  <2> DEFINE C == {x \in g.stages : \E u \in {s} \cup Downstream(g, s) : x \in After(g, u)}
  <2>1. After(g, s) \subseteq C
    BY <1>1
  <2>2. ASSUME NEW x \in C, NEW y \in After(g, x)
        PROVE  y \in C
    <3>1. x \in Downstream(g, s)
      BY <1>2, <1>3
    <3> QED
      BY <1>1, <2>2, <3>1
  <2>3. C \in SUBSET g.stages
    OBVIOUS
  <2>4. t \in C
    BY <1>4, <2>1, <2>2, <2>3 DEF Downstream
  <2> QED
    BY <2>4
<1> QED
  BY <1>1, <1>2, <1>3, <1>4

LEMMA DownstreamGoesOn ==
  ASSUME NEW g, NEW s \in g.stages, NEW t \in Downstream(g, s)
  PROVE  Downstream(g, t) \subseteq Downstream(g, s)
<1>1. After(g, t) \subseteq Downstream(g, s)
  BY DownstreamIs
<1>2. \A u \in Downstream(g, s) : After(g, u) \subseteq Downstream(g, s)
  BY DownstreamIs
<1>3. Downstream(g, s) \in SUBSET g.stages
  BY DownstreamIs
<1> QED
  BY <1>1, <1>2, <1>3 DEF Downstream

LEMMA SuccessorIsAfter ==
  ASSUME NEW g, NEW u
  PROVE  Successors(g, u) = After(g, u) \ {u}
BY DEF Successors, After

-----------------------------------------------------------------------------
(* The stack of open calls is the gray stages, each downstream of those     *)
(* below it.                                                                *)
StackIsPath(c) ==
  /\ \A u \in c.graph.stages : c.color[u] = Gray <=> \E i \in DOMAIN c.stack : c.stack[i] = u
  /\ \A i, j \in DOMAIN c.stack :
       /\ c.stack[i] = c.stack[j] => i = j
       /\ i < j => c.stack[j] \in Downstream(c.graph, c.stack[i])

(* A stage is left when all that follows it has been left, so that of any   *)
(* stages left the last one follows none of the others.                     *)
LeftInOrder(c) ==
  /\ \A u \in c.graph.stages : c.left[u] \subseteq Successors(c.graph, u)
  /\ \A u \in c.graph.stages :
       c.color[u] = Black => \A v \in Successors(c.graph, u) : c.color[v] = Black
  /\ \A U \in SUBSET {u \in c.graph.stages : c.color[u] = Black} :
       U # {} => \E s \in U : \A t \in U : s \notin Successors(c.graph, t)

(* What the loop of an open call has followed is done, or is the call above. *)
LoopsFollow(c) ==
  c.cycle = {} =>
    \A i \in DOMAIN c.stack : \A v \in Successors(c.graph, c.stack[i]) \ c.left[c.stack[i]] :
      c.color[v] = Black \/ (i < Len(c.stack) /\ c.stack[i + 1] = v)

SearchInv(c) ==
  /\ IsCheck(c)
  /\ StackIsPath(c) /\ LeftInOrder(c) /\ LoopsFollow(c)
  /\ c.cycle \subseteq OnCycle(c.graph)

LEMMA SearchBegins ==
  ASSUME NEW g \in DefGraphs, NEW wanted \in SUBSET DefVersions
  PROVE  SearchInv(NewCheck(g, wanted))
<1> DEFINE c == NewCheck(g, wanted)
<1>1. /\ c.graph = g /\ c.stack = <<>> /\ c.cycle = {}
      /\ c.color = [u \in g.stages |-> White] /\ c.left = [u \in g.stages |-> {}]
  BY DEF NewCheck
<1>2. IsCheck(c)
  BY DEF NewCheck, IsCheck
<1> HIDE DEF c
<1>3. StackIsPath(c) /\ LeftInOrder(c) /\ LoopsFollow(c)
  BY <1>1 DEF StackIsPath, LeftInOrder, LoopsFollow, White, Gray, Black
<1>4. c.cycle \subseteq OnCycle(g)
  BY <1>1
<1> QED
  BY <1>1, <1>2, <1>3, <1>4 DEF SearchInv, c

LEMMA EnteredIs ==
  ASSUME NEW c, IsCheck(c), NEW u \in c.graph.stages
  PROVE  /\ IsCheck(Entered(c, u))
         /\ Entered(c, u).graph = c.graph /\ Entered(c, u).cycle = c.cycle
         /\ Entered(c, u).stack = Append(c.stack, u)
         /\ Entered(c, u).color = [c.color EXCEPT ![u] = Gray]
         /\ Entered(c, u).left = [c.left EXCEPT ![u] = Successors(c.graph, u)]
<1> DEFINE d == Entered(c, u)
<1>1. /\ d.graph = c.graph /\ d.cycle = c.cycle
      /\ d.stack = Append(c.stack, u)
      /\ d.color = [c.color EXCEPT ![u] = Gray]
      /\ d.left = [c.left EXCEPT ![u] = Successors(c.graph, u)]
  BY DEF Entered, IsCheck
<1>2. Append(c.stack, u) \in Seq(c.graph.stages)
  BY AppendProperties DEF IsCheck
<1>3. Successors(c.graph, u) \subseteq c.graph.stages
  BY DEF Successors
<1>4. IsCheck(d)
  BY <1>1, <1>2, <1>3 DEF Entered, IsCheck
<1> QED
  BY <1>1, <1>4

(* A stage is entered from the outermost loop, or from the call on top of   *)
(* the stack, whose loop has then followed the dependency to it.            *)
LEMMA EnteringKeeps ==
  ASSUME NEW c, SearchInv(c), c.cycle = {}, NEW u \in c.graph.stages, c.color[u] = White,
         c.stack # <<>> => u \in Successors(c.graph, Last(c.stack)),
         NEW left \in [c.graph.stages -> SUBSET c.graph.stages],
         IF c.stack = <<>> THEN left = c.left
         ELSE left = [c.left EXCEPT ![Last(c.stack)] = @ \ {u}]
  PROVE  SearchInv(Entered([c EXCEPT !.left = left], u))
<1> DEFINE b == [c EXCEPT !.left = left]
           d == Entered(b, u)
           g == c.graph
           n == Len(c.stack)
<1>1. /\ IsCheck(b) /\ b.graph = c.graph /\ b.cycle = c.cycle /\ b.stack = c.stack
      /\ b.color = c.color /\ b.left = left
  BY DEF SearchInv, IsCheck
<1> HIDE DEF b
<1>2. /\ IsCheck(d) /\ d.graph = g /\ d.cycle = {}
      /\ d.stack = Append(c.stack, u)
      /\ d.color = [c.color EXCEPT ![u] = Gray]
      /\ d.left = [left EXCEPT ![u] = Successors(g, u)]
  <2>1. IsCheck(b) /\ u \in b.graph.stages
    BY <1>1
  <2>2. /\ IsCheck(d)
        /\ d.graph = b.graph /\ d.cycle = b.cycle
        /\ d.stack = Append(b.stack, u)
        /\ d.color = [b.color EXCEPT ![u] = Gray]
        /\ d.left = [b.left EXCEPT ![u] = Successors(b.graph, u)]
    BY <2>1, EnteredIs, Zenon
  <2> HIDE DEF d
  <2> QED
    BY <1>1, <2>2
<1> HIDE DEF d
<1>3. c.stack \in Seq(g.stages) /\ c.color \in [g.stages -> {White, Gray, Black}]
      /\ n \in Nat /\ DOMAIN c.stack = 1..n
  BY DEF SearchInv, IsCheck
<1>4. /\ Len(d.stack) = n + 1 /\ DOMAIN d.stack = 1 .. n + 1 /\ d.stack[n + 1] = u
      /\ \A i \in 1..n : d.stack[i] = c.stack[i]
  BY <1>2, <1>3, AppendProperties
<1>5. /\ d.color[u] = Gray /\ \A v \in g.stages \ {u} : d.color[v] = c.color[v]
  BY <1>2, <1>3
<1>11. /\ \A v \in g.stages : c.color[v] = Gray <=> \E i \in 1..n : c.stack[i] = v
       /\ \A i, j \in 1..n : c.stack[i] = c.stack[j] => i = j
       /\ \A i, j \in 1..n : i < j => c.stack[j] \in Downstream(g, c.stack[i])
  BY <1>3 DEF SearchInv, StackIsPath
<1>6. \A i \in 1..n : c.stack[i] \in g.stages /\ c.stack[i] # u /\ c.color[c.stack[i]] = Gray
  BY <1>3 DEF SearchInv, StackIsPath, White, Gray
<1>7. StackIsPath(d)
  <2>1. ASSUME NEW v \in g.stages
        PROVE  d.color[v] = Gray <=> \E i \in 1 .. n + 1 : d.stack[i] = v
    <3>1. CASE v = u
      BY <1>3, <1>4, <1>5, <3>1
    <3>2. CASE v # u
      <4>1. d.color[v] = Gray <=> \E i \in 1..n : c.stack[i] = v
        BY <1>5, <1>11, <3>2
      <4>2. \A i \in 1 .. n + 1 : d.stack[i] = v <=> i \in 1..n /\ c.stack[i] = v
        BY <1>3, <1>4, <3>2
      <4> QED
        BY <1>3, <4>1, <4>2
    <3> QED
      BY <3>1, <3>2
  <2>2. ASSUME NEW i \in 1 .. n + 1, NEW j \in 1 .. n + 1, d.stack[i] = d.stack[j]
        PROVE  i = j
    BY <1>3, <1>4, <1>6, <1>11, <2>2
  <2>3. ASSUME NEW i \in 1 .. n + 1, NEW j \in 1 .. n + 1, i < j
        PROVE  d.stack[j] \in Downstream(g, d.stack[i])
    <3>1. CASE j \in 1..n
      BY <1>3, <1>4, <1>11, <2>3, <3>1
    <3>2. CASE j = n + 1
      <4>1. i \in 1..n /\ n \in 1..n /\ c.stack # <<>>
        BY <1>3, <2>3, <3>2
      <4>2. u \in After(g, c.stack[n])
        BY <4>1, SuccessorIsAfter DEF Last
      <4>3. CASE i = n
        BY <1>4, <1>6, <3>2, <4>1, <4>2, <4>3, DownstreamIs
      <4>4. CASE i < n
        <5>1. c.stack[n] \in Downstream(g, c.stack[i])
          BY <1>11, <4>1, <4>4
        <5>2. c.stack[i] \in g.stages
          BY <1>6, <4>1
        <5> QED
          BY <1>4, <3>2, <4>1, <4>2, <5>1, <5>2, DownstreamIs
      <4> QED
        BY <1>3, <4>1, <4>3, <4>4
    <3> QED
      BY <1>3, <3>1, <3>2
  <2> QED
    BY <1>2, <1>4, <2>1, <2>2, <2>3 DEF StackIsPath
<1>8. LeftInOrder(d)
  <2>1. \A v \in g.stages : d.color[v] = Black <=> c.color[v] = Black
    BY <1>5 DEF White, Gray, Black
  <2>2. \A v \in g.stages : left[v] \subseteq c.left[v]
    BY <1>3, <1>6 DEF SearchInv, IsCheck, Last
  <2>3. \A v \in g.stages : d.left[v] \subseteq Successors(g, v)
    BY <1>2, <2>2 DEF SearchInv, LeftInOrder
  <2>4. \A v \in g.stages : Successors(g, v) \subseteq g.stages
    BY DEF Successors
  <2>5. \A v \in g.stages : d.color[v] = Black => \A w \in Successors(g, v) : d.color[w] = Black
    BY <2>1, <2>4 DEF SearchInv, LeftInOrder
  <2>6. {v \in g.stages : d.color[v] = Black} = {v \in g.stages : c.color[v] = Black}
    BY <2>1
  <2> QED
    BY <1>2, <2>3, <2>5, <2>6 DEF SearchInv, LeftInOrder
<1>9. LoopsFollow(d)
  <2> SUFFICES ASSUME NEW i \in 1 .. n + 1, NEW v \in Successors(g, d.stack[i]) \ d.left[d.stack[i]]
               PROVE  d.color[v] = Black \/ (i < n + 1 /\ d.stack[i + 1] = v)
    <3>1. d.graph = g /\ Len(d.stack) = n + 1 /\ DOMAIN d.stack = 1 .. n + 1
      BY <1>2, <1>4
    <3> QED
      BY <3>1 DEF LoopsFollow
  <2>1. v \in g.stages
    BY DEF Successors
  <2>2. i \in 1..n
    BY <1>2, <1>3, <1>4
  <2>3. d.stack[i] = c.stack[i] /\ d.left[d.stack[i]] = left[c.stack[i]]
    BY <1>2, <1>4, <1>6, <2>2
  <2>4. CASE i = n /\ v = u
    BY <1>4, <2>4, <1>3
  <2>5. CASE ~(i = n /\ v = u)
    <3>1. v \notin c.left[c.stack[i]]
      <4>1. c.stack # <<>> /\ n \in 1..n
        BY <1>3, <2>2
      <4>2. left = [c.left EXCEPT ![c.stack[n]] = @ \ {u}]
        BY <4>1 DEF Last
      <4>3. i # n => c.stack[i] # c.stack[n]
        BY <1>11, <2>2, <4>1
      <4> QED
        BY <1>6, <2>2, <2>3, <2>5, <4>2, <4>3 DEF SearchInv, IsCheck
    <3>2. c.color[v] = Black \/ (i < n /\ c.stack[i + 1] = v)
      BY <1>3, <2>2, <2>3, <3>1 DEF SearchInv, LoopsFollow
    <3>3. c.color[v] = Black => d.color[v] = Black
      BY <1>5, <2>1 DEF White, Black
    <3>4. i < n => d.stack[i + 1] = c.stack[i + 1]
      BY <1>3, <1>4, <2>2
    <3> QED
      BY <1>3, <2>2, <3>2, <3>3, <3>4
  <2> QED
    BY <2>4, <2>5
<1>10. d.cycle \subseteq OnCycle(d.graph)
  BY <1>2
<1> QED
  BY <1>2, <1>7, <1>8, <1>9, <1>10 DEF SearchInv, d, b

(* The stack, by its positions. *)
LEMMA StackIs ==
  ASSUME NEW c, SearchInv(c)
  PROVE  /\ Len(c.stack) \in Nat /\ DOMAIN c.stack = 1 .. Len(c.stack)
         /\ c.stack # <<>> => Len(c.stack) \in 1 .. Len(c.stack)
         /\ \A i \in 1 .. Len(c.stack) :
              c.stack[i] \in c.graph.stages /\ c.color[c.stack[i]] = Gray
         /\ \A v \in c.graph.stages :
              c.color[v] = Gray <=> \E i \in 1 .. Len(c.stack) : c.stack[i] = v
         /\ \A i, j \in 1 .. Len(c.stack) :
              /\ c.stack[i] = c.stack[j] => i = j
              /\ i < j => c.stack[j] \in Downstream(c.graph, c.stack[i])
<1>1. /\ c.stack \in Seq(c.graph.stages) /\ Len(c.stack) \in Nat
      /\ DOMAIN c.stack = 1 .. Len(c.stack)
  BY DEF SearchInv, IsCheck
<1>2. c.stack # <<>> => Len(c.stack) \in 1 .. Len(c.stack)
  BY <1>1
<1>3. \A i \in 1 .. Len(c.stack) : c.stack[i] \in c.graph.stages
  BY <1>1
<1> QED
  BY <1>1, <1>2, <1>3 DEF SearchInv, StackIsPath

(* Nothing changes but what the loop on top has still to follow. *)
LEMMA LoopGoesOn ==
  ASSUME NEW c, SearchInv(c), c.cycle = {}, c.stack # <<>>,
         NEW v \in c.left[Last(c.stack)],
         NEW cycle, cycle \subseteq OnCycle(c.graph), c.color[v] = Black \/ cycle # {}
  PROVE  SearchInv([c EXCEPT !.left[Last(c.stack)] = @ \ {v}, !.cycle = cycle])
<1> DEFINE d == [c EXCEPT !.left[Last(c.stack)] = @ \ {v}, !.cycle = cycle]
           n == Len(c.stack)
           g == c.graph
<1>1. /\ d.graph = g /\ d.stack = c.stack /\ d.color = c.color /\ d.cycle = cycle
      /\ d.left = [c.left EXCEPT ![c.stack[n]] = @ \ {v}]
  BY DEF SearchInv, IsCheck, Last
<1>2. OnCycle(g) \subseteq g.stages
  BY DEF OnCycle
<1>3. n \in 1..n /\ c.stack[n] \in g.stages
  BY StackIs
<1>4. c.left \in [g.stages -> SUBSET g.stages]
  BY DEF SearchInv, IsCheck
<1>5. IsCheck(d)
  <2> DEFINE left == [c.left EXCEPT ![c.stack[n]] = @ \ {v}]
  <2>1. left \in [g.stages -> SUBSET g.stages]
    BY <1>3, <1>4
  <2>2. d = [c EXCEPT !.left = left, !.cycle = cycle]
    BY DEF Last
  <2> HIDE DEF left
  <2>3. cycle \in SUBSET g.stages
    BY <1>2
  <2> QED
    BY <2>1, <2>2, <2>3 DEF SearchInv, IsCheck
<1> HIDE DEF d
<1>6. /\ \A u \in g.stages : d.left[u] \subseteq c.left[u]
      /\ d.left[c.stack[n]] = c.left[c.stack[n]] \ {v}
      /\ \A u \in g.stages \ {c.stack[n]} : d.left[u] = c.left[u]
  BY <1>1, <1>3, <1>4
<1>7. StackIsPath(d)
  BY <1>1 DEF SearchInv, StackIsPath
<1>8. LeftInOrder(d)
  BY <1>1, <1>6 DEF SearchInv, LeftInOrder
<1>9. LoopsFollow(d)
  <2> SUFFICES ASSUME cycle = {}, NEW i \in 1..n,
                      NEW w \in Successors(g, c.stack[i]) \ d.left[c.stack[i]]
               PROVE  c.color[w] = Black \/ (i < n /\ c.stack[i + 1] = w)
    <3>1. DOMAIN d.stack = 1..n
      BY <1>1, StackIs
    <3> QED
      BY <1>1, <3>1 DEF LoopsFollow
  <2>1. w = v \/ w \notin c.left[c.stack[i]]
    BY <1>6, StackIs
  <2> QED
    BY <2>1, StackIs DEF SearchInv, LoopsFollow
<1> QED
  BY <1>1, <1>5, <1>7, <1>8, <1>9 DEF SearchInv, d

(* The stages on the stack from a stage that is followed by the one on top  *)
(* are on a cycle.                                                          *)
LEMMA CycleOnStack ==
  ASSUME NEW c, SearchInv(c), c.stack # <<>>,
         NEW v \in Successors(c.graph, Last(c.stack)), c.color[v] = Gray
  PROVE  /\ OnStackFrom(c.stack, v) \subseteq OnCycle(c.graph)
         /\ OnStackFrom(c.stack, v) # {}
<1> DEFINE n == Len(c.stack)
           g == c.graph
<1>1. n \in 1..n /\ v \in After(g, c.stack[n]) /\ v \in g.stages
  BY StackIs, SuccessorIsAfter DEF Last, Successors
<1>2. ASSUME NEW j \in 1..n, NEW i \in 1..j, c.stack[i] = v
      PROVE  c.stack[j] \in OnCycle(g)
  <2> DEFINE x == c.stack[j]
  <2>1. i \in 1..n /\ x \in g.stages
    BY <1>1, <1>2, StackIs
  <2>2. v \in Downstream(g, x)
    <3>1. CASE j = n
      BY <1>1, <2>1, <3>1, DownstreamIs
    <3>2. CASE j < n
      <4>1. c.stack[n] \in Downstream(g, x)
        BY <1>1, <3>2, StackIs
      <4> QED
        BY <1>1, <2>1, <4>1, DownstreamIs
    <3> QED
      BY <1>1, <3>1, <3>2
  <2>3. CASE i = j
    BY <1>2, <2>1, <2>2, <2>3 DEF OnCycle
  <2>4. CASE i < j
    <3>1. x \in Downstream(g, v)
      BY <1>2, <2>1, <2>4, StackIs
    <3>2. Downstream(g, v) \subseteq Downstream(g, x)
      BY <2>1, <2>2, DownstreamGoesOn
    <3> QED
      BY <2>1, <3>1, <3>2 DEF OnCycle
  <2> QED
    BY <1>1, <2>3, <2>4
<1>3. OnStackFrom(c.stack, v) \subseteq OnCycle(g)
  <2>1. ASSUME NEW j \in 1..n, \E i \in 1..j : c.stack[i] = v
        PROVE  c.stack[j] \in OnCycle(g)
    BY <1>2, <2>1
  <2> QED
    BY <2>1, StackIs DEF OnStackFrom
<1>4. PICK k \in 1..n : c.stack[k] = v
  BY <1>1, StackIs
<1>5. v \in OnStackFrom(c.stack, v)
  <2>1. k \in 1..k /\ k \in DOMAIN c.stack
    BY StackIs
  <2> QED
    BY <1>4, <2>1 DEF OnStackFrom
<1> QED
  BY <1>3, <1>5

LEMMA FollowingKeeps ==
  ASSUME NEW c, SearchInv(c), c.cycle = {}, c.stack # <<>>,
         NEW v \in c.left[Last(c.stack)]
  PROVE  SearchInv(Followed(c, v))
<1> DEFINE next == [c EXCEPT !.left[Last(c.stack)] = @ \ {v}]
<1>1. Last(c.stack) \in c.graph.stages /\ v \in Successors(c.graph, Last(c.stack))
      /\ v \in c.graph.stages
  BY StackIs DEF SearchInv, IsCheck, LeftInOrder, Last
<1>2. c.color[v] \in {White, Gray, Black}
  BY <1>1 DEF SearchInv, IsCheck
<1>3. CASE c.color[v] = White
  <2> DEFINE left == [c.left EXCEPT ![Last(c.stack)] = @ \ {v}]
  <2>1. left \in [c.graph.stages -> SUBSET c.graph.stages]
    BY <1>1 DEF SearchInv, IsCheck
  <2>2. Followed(c, v) = Entered([c EXCEPT !.left = left], v)
    BY <1>3 DEF Followed, White, Gray, Black
  <2> HIDE DEF left
  <2>3. left = [c.left EXCEPT ![Last(c.stack)] = @ \ {v}]
    BY DEF left
  <2> QED
    BY <1>1, <1>3, <2>1, <2>2, <2>3, EnteringKeeps
<1>4. CASE c.color[v] = Gray
  <2> DEFINE cycle == OnStackFrom(c.stack, v)
  <2>1. Followed(c, v) = [c EXCEPT !.left[Last(c.stack)] = @ \ {v}, !.cycle = cycle]
    BY <1>4 DEF Followed, White, Gray, Black
  <2>2. cycle \subseteq OnCycle(c.graph) /\ cycle # {}
    BY <1>1, <1>4, CycleOnStack
  <2> HIDE DEF cycle
  <2> QED
    <3>1. SearchInv([c EXCEPT !.left[Last(c.stack)] = @ \ {v}, !.cycle = cycle])
      BY <2>2, LoopGoesOn
    <3> QED
      BY <2>1, <3>1
<1>5. CASE c.color[v] = Black
  <2>1. Followed(c, v) = next
    BY <1>5 DEF Followed, White, Gray, Black
  <2>2. next = [c EXCEPT !.left[Last(c.stack)] = @ \ {v}, !.cycle = {}]
    BY DEF SearchInv, IsCheck
  <2>3. SearchInv([c EXCEPT !.left[Last(c.stack)] = @ \ {v}, !.cycle = {}])
    BY <1>5, LoopGoesOn
  <2> QED
    BY <2>1, <2>2, <2>3
<1> QED
  BY <1>2, <1>3, <1>4, <1>5

(* The first k elements of a sequence. *)
LEMMA PrefixIs ==
  ASSUME NEW S, NEW s \in Seq(S), NEW k \in 0..Len(s)
  PROVE  /\ SubSeq(s, 1, k) \in Seq(S) /\ Len(SubSeq(s, 1, k)) = k
         /\ DOMAIN SubSeq(s, 1, k) = 1..k
         /\ \A i \in 1..k : SubSeq(s, 1, k)[i] = s[i]
<1>1. k \in Int /\ \A i \in 1..k : s[i] \in S
  OBVIOUS
<1>2. /\ SubSeq(s, 1, k) \in Seq(S)
      /\ Len(SubSeq(s, 1, k)) = IF 1 <= k THEN k - 1 + 1 ELSE 0
      /\ \A i \in 1 .. k - 1 + 1 : SubSeq(s, 1, k)[i] = s[1 + i - 1]
  BY <1>1, SubSeqProperties
<1>3. Len(SubSeq(s, 1, k)) = k
  BY <1>2
<1> QED
  BY <1>2, <1>3

(* The stage on top of the stack is left: all that it leads to has been     *)
(* left before, and nothing left before leads to it.                        *)
LEMMA LeavingKeeps ==
  ASSUME NEW c, SearchInv(c), c.cycle = {}, c.stack # <<>>, c.left[Last(c.stack)] = {}
  PROVE  SearchInv(Left(c))
<1> DEFINE d == Left(c)
           n == Len(c.stack)
           g == c.graph
           u == c.stack[n]
<1>1. /\ d.graph = g /\ d.stack = SubSeq(c.stack, 1, n - 1) /\ d.cycle = {} /\ d.left = c.left
      /\ d.color = [c.color EXCEPT ![u] = Black]
  BY DEF SearchInv, IsCheck, Left, Last, Front
<1>2. n \in Nat /\ n \in 1..n /\ u \in g.stages /\ c.color[u] = Gray
  BY StackIs
<1>3. /\ d.stack \in Seq(g.stages) /\ Len(d.stack) = n - 1 /\ DOMAIN d.stack = 1 .. n - 1
      /\ \A i \in 1 .. n - 1 : d.stack[i] = c.stack[i]
  <2>1. c.stack \in Seq(g.stages) /\ n - 1 \in 0..n
    BY <1>2, StackIs DEF SearchInv, IsCheck
  <2>2. d.stack = SubSeq(c.stack, 1, n - 1)
    BY <1>1
  <2>3. PICK k \in 0..n : k = n - 1
    BY <2>1
  <2> DEFINE stack == c.stack
  <2>4. stack \in Seq(g.stages) /\ k \in 0..Len(stack)
    BY <2>1
  <2> HIDE DEF stack
  <2>5. /\ SubSeq(stack, 1, k) \in Seq(g.stages) /\ Len(SubSeq(stack, 1, k)) = k
        /\ DOMAIN SubSeq(stack, 1, k) = 1..k
        /\ \A i \in 1..k : SubSeq(stack, 1, k)[i] = stack[i]
    BY <2>4, PrefixIs
  <2> HIDE DEF d
  <2>6. d.stack = SubSeq(stack, 1, k)
    BY <2>2, <2>3 DEF stack
  <2> DEFINE front == d.stack
  <2>7. /\ front \in Seq(g.stages) /\ Len(front) = k /\ DOMAIN front = 1..k
        /\ \A i \in 1..k : front[i] = stack[i]
    BY <2>5, <2>6, Zenon
  <2> QED
    BY <2>3, <2>7 DEF stack
<1>4. IsCheck(d)
  <2> DEFINE color == [c.color EXCEPT ![u] = Black]
             stack == SubSeq(c.stack, 1, n - 1)
  <2>1. d = [c EXCEPT !.color = color, !.stack = stack]
    BY DEF Left, Last, Front
  <2>2. color \in [g.stages -> {White, Gray, Black}]
    BY <1>2 DEF SearchInv, IsCheck
  <2>3. stack \in Seq(g.stages)
    BY <1>1, <1>3
  <2> HIDE DEF d, color, stack
  <2> QED
    BY <2>1, <2>2, <2>3 DEF SearchInv, IsCheck
<1> HIDE DEF d
<1>5. d.color[u] = Black /\ \A v \in g.stages \ {u} : d.color[v] = c.color[v]
  BY <1>1, <1>2 DEF SearchInv, IsCheck
<1>6. StackIsPath(d)
  <2>1. ASSUME NEW v \in g.stages
        PROVE  d.color[v] = Gray <=> \E i \in 1 .. n - 1 : d.stack[i] = v
    <3>1. CASE v = u
      <4>1. \A i \in 1 .. n - 1 : c.stack[i] # u
        BY <1>2, StackIs
      <4> QED
        BY <1>3, <1>5, <3>1, <4>1 DEF Gray, Black
    <3>2. CASE v # u
      <4>1. d.color[v] = Gray <=> \E i \in 1..n : c.stack[i] = v
        BY <1>5, <3>2, StackIs
      <4>2. \A i \in 1..n : c.stack[i] = v => i \in 1 .. n - 1
        BY <1>2, <3>2
      <4> QED
        <5>1. 1 .. n - 1 \subseteq 1..n
          BY <1>2
        <5>2. (\E i \in 1..n : c.stack[i] = v) <=> \E i \in 1 .. n - 1 : c.stack[i] = v
          BY <4>2, <5>1
        <5> QED
          BY <1>3, <4>1, <5>2
    <3> QED
      BY <3>1, <3>2
  <2>2. ASSUME NEW i \in 1 .. n - 1, NEW j \in 1 .. n - 1
        PROVE  /\ d.stack[i] = d.stack[j] => i = j
               /\ i < j => d.stack[j] \in Downstream(g, d.stack[i])
    <3>1. i \in 1..n /\ j \in 1..n
      BY <1>2
    <3> QED
      BY <1>3, <3>1, StackIs
  <2> QED
    BY <1>1, <1>3, <2>1, <2>2 DEF StackIsPath
<1>7. \A v \in Successors(g, u) : c.color[v] = Black
  BY <1>2, StackIs DEF SearchInv, LoopsFollow, Last
<1>8. \A v \in g.stages : c.color[v] = Black => v # u /\ u \notin Successors(g, v)
  BY <1>2 DEF SearchInv, LeftInOrder, Gray, Black
<1>9. \A v, w \in g.stages : w \in Successors(g, v) => v # w
  BY DEF Successors
<1>10. \A v \in g.stages : Successors(g, v) \subseteq g.stages
  BY DEF Successors
<1>11. LeftInOrder(d)
  <2>1. \A v \in g.stages : d.color[v] = Black <=> v = u \/ c.color[v] = Black
    BY <1>5
  <2>2. \A v \in g.stages : d.color[v] = Black => \A w \in Successors(g, v) : d.color[w] = Black
    BY <1>7, <1>10, <2>1 DEF SearchInv, LeftInOrder
  <2>3. ASSUME NEW U \in SUBSET {v \in g.stages : d.color[v] = Black}, U # {}
        PROVE  \E s \in U : \A t \in U : s \notin Successors(g, t)
    <3>1. CASE u \in U
      BY <1>8, <1>9, <2>1, <3>1
    <3>2. CASE u \notin U
      <4>1. U \in SUBSET {v \in g.stages : c.color[v] = Black}
        BY <2>1, <3>2
      <4> QED
        BY <2>3, <4>1 DEF SearchInv, LeftInOrder
    <3> QED
      BY <3>1, <3>2
  <2> QED
    BY <1>1, <2>2, <2>3 DEF SearchInv, LeftInOrder
<1>12. LoopsFollow(d)
  <2> SUFFICES ASSUME NEW i \in 1 .. n - 1, NEW v \in Successors(g, c.stack[i]) \ c.left[c.stack[i]]
               PROVE  d.color[v] = Black \/ (i < n - 1 /\ d.stack[i + 1] = v)
    BY <1>1, <1>3 DEF LoopsFollow
  <2>1. i \in 1..n /\ v \in g.stages
    BY <1>2 DEF Successors
  <2>2. c.color[v] = Black \/ (i < n /\ c.stack[i + 1] = v)
    BY <2>1, StackIs DEF SearchInv, LoopsFollow
  <2>3. i < n /\ c.stack[i + 1] = v => v = u \/ (i < n - 1 /\ d.stack[i + 1] = v)
    <3>1. CASE i = n - 1
      BY <1>2, <3>1
    <3>2. CASE i # n - 1
      <4>1. i < n - 1 /\ i + 1 \in 1 .. n - 1
        BY <1>2, <3>2
      <4> QED
        BY <1>3, <4>1
    <3> QED
      BY <3>1, <3>2
  <2> QED
    BY <1>5, <2>1, <2>2, <2>3
<1> QED
  BY <1>1, <1>4, <1>6, <1>11, <1>12 DEF SearchInv, d

-----------------------------------------------------------------------------
(* What a search has found when it is over.                                 *)

(* Valid, as the four errors a graph may have. *)
LEMMA ValidMeans ==
  ASSUME NEW g, NEW cycle
  PROVE  Valid(ValidateDAG(g, cycle)) <=>
           /\ \A d \in g.deps : d[1] \in g.stages /\ d[2] \in g.stages /\ d[1] # d[2]
           /\ cycle = {}
           /\ \A s, t \in g.stages : s # t => \E d \in g.deps : d[1] # d[2] /\ s \in {d[1], d[2]}
<1>1. Valid(ValidateDAG(g, cycle)) <=>
        /\ {d \in g.deps : d[1] \notin g.stages \/ d[2] \notin g.stages} = {}
        /\ {d[1] : d \in {d \in g.deps : d[1] = d[2]}} = {}
        /\ cycle = {} /\ Isolated(g) = {}
  <2>1. ASSUME NEW a, NEW b, NEW e, NEW f
        PROVE  Valid([unknown |-> a, selves |-> b, cycle |-> e, isolated |-> f])
                 <=> a = {} /\ b = {} /\ e = {} /\ f = {}
    <3> DEFINE r == [unknown |-> a, selves |-> b, cycle |-> e, isolated |-> f]
    <3>1. /\ DOMAIN r = {"unknown", "selves", "cycle", "isolated"}
          /\ r["unknown"] = a /\ r["selves"] = b /\ r["cycle"] = e /\ r["isolated"] = f
      OBVIOUS
    <3> HIDE DEF r
    <3>2. Valid(r) <=> a = {} /\ b = {} /\ e = {} /\ f = {}
      BY <3>1 DEF Valid
    <3> QED
      BY <3>2 DEF r
  <2> QED
    BY <2>1 DEF ValidateDAG
<1>2. Isolated(g) = {} <=>
        \A s, t \in g.stages : s # t => \E d \in g.deps : d[1] # d[2] /\ s \in {d[1], d[2]}
  <2>1. \A s : s \in Connected(g) <=> \E d \in g.deps : d[1] # d[2] /\ s \in {d[1], d[2]}
    BY DEF Connected
  <2> QED
    BY <2>1 DEF Isolated
<1> QED
  BY <1>1, <1>2

(* A finished search that found no cycle has left every stage. *)
LEMMA AllLeft ==
  ASSUME NEW c, SearchInv(c), c.cycle = {}, c.stack = <<>>,
         \A u \in c.graph.stages : c.color[u] # White
  PROVE  \A U \in SUBSET c.graph.stages :
           U # {} => \E s \in U : \A t \in U : s \notin Successors(c.graph, t)
<1>1. \A u \in c.graph.stages : c.color[u] # Gray
  BY StackIs
<1>2. \A u \in c.graph.stages : c.color[u] = Black
  BY <1>1 DEF SearchInv, IsCheck
<1> QED
  BY <1>2 DEF SearchInv, LeftInOrder

(* No stages that each follow another of them: no cycle, and a first stage  *)
(* before every other one.                                                  *)
LEMMA OrderedIsSound ==
  ASSUME NEW g \in DefGraphs,
         \A U \in SUBSET g.stages : U # {} => \E s \in U : \A t \in U : s \notin Successors(g, t),
         \A d \in g.deps : d[1] \in g.stages /\ d[2] \in g.stages /\ d[1] # d[2]
  PROVE  OnCycle(g) = {} /\ StartsEverywhere(g)
<1>1. \A u \in g.stages : Successors(g, u) = After(g, u)
  <2> SUFFICES ASSUME NEW u \in g.stages
               PROVE  u \notin After(g, u)
    BY SuccessorIsAfter
  <2> QED
    BY DEF After
<1>2. ASSUME NEW s \in OnCycle(g)
      PROVE  FALSE
  <2> DEFINE U == {u \in Downstream(g, s) : s \in Downstream(g, u)}
  <2>1. s \in g.stages /\ s \in U
    BY <1>2 DEF OnCycle
  <2>2. U \in SUBSET g.stages
    BY <2>1, DownstreamIs
  <2>3. PICK x \in U : \A t \in U : x \notin Successors(g, t)
    BY <2>1, <2>2
  <2>4. PICK t \in {s} \cup Downstream(g, s) : x \in After(g, t)
    BY <2>1, <2>3, DownstreamIs
  <2>5. t \in Downstream(g, s) /\ t \in g.stages
    BY <2>1, <2>4, DownstreamIs
  <2>6. x \in g.stages /\ x \in Downstream(g, t) /\ s \in Downstream(g, x)
    BY <2>2, <2>3, <2>4, <2>5, DownstreamIs
  <2>7. s \in Downstream(g, t)
    BY <2>5, <2>6, DownstreamGoesOn
  <2> QED
    BY <1>1, <2>3, <2>4, <2>5, <2>7
<1>3. ASSUME NEW z \in g.stages \ Roots(g), \A r \in Roots(g) : z \notin Downstream(g, r)
      PROVE  FALSE
  <2> DEFINE U == {u \in g.stages \ Roots(g) : \A r \in Roots(g) : u \notin Downstream(g, r)}
  <2>1. PICK x \in U : \A t \in U : x \notin Successors(g, t)
    BY <1>3
  <2>2. PICK d \in g.deps : d[2] = x
    BY <2>1 DEF Roots
  <2>3. d[1] \in g.stages /\ d = <<d[1], x>>
    BY <2>2, DefinitionAssumption DEF DefinitionAssumption
  <2>4. x \in After(g, d[1])
    BY <2>1, <2>2, <2>3 DEF After
  <2>5. d[1] \notin U
    BY <1>1, <2>1, <2>3, <2>4
  <2>6. Roots(g) \subseteq g.stages
    BY DEF Roots
  <2>7. CASE d[1] \in Roots(g)
    BY <2>1, <2>3, <2>4, <2>7, DownstreamIs
  <2>8. CASE d[1] \notin Roots(g)
    <3>1. PICK r \in Roots(g) : d[1] \in Downstream(g, r)
      BY <2>3, <2>5, <2>8
    <3>2. x \in Downstream(g, r)
      BY <2>4, <2>6, <3>1, DownstreamIs
    <3> QED
      BY <2>1, <3>2
  <2> QED
    BY <2>7, <2>8
<1> QED
  BY <1>2, <1>3 DEF StartsEverywhere

(* The answer is exact. *)
LEMMA SearchIsExact ==
  ASSUME NEW c, SearchInv(c),
         c.cycle # {} \/ (c.stack = <<>> /\ \A u \in c.graph.stages : c.color[u] # White)
  PROVE  /\ Valid(ValidateDAG(c.graph, c.cycle)) <=> SoundGraph(c.graph)
         /\ Valid(ValidateDAG(c.graph, c.cycle)) => StartsEverywhere(c.graph)
         /\ ValidateDAG(c.graph, c.cycle).cycle \subseteq OnCycle(c.graph)
<1> DEFINE g == c.graph
<1>1. g \in DefGraphs /\ c.cycle \subseteq OnCycle(g)
  BY DEF SearchInv, IsCheck
<1>2. ASSUME Valid(ValidateDAG(g, c.cycle))
      PROVE  SoundGraph(g) /\ StartsEverywhere(g)
  <2>1. /\ \A d \in g.deps : d[1] \in g.stages /\ d[2] \in g.stages /\ d[1] # d[2]
        /\ c.cycle = {}
        /\ \A s, t \in g.stages : s # t => \E d \in g.deps : d[1] # d[2] /\ s \in {d[1], d[2]}
    BY <1>2, ValidMeans
  <2>2. \A U \in SUBSET g.stages : U # {} => \E s \in U : \A t \in U : s \notin Successors(g, t)
    BY <2>1, AllLeft
  <2>3. OnCycle(g) = {} /\ StartsEverywhere(g)
    BY <1>1, <2>1, <2>2, OrderedIsSound
  <2> QED
    BY <2>1, <2>3 DEF SoundGraph
<1>3. ASSUME SoundGraph(g)
      PROVE  Valid(ValidateDAG(g, c.cycle))
  <2>1. \A d \in g.deps : d[1] # d[2]
    <3> SUFFICES ASSUME NEW d \in g.deps, d[1] = d[2]
                 PROVE  FALSE
      OBVIOUS
    <3>1. d[1] \in g.stages /\ d = <<d[1], d[1]>>
      BY <1>1, <1>3, DefinitionAssumption DEF DefinitionAssumption, SoundGraph
    <3>2. d[1] \in After(g, d[1])
      BY <3>1 DEF After
    <3>3. d[1] \in OnCycle(g)
      BY <3>1, <3>2, DownstreamIs DEF OnCycle
    <3> QED
      BY <1>3, <3>3 DEF SoundGraph
  <2> QED
    BY <1>1, <1>3, <2>1, ValidMeans DEF SoundGraph
<1>4. ValidateDAG(g, c.cycle).cycle = c.cycle
  BY DEF ValidateDAG
<1> QED
  BY <1>1, <1>2, <1>3, <1>4

-----------------------------------------------------------------------------
(* The versions and the transactions that write them.                       *)

Transactions ==
  [phase : {"read", "scanned", "deprecated", "raised"}, target : DefVersions,
   found : SUBSET DefVersions, lowered : SUBSET DefVersions]

(* Whoever activates a version found it there, as it found the active ones *)
(* it means to deprecate; no version goes away.                            *)
Defined(v) == definition[v] \in DefinitionRow

TargetsDefined ==
  \A u \in Activators :
    activation[u].phase # "idle" =>
      \A v \in {activation[u].target} \cup activation[u].found \cup activation[u].lowered :
        Defined(v)

(* A transaction in progress has its fields. *)
LEMMA TransactionShape ==
  ASSUME DefinitionTypeOK, NEW u \in Activators
  PROVE  /\ activation[u].phase \in {"idle", "read", "scanned", "deprecated", "raised"}
         /\ activation[u].phase # "idle" => activation[u] \in Transactions
<1>1. activation[u] = NotActivating \/ activation[u] \in Transactions
  BY DEF DefinitionTypeOK, Transactions
<1>2. CASE activation[u] = NotActivating
  BY <1>2 DEF NotActivating
<1>3. CASE activation[u] \in Transactions
  BY <1>3 DEF Transactions
<1> QED
  BY <1>1, <1>2, <1>3

(* An active version is a row with a graph. *)
LEMMA ActiveIsDefined ==
  ASSUME DefinitionTypeOK
  PROVE  \A v \in DefVersions :
           /\ definition[v] # Undefined => Defined(v)
           /\ definition[v].status \in {"active", "deprecated"} => Defined(v)
           /\ Defined(v) => definition[v] # Undefined
BY DEF DefinitionTypeOK, Defined, DefinitionRow, Undefined

(* What a step does to the versions: nothing, a new draft, or a commit. *)
VersionsKept ==
  /\ definition' \in [DefVersions -> {Undefined} \cup DefinitionRow]
  /\ \A v \in DefVersions : Defined(v) => Defined(v)'

LEMMA CreateKeeps ==
  ASSUME DefinitionTypeOK, NEW v \in DefVersions, CreateDefinition(v)
  PROVE  /\ VersionsKept
         /\ ActiveVersions' = ActiveVersions
         /\ \A w \in DefVersions : definition'[w].status = "deprecated"
                                     <=> definition[w].status = "deprecated"
<1> DEFINE new == [status |-> "draft", graph |-> check.graph]
<1>1. check.graph \in DefGraphs
  <2>1. IsCheck(check)
    BY DEF DefinitionTypeOK, CreateDefinition, Searched, NotChecking
  <2> QED
    BY <2>1 DEF IsCheck
<1>2. new \in DefinitionRow /\ new.status = "draft"
  BY <1>1 DEF DefinitionRow
<1> HIDE DEF new
<1>3. definition[v] = Undefined /\ definition' = [definition EXCEPT ![v] = new]
  BY DEF CreateDefinition, new
<1>4. definition[v].status = "absent"
  BY <1>3 DEF Undefined
<1>5. definition'[v] = new /\ \A w \in DefVersions \ {v} : definition'[w] = definition[w]
  BY <1>3 DEF DefinitionTypeOK
<1>6. VersionsKept
  BY <1>2, <1>3, <1>5 DEF VersionsKept, Defined, DefinitionTypeOK
<1> QED
  BY <1>2, <1>4, <1>5, <1>6 DEF ActiveVersions

LEMMA CommitKeeps ==
  ASSUME DefinitionTypeOK, TargetsDefined, NEW u \in Activators, CommitActivation(u)
  PROVE  /\ VersionsKept
         /\ ActiveVersions' = (ActiveVersions \ activation[u].lowered)
                                \cup {activation[u].target}
<1> DEFINE t == activation[u].target
           low == activation[u].lowered
<1>1. activation[u].phase = "raised" /\ activation[u] \in Transactions
  BY TransactionShape DEF CommitActivation
<1>2. t \in DefVersions /\ low \subseteq DefVersions
  BY <1>1 DEF Transactions
<1>3. Defined(t) /\ \A v \in low : Defined(v)
  BY <1>1 DEF TargetsDefined
<1>4. definition' = [v \in DefVersions |->
                       IF v = t THEN [definition[v] EXCEPT !.status = "active"]
                       ELSE IF v \in low THEN [definition[v] EXCEPT !.status = "deprecated"]
                       ELSE definition[v]]
  BY DEF CommitActivation
<1> HIDE DEF t, low
<1>5. ASSUME NEW r \in DefinitionRow, NEW status \in {"active", "deprecated"}
      PROVE  /\ [r EXCEPT !.status = status] \in DefinitionRow
             /\ [r EXCEPT !.status = status].status = status
  BY DEF DefinitionRow
<1>6. definition'[t] \in DefinitionRow /\ definition'[t].status = "active"
  BY <1>2, <1>3, <1>4, <1>5 DEF Defined
<1>7. \A v \in low \ {t} :
        definition'[v] \in DefinitionRow /\ definition'[v].status = "deprecated"
  BY <1>2, <1>3, <1>4, <1>5 DEF Defined
<1>8. \A v \in DefVersions \ (low \cup {t}) : definition'[v] = definition[v]
  BY <1>4
<1>9. VersionsKept
  BY <1>4, <1>6, <1>7, <1>8 DEF VersionsKept, Defined, DefinitionTypeOK
<1>10. ActiveVersions' = (ActiveVersions \ low) \cup {t}
  BY <1>2, <1>6, <1>7, <1>8 DEF ActiveVersions
<1> QED
  BY <1>9, <1>10 DEF t, low

LEMMA CommitKeepsGraphs ==
  ASSUME DefinitionTypeOK, TargetsDefined, NEW u \in Activators, CommitActivation(u),
         NEW v \in DefVersions, definition'[v] # Undefined
  PROVE  definition[v] # Undefined /\ definition'[v].graph = definition[v].graph
<1> DEFINE t == activation[u].target
           low == activation[u].lowered
<1>1. v \in {t} \cup low => Defined(v)
  BY DEF TargetsDefined, CommitActivation
<1>2. definition'[v] =
        IF v = t THEN [definition[v] EXCEPT !.status = "active"]
        ELSE IF v \in low THEN [definition[v] EXCEPT !.status = "deprecated"]
        ELSE definition[v]
  BY DEF CommitActivation
<1>3. \A r \in DefinitionRow, status \in {"active", "deprecated"} :
        r # Undefined /\ [r EXCEPT !.status = status].graph = r.graph
  BY DEF DefinitionRow, Undefined
<1> HIDE DEF t, low
<1> QED
  BY <1>1, <1>2, <1>3 DEF Defined

-----------------------------------------------------------------------------
CheckShape == check = NotChecking \/ SearchInv(check)

(* Each step of a check keeps the order of its search, or ends it; an       *)
(* answer is about the graph that was searched.                             *)
LEMMA CheckStep ==
  ASSUME DefinitionTypeOK, CheckShape, CheckRuns
  PROVE  /\ CheckShape'
         /\ \/ answer' \in {NoAnswer, answer}
            \/ /\ Searched /\ SearchInv(check)
               /\ answer' = [asked |-> TRUE, graph |-> check.graph, result |-> Result]
         /\ UNCHANGED activation
<1>1. check.phase = "searching" => SearchInv(check)
  BY DEF CheckShape, NotChecking
<1>2. ASSUME NEW g \in DefGraphs, NEW wanted \in SUBSET DefVersions, BeginCheck(g, wanted)
      PROVE  CheckShape' /\ answer' = NoAnswer /\ UNCHANGED activation
  BY <1>2, SearchBegins DEF BeginCheck, CheckShape
<1>3. CASE \E g \in DefGraphs : AskDefinition(g)
  BY <1>2, <1>3 DEF AskDefinition
<1>4. CASE \E v \in DefVersions : \E g \in GraphsFor[v] : BeginCheck(g, {v})
  BY <1>2, <1>4, DefinitionAssumption DEF DefinitionAssumption
<1>5. ASSUME NEW u \in check.graph.stages, StartFrom(u)
      PROVE  CheckShape' /\ UNCHANGED <<answer, activation>>
  <2>1. SearchInv(check) /\ check.cycle = {} /\ check.stack = <<>> /\ check.color[u] = White
    BY <1>1, <1>5 DEF StartFrom, Searching
  <2> DEFINE left == check.left
  <2>2. left \in [check.graph.stages -> SUBSET check.graph.stages]
    BY <2>1 DEF SearchInv, IsCheck
  <2>3. check = [check EXCEPT !.left = left]
    BY <2>1 DEF SearchInv, IsCheck
  <2>4. left = check.left
    OBVIOUS
  <2> HIDE DEF left
  <2>5. SearchInv(Entered([check EXCEPT !.left = left], u))
    BY <2>1, <2>2, <2>4, EnteringKeeps
  <2>6. SearchInv(Entered(check, u))
    BY <2>3, <2>5
  <2> QED
    BY <1>5, <2>6 DEF StartFrom, CheckShape
<1>6. ASSUME NEW v, Follow(v)
      PROVE  CheckShape' /\ UNCHANGED <<answer, activation>>
  BY <1>1, <1>6, FollowingKeeps DEF Follow, Searching, CheckShape
<1>7. CASE Leave
  BY <1>1, <1>7, LeavingKeeps DEF Leave, Searching, CheckShape
<1>8. CASE ValidateDefinition
  BY <1>1, <1>8 DEF ValidateDefinition, Searched, CheckShape
<1>9. CASE \E v \in DefVersions : CreateDefinition(v) \/ RefuseDefinition(v)
  BY <1>9 DEF CreateDefinition, RefuseDefinition, CheckShape
<1> QED
  BY <1>3, <1>4, <1>5, <1>6, <1>7, <1>8, <1>9 DEF CheckRuns

LEMMA OnlyCreationWrites ==
  ASSUME CheckRuns
  PROVE  \/ UNCHANGED <<definition, activation>>
         \/ \E v \in DefVersions : CreateDefinition(v)
BY DEF CheckRuns, AskDefinition, BeginCheck, StartFrom, Follow, Leave, ValidateDefinition,
       RefuseDefinition

DefinitionShape == DefinitionTypeOK /\ TargetsDefined /\ CheckShape

(* A step of one transaction that writes nothing yet. *)
LEMMA TransactionKeeps ==
  ASSUME DefinitionShape, NEW u \in Activators, NEW new,
         new = NotActivating \/ new \in Transactions,
         activation' = [activation EXCEPT ![u] = new],
         UNCHANGED <<check, answer, definition>>,
         new.phase # "idle" =>
           \A v \in {new.target} \cup new.found \cup new.lowered : Defined(v)
  PROVE  DefinitionShape'
<1> USE DEF DefinitionShape
<1>1. activation'[u] = new /\ \A w \in Activators \ {u} : activation'[w] = activation[w]
  BY DEF DefinitionTypeOK
<1>2. \A v : Defined(v)' <=> Defined(v)
  BY DEF Defined
<1>3. TargetsDefined'
  <2> SUFFICES ASSUME NEW w \in Activators, activation'[w].phase # "idle",
                      NEW v \in {activation'[w].target} \cup activation'[w].found
                                   \cup activation'[w].lowered
               PROVE  Defined(v)
    BY <1>2 DEF TargetsDefined
  <2>1. CASE w = u
    BY <1>1, <2>1
  <2>2. CASE w # u
    BY <1>1, <2>2 DEF TargetsDefined
  <2> QED
    BY <2>1, <2>2
<1>4. DefinitionTypeOK'
  BY DEF DefinitionTypeOK, Transactions
<1> QED
  BY <1>3, <1>4 DEF CheckShape

LEMMA DefinitionShapeInit == DefinitionInit => DefinitionShape
<1> SUFFICES ASSUME DefinitionInit
             PROVE  DefinitionShape
  OBVIOUS
<1>1. DefinitionTypeOK
  BY DEF DefinitionInit, DefinitionTypeOK
<1>2. TargetsDefined
  BY DEF DefinitionInit, TargetsDefined, NotActivating
<1>3. CheckShape
  BY DEF DefinitionInit, CheckShape
<1> QED
  BY <1>1, <1>2, <1>3 DEF DefinitionShape

LEMMA DefinitionShapeStep == DefinitionShape /\ [DefinitionNext]_definitionVars => DefinitionShape'
<1> SUFFICES ASSUME DefinitionShape, [DefinitionNext]_definitionVars
             PROVE  DefinitionShape'
  OBVIOUS
<1> USE DEF DefinitionShape
<1>1. CASE CheckRuns /\ UNCHANGED definition
  <2>1. CheckShape' /\ UNCHANGED activation
    BY <1>1, CheckStep
  <2>2. answer' = NoAnswer \/ (answer'.asked /\ answer'.graph \in DefGraphs)
    BY <1>1, CheckStep DEF DefinitionTypeOK, SearchInv, IsCheck
  <2>3. DefinitionTypeOK'
    BY <1>1, <2>1, <2>2 DEF DefinitionTypeOK, CheckShape, SearchInv
  <2>4. TargetsDefined'
    BY <1>1, <2>1 DEF TargetsDefined, Defined
  <2> QED
    BY <2>1, <2>3, <2>4
<1>2. ASSUME NEW v \in DefVersions, CreateDefinition(v)
      PROVE  DefinitionShape'
  <2>1. VersionsKept /\ check' = NotChecking /\ answer' = answer /\ activation' = activation
    BY <1>2, CreateKeeps DEF CreateDefinition
  <2>2. DefinitionTypeOK'
    BY <2>1 DEF VersionsKept, DefinitionTypeOK
  <2>3. TargetsDefined'
    <3> SUFFICES ASSUME NEW u \in Activators, activation[u].phase # "idle",
                        NEW w \in {activation[u].target} \cup activation[u].found
                                     \cup activation[u].lowered
                 PROVE  Defined(w)'
      BY <2>1 DEF TargetsDefined
    <3>1. activation[u] \in Transactions
      BY TransactionShape
    <3>2. w \in DefVersions
      BY <3>1 DEF Transactions
    <3>3. Defined(w)
      BY DEF TargetsDefined
    <3> QED
      BY <2>1, <3>2, <3>3 DEF VersionsKept
  <2> QED
    BY <2>1, <2>2, <2>3 DEF CheckShape
<1>3. ASSUME NEW u \in Activators, NEW v \in DefVersions, BeginActivate(u, v)
      PROVE  DefinitionShape'
  <2> DEFINE new == [phase |-> "read", target |-> v, found |-> {}, lowered |-> {}]
  <2>1. new \in Transactions /\ new.target = v /\ new.found = {} /\ new.lowered = {}
    BY DEF Transactions
  <2>2. Defined(v)
    BY <1>3, ActiveIsDefined DEF BeginActivate
  <2>3. activation' = [activation EXCEPT ![u] = new] /\ UNCHANGED <<check, answer, definition>>
    BY <1>3 DEF BeginActivate
  <2> HIDE DEF new
  <2> QED
    BY <2>1, <2>2, <2>3, TransactionKeeps
<1>4. ASSUME NEW u \in Activators, FindActive(u)
      PROVE  DefinitionShape'
  <2> DEFINE new == [activation[u] EXCEPT !.phase = "scanned", !.found = ActiveVersions]
  <2>1. activation[u] \in Transactions /\ activation[u].phase # "idle"
    BY <1>4, TransactionShape DEF FindActive
  <2>2. /\ new \in Transactions /\ new.target = activation[u].target
        /\ new.found = ActiveVersions /\ new.lowered = activation[u].lowered
    BY <2>1 DEF Transactions, ActiveVersions
  <2>3. \A v \in ActiveVersions : Defined(v)
    BY ActiveIsDefined DEF ActiveVersions
  <2>4. activation' = [activation EXCEPT ![u] = new] /\ UNCHANGED <<check, answer, definition>>
    BY <1>4 DEF FindActive, DefinitionTypeOK
  <2>5. \A v \in {new.target} \cup new.found \cup new.lowered : Defined(v)
    BY <2>1, <2>2, <2>3 DEF TargetsDefined
  <2> HIDE DEF new
  <2> QED
    BY <2>2, <2>4, <2>5, TransactionKeeps
<1>5. ASSUME NEW u \in Activators, DeprecateActive(u)
      PROVE  DefinitionShape'
  <2> DEFINE low == activation[u].found \cap ActiveVersions
             new == [activation[u] EXCEPT !.phase = "deprecated", !.lowered = low]
  <2>1. activation[u] \in Transactions /\ activation[u].phase # "idle"
    BY <1>5, TransactionShape DEF DeprecateActive
  <2>2. /\ new \in Transactions /\ new.target = activation[u].target
        /\ new.found = activation[u].found /\ new.lowered = low
    BY <2>1 DEF Transactions
  <2>3. activation' = [activation EXCEPT ![u] = new] /\ UNCHANGED <<check, answer, definition>>
    BY <1>5 DEF DeprecateActive, DefinitionTypeOK
  <2>4. \A v \in {new.target} \cup new.found \cup new.lowered : Defined(v)
    BY <2>1, <2>2 DEF TargetsDefined
  <2> HIDE DEF new
  <2> QED
    BY <2>2, <2>3, <2>4, TransactionKeeps
<1>6. ASSUME NEW u \in Activators, RaiseTarget(u)
      PROVE  DefinitionShape'
  <2> DEFINE new == [activation[u] EXCEPT !.phase = "raised"]
  <2>1. activation[u] \in Transactions /\ activation[u].phase # "idle"
    BY <1>6, TransactionShape DEF RaiseTarget
  <2>2. /\ new \in Transactions /\ new.target = activation[u].target
        /\ new.found = activation[u].found /\ new.lowered = activation[u].lowered
    BY <2>1 DEF Transactions
  <2>3. activation' = [activation EXCEPT ![u] = new] /\ UNCHANGED <<check, answer, definition>>
    BY <1>6 DEF RaiseTarget, DefinitionTypeOK
  <2>4. \A v \in {new.target} \cup new.found \cup new.lowered : Defined(v)
    BY <2>1, <2>2 DEF TargetsDefined
  <2> HIDE DEF new
  <2> QED
    BY <2>2, <2>3, <2>4, TransactionKeeps
<1>7. ASSUME NEW u \in Activators, RefuseActivation(u) \/ AbortActivation(u)
      PROVE  DefinitionShape'
  <2>1. NotActivating.phase = "idle"
    BY DEF NotActivating
  <2>2. /\ activation' = [activation EXCEPT ![u] = NotActivating]
        /\ UNCHANGED <<check, answer, definition>>
    BY <1>7 DEF RefuseActivation, AbortActivation
  <2> QED
    BY <2>1, <2>2, TransactionKeeps
<1>8. ASSUME NEW u \in Activators, CommitActivation(u)
      PROVE  DefinitionShape'
  <2>1. /\ VersionsKept /\ UNCHANGED <<check, answer>>
        /\ activation' = [activation EXCEPT ![u] = NotActivating]
    BY <1>8, CommitKeeps DEF CommitActivation
  <2>2. DefinitionTypeOK'
    BY <2>1 DEF VersionsKept, DefinitionTypeOK
  <2>3. TargetsDefined'
    <3> SUFFICES ASSUME NEW w \in Activators, activation'[w].phase # "idle",
                        NEW v \in {activation'[w].target} \cup activation'[w].found
                                     \cup activation'[w].lowered
                 PROVE  Defined(v)'
      BY DEF TargetsDefined
    <3>1. w # u /\ activation'[w] = activation[w]
      BY <2>1 DEF DefinitionTypeOK, NotActivating
    <3>2. activation[w] \in Transactions
      BY <3>1, TransactionShape
    <3>3. v \in DefVersions
      BY <3>1, <3>2 DEF Transactions
    <3>4. Defined(v)
      BY <3>1 DEF TargetsDefined
    <3> QED
      BY <2>1, <3>3, <3>4 DEF VersionsKept
  <2> QED
    BY <2>1, <2>2, <2>3 DEF CheckShape
<1>9. CASE UNCHANGED definitionVars
  BY <1>9 DEF definitionVars, DefinitionTypeOK, TargetsDefined, Defined, CheckShape
<1>10. CheckRuns => UNCHANGED definition \/ \E v \in DefVersions : CreateDefinition(v)
  BY OnlyCreationWrites
<1> QED
  BY <1>1, <1>2, <1>3, <1>4, <1>5, <1>6, <1>7, <1>8, <1>9, <1>10 DEF DefinitionNext

LEMMA DefinitionShapeHolds == DefinitionSpec => []DefinitionShape
  BY DefinitionShapeInit, DefinitionShapeStep, PTL DEF DefinitionSpec

(* The versions and the transactions keep their shape. *)
THEOREM DefinitionTypeCorrect == DefinitionSpec => []DefinitionTypeOK
<1>1. DefinitionShape => DefinitionTypeOK
  BY DEF DefinitionShape
<1> QED
  BY <1>1, DefinitionShapeHolds, PTL

-----------------------------------------------------------------------------
(* The partial unique index: one transaction at a time has raised its      *)
(* target, and while it has, no active version is left but those it lowers *)
(* and the one it raises.  Only its commit changes which ones are active.  *)
OneRaised ==
  /\ \A u, w \in Activators :
       activation[u].phase = "raised" /\ activation[w].phase = "raised" => u = w
  /\ \A u \in Activators : activation[u].phase = "raised" => Rivals(u) = {}

IndexInv == OneRaised /\ OneActiveVersion

LEMMA IndexInvStep ==
  DefinitionShape /\ IndexInv /\ [DefinitionNext]_definitionVars => IndexInv'
<1> SUFFICES ASSUME DefinitionShape, IndexInv, [DefinitionNext]_definitionVars
             PROVE  IndexInv'
  OBVIOUS
<1> USE DEF DefinitionShape, IndexInv
<1>1. ASSUME UNCHANGED definition
      PROVE  OneActiveVersion'
  BY <1>1 DEF OneActiveVersion, ActiveVersions
<1>2. CASE UNCHANGED <<definition, activation>>
  BY <1>1, <1>2 DEF OneRaised, Rivals, ActiveVersions
<1>3. ASSUME NEW v \in DefVersions, CreateDefinition(v)
      PROVE  IndexInv'
  <2>1. activation' = activation /\ ActiveVersions' = ActiveVersions
    BY <1>3, CreateKeeps DEF CreateDefinition
  <2>2. OneRaised'
    BY <2>1 DEF OneRaised, Rivals
  <2>3. OneActiveVersion'
    BY <1>3, <2>1, CreateKeeps DEF OneActiveVersion
  <2> QED
    BY <2>2, <2>3
<1>4. ASSUME NEW u \in Activators, UNCHANGED definition,
             \A w \in Activators \ {u} : activation'[w] = activation[w],
             activation'[u].phase # "raised"
      PROVE  IndexInv'
  <2>1. ActiveVersions' = ActiveVersions
    BY <1>4 DEF ActiveVersions
  <2>2. OneRaised'
    BY <1>4, <2>1 DEF OneRaised, Rivals
  <2> QED
    BY <1>1, <1>4, <2>2
<1>5. ASSUME NEW u \in Activators,
             \/ \E v \in DefVersions : BeginActivate(u, v)
             \/ FindActive(u) \/ DeprecateActive(u)
             \/ RefuseActivation(u) \/ AbortActivation(u)
      PROVE  IndexInv'
  <2>1. UNCHANGED definition
    BY <1>5 DEF BeginActivate, FindActive, DeprecateActive, RefuseActivation, AbortActivation
  <2>2. \A w \in Activators \ {u} : activation'[w] = activation[w]
    BY <1>5 DEF BeginActivate, FindActive, DeprecateActive, RefuseActivation,
                AbortActivation, DefinitionTypeOK
  <2>3. activation'[u].phase # "raised"
    <3>1. CASE \E v \in DefVersions : BeginActivate(u, v)
      BY <3>1 DEF BeginActivate, DefinitionTypeOK
    <3>2. CASE FindActive(u) \/ DeprecateActive(u)
      <4>1. activation[u] \in Transactions
        BY <3>2, TransactionShape DEF FindActive, DeprecateActive
      <4>2. activation'[u].phase \in {"scanned", "deprecated"}
        BY <3>2, <4>1 DEF FindActive, DeprecateActive, DefinitionTypeOK, Transactions
      <4> QED
        BY <4>2
    <3>3. CASE RefuseActivation(u) \/ AbortActivation(u)
      BY <3>3 DEF RefuseActivation, AbortActivation, DefinitionTypeOK, NotActivating
    <3> QED
      BY <1>5, <3>1, <3>2, <3>3
  <2> QED
    BY <1>4, <2>1, <2>2, <2>3
<1>6. ASSUME NEW u \in Activators, RaiseTarget(u)
      PROVE  IndexInv'
  <2>1. /\ \A w \in Activators \ {u} : activation[w].phase # "raised"
        /\ Rivals(u) = {} /\ UNCHANGED definition
    BY <1>6 DEF RaiseTarget, RaisedByOthers
  <2>2. activation[u] \in Transactions
    BY <1>6, TransactionShape DEF RaiseTarget
  <2>3. /\ \A w \in Activators \ {u} : activation'[w] = activation[w]
        /\ activation'[u].target = activation[u].target
        /\ activation'[u].lowered = activation[u].lowered
    BY <1>6, <2>2 DEF RaiseTarget, DefinitionTypeOK, Transactions
  <2>4. ActiveVersions' = ActiveVersions
    BY <2>1 DEF ActiveVersions
  <2>5. Rivals(u)' = {}
    BY <2>1, <2>3, <2>4 DEF Rivals
  <2>6. \A w \in Activators : activation'[w].phase = "raised" => w = u
    BY <2>1, <2>3
  <2> QED
    BY <1>1, <2>1, <2>5, <2>6 DEF OneRaised
<1>7. ASSUME NEW u \in Activators, CommitActivation(u)
      PROVE  IndexInv'
  <2>1. activation[u].phase = "raised" /\ Rivals(u) = {}
    BY <1>7 DEF CommitActivation, OneRaised
  <2>2. ActiveVersions' = {activation[u].target}
    BY <1>7, <2>1, CommitKeeps DEF Rivals
  <2>3. \A w \in Activators : activation'[w].phase # "raised"
    BY <1>7, <2>1 DEF CommitActivation, OneRaised, DefinitionTypeOK, NotActivating
  <2> QED
    BY <2>2, <2>3 DEF OneRaised, OneActiveVersion
<1>8. CASE CheckRuns
  BY <1>2, <1>3, <1>8, OnlyCreationWrites
<1>9. CASE UNCHANGED definitionVars
  BY <1>2, <1>9 DEF definitionVars
<1> QED
  BY <1>3, <1>5, <1>6, <1>7, <1>8, <1>9 DEF DefinitionNext

(* Once a version has been activated exactly one is active, however        *)
(* activations overlap, fail or end early (activateVersion).               *)
THEOREM OneActiveVersionHolds == DefinitionSpec => []OneActiveVersion
<1>1. ASSUME DefinitionInit
      PROVE  IndexInv
  <2>1. \A v \in DefVersions : definition[v].status = "absent"
    BY <1>1 DEF DefinitionInit, Undefined
  <2>2. \A u \in Activators : activation[u].phase = "idle"
    BY <1>1 DEF DefinitionInit, NotActivating
  <2> QED
    BY <2>1, <2>2 DEF IndexInv, OneRaised, OneActiveVersion, ActiveVersions
<1>2. IndexInv => OneActiveVersion
  BY DEF IndexInv
<1> QED
  BY <1>1, <1>2, IndexInvStep, DefinitionShapeHolds, PTL DEF DefinitionSpec
-----------------------------------------------------------------------------
(* The invariant of the search gives an exact answer (validateDAG) in       *)
(* whatever order stages and dependencies are visited, and no definition is *)
(* stored (createDefinition) that is not sound or has a stage which no run  *)
(* would come to.                                                           *)
THEOREM ValidationExactHolds == DefinitionSpec => []ValidationExact
<1>1. ASSUME DefinitionInit
      PROVE  ValidationExact
  BY <1>1 DEF DefinitionInit, ValidationExact
<1>2. ASSUME DefinitionShape, ValidationExact, [DefinitionNext]_definitionVars
      PROVE  ValidationExact'
  <2> USE <1>2
  <2>1. SearchInv(check) /\ Searched =>
          /\ Valid(Result) <=> SoundGraph(check.graph)
          /\ Valid(Result) => StartsEverywhere(check.graph)
          /\ Result.cycle \subseteq OnCycle(check.graph)
    BY SearchIsExact DEF Searched, Result
  <2>2. CASE CheckRuns /\ UNCHANGED definition
    <3>1. \/ answer' \in {NoAnswer, answer}
          \/ /\ Searched /\ SearchInv(check)
             /\ answer'.graph = check.graph /\ answer'.result = Result
      BY <2>2, CheckStep DEF DefinitionShape
    <3> QED
      BY <2>1, <2>2, <3>1 DEF ValidationExact
  <2>3. ASSUME NEW v \in DefVersions, CreateDefinition(v)
        PROVE  ValidationExact'
    <3>1. SearchInv(check) /\ SoundGraph(check.graph) /\ StartsEverywhere(check.graph)
      BY <2>1, <2>3 DEF CreateDefinition, DefinitionShape, CheckShape, Searched, NotChecking
    <3>2. definition'[v].graph = check.graph /\ UNCHANGED answer
          /\ \A w \in DefVersions \ {v} : definition'[w] = definition[w]
      BY <2>3 DEF CreateDefinition, DefinitionShape, DefinitionTypeOK
    <3> QED
      BY <3>1, <3>2 DEF ValidationExact
  <2>4. ASSUME NEW u \in Activators, CommitActivation(u)
        PROVE  ValidationExact'
    <3>1. \A v \in DefVersions :
            definition'[v] # Undefined =>
              definition[v] # Undefined /\ definition'[v].graph = definition[v].graph
      BY <2>4, CommitKeepsGraphs DEF DefinitionShape
    <3>2. UNCHANGED answer
      BY <2>4 DEF CommitActivation
    <3> QED
      BY <3>1, <3>2 DEF ValidationExact
  <2>5. CASE UNCHANGED <<answer, definition>>
    BY <2>5 DEF ValidationExact
  <2>6. ASSUME NEW u \in Activators,
               \/ \E v \in DefVersions : BeginActivate(u, v)
               \/ FindActive(u) \/ DeprecateActive(u) \/ RaiseTarget(u)
               \/ RefuseActivation(u) \/ AbortActivation(u)
        PROVE  ValidationExact'
    BY <2>5, <2>6 DEF BeginActivate, FindActive, DeprecateActive, RaiseTarget,
                      RefuseActivation, AbortActivation
  <2>7. CASE CheckRuns
    BY <2>2, <2>3, <2>7, OnlyCreationWrites
  <2>8. CASE UNCHANGED definitionVars
    BY <2>5, <2>8 DEF definitionVars
  <2> QED
    BY <2>4, <2>6, <2>7, <2>8 DEF DefinitionNext
<1> QED
  BY <1>1, <1>2, DefinitionShapeHolds, PTL DEF DefinitionSpec

-----------------------------------------------------------------------------
(* Administered rows: whatever requests overlap, a key has one live row,    *)
(* the trail ends at the row, and a membership is revoked once.             *)

(* A request that reads has only its own transaction to show for it.        *)
ReadsRow(u) ==
  \E r \in RegistryRows, to \in RegistryStatus \cup {"keep"}, silent \in SUBSET RegistryRows :
    /\ rtx[u] = NoRequest
    /\ rtx' = [rtx EXCEPT ![u] = [at |-> "read", row |-> r, seen |-> row[r], to |-> to,
                                 silent |-> silent]]
    /\ row[r] = "absent" => to \in RegistryStatus
    /\ row[r] = "absent" /\ kindOf[r] = "membership" => to = "active"
    /\ \A q \in silent : kindOf[q] \in {"mcp_server", "member"} /\ (q # r => kindOf[q] = "mcp_server")
    /\ r \in silent => to = "active"

RegistryOthers == <<kindOf, row, lastAudit, unlogged, revocations>>

(* The common case: every row it writes will be audited. *)
LEMMA PlainRead ==
  ASSUME NEW u \in RegistryUsers, NEW r \in RegistryRows,
         NEW to \in RegistryStatus \cup {"keep"}, ReadRow(u, r, to, {}),
         row[r] = "absent" => to # "keep",
         row[r] = "absent" /\ kindOf[r] = "membership" => to = "active"
  PROVE  ReadsRow(u) /\ UNCHANGED RegistryOthers
<1>1. UNCHANGED RegistryOthers
  BY DEF ReadRow, RegistryOthers
<1>2. {} \in SUBSET RegistryRows
  OBVIOUS
<1> QED
  BY <1>1, <1>2 DEF ReadRow, ReadsRow

LEMMA InsertReads ==
  ASSUME RegistryTypeOK, NEW u \in RegistryUsers, NEW r \in RegistryRows,
         NEW kind \in RegistryKinds, NEW first \in RegistryStatus,
         kind = "membership" => first = "active",
         Insert(u, r, kind, first)
  PROVE  ReadsRow(u) /\ UNCHANGED RegistryOthers
<1>1. ReadRow(u, r, first, {}) /\ (kindOf[r] = "membership" => first = "active")
  BY DEF Insert
<1> QED
  BY <1>1, PlainRead DEF RegistryStatus

LEMMA MoveReads ==
  ASSUME RegistryTypeOK, NEW u \in RegistryUsers, NEW r \in RegistryRows,
         NEW kind, NEW moves,
         \A m \in moves : m[1] # "absent",
         Move(u, r, kind, moves)
  PROVE  ReadsRow(u) /\ UNCHANGED RegistryOthers
<1>1. PICK to \in RegistryStatus : <<row[r], to>> \in moves /\ ReadRow(u, r, to, {})
  BY DEF Move
<1>2. row[r] # "absent"
  BY <1>1
<1> QED
  BY <1>1, <1>2, PlainRead

LEMMA PatchReads ==
  ASSUME RegistryTypeOK, NEW u \in RegistryUsers, NEW r \in RegistryRows,
         NEW kind, Patch(u, r, kind)
  PROVE  ReadsRow(u) /\ UNCHANGED RegistryOthers
BY PlainRead DEF Patch

LEMMA MovesLeaveRows ==
  \A moves \in {TaskMoves, ProfileMoves, ServerMoves, ChannelMoves, InstallationMoves,
                MemberMoves, MembershipMoves,
                MemberMoves \cap (RegistryStatus \X {"inactive"})} :
    \A m \in moves : m[1] # "absent"
BY DEF TaskMoves, ProfileMoves, ServerMoves, ChannelMoves, InstallationMoves,
       MemberMoves, MembershipMoves

(* Two insertions bring rows that nobody audits. *)
LEMMA SilentInsertsRead ==
  ASSUME RegistryTypeOK, NEW u \in RegistryUsers, NEW r \in RegistryRows,
         InstallEntry(u, r) \/ CreateOrganization(u, r)
  PROVE  ReadsRow(u) /\ UNCHANGED RegistryOthers
<1>1. CASE InstallEntry(u, r)
  <2>1. PICK silent \in NewServers(r) : ReadRow(u, r, "installed", silent)
    BY <1>1 DEF InstallEntry
  <2>2. /\ silent \in SUBSET RegistryRows
        /\ \A q \in silent : kindOf[q] = "mcp_server"
    BY DEF NewServers
  <2>3. kindOf[r] = "installation" /\ r \notin silent /\ "installed" \in RegistryStatus
    BY <1>1, <2>2 DEF InstallEntry, RegistryStatus
  <2> QED
    BY <2>1, <2>2, <2>3 DEF ReadRow, ReadsRow, RegistryOthers
<1>2. CASE CreateOrganization(u, r)
  <2>1. /\ ReadRow(u, r, "active", {r}) /\ kindOf[r] = "member"
        /\ {r} \in SUBSET RegistryRows /\ "active" \in RegistryStatus
    BY <1>2 DEF CreateOrganization, RegistryStatus
  <2> QED
    BY <2>1 DEF ReadRow, ReadsRow, RegistryOthers
<1> QED
  BY <1>1, <1>2

(* Four things may happen, whatever the table. *)
RegistryStep(u) ==
  \/ ReadsRow(u) /\ UNCHANGED RegistryOthers
  \/ WriteRegistry(u) \/ CommitRow(u) \/ Rollback(u)

LEMMA RegistryStepShape ==
  ASSUME RegistryTypeOK, [RegistryNext]_registryVars
  PROVE  (\E u \in RegistryUsers : RegistryStep(u)) \/ UNCHANGED registryVars
<1> SUFFICES ASSUME NEW u \in RegistryUsers, NEW r \in RegistryRows,
                    \/ CreateTask(u, r) \/ UpdateTask(u, r)
                    \/ CreateProfile(u, r) \/ UpdateProfile(u, r)
                    \/ CreateServer(u, r) \/ UpdateServer(u, r)
                    \/ CreateChannel(u, r) \/ UpdateChannel(u, r)
                    \/ InstallEntry(u, r) \/ TransitionInstallation(u, r)
                    \/ CreateOrganization(u, r) \/ AddMember(u, r)
                    \/ UpdateMember(u, r) \/ DeactivateMember(u, r)
                    \/ GrantMembership(u, r) \/ RevokeMembership(u, r)
             PROVE  ReadsRow(u) /\ UNCHANGED RegistryOthers
  BY DEF RegistryNext, RegistryStep
<1>1. CASE \/ CreateTask(u, r) \/ CreateProfile(u, r) \/ CreateServer(u, r)
           \/ CreateChannel(u, r) \/ AddMember(u, r) \/ GrantMembership(u, r)
  <2>1. \E kind \in RegistryKinds, first \in RegistryStatus :
          (kind = "membership" => first = "active") /\ Insert(u, r, kind, first)
    BY <1>1 DEF CreateTask, CreateProfile, CreateServer, CreateChannel, AddMember,
                GrantMembership, RegistryKinds, RegistryStatus
  <2> QED
    BY <2>1, InsertReads
<1>2. CASE \E kind \in RegistryKinds : Patch(u, r, kind)
  BY <1>2, PatchReads
<1>3. CASE \E kind \in RegistryKinds :
             \E moves \in {TaskMoves, ProfileMoves, ServerMoves, ChannelMoves,
                           InstallationMoves, MemberMoves, MembershipMoves,
                           MemberMoves \cap (RegistryStatus \X {"inactive"})} :
               Move(u, r, kind, moves)
  BY <1>3, MovesLeaveRows, MoveReads
<1> QED
  BY <1>1, <1>2, <1>3, SilentInsertsRead
  DEF UpdateTask, UpdateProfile, UpdateServer, UpdateChannel, TransitionInstallation,
      UpdateMember, DeactivateMember, RevokeMembership, RegistryKinds

-----------------------------------------------------------------------------
(* The rows a request inserts without an audit: servers, or its own member. *)
SilentKinds(u) ==
  \A q \in rtx[u].silent : /\ kindOf[q] \in {"mcp_server", "member"}
                           /\ q # rtx[u].row => kindOf[q] = "mcp_server"

(* What a request that reads has asked for: a patch is of a row that is     *)
(* there, and rows stay; a new membership is active.                        *)
Asked(u) ==
  Reading(u) =>
    /\ rtx[u].seen # "absent" \/ rtx[u].to = "keep" => row[rtx[u].row] # "absent"
    /\ rtx[u].seen = "absent" /\ kindOf[rtx[u].row] = "membership" => rtx[u].to = "active"
    /\ SilentKinds(u)
    /\ rtx[u].row \in rtx[u].silent => rtx[u].to = "active"

(* What a request that writes may rely on until it commits: nobody else     *)
(* makes a row of its key live, and a membership it revokes is active.      *)
Held(u) ==
  Writing(u) =>
    LET r == rtx[u].row
    IN /\ rtx[u].audit = rtx[u].after
       /\ Counts(r, rtx[u].after) => \A q \in SameSlot(r) : ~ Counts(q, row[q])
       /\ kindOf[r] = "membership" /\ rtx[u].after = "revoked" => row[r] = "active"
       /\ kindOf[r] = "membership" => row[r] # "revoked"
       /\ SilentKinds(u)
       /\ r \in rtx[u].silent => rtx[u].after = "active"
       /\ \A q \in rtx[u].silent : row[q] = "absent"

(* Two requests that write hold no row in common, and not two that would    *)
(* both be live under one key.                                              *)
Apart(u, v) ==
  Writing(u) /\ Writing(v) =>
    /\ Written(u) \cap Written(v) = {}
    /\ rtx[u].row \in SameSlot(rtx[v].row) =>
         ~ Counts(rtx[u].row, rtx[u].after) \/ ~ Counts(rtx[v].row, rtx[v].after)

RevokedForGood ==
  \A r \in RegistryRows :
    revocations[r] = 0 \/ (revocations[r] = 1 /\ kindOf[r] = "membership" /\ row[r] = "revoked")

(* A row that is not there has no audit. *)
NoAuditYet == \A r \in RegistryRows : row[r] = "absent" => lastAudit[r] = "none"

RegistryInv ==
  /\ RegistryTypeOK
  /\ \A u \in RegistryUsers : Asked(u) /\ Held(u)
  /\ \A u, v \in RegistryUsers : u # v => Apart(u, v)
  /\ OneLivePerKey /\ TrailEndsAtRow /\ RevokedForGood /\ NoAuditYet

LEMMA RegistryInvInit == RegistryInit => RegistryInv
<1> SUFFICES ASSUME RegistryInit PROVE RegistryInv
  OBVIOUS
<1>1. RegistryTypeOK
  BY DEF RegistryInit, RegistryTypeOK
<1>2. \A u \in RegistryUsers : ~ Reading(u) /\ ~ Writing(u)
  BY DEF RegistryInit, NoRequest, Reading, Writing
<1>3. \A r \in RegistryRows : row[r] = "absent" /\ revocations[r] = 0 /\ lastAudit[r] = "none"
  BY DEF RegistryInit
<1>4. \A r \in RegistryRows : ~ Counts(r, "absent")
  BY DEF Counts, Indexed, RegistryStatus
<1> QED
  BY <1>1, <1>2, <1>3, <1>4
  DEF RegistryInv, Asked, Held, Apart, OneLivePerKey, TrailEndsAtRow, RevokedForGood, NoAuditYet

(* The states of a transaction. *)
ReadStates == [at : {"read"}, row : RegistryRows, seen : RegistryStatus \cup {"absent"},
               to : RegistryStatus \cup {"keep"}, silent : SUBSET RegistryRows]
WroteStates == [at : {"wrote"}, row : RegistryRows, seen : RegistryStatus \cup {"absent"},
                after : RegistryStatus, silent : SUBSET RegistryRows, audit : RegistryStatus]

LEMMA RequestShape ==
  ASSUME RegistryTypeOK, NEW u \in RegistryUsers
  PROVE  /\ Reading(u) => rtx[u] \in ReadStates
         /\ Writing(u) => rtx[u] \in WroteStates
         /\ ~ (Reading(u) /\ Writing(u))
BY DEF RegistryTypeOK, NoRequest, Reading, Writing, ReadStates, WroteStates

(* A step that changes no row and turns a request into one that does not    *)
(* write disturbs nobody else.                                              *)
LEMMA OthersUndisturbed ==
  ASSUME RegistryInv, UNCHANGED RegistryOthers,
         NEW u \in RegistryUsers, NEW state \in ReadStates \cup {NoRequest},
         rtx' = [rtx EXCEPT ![u] = state],
         Asked(u)'
  PROVE  RegistryInv'
<1> USE DEF RegistryInv, RegistryOthers
<1>1. RegistryTypeOK'
  BY DEF RegistryTypeOK, ReadStates
<1>2. rtx'[u] = state /\ \A w \in RegistryUsers \ {u} : rtx'[w] = rtx[w]
  BY DEF RegistryTypeOK
<1>3. ~ Writing(u)'
  BY <1>2 DEF Writing, ReadStates, NoRequest
<1>4. \A w \in RegistryUsers \ {u} : Asked(w)' /\ Held(w)'
  BY <1>2 DEF Asked, Held, Reading, Writing, Counts, SameSlot, SilentKinds
<1>5. Held(u)'
  BY <1>3 DEF Held
<1>6. \A w, v \in RegistryUsers : w # v => Apart(w, v)'
  BY <1>2, <1>3 DEF Apart, Writing, Written, Counts, SameSlot
<1>7. OneLivePerKey' /\ TrailEndsAtRow' /\ RevokedForGood' /\ NoAuditYet'
  BY DEF OneLivePerKey, TrailEndsAtRow, RevokedForGood, NoAuditYet, Counts, SameSlot
<1> QED
  BY <1>1, <1>4, <1>5, <1>6, <1>7

LEMMA WriteKeepsRegistry ==
  ASSUME RegistryInv, NEW u \in RegistryUsers, WriteRegistry(u)
  PROVE  RegistryInv'
<1> USE DEF RegistryInv
<1> DEFINE r == rtx[u].row
           to == IF rtx[u].to = "keep" THEN row[r] ELSE rtx[u].to
           state == [at |-> "wrote", row |-> r, seen |-> rtx[u].seen,
                     after |-> to, silent |-> rtx[u].silent, audit |-> to]
<1>1. /\ Reading(u) /\ ~ MustWait(u, r, to) /\ StillMatches(u, r) /\ Unique(r, to)
      /\ rtx' = [rtx EXCEPT ![u] = state]
      /\ UNCHANGED <<kindOf, row, lastAudit, unlogged, revocations>>
  BY DEF WriteRegistry
<1>2. rtx[u] \in ReadStates
  BY <1>1, RequestShape
<1>3. r \in RegistryRows /\ to \in RegistryStatus
  BY <1>1, <1>2 DEF ReadStates, RegistryTypeOK, Asked
<1>4. state \in WroteStates
  BY <1>2, <1>3 DEF ReadStates, WroteStates
<1>5. rtx'[u] = state /\ \A w \in RegistryUsers \ {u} : rtx'[w] = rtx[w]
  BY <1>1 DEF RegistryTypeOK
<1>6. kindOf[r] = "membership" => row[r] # "revoked" /\ (to = "revoked" => row[r] = "active")
  BY <1>1, <1>2 DEF StillMatches, Asked, ReadStates
<1>7. Counts(r, to) => \A q \in SameSlot(r) : ~ Counts(q, row[q])
  BY <1>1 DEF Unique
<1>8. \A v \in RegistryUsers \ {u} : Writing(v) =>
        /\ Written(v) \cap Written(u) = {}
        /\ Counts(r, to) => rtx[v].row \notin SameSlot(r)
  BY <1>1 DEF MustWait, Written
<1>9. /\ SilentKinds(u)
      /\ r \in rtx[u].silent => to = "active"
      /\ \A q \in rtx[u].silent : row[q] = "absent"
  <2>1. rtx[u].to = "active" => to = "active"
    OBVIOUS
  <2> QED
    BY <1>1, <2>1 DEF Asked, StillMatches
<1> HIDE DEF r, to
<1>10. RegistryTypeOK'
  BY <1>1, <1>4 DEF RegistryTypeOK, WroteStates
<1>11. \A w \in RegistryUsers \ {u} : Asked(w)' /\ Held(w)'
  BY <1>1, <1>5 DEF Asked, Held, Reading, Writing, Counts, SameSlot, SilentKinds
<1>12. Asked(u)' /\ Held(u)'
  <2>1. ~ Reading(u)' /\ Writing(u)'
    BY <1>5 DEF Reading, Writing
  <2>2. /\ rtx'[u].row = r /\ rtx'[u].after = to /\ rtx'[u].audit = to
        /\ rtx'[u].silent = rtx[u].silent
    BY <1>5
  <2>3. SilentKinds(u)'
    BY <1>1, <1>9, <2>2 DEF SilentKinds, r
  <2> QED
    BY <1>1, <1>6, <1>7, <1>9, <2>1, <2>2, <2>3 DEF Asked, Held, Counts, SameSlot
<1>13. ASSUME NEW v \in RegistryUsers, NEW w \in RegistryUsers, v # w
       PROVE  Apart(v, w)'
  <2>1. \A x \in RegistryUsers \ {u} : Writing(x) => rtx[x].row \in RegistryRows
    BY RequestShape DEF WroteStates
  <2>2. ASSUME NEW x \in RegistryUsers \ {u}
        PROVE  Apart(x, u)' /\ Apart(u, x)'
    BY <1>1, <1>3, <1>5, <1>8, <2>1 DEF Apart, Writing, Written, Counts, SameSlot, r
  <2>3. CASE v # u /\ w # u
    BY <1>1, <1>5, <1>13, <2>3 DEF Apart, Writing, Written, Counts, SameSlot
  <2> QED
    BY <1>13, <2>2, <2>3
<1>14. OneLivePerKey' /\ TrailEndsAtRow' /\ RevokedForGood' /\ NoAuditYet'
  BY <1>1 DEF OneLivePerKey, TrailEndsAtRow, RevokedForGood, NoAuditYet, Counts, SameSlot
<1> QED
  BY <1>10, <1>11, <1>12, <1>13, <1>14

LEMMA CommitKeepsRegistry ==
  ASSUME RegistryInv, NEW u \in RegistryUsers, CommitRow(u)
  PROVE  RegistryInv'
<1> USE DEF RegistryInv
<1> DEFINE r == rtx[u].row
           after == rtx[u].after
           silent == rtx[u].silent
<1>1. rtx[u] \in WroteStates /\ Writing(u)
  BY RequestShape DEF CommitRow
<1>2. rtx[u].audit = after
  BY <1>1 DEF Held
<1>3. /\ row' = [q \in RegistryRows |->
                  IF q = r THEN after ELSE IF q \in silent THEN "active" ELSE row[q]]
      /\ unlogged' = unlogged \cup silent
      /\ lastAudit' = IF kindOf[r] \in Audited /\ r \notin silent
                        THEN [lastAudit EXCEPT ![r] = after] ELSE lastAudit
      /\ revocations' = IF kindOf[r] = "membership" /\ after = "revoked"
                          THEN [revocations EXCEPT ![r] = @ + 1] ELSE revocations
      /\ rtx' = [rtx EXCEPT ![u] = NoRequest]
      /\ kindOf' = kindOf
  BY <1>2 DEF CommitRow
<1>4. r \in RegistryRows /\ after \in RegistryStatus /\ silent \subseteq RegistryRows
  BY <1>1 DEF WroteStates
<1>5. /\ Counts(r, after) => \A q \in SameSlot(r) : ~ Counts(q, row[q])
      /\ kindOf[r] = "membership" /\ after = "revoked" => row[r] = "active"
      /\ kindOf[r] = "membership" => row[r] # "revoked"
      /\ r \in silent => after = "active"
      /\ \A q \in silent : row[q] = "absent"
  BY <1>1 DEF Held
<1>6. \A q \in silent : /\ kindOf[q] \in {"mcp_server", "member"}
                        /\ q # r => kindOf[q] = "mcp_server"
  BY <1>1 DEF Held, SilentKinds
<1>7. \A w \in RegistryUsers \ {u} : Writing(w) =>
        /\ Written(w) \cap ({r} \cup silent) = {}
        /\ rtx[w].row \in SameSlot(r) =>
             ~ Counts(rtx[w].row, rtx[w].after) \/ ~ Counts(r, after)
  <2>1. Written(u) = {r} \cup silent
    BY DEF Written
  <2> QED
    BY <1>1, <2>1 DEF Apart
<1>8. \A q \in silent \ {r} : ~ Counts(q, "active")
  BY <1>6 DEF Counts, Indexed
<1> HIDE DEF r, after, silent
<1>9. RegistryTypeOK'
  <2>1. "active" \in RegistryStatus
    BY DEF RegistryStatus
  <2>2. row' \in [RegistryRows -> RegistryStatus \cup {"absent"}]
    BY <1>3, <1>4, <2>1 DEF RegistryTypeOK
  <2>3. lastAudit' \in [RegistryRows -> RegistryStatus \cup {"none"}]
    BY <1>3, <1>4 DEF RegistryTypeOK
  <2>4. revocations' \in [RegistryRows -> Nat]
    BY <1>3, <1>4 DEF RegistryTypeOK
  <2>5. unlogged' \subseteq RegistryRows
    BY <1>3, <1>4 DEF RegistryTypeOK
  <2> QED
    BY <1>3, <2>2, <2>3, <2>4, <2>5 DEF RegistryTypeOK
<1>10. /\ row'[r] = after /\ \A q \in silent \ {r} : row'[q] = "active"
       /\ \A q \in RegistryRows \ ({r} \cup silent) : row'[q] = row[q]
       /\ rtx'[u] = NoRequest /\ \A w \in RegistryUsers \ {u} : rtx'[w] = rtx[w]
  <2>1. rtx'[u] = NoRequest /\ \A w \in RegistryUsers \ {u} : rtx'[w] = rtx[w]
    BY <1>3 DEF RegistryTypeOK
  <2> QED
    BY <1>3, <1>4, <2>1
<1>11. ~ Writing(u)' /\ ~ Reading(u)'
  BY <1>10 DEF NoRequest, Writing, Reading
<1>12. ASSUME NEW w \in RegistryUsers
       PROVE  Asked(w)'
  <2>1. Reading(w)' => w # u /\ Reading(w) /\ rtx'[w] = rtx[w] /\ rtx[w].row \in RegistryRows
    BY <1>10, <1>11, RequestShape DEF Reading, ReadStates
  <2>2. \A q \in RegistryRows : row[q] # "absent" => row'[q] # "absent"
    BY <1>3, <1>4 DEF RegistryStatus
  <2> QED
    BY <1>3, <2>1, <2>2 DEF Asked, SilentKinds
<1>13. ASSUME NEW w \in RegistryUsers
       PROVE  Held(w)'
  <2> SUFFICES ASSUME w # u, Writing(w), rtx'[w] = rtx[w]
               PROVE  Held(w)'
    BY <1>10, <1>11 DEF Held, Writing
  <2> DEFINE p == rtx[w].row
  <2>1. /\ p \in RegistryRows \ ({r} \cup silent)
        /\ rtx[w].silent \subseteq RegistryRows \ ({r} \cup silent)
    BY <1>7, RequestShape DEF WroteStates, Written
  <2>2. row'[p] = row[p] /\ \A q \in rtx[w].silent : row'[q] = row[q]
    BY <1>10, <2>1
  <2>3. ASSUME Counts(p, rtx[w].after), NEW q \in SameSlot(p)
        PROVE  ~ Counts(q, row'[q])
    <3>1. q \in RegistryRows /\ (q = r => p \in SameSlot(r))
      BY <2>1, <2>3 DEF SameSlot
    <3>2. CASE q = r
      BY <1>7, <1>10, <2>3, <3>1, <3>2
    <3>3. CASE q \in silent \ {r}
      BY <1>8, <1>10, <3>3
    <3>4. CASE q \notin {r} \cup silent
      BY <1>10, <2>3, <3>1, <3>4 DEF Held
    <3> QED
      BY <3>2, <3>3, <3>4
  <2>4. /\ rtx[w].audit = rtx[w].after
        /\ kindOf[p] = "membership" /\ rtx[w].after = "revoked" => row'[p] = "active"
        /\ kindOf[p] = "membership" => row'[p] # "revoked"
        /\ p \in rtx[w].silent => rtx[w].after = "active"
        /\ \A q \in rtx[w].silent : row'[q] = "absent"
        /\ SilentKinds(w)
    BY <2>2 DEF Held
  <2>5. SilentKinds(w)'
    BY <1>3, <2>4 DEF SilentKinds
  <2> QED
    BY <1>3, <2>3, <2>4, <2>5 DEF Held, Counts, SameSlot
<1>14. \A v, w \in RegistryUsers : v # w => Apart(v, w)'
  BY <1>3, <1>10, <1>11 DEF Apart, Writing, Written, Counts, SameSlot
<1>15. OneLivePerKey'
  <2> SUFFICES ASSUME NEW p \in RegistryRows, NEW q \in SameSlot(p),
                      Counts(p, row'[p]), Counts(q, row'[q])
               PROVE  FALSE
    BY <1>3 DEF OneLivePerKey, Counts, SameSlot
  <2>1. q \in RegistryRows /\ p # q /\ p \in SameSlot(q)
    BY DEF SameSlot
  <2>2. p \notin silent \ {r} /\ q \notin silent \ {r}
    BY <1>8, <1>10
  <2> QED
    BY <1>5, <1>10, <2>1, <2>2 DEF OneLivePerKey
<1>16. TrailEndsAtRow'
  <2> SUFFICES ASSUME NEW p \in RegistryRows, kindOf[p] \in Audited, row'[p] # "absent"
               PROVE  \/ lastAudit'[p] = row'[p]
                      \/ p \in unlogged' /\ lastAudit'[p] = "none" /\ row'[p] = "active"
    BY <1>3 DEF TrailEndsAtRow
  <2>1. CASE p = r /\ r \notin silent
    BY <1>3, <1>10, <2>1 DEF RegistryTypeOK
  <2>2. CASE p \in silent
    <3>1. lastAudit[p] = "none" /\ lastAudit'[p] = lastAudit[p]
      BY <1>3, <1>4, <1>5, <2>2 DEF NoAuditYet, RegistryTypeOK
    <3>2. row'[p] = "active" /\ p \in unlogged'
      BY <1>3, <1>5, <1>10, <2>2
    <3> QED
      BY <3>1, <3>2
  <2>3. CASE p \notin {r} \cup silent
    <3>1. row'[p] = row[p] /\ lastAudit'[p] = lastAudit[p] /\ unlogged \subseteq unlogged'
      BY <1>3, <1>10, <2>3 DEF RegistryTypeOK
    <3> QED
      BY <3>1 DEF TrailEndsAtRow
  <2> QED
    BY <2>1, <2>2, <2>3
<1>17. NoAuditYet'
  <2> SUFFICES ASSUME NEW p \in RegistryRows, row'[p] = "absent"
               PROVE  lastAudit'[p] = "none"
    BY DEF NoAuditYet
  <2>1. p \notin {r} \cup silent
    BY <1>4, <1>10 DEF RegistryStatus
  <2>2. row'[p] = row[p] /\ lastAudit'[p] = lastAudit[p]
    BY <1>3, <1>10, <2>1 DEF RegistryTypeOK
  <2> QED
    BY <2>2 DEF NoAuditYet
<1>18. RevokedForGood'
  <2> SUFFICES ASSUME NEW p \in RegistryRows
               PROVE  \/ revocations'[p] = 0
                      \/ revocations'[p] = 1 /\ kindOf[p] = "membership" /\ row'[p] = "revoked"
    BY <1>3 DEF RevokedForGood
  <2>1. CASE p = r
    BY <1>3, <1>4, <1>5, <1>10, <2>1 DEF RevokedForGood, RegistryTypeOK
  <2>2. CASE p \in silent \ {r}
    BY <1>3, <1>6, <2>2 DEF RevokedForGood, RegistryTypeOK
  <2>3. CASE p \notin {r} \cup silent
    BY <1>3, <1>10, <2>3 DEF RevokedForGood, RegistryTypeOK
  <2> QED
    BY <2>1, <2>2, <2>3
<1> QED
  BY <1>9, <1>12, <1>13, <1>14, <1>15, <1>16, <1>17, <1>18

LEMMA RegistryInvStep == RegistryInv /\ [RegistryNext]_registryVars => RegistryInv'
<1> SUFFICES ASSUME RegistryInv, [RegistryNext]_registryVars
             PROVE  RegistryInv'
  OBVIOUS
<1>1. CASE UNCHANGED registryVars
  BY <1>1
  DEF registryVars, RegistryInv, RegistryTypeOK, Asked, Held, Apart, Reading, Writing,
      Written, SilentKinds, Counts, SameSlot, OneLivePerKey, TrailEndsAtRow, RevokedForGood, NoAuditYet
<1>2. ASSUME NEW u \in RegistryUsers, ReadsRow(u), UNCHANGED RegistryOthers
      PROVE  RegistryInv'
  <2>1. PICK r \in RegistryRows, to \in RegistryStatus \cup {"keep"},
             silent \in SUBSET RegistryRows :
          /\ rtx' = [rtx EXCEPT ![u] = [at |-> "read", row |-> r, seen |-> row[r], to |-> to,
                                       silent |-> silent]]
          /\ row[r] = "absent" => to \in RegistryStatus
          /\ row[r] = "absent" /\ kindOf[r] = "membership" => to = "active"
          /\ \A q \in silent : /\ kindOf[q] \in {"mcp_server", "member"}
                               /\ q # r => kindOf[q] = "mcp_server"
          /\ r \in silent => to = "active"
    BY <1>2, Zenon DEF ReadsRow
  <2> DEFINE state == [at |-> "read", row |-> r, seen |-> row[r], to |-> to, silent |-> silent]
  <2>2. state \in ReadStates /\ rtx'[u] = state
    BY <2>1 DEF RegistryInv, RegistryTypeOK, ReadStates
  <2>3. Asked(u)'
    <3>1. /\ rtx'[u].row = r /\ rtx'[u].seen = row[r] /\ rtx'[u].to = to
          /\ rtx'[u].silent = silent /\ kindOf' = kindOf /\ row' = row
      BY <1>2, <2>2 DEF RegistryOthers
    <3>2. SilentKinds(u)'
      BY <2>1, <3>1 DEF SilentKinds
    <3> QED
      BY <2>1, <3>1, <3>2 DEF Asked, RegistryStatus
  <2> QED
    BY <1>2, <2>1, <2>2, <2>3, OthersUndisturbed
<1>3. ASSUME NEW u \in RegistryUsers, Rollback(u)
      PROVE  RegistryInv'
  <2>1. rtx' = [rtx EXCEPT ![u] = NoRequest] /\ UNCHANGED RegistryOthers
    BY <1>3 DEF Rollback, RegistryOthers
  <2>2. Asked(u)'
    BY <2>1 DEF Asked, Reading, NoRequest, RegistryInv, RegistryTypeOK
  <2> QED
    BY <2>1, <2>2, OthersUndisturbed
<1> QED
  BY <1>1, <1>2, <1>3, RegistryStepShape, WriteKeepsRegistry, CommitKeepsRegistry
  DEF RegistryInv, RegistryStep

LEMMA RegistryInvariant == RegistrySpec => []RegistryInv
BY RegistryInvInit, RegistryInvStep, PTL DEF RegistrySpec

(* Rows, audits and requests keep their types, for any rows and keys. *)
THEOREM RegistryTypeCorrect == RegistrySpec => []RegistryTypeOK
<1>1. RegistryInv => RegistryTypeOK
  BY DEF RegistryInv
<1> QED
  BY <1>1, RegistryInvariant, PTL

(* The unique index together with the wait for a rival's uncommitted row    *)
(* keeps a key to one live row, for any number of requests.                 *)
THEOREM OneLivePerKeyHolds == RegistrySpec => []OneLivePerKey
<1>1. RegistryInv => OneLivePerKey
  BY DEF RegistryInv
<1> QED
  BY <1>1, RegistryInvariant, PTL

(* The newest audit of a row shows the row, however updates overlap; rows   *)
(* that came without one are untouched while they have none.                *)
THEOREM TrailEndsAtRowHolds == RegistrySpec => []TrailEndsAtRow
<1>1. RegistryInv => TrailEndsAtRow
  BY DEF RegistryInv
<1> QED
  BY <1>1, RegistryInvariant, PTL

(* A membership is revoked at most once. *)
THEOREM RevokedOnceHolds == RegistrySpec => []RevokedOnce
<1>1. RegistryInv => RevokedOnce
  BY DEF RegistryInv, RevokedForGood, RevokedOnce
<1> QED
  BY <1>1, RegistryInvariant, PTL

-----------------------------------------------------------------------------
(* The attempts of a job and what they may do outside.                      *)

(* A claim in progress is within the budget of attempts, and one that is    *)
(* outside knows its runtime.                                               *)
RuntimeInv ==
  /\ RuntimeTypeOK
  /\ runtimeJob = "pending" => attempt < MaxAttempts
  /\ runtimeJob = "outside" => attempt > 0 /\ adapter \in Adapters
  /\ OutsideOnlyWhenAllowed
  /\ RefusalsNotRetried

(* The answers of checks that end the job, and all a check may answer. *)
FinalVerdicts == {Invalid, Denied, Refused, Unreachable}
CheckVerdicts == FinalVerdicts \cup {Throttled, TimedOut, Unknown}

LEMMA DefaultVerdict ==
  ASSUME NEW e
  PROVE  /\ ByDefault(e).error = e
         /\ e \in NonRetryable => ~ ByDefault(e).retryable
BY DEF ByDefault, Verdict

LEMMA CheckVerdictsKnown ==
  /\ \A v \in CheckVerdicts : v.error \in RuntimeErrors
  /\ \A v \in FinalVerdicts : ~ v.retryable
<1>1. Unreachable.error = "external_unavailable" /\ ~ Unreachable.retryable
  BY DEF Unreachable, Verdict
<1>2. \A e \in NonRetryable : ByDefault(e).error = e /\ ~ ByDefault(e).retryable
  BY DefaultVerdict
<1>3. \A e \in NonRetryable : e \in RuntimeErrors
  BY DEF NonRetryable, RuntimeErrors
<1>4. \A v \in {Invalid, Denied, Refused} : \E e \in NonRetryable : v = ByDefault(e)
  BY DEF Invalid, Denied, Refused, NonRetryable
<1>5. \A v \in {Invalid, Denied, Refused} : v.error \in RuntimeErrors /\ ~ v.retryable
  BY <1>2, <1>3, <1>4
<1>6. /\ Throttled.error = "rate_limited" /\ TimedOut.error = "timeout"
      /\ Unknown.error = "unknown"
  BY DefaultVerdict DEF Throttled, TimedOut, Unknown
<1>7. {"external_unavailable", "rate_limited", "timeout", "unknown"} \subseteq RuntimeErrors
  BY DEF RuntimeErrors
<1> QED
  BY <1>1, <1>5, <1>6, <1>7 DEF FinalVerdicts, CheckVerdicts

(* The needs whose refusal may be asked again: what the ledger refuses, and *)
(* what reads like a timeout.                                               *)
AskedAgain(r) ==
  {"ledger", "quota", "in_time", "timeout_integer"}
    \cup (IF r.quoted = "timeout" THEN {"scope", "action"} ELSE {})

(* Every check of every list is one of those or ends the job; two lists of  *)
(* checks make one.                                                         *)
SoundChecks(r) == (Needs \X FinalVerdicts) \cup ((AskedAgain(r) \cap Needs) \X CheckVerdicts)
Sound(checks, r) == checks \in Seq(SoundChecks(r))

LEMMA SoundTogether ==
  ASSUME NEW r, NEW s, NEW t, Sound(s, r), Sound(t, r)
  PROVE  Sound(s \o t, r)
BY DEF Sound

LEMMA SoundPairs ==
  ASSUME NEW r
  PROVE  /\ \A n \in Needs, v \in {Invalid, Denied, Refused, Unreachable} : <<n, v>> \in SoundChecks(r)
         /\ <<"ledger", Unknown>> \in SoundChecks(r)
         /\ <<"quota", Throttled>> \in SoundChecks(r)
         /\ <<"in_time", TimedOut>> \in SoundChecks(r)
         /\ <<"timeout_integer", TimedOut>> \in SoundChecks(r)
         /\ r.quoted = "timeout" => <<"scope", TimedOut>> \in SoundChecks(r)
         /\ r.quoted = "timeout" => <<"action", TimedOut>> \in SoundChecks(r)
<1>1. \A n \in Needs, v \in {Invalid, Denied, Refused, Unreachable} : <<n, v>> \in SoundChecks(r)
  BY DEF SoundChecks, FinalVerdicts
<1>2. \A n \in AskedAgain(r) \cap Needs, v \in {Throttled, TimedOut, Unknown} :
        <<n, v>> \in SoundChecks(r)
  BY DEF SoundChecks, CheckVerdicts
<1>3. {"ledger", "quota", "in_time", "timeout_integer"} \subseteq AskedAgain(r) \cap Needs
  BY DEF AskedAgain, Needs
<1>4. r.quoted = "timeout" => {"scope", "action"} \subseteq AskedAgain(r) \cap Needs
  BY DEF AskedAgain, Needs
<1> QED
  BY <1>1, <1>2, <1>3, <1>4

LEMMA PreparationSound ==
  ASSUME NEW r, r.quoted \in {"plain", "timeout", "permission"}
  PROVE  Sound(PreparationChecks(r), r)
<1>1. <<"scope", ScopeVerdict(r)>> \in SoundChecks(r)
  <2>1. "scope" \in Needs
    BY DEF Needs
  <2>2. ScopeVerdict(r) \in {Denied, Invalid} \/ (r.quoted = "timeout" /\ ScopeVerdict(r) = TimedOut)
    BY DEF ScopeVerdict
  <2> QED
    BY <2>1, <2>2, SoundPairs
<1>2. {"timeout_range", "named", "reference"} \subseteq Needs
  BY DEF Needs
<1>3. \A n \in {"timeout_range", "named", "reference"} : <<n, Invalid>> \in SoundChecks(r)
  BY <1>2, SoundPairs
<1>4. <<"timeout_integer", TimedOut>> \in SoundChecks(r)
  BY SoundPairs
<1>5. ASSUME NEW n \in SoundChecks(r), NEW s \in SoundChecks(r), NEW k \in SoundChecks(r),
             NEW first \in SoundChecks(r), NEW last \in SoundChecks(r)
      PROVE  <<first, n, s, k, last>> \in Seq(SoundChecks(r))
  OBVIOUS
<1> QED
  BY <1>1, <1>3, <1>4, <1>5 DEF Sound, PreparationChecks

LEMMA ChecksSound ==
  ASSUME NEW a \in Adapters, NEW r
  PROVE  Sound(Checks(a, r), r)
<1>1. \A n \in Needs : /\ <<n, Invalid>> \in SoundChecks(r) /\ <<n, Denied>> \in SoundChecks(r)
                      /\ <<n, Refused>> \in SoundChecks(r)
                      /\ <<n, Unreachable>> \in SoundChecks(r)
  BY SoundPairs
<1>2. /\ <<"ledger", Unknown>> \in SoundChecks(r) /\ <<"quota", Throttled>> \in SoundChecks(r)
      /\ <<"in_time", TimedOut>> \in SoundChecks(r)
  BY SoundPairs
<1>3. \A s, t : Sound(s, r) /\ Sound(t, r) => Sound(s \o t, r)
  BY SoundTogether
<1>4. Sound(CliChecks, r)
  BY <1>1, <1>2 DEF Sound, CliChecks, Needs
<1>5. Sound(ProviderChecks \o LedgerChecks \o TransportChecks, r)
  <2>1. Sound(ProviderChecks, r)
    BY <1>1, <1>2 DEF Sound, ProviderChecks, Needs
  <2>2. Sound(LedgerChecks, r)
    BY <1>1, <1>2 DEF Sound, LedgerChecks
  <2>3. Sound(TransportChecks, r)
    BY <1>1, <1>2 DEF Sound, TransportChecks, Needs
  <2> QED
    BY <1>3, <2>1, <2>2, <2>3
<1>6. Sound(McpChecks, r)
  BY <1>1, <1>2 DEF Sound, McpChecks, Needs
<1>7. Sound(McpSafetyChecks, r)
  BY <1>1, <1>2 DEF Sound, McpSafetyChecks, Needs
<1>8. Sound(PayloadChecks(r), r)
  <2>1. "action" \in Needs /\ "payload" \in Needs
    BY DEF Needs
  <2>2. ActionVerdict(r) = Invalid \/ (r.quoted = "timeout" /\ ActionVerdict(r) = TimedOut)
    BY DEF ActionVerdict
  <2>3. <<"action", ActionVerdict(r)>> \in SoundChecks(r)
    BY <1>1, <2>1, <2>2, SoundPairs
  <2>4. <<"payload", Invalid>> \in SoundChecks(r)
    BY <1>1, <2>1
  <2>5. ASSUME NEW one \in SoundChecks(r), NEW two \in SoundChecks(r)
        PROVE  <<one, two>> \in Seq(SoundChecks(r))
    OBVIOUS
  <2> QED
    BY <2>3, <2>4, <2>5 DEF Sound, PayloadChecks
<1>9. Sound(PublishStepChecks, r)
  BY <1>1, <1>2 DEF Sound, PublishStepChecks, Needs
<1>10. Sound(PublisherChecks(r), r)
  <2> DEFINE gates == <<<<"real", Invalid>>, <<"network", Denied>>>>
             step == <<<<"publish", Refused>>>>
             channel == <<<<"record", Refused>>, <<"endpoint", Denied>>,
                          <<"allowlisted", Denied>>, <<"host", Denied>>>>
  <2>1. Sound(gates, r) /\ Sound(step, r) /\ Sound(channel, r)
    BY <1>1, <1>2 DEF Sound, Needs
  <2>2. PublisherChecks(r) = gates \o PayloadChecks(r) \o step \o PublishStepChecks \o channel
    BY DEF PublisherChecks
  <2> HIDE DEF gates, step, channel
  <2> QED
    BY <1>3, <1>8, <1>9, <2>1, <2>2
<1>11. Sound(PublisherSafetyChecks(r), r)
  <2> DEFINE always == <<<<"real", Invalid>>, <<"no_network", Denied>>,
                         <<"credential", Denied>>, <<"harness", Denied>>>>
             perhaps == IF "publish" \in r.lacks THEN <<>> ELSE PublishStepChecks
  <2>1. Sound(always, r) /\ Sound(<<>>, r)
    BY <1>1, <1>2 DEF Sound, Needs
  <2>2. Sound(perhaps, r)
    BY <1>9, <2>1
  <2>3. PublisherSafetyChecks(r) = always \o PayloadChecks(r) \o perhaps
    BY DEF PublisherSafetyChecks
  <2> HIDE DEF always, perhaps
  <2> QED
    BY <1>3, <1>8, <2>1, <2>2, <2>3
<1>12. Sound(FakeProviderChecks, r)
  BY <1>1, <1>2 DEF Sound, FakeProviderChecks, Needs
<1>13. Sound(PreflightChecks, r)
  <2>1. <<"openai", Invalid>> \in SoundChecks(r)
    BY <1>1 DEF Needs
  <2> QED
    BY <1>12, <2>1 DEF Sound, PreflightChecks
<1>14. Sound(DryRunChecks, r) /\ Sound(<<>>, r)
  BY <1>1, <1>2 DEF Sound, DryRunChecks, Needs
<1> QED
  BY <1>4, <1>5, <1>6, <1>7, <1>10, <1>11, <1>12, <1>13, <1>14 DEF Checks, Adapters

(* The check that refuses the request says why, and answers as it may. *)
LEMMA RefusalsSound ==
  ASSUME NEW checks, Sound(checks, request), NEW ledger,
         NEW refusal \in Refusals(checks, ledger)
  PROVE  /\ refusal[1] \in Needs /\ refusal[2].error \in RuntimeErrors
         /\ ~ refusal[2].retryable \/ refusal[1] \in AskedAgain(request)
<1>1. PICK i \in DOMAIN checks : refusal = checks[i]
  BY DEF Refusals, FirstOf, Unmet
<1>2. refusal \in SoundChecks(request)
  BY <1>1 DEF Sound
<1>3. \/ refusal[1] \in Needs /\ refusal[2] \in FinalVerdicts
      \/ refusal[1] \in AskedAgain(request) \cap Needs /\ refusal[2] \in CheckVerdicts
  BY <1>2 DEF SoundChecks
<1>4. FinalVerdicts \subseteq CheckVerdicts
  BY DEF CheckVerdicts
<1> QED
  BY <1>3, <1>4, CheckVerdictsKnown

(* What the factory answers is a runtime, and one that leaves the process   *)
(* only where the deployment allows that kind of effect.                    *)
LEMMA RuntimeForGated ==
  ASSUME NEW p \in Policies, NEW r \in RuntimeRequests, NEW a \in RuntimeFor(p, r)
  PROVE  /\ a \in Adapters
         /\ Reach(a) # "nothing" => RealGate(p)
         /\ Reach(a) = "network" => p.network
         /\ Reach(a) = "spawn" => p.spawn
<1>1. CASE p.adapterMode = "real"
  <2>1. PICK i \in DOMAIN Preference(r) : a = Preference(r)[i] /\ FactoryAllows(p, a)
    BY <1>1 DEF RuntimeFor, FirstOf
  <2>2. Preference(r) \in Seq(Adapters)
    <3>1. /\ <<"cli", "http">> \in Seq(Adapters) /\ <<"http">> \in Seq(Adapters)
          /\ <<"mcp_safety", "mcp_real">> \in Seq(Adapters)
          /\ <<"publisher_safety", "publisher_real">> \in Seq(Adapters)
      BY DEF Adapters
    <3>2. r.type \in {"agent", "mcp", "publisher"}
      BY RuntimeAssumption
    <3> QED
      BY <3>1, <3>2, Zenon DEF Preference
  <2>3. a \in Adapters
    BY <2>1, <2>2
  <2> QED
    BY <2>1, <2>3 DEF FactoryAllows
<1>2. CASE p.adapterMode # "real"
  <2>1. a \in {"fake_provider", "provider_preflight", "dry_run", "mock"}
    BY <1>2, RuntimeAssumption DEF RuntimeFor
  <2>2. Reach(a) = "nothing"
    BY <2>1 DEF Reach
  <2> QED
    BY <2>1, <2>2 DEF Adapters
<1> QED
  BY <1>1, <1>2

LEMMA AnswersAreErrors ==
  ASSUME NEW a \in Adapters, NEW v \in Answers(a)
  PROVE  v.error \in RuntimeErrors
<1>1. \A E \in SUBSET RuntimeErrors : \A c \in Classified(E) : c.error \in RuntimeErrors
  BY DefaultVerdict DEF Classified
<1>2. /\ StatusErrors \cup {"unknown"} \in SUBSET RuntimeErrors
      /\ StatusErrors \in SUBSET RuntimeErrors
      /\ SpawnErrors \in SUBSET RuntimeErrors /\ ThrownErrors \in SUBSET RuntimeErrors
  BY DEF StatusErrors, SpawnErrors, ThrownErrors, RuntimeErrors
<1>3. Invalid.error \in RuntimeErrors /\ Refused.error \in RuntimeErrors
  BY CheckVerdictsKnown DEF CheckVerdicts, FinalVerdicts
<1>4. \A m \in MockAnswers : m.error \in RuntimeErrors
  BY <1>3 DEF MockAnswers, Verdict
<1>5. \A c \in HttpAnswers \cup PreflightAnswers \cup RemoteAnswers \cup CliAnswers
                \cup HarnessAnswers \cup FakeProviderAnswers : c.error \in RuntimeErrors
  BY <1>1, <1>2 DEF HttpAnswers, PreflightAnswers, RemoteAnswers, CliAnswers, HarnessAnswers,
                    FakeProviderAnswers
<1> HIDE DEF Classified
<1> QED
  BY <1>3, <1>4, <1>5 DEF Answers, Adapters

-----------------------------------------------------------------------------
LEMMA RuntimeInvInit == RuntimeInit => RuntimeInv
BY RuntimeAssumption DEF RuntimeInit, RuntimeInv, RuntimeTypeOK, OutsideOnlyWhenAllowed,
                         RefusalsNotRetried

(* The settlement of a failed attempt: a verdict that ends the job ends it  *)
(* at this attempt.                                                         *)
LEMMA FailKeeps ==
  ASSUME RuntimeInv, runtimeJob \in {"pending", "outside"},
         NEW n \in 1 .. MaxAttempts, attempt' = n,
         NEW verdict, verdict.error \in RuntimeErrors,
         NEW why \in Needs \cup {"factory", "answer"},
         ~ verdict.retryable \/ why = "answer" \/ why \in AskedAgain(request),
         Fail(n, verdict, why), UNCHANGED <<policy, request, effects>>
  PROVE  RuntimeInv'
<1> DEFINE new == [attempt |-> n, error |-> verdict.error, why |-> why]
<1>1. /\ runtimeJob' \in {"pending", "failed"} /\ adapter' = "none"
      /\ runtimeJob' = "pending" => n < MaxAttempts
      /\ ~ verdict.retryable => runtimeJob' = "failed"
      /\ verdicts' = verdicts \cup {new}
  BY DEF Fail
<1>2. new \in [attempt : 1 .. MaxAttempts, error : RuntimeErrors,
              why : Needs \cup {"factory", "answer"}]
  OBVIOUS
<1>3. new.attempt = n /\ new.error = verdict.error /\ new.why = why
  OBVIOUS
<1>4. RuntimeTypeOK'
  BY <1>1, <1>2, RuntimeAssumption DEF RuntimeInv, RuntimeTypeOK
<1>5. OutsideOnlyWhenAllowed'
  BY DEF RuntimeInv, OutsideOnlyWhenAllowed
<1>6. RefusalsNotRetried'
  <2> SUFFICES ASSUME NEW v \in verdicts'
               PROVE  \/ v.why = "answer" \/ v.why \in AskedAgain(request)
                      \/ v.attempt = attempt' /\ runtimeJob' = "failed"
    BY DEF RefusalsNotRetried, AskedAgain
  <2>1. CASE v \in verdicts
    BY <2>1 DEF RuntimeInv, RefusalsNotRetried, AskedAgain
  <2>2. CASE v = new
    BY <1>1, <1>3, <2>2
  <2> QED
    BY <1>1, <2>1, <2>2
<1> QED
  BY <1>1, <1>4, <1>5, <1>6 DEF RuntimeInv

(* An attempt that ends at a check is settled so. *)
LEMMA RefusedKeeps ==
  ASSUME RuntimeInv, runtimeJob = "pending", attempt + 1 \in 1 .. MaxAttempts,
         NEW checks, Sound(checks, request), NEW ledger, RefusedBy(checks, ledger)
  PROVE  RuntimeInv'
<1>1. PICK refusal \in Refusals(checks, ledger) : Fail(attempt + 1, refusal[2], refusal[1])
  BY DEF RefusedBy
<1>2. /\ refusal[1] \in Needs /\ refusal[2].error \in RuntimeErrors
      /\ ~ refusal[2].retryable \/ refusal[1] \in AskedAgain(request)
  BY RefusalsSound
<1> QED
  BY <1>1, <1>2, FailKeeps DEF RefusedBy

LEMMA RuntimeInvStep == RuntimeInv /\ [RuntimeNext]_runtimeVars => RuntimeInv'
<1> SUFFICES ASSUME RuntimeInv, [RuntimeNext]_runtimeVars PROVE RuntimeInv'
  OBVIOUS
<1>1. attempt \in 0 .. MaxAttempts /\ MaxAttempts \in Nat /\ policy \in Policies
      /\ request \in RuntimeRequests
  BY RuntimeAssumption DEF RuntimeInv, RuntimeTypeOK
<1>2. runtimeJob = "pending" => attempt + 1 \in 1 .. MaxAttempts
  BY <1>1 DEF RuntimeInv
<1>3. CASE RefuseContext
  <2>1. Sound(PreparationChecks(request), request)
    BY <1>1, RuntimeAssumption, PreparationSound
  <2> QED
    BY <1>2, <1>3, <2>1, RefusedKeeps DEF RefuseContext
<1>4. CASE NoRuntime
  <2>1. FactoryRefusal(policy) \in {Denied, Invalid}
    BY DEF FactoryRefusal
  <2>2. \A v \in {Denied, Invalid} : v.error \in RuntimeErrors /\ ~ v.retryable
    BY CheckVerdictsKnown DEF FinalVerdicts, CheckVerdicts
  <2> QED
    BY <1>2, <1>4, <2>1, <2>2, FailKeeps DEF NoRuntime
<1>5. CASE RefuseRequest
  <2>1. PICK a \in RuntimeFor(policy, request), ledger \in LedgerAnswers :
               RefusedBy(Checks(a, request), ledger)
    BY <1>5 DEF RefuseRequest
  <2>2. Sound(Checks(a, request), request)
    BY <1>1, RuntimeForGated, ChecksSound
  <2> QED
    BY <1>2, <1>5, <2>1, <2>2, RefusedKeeps DEF RefuseRequest
<1>6. CASE GoOutside
  <2>1. PICK a \in RuntimeFor(policy, request) :
          /\ adapter' = a
          /\ attempt' = attempt + 1
          /\ effects' = IF Reach(a) = "nothing" THEN effects
                        ELSE effects \cup {[attempt |-> attempt + 1, effect |-> Reach(a)]}
    BY <1>6 DEF GoOutside
  <2>2. /\ runtimeJob = "pending" /\ runtimeJob' = "outside"
        /\ UNCHANGED <<policy, request, verdicts>>
    BY <1>6 DEF GoOutside
  <2>3. /\ a \in Adapters
        /\ Reach(a) # "nothing" => RealGate(policy)
        /\ Reach(a) = "network" => policy.network
        /\ Reach(a) = "spawn" => policy.spawn
    BY <1>1, RuntimeForGated
  <2>4. Reach(a) \in {"nothing", "spawn", "network"}
    BY DEF Reach
  <2>5. RuntimeTypeOK'
    BY <1>1, <1>2, <2>1, <2>2, <2>3, <2>4 DEF RuntimeInv, RuntimeTypeOK
  <2>6. OutsideOnlyWhenAllowed'
    BY <2>1, <2>2, <2>3, <2>4 DEF RuntimeInv, OutsideOnlyWhenAllowed, RealGate
  <2>7. RefusalsNotRetried'
    BY <2>2 DEF RuntimeInv, RefusalsNotRetried
  <2> QED
    BY <1>1, <2>1, <2>2, <2>3, <2>5, <2>6, <2>7 DEF RuntimeInv
<1>7. CASE Succeed
  BY <1>7 DEF Succeed, RuntimeInv, RuntimeTypeOK, OutsideOnlyWhenAllowed, RefusalsNotRetried
<1>8. CASE FailOutside
  <2>1. PICK v \in Answers(adapter) : Fail(attempt, v, "answer")
    BY <1>8 DEF FailOutside
  <2>2. adapter \in Adapters /\ attempt \in 1 .. MaxAttempts
    BY <1>1, <1>8 DEF FailOutside, RuntimeInv
  <2>3. v.error \in RuntimeErrors
    BY <2>2, AnswersAreErrors
  <2> QED
    BY <1>8, <2>1, <2>2, <2>3, FailKeeps DEF FailOutside
<1>9. CASE UNCHANGED runtimeVars
  BY <1>9 DEF runtimeVars, RuntimeInv, RuntimeTypeOK, OutsideOnlyWhenAllowed, RefusalsNotRetried
<1> QED
  BY <1>3, <1>4, <1>5, <1>6, <1>7, <1>8, <1>9 DEF RuntimeNext

LEMMA RuntimeInvariant == RuntimeSpec => []RuntimeInv
BY RuntimeInvInit, RuntimeInvStep, PTL DEF RuntimeSpec

(* A job never passes its budget of attempts, and every failure has one of  *)
(* the classified error types.                                              *)
THEOREM RuntimeTypeCorrect == RuntimeSpec => []RuntimeTypeOK
<1>1. RuntimeInv => RuntimeTypeOK
  BY DEF RuntimeInv
<1> QED
  BY <1>1, RuntimeInvariant, PTL

(* Whatever adapters a deployment registers and whatever a job asks for,    *)
(* nothing leaves the process that the safety policy does not allow.        *)
THEOREM OutsideOnlyWhenAllowedHolds == RuntimeSpec => []OutsideOnlyWhenAllowed
<1>1. RuntimeInv => OutsideOnlyWhenAllowed
  BY DEF RuntimeInv
<1> QED
  BY <1>1, RuntimeInvariant, PTL

(* A refusal ends the job, unless the ledger refused or the refusal reads   *)
(* like a timeout: for every deployment, and requests that lack any number  *)
(* of things at once.                                                       *)
THEOREM RefusalsNotRetriedHolds == RuntimeSpec => []RefusalsNotRetried
<1>1. RuntimeInv => RefusalsNotRetried
  BY DEF RuntimeInv
<1> QED
  BY <1>1, RuntimeInvariant, PTL
=============================================================================
