------------------------------ MODULE GraphReads ------------------------------
(***************************************************************************)
(* One read of the knowledge graph while other sessions commit.            *)
(*                                                                         *)
(* OpenNodes, ReadGraph, GetNeighbors, Walk and ShortestPath              *)
(* (src/internal/database/graph.go, database.go) run no transaction: each  *)
(* builds its answer from several SELECTs, and every SELECT sees the graph *)
(* committed when it starts.  A breadth-first search therefore queries a   *)
(* different graph at each level, and entities and relations come from      *)
(* different graphs.                                                       *)
(*                                                                         *)
(* The writers are the commits of GraphStore seen from a reader.  ever and *)
(* always are history variables for the properties: the links the graph    *)
(* had at some moment of the call, and what it had at every moment.        *)
(***************************************************************************)
EXTENDS Integers, FiniteSets, Sequences

CONSTANTS Names,      \* entity names
          Linkable,   \* pairs of names a relation may join
          Starts      \* the calls: each with the graph it finds, and what the
                      \* other sessions may create and delete while it runs

VARIABLES graph,     \* what is committed: entities and links
          others,    \* the names and links the other sessions work on
          ever, always,
          read,      \* the call
          pc,        \* the statement the call runs next
          level,     \* curr / q: the nodes whose relations are queried next
          depth,     \* Walk's depth
          visited,   \* nodes reached
          parent,    \* ShortestPath's parents; the node it starts from maps to itself
          path,      \* ShortestPath's answer
          wanted,    \* names of the next GetEntities
          rows,      \* entity rows whose observations are not read yet
          ents, rels \* the answer

vars == <<graph, others, ever, always, read, pc, level, depth, visited, parent, path,
          wanted, rows, ents, rels>>
search == <<level, depth, visited, parent, path>>

Call == [op : {"open", "recent", "neighbors", "walk", "path"},
         seeds : SUBSET Names,           \* names; {from} for a path, {} if from is empty
         to : Names, dir : {"out", "in", "both"},
         depth : Nat, limit : Nat, relations : BOOLEAN]

\* The foreign keys of relations, as every commit leaves them.
WellFormed(g) == g \in [names : SUBSET Names, links : SUBSET (g.names \X g.names)]

ASSUME ReadsAssumption ==
    /\ IsFiniteSet(Names)
    /\ Linkable \subseteq Names \X Names
    /\ \A s \in Starts :
          /\ s.read \in Call /\ WellFormed(s.graph) /\ s.graph.links \subseteq Linkable
          /\ s.read.op = "path" => \A m, n \in s.read.seeds : m = n
          /\ s.others.names \subseteq Names /\ s.others.links \subseteq Linkable

TypeOK ==
    /\ WellFormed(graph)
    /\ others.names \subseteq Names /\ others.links \subseteq Linkable
    /\ ever \subseteq Linkable /\ graph.links \subseteq ever
    /\ always.links \subseteq graph.links /\ always.names \subseteq graph.names
    /\ read \in Call
    /\ pc \in {"links", "round", "answer", "obs", "touching", "done", "failed"}
    /\ level \subseteq visited /\ visited \subseteq Names /\ wanted \subseteq Names
    /\ depth \in Nat
    /\ DOMAIN parent \subseteq visited /\ parent \in [DOMAIN parent -> Names]
    /\ path \in Seq(Names)
    /\ rows \subseteq Names /\ ents \subseteq Names
    /\ rels \subseteq Names \X Names

-----------------------------------------------------------------------------
(* The other sessions.                                                     *)

Commit(g) ==
    /\ graph' = g
    /\ ever' = ever \cup g.links
    /\ always' = [names |-> always.names \cap g.names,
                  links |-> always.links \cap g.links]
    /\ UNCHANGED <<others, read, pc, search, wanted, rows, ents, rels>>

\* CreateEntities writes the row and all the observations in one transaction.
Store(n) == Commit([graph EXCEPT !.names = @ \cup {n}])

\* Mutant: the cascade reaches only the relations that start at n.
ForgetSourceLinks(n) ==
    Commit([names |-> graph.names \ {n},
            links |-> {l \in graph.links : l[1] # n}])

\* Deleting an entity takes its observations and its relations with it.
Forget(n) ==
    Commit([names |-> graph.names \ {n},
            links |-> {l \in graph.links : n \notin {l[1], l[2]}}])

Link(l) ==
    /\ {l[1], l[2]} \subseteq graph.names
    /\ Commit([graph EXCEPT !.links = @ \cup {l}])

Unlink(l) == Commit([graph EXCEPT !.links = @ \ {l}])

-----------------------------------------------------------------------------
(* The statements of a read.                                               *)

AtMost(S, k) == {T \in SUBSET S : Cardinality(T) =
                                     IF Cardinality(S) < k THEN Cardinality(S) ELSE k}

EndsOf(L) == {l[1] : l \in L} \cup {l[2] : l \in L}

\* The relations GetNeighbors selects for a list of names, without its LIMIT.
Incident(S, dir, L) ==
    {l \in L : \/ dir # "in" /\ l[1] \in S
               \/ dir # "out" /\ l[2] \in S}

\* SQL's LIMIT on the relations; 0 or less is no limit.
Limited(L, k) == IF k = 0 THEN {L} ELSE AtMost(L, k)

\* GetNeighbors on its own: the relations, then the entities at their ends.
QueryNeighbors ==
    /\ pc = "links" /\ read.op = "neighbors"
    /\ \E L \in Limited(Incident(level, read.dir, graph.links), read.limit) :
          /\ rels' = L
          /\ wanted' = level \cup EndsOf(L)
    /\ pc' = "answer"
    /\ UNCHANGED <<graph, others, ever, always, read, search, rows, ents>>

\* Mutant: a round's relations replace those of the rounds before.
QueryRoundReplacing ==
    /\ pc = "links" /\ read.op = "walk"
    /\ LET L == Incident(level, read.dir, graph.links) IN
          /\ rels' = L
          /\ wanted' = level \cup EndsOf(L)
    /\ pc' = "round"
    /\ UNCHANGED <<graph, others, ever, always, read, search, rows, ents>>

\* A round of Walk begins with GetNeighbors' relations ...
QueryRound ==
    /\ pc = "links" /\ read.op = "walk"
    /\ LET L == Incident(level, read.dir, graph.links) IN
          /\ rels' = rels \cup L
          /\ wanted' = level \cup EndsOf(L)
    /\ pc' = "round"
    /\ UNCHANGED <<graph, others, ever, always, read, search, rows, ents>>

MaxDepth == IF read.depth = 0 THEN 1 ELSE read.depth

\* Mutant: the break leaves the wrong loop and a round adds all it found.
AddedAll(fresh) == {fresh}

\* The entities a round adds.  The limit is looked at after an entity is
\* added, so a round with anything new adds at least one.
Added(fresh) ==
    IF read.limit = 0 THEN {fresh}
    ELSE LET room == read.limit - Cardinality(visited)
         IN AtMost(fresh, IF room < 1 THEN 1 ELSE room)

\* Mutant: one round too many.
GoesOnLong(N, V, d) ==
    /\ d <= MaxDepth /\ N # {}
    /\ read.limit = 0 \/ Cardinality(V) < read.limit

\* Whether the walk takes another round after reaching V, with N new.
GoesOn(N, V, d) ==
    /\ d < MaxDepth /\ N # {}
    /\ read.limit = 0 \/ Cardinality(V) < read.limit

\* ... and goes on with the entities found.  Their observations are read too
\* and thrown away: that can only make the call fail.
EndRound ==
    /\ pc = "round"
    /\ \E N \in Added((wanted \cap graph.names) \ visited) :
          /\ level' = N
          /\ visited' = visited \cup N
          /\ depth' = depth + 1
          /\ IF GoesOn(N, visited', depth')
             THEN pc' = "links" /\ UNCHANGED wanted
             ELSE pc' = "answer" /\ wanted' = visited'
    /\ UNCHANGED <<graph, others, ever, always, read, parent, path, rows, ents, rels>>

\* A step of the search from u to v along a relation of L.
Hop(u, v, dir, L) ==
    \/ dir # "in" /\ <<u, v>> \in L
    \/ dir # "out" /\ <<v, u>> \in L

\* Mutant: nodes already visited are taken again.
FreshAgain == {v \in Names : \E u \in level : Hop(u, v, read.dir, graph.links)}

\* Mutant: every relation is followed from its source only.
FreshForward == {v \in Names \ visited : \E u \in level : <<u, v>> \in graph.links}

Fresh == {v \in Names \ visited : \E u \in level : Hop(u, v, read.dir, graph.links)}

\* Mutant: next is overwritten instead of appended to.
NextLevelsLast(fresh) == IF fresh = {} THEN {{}} ELSE {{v} : v \in fresh}

\* The level after this one: every node found.
NextLevels(fresh) == {fresh}

\* The path that the parents record, from the start of the search to v.
PathTo(par, start, v) ==
    LET upTo[n \in DOMAIN par] == IF n = start THEN <<n>> ELSE Append(upTo[par[n]], n)
    IN upTo[v]

\* A level of ShortestPath.  The parent of a node is the end of whichever
\* relation came first.  GetNeighbors also fetches the entities, unused.
SearchLevel ==
    /\ pc = "links" /\ read.op = "path"
    /\ \E par \in [Fresh -> level] :
          /\ \A v \in Fresh : Hop(par[v], v, read.dir, graph.links)
          /\ parent' = [v \in DOMAIN parent \cup Fresh |->
                           IF v \in Fresh THEN par[v] ELSE parent[v]]
    /\ visited' = visited \cup Fresh
    /\ \E next \in NextLevels(Fresh) : level' = next
    /\ IF read.to \in Fresh
       THEN \E start \in read.seeds :
              /\ path' = PathTo(parent', start, read.to)
              /\ wanted' = {path'[i] : i \in 1..Len(path')}
              /\ rels' = {<<path'[i], path'[i + 1]>> : i \in 1..(Len(path') - 1)}
              /\ pc' = "answer"
       ELSE /\ pc' = IF level' = {} THEN "done" ELSE "links"
            /\ UNCHANGED <<path, wanted, rels>>
    /\ UNCHANGED <<graph, others, ever, always, read, depth, rows, ents>>

\* The rows of GetEntities, or GetRecentEntities' newest rows up to its limit:
\* creation times are not modelled, so any rows may be the newest.
QueryRows ==
    /\ pc = "answer"
    /\ rows' \in IF read.op = "recent"
                 THEN AtMost(graph.names, IF read.limit = 0 THEN 10 ELSE read.limit)
                 ELSE {wanted \cap graph.names}
    /\ pc' = "obs"
    /\ UNCHANGED <<graph, others, ever, always, read, search, wanted, ents, rels>>

\* getEntityObservations for one row of the result, whatever it finds.
QueryObservations ==
    /\ pc = "obs"
    /\ \E n \in rows : rows' = rows \ {n} /\ ents' = ents \cup {n}
    /\ UNCHANGED <<graph, others, ever, always, read, pc, search, wanted, rels>>

\* GetRecentEntities logs an entity whose observations it cannot read and goes on.
SkipEntity ==
    /\ pc = "obs" /\ read.op = "recent"
    /\ \E n \in rows : rows' = rows \ {n}
    /\ UNCHANGED <<graph, others, ever, always, read, pc, search, wanted, ents, rels>>

EndRows ==
    /\ pc = "obs" /\ rows = {}
    /\ pc' = IF read.op \in {"open", "recent"} /\ read.relations /\ ents # {}
             THEN "touching" ELSE "done"
    /\ UNCHANGED <<graph, others, ever, always, read, search, wanted, rows, ents, rels>>

\* Mutant: the relations that start at one of the entities.
QueryRelationsOut ==
    /\ pc = "touching"
    /\ rels' = Incident(ents, "out", graph.links)
    /\ pc' = "done"
    /\ UNCHANGED <<graph, others, ever, always, read, search, wanted, rows, ents>>

\* GetRelationsForEntities: every relation with an end among the entities.
QueryRelations ==
    /\ pc = "touching"
    /\ rels' = Incident(ents, "both", graph.links)
    /\ pc' = "done"
    /\ UNCHANGED <<graph, others, ever, always, read, search, wanted, rows, ents>>

\* Any statement may fail; the error is the whole answer.
Fail ==
    /\ pc \in {"links", "round", "answer", "obs", "touching"}
    /\ pc' = "failed"
    /\ ents' = {} /\ rels' = {} /\ path' = <<>>
    /\ UNCHANGED <<graph, others, ever, always, read, level, depth, visited, parent, wanted, rows>>

-----------------------------------------------------------------------------

\* An empty list of names or a path to its own start is answered at once.
FirstStatement(r) ==
    IF r.op = "recent" THEN "answer"
    ELSE IF r.seeds = {} \/ (r.op = "path" /\ r.to \in r.seeds) THEN "done"
    ELSE IF r.op = "open" THEN "answer" ELSE "links"

Init ==
    /\ \E start \in Starts :
          graph = start.graph /\ read = start.read /\ others = start.others
    /\ ever = graph.links
    /\ always = graph
    /\ pc = FirstStatement(read)
    /\ level = read.seeds /\ visited = read.seeds /\ wanted = read.seeds
    /\ depth = 0
    /\ parent = [n \in read.seeds |-> n]
    /\ path = <<>> /\ rows = {} /\ ents = {} /\ rels = {}

Step == \/ QueryNeighbors \/ QueryRound \/ EndRound \/ SearchLevel \/ QueryRows
        \/ QueryObservations \/ SkipEntity \/ EndRows \/ QueryRelations

Others == \/ \E n \in others.names : Store(n) \/ Forget(n)
          \/ \E l \in others.links : Link(l) \/ Unlink(l)

\* An answered call stops.
Next == pc \notin {"done", "failed"} /\ (Step \/ Fail \/ Others)

\* Every statement returns; nothing is asked of the other sessions, and none need fail.
Spec == Init /\ [][Next]_vars /\ WF_vars(Step)

-----------------------------------------------------------------------------
(* Properties.                                                             *)

\* The nodes within d hops of S, by the definition of distance.
Ball(S, dir, d, L) ==
    LET within[i \in 0..d] ==
          IF i = 0 THEN S
          ELSE within[i - 1] \cup
               {v \in Names : \E u \in within[i - 1] : Hop(u, v, dir, L)}
    IN within[d]

\* How far from the names it is given a call looks.
Radius == CASE read.op = "open" -> 0 [] read.op = "neighbors" -> 1 [] OTHER -> MaxDepth

Expands == pc = "done" /\ read.op \in {"open", "neighbors", "walk"} /\ read.limit = 0

\* OpenNodes, GetNeighbors and Walk return every entity that stayed within
\* their radius of the seeds throughout the call and none that never was:
\* exactly the ball when nothing commits meanwhile.
AnswerIsBall ==
    Expands =>
       /\ Ball(read.seeds, read.dir, Radius, always.links) \cap always.names \subseteq ents
       /\ ents \subseteq Ball(read.seeds, read.dir, Radius, ever)

\* The relations they return: all that stayed incident, in the call's
\* direction, to a node short of the radius, and no others.  (OpenNodes takes
\* the relations of the entities themselves, in either direction.)
RelationsAreIncident ==
    Expands /\ read.relations =>
       LET Inner(L) == Ball(read.seeds, read.dir, IF Radius = 0 THEN 0 ELSE Radius - 1, L)
           dir == IF read.op = "open" THEN "both" ELSE read.dir
       IN /\ Incident(Inner(always.links), dir, always.links) \subseteq rels
          /\ rels \subseteq Incident(Inner(ever), dir, ever)

\* What Walk's limit bounds: the entities, except that the seeds all count
\* and the first round adds one entity before it looks at the limit.
WalkStopsAtLimit ==
    (read.op = "walk" /\ read.limit > 0) =>
       Cardinality(visited) <=
          IF Cardinality(read.seeds) < read.limit THEN read.limit
          ELSE Cardinality(read.seeds) + 1

\* ShortestPath: every hop it reports was a relation at some moment of the
\* call, and the path is no longer than any that was there all the time; "no
\* path" only if none was.
PathIsShortest ==
    (pc \in {"answer", "done"} /\ read.op = "path" /\ read.to \notin read.seeds) =>
       /\ path # <<>> =>
             /\ path[1] \in read.seeds /\ path[Len(path)] = read.to
             /\ \A i \in 1..(Len(path) - 1) : Hop(path[i], path[i + 1], read.dir, ever)
       /\ \A k \in 1..Cardinality(Names) :
             read.to \in Ball(read.seeds, read.dir, k, always.links) =>
                path # <<>> /\ Len(path) - 1 <= k

\* The parts of an answer that are read apart.  ReadGraph reads its entities
\* first: its relations are those that kept an end among them, and none that
\* never was there.  ShortestPath reads the entities of its path last: the
\* answer has each that was there all along, and no other entity.
AnswerHangsTogether ==
    pc = "done" =>
       /\ read.op = "recent" /\ read.relations =>
             /\ Incident(ents, "both", always.links) \subseteq rels
             /\ rels \subseteq Incident(ents, "both", ever)
       /\ read.op = "path" =>
             LET nodes == {path[i] : i \in 1..Len(path)}
             IN nodes \cap always.names \subseteq ents /\ ents \subseteq nodes

\* A call ends, whatever the other sessions commit and however long they do.
ReadEnds == <>(pc \in {"done", "failed"})
=============================================================================
