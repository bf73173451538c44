--------------------------- MODULE KnowledgeGraph ---------------------------
(***************************************************************************)
(* What the store promises its callers, without tables, transactions or    *)
(* locks: a graph of entities with a type and numbered observations, and   *)
(* a bag of typed links.  A call takes effect whole, at one instant        *)
(* between its start and its answer, and an answer "ok" says that it did;  *)
(* a call answered "error" had no effect.  Two exceptions are part of the  *)
(* promise: CreateEntities stores its entities one by one, and where a     *)
(* remote server's answer can be lost an "error" may follow an effect.     *)
(***************************************************************************)
EXTENDS Integers, Sequences, BagsExt, FiniteSets

CONSTANTS Clients, Requests, NoCall, Text, Empty, Trim, LostAcks

VARIABLES
    type,      \* the type of each entity: its domain is the set of entities
    notes,     \* the observations of each entity, as [id, content]: a later one has a larger id
    lastNote,  \* the last observation id given out
    links,     \* bag of [source, target, type]
    caller     \* per client: its call, how many entities of it are stored, the last answer

graphVars == <<type, notes, lastNote, links>>
vars == <<graphVars, caller>>

Graph == [type |-> type, notes |-> notes, lastNote |-> lastNote, links |-> links]

Become(g) ==
    /\ type' = g.type
    /\ notes' = g.notes
    /\ lastNote' = g.lastNote
    /\ links' = g.links

Resting(a, n) == [req |-> NoCall, done |-> 0, answer |-> a, count |-> n]

Init ==
    /\ type = <<>> /\ notes = <<>> /\ lastNote = 0 /\ links = <<>>
    /\ caller = [c \in Clients |-> Resting("none", 0)]

IsBlank(t) == Trim[t] = Empty
Known(g, n) == n \in DOMAIN g.type
Drop(f, S) == [x \in DOMAIN f \ S |-> f[x]]
Put(f, x, v) == [y \in DOMAIN f \cup {x} |-> IF y = x THEN v ELSE f[y]]
Elements(s) == {s[i] : i \in DOMAIN s}

\* s without its blank texts.
NonBlank(s) ==
    LET kept[i \in 0..Len(s)] ==
            IF i = 0 THEN <<>>
            ELSE IF IsBlank(s[i]) THEN kept[i - 1] ELSE Append(kept[i - 1], s[i])
    IN  kept[Len(s)]

-----------------------------------------------------------------------------
(* the effect of each call on a graph; Undefined when the call must be refused *)

Undefined == [undefined |-> TRUE]

\* The contents are numbered on from the last observation noted, in order.
Noted(g, n, contents) ==
    IF contents = <<>> THEN g
    ELSE [g EXCEPT !.notes = Put(@, n, @[n] \cup {[id |-> g.lastNote + i, content |-> contents[i]]
                                                     : i \in DOMAIN contents}),
                   !.lastNote = @ + Len(contents)]

\* Entity e replaces what was known of it; its links stay.
Stored(g, e) ==
    IF IsBlank(e.name) \/ IsBlank(e.type) \/ e.obs = <<>> \/ Empty \in Elements(e.obs)
    THEN Undefined
    ELSE Noted([g EXCEPT !.type = Put(@, e.name, e.type), !.notes = Put(@, e.name, {})],
                 e.name, e.obs)

Updated(g, u) ==
    IF ~Known(g, u.name) THEN Undefined
    ELSE LET typed == IF u.type = Empty THEN g ELSE [g EXCEPT !.type = Put(@, u.name, u.type)]
             clear == IF u.replace = <<>> THEN typed ELSE [typed EXCEPT !.notes = Put(@, u.name, {})]
         IN  Noted(clear, u.name, NonBlank(u.replace) \o NonBlank(u.merge))

Forgotten(g, names) ==
    [g EXCEPT !.type = Drop(@, names), !.notes = Drop(@, names),
              !.links = Drop(@, {t \in DOMAIN @ : {t.source, t.target} \cap names # {}})]

Linked(g, t) ==
    IF Known(g, t.source) /\ Known(g, t.target) /\ t.type # Empty
    THEN [g EXCEPT !.links = BagAdd(@, t)] ELSE Undefined

Unlinked(g, t) == [g EXCEPT !.links = BagRemoveAll(@, t)]

Relinked(g, u) ==
    LET new(a, b) == IF IsBlank(b) THEN Trim[a] ELSE Trim[b]
    IN  Linked(Unlinked(g, [source |-> u.source, target |-> u.target, type |-> u.type]),
               [source |-> new(u.source, u.newSource), target |-> new(u.target, u.newTarget),
                type |-> new(u.type, u.newType)])

Pruned(g, r) ==
    LET all == r.ids = <<>> /\ r.contents = <<>>
        gone == {o \in g.notes[r.name] :
                    all \/ o.id \in Elements(r.ids) \/ o.content \in Elements(r.contents)}
    IN  IF Known(g, r.name) THEN [g EXCEPT !.notes = Put(@, r.name, @[r.name] \ gone)] ELSE g

\* The batches: the items of a call, and the effect of its k-th item.
BatchOps == {"UpdateEntities", "CreateRelations", "UpdateRelations", "DeleteRelations"}

Items(r) ==
    CASE r.op = "UpdateEntities" -> r.updates
      [] r.op = "UpdateRelations" -> r.changes
      [] r.op \in {"CreateRelations", "DeleteRelations"} -> r.relations

Part(g, r, k) ==
    CASE r.op = "UpdateEntities" -> Updated(g, r.updates[k])
      [] r.op = "CreateRelations" -> Linked(g, r.relations[k])
      [] r.op = "UpdateRelations" -> Relinked(g, r.changes[k])
      [] r.op = "DeleteRelations" -> Unlinked(g, r.relations[k])

\* The graph after each of the first items, as long as none is refused.
Stages(g, r) ==
    LET after[k \in 0..Len(Items(r))] ==
            IF k = 0 THEN g
            ELSE IF after[k - 1] = Undefined THEN Undefined ELSE Part(after[k - 1], r, k)
    IN  after

\* A batch is its items in order, or nothing at all.
Batch(g, r) == Stages(g, r)[Len(Items(r))]

\* A batch of updates that ask for no change promises nothing of its entities.
AsksNothing(u) == u.type = Empty /\ u.replace = <<>> /\ NonBlank(u.merge) = <<>>
IsIdle(r) == r.op = "UpdateEntities" /\ \A u \in Elements(r.updates) : AsksNothing(u)

Effect(g, r) ==
    CASE r.op \in BatchOps -> IF IsIdle(r) THEN g ELSE Batch(g, r)
      [] r.op = "DeleteEntity" -> Forgotten(g, {r.name})
      [] r.op = "DeleteEntities" -> Forgotten(g, Elements(r.names))
      [] r.op = "AddObservations" ->
            IF NonBlank(r.obs) # <<>> /\ ~Known(g, r.name) THEN Undefined
            ELSE Noted(g, r.name, NonBlank(r.obs))
      [] r.op = "DeleteObservations" -> Pruned(g, r)
      [] r.op = "DeleteRelation" -> IF r.tuple \in DOMAIN g.links THEN Unlinked(g, r.tuple) ELSE Undefined

\* The number DeleteObservations answers: how many observations are gone.
NotesGone(g, h, r) ==
    IF r.op = "DeleteObservations" /\ Known(g, r.name)
    THEN Cardinality(g.notes[r.name]) - Cardinality(h.notes[r.name]) ELSE 0

-----------------------------------------------------------------------------

Answers == {"ok"} \cup (IF LostAcks THEN {"error"} ELSE {})

Rest(c, a, n) == caller' = [caller EXCEPT ![c] = Resting(a, IF a = "ok" THEN n ELSE 0)]

Call(c) ==
    /\ caller[c].req = NoCall
    /\ \E r \in Requests : caller' = [caller EXCEPT ![c] = [Resting("none", 0) EXCEPT !.req = r]]
    /\ UNCHANGED graphVars

Perform(c) ==
    LET r == caller[c].req
    IN  /\ r # NoCall /\ r.op # "CreateEntities"
        /\ LET g == Effect(Graph, r)
           IN  /\ g # Undefined
               /\ Become(g)
               /\ \E a \in Answers : Rest(c, a, NotesGone(Graph, g, r))

StoreNext(c) ==
    LET r == caller[c].req k == caller[c].done + 1
    IN  /\ r # NoCall /\ r.op = "CreateEntities" /\ k <= Len(r.entities)
        /\ Stored(Graph, r.entities[k]) # Undefined
        /\ Become(Stored(Graph, r.entities[k]))
        /\ \/ caller' = [caller EXCEPT ![c].done = k]
           \/ LostAcks /\ Rest(c, "error", 0)

AllStored(c) ==
    LET r == caller[c].req
    IN  /\ r # NoCall /\ r.op = "CreateEntities" /\ caller[c].done = Len(r.entities)
        /\ Rest(c, "ok", 0)
        /\ UNCHANGED graphVars

GiveUp(c) ==
    /\ caller[c].req # NoCall
    /\ Rest(c, "error", 0)
    /\ UNCHANGED graphVars

Restart ==
    /\ caller' = [c \in Clients |-> Resting("none", 0)]
    /\ UNCHANGED graphVars

Next == Restart \/ \E c \in Clients : Call(c) \/ Perform(c) \/ StoreNext(c) \/ AllStored(c) \/ GiveUp(c)

Spec == Init /\ [][Next]_vars

=============================================================================
