----------------------------- MODULE GraphStore -----------------------------
(***************************************************************************)
(* The mutating operations of DBManager on the database of one project, as *)
(* the tool handlers run them: one goroutine per call, each call a series  *)
(* of statements, most of them inside a transaction.  A step is one round  *)
(* of a call's loop (the statements for one item or one chunk), a COMMIT,  *)
(* or a statement outside a transaction.                                   *)
(*                                                                         *)
(* SQLite is modelled by its contract.  A transaction reads the database   *)
(* as it was at its first statement and works on a copy of its own, its    *)
(* view; it takes the write lock with its first write, which SQLite        *)
(* refuses when another transaction holds the lock or has committed since  *)
(* the view was taken; COMMIT makes the view the database.                 *)
(***************************************************************************)
EXTENDS GraphTables

CONSTANTS
    Clients,      \* the goroutines that serve calls
    Requests,     \* the calls they may be given
    NoCall,       \* no call in progress
    Nobody,       \* the write lock is free
    MaxParams,    \* maxParams: bound variables per statement (500 in the code)
    Faults,       \* may a statement fail (I/O, embeddings provider, cancelled context)?
    LostAcks,     \* may a commit take effect on a remote server and be reported as failed?
    MaxRows       \* bound of the model: no growing call is issued beyond that many rows

VARIABLES
    db,           \* the committed tables
    writer,       \* the client whose transaction holds the write lock
    session       \* what each client is doing

vars == <<db, writer, session>>

EntitySpec     == [name : Text, type : Text, obs : Seq(Text)]
EntityUpdate   == [name : Text, type : Text, replace : Seq(Text), merge : Seq(Text)]
RelationChange == [source : Text, target : Text, type : Text,
                   newSource : Text, newTarget : Text, newType : Text]

Request ==
    [op : {"CreateEntities"}, entities : Seq(EntitySpec)]
    \cup [op : {"UpdateEntities"}, updates : Seq(EntityUpdate)]
    \cup [op : {"DeleteEntity"}, name : Text]
    \cup [op : {"DeleteEntities"}, names : Seq(Text)]
    \cup [op : {"AddObservations"}, name : Text, obs : Seq(Text)]
    \cup [op : {"DeleteObservations"}, name : Text, ids : Seq(Nat), contents : Seq(Text)]
    \cup [op : {"CreateRelations", "DeleteRelations"}, relations : Seq(RelationTuple)]
    \cup [op : {"DeleteRelation"}, tuple : RelationTuple]
    \cup [op : {"UpdateRelations"}, changes : Seq(RelationChange)]

ASSUME RequestsAssumption == Requests \subseteq Request /\ NoCall \notin Request
ASSUME ClientsAssumption  == Nobody \notin Clients
ASSUME BoundsAssumption   == MaxParams \in Nat \ {0} /\ MaxRows \in Nat
ASSUME FailureAssumption  == Faults \in BOOLEAN /\ LostAcks \in BOOLEAN

\* next is the loop index of the call; view is the transaction's, NoRows outside one.
Session == [pc : {"idle", "start", "checked", "tx"}, req : Requests \cup {NoCall},
            next : Nat \ {0}, view : Tables, count : Nat, answer : {"none", "ok", "error"}]

Answered(a, n) == [pc |-> "idle", req |-> NoCall, next |-> 1, view |-> NoRows,
                   count |-> n, answer |-> a]

Init ==
    /\ db = NoRows
    /\ writer = Nobody
    /\ session = [c \in Clients |-> Answered("none", 0)]

-----------------------------------------------------------------------------
(* transactions *)

Req(c) == session[c].req
Pos(c) == session[c].next

Busy(c) == session[c].pc # "idle"
At(c, op, pcs) == session[c].pc \in pcs /\ Req(c).op = op

\* What the next statement of c sees.
View(c) == IF session[c].pc = "tx" THEN session[c].view ELSE db

MayWrite(c) == writer = c \/ (writer = Nobody /\ View(c) = db)

Unlocked(c) == IF writer = c THEN Nobody ELSE writer

\* The statements of one round wrote g inside c's transaction and counted n rows.
Write(c, g, k, n) ==
    /\ MayWrite(c)
    /\ writer' = c
    /\ session' = [session EXCEPT ![c].pc = "tx", ![c].next = k, ![c].view = g,
                                  ![c].count = n]
    /\ UNCHANGED db

\* A round that only read: the transaction is open, without the write lock.
ReadOnly(c, k) ==
    /\ session' = [session EXCEPT ![c].pc = "tx", ![c].next = k, ![c].view = View(c)]
    /\ UNCHANGED <<db, writer>>

\* A statement outside a transaction: taken and committed at once.
AutoCommit(g) == writer = Nobody /\ db' = g /\ UNCHANGED writer

Commit(c) ==
    /\ db' = IF writer = c THEN session[c].view ELSE db
    /\ writer' = Unlocked(c)

\* How the caller hears of a commit that took effect.
CommitAnswers == {"ok"} \cup (IF LostAcks THEN {"error"} ELSE {})

Answer(c, a, n) == session' = [session EXCEPT ![c] = Answered(a, IF a = "ok" THEN n ELSE 0)]

\* Mutants: an error return that forgets the Rollback, and one that commits.
FailWithoutRollback(c) == Answer(c, "error", 0) /\ UNCHANGED <<db, writer>>
FailCommitting(c) == Answer(c, "error", 0) /\ Commit(c)

\* An error return: the deferred Rollback drops the view and frees the lock.
Fail(c) ==
    /\ Answer(c, "error", 0)
    /\ writer' = Unlocked(c)
    /\ UNCHANGED db

-----------------------------------------------------------------------------
(* calls *)

GrowingOps == {"CreateEntities", "UpdateEntities", "AddObservations",
               "CreateRelations", "UpdateRelations"}

Invoke(c) ==
    /\ ~Busy(c)
    /\ \E r \in Requests :
        /\ r.op \in GrowingOps => db.obsSeq + db.relSeq < MaxRows
        /\ session' = [session EXCEPT ![c] = [Answered("none", 0) EXCEPT !.pc = "start", !.req = r]]
    /\ UNCHANGED <<db, writer>>

BatchOps == {"UpdateEntities", "DeleteEntities", "CreateRelations", "UpdateRelations",
             "DeleteRelations"}

\* Number of rounds of a call's loop: what follows them is the commit.
Rounds(r) ==
    CASE r.op = "CreateEntities" -> Len(r.entities)
      [] r.op = "UpdateEntities" -> Len(r.updates)
      [] r.op = "DeleteEntities" -> Len(r.names)
      [] r.op \in {"CreateRelations", "DeleteRelations"} -> Len(r.relations)
      [] r.op = "UpdateRelations" -> Len(r.changes)
      [] r.op = "AddObservations" -> IF r.obs = <<>> THEN 0 ELSE 1
      [] r.op = "DeleteObservations" ->
            IF r.ids = <<>> /\ r.contents = <<>> THEN 1 ELSE Len(r.ids) + Len(r.contents)
      [] r.op \in {"DeleteEntity", "DeleteRelation"} -> 1

\* An empty batch: nothing to do, no transaction.
EmptyBatch(c) ==
    /\ session[c].pc = "start"
    /\ \/ Req(c).op \in BatchOps
       \/ Req(c).op = "AddObservations" /\ ~IsBlank(Req(c).name)
    /\ Rounds(Req(c)) = 0
    /\ Answer(c, "ok", 0)
    /\ UNCHANGED <<db, writer>>

CommitBatch(c) ==
    /\ session[c].pc = "tx"
    /\ Req(c).op \in BatchOps \cup {"AddObservations", "DeleteObservations"}
    /\ Pos(c) > Rounds(Req(c))
    /\ Commit(c)
    /\ \E a \in CommitAnswers : Answer(c, a, session[c].count)

-----------------------------------------------------------------------------
(* CreateEntities: a transaction for each entity, so a failure at one entity *)
(* leaves the ones before it in place                                        *)

CreateAllowed(e) == ~IsBlank(e.name) /\ ~IsBlank(e.type) /\ e.obs # <<>>

HasEmpty(obs) == \E i \in DOMAIN obs : obs[i] = Empty

\* Those inserted before an empty one, which is found only then, is met.
BeforeEmpty(obs) == {i \in DOMAIN obs : \A j \in 1..i : obs[j] # Empty}

\* Mutant: the old observations are kept.
CreatedEntityAppending(g, e) ==
    InsertObservations(UpsertEntity(g, e.name, e.type), e.name, e.obs, BeforeEmpty(e.obs))

CreatedEntity(g, e) ==
    InsertObservations(ClearObservations(UpsertEntity(g, e.name, e.type), e.name), e.name, e.obs, BeforeEmpty(e.obs))

CreateEntity(c) ==
    /\ At(c, "CreateEntities", {"start"})
    /\ Pos(c) <= Len(Req(c).entities)
    /\ LET e == Req(c).entities[Pos(c)]
       IN  CreateAllowed(e) /\ Write(c, CreatedEntity(View(c), e), Pos(c), 0)

CommitEntity(c) ==
    /\ At(c, "CreateEntities", {"tx"})
    /\ ~HasEmpty(Req(c).entities[Pos(c)].obs)
    /\ Commit(c)
    /\ \E a \in CommitAnswers :
        IF a = "ok"
        THEN session' = [session EXCEPT ![c].pc = "start", ![c].next = Pos(c) + 1, ![c].view = NoRows]
        ELSE Answer(c, "error", 0)

EndCreateEntities(c) ==
    /\ At(c, "CreateEntities", {"start"})
    /\ Pos(c) > Len(Req(c).entities)
    /\ Answer(c, "ok", 0)
    /\ UNCHANGED <<db, writer>>

-----------------------------------------------------------------------------
(* UpdateEntities: one transaction for the batch *)

UpdateAllowed(g, u) == ~IsBlank(u.name) /\ Exists(g, u.name)

UpdateWrites(u) == u.type # Empty \/ u.replace # <<>> \/ NonBlank(u.merge) # {}

UpdatedEntity(g, u) ==
    LET typed    == IF u.type = Empty THEN g ELSE SetType(g, u.name, u.type)
        replaced == IF u.replace = <<>> THEN typed
                    ELSE InsertObservations(ClearObservations(typed, u.name), u.name, u.replace, NonBlank(u.replace))
    IN  InsertObservations(replaced, u.name, u.merge, NonBlank(u.merge))

UpdateEntity(c) ==
    /\ At(c, "UpdateEntities", {"start", "tx"})
    /\ Pos(c) <= Len(Req(c).updates)
    /\ LET u == Req(c).updates[Pos(c)]
       IN  /\ UpdateAllowed(View(c), u)
           /\ IF UpdateWrites(u) THEN Write(c, UpdatedEntity(View(c), u), Pos(c) + 1, 0)
                                 ELSE ReadOnly(c, Pos(c) + 1)

-----------------------------------------------------------------------------
(* AddObservations: the entity is looked up before the transaction begins *)

LookupForAdd(c) ==
    /\ At(c, "AddObservations", {"start"})
    /\ ~IsBlank(Req(c).name) /\ Req(c).obs # <<>>
    /\ Exists(db, Req(c).name)
    /\ session' = [session EXCEPT ![c].pc = "checked"]
    /\ UNCHANGED <<db, writer>>

AddObservations(c) ==
    /\ At(c, "AddObservations", {"checked"})
    /\ LET r == Req(c) new == NonBlank(r.obs)
       IN  /\ InsertObservationsAllowed(db, r.name, new)
           /\ IF new = {} THEN ReadOnly(c, Pos(c) + 1)
                          ELSE Write(c, InsertObservations(db, r.name, r.obs, new), Pos(c) + 1, 0)

-----------------------------------------------------------------------------
(* DeleteEntity: a lookup, then one DELETE, neither in a transaction *)

LookupForDelete(c) ==
    /\ At(c, "DeleteEntity", {"start"})
    /\ Req(c).name # Empty
    /\ Exists(db, Req(c).name)
    /\ session' = [session EXCEPT ![c].pc = "checked"]
    /\ UNCHANGED <<db, writer>>

DeleteEntity(c) ==
    /\ At(c, "DeleteEntity", {"checked"})
    /\ DeleteEntitiesAllowed(db, {Req(c).name})
    /\ AutoCommit(DeleteEntityRows(db, {Req(c).name}))
    /\ \E a \in CommitAnswers : Answer(c, a, 0)

\* Mutant: a chunk ends one short.
ChunkShort(s, k) == {s[j] : j \in {i \in k..Len(s) : i < k + MaxParams - 1}}

\* The values of one chunk: at most MaxParams of s from position k on.
Chunk(s, k) == {s[j] : j \in {i \in k..Len(s) : i < k + MaxParams}}

DeleteEntities(c) ==
    /\ At(c, "DeleteEntities", {"start", "tx"})
    /\ Pos(c) <= Len(Req(c).names)
    /\ LET names == Chunk(Req(c).names, Pos(c))
       IN  /\ DeleteEntitiesAllowed(View(c), names)
           /\ Write(c, DeleteEntityRows(View(c), names), Pos(c) + MaxParams, 0)

-----------------------------------------------------------------------------
(* DeleteObservations: all of an entity's, or chunks of ids, then of contents *)

\* Mutant: the rows after less the rows before.
RowsGoneReversed(g, h) == Cardinality(h.observations) - Cardinality(g.observations)

\* RowsAffected of a DELETE that took observations from g to h.
RowsGone(g, h) == Cardinality(g.observations \ h.observations)

DeleteAllObservations(c) ==
    /\ At(c, "DeleteObservations", {"start"})
    /\ ~IsBlank(Req(c).name)
    /\ Req(c).ids = <<>> /\ Req(c).contents = <<>>
    /\ LET left == ClearObservations(db, Req(c).name)
       IN  /\ AutoCommit(left)
           /\ \E a \in CommitAnswers : Answer(c, a, RowsGone(db, left))

\* The statements of one chunk deleted the rows in View(c) but not in left.
DeletedChunk(c, left, k) ==
    Write(c, left, k, session[c].count + RowsGone(View(c), left))

DeleteIdChunk(c) ==
    /\ At(c, "DeleteObservations", {"start", "tx"})
    /\ ~IsBlank(Req(c).name)
    /\ LET r == Req(c) k == Pos(c)
       IN  /\ k <= Len(r.ids)
           /\ DeletedChunk(c, DeleteObservationsById(View(c), r.name, Chunk(r.ids, k)),
                           IF k + MaxParams > Len(r.ids) THEN Len(r.ids) + 1 ELSE k + MaxParams)

\* Deletes by content; when that statement fails, by the ids of the rows with
\* those contents, which are the same rows.
DeleteContentChunk(c) ==
    /\ At(c, "DeleteObservations", {"start", "tx"})
    /\ ~IsBlank(Req(c).name)
    /\ LET r == Req(c) k == Pos(c) - Len(r.ids)
       IN  /\ k \in 1..Len(r.contents)
           /\ DeletedChunk(c, DeleteObservationsByContent(View(c), r.name, Chunk(r.contents, k)),
                           Pos(c) + MaxParams)

-----------------------------------------------------------------------------
(* relations *)

HasEmptyField(t) == Empty \in {t.source, t.target, t.type}

CreateRelationAllowed(g, t) == ~HasEmptyField(t) /\ InsertRelationAllowed(g, t)

CreateRelation(c) ==
    /\ At(c, "CreateRelations", {"start", "tx"})
    /\ Pos(c) <= Len(Req(c).relations)
    /\ LET t == Req(c).relations[Pos(c)]
       IN  /\ CreateRelationAllowed(View(c), t)
           /\ Write(c, InsertRelation(View(c), t), Pos(c) + 1, 0)

\* A new field that is blank keeps the old value; both are trimmed.
Changed(old, new) == IF IsBlank(new) THEN Trim[old] ELSE Trim[new]

NewTuple(u) == [source |-> Changed(u.source, u.newSource),
                target |-> Changed(u.target, u.newTarget),
                type   |-> Changed(u.type, u.newType)]

\* Mutant: only the new source is looked up.
UpdateRelationSourceOnly(g, u) ==
    LET t == NewTuple(u) IN ~HasEmptyField(t) /\ Exists(g, t.source)

\* The endpoints are looked up inside the transaction.
UpdateRelationAllowed(g, u) ==
    LET t == NewTuple(u)
    IN  ~HasEmptyField(t) /\ Exists(g, t.source) /\ Exists(g, t.target)

\* The old tuple is deleted as it was given, untrimmed; it need not be there.
UpdatedRelation(g, u) == InsertRelation(DeleteTuple(g, EndsOf(u)), NewTuple(u))

UpdateRelation(c) ==
    /\ At(c, "UpdateRelations", {"start", "tx"})
    /\ Pos(c) <= Len(Req(c).changes)
    /\ LET u == Req(c).changes[Pos(c)]
       IN  /\ UpdateRelationAllowed(View(c), u)
           /\ Write(c, UpdatedRelation(View(c), u), Pos(c) + 1, 0)

\* One DELETE, which removes every copy of the tuple; none is an error.
DeleteRelation(c) ==
    /\ At(c, "DeleteRelation", {"start"})
    /\ LET t == Req(c).tuple left == DeleteTuple(db, t)
       IN  /\ ~HasEmptyField(t)
           /\ AutoCommit(left)
           /\ IF left = db THEN Answer(c, "error", 0)
              ELSE \E a \in CommitAnswers : Answer(c, a, 0)

\* Mutant: the loop index is not advanced.
DeleteRelationsForever(c) ==
    /\ At(c, "DeleteRelations", {"start", "tx"})
    /\ Pos(c) <= Len(Req(c).relations)
    /\ Write(c, DeleteTuple(View(c), Req(c).relations[Pos(c)]), Pos(c), 0)

DeleteRelations(c) ==
    /\ At(c, "DeleteRelations", {"start", "tx"})
    /\ Pos(c) <= Len(Req(c).relations)
    /\ Write(c, DeleteTuple(View(c), Req(c).relations[Pos(c)]), Pos(c) + 1, 0)

-----------------------------------------------------------------------------
(* failures *)

\* The next round of c's call would return an error of the code's own, or SQLite
\* would refuse one of its statements for the rows it would leave.
Refused(c) ==
    LET r == Req(c) g == View(c) k == Pos(c) pc == session[c].pc
    IN  CASE r.op = "CreateEntities" ->
                IF pc = "start" THEN k <= Len(r.entities) /\ ~CreateAllowed(r.entities[k])
                                ELSE HasEmpty(r.entities[k].obs)
          [] r.op = "UpdateEntities" -> k <= Len(r.updates) /\ ~UpdateAllowed(g, r.updates[k])
          [] r.op = "AddObservations" ->
                \/ pc = "start" /\ (IsBlank(r.name) \/ (r.obs # <<>> /\ ~Exists(db, r.name)))
                \/ pc = "checked" /\ ~InsertObservationsAllowed(db, r.name, NonBlank(r.obs))
          [] r.op = "DeleteEntity" ->
                \/ pc = "start" /\ (r.name = Empty \/ ~Exists(db, r.name))
                \/ pc = "checked" /\ ~DeleteEntitiesAllowed(db, {r.name})
          [] r.op = "DeleteEntities" ->
                k <= Len(r.names) /\ ~DeleteEntitiesAllowed(g, Chunk(r.names, k))
          [] r.op = "DeleteObservations" -> pc = "start" /\ IsBlank(r.name)
          [] r.op = "CreateRelations" -> k <= Len(r.relations) /\ ~CreateRelationAllowed(g, r.relations[k])
          [] r.op = "UpdateRelations" -> k <= Len(r.changes) /\ ~UpdateRelationAllowed(g, r.changes[k])
          [] r.op = "DeleteRelation" -> HasEmptyField(r.tuple)
          [] r.op = "DeleteRelations" -> FALSE

Refuse(c) == Busy(c) /\ Refused(c) /\ Fail(c)

\* "database is locked": another transaction writes, or has committed since c's
\* transaction took its view.
Locked(c) == Busy(c) /\ Pos(c) <= Rounds(Req(c)) /\ ~MayWrite(c) /\ Fail(c)

Fault(c) == Faults /\ Busy(c) /\ Fail(c)

\* The process dies and starts again: what was not committed is gone.
Crash ==
    /\ session' = [c \in Clients |-> Answered("none", 0)]
    /\ writer' = Nobody
    /\ UNCHANGED db

-----------------------------------------------------------------------------

Work(c) ==
    \/ EmptyBatch(c)         \/ CommitBatch(c)
    \/ CreateEntity(c)       \/ CommitEntity(c)          \/ EndCreateEntities(c)
    \/ UpdateEntity(c)
    \/ LookupForAdd(c)       \/ AddObservations(c)
    \/ LookupForDelete(c)    \/ DeleteEntity(c)          \/ DeleteEntities(c)
    \/ DeleteAllObservations(c) \/ DeleteIdChunk(c)      \/ DeleteContentChunk(c)
    \/ CreateRelation(c)     \/ UpdateRelation(c)
    \/ DeleteRelation(c)     \/ DeleteRelations(c)
    \/ Refuse(c)             \/ Locked(c)

Next == Crash \/ \E c \in Clients : Invoke(c) \/ Work(c) \/ Fault(c)

Spec == Init /\ [][Next]_vars

\* The scheduler runs every goroutine and SQLite answers every statement, so a
\* call that can take a step takes one; nothing obliges a statement to fail or a
\* client to call.
FairSpec == Spec /\ \A c \in Clients : WF_vars(Work(c))

-----------------------------------------------------------------------------
(* properties *)

\* The tables, the lock and every session keep their types: loop indices stay positive,
\* counts and AUTOINCREMENT counters natural numbers, and no step leaves half a row.
TypeOK ==
    /\ db \in Tables
    /\ writer \in Clients \cup {Nobody}
    /\ session \in [Clients -> Session]

\* With foreign keys enforced, no observation or relation of the committed graph
\* refers to an entity that is not there, whatever calls ran side by side: the
\* lookup of AddObservations and the existence check of CreateRelations are left
\* to the constraint, and DeleteEntity(-ies) to the trigger.
RefIntegrity == ForeignKeys => RefOk(db)

\* The transaction that holds the write lock holds it over a view that contains
\* everything committed so far: rows it adds are numbered after all committed ones,
\* so that its COMMIT can neither overwrite nor renumber another call's rows.
WriterIsCurrent ==
    \A c \in Clients : writer = c =>
        session[c].pc = "tx" /\ NumberedAfter(db, session[c].view)

\* An observation or relation id, once committed, is never given to another row,
\* not even after the row is gone or a transaction that drew it was rolled back:
\* ORDER BY id is the order of insertion and a delete by id hits the row meant.
IdsNeverReused == [][NumberedAfter(db, db')]_vars

\* Without foreign keys too, UpdateRelations links only entities that exist when it
\* commits: it looks its endpoints up inside the transaction.
UpdatedRelationsAreLinked ==
    [][ \A c \in Clients :
            At(c, "UpdateRelations", {"tx"}) /\ db' # db /\ session'[c].pc = "idle" =>
                \A r \in db'.relations \ db.relations :
                    Exists(db', r.source) /\ Exists(db', r.target) ]_vars

\* Every call is answered: no order of lock holders, refusals and loop indices
\* leaves a call waiting for ever.
EveryCallEnds == \A c \in Clients : Busy(c) ~> ~Busy(c)

=============================================================================
