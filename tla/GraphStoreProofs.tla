-------------------------- MODULE GraphStoreProofs --------------------------
(***************************************************************************)
(* Theorems about GraphStore, for any clients, calls, chunk size, faults   *)
(* and foreign key setting.  They follow from one inductive invariant,     *)
(* Inv: the types, the soundness of the database and of every transaction's *)
(* view, and the fact that the lock holder's view extends the database.    *)
(***************************************************************************)
EXTENDS GraphStore, FiniteSetTheorems, TLAPS

(* what each statement of GraphTables keeps: the types of the tables, the    *)
(* keys, the foreign keys, and the numbering of rows                         *)

\* The keys identify the rows, and the AUTOINCREMENT counters have passed the ids.
HaveKeys(g) ==
    /\ \A d, e \in g.entities : d.name = e.name => d = e
    /\ \A o, p \in g.observations : o.id = p.id => o = p
    /\ \A r, s \in g.relations : r.id = s.id => r = s
    /\ \A o \in g.observations : o.id <= g.obsSeq
    /\ \A r \in g.relations : r.id <= g.relSeq

\* A state of the tables that the database, or a transaction's view, may be in.
Sound(g) ==
    /\ g \in Tables
    /\ IsFiniteSet(g.observations) /\ IsFiniteSet(g.relations)
    /\ HaveKeys(g)
    /\ ForeignKeys => RefOk(g)

\* What a statement may make of g.
Follows(g, h) == Sound(h) /\ NumberedAfter(g, h)

-----------------------------------------------------------------------------

\* A database just initialised is sound.
LEMMA NoRowsSound == Sound(NoRows)
BY FS_EmptySet DEF Sound, HaveKeys, NoRows, Tables, RefOk, Exists, EntityRow,
   ObservationRow, RelationRow

\* Rows are numbered after all earlier ones along any series of statements.
LEMMA NumberedAfterTransitive ==
    ASSUME NEW g \in Tables, NEW h \in Tables, NEW k \in Tables,
           NumberedAfter(g, h), NumberedAfter(h, k)
    PROVE  NumberedAfter(g, k)
BY DEF NumberedAfter, Tables, ObservationRow, RelationRow

LEMMA NumberedAfterReflexive ==
    ASSUME NEW g \in Tables
    PROVE  NumberedAfter(g, g)
BY DEF NumberedAfter, Tables

\* The rank of a position among those kept: what InsertObservations adds to
\* obsSeq is between 1 and the number of rows inserted.
LEMMA Ranks ==
    ASSUME NEW n \in Nat, NEW kept \in SUBSET (1..n), NEW i \in kept
    PROVE  /\ IsFiniteSet(kept)
           /\ Cardinality(kept) \in Nat
           /\ Cardinality({j \in kept : j <= i}) \in 1..Cardinality(kept)
<1> DEFINE upto == {j \in kept : j <= i}
<1>1. IsFiniteSet(kept) /\ Cardinality(kept) \in Nat
    <2>1. IsFiniteSet(1..n)
        BY FS_Interval
    <2>2. IsFiniteSet(kept)
        BY <2>1, FS_Subset
    <2> QED
        BY <2>2, FS_CardinalityType
<1>2. IsFiniteSet(upto) /\ Cardinality(upto) \in Nat /\ Cardinality(upto) <= Cardinality(kept)
    <2>1. upto \in SUBSET kept
        OBVIOUS
    <2> QED
        BY <1>1, <2>1, FS_Subset, FS_CardinalityType
<1>3. Cardinality(upto) # 0
    <2>1. i \in upto
        OBVIOUS
    <2> QED
        BY <1>2, <2>1, FS_EmptySet
<1> QED
    BY <1>1, <1>2, <1>3

\* Different positions have different ranks, so the rows inserted get different ids.
LEMMA RanksDiffer ==
    ASSUME NEW kept \in SUBSET Nat, IsFiniteSet(kept), NEW i \in kept, NEW k \in kept,
           Cardinality({j \in kept : j <= i}) = Cardinality({j \in kept : j <= k})
    PROVE  i = k
<1>1. ASSUME NEW a \in kept, NEW b \in kept, a < b
      PROVE  Cardinality({j \in kept : j <= a}) # Cardinality({j \in kept : j <= b})
    <2> DEFINE low == {j \in kept : j <= a}
               high == {j \in kept : j <= b}
    <2>1. IsFiniteSet(kept)
        OBVIOUS
    <2>2. high \in SUBSET kept /\ low \in SUBSET high
        <3>1. \A j \in kept : j <= a => j <= b
            BY <1>1
        <3> QED
            BY <3>1
    <2>3. b \in high /\ b \notin low
        BY <1>1
    <2> HIDE DEF low, high
    <2>4. IsFiniteSet(high)
        BY <2>1, <2>2, FS_Subset
    <2>5. Cardinality(low) # Cardinality(high)
        BY <2>2, <2>3, <2>4, FS_Subset
    <2> QED
        BY <2>5 DEF low, high
<1>2. ~(i < k) /\ ~(k < i)
    BY <1>1
<1> QED
    BY <1>2

\* INSERT of the observations at the positions kept, for an entity the foreign
\* key accepts.
LEMMA InsertObservationsFollows ==
    ASSUME NEW g, Sound(g), NEW n \in Text, NEW contents \in Seq(Text),
           NEW kept \in SUBSET DOMAIN contents,
           InsertObservationsAllowed(g, n, kept)
    PROVE  Follows(g, InsertObservations(g, n, contents, kept))
<1> DEFINE h == InsertObservations(g, n, contents, kept)
           rank(i) == Cardinality({j \in kept : j <= i})
           row == [i \in kept |-> [id |-> g.obsSeq + rank(i), entity |-> n, content |-> contents[i]]]
           new == {row[i] : i \in kept}
<1>1. g \in Tables /\ IsFiniteSet(g.observations) /\ g.obsSeq \in Nat
    BY DEF Sound, Tables
<1>2. DOMAIN contents = 1..Len(contents) /\ Len(contents) \in Nat
    OBVIOUS
<1>3. IsFiniteSet(kept) /\ Cardinality(kept) \in Nat
    <2>1. IsFiniteSet(1..Len(contents))
        BY <1>2, FS_Interval
    <2>2. IsFiniteSet(kept)
        BY <1>2, <2>1, FS_Subset
    <2> QED
        BY <2>2, FS_CardinalityType
<1>4. \A i \in kept : rank(i) \in 1..Cardinality(kept)
    BY <1>2, Ranks
<1>5. /\ h.entities = g.entities /\ h.observations = g.observations \cup new
      /\ h.relations = g.relations /\ h.obsSeq = g.obsSeq + Cardinality(kept)
      /\ h.relSeq = g.relSeq
    BY <1>1 DEF InsertObservations, Tables
<1>6. \A i \in kept : row[i] \in ObservationRow /\ row[i].id \in (g.obsSeq + 1)..(g.obsSeq + Cardinality(kept))
    BY <1>1, <1>2, <1>3, <1>4 DEF ObservationRow
<1>7. IsFiniteSet(g.observations \cup new)
    <2>1. row \in Surjection(kept, new)
        BY DEF Surjection
    <2> HIDE DEF row, new
    <2>2. IsFiniteSet(new)
        BY <1>3, <2>1, FS_Surjection
    <2> QED
        BY <1>1, <2>2, FS_Union
<1>8. \A o \in new : /\ o \in ObservationRow /\ o.entity = n
                     /\ o.id \in (g.obsSeq + 1)..(g.obsSeq + Cardinality(kept))
    <2>1. \A i \in kept : row[i].entity = n
        OBVIOUS
    <2> HIDE DEF row
    <2> QED
        BY <1>6, <2>1
<1>9. ForeignKeys /\ new # {} => Exists(g, n)
    BY DEF InsertObservationsAllowed
<1>10. h \in Tables
    <2>1. h = [g EXCEPT !.observations = @ \cup new, !.obsSeq = @ + Cardinality(kept)]
        BY DEF InsertObservations
    <2> HIDE DEF h, new
    <2>2. /\ g.observations \cup new \in SUBSET ObservationRow
          /\ g.obsSeq + Cardinality(kept) \in Nat
        BY <1>1, <1>3, <1>8 DEF Tables
    <2> QED
        BY <1>1, <2>1, <2>2 DEF Tables
<1> HIDE DEF h, new
<1>11. ForeignKeys => RefOk(h)
    BY <1>5, <1>8, <1>9 DEF RefOk, Exists, Sound
<1>12. NumberedAfter(g, h)
    BY <1>1, <1>3, <1>5, <1>8 DEF NumberedAfter, Tables
<1>13. \A o, p \in new : o.id = p.id => o = p
    <2>1. ASSUME NEW i \in kept, NEW k \in kept, row[i].id = row[k].id
          PROVE  i = k
        <3>1. rank(i) \in Int /\ rank(k) \in Int
            BY <1>4
        <3>2. g.obsSeq + rank(i) = g.obsSeq + rank(k)
            BY <2>1
        <3>3. Cardinality({j \in kept : j <= i}) = Cardinality({j \in kept : j <= k})
            BY <1>1, <3>1, <3>2
        <3>4. kept \in SUBSET Nat
            BY <1>2
        <3> HIDE DEF row, rank, new
        <3> QED
            BY ONLY <1>3, <3>3, <3>4, RanksDiffer
    <2> HIDE DEF row
    <2> QED
        BY <2>1 DEF new
<1>14. HaveKeys(h)
    <2>1. HaveKeys(g) /\ \A o \in g.observations : o.id \in Nat
        BY DEF Sound, Tables, ObservationRow
    <2>2. \A o \in g.observations, p \in new : o.id # p.id
        BY <1>1, <1>3, <1>8, <2>1 DEF HaveKeys
    <2>3. \A o, p \in h.observations : o.id = p.id => o = p
        BY <1>5, <1>13, <2>1, <2>2 DEF HaveKeys
    <2>4. \A o \in h.observations : o.id <= h.obsSeq
        BY <1>1, <1>3, <1>5, <1>8, <2>1 DEF HaveKeys
    <2> QED
        BY <1>5, <2>1, <2>3, <2>4 DEF HaveKeys
<1> QED
    BY <1>5, <1>7, <1>10, <1>11, <1>12, <1>14 DEF Follows, Sound, h

\* Statements that take observations away, whichever they are.
LEMMA FewerObservationsFollows ==
    ASSUME NEW g, Sound(g), NEW kept \in SUBSET g.observations
    PROVE  Follows(g, [g EXCEPT !.observations = kept])
<1>1. IsFiniteSet(kept)
    BY FS_Subset DEF Sound
<1> QED
    BY <1>1 DEF Follows, Sound, HaveKeys, NumberedAfter, Tables, RefOk, Exists

LEMMA DeleteTupleFollows ==
    ASSUME NEW g, Sound(g), NEW t
    PROVE  Follows(g, DeleteTuple(g, t))
<1> DEFINE h == DeleteTuple(g, t)
<1>1. /\ h.entities = g.entities /\ h.observations = g.observations
      /\ h.relations \in SUBSET g.relations
      /\ h.obsSeq = g.obsSeq /\ h.relSeq = g.relSeq
    BY DEF DeleteTuple, Sound, Tables
<1>2. h \in Tables
    BY DEF DeleteTuple, Sound, Tables
<1> HIDE DEF h
<1>3. IsFiniteSet(h.relations)
    BY <1>1, FS_Subset DEF Sound
<1> QED
    BY <1>1, <1>2, <1>3 DEF Follows, Sound, HaveKeys, NumberedAfter, Tables, RefOk, Exists, h

LEMMA UpsertEntityFollows ==
    ASSUME NEW g, Sound(g), NEW n \in Text, NEW t \in Text
    PROVE  Follows(g, UpsertEntity(g, n, t)) /\ Exists(UpsertEntity(g, n, t), n)
<1> DEFINE h == UpsertEntity(g, n, t)
           row == [name |-> n, type |-> t]
<1>1. /\ h.entities = {e \in g.entities : e.name # n} \cup {row}
      /\ h.observations = g.observations /\ h.relations = g.relations
      /\ h.obsSeq = g.obsSeq /\ h.relSeq = g.relSeq
    BY DEF UpsertEntity, Sound, Tables
<1>2. row \in EntityRow /\ row.name = n
    BY DEF EntityRow
<1>3. h \in Tables
    BY DEF UpsertEntity, Sound, Tables, EntityRow
<1> HIDE DEF h, row
<1>4. Exists(h, n) /\ \A m : Exists(g, m) => Exists(h, m)
    BY <1>1, <1>2 DEF Exists
<1>5. ForeignKeys => RefOk(h)
    BY <1>1, <1>4 DEF Sound, RefOk
<1>6. Follows(g, h)
    BY <1>1, <1>2, <1>3, <1>5 DEF Follows, Sound, HaveKeys, NumberedAfter, Tables
<1> QED
    BY <1>4, <1>6 DEF h

LEMMA SetTypeFollows ==
    ASSUME NEW g, Sound(g), NEW n \in Text, NEW t \in Text
    PROVE  /\ Follows(g, SetType(g, n, t))
           /\ \A m : Exists(SetType(g, n, t), m) <=> Exists(g, m)
<1> DEFINE h == SetType(g, n, t)
           row == [name |-> n, type |-> t]
           set == {row : e \in {d \in g.entities : d.name = n}}
<1>1. /\ h.entities = {e \in g.entities : e.name # n} \cup set
      /\ h.observations = g.observations /\ h.relations = g.relations
      /\ h.obsSeq = g.obsSeq /\ h.relSeq = g.relSeq
    BY DEF SetType, Sound, Tables
<1>2. row \in EntityRow /\ row.name = n
    BY DEF EntityRow
<1>3. /\ \A e \in set : e = row
      /\ set # {} <=> Exists(g, n)
    BY DEF Exists
<1>4. h \in Tables
    BY DEF SetType, Sound, Tables, EntityRow
<1> HIDE DEF h, row, set
<1>5. \A m : Exists(h, m) <=> Exists(g, m)
    <2> TAKE m
    <2>1. CASE m = n
        <3>1. (\E e \in set : e.name = n) <=> set # {}
            BY <1>2, <1>3
        <3> QED
            BY <1>1, <1>3, <2>1, <3>1 DEF Exists
    <2>2. CASE m # n
        BY <1>1, <1>2, <1>3, <2>2 DEF Exists
    <2> QED
        BY <2>1, <2>2
<1>6. ForeignKeys => RefOk(h)
    BY <1>1, <1>5 DEF Sound, RefOk
<1>7. Follows(g, h)
    BY <1>1, <1>2, <1>3, <1>4, <1>6 DEF Follows, Sound, HaveKeys, NumberedAfter, Tables
<1> QED
    BY <1>5, <1>7 DEF h

\* DELETE of entities with the trigger: whatever still refers to an entity did
\* not refer to one that was deleted, so it keeps its parents.
LEMMA DeleteEntityRowsFollows ==
    ASSUME NEW g, Sound(g), NEW names
    PROVE  Follows(g, DeleteEntityRows(g, names))
<1> DEFINE h == DeleteEntityRows(g, names)
           gone == {n \in names : Exists(g, n)}
<1>1. /\ h.entities = {e \in g.entities : e.name \notin names}
      /\ h.observations = {o \in g.observations : o.entity \notin gone}
      /\ h.relations = {r \in g.relations : r.source \notin gone /\ r.target \notin gone}
      /\ h.obsSeq = g.obsSeq /\ h.relSeq = g.relSeq
    BY DEF DeleteEntityRows, Cascade, Sound, Tables
<1>2. \A m : m \in gone <=> m \in names /\ Exists(g, m)
    OBVIOUS
<1>3. h \in Tables
    BY DEF DeleteEntityRows, Cascade, Sound, Tables
<1> HIDE DEF h, gone
<1>4. IsFiniteSet(h.observations) /\ IsFiniteSet(h.relations)
    <2>1. h.observations \in SUBSET g.observations /\ h.relations \in SUBSET g.relations
        BY <1>1
    <2> QED
        BY <2>1, FS_Subset DEF Sound
<1>5. ForeignKeys => RefOk(h)
    <2>1. \A m : Exists(g, m) /\ m \notin gone => Exists(h, m)
        BY <1>1, <1>2 DEF Exists
    <2> QED
        BY <1>1, <2>1 DEF Sound, RefOk
<1>6. NumberedAfter(g, h)
    BY <1>1 DEF Sound, NumberedAfter, Tables
<1>7. HaveKeys(h)
    BY <1>1 DEF Sound, HaveKeys
<1> QED
    BY <1>3, <1>4, <1>5, <1>6, <1>7 DEF Follows, Sound, h

\* INSERT of a relation whose ends the foreign keys accept.
LEMMA InsertRelationFollows ==
    ASSUME NEW g, Sound(g), NEW t \in RelationTuple, InsertRelationAllowed(g, t)
    PROVE  Follows(g, InsertRelation(g, t))
<1> DEFINE h == InsertRelation(g, t)
           row == [id |-> g.relSeq + 1, source |-> t.source, target |-> t.target, type |-> t.type]
<1>1. /\ h.entities = g.entities /\ h.observations = g.observations
      /\ h.relations = g.relations \cup {row}
      /\ h.obsSeq = g.obsSeq /\ h.relSeq = g.relSeq + 1
    BY DEF InsertRelation, Sound, Tables
<1>2. /\ row \in RelationRow /\ row.id = g.relSeq + 1
      /\ row.source = t.source /\ row.target = t.target
    BY DEF Sound, Tables, RelationRow, RelationTuple
<1>3. h \in Tables
    <2>1. h = [g EXCEPT !.relations = @ \cup {row}, !.relSeq = @ + 1]
        BY DEF InsertRelation
    <2> HIDE DEF h, row
    <2>2. g.relations \cup {row} \in SUBSET RelationRow /\ g.relSeq + 1 \in Nat
        BY <1>2 DEF Sound, Tables
    <2> QED
        BY <2>1, <2>2 DEF Sound, Tables
<1> HIDE DEF h, row
<1>4. ForeignKeys => RefOk(h)
    BY <1>1, <1>2 DEF Sound, RefOk, Exists, InsertRelationAllowed
<1>5. NumberedAfter(g, h)
    BY <1>1, <1>2 DEF Sound, NumberedAfter, Tables
<1>6. IsFiniteSet(h.observations) /\ IsFiniteSet(h.relations)
    BY <1>1, FS_AddElement DEF Sound
<1>7. HaveKeys(h)
    BY <1>1, <1>2 DEF Sound, HaveKeys, Tables, RelationRow
<1> QED
    BY <1>3, <1>4, <1>5, <1>6, <1>7 DEF Follows, Sound, h

-----------------------------------------------------------------------------
(* the inductive invariant *)

\* What holds of the committed tables alone is not inductive: a COMMIT replaces
\* them by a view, so the views must be sound, and follow the database while
\* their transaction holds the lock.
Inv ==
    /\ TypeOK
    /\ Sound(db)
    /\ \A c \in Clients : Sound(session[c].view)
    /\ \A c \in Clients : Busy(c) => Req(c) \in Requests
    /\ WriterIsCurrent

-----------------------------------------------------------------------------
(* what the statements of one round make of the tables *)

\* Statements compose.
LEMMA FollowsTransitive ==
    ASSUME NEW g, Sound(g), NEW h, Follows(g, h), NEW k, Follows(h, k)
    PROVE  Follows(g, k)
BY NumberedAfterTransitive DEF Follows, Sound

\* Clearing an entity's observations leaves the entities alone.
LEMMA ClearObservationsFollows ==
    ASSUME NEW g, Sound(g), NEW n
    PROVE  /\ Follows(g, ClearObservations(g, n))
           /\ \A m : Exists(ClearObservations(g, n), m) <=> Exists(g, m)
<1> DEFINE left == {o \in g.observations : o.entity # n}
<1>1. left \in SUBSET g.observations
    OBVIOUS
<1>2. ClearObservations(g, n) = [g EXCEPT !.observations = left]
    BY DEF ClearObservations
<1>3. [g EXCEPT !.observations = left].entities = g.entities
    BY DEF Sound, Tables
<1> HIDE DEF left
<1> QED
    BY <1>1, <1>2, <1>3, FewerObservationsFollows DEF Exists

\* Blank observations are skipped, so the positions kept are positions.
LEMMA NonBlankPositions ==
    ASSUME NEW s
    PROVE  NonBlank(s) \in SUBSET DOMAIN s
BY DEF NonBlank

\* CreateEntities inserts its observations for the entity it has just upserted.
LEMMA CreatedEntityFollows ==
    ASSUME NEW g, Sound(g), NEW e \in EntitySpec
    PROVE  Follows(g, CreatedEntity(g, e))
<1> DEFINE upserted == UpsertEntity(g, e.name, e.type)
           cleared  == ClearObservations(upserted, e.name)
<1>1. e.name \in Text /\ e.type \in Text /\ e.obs \in Seq(Text)
    BY DEF EntitySpec
<1>2. CreatedEntity(g, e) = InsertObservations(cleared, e.name, e.obs, BeforeEmpty(e.obs))
    BY DEF CreatedEntity
<1>3. Follows(g, upserted) /\ Exists(upserted, e.name)
    BY <1>1, UpsertEntityFollows
<1> HIDE DEF upserted
<1>4. Follows(upserted, cleared) /\ Exists(cleared, e.name)
    BY <1>3, ClearObservationsFollows DEF Follows
<1> HIDE DEF cleared
<1>5. Follows(cleared, InsertObservations(cleared, e.name, e.obs, BeforeEmpty(e.obs)))
    <2>1. BeforeEmpty(e.obs) \in SUBSET DOMAIN e.obs
        BY DEF BeforeEmpty
    <2> QED
        BY <1>1, <1>4, <2>1, InsertObservationsFollows DEF Follows, InsertObservationsAllowed
<1>6. Follows(g, cleared)
    BY <1>3, <1>4, FollowsTransitive
<1> QED
    BY <1>2, <1>5, <1>6, FollowsTransitive

\* UpdateEntities inserts only for an entity it has just looked up.
LEMMA UpdatedEntityFollows ==
    ASSUME NEW g, Sound(g), NEW u \in EntityUpdate, UpdateAllowed(g, u)
    PROVE  Follows(g, UpdatedEntity(g, u))
<1> DEFINE typed    == IF u.type = Empty THEN g ELSE SetType(g, u.name, u.type)
           cleared  == ClearObservations(typed, u.name)
           replaced == IF u.replace = <<>> THEN typed
                       ELSE InsertObservations(cleared, u.name, u.replace, NonBlank(u.replace))
<1>1. /\ u.name \in Text /\ u.type \in Text
      /\ u.replace \in Seq(Text) /\ u.merge \in Seq(Text)
    BY DEF EntityUpdate
<1>2. UpdatedEntity(g, u) = InsertObservations(replaced, u.name, u.merge, NonBlank(u.merge))
    BY DEF UpdatedEntity
<1>3. Follows(g, g)
    BY NumberedAfterReflexive DEF Follows, Sound
<1>4. Follows(g, typed) /\ Exists(typed, u.name)
    <2>1. CASE u.type = Empty
        BY <1>3, <2>1 DEF UpdateAllowed
    <2>2. CASE u.type # Empty
        BY <1>1, <2>2, SetTypeFollows DEF UpdateAllowed
    <2> QED
        BY <2>1, <2>2
<1> HIDE DEF typed
<1>5. Follows(typed, cleared) /\ Exists(cleared, u.name)
    BY <1>4, ClearObservationsFollows DEF Follows
<1> HIDE DEF cleared
<1>6. Follows(g, replaced) /\ Exists(replaced, u.name)
    <2>1. CASE u.replace = <<>>
        BY <1>4, <2>1
    <2>2. CASE u.replace # <<>>
        <3> DEFINE h == InsertObservations(cleared, u.name, u.replace, NonBlank(u.replace))
        <3>1. Follows(cleared, h)
            BY <1>1, <1>5, NonBlankPositions, InsertObservationsFollows
            DEF Follows, InsertObservationsAllowed
        <3>2. h.entities = cleared.entities
            BY <1>5 DEF Follows, Sound, Tables, InsertObservations
        <3>3. Exists(h, u.name)
            BY <1>5, <3>2 DEF Exists
        <3> HIDE DEF h
        <3>4. Follows(g, cleared)
            BY <1>4, <1>5, FollowsTransitive
        <3>5. Follows(g, h)
            BY <3>1, <3>4, FollowsTransitive
        <3> QED
            BY <2>2, <3>3, <3>5 DEF h
    <2> QED
        BY <2>1, <2>2
<1> HIDE DEF replaced
<1>7. Follows(replaced, InsertObservations(replaced, u.name, u.merge, NonBlank(u.merge)))
    BY <1>1, <1>6, NonBlankPositions, InsertObservationsFollows
    DEF Follows, InsertObservationsAllowed
<1> QED
    BY <1>2, <1>6, <1>7, FollowsTransitive

\* UpdateRelations inserts a tuple whose ends it has just looked up.
LEMMA UpdatedRelationFollows ==
    ASSUME NEW g, Sound(g), NEW u \in RelationChange, UpdateRelationAllowed(g, u)
    PROVE  Follows(g, UpdatedRelation(g, u))
<1> DEFINE t == NewTuple(u)
           h == DeleteTuple(g, EndsOf(u))
<1>1. t \in RelationTuple
    BY TextAssumption DEF NewTuple, Changed, RelationChange, RelationTuple
<1>2. Follows(g, h)
    BY DeleteTupleFollows
<1>3. h.entities = g.entities
    BY DEF DeleteTuple, Sound, Tables
<1>4. InsertRelationAllowed(h, t)
    BY <1>3 DEF UpdateRelationAllowed, InsertRelationAllowed, Exists
<1>5. UpdatedRelation(g, u) = InsertRelation(h, t)
    BY DEF UpdatedRelation
<1> HIDE DEF t, h
<1>6. Follows(h, InsertRelation(h, t))
    BY <1>1, <1>2, <1>4, InsertRelationFollows DEF Follows
<1> QED
    BY <1>2, <1>5, <1>6, FollowsTransitive

-----------------------------------------------------------------------------
(* how a step moves the database, the lock and one session *)

\* The part of Inv about one session: it stays in place when a step touches only
\* the session of c, keeps the lock of the others as it was, and leaves c either
\* without the lock or with a view that follows the database.
LEMMA SessionStep ==
    ASSUME Inv, NEW c \in Clients,
           session' \in [Clients -> Session],
           \A d \in Clients \ {c} : session'[d] = session[d],
           Sound(session'[c].view),
           Busy(c)' => Req(c)' \in Requests,
           Sound(db'),
           writer' \in {Nobody, writer, c},
           writer' \notin {Nobody, c} => db' = db,
           writer' = c => session'[c].pc = "tx" /\ NumberedAfter(db', session'[c].view)
    PROVE  Inv'
<1>1. TypeOK'
    BY DEF Inv, TypeOK, Sound
<1>2. \A d \in Clients : Sound(session[d].view)'
    BY DEF Inv
<1>3. \A d \in Clients : (Busy(d) => Req(d) \in Requests)'
    BY DEF Inv, Busy, Req
<1>4. WriterIsCurrent'
    <2> SUFFICES ASSUME NEW d \in Clients, writer' = d
                 PROVE  session'[d].pc = "tx" /\ NumberedAfter(db', session'[d].view)
        BY DEF WriterIsCurrent
    <2>1. CASE d = c
        BY <2>1
    <2>2. CASE d # c
        <3>1. writer = d /\ db' = db /\ session'[d] = session[d]
            BY <2>2, ClientsAssumption
        <3> QED
            BY <3>1 DEF Inv, WriterIsCurrent
    <2> QED
        BY <2>1, <2>2
<1> QED
    BY <1>1, <1>2, <1>3, <1>4 DEF Inv

\* An answered call leaves an idle session with an empty view.
LEMMA AnsweredSession ==
    ASSUME NEW a \in {"none", "ok", "error"}, NEW n \in Nat
    PROVE  /\ Answered(a, n) \in Session
           /\ Answered(a, n).pc = "idle" /\ Answered(a, n).view = NoRows
<1>1. NoRows \in Tables
    BY NoRowsSound DEF Sound
<1> QED
    BY <1>1 DEF Answered, Session

\* Answering a call keeps Inv if the lock is given up and the database is sound.
LEMMA AnswerStep ==
    ASSUME Inv, NEW c \in Clients, NEW a \in {"ok", "error"}, NEW n \in Nat,
           Answer(c, a, n), Sound(db'), writer' = Unlocked(c),
           writer' # Nobody => db' = db
    PROVE  Inv'
<1> DEFINE m == IF a = "ok" THEN n ELSE 0
<1>1. m \in Nat
    OBVIOUS
<1>2. session' = [session EXCEPT ![c] = Answered(a, m)]
    BY DEF Answer
<1> HIDE DEF m
<1>3. Answered(a, m) \in Session /\ Answered(a, m).pc = "idle" /\ Answered(a, m).view = NoRows
    BY <1>1, AnsweredSession
<1>4. session' \in [Clients -> Session] /\ session'[c] = Answered(a, m)
    BY <1>2, <1>3 DEF Inv, TypeOK
<1>5. \A d \in Clients \ {c} : session'[d] = session[d]
    BY <1>2 DEF Inv, TypeOK
<1>6. writer' \in {Nobody, writer} /\ writer' # c
    BY ClientsAssumption DEF Unlocked
<1>7. Sound(session'[c].view) /\ ~Busy(c)'
    BY <1>3, <1>4, NoRowsSound DEF Busy
<1> QED
    BY <1>4, <1>5, <1>6, <1>7, SessionStep

\* An error return drops the view and touches nothing else.
LEMMA FailStep ==
    ASSUME Inv, NEW c \in Clients, Fail(c)
    PROVE  Inv' /\ NumberedAfter(db, db')
<1>1. Sound(db) /\ db \in Tables
    BY DEF Inv, Sound
<1> QED
    BY <1>1, AnswerStep, NumberedAfterReflexive DEF Fail

\* A statement in a transaction of its own, of a call that holds no lock.
LEMMA AutoCommitStep ==
    ASSUME Inv, NEW c \in Clients, NEW a \in {"ok", "error"}, NEW n \in Nat,
           NEW g, Follows(db, g), AutoCommit(g), Answer(c, a, n)
    PROVE  Inv' /\ NumberedAfter(db, db')
<1>1. Sound(db') /\ NumberedAfter(db, db')
    BY DEF AutoCommit, Follows
<1>2. writer' = Nobody /\ Unlocked(c) = Nobody
    BY DEF AutoCommit, Unlocked
<1> QED
    BY <1>1, <1>2, AnswerStep

\* A call that is answered without having begun a transaction.
LEMMA QuietAnswerStep ==
    ASSUME Inv, NEW c \in Clients, session[c].pc # "tx", NEW n \in Nat,
           Answer(c, "ok", n), UNCHANGED <<db, writer>>
    PROVE  Inv' /\ NumberedAfter(db, db')
<1>1. writer # c /\ Sound(db) /\ db \in Tables
    BY DEF Inv, WriterIsCurrent, Sound
<1>2. writer' = Unlocked(c)
    BY <1>1 DEF Unlocked
<1> QED
    BY <1>1, <1>2, AnswerStep, NumberedAfterReflexive

\* What COMMIT makes of the database and the lock.
LEMMA CommitFollows ==
    ASSUME Inv, NEW c \in Clients, Commit(c)
    PROVE  /\ Sound(db') /\ NumberedAfter(db, db')
           /\ writer' = Unlocked(c) /\ writer' # c
           /\ writer' # Nobody => db' = db
<1>1. Sound(db) /\ db \in Tables /\ Sound(session[c].view)
    BY DEF Inv, Sound
<1>2. writer = c => NumberedAfter(db, session[c].view)
    BY DEF Inv, WriterIsCurrent
<1> QED
    BY <1>1, <1>2, NumberedAfterReflexive, ClientsAssumption DEF Commit, Unlocked

\* COMMIT, and the answer to the call.
LEMMA CommitStep ==
    ASSUME Inv, NEW c \in Clients, Commit(c), NEW a \in {"ok", "error"}, NEW n \in Nat,
           Answer(c, a, n)
    PROVE  Inv' /\ NumberedAfter(db, db')
BY CommitFollows, AnswerStep

\* What the next statement of a call reads is sound and follows the database
\* whenever the call may write.
LEMMA ViewSound ==
    ASSUME Inv, NEW c \in Clients
    PROVE  Sound(View(c)) /\ (MayWrite(c) => NumberedAfter(db, View(c)))
<1>1. Sound(db) /\ db \in Tables /\ Sound(session[c].view)
    BY DEF Inv, Sound
<1>2. CASE writer = c
    BY <1>1, <1>2 DEF Inv, WriterIsCurrent, View
<1>3. CASE writer # c
    BY <1>1, <1>3, NumberedAfterReflexive DEF MayWrite, View
<1> QED
    BY <1>2, <1>3

\* A round that writes.
LEMMA WriteStep ==
    ASSUME Inv, NEW c \in Clients, Busy(c), NEW g, Follows(View(c), g),
           NEW k \in Nat \ {0}, NEW n \in Nat, Write(c, g, k, n)
    PROVE  Inv' /\ NumberedAfter(db, db')
<1>1. Sound(db) /\ db \in Tables /\ Sound(View(c)) /\ NumberedAfter(db, View(c))
    BY ViewSound DEF Inv, Write, Sound
<1>2. Sound(g) /\ g \in Tables /\ NumberedAfter(db, g)
    BY <1>1, NumberedAfterTransitive DEF Follows, Sound
<1>3. session \in [Clients -> Session] /\ session[c] \in Session
    BY DEF Inv, TypeOK
<1>4. session' = [session EXCEPT ![c] = [session[c] EXCEPT !.pc = "tx", !.next = k,
                                                          !.view = g, !.count = n]]
    BY <1>3 DEF Write
<1>5. [session[c] EXCEPT !.pc = "tx", !.next = k, !.view = g, !.count = n] \in Session
    BY <1>2, <1>3 DEF Session
<1>6. session' \in [Clients -> Session] /\ \A d \in Clients \ {c} : session'[d] = session[d]
    BY <1>3, <1>4, <1>5
<1>7. session'[c].pc = "tx" /\ session'[c].view = g /\ session'[c].req = session[c].req
    BY <1>3, <1>4 DEF Session
<1>8. Busy(c)' => Req(c)' \in Requests
    BY <1>7 DEF Inv, Busy, Req
<1>9. db' = db /\ writer' = c
    BY DEF Write
<1> QED
    BY <1>1, <1>2, <1>6, <1>7, <1>8, <1>9, SessionStep, NumberedAfterReflexive

\* A round that only reads.
LEMMA ReadOnlyStep ==
    ASSUME Inv, NEW c \in Clients, Busy(c), NEW k \in Nat \ {0}, ReadOnly(c, k)
    PROVE  Inv' /\ NumberedAfter(db, db')
<1>1. Sound(db) /\ db \in Tables /\ Sound(View(c)) /\ View(c) \in Tables
    BY ViewSound DEF Inv, Sound
<1>2. session \in [Clients -> Session] /\ session[c] \in Session
    BY DEF Inv, TypeOK
<1>3. session' = [session EXCEPT ![c] = [session[c] EXCEPT !.pc = "tx", !.next = k,
                                                          !.view = View(c)]]
    BY <1>2 DEF ReadOnly
<1>4. [session[c] EXCEPT !.pc = "tx", !.next = k, !.view = View(c)] \in Session
    BY <1>1, <1>2 DEF Session
<1>5. session' \in [Clients -> Session] /\ \A d \in Clients \ {c} : session'[d] = session[d]
    BY <1>2, <1>3, <1>4
<1>6. session'[c].pc = "tx" /\ session'[c].view = View(c) /\ session'[c].req = session[c].req
    BY <1>2, <1>3 DEF Session
<1>7. Busy(c)' => Req(c)' \in Requests
    BY <1>6 DEF Inv, Busy, Req
<1>8. db' = db /\ writer' = writer
    BY DEF ReadOnly
<1>9. writer = c => NumberedAfter(db, View(c))
    BY ViewSound DEF MayWrite
<1> QED
    BY <1>1, <1>5, <1>6, <1>7, <1>8, <1>9, SessionStep, NumberedAfterReflexive

-----------------------------------------------------------------------------
(* the actions, one by one *)

\* The request of a call in progress, by its operation.
LEMMA RequestOf ==
    ASSUME Inv, NEW c \in Clients, Busy(c)
    PROVE  /\ Pos(c) \in Nat \ {0} /\ session[c].count \in Nat
           /\ Req(c).op = "CreateEntities" => Req(c).entities \in Seq(EntitySpec)
           /\ Req(c).op = "UpdateEntities" => Req(c).updates \in Seq(EntityUpdate)
           /\ Req(c).op = "AddObservations" => Req(c).name \in Text /\ Req(c).obs \in Seq(Text)
           /\ Req(c).op = "DeleteObservations" =>
                    Req(c).ids \in Seq(Nat) /\ Req(c).contents \in Seq(Text)
           /\ Req(c).op \in {"CreateRelations", "DeleteRelations"} =>
                    Req(c).relations \in Seq(RelationTuple)
           /\ Req(c).op = "UpdateRelations" => Req(c).changes \in Seq(RelationChange)
<1>1. session[c] \in Session
    BY DEF Inv, TypeOK
<1>2. Pos(c) \in Nat \ {0} /\ session[c].count \in Nat
    BY <1>1 DEF Session, Pos
<1>3. Req(c) \in Request
    BY RequestsAssumption DEF Inv
<1> QED
    BY <1>2, <1>3 DEF Request

\* A call at a program point other than idle is in progress.
LEMMA AtBusy ==
    ASSUME NEW c \in Clients, NEW op, NEW pcs \in SUBSET {"start", "checked", "tx"},
           At(c, op, pcs)
    PROVE  Busy(c) /\ Req(c).op = op /\ session[c].pc \in pcs
BY DEF At, Busy

\* A call that only moves from one program point to the next, outside a transaction.
LEMMA LookupStep ==
    ASSUME Inv, NEW c \in Clients, session[c].pc = "start",
           session' = [session EXCEPT ![c].pc = "checked"], UNCHANGED <<db, writer>>
    PROVE  Inv' /\ NumberedAfter(db, db')
<1>1. session \in [Clients -> Session] /\ session[c] \in Session
    BY DEF Inv, TypeOK
<1>2. [session[c] EXCEPT !.pc = "checked"] \in Session
    BY <1>1 DEF Session
<1>3. session' \in [Clients -> Session] /\ \A d \in Clients \ {c} : session'[d] = session[d]
    BY <1>1, <1>2
<1>4. session'[c].view = session[c].view /\ session'[c].req = session[c].req
    BY <1>1 DEF Session
<1>5. Sound(session'[c].view) /\ (Busy(c)' => Req(c)' \in Requests)
    BY <1>4 DEF Inv, Busy, Req
<1>6. writer # c /\ Sound(db) /\ db \in Tables
    BY DEF Inv, WriterIsCurrent, Sound
<1>7. writer' \in {Nobody, writer, c}
    OBVIOUS
<1> QED
    BY <1>3, <1>5, <1>6, <1>7, SessionStep, NumberedAfterReflexive

\* A new call.
LEMMA InvokeStep ==
    ASSUME Inv, NEW c \in Clients, Invoke(c)
    PROVE  Inv' /\ NumberedAfter(db, db')
<1>1. PICK r \in Requests :
        session' = [session EXCEPT ![c] = [Answered("none", 0) EXCEPT !.pc = "start", !.req = r]]
    BY DEF Invoke
<1> DEFINE s == [Answered("none", 0) EXCEPT !.pc = "start", !.req = r]
<1>2. Answered("none", 0) \in Session /\ Answered("none", 0).view = NoRows
    BY AnsweredSession
<1>3. s \in Session /\ s.view = NoRows /\ s.req = r
    BY <1>2 DEF Session
<1>4. session \in [Clients -> Session] /\ session' = [session EXCEPT ![c] = s]
    BY <1>1 DEF Inv, TypeOK
<1> HIDE DEF s
<1>5. session' \in [Clients -> Session] /\ session'[c] = s
    BY <1>3, <1>4
<1>6. \A d \in Clients \ {c} : session'[d] = session[d]
    BY <1>4
<1>7. Sound(session'[c].view) /\ Req(c)' \in Requests
    BY <1>3, <1>5, NoRowsSound DEF Req
<1>8. writer # c /\ Sound(db) /\ db \in Tables /\ writer' = writer /\ db' = db
    BY DEF Inv, WriterIsCurrent, Sound, Invoke, Busy
<1>9. writer' \in {Nobody, writer, c}
    BY <1>8
<1> QED
    BY <1>5, <1>6, <1>7, <1>8, <1>9, SessionStep, NumberedAfterReflexive

\* The count of rows a DELETE removed is a number.
LEMMA RowsGoneCount ==
    ASSUME NEW g, Sound(g), NEW h
    PROVE  RowsGone(g, h) \in Nat
<1>1. IsFiniteSet(g.observations \ h.observations)
    BY FS_Difference DEF Sound
<1> QED
    BY <1>1, FS_CardinalityType DEF RowsGone

\* A chunk of deleted observations.
LEMMA DeletedChunkStep ==
    ASSUME Inv, NEW c \in Clients, Busy(c), NEW left, NEW k \in Nat \ {0},
           \E kept \in SUBSET View(c).observations : left = [View(c) EXCEPT !.observations = kept],
           DeletedChunk(c, left, k)
    PROVE  Inv' /\ NumberedAfter(db, db')
<1>1. Follows(View(c), left)
    BY ViewSound, FewerObservationsFollows
<1>2. session[c].count + RowsGone(View(c), left) \in Nat
    BY ViewSound, RowsGoneCount, RequestOf
<1> QED
    BY <1>1, <1>2, WriteStep DEF DeletedChunk

\* The actions that read and write the entities.
LEMMA EntityActions ==
    ASSUME Inv, NEW c \in Clients,
           \/ CreateEntity(c) \/ CommitEntity(c) \/ EndCreateEntities(c)
           \/ UpdateEntity(c)
           \/ LookupForDelete(c) \/ DeleteEntity(c) \/ DeleteEntities(c)
    PROVE  Inv' /\ NumberedAfter(db, db')
<1>1. CASE CreateEntity(c)
    <2> DEFINE e == Req(c).entities[Pos(c)]
    <2>1. Busy(c) /\ Req(c).op = "CreateEntities"
        BY <1>1, AtBusy DEF CreateEntity
    <2>2. Pos(c) \in Nat \ {0} /\ Req(c).entities \in Seq(EntitySpec)
        BY <2>1, RequestOf
    <2>3. e \in EntitySpec
        BY <1>1, <2>2 DEF CreateEntity
    <2>4. Write(c, CreatedEntity(View(c), e), Pos(c), 0)
        BY <1>1 DEF CreateEntity
    <2> HIDE DEF e
    <2>5. Follows(View(c), CreatedEntity(View(c), e))
        BY <2>3, ViewSound, CreatedEntityFollows
    <2> QED
        BY <2>1, <2>2, <2>4, <2>5, WriteStep
<1>2. CASE CommitEntity(c)
    <2>1. Commit(c) /\ session[c].pc = "tx" /\ Busy(c)
        BY <1>2 DEF CommitEntity, At, Busy
    <2>2. PICK a \in CommitAnswers :
            IF a = "ok"
            THEN session' = [session EXCEPT ![c].pc = "start", ![c].next = Pos(c) + 1, ![c].view = NoRows]
            ELSE Answer(c, "error", 0)
        BY <1>2 DEF CommitEntity
    <2>3. CASE a # "ok"
        BY <2>1, <2>2, <2>3, CommitStep
    <2>4. CASE a = "ok"
        <3> DEFINE s == [session[c] EXCEPT !.pc = "start", !.next = Pos(c) + 1, !.view = NoRows]
        <3>1. session \in [Clients -> Session] /\ session[c] \in Session
            BY DEF Inv, TypeOK
        <3>2. session' = [session EXCEPT ![c] = s]
            BY <2>2, <2>4, <3>1
        <3>3. NoRows \in Tables /\ Pos(c) + 1 \in Nat \ {0}
            BY <2>1, NoRowsSound, RequestOf DEF Sound
        <3>4. s \in Session /\ s.view = NoRows /\ s.req = session[c].req
            BY <3>1, <3>3 DEF Session
        <3> HIDE DEF s
        <3>5. session' \in [Clients -> Session] /\ session'[c] = s
            BY <3>1, <3>2, <3>4
        <3>6. \A d \in Clients \ {c} : session'[d] = session[d]
            BY <3>1, <3>2
        <3>7. Sound(session'[c].view) /\ Req(c)' \in Requests
            BY <2>1, <3>4, <3>5, NoRowsSound DEF Inv, Req
        <3>8. writer' \in {Nobody, writer, c}
            BY <2>1, CommitFollows DEF Unlocked
        <3> QED
            BY <2>1, <3>5, <3>6, <3>7, <3>8, CommitFollows, SessionStep
    <2> QED
        BY <2>3, <2>4
<1>3. CASE EndCreateEntities(c)
    BY <1>3, QuietAnswerStep DEF EndCreateEntities, At
<1>4. CASE UpdateEntity(c)
    <2> DEFINE u == Req(c).updates[Pos(c)]
    <2>1. Busy(c) /\ Req(c).op = "UpdateEntities"
        BY <1>4, AtBusy DEF UpdateEntity
    <2>2. Pos(c) \in Nat \ {0} /\ Req(c).updates \in Seq(EntityUpdate)
        BY <2>1, RequestOf
    <2>3. u \in EntityUpdate /\ Pos(c) + 1 \in Nat \ {0}
        BY <1>4, <2>2 DEF UpdateEntity
    <2>4. /\ UpdateAllowed(View(c), u)
          /\ \/ Write(c, UpdatedEntity(View(c), u), Pos(c) + 1, 0)
             \/ ReadOnly(c, Pos(c) + 1)
        BY <1>4 DEF UpdateEntity
    <2> HIDE DEF u
    <2>5. Follows(View(c), UpdatedEntity(View(c), u))
        BY <2>3, <2>4, ViewSound, UpdatedEntityFollows
    <2> QED
        BY <2>1, <2>3, <2>4, <2>5, WriteStep, ReadOnlyStep
<1>5. CASE LookupForDelete(c)
    BY <1>5, LookupStep DEF LookupForDelete, At
<1>6. CASE DeleteEntity(c)
    <2>1. AutoCommit(DeleteEntityRows(db, {Req(c).name}))
        BY <1>6 DEF DeleteEntity
    <2>2. PICK a \in {"ok", "error"} : Answer(c, a, 0)
        BY <1>6 DEF DeleteEntity, CommitAnswers
    <2>3. Follows(db, DeleteEntityRows(db, {Req(c).name}))
        BY DeleteEntityRowsFollows DEF Inv
    <2> QED
        BY <2>1, <2>2, <2>3, AutoCommitStep
<1>7. CASE DeleteEntities(c)
    <2> DEFINE names == Chunk(Req(c).names, Pos(c))
    <2>1. Busy(c)
        BY <1>7, AtBusy DEF DeleteEntities
    <2>2. Pos(c) + MaxParams \in Nat \ {0}
        BY <2>1, RequestOf, BoundsAssumption
    <2>3. Write(c, DeleteEntityRows(View(c), names), Pos(c) + MaxParams, 0)
        BY <1>7 DEF DeleteEntities
    <2>4. Follows(View(c), DeleteEntityRows(View(c), names))
        BY ViewSound, DeleteEntityRowsFollows
    <2> QED
        BY <2>1, <2>2, <2>3, <2>4, WriteStep
<1> QED
    BY <1>1, <1>2, <1>3, <1>4, <1>5, <1>6, <1>7

\* The actions that read and write the observations.
LEMMA ObservationActions ==
    ASSUME Inv, NEW c \in Clients,
           \/ LookupForAdd(c) \/ AddObservations(c)
           \/ DeleteAllObservations(c) \/ DeleteIdChunk(c) \/ DeleteContentChunk(c)
    PROVE  Inv' /\ NumberedAfter(db, db')
<1>1. CASE LookupForAdd(c)
    BY <1>1, LookupStep DEF LookupForAdd, At
<1>2. CASE AddObservations(c)
    <2> DEFINE r == Req(c)
               new == NonBlank(r.obs)
               g == InsertObservations(db, r.name, r.obs, new)
    <2>1. Busy(c) /\ r.op = "AddObservations" /\ session[c].pc = "checked"
        BY <1>2, AtBusy DEF AddObservations
    <2>2. Pos(c) + 1 \in Nat \ {0} /\ r.name \in Text /\ r.obs \in Seq(Text)
        BY <2>1, RequestOf
    <2>3. /\ InsertObservationsAllowed(db, r.name, new)
          /\ Write(c, g, Pos(c) + 1, 0) \/ ReadOnly(c, Pos(c) + 1)
        BY <1>2 DEF AddObservations
    <2>4. Follows(View(c), g)
        BY <2>1, <2>2, <2>3, NonBlankPositions, InsertObservationsFollows DEF Inv, View
    <2> HIDE DEF g
    <2> QED
        BY <2>1, <2>2, <2>3, <2>4, WriteStep, ReadOnlyStep
<1>3. CASE DeleteAllObservations(c)
    <2> DEFINE left == ClearObservations(db, Req(c).name)
    <2>1. Follows(db, left) /\ Sound(db)
        BY ClearObservationsFollows DEF Inv
    <2>2. AutoCommit(left)
        BY <1>3 DEF DeleteAllObservations
    <2>3. PICK a \in {"ok", "error"} : Answer(c, a, RowsGone(db, left))
        BY <1>3 DEF DeleteAllObservations, CommitAnswers
    <2> HIDE DEF left
    <2>4. RowsGone(db, left) \in Nat
        BY <2>1, RowsGoneCount
    <2> QED
        BY <2>1, <2>2, <2>3, <2>4, AutoCommitStep
<1>4. CASE DeleteIdChunk(c)
    <2> DEFINE k == Pos(c)
               next == IF k + MaxParams > Len(Req(c).ids) THEN Len(Req(c).ids) + 1 ELSE k + MaxParams
               left == DeleteObservationsById(View(c), Req(c).name, Chunk(Req(c).ids, k))
    <2>1. Busy(c) /\ Req(c).op = "DeleteObservations"
        BY <1>4, AtBusy DEF DeleteIdChunk
    <2>2. next \in Nat \ {0}
        BY <2>1, RequestOf, BoundsAssumption
    <2>3. DeletedChunk(c, left, next)
        BY <1>4 DEF DeleteIdChunk
    <2>4. \E kept \in SUBSET View(c).observations : left = [View(c) EXCEPT !.observations = kept]
        BY DEF DeleteObservationsById
    <2> HIDE DEF next, left
    <2> QED
        BY <2>1, <2>2, <2>3, <2>4, DeletedChunkStep
<1>5. CASE DeleteContentChunk(c)
    <2> DEFINE k == Pos(c) - Len(Req(c).ids)
               left == DeleteObservationsByContent(View(c), Req(c).name, Chunk(Req(c).contents, k))
    <2>1. Busy(c) /\ Req(c).op = "DeleteObservations"
        BY <1>5, AtBusy DEF DeleteContentChunk
    <2>2. Pos(c) + MaxParams \in Nat \ {0}
        BY <2>1, RequestOf, BoundsAssumption
    <2>3. DeletedChunk(c, left, Pos(c) + MaxParams)
        BY <1>5 DEF DeleteContentChunk
    <2>4. \E kept \in SUBSET View(c).observations : left = [View(c) EXCEPT !.observations = kept]
        BY DEF DeleteObservationsByContent
    <2> HIDE DEF left
    <2> QED
        BY <2>1, <2>2, <2>3, <2>4, DeletedChunkStep
<1> QED
    BY <1>1, <1>2, <1>3, <1>4, <1>5

\* The actions that read and write the relations.
LEMMA RelationActions ==
    ASSUME Inv, NEW c \in Clients,
           CreateRelation(c) \/ UpdateRelation(c) \/ DeleteRelation(c) \/ DeleteRelations(c)
    PROVE  Inv' /\ NumberedAfter(db, db')
<1>1. CASE CreateRelation(c)
    <2> DEFINE t == Req(c).relations[Pos(c)]
    <2>1. Busy(c) /\ Req(c).op = "CreateRelations"
        BY <1>1, AtBusy DEF CreateRelation
    <2>2. Pos(c) \in Nat \ {0} /\ Req(c).relations \in Seq(RelationTuple)
        BY <2>1, RequestOf
    <2>3. t \in RelationTuple /\ Pos(c) + 1 \in Nat \ {0}
        BY <1>1, <2>2 DEF CreateRelation
    <2>4. InsertRelationAllowed(View(c), t) /\ Write(c, InsertRelation(View(c), t), Pos(c) + 1, 0)
        BY <1>1 DEF CreateRelation, CreateRelationAllowed
    <2> HIDE DEF t
    <2>5. Follows(View(c), InsertRelation(View(c), t))
        BY <2>3, <2>4, ViewSound, InsertRelationFollows
    <2> QED
        BY <2>1, <2>3, <2>4, <2>5, WriteStep
<1>2. CASE UpdateRelation(c)
    <2> DEFINE u == Req(c).changes[Pos(c)]
    <2>1. Busy(c) /\ Req(c).op = "UpdateRelations"
        BY <1>2, AtBusy DEF UpdateRelation
    <2>2. Pos(c) \in Nat \ {0} /\ Req(c).changes \in Seq(RelationChange)
        BY <2>1, RequestOf
    <2>3. u \in RelationChange /\ Pos(c) + 1 \in Nat \ {0}
        BY <1>2, <2>2 DEF UpdateRelation
    <2>4. UpdateRelationAllowed(View(c), u) /\ Write(c, UpdatedRelation(View(c), u), Pos(c) + 1, 0)
        BY <1>2 DEF UpdateRelation
    <2> HIDE DEF u
    <2>5. Follows(View(c), UpdatedRelation(View(c), u))
        BY <2>3, <2>4, ViewSound, UpdatedRelationFollows
    <2> QED
        BY <2>1, <2>3, <2>4, <2>5, WriteStep
<1>3. CASE DeleteRelation(c)
    <2>1. AutoCommit(DeleteTuple(db, Req(c).tuple))
        BY <1>3 DEF DeleteRelation
    <2>2. PICK a \in {"ok", "error"} : Answer(c, a, 0)
        BY <1>3 DEF DeleteRelation, CommitAnswers
    <2>3. Follows(db, DeleteTuple(db, Req(c).tuple))
        BY DeleteTupleFollows DEF Inv
    <2> QED
        BY <2>1, <2>2, <2>3, AutoCommitStep
<1>4. CASE DeleteRelations(c)
    <2> DEFINE t == Req(c).relations[Pos(c)]
    <2>1. Busy(c) /\ Pos(c) + 1 \in Nat \ {0}
        BY <1>4, AtBusy, RequestOf DEF DeleteRelations
    <2>2. Write(c, DeleteTuple(View(c), t), Pos(c) + 1, 0)
        BY <1>4 DEF DeleteRelations
    <2>3. Follows(View(c), DeleteTuple(View(c), t))
        BY ViewSound, DeleteTupleFollows
    <2> QED
        BY <2>1, <2>2, <2>3, WriteStep
<1> QED
    BY <1>1, <1>2, <1>3, <1>4

\* The steps every call may take, whatever it does, and the crash of the process.
LEMMA CallSteps ==
    ASSUME Inv,
           \/ Crash
           \/ \E c \in Clients : \/ EmptyBatch(c) \/ CommitBatch(c)
                                 \/ Refuse(c) \/ Locked(c) \/ Fault(c)
    PROVE  Inv' /\ NumberedAfter(db, db')
<1>1. CASE Crash
    <2>1. Answered("none", 0) \in Session /\ Answered("none", 0).pc = "idle"
                                          /\ Answered("none", 0).view = NoRows
        BY AnsweredSession
    <2>2. /\ session' = [c \in Clients |-> Answered("none", 0)]
          /\ writer' = Nobody /\ db' = db
        BY <1>1 DEF Crash
    <2>3. \A c \in Clients : session'[c].pc = "idle" /\ session'[c].view = NoRows
        BY <2>1, <2>2
    <2>4. TypeOK' /\ Sound(db)' /\ NumberedAfter(db, db')
        BY <2>1, <2>2, NumberedAfterReflexive DEF Inv, TypeOK
    <2>5. \A c \in Clients : Sound(session'[c].view) /\ ~Busy(c)'
        BY <2>3, NoRowsSound DEF Busy
    <2>6. WriterIsCurrent'
        BY <2>2, ClientsAssumption DEF WriterIsCurrent
    <2> QED
        BY <2>4, <2>5, <2>6 DEF Inv
<1>2. ASSUME NEW c \in Clients, EmptyBatch(c)
      PROVE  Inv' /\ NumberedAfter(db, db')
    BY <1>2, QuietAnswerStep DEF EmptyBatch
<1>3. ASSUME NEW c \in Clients, CommitBatch(c)
      PROVE  Inv' /\ NumberedAfter(db, db')
    <2>1. Commit(c) /\ Busy(c)
        BY <1>3 DEF CommitBatch, Busy
    <2>2. PICK a \in {"ok", "error"} : Answer(c, a, session[c].count)
        BY <1>3 DEF CommitBatch, CommitAnswers
    <2>3. session[c].count \in Nat
        BY <2>1, RequestOf
    <2> QED
        BY <2>1, <2>2, <2>3, CommitStep
<1>4. ASSUME NEW c \in Clients, Refuse(c) \/ Locked(c) \/ Fault(c)
      PROVE  Inv' /\ NumberedAfter(db, db')
    BY <1>4, FailStep DEF Refuse, Locked, Fault
<1> QED
    BY <1>1, <1>2, <1>3, <1>4

\* Inv holds at the start ...
LEMMA InitInv == Init => Inv
<1> SUFFICES ASSUME Init PROVE Inv
    OBVIOUS
<1>1. Answered("none", 0) \in Session /\ Answered("none", 0).pc = "idle"
                                      /\ Answered("none", 0).view = NoRows
    BY AnsweredSession
<1>2. TypeOK /\ Sound(db)
    BY <1>1, NoRowsSound DEF Init, TypeOK, Sound
<1>3. \A c \in Clients : Sound(session[c].view) /\ ~Busy(c)
    BY <1>1, NoRowsSound DEF Init, Busy
<1>4. WriterIsCurrent
    BY ClientsAssumption DEF Init, WriterIsCurrent
<1> QED
    BY <1>2, <1>3, <1>4 DEF Inv

\* ... and every step keeps it, and numbers the rows it commits after all others.
LEMMA NextInv == Inv /\ [Next]_vars => Inv' /\ NumberedAfter(db, db')
<1> SUFFICES ASSUME Inv, [Next]_vars PROVE Inv' /\ NumberedAfter(db, db')
    OBVIOUS
<1>1. CASE Crash
    BY <1>1, CallSteps
<1>2. ASSUME NEW c \in Clients, Invoke(c)
      PROVE  Inv' /\ NumberedAfter(db, db')
    BY <1>2, InvokeStep
<1>3. ASSUME NEW c \in Clients, Work(c) \/ Fault(c)
      PROVE  Inv' /\ NumberedAfter(db, db')
    <2>1. CASE EmptyBatch(c) \/ CommitBatch(c) \/ Refuse(c) \/ Locked(c) \/ Fault(c)
        BY <2>1, CallSteps
    <2>2. CASE \/ CreateEntity(c) \/ CommitEntity(c) \/ EndCreateEntities(c)
               \/ UpdateEntity(c)
               \/ LookupForDelete(c) \/ DeleteEntity(c) \/ DeleteEntities(c)
        BY <2>2, EntityActions
    <2>3. CASE \/ LookupForAdd(c) \/ AddObservations(c)
               \/ DeleteAllObservations(c) \/ DeleteIdChunk(c) \/ DeleteContentChunk(c)
        BY <2>3, ObservationActions
    <2>4. CASE CreateRelation(c) \/ UpdateRelation(c) \/ DeleteRelation(c) \/ DeleteRelations(c)
        BY <2>4, RelationActions
    <2> QED
        BY <1>3, <2>1, <2>2, <2>3, <2>4 DEF Work
<1>4. CASE UNCHANGED vars
    <2>1. db \in Tables
        BY DEF Inv, Sound
    <2> QED
        BY <1>4, <2>1, NumberedAfterReflexive
        DEF vars, Inv, TypeOK, WriterIsCurrent, Busy, Req
<1> QED
    BY <1>1, <1>2, <1>3, <1>4 DEF Next

LEMMA Invariance == Spec => []Inv
<1> QED
    BY InitInv, NextInv, PTL DEF Spec

-----------------------------------------------------------------------------
(* What a relinking transaction adds *)

Relinks(c) == Req(c).op = "UpdateRelations"

\* The relations that the view g has and the database has not join entities of g.
AddedAreLinked(g) ==
    \A r \in g.relations \ db.relations : Exists(g, r.source) /\ Exists(g, r.target)

RelinkInv ==
    \A c \in Clients : writer = c /\ Relinks(c) => AddedAreLinked(session[c].view)

\* The step formula of UpdatedRelationsAreLinked, for one client.
CommitsLinked(c) ==
    At(c, "UpdateRelations", {"tx"}) /\ db' # db /\ session'[c].pc = "idle" =>
        \A r \in db'.relations \ db.relations : Exists(db', r.source) /\ Exists(db', r.target)

RelinkKept == RelinkInv' /\ \A c \in Clients : CommitsLinked(c)

\* A step of c keeps RelinkInv if it leaves the other sessions alone, changes neither
\* database nor lock under another holder, and ends its own relinking only by a commit.
LEMMA ActorStep ==
    ASSUME RelinkInv, NEW c \in Clients,
           \A d \in Clients \ {c} : session'[d] = session[d],
           \A d \in Clients \ {c} : writer' = d => writer = d /\ db' = db,
           writer' = c /\ Relinks(c)' => AddedAreLinked(session[c].view)',
           \/ db' = db \/ ~Relinks(c) \/ session'[c].pc # "idle"
           \/ writer = c /\ db' = session[c].view
    PROVE  RelinkKept
<1>1. ASSUME NEW d \in Clients, writer' = d, Relinks(d)'
      PROVE  AddedAreLinked(session[d].view)'
    <2>1. CASE d = c
        BY <1>1, <2>1
    <2>2. CASE d # c
        <3>1. session'[d] = session[d] /\ writer = d /\ db' = db
            BY <1>1, <2>2
        <3>2. AddedAreLinked(session[d].view)
            BY <1>1, <3>1 DEF RelinkInv, Relinks, Req
        <3> QED  BY <3>1, <3>2 DEF AddedAreLinked
    <2> QED  BY <2>1, <2>2
<1>2. ASSUME NEW d \in Clients, At(d, "UpdateRelations", {"tx"}), db' # db,
             session'[d].pc = "idle"
      PROVE  \A r \in db'.relations \ db.relations : Exists(db', r.source) /\ Exists(db', r.target)
    <2>1. session[d].pc = "tx" /\ Relinks(d)
        BY <1>2 DEF At, Relinks
    <2>2. d = c
        BY <1>2, <2>1
    <2>3. writer = c /\ db' = session[c].view
        BY <1>2, <2>1, <2>2
    <2> QED  BY <2>1, <2>2, <2>3 DEF RelinkInv, AddedAreLinked
<1> QED  BY <1>1, <1>2 DEF RelinkKept, RelinkInv, CommitsLinked

\* A round that wrote.
LEMMA RelinkWrite ==
    ASSUME Inv, RelinkInv, NEW c \in Clients, NEW g, NEW k, NEW n, Write(c, g, k, n),
           Relinks(c) => AddedAreLinked(g)
    PROVE  RelinkKept
<1>1. session \in [Clients -> Session] /\ session[c] \in Session
    BY DEF Inv, TypeOK
<1>2. session' = [session EXCEPT ![c] = [session[c] EXCEPT !.pc = "tx", !.next = k,
                                                          !.view = g, !.count = n]]
    BY <1>1 DEF Write
<1>3. \A d \in Clients \ {c} : session'[d] = session[d]
    BY <1>1, <1>2
<1>4. session'[c].view = g /\ session'[c].req = session[c].req
    BY <1>1, <1>2 DEF Session
<1>5. db' = db /\ writer' = c
    BY DEF Write
<1>6. Relinks(c)' => AddedAreLinked(session[c].view)'
    BY <1>4, <1>5 DEF Relinks, Req, AddedAreLinked
<1> QED  BY <1>3, <1>5, <1>6, ActorStep

\* A step of another operation that changes neither database nor lock.
LEMMA RelinkQuiet ==
    ASSUME Inv, RelinkInv, NEW c \in Clients, UNCHANGED <<db, writer>>,
           \A d \in Clients \ {c} : session'[d] = session[d],
           writer # c \/ (~Relinks(c) /\ session'[c].req = session[c].req)
    PROVE  RelinkKept
<1>1. writer' = c => ~Relinks(c)'
    BY DEF Relinks, Req
<1> QED  BY <1>1, ActorStep

LEMMA RelinkReadOnly ==
    ASSUME Inv, RelinkInv, NEW c \in Clients, NEW k, ReadOnly(c, k), ~Relinks(c)
    PROVE  RelinkKept
<1>1. session \in [Clients -> Session] /\ session[c] \in Session
    BY DEF Inv, TypeOK
<1>2. session' = [session EXCEPT ![c] = [session[c] EXCEPT !.pc = "tx", !.next = k,
                                                          !.view = View(c)]]
    BY <1>1 DEF ReadOnly
<1>3. \A d \in Clients \ {c} : session'[d] = session[d]
    BY <1>1, <1>2
<1>4. session'[c].req = session[c].req
    BY <1>1, <1>2 DEF Session
<1> QED  BY <1>3, <1>4, RelinkQuiet DEF ReadOnly

LEMMA RelinkLookup ==
    ASSUME Inv, RelinkInv, NEW c \in Clients, ~Relinks(c), UNCHANGED <<db, writer>>,
           session' = [session EXCEPT ![c].pc = "checked"]
    PROVE  RelinkKept
<1>1. session \in [Clients -> Session] /\ session[c] \in Session
    BY DEF Inv, TypeOK
<1>2. session'[c].req = session[c].req
    BY <1>1 DEF Session
<1>3. \A d \in Clients \ {c} : session'[d] = session[d]
    BY <1>1
<1> QED  BY <1>2, <1>3, RelinkQuiet

\* A call is answered: the lock, if it had it, is free.
LEMMA RelinkAnswer ==
    ASSUME Inv, RelinkInv, NEW c \in Clients, NEW a, NEW n, Answer(c, a, n),
           \/ writer' = Unlocked(c) /\ db' = db
           \/ Commit(c)
           \/ ~Relinks(c) /\ (\E g : AutoCommit(g))
    PROVE  RelinkKept
<1>1. session \in [Clients -> Session]
    BY DEF Inv, TypeOK
<1>2. \A d \in Clients \ {c} : session'[d] = session[d]
    BY <1>1 DEF Answer
<1>3. CASE writer' = Unlocked(c) /\ db' = db
    <2>1. writer' # c /\ \A d \in Clients \ {c} : writer' = d => writer = d
        BY <1>3, ClientsAssumption DEF Unlocked
    <2> QED  BY <1>2, <1>3, <2>1, ActorStep
<1>4. CASE Commit(c)
    <2>1. writer' # c /\ \A d \in Clients \ {c} : writer' = d => writer = d
        BY <1>4, ClientsAssumption DEF Unlocked, Commit
    <2>2. IF writer = c THEN db' = session[c].view /\ writer' = Nobody ELSE db' = db
        BY <1>4 DEF Commit, Unlocked
    <2>3. \A d \in Clients \ {c} : writer' = d => db' = db
        BY <2>2, ClientsAssumption
    <2> QED  BY <1>2, <2>1, <2>2, <2>3, ActorStep
<1>5. CASE ~Relinks(c) /\ (\E g : AutoCommit(g))
    <2>1. writer' = Nobody /\ Nobody \notin Clients
        BY <1>5, ClientsAssumption DEF AutoCommit
    <2> QED  BY <1>2, <1>5, <2>1, ActorStep
<1> QED  BY <1>3, <1>4, <1>5

\* A round of UpdateRelations links what it found in its view.
LEMMA RelinkRound ==
    ASSUME Inv, RelinkInv, NEW c \in Clients, UpdateRelation(c)
    PROVE  RelinkKept
<1> DEFINE u == Req(c).changes[Pos(c)]
           g == UpdatedRelation(View(c), u)
<1>1. UpdateRelationAllowed(View(c), u) /\ Write(c, g, Pos(c) + 1, 0) /\ Relinks(c)
    BY DEF UpdateRelation, Relinks, At
<1>2. View(c) \in Tables
    BY ViewSound DEF Sound
<1>3. \A r \in View(c).relations \ db.relations :
          Exists(View(c), r.source) /\ Exists(View(c), r.target)
    <2>1. CASE writer = c
        BY <1>1, <2>1 DEF RelinkInv, AddedAreLinked, View, Inv, WriterIsCurrent
    <2>2. CASE writer # c
        BY <1>1, <2>2 DEF Write, MayWrite
    <2> QED  BY <2>1, <2>2
<1>4. /\ g.entities = View(c).entities
      /\ \A r \in g.relations : \/ r \in View(c).relations
                                \/ r.source = NewTuple(u).source /\ r.target = NewTuple(u).target
    BY <1>2 DEF UpdatedRelation, InsertRelation, DeleteTuple, Tables
<1>5. Exists(View(c), NewTuple(u).source) /\ Exists(View(c), NewTuple(u).target)
    BY <1>1 DEF UpdateRelationAllowed
<1> HIDE DEF u, g
<1>6. AddedAreLinked(g)
    BY <1>3, <1>4, <1>5 DEF AddedAreLinked, Exists
<1> QED  BY <1>1, <1>6, RelinkWrite

\* The rounds of the other operations.
LEMMA OtherRounds ==
    ASSUME Inv, RelinkInv, NEW c \in Clients, Work(c) \/ Fault(c), ~UpdateRelation(c)
    PROVE  RelinkKept
<1>1. CASE EmptyBatch(c)
    <2>1. writer # c
        BY <1>1 DEF EmptyBatch, Inv, WriterIsCurrent
    <2>2. \E a, n : Answer(c, a, n)
        BY <1>1 DEF EmptyBatch
    <2> QED  BY <1>1, <2>1, <2>2, RelinkAnswer DEF EmptyBatch, Unlocked
<1>2. CASE CommitBatch(c)
    BY <1>2, RelinkAnswer DEF CommitBatch
<1>3. CASE Refuse(c) \/ Locked(c) \/ Fault(c)
    BY <1>3, RelinkAnswer DEF Refuse, Locked, Fault, Fail
<1>4. CASE EndCreateEntities(c)
    <2>1. writer # c
        BY <1>4 DEF EndCreateEntities, At, Inv, WriterIsCurrent
    <2> QED  BY <1>4, <2>1, RelinkAnswer DEF EndCreateEntities, Unlocked
<1>5. CASE CommitEntity(c)
    <2>1. PICK a \in CommitAnswers :
            IF a = "ok"
            THEN session' = [session EXCEPT ![c].pc = "start", ![c].next = Pos(c) + 1, ![c].view = NoRows]
            ELSE Answer(c, "error", 0)
        BY <1>5 DEF CommitEntity
    <2>2. Commit(c) /\ ~Relinks(c)
        BY <1>5 DEF CommitEntity, At, Relinks
    <2>3. CASE a = "ok"
        <3>1. \A d \in Clients \ {c} : session'[d] = session[d]
            BY <2>1, <2>3 DEF Inv, TypeOK
        <3>2. writer' # c /\ \A d \in Clients \ {c} : writer' = d => writer = d
            BY <2>2, ClientsAssumption DEF Unlocked, Commit
        <3>3. \A d \in Clients \ {c} : writer' = d => db' = db
            BY <2>2, ClientsAssumption DEF Commit, Unlocked
        <3> QED  BY <2>2, <3>1, <3>2, <3>3, ActorStep
    <2>4. CASE a # "ok"
        BY <2>1, <2>2, <2>4, RelinkAnswer
    <2> QED  BY <2>3, <2>4
<1>6. CASE LookupForAdd(c) \/ LookupForDelete(c)
    BY <1>6, RelinkLookup DEF LookupForAdd, LookupForDelete, At, Relinks
<1>7. CASE \/ CreateEntity(c) \/ UpdateEntity(c) \/ AddObservations(c) \/ DeleteEntities(c)
           \/ DeleteIdChunk(c) \/ DeleteContentChunk(c) \/ CreateRelation(c) \/ DeleteRelations(c)
    <2>1. ~Relinks(c)
        BY <1>7 DEF CreateEntity, UpdateEntity, AddObservations, DeleteEntities, DeleteIdChunk,
               DeleteContentChunk, CreateRelation, DeleteRelations, At, Relinks
    <2>2. (\E g, k, n : Write(c, g, k, n)) \/ (\E k : ReadOnly(c, k))
        BY <1>7 DEF CreateEntity, UpdateEntity, AddObservations, DeleteEntities, DeleteIdChunk,
               DeleteContentChunk, DeletedChunk, CreateRelation, DeleteRelations
    <2> QED  BY <2>1, <2>2, RelinkWrite, RelinkReadOnly
<1>8. CASE DeleteEntity(c) \/ DeleteAllObservations(c) \/ DeleteRelation(c)
    <2>1. ~Relinks(c)
        BY <1>8 DEF DeleteEntity, DeleteAllObservations, DeleteRelation, At, Relinks
    <2>2. \E g : AutoCommit(g)
        BY <1>8 DEF DeleteEntity, DeleteAllObservations, DeleteRelation
    <2>3. \E a, n : Answer(c, a, n)
        BY <1>8 DEF DeleteEntity, DeleteAllObservations, DeleteRelation
    <2> QED  BY <2>1, <2>2, <2>3, RelinkAnswer
<1> QED
    BY <1>1, <1>2, <1>3, <1>4, <1>5, <1>6, <1>7, <1>8 DEF Work

LEMMA NextRelinks == Inv /\ RelinkInv /\ [Next]_vars => RelinkKept
<1> SUFFICES ASSUME Inv, RelinkInv, [Next]_vars PROVE RelinkKept
    OBVIOUS
<1>1. CASE Crash
    <2>1. db' = db /\ writer' = Nobody /\ Nobody \notin Clients
        BY <1>1, ClientsAssumption DEF Crash
    <2> QED  BY <2>1 DEF RelinkKept, RelinkInv, CommitsLinked
<1>2. ASSUME NEW c \in Clients, Invoke(c) PROVE RelinkKept
    <2>1. writer # c
        BY <1>2 DEF Invoke, Busy, Inv, WriterIsCurrent
    <2>2. \A d \in Clients \ {c} : session'[d] = session[d]
        BY <1>2 DEF Invoke, Inv, TypeOK
    <2> QED  BY <1>2, <2>1, <2>2, RelinkQuiet DEF Invoke
<1>3. ASSUME NEW c \in Clients, Work(c) \/ Fault(c) PROVE RelinkKept
    BY <1>3, RelinkRound, OtherRounds
<1>4. CASE UNCHANGED vars
    BY <1>4 DEF vars, RelinkKept, RelinkInv, CommitsLinked, AddedAreLinked, Relinks, Req
<1> QED
    BY <1>1, <1>2, <1>3, <1>4 DEF Next

-----------------------------------------------------------------------------
(* theorems *)

\* No sequence of calls, faults and crashes takes the database, the lock or a
\* session out of its type.
THEOREM TypeCorrect == Spec => []TypeOK
<1>1. Inv => TypeOK
    BY DEF Inv
<1> QED
    BY <1>1, Invariance, PTL

\* The foreign keys of the committed graph hold for any number of goroutines.
THEOREM Integrity == Spec => []RefIntegrity
<1>1. Inv => RefIntegrity
    BY DEF Inv, Sound, RefIntegrity
<1> QED
    BY <1>1, Invariance, PTL

\* The holder of the write lock works on top of everything committed.
THEOREM WriterCurrent == Spec => []WriterIsCurrent
<1>1. Inv => WriterIsCurrent
    BY DEF Inv
<1> QED
    BY <1>1, Invariance, PTL

\* Row ids are handed out once.
THEOREM IdsFresh == Spec => IdsNeverReused
<1>1. Inv /\ [Next]_vars => [NumberedAfter(db, db')]_vars
    BY NextInv
<1> QED
    BY <1>1, Invariance, PTL DEF Spec, IdsNeverReused

\* UpdateRelations (relations.go:58-126) links only entities that exist when it commits,
\* with a driver that does not enforce foreign keys too: the look-ups of its transaction
\* cannot be overtaken by the deletes of others.
THEOREM RelinkedExist == Spec => UpdatedRelationsAreLinked
<1>1. Init => RelinkInv
    BY ClientsAssumption DEF Init, RelinkInv
<1>2. Inv /\ RelinkInv /\ [Next]_vars => RelinkInv'
    BY NextRelinks DEF RelinkKept
<1>3. Spec => []RelinkInv
    BY <1>1, <1>2, Invariance, PTL DEF Spec
<1>4. Inv /\ RelinkInv /\ [Next]_vars =>
        [ \A c \in Clients :
            At(c, "UpdateRelations", {"tx"}) /\ db' # db /\ session'[c].pc = "idle" =>
                \A r \in db'.relations \ db.relations :
                    Exists(db', r.source) /\ Exists(db', r.target) ]_vars
    BY NextRelinks DEF RelinkKept, CommitsLinked
<1> QED
    BY <1>3, <1>4, Invariance, PTL DEF Spec, UpdatedRelationsAreLinked

=============================================================================
