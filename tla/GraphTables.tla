---------------------------- MODULE GraphTables ----------------------------
(***************************************************************************)
(* The database of one project: the three tables of dynamicSchema and the  *)
(* SQL statements the code issues against them.  A table is the set of its *)
(* rows; a statement is an operator from the tables to the tables, and     *)
(* what makes SQLite refuse it is an operator of its own.  Embeddings,     *)
(* timestamps and indexes are left out.                                    *)
(***************************************************************************)
EXTENDS Integers, Sequences, FiniteSets

CONSTANTS
    Text,          \* the strings in play: names, types, contents
    Empty,         \* the empty string
    Trim,          \* strings.TrimSpace, a function on Text
    ForeignKeys    \* does the driver enforce the FOREIGN KEY clauses?

ASSUME TextAssumption ==
    /\ Empty \in Text
    /\ Trim \in [Text -> Text]
    /\ Trim[Empty] = Empty
    /\ \A t \in Text : Trim[Trim[t]] = Trim[t]

ASSUME ForeignKeysAssumption == ForeignKeys \in BOOLEAN

IsBlank(t) == Trim[t] = Empty

EntityRow      == [name : Text, type : Text]
ObservationRow == [id : Nat, entity : Text, content : Text]
RelationRow    == [id : Nat, source : Text, target : Text, type : Text]
RelationTuple  == [source : Text, target : Text, type : Text]

Tables == [entities : SUBSET EntityRow, observations : SUBSET ObservationRow,
           relations : SUBSET RelationRow, obsSeq : Nat, relSeq : Nat]

\* A database freshly initialised by dynamicSchema; obsSeq and relSeq are the
\* AUTOINCREMENT counters, which never go back.
NoRows == [entities |-> {}, observations |-> {}, relations |-> {},
           obsSeq |-> 0, relSeq |-> 0]

Exists(g, n) == \E e \in g.entities : e.name = n

\* What FOREIGN KEY declares: every child row has its parents.
RefOk(g) ==
    /\ \A o \in g.observations : Exists(g, o.entity)
    /\ \A r \in g.relations : Exists(g, r.source) /\ Exists(g, r.target)

-----------------------------------------------------------------------------
(* entities *)

\* UPDATE entities SET entity_type, then INSERT when it changed no row.
UpsertEntity(g, n, t) ==
    [g EXCEPT !.entities = {e \in @ : e.name # n} \cup {[name |-> n, type |-> t]}]

SetType(g, n, t) ==
    [g EXCEPT !.entities =
        {e \in @ : e.name # n} \cup {[name |-> n, type |-> t] : e \in {d \in @ : d.name = n}}]

\* trg_entities_delete_cascade, for the entities that DELETE removed.
Cascade(g, gone) ==
    [g EXCEPT !.observations = {o \in @ : o.entity \notin gone},
              !.relations = {r \in @ : r.source \notin gone /\ r.target \notin gone}]

\* DELETE FROM entities WHERE name IN names: the trigger fires once for each
\* row deleted, so rows that refer to a name without an entity stay.
DeleteEntityRows(g, names) ==
    Cascade([g EXCEPT !.entities = {e \in @ : e.name \notin names}],
            {n \in names : Exists(g, n)})

\* The immediate FOREIGN KEY check at the end of that DELETE.
DeleteEntitiesAllowed(g, names) ==
    ForeignKeys =>
        LET gone == {n \in names : Exists(g, n)}
            left == DeleteEntityRows(g, names)
        IN  /\ \A o \in left.observations : o.entity \notin gone
            /\ \A r \in left.relations : {r.source, r.target} \cap gone = {}

-----------------------------------------------------------------------------
(* observations *)

\* The positions of contents that are not skipped as blank.
NonBlank(contents) == {i \in DOMAIN contents : ~IsBlank(contents[i])}

\* Mutant: id is a plain INTEGER PRIMARY KEY, numbered from the largest one present.
InsertObservationsNoAutoincrement(g, n, contents, kept) ==
    LET rank(i) == Cardinality({j \in kept : j <= i})
        ids == {o.id : o \in g.observations}
        top == IF ids = {} THEN 0 ELSE CHOOSE m \in ids : \A i \in ids : i <= m
    IN  [g EXCEPT
            !.observations = @ \cup {[id |-> top + rank(i), entity |-> n, content |-> contents[i]]
                                        : i \in kept},
            !.obsSeq = top + Cardinality(kept)]

\* One INSERT for each of the positions in kept, in order.
InsertObservations(g, n, contents, kept) ==
    LET rank(i) == Cardinality({j \in kept : j <= i})
    IN  [g EXCEPT
            !.observations = @ \cup {[id |-> g.obsSeq + rank(i), entity |-> n, content |-> contents[i]]
                                        : i \in kept},
            !.obsSeq = @ + Cardinality(kept)]

InsertObservationsAllowed(g, n, kept) == ForeignKeys /\ kept # {} => Exists(g, n)

ClearObservations(g, n) ==
    [g EXCEPT !.observations = {o \in @ : o.entity # n}]

DeleteObservationsById(g, n, ids) ==
    [g EXCEPT !.observations = {o \in @ : ~(o.entity = n /\ o.id \in ids)}]

DeleteObservationsByContent(g, n, contents) ==
    [g EXCEPT !.observations = {o \in @ : ~(o.entity = n /\ o.content \in contents)}]

-----------------------------------------------------------------------------
(* relations: no UNIQUE constraint, so a tuple may be stored several times *)

EndsOf(r) == [source |-> r.source, target |-> r.target, type |-> r.type]

InsertRelation(g, t) ==
    [g EXCEPT !.relations = @ \cup {[id |-> g.relSeq + 1, source |-> t.source,
                                     target |-> t.target, type |-> t.type]},
              !.relSeq = @ + 1]

\* Mutant: no FOREIGN KEY on target.
InsertRelationSourceOnly(g, t) == ForeignKeys => Exists(g, t.source)

InsertRelationAllowed(g, t) ==
    ForeignKeys => Exists(g, t.source) /\ Exists(g, t.target)

DeleteTuple(g, t) ==
    [g EXCEPT !.relations = {r \in @ : EndsOf(r) # t}]

-----------------------------------------------------------------------------
(* two states of the tables *)

\* The rows of h that are not in g were numbered after all those g ever had.
NumberedAfter(g, h) ==
    /\ g.obsSeq <= h.obsSeq /\ g.relSeq <= h.relSeq
    /\ \A o \in h.observations \ g.observations : o.id \in (g.obsSeq + 1)..h.obsSeq
    /\ \A r \in h.relations \ g.relations : r.id \in (g.relSeq + 1)..h.relSeq

=============================================================================
