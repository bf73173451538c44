------------------------ MODULE GraphStoreRefinement ------------------------
(***************************************************************************)
(* GraphStore implements KnowledgeGraph: the committed tables, read back   *)
(* as a graph, change only by whole calls.  The open transactions have no  *)
(* image.                                                                  *)
(***************************************************************************)
EXTENDS GraphStore

Names(g) == {e.name : e \in g.entities}

TypeOfEntity(g, n) == (CHOOSE e \in g.entities : e.name = n).type

\* The observations of n as getEntityObservations selects them.
NotesOf(g, n) ==
    {[id |-> o.id, content |-> o.content] : o \in {p \in g.observations : p.entity = n}}

CopiesOf(g, t) == Cardinality({r \in g.relations : EndsOf(r) = t})

\* The graph that tables hold.
TypesIn(g) == [n \in Names(g) |-> TypeOfEntity(g, n)]
NotesIn(g) == [n \in Names(g) |-> NotesOf(g, n)]
LinksIn(g) == [t \in {EndsOf(r) : r \in g.relations} |-> CopiesOf(g, t)]

CallerOf(c) ==
    LET s == session[c]
    IN  [req |-> s.req,
         done |-> IF s.pc # "idle" /\ s.req.op = "CreateEntities" THEN s.next - 1 ELSE 0,
         answer |-> s.answer,
         count |-> IF s.pc = "idle" THEN s.count ELSE 0]

KG == INSTANCE KnowledgeGraph WITH
        type     <- TypesIn(db),
        notes    <- NotesIn(db),
        lastNote <- db.obsSeq,
        links    <- LinksIn(db),
        caller   <- [c \in Clients |-> CallerOf(c)]

\* Every call takes effect whole and at one instant, or not at all, and is
\* answered accordingly, although its statements interleave with those of the
\* other calls.  (BeginTx ... Commit in each operation of DBManager, with the
\* per-entity transactions of CreateEntities.)
CallsAreAtomic == KG!Spec

=============================================================================
