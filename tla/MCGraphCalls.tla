---------------------------- MODULE MCGraphCalls ----------------------------
(***************************************************************************)
(* The strings of the instances of GraphStore that TLC checks, and for     *)
(* each run the calls its clients issue.  A run starts from an empty       *)
(* database, so its calls include those that fill it.                      *)
(***************************************************************************)
EXTENDS Sequences, TLC

MCText == {"", " ", "a", "b", " b", "T", "U", "x", "y", "z", "r", "s"}
MCTrim == [t \in MCText |-> CASE t = " " -> "" [] t = " b" -> "b" [] OTHER -> t]

Spec1(n, t, obs) == [name |-> n, type |-> t, obs |-> obs]
Create(items) == [op |-> "CreateEntities", entities |-> items]
Update(items) == [op |-> "UpdateEntities", updates |-> items]
Change(n, t, rep, mrg) == [name |-> n, type |-> t, replace |-> rep, merge |-> mrg]
Add(n, obs) == [op |-> "AddObservations", name |-> n, obs |-> obs]
Delete(n) == [op |-> "DeleteEntity", name |-> n]
DeleteAll(names) == [op |-> "DeleteEntities", names |-> names]
Prune(n, ids, contents) == [op |-> "DeleteObservations", name |-> n, ids |-> ids, contents |-> contents]
Tuple(a, b, t) == [source |-> a, target |-> b, type |-> t]
Link(tuples) == [op |-> "CreateRelations", relations |-> tuples]
Unlink(t) == [op |-> "DeleteRelation", tuple |-> t]
UnlinkAll(tuples) == [op |-> "DeleteRelations", relations |-> tuples]
Relink(changes) == [op |-> "UpdateRelations", changes |-> changes]
Move(a, b, t, na, nb, nt) == [source |-> a, target |-> b, type |-> t,
                              newSource |-> na, newTarget |-> nb, newType |-> nt]

\* Batches that fail in the middle, updates that write and updates that only
\* read, deletes racing with the lookups of other calls.
EntityCalls ==
    { Create(<<Spec1("a", "T", <<"x">>), Spec1("b", "T", <<"y">>)>>),
      Create(<<Spec1("a", "U", <<"y">>), Spec1("b", " ", <<"x">>)>>),
      Update(<<Change("a", "U", <<>>, <<" ", "y">>), Change("b", "", <<"x">>, <<>>)>>),
      Update(<<Change("a", "", <<>>, <<>>), Change("b", "U", <<>>, <<>>)>>),
      Update(<<>>), Create(<<>>),
      Add("a", <<"x", " ">>), Add("b", <<" ">>), Add("a", <<>>), Add(" ", <<"x">>),
      Delete("a"), Delete(""), DeleteAll(<<"a", "b">>) }

\* One call of each operation; the relinks succeed, and are refused, with the entities
\* that come and go.
EveryCall ==
    { Create(<<Spec1("a", "T", <<"x">>), Spec1("b", "T", <<"x">>)>>),
      Create(<<>>), Create(<<Spec1("a", "U", <<"y", "">>)>>),
      Update(<<>>), Update(<<Change("a", "U", <<>>, <<>>)>>),
      Add("a", <<"x">>),
      Prune("a", <<1>>, <<>>), Prune("a", <<>>, <<"x">>), Prune("a", <<>>, <<>>),
      Link(<<Tuple("a", "b", "r")>>),
      Relink(<<Move("a", " b", "r", "", "a", "s"), Move("b", "a", "r", "a", "b", "")>>),
      Unlink(Tuple("a", "b", "r")),
      UnlinkAll(<<Tuple("a", "b", "r"), Tuple("a", "a", "r")>>),
      Delete("a"), DeleteAll(<<"b", "a">>) }

\* Batches over the two other tables, long enough for several chunks, beside
\* the deletes that take their rows away.
FactCalls ==
    { Create(<<Spec1("a", "T", <<"x", "y">>), Spec1("b", "T", <<"x">>)>>),
      Add("a", <<"y">>),
      Prune("a", <<1, 2, 1>>, <<>>), Prune("a", <<2, 4>>, <<"x", "y">>),
      Prune("a", <<>>, <<"x", "z", "y">>), Prune("a", <<>>, <<>>), Prune(" ", <<1>>, <<>>),
      Link(<<Tuple("a", "a", "r"), Tuple("a", "b", "r")>>),
      Link(<<Tuple("a", "b", "r"), Tuple("a", "b", "")>>), Link(<<Tuple("a", "b", "r")>>),
      Relink(<<Move("a", " b", "r", "", "", ""), Move("b", "a", "r", "a", "x", "")>>),
      Relink(<<Move("a", "b", "r", "", "a", "s")>>),
      Unlink(Tuple("a", "b", "r")), Unlink(Tuple("", "b", "r")),
      UnlinkAll(<<Tuple("a", "b", "r"), Tuple("a", "a", "r")>>),
      DeleteAll(<<"b", "a", "a">>) }

\* The calls that may be issued twice ...
RepeatableCalls ==
    { Create(<<Spec1("a", "T", <<"x", "y">>), Spec1("b", "T", <<"x">>)>>),
      Create(<<Spec1("a", "U", <<"y">>), Spec1("b", "T", <<"x", "">>)>>),
      Update(<<Change("a", "U", <<"y", "x">>, <<>>), Change("b", "", <<"x", " ">>, <<>>)>>),
      Delete("a"), DeleteAll(<<"b">>),
      Prune("a", <<1, 2>>, <<"x">>), Prune("b", <<>>, <<>>),
      UnlinkAll(<<Tuple("a", "b", "r")>>), Unlink(Tuple("b", "a", "r")) }

\* ... and the calls that link entities.
LinkingCalls ==
    { Create(<<Spec1("a", "T", <<"x">>), Spec1("b", "T", <<"x">>)>>),
      Link(<<Tuple("a", "b", "r")>>), Relink(<<Move("a", "b", "r", "b", "a", "")>>),
      Unlink(Tuple("b", "a", "r")) }

=============================================================================
