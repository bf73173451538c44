----------------------------- MODULE MCGraphReads -----------------------------
(* Four names joined by up to eight relations, a loop and cycles among them.  *)
EXTENDS GraphReads

CONSTANTS a, b, c, d

Dirs == {"out", "in", "both"}

Relations4 == {<<a, a>>, <<a, b>>, <<b, a>>, <<b, c>>, <<c, d>>, <<a, c>>,
               <<d, b>>, <<d, a>>}
Relations3 == {<<a, b>>, <<b, a>>, <<b, c>>, <<a, c>>}

GraphsOn(S, links) == {[names |-> S, links |-> L] : L \in SUBSET (links \cap (S \X S))}

Base == [op |-> "open", seeds |-> {a}, to |-> a, dir |-> "out",
         depth |-> 0, limit |-> 0, relations |-> TRUE]

Walks == {[Base EXCEPT !.op = "walk", !.dir = dir, !.depth = k, !.limit = m] :
             dir \in Dirs, k \in 0..3, m \in {0, 1, 3}}
Walks2 == {[w EXCEPT !.seeds = {a, b}] : w \in {x \in Walks : x.depth # 3}}
Paths == {[Base EXCEPT !.op = "path", !.dir = dir, !.to = c] : dir \in Dirs}
LongPaths == {[p EXCEPT !.to = d] : p \in Paths}
ShortReads ==
    {[Base EXCEPT !.seeds = {a, b}, !.relations = r] : r \in BOOLEAN}
    \cup {[Base EXCEPT !.op = "recent", !.limit = m] : m \in {0, 2}}
    \cup {[Base EXCEPT !.op = "neighbors", !.dir = dir, !.limit = m] :
             dir \in Dirs, m \in {0, 1}}
    \cup {[Base EXCEPT !.op = op, !.seeds = {}] : op \in {"open", "walk", "neighbors"}}
    \cup {[Base EXCEPT !.op = "path"]}

QuietReads == Walks \cup Walks2 \cup LongPaths \cup ShortReads
BusyReads == {r \in Paths \cup Walks : /\ r.dir # "in"
                                       /\ r.op = "walk" => r.depth \in {0, 2} /\ r.limit = 0}
             \cup {r \in ShortReads : r.op = "neighbors" => r.dir = "out"}

\* On its own, over every graph with all four names ...
QuietStarts == [graph : GraphsOn(Names, Relations4), read : QuietReads,
                others : {[names |-> {}, links |-> {}]}]

\* ... or beside sessions that create and delete three of them, from every graph on
\* some of the three.
BusyStarts == [graph : UNION {GraphsOn(S, Relations3) : S \in SUBSET {a, b, c}},
               read : BusyReads,
               others : {[names |-> {a, b, c}, links |-> Relations3]}]

MCStarts == QuietStarts \cup BusyStarts
===============================================================================
