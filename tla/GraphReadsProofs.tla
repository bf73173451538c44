--------------------------- MODULE GraphReadsProofs ---------------------------
(***************************************************************************)
(* Theorems about GraphReads, on every graph and whatever the other        *)
(* sessions commit: what a read answers, and how far Walk's limit can be   *)
(* exceeded.                                                               *)
(*                                                                         *)
(* Ball and PathTo are recursive functions.  SetInduction is what the      *)
(* proofs about them rest on: induction stated of a set of naturals.       *)
(***************************************************************************)
EXTENDS GraphReads, FiniteSetTheorems, WellFoundedInduction, TLAPS

\* Every nonempty set of naturals has a least element.
LEMMA LeastNat ==
    ASSUME NEW T \in SUBSET Nat, T # {}
    PROVE  \E m \in T : \A k \in T : m <= k
<1> DEFINE R == OpToRel(<, Nat)
<1>1. IsWellFoundedOn(R, Nat)
    BY NatLessThanWellFounded, Zenon
<1>2. \A x, y \in Nat : x < y => <<x, y>> \in R
    BY DEF OpToRel
<1> HIDE DEF R
<1>3. PICK m \in T : \A k \in T : ~ (<<k, m>> \in R)
    BY <1>1, WFMin
<1>4. ASSUME NEW k \in T PROVE m <= k
    <2>1. m \in Nat /\ k \in Nat /\ ~ (<<k, m>> \in R)
        BY <1>3
    <2>2. ~ (k < m)
        BY <2>1, <1>2
    <2> QED  BY <2>1, <2>2
<1> QED  BY <1>4

\* Induction over the naturals, as a fact about a set of them.
LEMMA SetInduction ==
    ASSUME NEW S \in SUBSET Nat, 0 \in S, \A n \in Nat : n \in S => n + 1 \in S
    PROVE  S = Nat
<1> SUFFICES ASSUME Nat \ S # {} PROVE FALSE
    OBVIOUS
<1>1. PICK m \in Nat \ S : \A k \in Nat \ S : m <= k
    BY LeastNat
<1>2. m - 1 \in Nat /\ m - 1 \in S
    BY <1>1
<1> QED  BY <1>1, <1>2

\* One round of a search from W.
Around(W, dir, L) == W \cup {v \in Names : \E u \in W : Hop(u, v, dir, L)}

\* The function that Ball defines by recursion, round by round ...
AreRounds(w, S, dir, d, L) ==
    w = [i \in 0..d |-> IF i = 0 THEN S ELSE Around(w[i - 1], dir, L)]

\* ... exists, and gives the ball.
LEMMA BallExists ==
    ASSUME NEW S \in SUBSET Names, NEW dir, NEW L, NEW d \in Nat
    PROVE  \E w : AreRounds(w, S, dir, d, L)
<1> DEFINE Rounds(n) == {w \in [0..n -> SUBSET Names] :
                            w[0] = S /\ \A i \in 1..n : w[i] = Around(w[i - 1], dir, L)}
           T == {n \in Nat : \E w : w \in Rounds(n)}
<1>1. 0 \in T
    <2>1. [i \in 0..0 |-> S] \in Rounds(0)
        OBVIOUS
    <2> QED  BY <2>1
<1>2. ASSUME NEW n \in Nat, n \in T PROVE n + 1 \in T
    <2>1. PICK w : w \in Rounds(n)
        BY <1>2
    <2> DEFINE z == [i \in 0..(n + 1) |-> IF i = n + 1 THEN Around(w[n], dir, L) ELSE w[i]]
    <2>2. w \in [0..n -> SUBSET Names] /\ w[0] = S
          /\ \A i \in 1..n : w[i] = Around(w[i - 1], dir, L)
        BY <2>1
    <2>3. Around(w[n], dir, L) \in SUBSET Names
        BY <2>2 DEF Around
    <2>4. z \in [0..(n + 1) -> SUBSET Names]
        BY <2>2, <2>3
    <2>5. z[0] = S
        BY <2>2
    <2>6. ASSUME NEW i \in 1..(n + 1) PROVE z[i] = Around(z[i - 1], dir, L)
        <3>0. i - 1 \in 0..n /\ i - 1 \in 0..(n + 1) /\ i - 1 # n + 1 /\ i \in 0..(n + 1)
            OBVIOUS
        <3>1. z[i - 1] = w[i - 1]
            BY <3>0
        <3>2. CASE i = n + 1
            <4>1. z[i] = Around(w[n], dir, L) /\ i - 1 = n
                BY <3>0, <3>2
            <4> QED  BY <3>1, <4>1
        <3>3. CASE i # n + 1
            <4>1. i \in 1..n /\ z[i] = w[i]
                BY <3>0, <3>3
            <4> QED  BY <2>2, <3>1, <4>1
        <3> QED  BY <3>2, <3>3
    <2> HIDE DEF z
    <2>7. z \in Rounds(n + 1)
        BY <2>4, <2>5, <2>6
    <2> QED  BY <2>7
<1> HIDE DEF T
<1>3. T \in SUBSET Nat
    BY DEF T
<1>4. d \in T
    BY <1>1, <1>2, <1>3, SetInduction
<1>5. PICK w : w \in Rounds(d)
    BY <1>4 DEF T
<1>6. w \in [0..d -> SUBSET Names] /\ w[0] = S /\ \A i \in 1..d : w[i] = Around(w[i - 1], dir, L)
    BY <1>5
<1>7. \A i \in 0..d : w[i] = IF i = 0 THEN S ELSE Around(w[i - 1], dir, L)
    BY <1>6
<1>8. w = [i \in 0..d |-> w[i]]
    BY <1>6
<1>9. w = [i \in 0..d |-> IF i = 0 THEN S ELSE Around(w[i - 1], dir, L)]
    BY <1>7, <1>8, Zenon
<1> QED  BY <1>9 DEF AreRounds

LEMMA BallByRounds ==
    ASSUME NEW S \in SUBSET Names, NEW dir, NEW L, NEW d \in Nat
    PROVE  \E w : /\ AreRounds(w, S, dir, d, L)
                  /\ Ball(S, dir, d, L) = w[d]
<1> DEFINE within == CHOOSE w : w = [i \in 0..d |-> IF i = 0 THEN S ELSE Around(w[i - 1], dir, L)]
<1>1. within = [i \in 0..d |-> IF i = 0 THEN S ELSE Around(within[i - 1], dir, L)]
    BY BallExists DEF AreRounds
<1>2. Ball(S, dir, d, L) = within[d]
    BY DEF Ball, Around
<1> QED  BY <1>1, <1>2 DEF AreRounds

\* What the rounds are made of.
LEMMA BallRounds ==
    ASSUME NEW S \in SUBSET Names, NEW dir, NEW L
    PROVE  /\ Ball(S, dir, 0, L) = S
           /\ \A d \in Nat : Ball(S, dir, d + 1, L) = Around(Ball(S, dir, d, L), dir, L)
<1>1. Ball(S, dir, 0, L) = S
    <2>1. PICK w : AreRounds(w, S, dir, 0, L) /\ Ball(S, dir, 0, L) = w[0]
        BY BallByRounds
    <2>2. w[0] = S
        BY <2>1 DEF AreRounds
    <2> QED  BY <2>1, <2>2
<1>2. ASSUME NEW d \in Nat PROVE Ball(S, dir, d + 1, L) = Around(Ball(S, dir, d, L), dir, L)
    <2>1. PICK w : AreRounds(w, S, dir, d, L) /\ Ball(S, dir, d, L) = w[d]
        BY BallByRounds
    <2>2. d + 1 \in Nat
        OBVIOUS
    <2>3. PICK z : AreRounds(z, S, dir, d + 1, L) /\ Ball(S, dir, d + 1, L) = z[d + 1]
        BY <2>2, BallByRounds
    <2>4. w[0] = S /\ \A i \in 1..d : w[i] = Around(w[i - 1], dir, L)
        BY <2>1 DEF AreRounds
    <2>5. z[0] = S /\ \A i \in 1..(d + 1) : z[i] = Around(z[i - 1], dir, L)
        BY <2>3 DEF AreRounds
    <2> DEFINE T == {n \in Nat : n <= d => z[n] = w[n]}
    <2>6. 0 \in T
        BY <2>4, <2>5
    <2>7. ASSUME NEW n \in Nat, n \in T PROVE n + 1 \in T
        <3>1. CASE n + 1 <= d
            <4>1. n + 1 \in 1..d /\ n + 1 \in 1..(d + 1) /\ (n + 1) - 1 = n
                BY <3>1
            <4>2. z[n] = w[n]
                BY <2>7, <3>1
            <4>3. z[n + 1] = Around(z[n], dir, L) /\ w[n + 1] = Around(w[n], dir, L)
                BY <2>4, <2>5, <4>1
            <4> QED  BY <4>2, <4>3
        <3>2. CASE ~ (n + 1 <= d)
            BY <3>2
        <3> QED  BY <3>1, <3>2
    <2> HIDE DEF T
    <2>8. T \in SUBSET Nat
        BY DEF T
    <2>9. d \in T
        BY <2>6, <2>7, <2>8, SetInduction
    <2>10. z[d] = w[d]
        BY <2>9 DEF T
    <2>11. d + 1 \in 1..(d + 1) /\ (d + 1) - 1 = d
        OBVIOUS
    <2>12. z[d + 1] = Around(z[d], dir, L)
        BY <2>5, <2>11
    <2> QED  BY <2>1, <2>3, <2>10, <2>12
<1> QED  BY <1>1, <1>2

\* A set that holds the seeds and is left by no hop holds every ball.
LEMMA BallInClosed ==
    ASSUME NEW S \in SUBSET Names, NEW dir, NEW L, NEW V, S \subseteq V,
           \A u \in V, v \in Names : Hop(u, v, dir, L) => v \in V
    PROVE  \A d \in Nat : Ball(S, dir, d, L) \subseteq V
<1> DEFINE T == {d \in Nat : Ball(S, dir, d, L) \subseteq V}
<1>1. 0 \in T
    BY BallRounds
<1>2. ASSUME NEW d \in Nat, d \in T PROVE d + 1 \in T
    <2>1. Ball(S, dir, d + 1, L) = Around(Ball(S, dir, d, L), dir, L)
        BY BallRounds
    <2> QED  BY <1>2, <2>1 DEF Around
<1>3. T \in SUBSET Nat
    OBVIOUS
<1> HIDE DEF T
<1>4. T = Nat
    BY <1>1, <1>2, <1>3, SetInduction
<1> QED  BY <1>4 DEF T

LEMMA BallInNames ==
    ASSUME NEW S \in SUBSET Names, NEW dir, NEW L, NEW d \in Nat
    PROVE  Ball(S, dir, d, L) \subseteq Names
BY BallInClosed

\* A ball grows with its radius ...
LEMMA BallGrows ==
    ASSUME NEW S \in SUBSET Names, NEW dir, NEW L, NEW d \in Nat, NEW e \in Nat, d <= e
    PROVE  Ball(S, dir, d, L) \subseteq Ball(S, dir, e, L)
<1> DEFINE T == {k \in Nat : Ball(S, dir, d, L) \subseteq Ball(S, dir, d + k, L)}
<1>1. 0 \in T
    <2>1. d + 0 = d
        OBVIOUS
    <2> QED  BY <2>1
<1>2. ASSUME NEW k \in Nat, k \in T PROVE k + 1 \in T
    <2>1. d + k \in Nat /\ d + (k + 1) = (d + k) + 1
        OBVIOUS
    <2>2. Ball(S, dir, (d + k) + 1, L) = Around(Ball(S, dir, d + k, L), dir, L)
        BY <2>1, BallRounds
    <2>3. Ball(S, dir, d + k, L) \subseteq Ball(S, dir, d + (k + 1), L)
        BY <2>1, <2>2 DEF Around
    <2> QED  BY <1>2, <2>3
<1>3. T \in SUBSET Nat
    OBVIOUS
<1> HIDE DEF T
<1>4. T = Nat
    BY <1>1, <1>2, <1>3, SetInduction
<1>5. e - d \in Nat /\ d + (e - d) = e
    OBVIOUS
<1>6. Ball(S, dir, d, L) \subseteq Ball(S, dir, d + (e - d), L)
    BY <1>4, <1>5 DEF T
<1> QED  BY <1>5, <1>6

\* ... and with the relations.
LEMMA BallOfMore ==
    ASSUME NEW S \in SUBSET Names, NEW dir, NEW L, NEW M, L \subseteq M, NEW d \in Nat
    PROVE  Ball(S, dir, d, L) \subseteq Ball(S, dir, d, M)
<1> DEFINE T == {k \in Nat : Ball(S, dir, k, L) \subseteq Ball(S, dir, k, M)}
<1>1. 0 \in T
    BY BallRounds
<1>2. ASSUME NEW k \in Nat, k \in T PROVE k + 1 \in T
    <2>1. /\ Ball(S, dir, k + 1, L) = Around(Ball(S, dir, k, L), dir, L)
          /\ Ball(S, dir, k + 1, M) = Around(Ball(S, dir, k, M), dir, M)
        BY BallRounds
    <2> QED  BY <1>2, <2>1 DEF Around, Hop
<1>3. T \in SUBSET Nat
    OBVIOUS
<1> HIDE DEF T
<1>4. T = Nat
    BY <1>1, <1>2, <1>3, SetInduction
<1> QED  BY <1>4 DEF T

-----------------------------------------------------------------------------
(* The graph, the call and its rows.                                       *)

\* The committed graph and what is recorded of it during the call.
HistoryInv ==
    /\ WellFormed(graph) /\ WellFormed(always)
    /\ others.names \subseteq Names /\ others.links \subseteq Linkable
    /\ ever \subseteq Linkable /\ graph.links \subseteq ever
    /\ always.links \subseteq graph.links /\ always.names \subseteq graph.names

\* The call: its variables, and which statements it can be at.
CallInv ==
    /\ read \in Call
    /\ read.op = "path" => \A m, n \in read.seeds : m = n
    /\ pc \in {"links", "round", "answer", "obs", "touching", "done", "failed"}
    /\ pc = "links" => read.op \in {"neighbors", "walk", "path"} /\ read.seeds # {}
    /\ pc = "round" => read.op = "walk" /\ read.seeds # {}
    /\ pc = "touching" => read.op \in {"open", "recent"}
    /\ pc \in {"links", "round", "answer"} => rows = {} /\ ents = {}
    /\ pc \in {"touching", "done"} => rows = {}
    /\ level \subseteq visited /\ visited \subseteq Names
    /\ read.op # "path" => wanted \subseteq Names
    /\ depth \in Nat
    /\ DOMAIN parent \subseteq visited /\ parent \in [DOMAIN parent -> Names]
    /\ rows \subseteq Names /\ ents \subseteq Names

callVars == <<read, pc, search, wanted, rows, ents, rels>>

\* A commit of another session moves only the graph and its history: the links there
\* have ever been grow, those there always were shrink.
LEMMA CommitMoves ==
    ASSUME NEW g, WellFormed(g), g.links \subseteq Linkable, HistoryInv, Commit(g)
    PROVE  /\ HistoryInv'
           /\ UNCHANGED <<callVars, others>>
           /\ ever \subseteq ever'
           /\ always'.links \subseteq always.links /\ always'.names \subseteq always.names
<1> USE DEF HistoryInv
<1>1. /\ graph' = g /\ ever' = ever \cup g.links
      /\ always' = [names |-> always.names \cap g.names, links |-> always.links \cap g.links]
      /\ UNCHANGED <<callVars, others>>
    BY DEF Commit, callVars
<1>2. WellFormed(graph')
    BY <1>1
<1>3. WellFormed(always')
    BY <1>1 DEF WellFormed
<1>4. always'.links = always.links \cap g.links /\ always'.names = always.names \cap g.names
    BY <1>1
<1> QED  BY <1>1, <1>2, <1>3, <1>4 DEF WellFormed

LEMMA OthersMove ==
    ASSUME HistoryInv, Others
    PROVE  /\ HistoryInv'
           /\ UNCHANGED <<callVars, others>>
           /\ ever \subseteq ever'
           /\ always'.links \subseteq always.links /\ always'.names \subseteq always.names
<1> DEFINE Moved == /\ HistoryInv'
                    /\ UNCHANGED <<callVars, others>>
                    /\ ever \subseteq ever'
                    /\ always'.links \subseteq always.links /\ always'.names \subseteq always.names
<1>1. /\ graph = [names |-> graph.names, links |-> graph.links]
      /\ graph.names \subseteq Names /\ graph.links \subseteq graph.names \X graph.names
      /\ graph.links \subseteq Linkable
    BY DEF HistoryInv, WellFormed
<1>2. ASSUME NEW n \in others.names, Store(n) PROVE Moved
    <2> DEFINE g == [graph EXCEPT !.names = @ \cup {n}]
    <2>1. g = [names |-> graph.names \cup {n}, links |-> graph.links]
        BY <1>1
    <2>2. WellFormed(g) /\ g.links \subseteq Linkable
        BY <1>1, <2>1, <1>2 DEF WellFormed, HistoryInv
    <2>3. Commit(g)
        BY <1>2 DEF Store
    <2> HIDE DEF g
    <2> QED  BY <2>2, <2>3, CommitMoves
<1>3. ASSUME NEW n \in others.names, Forget(n) PROVE Moved
    <2> DEFINE g == [names |-> graph.names \ {n},
                     links |-> {l \in graph.links : n \notin {l[1], l[2]}}]
    <2>1. \A l \in g.links : l \in g.names \X g.names
        BY <1>1
    <2>2. WellFormed(g) /\ g.links \subseteq Linkable
        BY <1>1, <2>1 DEF WellFormed
    <2>3. Commit(g)
        BY <1>3 DEF Forget
    <2> HIDE DEF g
    <2> QED  BY <2>2, <2>3, CommitMoves
<1>4. ASSUME NEW l \in others.links, Link(l) PROVE Moved
    <2> DEFINE g == [graph EXCEPT !.links = @ \cup {l}]
    <2>1. g = [names |-> graph.names, links |-> graph.links \cup {l}]
        BY <1>1
    <2>2. l \in Linkable /\ l[1] \in graph.names /\ l[2] \in graph.names
        BY <1>4 DEF Link, HistoryInv
    <2>3. l \in graph.names \X graph.names
        BY <2>2, ReadsAssumption
    <2>4. WellFormed(g) /\ g.links \subseteq Linkable
        BY <1>1, <2>1, <2>2, <2>3 DEF WellFormed
    <2>5. Commit(g)
        BY <1>4 DEF Link
    <2> HIDE DEF g
    <2> QED  BY <2>4, <2>5, CommitMoves
<1>5. ASSUME NEW l \in others.links, Unlink(l) PROVE Moved
    <2> DEFINE g == [graph EXCEPT !.links = @ \ {l}]
    <2> DEFINE rest == graph.links \ {l}
    <2>0. g = [graph EXCEPT !.links = rest]
        OBVIOUS
    <2>1. g = [names |-> graph.names, links |-> rest] /\ rest \subseteq graph.links
        <3> HIDE DEF g
        <3>1. rest \subseteq graph.links
            OBVIOUS
        <3> HIDE DEF rest
        <3> QED  BY <1>1, <2>0, <3>1
    <2>2. WellFormed(g) /\ g.links \subseteq Linkable
        BY <1>1, <2>1 DEF WellFormed
    <2>3. Commit(g)
        BY <1>5 DEF Unlink
    <2> HIDE DEF g
    <2> QED  BY <2>2, <2>3, CommitMoves
<1> QED  BY <1>2, <1>3, <1>4, <1>5 DEF Others

\* The statements of the call leave the graph alone.
LEMMA CallMoves ==
    ASSUME Step \/ Fail
    PROVE  UNCHANGED <<graph, others, ever, always, read>>
BY DEF Step, QueryNeighbors, QueryRound, EndRound, SearchLevel, QueryRows, QueryObservations,
       SkipEntity, EndRows, QueryRelations, Fail

LEMMA InitCall == Init => HistoryInv /\ CallInv
<1> SUFFICES ASSUME Init PROVE HistoryInv /\ CallInv
    OBVIOUS
<1>1. PICK start \in Starts : graph = start.graph /\ read = start.read /\ others = start.others
    BY DEF Init
<1>2. HistoryInv
    BY <1>1, ReadsAssumption DEF Init, HistoryInv
<1>3. CallInv
    <2>1. read \in Call /\ (read.op = "path" => \A m, n \in read.seeds : m = n)
        BY <1>1, ReadsAssumption
    <2>2. read.op \in {"open", "recent", "neighbors", "walk", "path"} /\ read.seeds \in SUBSET Names
        BY <2>1 DEF Call
    <2>3. pc \in {"links", "answer", "done"}
        BY DEF Init, FirstStatement
    <2>4. pc = "links" => read.op \in {"neighbors", "walk", "path"} /\ read.seeds # {}
        BY <2>2 DEF Init, FirstStatement
    <2> QED  BY <2>1, <2>2, <2>3, <2>4 DEF Init, CallInv
<1> QED  BY <1>2, <1>3

LEMMA NextHistory ==
    ASSUME HistoryInv, [Next]_vars
    PROVE  HistoryInv'
<1>1. CASE Others
    BY <1>1, OthersMove
<1>2. CASE Step \/ Fail
    BY <1>2, CallMoves DEF HistoryInv
<1>3. CASE UNCHANGED vars
    BY <1>3 DEF HistoryInv, vars
<1> QED  BY <1>1, <1>2, <1>3 DEF Next

LEMMA NextCall ==
    ASSUME HistoryInv, CallInv, [Next]_vars
    PROVE  CallInv'
<1> USE DEF CallInv
<1>0. graph.names \subseteq Names /\ graph.links \subseteq Names \X Names
    BY DEF HistoryInv, WellFormed
<1>1. ASSUME NEW L \in SUBSET graph.links PROVE EndsOf(L) \subseteq Names
    BY <1>0 DEF EndsOf
<1>2. ASSUME NEW dir PROVE Incident(level, dir, graph.links) \in SUBSET graph.links
    BY DEF Incident
<1>3. CASE QueryNeighbors
    <2>1. \A L \in Limited(Incident(level, read.dir, graph.links), read.limit) : L \in SUBSET graph.links
        BY <1>2 DEF Limited, AtMost
    <2>2. wanted' \subseteq Names
        BY <1>1, <1>3, <2>1 DEF QueryNeighbors
    <2> QED  BY <1>3, <2>2 DEF QueryNeighbors, search
<1>4. CASE QueryRound
    <2>1. wanted' \subseteq Names
        BY <1>1, <1>2, <1>4 DEF QueryRound
    <2> QED  BY <1>4, <2>1 DEF QueryRound, search
<1>5. CASE EndRound
    <2>1. PICK N \in Added((wanted \cap graph.names) \ visited) :
             /\ level' = N
             /\ visited' = visited \cup N
             /\ \/ pc' = "links" /\ UNCHANGED wanted
                \/ pc' = "answer" /\ wanted' = visited'
        BY <1>5 DEF EndRound
    <2>2. N \subseteq Names
        BY <1>0, <2>1 DEF Added, AtMost
    <2>3. pc = "round" /\ depth' = depth + 1 /\ UNCHANGED <<read, parent, rows, ents>>
        BY <1>5 DEF EndRound
    <2> QED  BY <2>1, <2>2, <2>3
<1>6. CASE SearchLevel
    <2>1. Fresh \subseteq Names
        BY DEF Fresh
    <2>2. PICK par \in [Fresh -> level] :
             parent' = [v \in DOMAIN parent \cup Fresh |-> IF v \in Fresh THEN par[v] ELSE parent[v]]
        BY <1>6 DEF SearchLevel
    <2>3. visited' = visited \cup Fresh /\ level' = Fresh
        BY <1>6 DEF SearchLevel, NextLevels
    <2>4. \A v \in Fresh : par[v] \in Names
        BY <2>2
    <2>5. \A v \in DOMAIN parent : parent[v] \in Names
        OBVIOUS
    <2>6. DOMAIN parent' \subseteq visited' /\ parent' \in [DOMAIN parent' -> Names]
        BY <2>1, <2>2, <2>3, <2>4, <2>5
    <2>8. pc' \in {"answer", "done", "links"} /\ pc = "links" /\ read.op = "path"
        BY <1>6 DEF SearchLevel
    <2>9. UNCHANGED <<read, depth, rows, ents>>
        BY <1>6 DEF SearchLevel
    <2> QED  BY <2>1, <2>3, <2>6, <2>8, <2>9
<1>7. CASE QueryRows
    <2>1. rows' \subseteq Names
        BY <1>0, <1>7 DEF QueryRows, AtMost
    <2> QED  BY <1>7, <2>1 DEF QueryRows, search
<1>8. CASE QueryObservations \/ SkipEntity
    BY <1>8 DEF QueryObservations, SkipEntity, search
<1>9. CASE EndRows
    BY <1>9 DEF EndRows, search
<1>10. CASE QueryRelations
    BY <1>10 DEF QueryRelations, search
<1>11. CASE Fail
    BY <1>11 DEF Fail
<1>12. CASE Others
    BY <1>12, OthersMove DEF callVars, search
<1>13. CASE UNCHANGED vars
    BY <1>13 DEF vars
<1> QED  BY <1>3, <1>4, <1>5, <1>6, <1>7, <1>8, <1>9, <1>10, <1>11, <1>12, <1>13 DEF Next, Step

Nodes(p) == {p[i] : i \in 1..Len(p)}

\* The entities are those asked for, with all of them that stay.
Fetched == rows \cup ents \subseteq wanted /\ wanted \cap always.names \subseteq rows \cup ents

\* The entities of an answer beside the names its search found.
RowsInv ==
    /\ read.op # "recent" =>
          /\ pc \in {"obs", "touching"} => Fetched
          /\ pc = "done" => Fetched \/ (read.op = "path" /\ path = <<>> /\ ents = {})
    /\ read.op = "path" =>
          /\ pc = "links" => path = <<>>
          /\ pc \in {"answer", "obs"} => wanted = Nodes(path)
          /\ pc = "done" => wanted = Nodes(path) \/ (path = <<>> /\ ents = {})

\* The relations of an answer that are read last, beside its entities.
TouchInv ==
    read.op \in {"open", "recent"} =>
       /\ pc = "answer" => rels = {}
       /\ pc \in {"obs", "touching"} => rels = {}
       /\ pc = "done" /\ read.relations =>
             /\ Incident(ents, "both", always.links) \subseteq rels
             /\ rels \subseteq Incident(ents, "both", ever)

LEMMA IncidentMono ==
    ASSUME NEW S, NEW V, S \subseteq V, NEW dir, NEW L, NEW M, L \subseteq M
    PROVE  Incident(S, dir, L) \subseteq Incident(V, dir, M)
BY DEF Incident

LEMMA InitRows == Init => RowsInv /\ TouchInv
<1> SUFFICES ASSUME Init PROVE RowsInv /\ TouchInv
    OBVIOUS
<1>1. rows = {} /\ ents = {} /\ rels = {} /\ path = <<>> /\ wanted = read.seeds
    BY DEF Init
<1>2. pc = "links" \/ pc = "answer" \/ pc = "done"
    BY DEF Init, FirstStatement
<1>3. read.op \in {"open", "recent", "neighbors", "walk", "path"}
    BY InitCall DEF CallInv, Call
<1>4. /\ pc = "answer" => read.op \in {"open", "recent"}
      /\ pc = "done" => read.op = "path" \/ read.seeds = {}
    BY <1>2, <1>3 DEF Init, FirstStatement
<1>5. Incident({}, "both", always.links) = {} /\ Incident({}, "both", ever) = {}
    BY DEF Incident
<1>6. RowsInv
    BY <1>1, <1>2, <1>4 DEF RowsInv, Fetched
<1>7. TouchInv
    BY <1>1, <1>2, <1>5 DEF TouchInv
<1> QED  BY <1>6, <1>7

LEMMA NextRows ==
    ASSUME HistoryInv, CallInv, RowsInv, [Next]_vars
    PROVE  RowsInv'
<1> USE DEF RowsInv
<1>0. always.names \subseteq graph.names
    BY DEF HistoryInv
<1>1. CASE QueryNeighbors \/ QueryRound
    BY <1>1 DEF QueryNeighbors, QueryRound
<1>2. CASE EndRound
    <2>1. pc = "round" /\ pc' \in {"links", "answer"} /\ read' = read
        BY <1>2 DEF EndRound
    <2> QED  BY <2>1 DEF CallInv
<1>3. CASE SearchLevel
    <2>1. pc = "links" /\ read.op = "path" /\ read' = read /\ UNCHANGED <<rows, ents>>
        BY <1>3 DEF SearchLevel
    <2>2. rows = {} /\ ents = {} /\ path = <<>>
        BY <2>1 DEF CallInv
    <2>3. \/ pc' = "answer" /\ wanted' = Nodes(path')
          \/ pc' \in {"links", "done"} /\ path' = path
        BY <1>3 DEF SearchLevel, Nodes
    <2> QED  BY <2>1, <2>2, <2>3
<1>4. CASE QueryRows
    <2>1. pc = "answer" /\ pc' = "obs" /\ UNCHANGED <<read, wanted, ents, path, always>>
        BY <1>4 DEF QueryRows, search
    <2>2. read.op # "recent" => rows' = wanted \cap graph.names
        BY <1>4 DEF QueryRows
    <2>3. ents = {}
        BY <2>1 DEF CallInv
    <2> QED  BY <1>0, <2>1, <2>2, <2>3 DEF Fetched
<1>5. CASE QueryObservations
    BY <1>5 DEF QueryObservations, Fetched, search
<1>6. CASE SkipEntity
    BY <1>6 DEF SkipEntity, search
<1>7. CASE EndRows
    BY <1>7 DEF EndRows, Fetched, search
<1>8. CASE QueryRelations
    BY <1>8 DEF QueryRelations, Fetched, CallInv, search
<1>9. CASE Fail
    BY <1>9 DEF Fail
<1>10. CASE Others
    BY <1>10, OthersMove DEF callVars, search, Fetched
<1>11. CASE UNCHANGED vars
    BY <1>11 DEF vars, search, Fetched
<1> QED  BY <1>1, <1>2, <1>3, <1>4, <1>5, <1>6, <1>7, <1>8, <1>9, <1>10, <1>11 DEF Next, Step

LEMMA NextTouch ==
    ASSUME HistoryInv, CallInv, TouchInv, [Next]_vars
    PROVE  TouchInv'
<1> USE DEF TouchInv
<1>0. always.links \subseteq graph.links /\ graph.links \subseteq ever
    BY DEF HistoryInv
<1>1. CASE QueryNeighbors \/ QueryRound \/ EndRound \/ SearchLevel
    BY <1>1 DEF QueryNeighbors, QueryRound, EndRound, SearchLevel, CallInv
<1>2. CASE QueryRows \/ QueryObservations \/ SkipEntity
    BY <1>2 DEF QueryRows, QueryObservations, SkipEntity
<1>3. CASE EndRows
    <2>1. pc = "obs" /\ UNCHANGED <<read, rels, ents, always, ever>>
        BY <1>3 DEF EndRows
    <2>2. \/ pc' = "touching"
          \/ pc' = "done" /\ (read.op \in {"open", "recent"} /\ read.relations => ents = {})
        BY <1>3 DEF EndRows
    <2>3. Incident({}, "both", always.links) = {}
        BY DEF Incident
    <2> QED  BY <2>1, <2>2, <2>3
<1>4. CASE QueryRelations
    <2>1. /\ pc' = "done" /\ rels' = Incident(ents, "both", graph.links)
          /\ UNCHANGED <<read, ents, always, ever>>
        BY <1>4 DEF QueryRelations
    <2> QED  BY <1>0, <2>1, IncidentMono
<1>5. CASE Fail
    BY <1>5 DEF Fail
<1>6. CASE Others
    <2>1. /\ UNCHANGED <<read, pc, rels, ents>>
          /\ always'.links \subseteq always.links /\ ever \subseteq ever'
        BY <1>6, OthersMove DEF callVars
    <2>2. /\ Incident(ents, "both", always'.links) \subseteq Incident(ents, "both", always.links)
          /\ Incident(ents, "both", ever) \subseteq Incident(ents, "both", ever')
        BY <2>1, IncidentMono
    <2> QED  BY <2>1, <2>2
<1>7. CASE UNCHANGED vars
    BY <1>7 DEF vars
<1> QED  BY <1>1, <1>2, <1>3, <1>4, <1>5, <1>6, <1>7 DEF Next, Step

-----------------------------------------------------------------------------
(* OpenNodes, GetNeighbors and Walk.                                       *)

Lasting(d) == Ball(read.seeds, read.dir, d, always.links)
Reached(d) == Ball(read.seeds, read.dir, d, ever)

Expanding == read.op \in {"open", "neighbors", "walk"} /\ read.limit = 0

\* The relations at the nodes of the balls of radius d.
Touched(d) ==
    /\ Incident(Lasting(d), read.dir, always.links) \subseteq rels
    /\ rels \subseteq Incident(Reached(d), read.dir, ever)

\* What a search holds between two of its statements: it has every node that stayed
\* within depth rounds of the seeds, and only nodes that were within them at some moment;
\* no lasting relation leaves the nodes it is done with; and it has their relations.
GatherInv ==
    Expanding =>
       /\ pc \in {"links", "round"} =>
             /\ read.op = "neighbors" => level = read.seeds /\ rels = {}
             /\ read.op = "walk" =>
                   /\ depth < MaxDepth
                   /\ Lasting(depth) \subseteq visited /\ visited \subseteq Reached(depth)
                   /\ \A u \in visited \ level, v \in Names :
                         Hop(u, v, read.dir, always.links) => v \in visited
                   /\ rels \subseteq Incident(Reached(MaxDepth - 1), read.dir, ever)
                   /\ Incident(visited \ level, read.dir, always.links) \subseteq rels
       /\ pc = "round" =>
             /\ wanted \subseteq Reached(depth + 1)
             /\ \A u \in level, v \in Names : Hop(u, v, read.dir, always.links) => v \in wanted
             /\ Incident(visited, read.dir, always.links) \subseteq rels
       /\ pc \in {"answer", "obs", "touching", "done"} =>
             /\ Lasting(Radius) \subseteq wanted /\ wanted \subseteq Reached(Radius)
             /\ read.op # "open" => Touched(Radius - 1)

LEMMA RadiusType ==
    ASSUME CallInv, read.op \in {"open", "neighbors", "walk"}
    PROVE  /\ MaxDepth \in Nat /\ MaxDepth >= 1 /\ Radius \in Nat
           /\ read.op = "open" => Radius = 0
           /\ read.op = "neighbors" => Radius = 1
           /\ read.op = "walk" => Radius = MaxDepth
           /\ read.seeds \in SUBSET Names
BY DEF CallInv, Call, MaxDepth, Radius

\* Without any seed there is nothing to reach.
LEMMA NothingReached ==
    ASSUME NEW dir, NEW L, NEW d \in Nat
    PROVE  Ball({}, dir, d, L) = {} /\ Incident({}, dir, L) = {}
<1>1. Incident({}, dir, L) = {}
    BY DEF Incident
<1>2. Ball({}, dir, d, L) \subseteq {}
    <2> DEFINE V == {}
    <2>1. \A u \in V, v \in Names : Hop(u, v, dir, L) => v \in V
        OBVIOUS
    <2>2. {} \in SUBSET Names /\ {} \subseteq V
        OBVIOUS
    <2> QED  BY <2>1, <2>2, BallInClosed
<1> QED  BY <1>1, <1>2

\* The ends of the relations at W that are not in W are one hop away.
LEMMA EndsAreHops ==
    ASSUME NEW W, NEW dir, NEW L, L \subseteq Names \X Names
    PROVE  /\ W \cup EndsOf(Incident(W, dir, L)) \subseteq Around(W, dir, L)
           /\ \A u \in W, v \in Names : Hop(u, v, dir, L) => v \in EndsOf(Incident(W, dir, L))
<1>1. ASSUME NEW v \in EndsOf(Incident(W, dir, L)) PROVE v \in Around(W, dir, L)
    <2>1. PICK l \in L : /\ \/ dir # "in" /\ l[1] \in W
                            \/ dir # "out" /\ l[2] \in W
                         /\ v = l[1] \/ v = l[2]
        BY DEF EndsOf, Incident
    <2>2. l = <<l[1], l[2]>> /\ l[1] \in Names /\ l[2] \in Names
        BY <2>1
    <2>3. v \in W \/ \E u \in W : Hop(u, v, dir, L)
        BY <2>1, <2>2 DEF Hop
    <2> QED  BY <2>1, <2>2, <2>3 DEF Around
<1>2. W \subseteq Around(W, dir, L)
    BY DEF Around
<1>3. ASSUME NEW u \in W, NEW v \in Names, Hop(u, v, dir, L)
      PROVE  v \in EndsOf(Incident(W, dir, L))
    <2>1. CASE dir # "in" /\ <<u, v>> \in L
        <3>1. <<u, v>> \in Incident(W, dir, L)
            BY <2>1 DEF Incident
        <3> QED  BY <3>1 DEF EndsOf
    <2>2. CASE dir # "out" /\ <<v, u>> \in L
        <3>1. <<v, u>> \in Incident(W, dir, L)
            BY <2>2 DEF Incident
        <3> QED  BY <3>1 DEF EndsOf
    <2> QED  BY <1>3, <2>1, <2>2 DEF Hop
<1> QED  BY <1>1, <1>2, <1>3

LEMMA AroundMono ==
    ASSUME NEW W, NEW V, W \subseteq V, NEW dir, NEW L, NEW M, L \subseteq M
    PROVE  Around(W, dir, L) \subseteq Around(V, dir, M)
BY DEF Around, Hop

LEMMA InitGather == Init => GatherInv
<1> SUFFICES ASSUME Init, Expanding PROVE GatherInv
    BY DEF GatherInv
<1>0. CallInv /\ HistoryInv
    BY InitCall
<1>1. /\ level = read.seeds /\ visited = read.seeds /\ wanted = read.seeds
      /\ rels = {} /\ depth = 0 /\ pc = FirstStatement(read)
    BY DEF Init
<1>2. read.seeds \in SUBSET Names /\ MaxDepth \in Nat /\ MaxDepth >= 1 /\ Radius \in Nat
      /\ (read.op = "open" => Radius = 0) /\ (read.op = "neighbors" => Radius = 1)
      /\ (read.op = "walk" => Radius = MaxDepth)
    BY <1>0, RadiusType DEF Expanding
<1>3. Lasting(0) = read.seeds /\ Reached(0) = read.seeds
    BY <1>2, BallRounds DEF Lasting, Reached
<1>4. pc = "links" \/ (pc \in {"answer", "done"} /\ (read.op = "open" \/ read.seeds = {}))
    BY <1>1 DEF FirstStatement, Expanding
<1>5. CASE pc = "links"
    <2>1. Incident(visited \ level, read.dir, always.links) = {}
        BY <1>1, NothingReached DEF Incident
    <2> QED  BY <1>1, <1>2, <1>3, <1>5, <2>1 DEF GatherInv
<1>6. CASE pc \in {"answer", "done"}
    <2>1. CASE read.seeds = {}
        <3>1. Lasting(Radius) = {} /\ Reached(Radius) = {}
            BY <1>2, <2>1, NothingReached DEF Lasting, Reached
        <3>2. ASSUME read.op # "open" PROVE Touched(Radius - 1)
            <4>1. Radius - 1 \in Nat
                BY <1>2, <3>2 DEF Expanding
            <4>2. Lasting(Radius - 1) = {}
                BY <4>1, <2>1, NothingReached DEF Lasting
            <4> QED  BY <1>1, <4>2, NothingReached DEF Touched, Incident
        <3> QED  BY <1>1, <1>6, <2>1, <3>1, <3>2 DEF GatherInv
    <2>2. CASE read.op = "open"
        BY <1>1, <1>2, <1>3, <1>6, <2>2 DEF GatherInv
    <2> QED  BY <1>4, <1>6, <2>1, <2>2
<1> QED  BY <1>4, <1>5, <1>6

\* A round of GetNeighbors around nodes that a search may and must have reached.
LEMMA RoundReaches ==
    ASSUME HistoryInv, CallInv, NEW d \in Nat, NEW W, W \subseteq Reached(d)
    PROVE  LET L == Incident(W, read.dir, graph.links) IN
           /\ L \subseteq Incident(Reached(d), read.dir, ever)
           /\ W \cup EndsOf(L) \subseteq Reached(d + 1)
           /\ \A u \in W, v \in Names : Hop(u, v, read.dir, always.links) => v \in EndsOf(L)
           /\ Incident(W, read.dir, always.links) \subseteq L
<1> DEFINE L == Incident(W, read.dir, graph.links)
<1>1. /\ always.links \subseteq graph.links /\ graph.links \subseteq ever
      /\ graph.links \subseteq Names \X Names /\ read.seeds \in SUBSET Names
    BY DEF HistoryInv, WellFormed, CallInv, Call
<1>2. L \subseteq Incident(Reached(d), read.dir, ever)
    BY <1>1, IncidentMono
<1>3. W \cup EndsOf(L) \subseteq Around(W, read.dir, graph.links)
    BY <1>1, EndsAreHops
<1>4. Around(W, read.dir, graph.links) \subseteq Around(Reached(d), read.dir, ever)
    BY <1>1, AroundMono
<1>5. Reached(d + 1) = Around(Reached(d), read.dir, ever)
    BY <1>1, BallRounds DEF Reached
<1>6. \A u \in W, v \in Names : Hop(u, v, read.dir, graph.links) => v \in EndsOf(L)
    BY <1>1, EndsAreHops
<1>7. \A u \in W, v \in Names : Hop(u, v, read.dir, always.links) => v \in EndsOf(L)
    BY <1>1, <1>6 DEF Hop
<1>8. Incident(W, read.dir, always.links) \subseteq L
    BY <1>1, IncidentMono
<1> QED  BY <1>2, <1>3, <1>4, <1>5, <1>7, <1>8

LEMMA NeighborsGather ==
    ASSUME HistoryInv, CallInv, GatherInv, Expanding, QueryNeighbors
    PROVE  GatherInv'
<1> DEFINE L == Incident(level, read.dir, graph.links)
<1>1. /\ read.op = "neighbors" /\ pc' = "answer" /\ pc = "links"
      /\ rels' = L /\ wanted' = level \cup EndsOf(L)
      /\ UNCHANGED <<read, always, ever>>
    BY DEF QueryNeighbors, Limited, Expanding
<1>2. level = read.seeds /\ read.seeds \in SUBSET Names
    BY <1>1 DEF GatherInv, CallInv, Call
<1>3. Reached(0) = read.seeds /\ Lasting(0) = read.seeds
    BY <1>2, BallRounds DEF Reached, Lasting
<1>4. /\ L \subseteq Incident(Reached(0), read.dir, ever)
      /\ level \cup EndsOf(L) \subseteq Reached(0 + 1)
      /\ \A u \in level, v \in Names : Hop(u, v, read.dir, always.links) => v \in EndsOf(L)
      /\ Incident(level, read.dir, always.links) \subseteq L
    BY <1>2, <1>3, RoundReaches
<1>5. Lasting(0 + 1) = Around(Lasting(0), read.dir, always.links)
    BY <1>2, BallRounds DEF Lasting
<1>6. Lasting(1) \subseteq level \cup EndsOf(L)
    BY <1>2, <1>3, <1>4, <1>5 DEF Around
<1>7. Radius' = 1
    BY <1>1 DEF Radius
<1> HIDE DEF L
<1>8. /\ Lasting(1)' = Lasting(1) /\ Reached(1)' = Reached(1)
      /\ Lasting(0)' = Lasting(0) /\ Reached(0)' = Reached(0)
    BY <1>1 DEF Lasting, Reached
<1>9. Lasting(Radius)' = Lasting(1) /\ Reached(Radius)' = Reached(1)
    BY <1>7, <1>8 DEF Lasting, Reached
<1>10. Touched(Radius - 1)'
    <2>1. (Radius - 1)' = 0
        BY <1>7
    <2>2. Lasting(Radius - 1)' = Lasting(0) /\ Reached(Radius - 1)' = Reached(0)
        BY <1>8, <2>1 DEF Lasting, Reached
    <2> QED  BY <1>1, <1>2, <1>3, <1>4, <2>2 DEF Touched
<1>11. wanted' \subseteq Reached(1)
    BY <1>1, <1>4
<1> QED  BY <1>1, <1>6, <1>9, <1>10, <1>11 DEF GatherInv

LEMMA RoundGather ==
    ASSUME HistoryInv, CallInv, GatherInv, Expanding, QueryRound
    PROVE  GatherInv'
<1> DEFINE L == Incident(level, read.dir, graph.links)
<1>1. /\ read.op = "walk" /\ pc = "links" /\ pc' = "round"
      /\ rels' = rels \cup L /\ wanted' = level \cup EndsOf(L)
      /\ UNCHANGED <<read, always, ever, level, depth, visited>>
    BY DEF QueryRound, search
<1>2. /\ depth < MaxDepth
      /\ Lasting(depth) \subseteq visited /\ visited \subseteq Reached(depth)
      /\ \A u \in visited \ level, v \in Names : Hop(u, v, read.dir, always.links) => v \in visited
      /\ rels \subseteq Incident(Reached(MaxDepth - 1), read.dir, ever)
      /\ Incident(visited \ level, read.dir, always.links) \subseteq rels
    BY <1>1 DEF GatherInv
<1>3. depth \in Nat /\ level \subseteq visited /\ MaxDepth \in Nat /\ read.seeds \in SUBSET Names
    BY RadiusType DEF CallInv, Expanding
<1>4. /\ L \subseteq Incident(Reached(depth), read.dir, ever)
      /\ level \cup EndsOf(L) \subseteq Reached(depth + 1)
      /\ \A u \in level, v \in Names : Hop(u, v, read.dir, always.links) => v \in EndsOf(L)
      /\ Incident(level, read.dir, always.links) \subseteq L
    BY <1>2, <1>3, RoundReaches
<1>5. Reached(depth) \subseteq Reached(MaxDepth - 1)
    <2>1. MaxDepth - 1 \in Nat /\ depth <= MaxDepth - 1
        BY <1>2, <1>3
    <2> QED  BY <1>3, <2>1, BallGrows DEF Reached
<1>6. rels' \subseteq Incident(Reached(MaxDepth - 1), read.dir, ever)
    <2>1. Incident(Reached(depth), read.dir, ever) \subseteq Incident(Reached(MaxDepth - 1), read.dir, ever)
        BY <1>5, IncidentMono
    <2> QED  BY <1>1, <1>2, <1>4, <2>1
<1>7. Incident(visited, read.dir, always.links) \subseteq rels'
    <2>1. Incident(visited, read.dir, always.links)
              \subseteq Incident(visited \ level, read.dir, always.links)
                        \cup Incident(level, read.dir, always.links)
        BY DEF Incident
    <2> QED  BY <1>1, <1>2, <1>4, <2>1
<1>8. Incident(visited \ level, read.dir, always.links) \subseteq rels'
    BY <1>1, <1>2
<1> HIDE DEF L
<1>9. /\ Lasting(depth)' = Lasting(depth) /\ Reached(depth)' = Reached(depth)
      /\ Reached(depth + 1)' = Reached(depth + 1)
      /\ Reached(MaxDepth - 1)' = Reached(MaxDepth - 1) /\ MaxDepth' = MaxDepth
    BY <1>1 DEF Lasting, Reached, MaxDepth
<1> QED  BY <1>1, <1>2, <1>4, <1>6, <1>7, <1>8, <1>9 DEF GatherInv

LEMMA EndRoundGather ==
    ASSUME HistoryInv, CallInv, GatherInv, Expanding, EndRound
    PROVE  GatherInv'
<1> DEFINE N == (wanted \cap graph.names) \ visited
<1>1. /\ pc = "round" /\ level' = N /\ visited' = visited \cup N /\ depth' = depth + 1
      /\ UNCHANGED <<read, always, ever, rels>>
      /\ \/ pc' = "links" /\ wanted' = wanted /\ GoesOn(N, visited', depth')
         \/ pc' = "answer" /\ wanted' = visited' /\ ~GoesOn(N, visited', depth')
    BY DEF EndRound, Added, Expanding
<1>2. /\ read.op = "walk" /\ depth < MaxDepth
      /\ Lasting(depth) \subseteq visited /\ visited \subseteq Reached(depth)
      /\ \A u \in visited \ level, v \in Names : Hop(u, v, read.dir, always.links) => v \in visited
      /\ rels \subseteq Incident(Reached(MaxDepth - 1), read.dir, ever)
      /\ wanted \subseteq Reached(depth + 1)
      /\ \A u \in level, v \in Names : Hop(u, v, read.dir, always.links) => v \in wanted
      /\ Incident(visited, read.dir, always.links) \subseteq rels
    BY <1>1 DEF GatherInv, CallInv
<1>3. depth \in Nat /\ MaxDepth \in Nat /\ read.seeds \in SUBSET Names /\ depth + 1 <= MaxDepth
    BY <1>2, RadiusType DEF CallInv, Expanding
<1>4. ASSUME NEW u \in visited, NEW v \in Names, Hop(u, v, read.dir, always.links)
      PROVE  v \in visited \cup N
    <2>1. v \in graph.names
        BY <1>4 DEF HistoryInv, WellFormed, Hop
    <2> QED  BY <1>2, <1>4, <2>1
<1> HIDE DEF N
<1>5. Lasting(depth + 1) \subseteq visited'
    <2>1. Lasting(depth + 1) = Around(Lasting(depth), read.dir, always.links)
        BY <1>3, BallRounds DEF Lasting
    <2> QED  BY <1>1, <1>2, <1>4, <2>1 DEF Around
<1>6. visited' \subseteq Reached(depth + 1)
    <2>1. Reached(depth) \subseteq Reached(depth + 1)
        BY <1>3, BallGrows DEF Reached
    <2> QED  BY <1>1, <1>2, <2>1 DEF N
<1>7. /\ Lasting(depth)' = Lasting(depth + 1) /\ Reached(depth)' = Reached(depth + 1)
      /\ Reached(MaxDepth - 1)' = Reached(MaxDepth - 1) /\ MaxDepth' = MaxDepth
    BY <1>1 DEF Lasting, Reached, MaxDepth
<1>8. CASE GoesOn(N, visited', depth')
    <2>1. visited' \ level' \subseteq visited
        BY <1>1
    <2>2. Incident(visited' \ level', read.dir, always.links) \subseteq rels
        BY <1>2, <2>1 DEF Incident
    <2>3. \A u \in visited' \ level', v \in Names :
             Hop(u, v, read.dir, always.links) => v \in visited'
        BY <1>1, <1>4, <2>1
    <2>4. depth' < MaxDepth
        BY <1>8 DEF GoesOn
    <2> QED  BY <1>1, <1>2, <1>5, <1>6, <1>7, <1>8, <2>2, <2>3, <2>4 DEF GatherInv
<1>9. CASE ~GoesOn(N, visited', depth')
    <2>1. depth + 1 = MaxDepth \/ N = {}
        BY <1>1, <1>3, <1>9 DEF GoesOn, Expanding
    <2>2. MaxDepth - 1 \in Nat /\ depth <= MaxDepth - 1
        BY <1>2, <1>3
    <2>3. Lasting(MaxDepth) \subseteq visited' /\ Lasting(MaxDepth - 1) \subseteq visited
        <3>1. CASE depth + 1 = MaxDepth
            <4>1. MaxDepth - 1 = depth
                BY <1>3, <3>1
            <4> QED  BY <1>2, <1>5, <3>1, <4>1
        <3>2. CASE N = {}
            <4>1. Lasting(0) \subseteq Lasting(depth)
                BY <1>3, BallGrows DEF Lasting
            <4>2. Lasting(0) = read.seeds
                BY <1>3, BallRounds DEF Lasting
            <4>3. \A d \in Nat : Ball(read.seeds, read.dir, d, always.links) \subseteq visited
                BY <1>2, <1>3, <1>4, <3>2, <4>1, <4>2, BallInClosed
            <4> QED  BY <1>1, <1>3, <2>2, <4>3 DEF Lasting
        <3> QED  BY <2>1, <3>1, <3>2
    <2>4. visited' \subseteq Reached(MaxDepth)
        <3>1. Reached(depth + 1) \subseteq Reached(MaxDepth)
            BY <1>3, BallGrows DEF Reached
        <3> QED  BY <1>6, <3>1
    <2>5. Incident(Lasting(MaxDepth - 1), read.dir, always.links) \subseteq rels
        BY <1>2, <2>3 DEF Incident
    <2>6. Radius' = MaxDepth /\ (Radius - 1)' = MaxDepth - 1
        BY <1>1, <1>2 DEF Radius, MaxDepth
    <2>7. /\ Lasting(Radius)' = Lasting(MaxDepth) /\ Reached(Radius)' = Reached(MaxDepth)
          /\ Lasting(Radius - 1)' = Lasting(MaxDepth - 1)
          /\ Reached(Radius - 1)' = Reached(MaxDepth - 1)
        BY <1>1, <2>6 DEF Lasting, Reached
    <2>8. Touched(Radius - 1)'
        BY <1>1, <1>2, <2>5, <2>7 DEF Touched
    <2> QED  BY <1>1, <1>9, <2>3, <2>4, <2>7, <2>8 DEF GatherInv
<1> QED  BY <1>8, <1>9

LEMMA RestGather ==
    ASSUME CallInv, GatherInv, Expanding,
           QueryRows \/ QueryObservations \/ SkipEntity \/ EndRows \/ QueryRelations \/ Fail
    PROVE  GatherInv'
<1>1. UNCHANGED <<read, always, ever>>
    BY CallMoves DEF Step
<1>2. CASE Fail
    BY <1>2 DEF Fail, GatherInv
<1>3. CASE ~Fail
    <2>1. /\ pc \in {"answer", "obs", "touching"} /\ pc' \in {"answer", "obs", "touching", "done"}
          /\ wanted' = wanted
        BY <1>3 DEF QueryRows, QueryObservations, SkipEntity, EndRows, QueryRelations, search
    <2>2. read.op # "open" => rels' = rels
        BY <1>3 DEF QueryRows, QueryObservations, SkipEntity, EndRows, QueryRelations, search,
                CallInv, Expanding
    <2>3. /\ Lasting(Radius) \subseteq wanted /\ wanted \subseteq Reached(Radius)
          /\ read.op # "open" => Touched(Radius - 1)
        BY <2>1 DEF GatherInv, Expanding
    <2>4. Radius' = Radius
        BY <1>1 DEF Radius, MaxDepth
    <2>5. /\ Lasting(Radius)' = Lasting(Radius) /\ Reached(Radius)' = Reached(Radius)
          /\ Lasting(Radius - 1)' = Lasting(Radius - 1) /\ Reached(Radius - 1)' = Reached(Radius - 1)
        BY <1>1, <2>4 DEF Lasting, Reached
    <2>6. read.op # "open" => Touched(Radius - 1)'
        BY <1>1, <2>2, <2>3, <2>5 DEF Touched
    <2> QED  BY <1>1, <2>1, <2>3, <2>5, <2>6 DEF GatherInv
<1> QED  BY <1>2, <1>3

\* A commit of another session only widens what may be in an answer and narrows what must be.
LEMMA OthersGather ==
    ASSUME HistoryInv, CallInv, GatherInv, Expanding, Others
    PROVE  GatherInv'
<1>1. /\ UNCHANGED <<read, pc, level, depth, visited, wanted, rels>>
      /\ ever \subseteq ever' /\ always'.links \subseteq always.links
    BY OthersMove DEF callVars, search
<1>2. read.seeds \in SUBSET Names /\ Radius' = Radius /\ MaxDepth' = MaxDepth
      /\ depth \in Nat /\ MaxDepth - 1 \in Nat /\ Radius \in Nat
      /\ (read.op # "open" => Radius - 1 \in Nat)
    BY <1>1, RadiusType DEF CallInv, Expanding, Radius, MaxDepth
<1>3. ASSUME NEW d \in Nat
      PROVE  Ball(read'.seeds, read'.dir, d, always'.links) \subseteq Lasting(d)
             /\ Reached(d) \subseteq Ball(read'.seeds, read'.dir, d, ever')
    BY <1>1, <1>2, BallOfMore DEF Lasting, Reached
<1>4. ASSUME NEW d \in Nat
      PROVE  /\ Incident(Ball(read'.seeds, read'.dir, d, always'.links), read'.dir, always'.links)
                    \subseteq Incident(Lasting(d), read.dir, always.links)
             /\ Incident(Reached(d), read.dir, ever)
                    \subseteq Incident(Ball(read'.seeds, read'.dir, d, ever'), read'.dir, ever')
    BY <1>1, <1>3, IncidentMono
<1>5. \A u, v : Hop(u, v, read'.dir, always'.links) => Hop(u, v, read.dir, always.links)
    BY <1>1 DEF Hop
<1>6. \A W : Incident(W, read'.dir, always'.links) \subseteq Incident(W, read.dir, always.links)
    BY <1>1, IncidentMono
<1>7. ASSUME pc \in {"links", "round"}
      PROVE  /\ read'.op = "neighbors" => level' = read'.seeds /\ rels' = {}
             /\ read'.op = "walk" =>
                   /\ depth' < MaxDepth'
                   /\ Lasting(depth)' \subseteq visited' /\ visited' \subseteq Reached(depth)'
                   /\ \A u \in visited' \ level', v \in Names :
                         Hop(u, v, read'.dir, always'.links) => v \in visited'
                   /\ rels' \subseteq Incident(Reached(MaxDepth - 1)', read'.dir, ever')
                   /\ Incident(visited' \ level', read'.dir, always'.links) \subseteq rels'
    <2>1. read.op = "neighbors" => level = read.seeds /\ rels = {}
        BY <1>7 DEF GatherInv
    <2>2. ASSUME read.op = "walk"
          PROVE  /\ depth < MaxDepth
                 /\ Lasting(depth) \subseteq visited /\ visited \subseteq Reached(depth)
                 /\ \A u \in visited \ level, v \in Names :
                       Hop(u, v, read.dir, always.links) => v \in visited
                 /\ rels \subseteq Incident(Reached(MaxDepth - 1), read.dir, ever)
                 /\ Incident(visited \ level, read.dir, always.links) \subseteq rels
        BY <1>7, <2>2 DEF GatherInv
    <2>3. Lasting(depth)' \subseteq Lasting(depth) /\ Reached(depth) \subseteq Reached(depth)'
        BY <1>1, <1>2, <1>3 DEF Lasting, Reached
    <2>4. Incident(Reached(MaxDepth - 1), read.dir, ever)
             \subseteq Incident(Reached(MaxDepth - 1)', read'.dir, ever')
        BY <1>1, <1>2, <1>4 DEF Reached
    <2> QED  BY <1>1, <1>2, <1>5, <1>6, <2>1, <2>2, <2>3, <2>4
<1>8. ASSUME pc = "round"
      PROVE  /\ wanted' \subseteq Reached(depth + 1)'
             /\ \A u \in level', v \in Names :
                   Hop(u, v, read'.dir, always'.links) => v \in wanted'
             /\ Incident(visited', read'.dir, always'.links) \subseteq rels'
    <2>1. /\ wanted \subseteq Reached(depth + 1)
          /\ \A u \in level, v \in Names : Hop(u, v, read.dir, always.links) => v \in wanted
          /\ Incident(visited, read.dir, always.links) \subseteq rels
        BY <1>8 DEF GatherInv
    <2>2. Reached(depth + 1) \subseteq Reached(depth + 1)'
        BY <1>1, <1>2, <1>3 DEF Reached
    <2> QED  BY <1>1, <1>5, <1>6, <2>1, <2>2
<1>9. ASSUME pc \in {"answer", "obs", "touching", "done"}
      PROVE  /\ Lasting(Radius)' \subseteq wanted' /\ wanted' \subseteq Reached(Radius)'
             /\ read'.op # "open" => Touched(Radius - 1)'
    <2>1. /\ Lasting(Radius) \subseteq wanted /\ wanted \subseteq Reached(Radius)
          /\ read.op # "open" => Touched(Radius - 1)
        BY <1>9 DEF GatherInv
    <2>2. Lasting(Radius)' \subseteq Lasting(Radius) /\ Reached(Radius) \subseteq Reached(Radius)'
        BY <1>1, <1>2, <1>3 DEF Lasting, Reached
    <2>3. ASSUME read.op # "open" PROVE Touched(Radius - 1)'
        <3>1. Radius - 1 \in Nat /\ (Radius - 1)' = Radius - 1
            BY <1>2, <2>3
        <3>2. /\ Incident(Lasting(Radius - 1)', read'.dir, always'.links)
                    \subseteq Incident(Lasting(Radius - 1), read.dir, always.links)
              /\ Incident(Reached(Radius - 1), read.dir, ever)
                    \subseteq Incident(Reached(Radius - 1)', read'.dir, ever')
            BY <1>1, <1>4, <3>1 DEF Lasting, Reached
        <3> QED  BY <1>1, <2>1, <2>3, <3>2 DEF Touched
    <2> QED  BY <1>1, <2>1, <2>2, <2>3
<1> QED  BY <1>1, <1>7, <1>8, <1>9 DEF GatherInv

LEMMA NextGather ==
    ASSUME HistoryInv, CallInv, GatherInv, [Next]_vars
    PROVE  GatherInv'
<1>1. CASE ~Expanding
    <2>1. read' = read
        BY CallMoves, OthersMove DEF Next, callVars, vars
    <2> QED  BY <1>1, <2>1 DEF Expanding, GatherInv
<1>2. CASE Expanding
    <2>1. ~SearchLevel
        BY <1>2 DEF SearchLevel, Expanding
    <2>2. CASE UNCHANGED vars
        BY <2>2 DEF vars, search, GatherInv, Expanding, Touched, Lasting, Reached, Radius, MaxDepth
    <2> QED  BY <1>2, <2>1, <2>2, NeighborsGather, RoundGather, EndRoundGather, RestGather,
                OthersGather DEF Next, Step
<1> QED  BY <1>1, <1>2

-----------------------------------------------------------------------------
(* ShortestPath.                                                           *)

\* par records a search from start over the nodes V along relations of E: every node but
\* start has a parent one step nearer to start.
Records(par, start, dist, V, dir, E) ==
    /\ V \subseteq Names /\ start \in V /\ par \in [V -> V]
    /\ dist \in [Names -> Nat] /\ dist[start] = 0
    /\ \A v \in V \ {start} :
          dist[v] = dist[par[v]] + 1 /\ Hop(par[v], v, dir, E)

\* p leads from start to v in k steps along relations of E.
Leads(p, start, v, k, dir, E) ==
    /\ p \in Seq(Names) /\ Len(p) = k + 1
    /\ p[1] = start /\ p[Len(p)] = v
    /\ \A i \in 1..(Len(p) - 1) : Hop(p[i], p[i + 1], dir, E)

\* The paths to all nodes, each one step longer than its parent's ...
AreTraced(f, par, start) ==
    f = [n \in DOMAIN par |-> IF n = start THEN <<n>> ELSE Append(f[par[n]], n)]

\* ... exist: the recursion of PathTo ends ...
LEMMA TracesExist ==
    ASSUME NEW par, NEW start, NEW dist, NEW V, NEW dir, NEW E,
           Records(par, start, dist, V, dir, E),
           NEW m \in Nat, \A v \in V : dist[v] <= m
    PROVE  \E f : AreTraced(f, par, start)
<1> DEFINE Near(n) == {v \in V : dist[v] <= n}
           Traced(n) == {f \in [Near(n) -> Seq(Names)] :
                            \A v \in Near(n) :
                               f[v] = IF v = start THEN <<v>> ELSE Append(f[par[v]], v)}
           T == {n \in Nat : \E f : f \in Traced(n)}
<1>1. /\ V \subseteq Names /\ start \in V /\ par \in [V -> V] /\ dist \in [Names -> Nat]
      /\ dist[start] = 0
      /\ \A v \in V \ {start} : par[v] \in V /\ dist[v] = dist[par[v]] + 1
      /\ \A v \in V : dist[v] \in Nat /\ v \in Names
    BY DEF Records
<1>2. 0 \in T
    <2>1. \A v \in Near(0) : v = start
        BY <1>1
    <2>2. [v \in Near(0) |-> <<v>>] \in [Near(0) -> Seq(Names)]
        BY <1>1
    <2> HIDE DEF Near
    <2>3. [v \in Near(0) |-> <<v>>] \in Traced(0)
        BY <2>1, <2>2
    <2> HIDE DEF Traced
    <2> QED  BY <2>3
<1>3. ASSUME NEW n \in Nat, n \in T PROVE n + 1 \in T
    <2>1. PICK f : f \in Traced(n)
        BY <1>3
    <2>2. /\ f \in [Near(n) -> Seq(Names)]
          /\ \A v \in Near(n) : f[v] = IF v = start THEN <<v>> ELSE Append(f[par[v]], v)
        BY <2>1
    <2> DEFINE g == [v \in Near(n + 1) |-> IF v \in Near(n) THEN f[v] ELSE Append(f[par[v]], v)]
    <2>3. ASSUME NEW v \in Near(n + 1), v # start
          PROVE  par[v] \in Near(n) /\ par[v] \in Near(n + 1) /\ v \in Names
        BY <1>1, <2>3
    <2>4. start \in Near(n)
        BY <1>1
    <2>5. \A v \in Near(n + 1) : v \in V /\ v \in Names
        BY <1>1
    <2> HIDE DEF Near
    <2>6. ASSUME NEW v \in Near(n + 1) PROVE g[v] \in Seq(Names)
        <3>1. CASE v \in Near(n)
            BY <2>2, <3>1
        <3>2. CASE v \notin Near(n)
            <4>1. v # start
                BY <2>4, <3>2
            <4>2. f[par[v]] \in Seq(Names) /\ v \in Names
                BY <2>2, <2>3, <4>1
            <4> QED  BY <3>2, <4>2
        <3> QED  BY <3>1, <3>2
    <2>7. ASSUME NEW v \in Near(n + 1)
          PROVE  g[v] = IF v = start THEN <<v>> ELSE Append(g[par[v]], v)
        <3>1. CASE v = start
            BY <2>2, <2>4, <3>1
        <3>2. CASE v # start
            <4>1. par[v] \in Near(n) /\ par[v] \in Near(n + 1)
                BY <2>3, <3>2
            <4>2. g[par[v]] = f[par[v]]
                BY <4>1
            <4>3. g[v] = Append(f[par[v]], v)
                BY <2>2, <3>2
            <4> QED  BY <3>2, <4>2, <4>3
        <3> QED  BY <3>1, <3>2
    <2>8. g \in [Near(n + 1) -> Seq(Names)]
        BY <2>6
    <2> HIDE DEF g
    <2>9. g \in Traced(n + 1)
        BY <2>7, <2>8
    <2> HIDE DEF Traced
    <2> QED  BY <2>9
<1>4. T \in SUBSET Nat
    OBVIOUS
<1> HIDE DEF T
<1>5. m \in T
    BY <1>2, <1>3, <1>4, SetInduction
<1>6. PICK f : f \in Traced(m)
    BY <1>5 DEF T
<1>7. Near(m) = V /\ DOMAIN par = V
    BY <1>1
<1>8. /\ f \in [V -> Seq(Names)]
      /\ \A v \in V : f[v] = IF v = start THEN <<v>> ELSE Append(f[par[v]], v)
    BY <1>6, <1>7
<1>9. f = [v \in V |-> f[v]]
    BY <1>8
<1>10. f = [v \in V |-> IF v = start THEN <<v>> ELSE Append(f[par[v]], v)]
    BY <1>8, <1>9, Zenon
<1>11. AreTraced(f, par, start)
    BY <1>7, <1>10 DEF AreTraced
<1> QED  BY <1>11

\* ... and PathTo takes its path from them.
LEMMA PathIsTraced ==
    ASSUME NEW par, NEW start, NEW v, \E f : AreTraced(f, par, start)
    PROVE  \E f : AreTraced(f, par, start) /\ PathTo(par, start, v) = f[v]
<1> DEFINE upTo == CHOOSE f : f = [n \in DOMAIN par |->
                                      IF n = start THEN <<n>> ELSE Append(f[par[n]], n)]
<1>1. AreTraced(upTo, par, start)
    BY DEF AreTraced
<1>2. PathTo(par, start, v) = upTo[v]
    BY DEF PathTo
<1> HIDE DEF upTo
<1> QED  BY <1>1, <1>2

\* The path that the parents record leads to v, in as many steps as v is away.
LEMMA PathLeads ==
    ASSUME NEW par, NEW start, NEW dist, NEW V, NEW dir, NEW E,
           Records(par, start, dist, V, dir, E),
           NEW m \in Nat, \A v \in V : dist[v] <= m,
           NEW w \in V
    PROVE  Leads(PathTo(par, start, w), start, w, dist[w], dir, E)
<1>1. PICK f : AreTraced(f, par, start) /\ PathTo(par, start, w) = f[w]
    BY TracesExist, PathIsTraced
<1>2. /\ V \subseteq Names /\ start \in V /\ par \in [V -> V] /\ dist \in [Names -> Nat]
      /\ dist[start] = 0
      /\ \A v \in V \ {start} : /\ par[v] \in V /\ dist[v] = dist[par[v]] + 1
                                /\ Hop(par[v], v, dir, E)
      /\ \A v \in V : dist[v] \in Nat /\ v \in Names
    BY DEF Records
<1>3. \A v \in V : f[v] = IF v = start THEN <<v>> ELSE Append(f[par[v]], v)
    BY <1>1, <1>2 DEF AreTraced
<1> DEFINE T == {n \in Nat : \A v \in V : dist[v] <= n => Leads(f[v], start, v, dist[v], dir, E)}
<1>4. Leads(f[start], start, start, dist[start], dir, E)
    <2>1. f[start] = <<start>> /\ start \in Names
        BY <1>2, <1>3
    <2>2. <<start>> \in Seq(Names) /\ Len(<<start>>) = 1 /\ <<start>>[1] = start
        BY <2>1
    <2>3. 1..(Len(<<start>>) - 1) = {} /\ Len(<<start>>) = 0 + 1 /\ <<start>>[Len(<<start>>)] = start
        BY <2>2
    <2>4. Leads(<<start>>, start, start, 0, dir, E)
        BY <2>2, <2>3 DEF Leads
    <2> QED  BY <1>2, <2>1, <2>4
<1>5. 0 \in T
    <2>1. \A v \in V : dist[v] <= 0 => v = start
        BY <1>2
    <2> QED  BY <1>4, <2>1
<1>6. ASSUME NEW n \in Nat, n \in T PROVE n + 1 \in T
    <2> SUFFICES ASSUME NEW v \in V, dist[v] <= n + 1, v # start
                 PROVE  Leads(f[v], start, v, dist[v], dir, E)
        BY <1>4
    <2> DEFINE u == par[v]
               p == f[u]
               k == dist[u]
    <2>1. u \in V /\ dist[v] = k + 1 /\ Hop(u, v, dir, E) /\ k <= n /\ k \in Nat /\ v \in Names
        BY <1>2
    <2>2. Leads(p, start, u, k, dir, E)
        BY <1>6, <2>1
    <2>3. f[v] = Append(p, v)
        BY <1>3
    <2> HIDE DEF u, p, k
    <2>4. /\ p \in Seq(Names) /\ Len(p) = k + 1 /\ p[1] = start /\ p[Len(p)] = u
          /\ \A i \in 1..(Len(p) - 1) : Hop(p[i], p[i + 1], dir, E)
        BY <2>2 DEF Leads
    <2> DEFINE q == Append(p, v)
    <2>5. /\ q \in Seq(Names) /\ Len(q) = k + 2 /\ q[k + 2] = v
          /\ \A i \in 1..(k + 1) : q[i] = p[i]
        BY <2>1, <2>4
    <2>6. q[1] = start /\ q[k + 1] = u
        BY <2>1, <2>4, <2>5
    <2> HIDE DEF q
    <2>7. ASSUME NEW i \in 1..(Len(q) - 1) PROVE Hop(q[i], q[i + 1], dir, E)
        <3>1. CASE i = k + 1
            <4>1. i + 1 = k + 2
                BY <2>1, <3>1
            <4> QED  BY <2>1, <2>5, <2>6, <3>1, <4>1
        <3>2. CASE i # k + 1
            <4>1. i \in 1..(Len(p) - 1) /\ i \in 1..(k + 1) /\ i + 1 \in 1..(k + 1)
                BY <2>1, <2>4, <2>5, <3>2
            <4> QED  BY <2>4, <2>5, <4>1
        <3> QED  BY <3>1, <3>2
    <2>8. Leads(q, start, v, k + 1, dir, E)
        BY <2>1, <2>5, <2>6, <2>7 DEF Leads
    <2> QED  BY <2>1, <2>3, <2>8 DEF q
<1>7. T \in SUBSET Nat
    OBVIOUS
<1> HIDE DEF T
<1>8. m \in T
    BY <1>5, <1>6, <1>7, SetInduction
<1> QED  BY <1>1, <1>8 DEF T

\* A search for a path between two of its levels: start, the distances at which it met
\* the nodes, and how many levels it has done.
Searching(start, dist, m) ==
    /\ read.seeds = {start}
    /\ Records(parent, start, dist, visited, read.dir, ever)
    /\ \A v \in visited : dist[v] <= m
    /\ level \subseteq visited /\ \A v \in level : dist[v] = m
    /\ Lasting(m) \subseteq visited
    /\ \A u \in visited \ level, v \in Names :
          Hop(u, v, read.dir, always.links) => v \in visited
    /\ read.to \notin visited

\* What PathIsShortest says of the path, for every length.
IsShortest ==
    /\ path # <<>> =>
          /\ path[1] \in read.seeds /\ path[Len(path)] = read.to
          /\ \A i \in 1..(Len(path) - 1) : Hop(path[i], path[i + 1], read.dir, ever)
    /\ \A k \in Nat : read.to \in Lasting(k) => path # <<>> /\ Len(path) - 1 <= k

SearchInv ==
    /\ path \in Seq(Names)
    /\ read.op = "path" =>
          /\ wanted \subseteq Names
          /\ pc = "links" =>
                \E start \in Names, dist \in [Names -> Nat], m \in Nat : Searching(start, dist, m)
          /\ pc \in {"answer", "obs", "done"} /\ read.to \notin read.seeds => IsShortest

LEMMA InitSearch == Init => SearchInv
<1> SUFFICES ASSUME Init PROVE SearchInv
    OBVIOUS
<1>0. CallInv
    BY InitCall
<1>1. /\ level = read.seeds /\ visited = read.seeds /\ wanted = read.seeds
      /\ parent = [n \in read.seeds |-> n] /\ path = <<>> /\ pc = FirstStatement(read)
    BY DEF Init
<1>2. <<>> \in Seq(Names) /\ read.seeds \in SUBSET Names /\ read.to \in Names
    BY <1>0 DEF CallInv, Call
<1>3. ASSUME read.op = "path", pc = "links"
      PROVE  \E start \in Names, dist \in [Names -> Nat], m \in Nat : Searching(start, dist, m)
    <2>1. read.seeds # {} /\ read.to \notin read.seeds
        BY <1>1, <1>3 DEF FirstStatement
    <2>2. PICK start \in Names : read.seeds = {start}
        BY <1>0, <1>2, <1>3, <2>1 DEF CallInv
    <2> DEFINE dist == [v \in Names |-> 0]
    <2>3. dist \in [Names -> Nat] /\ \A v \in Names : dist[v] = 0
        OBVIOUS
    <2> HIDE DEF dist
    <2>4. Records(parent, start, dist, visited, read.dir, ever)
        BY <1>1, <2>2, <2>3 DEF Records
    <2>5. Lasting(0) = read.seeds
        BY <1>2, BallRounds DEF Lasting
    <2>6. Searching(start, dist, 0)
        BY <1>1, <2>1, <2>2, <2>3, <2>4, <2>5 DEF Searching
    <2> QED  BY <2>3, <2>6
<1>4. ASSUME read.op = "path", pc \in {"answer", "obs", "done"}, read.to \notin read.seeds
      PROVE  IsShortest
    <2>1. read.seeds = {}
        BY <1>1, <1>4 DEF FirstStatement
    <2>2. \A k \in Nat : Lasting(k) = {}
        BY <2>1, NothingReached DEF Lasting
    <2> QED  BY <1>1, <2>2 DEF IsShortest
<1> QED  BY <1>1, <1>2, <1>3, <1>4 DEF SearchInv

\* A level of the search, whichever relation each new node was found by.
LEMMA LevelSearch ==
    ASSUME HistoryInv, CallInv, RowsInv, SearchInv, SearchLevel
    PROVE  SearchInv'
<1>1. /\ pc = "links" /\ read.op = "path" /\ UNCHANGED <<read, always, ever>>
      /\ visited' = visited \cup Fresh /\ level' = Fresh
    BY DEF SearchLevel, NextLevels
<1>2. PICK par \in [Fresh -> level] :
         /\ \A v \in Fresh : Hop(par[v], v, read.dir, graph.links)
         /\ parent' = [v \in DOMAIN parent \cup Fresh |-> IF v \in Fresh THEN par[v] ELSE parent[v]]
    BY DEF SearchLevel
<1>3. PICK start \in Names, dist \in [Names -> Nat], m \in Nat : Searching(start, dist, m)
    BY <1>1 DEF SearchInv
<1>4. /\ read.seeds = {start}
      /\ \A v \in visited : dist[v] <= m
      /\ level \subseteq visited /\ \A v \in level : dist[v] = m
      /\ Lasting(m) \subseteq visited
      /\ \A u \in visited \ level, v \in Names :
            Hop(u, v, read.dir, always.links) => v \in visited
      /\ read.to \notin visited
    BY <1>3 DEF Searching
<1>5. /\ visited \subseteq Names /\ start \in visited /\ parent \in [visited -> visited]
      /\ dist[start] = 0
      /\ \A v \in visited \ {start} :
            dist[v] = dist[parent[v]] + 1 /\ Hop(parent[v], v, read.dir, ever)
    BY <1>3 DEF Searching, Records
<1>6. Fresh \subseteq Names /\ Fresh \cap visited = {}
    BY DEF Fresh
<1>7. always.links \subseteq graph.links /\ graph.links \subseteq ever
    BY DEF HistoryInv
<1>8. ASSUME NEW u \in visited, NEW v \in Names, Hop(u, v, read.dir, always.links)
      PROVE  v \in visited \cup Fresh
    BY <1>4, <1>7, <1>8 DEF Fresh, Hop
<1>9. PICK far \in [Names -> Nat] :
         (\A v \in Fresh : far[v] = m + 1) /\ (\A v \in visited : far[v] = dist[v])
    <2> DEFINE f == [v \in Names |-> IF v \in Fresh THEN m + 1 ELSE dist[v]]
    <2>1. f \in [Names -> Nat] /\ (\A v \in Fresh : f[v] = m + 1) /\ (\A v \in visited : f[v] = dist[v])
        BY <1>5, <1>6
    <2> HIDE DEF f
    <2> QED  BY <2>1
<1>10. Records(parent', start, far, visited', read'.dir, ever')
    <2>1. parent' \in [visited' -> visited']
        <3>1. DOMAIN parent = visited
            BY <1>5
        <3>2. \A v \in Fresh : par[v] \in visited
            BY <1>2, <1>4
        <3>3. \A v \in visited : parent[v] \in visited
            BY <1>5
        <3> QED  BY <1>1, <1>2, <3>1, <3>2, <3>3
    <2>2. ASSUME NEW v \in visited' \ {start}
          PROVE  far[v] = far[parent'[v]] + 1 /\ Hop(parent'[v], v, read'.dir, ever')
        <3>1. CASE v \in Fresh
            <4>1. parent'[v] = par[v] /\ par[v] \in level
                BY <1>2, <3>1
            <4>2. Hop(par[v], v, read.dir, ever)
                BY <1>2, <1>7, <3>1 DEF Hop
            <4> QED  BY <1>1, <1>4, <1>9, <3>1, <4>1, <4>2
        <3>2. CASE v \notin Fresh
            <4>1. v \in visited \ {start}
                BY <1>1, <3>2
            <4>2. parent'[v] = parent[v] /\ parent[v] \in visited
                BY <1>2, <1>5, <3>2, <4>1
            <4> QED  BY <1>1, <1>5, <1>9, <4>1, <4>2
        <3> QED  BY <3>1, <3>2
    <2> QED  BY <1>1, <1>5, <1>6, <1>9, <2>1, <2>2 DEF Records
<1>11. m + 1 \in Nat /\ \A v \in visited' : far[v] <= m + 1
    <2>1. \A v \in visited : far[v] \in Nat /\ far[v] <= m
        BY <1>4, <1>5, <1>9
    <2> QED  BY <1>1, <1>9, <2>1
<1>12. read.seeds \in SUBSET Names
    BY <1>4
<1>13. CASE read.to \in Fresh
    <2>1. /\ path' = PathTo(parent', start, read.to)
          /\ wanted' = Nodes(path') /\ pc' = "answer"
        BY <1>4, <1>13 DEF SearchLevel, Nodes
    <2>2. read.to \in visited' /\ far[read.to] = m + 1
        BY <1>1, <1>9, <1>13
    <2>3. Leads(path', start, read.to, m + 1, read.dir, ever)
        BY <1>1, <1>10, <1>11, <2>1, <2>2, PathLeads
    <2>4. /\ path' \in Seq(Names) /\ Len(path') = m + 2
          /\ path'[1] = start /\ path'[Len(path')] = read.to
          /\ \A i \in 1..(Len(path') - 1) : Hop(path'[i], path'[i + 1], read.dir, ever)
        BY <2>3 DEF Leads
    <2>5. path' # <<>>
        BY <2>4
    <2>6. ASSUME NEW k \in Nat, read.to \in Lasting(k) PROVE Len(path') - 1 <= k
        <3> SUFFICES ASSUME k <= m PROVE FALSE
            BY <2>4
        <3>1. Lasting(k) \subseteq Lasting(m)
            BY <1>12, BallGrows DEF Lasting
        <3> QED  BY <1>4, <2>6, <3>1
    <2>7. IsShortest'
        <3>1. \A k \in Nat : Lasting(k)' = Lasting(k)
            BY <1>1 DEF Lasting
        <3>2. \A k \in Nat : (read.to \in Lasting(k))' => read.to \in Lasting(k)
            BY <1>1, <3>1 DEF Lasting
        <3> QED  BY <1>1, <1>4, <2>4, <2>5, <2>6, <3>2 DEF IsShortest, Lasting
    <2>8. wanted' \subseteq Names
        BY <2>1, <2>4 DEF Nodes
    <2> QED  BY <1>1, <2>1, <2>4, <2>7, <2>8 DEF SearchInv
<1>14. CASE read.to \notin Fresh
    <2>1. UNCHANGED <<path, wanted>> /\ pc' = IF Fresh = {} THEN "done" ELSE "links"
        BY <1>1, <1>14 DEF SearchLevel
    <2>2. read.to \notin visited' /\ path \in Seq(Names) /\ wanted \subseteq Names
        BY <1>1, <1>4, <1>14 DEF SearchInv
    <2>3. ASSUME pc' = "links"
          PROVE  Searching(start, far, m + 1)'
        <3>1. Lasting(m + 1) \subseteq visited'
            <4>1. Lasting(m + 1) = Around(Lasting(m), read.dir, always.links)
                BY <1>12, BallRounds DEF Lasting
            <4> QED  BY <1>1, <1>4, <1>8, <4>1 DEF Around
        <3>2. Lasting(m + 1)' = Lasting(m + 1)
            BY <1>1 DEF Lasting
        <3>3. \A u \in visited' \ level', v \in Names :
                 Hop(u, v, read.dir, always.links) => v \in visited'
            BY <1>1, <1>8
        <3>4. level' \subseteq visited' /\ \A v \in level' : far[v] = m + 1
            BY <1>1, <1>9
        <3>5. Records(parent, start, far, visited, read.dir, ever)'
            BY <1>10 DEF Records
        <3>6. Lasting(m + 1)' \subseteq visited'
            BY <3>1, <3>2
        <3>7. read'.seeds = {start} /\ read'.to \notin visited'
            BY <1>1, <1>4, <2>2
        <3>8. \A u \in visited' \ level', v \in Names :
                 Hop(u, v, read'.dir, always'.links) => v \in visited'
            BY <1>1, <3>3
        <3> QED  BY <1>11, <3>4, <3>5, <3>6, <3>7, <3>8 DEF Searching
    <2>4. ASSUME pc' = "done" PROVE IsShortest'
        <3>1. Fresh = {}
            BY <2>1, <2>4
        <3>2. \A u \in visited, v \in Names : Hop(u, v, read.dir, always.links) => v \in visited
            BY <1>8, <3>1
        <3>3. read.seeds \subseteq visited
            BY <1>4, <1>5
        <3>4. \A k \in Nat : Ball(read.seeds, read.dir, k, always.links) \subseteq visited
            BY <1>12, <3>2, <3>3, BallInClosed
        <3>5. path = <<>>
            BY <1>1 DEF RowsInv
        <3> QED  BY <1>1, <1>4, <2>1, <3>4, <3>5 DEF IsShortest, Lasting
    <2>5. ASSUME pc' = "links"
          PROVE  \E s \in Names, f \in [Names -> Nat], k \in Nat : Searching(s, f, k)'
        <3>1. far \in [Names -> Nat] /\ m + 1 \in Nat
            BY <1>9, <1>11
        <3>2. Searching(start, far, m + 1)'
            BY <2>3, <2>5
        <3> QED  BY <3>1, <3>2
    <2>6. pc' = "links" \/ pc' = "done"
        BY <2>1
    <2> QED  BY <1>1, <2>1, <2>2, <2>4, <2>5, <2>6 DEF SearchInv
<1> QED  BY <1>13, <1>14

\* The other statements leave the search and its path alone, or fail and drop the path.
LEMMA RestSearch ==
    ASSUME CallInv, SearchInv, Step \/ Fail, ~SearchLevel
    PROVE  SearchInv'
<1>1. UNCHANGED <<read, always, ever>>
    BY CallMoves
<1>2. CASE Fail
    BY <1>1, <1>2 DEF Fail, SearchInv
<1>3. CASE ~Fail
    <2>1. path' = path
        BY <1>3 DEF Step, QueryNeighbors, QueryRound, EndRound, QueryRows, QueryObservations,
               SkipEntity, EndRows, QueryRelations, search
    <2>2. path' \in Seq(Names)
        BY <2>1 DEF SearchInv
    <2>3. ASSUME read.op = "path"
          PROVE  wanted' = wanted /\ pc \in {"answer", "obs"} /\ pc' \in {"obs", "done"}
        BY <1>3, <2>3 DEF Step, QueryNeighbors, QueryRound, EndRound, QueryRows,
               QueryObservations, SkipEntity, EndRows, QueryRelations, search, CallInv
    <2>4. ASSUME read.op = "path", read.to \notin read.seeds PROVE IsShortest'
        <3>1. IsShortest
            BY <2>3, <2>4 DEF SearchInv
        <3> QED  BY <1>1, <2>1, <3>1 DEF IsShortest, Lasting
    <2> QED  BY <1>1, <2>2, <2>3, <2>4 DEF SearchInv
<1> QED  BY <1>2, <1>3

LEMMA OthersSearch ==
    ASSUME HistoryInv, CallInv, SearchInv, Others
    PROVE  SearchInv'
<1>1. /\ UNCHANGED <<read, pc, level, visited, parent, path, wanted>>
      /\ ever \subseteq ever' /\ always'.links \subseteq always.links
    BY OthersMove DEF callVars, search
<1>2. read.seeds \in SUBSET Names
    BY DEF CallInv, Call
<1>3. ASSUME NEW k \in Nat
      PROVE  Ball(read'.seeds, read'.dir, k, always'.links) \subseteq Lasting(k)
    BY <1>1, <1>2, BallOfMore DEF Lasting
<1>4. \A u, v : /\ Hop(u, v, read'.dir, always'.links) => Hop(u, v, read.dir, always.links)
                /\ Hop(u, v, read.dir, ever) => Hop(u, v, read'.dir, ever')
    BY <1>1 DEF Hop
<1>5. ASSUME NEW start \in Names, NEW dist \in [Names -> Nat], NEW m \in Nat,
             Searching(start, dist, m)
      PROVE  Searching(start, dist, m)'
    <2>1. Records(parent, start, dist, visited, read.dir, ever)'
        BY <1>1, <1>4, <1>5 DEF Searching, Records
    <2>2. Lasting(m)' \subseteq visited'
        BY <1>1, <1>3, <1>5 DEF Searching, Lasting
    <2>3. \A u \in visited' \ level', v \in Names :
             Hop(u, v, read'.dir, always'.links) => v \in visited'
        BY <1>1, <1>4, <1>5 DEF Searching
    <2>4. /\ read'.seeds = {start} /\ read'.to \notin visited'
          /\ \A v \in visited' : dist[v] <= m
          /\ level' \subseteq visited' /\ \A v \in level' : dist[v] = m
        BY <1>1, <1>5 DEF Searching
    <2> QED  BY <2>1, <2>2, <2>3, <2>4 DEF Searching
<1>6. ASSUME IsShortest PROVE IsShortest'
    <2>1. ASSUME NEW k \in Nat, read'.to \in Ball(read'.seeds, read'.dir, k, always'.links)
          PROVE  path' # <<>> /\ Len(path') - 1 <= k
        BY <1>1, <1>3, <1>6, <2>1 DEF IsShortest
    <2>2. path' # <<>> =>
             /\ path'[1] \in read'.seeds /\ path'[Len(path')] = read'.to
             /\ \A i \in 1..(Len(path') - 1) : Hop(path'[i], path'[i + 1], read'.dir, ever')
        BY <1>1, <1>4, <1>6 DEF IsShortest
    <2> QED  BY <2>1, <2>2 DEF IsShortest, Lasting
<1>7. ASSUME read.op = "path", pc = "links"
      PROVE  \E start \in Names, dist \in [Names -> Nat], m \in Nat : Searching(start, dist, m)'
    <2>1. PICK start \in Names, dist \in [Names -> Nat], m \in Nat : Searching(start, dist, m)
        BY <1>7 DEF SearchInv
    <2>2. Searching(start, dist, m)'
        BY <1>5, <2>1
    <2> QED  BY <2>2
<1>8. /\ path' \in Seq(Names)
      /\ read'.op = "path" => wanted' \subseteq Names
      /\ read'.op = "path" /\ pc' \in {"answer", "obs", "done"} /\ read'.to \notin read'.seeds => IsShortest'
    BY <1>1, <1>6 DEF SearchInv
<1> QED  BY <1>1, <1>7, <1>8 DEF SearchInv

LEMMA NextSearch ==
    ASSUME HistoryInv, CallInv, RowsInv, SearchInv, [Next]_vars
    PROVE  SearchInv'
<1>1. CASE SearchLevel
    BY <1>1, LevelSearch
<1>2. CASE (Step \/ Fail) /\ ~SearchLevel
    BY <1>2, RestSearch
<1>3. CASE Others
    BY <1>3, OthersSearch
<1>4. CASE UNCHANGED vars
    <2>1. UNCHANGED <<read, pc, always, ever, level, visited, parent, path, wanted>>
        BY <1>4 DEF vars, search
    <2>2. IsShortest => IsShortest'
        BY <2>1 DEF IsShortest, Lasting
    <2>3. \A start, dist, m : Searching(start, dist, m) => Searching(start, dist, m)'
        BY <2>1 DEF Searching, Records, Lasting
    <2> QED  BY <2>1, <2>2, <2>3 DEF SearchInv
<1> QED  BY <1>1, <1>2, <1>3, <1>4 DEF Next

\* The relations of an answer join names.
RelsInv == rels \subseteq Names \X Names

LEMMA NextRels ==
    ASSUME HistoryInv, CallInv, SearchInv', RelsInv, [Next]_vars
    PROVE  RelsInv'
<1>1. graph.links \subseteq Names \X Names
    BY DEF HistoryInv, WellFormed
<1>2. \A S, dir : Incident(S, dir, graph.links) \in SUBSET (Names \X Names)
    BY <1>1 DEF Incident
<1>3. CASE QueryNeighbors
    <2>1. PICK L \in Limited(Incident(level, read.dir, graph.links), read.limit) : rels' = L
        BY <1>3 DEF QueryNeighbors
    <2>2. L \subseteq Incident(level, read.dir, graph.links)
        BY DEF Limited, AtMost
    <2> QED  BY <1>2, <2>1, <2>2 DEF RelsInv
<1>4. CASE QueryRound
    BY <1>2, <1>4 DEF QueryRound, RelsInv
<1>5. CASE SearchLevel
    <2>1. UNCHANGED rels \/ rels' = {<<path'[i], path'[i + 1]>> : i \in 1..(Len(path') - 1)}
        BY <1>5 DEF SearchLevel
    <2>2. path' \in Seq(Names)
        BY DEF SearchInv
    <2>3. \A i \in 1..(Len(path') - 1) : path'[i] \in Names /\ path'[i + 1] \in Names
        BY <2>2
    <2> QED  BY <2>1, <2>3 DEF RelsInv
<1>6. CASE QueryRelations
    BY <1>2, <1>6 DEF QueryRelations, RelsInv
<1>7. CASE EndRound \/ QueryRows \/ QueryObservations \/ SkipEntity \/ EndRows \/ UNCHANGED vars
    BY <1>7 DEF EndRound, QueryRows, QueryObservations, SkipEntity, EndRows, vars, RelsInv
<1>8. CASE Fail
    BY <1>8 DEF Fail, RelsInv
<1>9. CASE Others
    BY <1>9, OthersMove DEF callVars, RelsInv
<1> QED  BY <1>3, <1>4, <1>5, <1>6, <1>7, <1>8, <1>9 DEF Next, Step

-----------------------------------------------------------------------------
(* The theorems.                                                           *)

ReadInv == HistoryInv /\ CallInv /\ RowsInv /\ TouchInv /\ GatherInv /\ SearchInv /\ RelsInv

\* What holds between any two SELECTs of a read (graph.go, database.go), beside any
\* commits of the other sessions.
THEOREM ReadInvariant == Spec => []ReadInv
<1>1. Init => ReadInv
    BY InitCall, InitRows, InitGather, InitSearch DEF Init, ReadInv, RelsInv
<1>2. ReadInv /\ [Next]_vars => ReadInv'
    BY NextHistory, NextCall, NextRows, NextTouch, NextGather, NextSearch, NextRels DEF ReadInv
<1> QED  BY <1>1, <1>2, PTL DEF Spec

\* The variables keep their types; the links of the graph keep joining names that are in
\* it, which is the foreign key and the cascade of schema.go:29-55 seen by a reader.
THEOREM ReadTypes == Spec => []TypeOK
<1>1. ReadInv => TypeOK
    <2> SUFFICES ASSUME ReadInv PROVE TypeOK
        OBVIOUS
    <2>1. wanted \subseteq Names /\ path \in Seq(Names)
        BY DEF ReadInv, CallInv, SearchInv
    <2> QED  BY <2>1 DEF ReadInv, TypeOK, CallInv, HistoryInv, RelsInv
<1> QED  BY <1>1, ReadInvariant, PTL

\* ReadGraph's relations are read after its entities (graph.go:334-344), ShortestPath's
\* entities after its path (graph.go:322): the two parts of an answer still fit together.
THEOREM AnswersHangTogether == Spec => []AnswerHangsTogether
<1>1. ReadInv => AnswerHangsTogether
    <2> USE DEF ReadInv
    <2> SUFFICES ASSUME ReadInv, pc = "done" PROVE AnswerHangsTogether
        BY DEF AnswerHangsTogether
    <2>1. rows = {}
        BY DEF CallInv
    <2>2. ASSUME read.op = "recent", read.relations
          PROVE  /\ Incident(ents, "both", always.links) \subseteq rels
                 /\ rels \subseteq Incident(ents, "both", ever)
        BY <2>2 DEF TouchInv
    <2>3. ASSUME read.op = "path"
          PROVE  Nodes(path) \cap always.names \subseteq ents /\ ents \subseteq Nodes(path)
        <3>1. CASE path = <<>> /\ ents = {}
            BY <3>1 DEF Nodes
        <3>2. CASE ~ (path = <<>> /\ ents = {})
            BY <2>1, <2>3, <3>2 DEF RowsInv, Fetched
        <3> QED  BY <3>1, <3>2
    <2> QED  BY <2>2, <2>3 DEF AnswerHangsTogether, Nodes
<1> QED  BY <1>1, ReadInvariant, PTL

\* The answers of OpenNodes, GetNeighbors and Walk without a limit.
LEMMA BallAnswers == ReadInv => AnswerIsBall /\ RelationsAreIncident
<1> USE DEF ReadInv
<1> SUFFICES ASSUME ReadInv, Expands PROVE AnswerIsBall /\ RelationsAreIncident
    BY DEF AnswerIsBall, RelationsAreIncident
<1>1. pc = "done" /\ Expanding /\ rows = {}
    BY DEF Expands, Expanding, CallInv
<1>2. ents \subseteq wanted /\ wanted \cap always.names \subseteq ents
    BY <1>1 DEF RowsInv, Fetched, Expanding
<1>3. /\ Lasting(Radius) \subseteq wanted /\ wanted \subseteq Reached(Radius)
      /\ read.op # "open" => Touched(Radius - 1)
    BY <1>1 DEF GatherInv
<1>4. AnswerIsBall
    BY <1>2, <1>3 DEF AnswerIsBall, Lasting, Reached
<1>5. ASSUME read.relations PROVE RelationsAreIncident
    <2>1. CASE read.op = "open"
        <3>1. Radius = 0 /\ read.seeds \in SUBSET Names
            BY <1>1, <2>1, RadiusType DEF Expanding
        <3>2. Lasting(0) = read.seeds /\ Reached(0) = read.seeds
            BY <3>1, BallRounds DEF Lasting, Reached
        <3>3. /\ Incident(ents, "both", always.links) \subseteq rels
              /\ rels \subseteq Incident(ents, "both", ever)
            BY <1>1, <1>5, <2>1 DEF TouchInv
        <3>4. Incident(read.seeds, "both", always.links) \subseteq Incident(ents, "both", always.links)
            <4> SUFFICES ASSUME NEW l \in always.links, l[1] \in read.seeds \/ l[2] \in read.seeds
                         PROVE  l[1] \in ents \/ l[2] \in ents
                BY DEF Incident
            <4>1. l[1] \in always.names /\ l[2] \in always.names
                BY DEF HistoryInv, WellFormed
            <4> QED  BY <1>2, <1>3, <3>1, <3>2, <4>1
        <3>5. Incident(ents, "both", ever) \subseteq Incident(read.seeds, "both", ever)
            BY <1>2, <1>3, <3>1, <3>2, IncidentMono
        <3> QED  BY <2>1, <3>1, <3>2, <3>3, <3>4, <3>5 DEF RelationsAreIncident, Lasting, Reached
    <2>2. CASE read.op # "open"
        <3>1. Radius # 0
            BY <1>1, <2>2, RadiusType DEF Expanding
        <3> QED  BY <1>3, <2>2, <3>1 DEF RelationsAreIncident, Touched, Lasting, Reached
    <2> QED  BY <2>1, <2>2
<1> QED  BY <1>4, <1>5 DEF RelationsAreIncident

\* OpenNodes (server.go:859-880), GetNeighbors and Walk without a limit (graph.go:115-243)
\* answer with the ball around the seeds: every entity that stayed within the radius
\* throughout is in the answer, and none that never was there.
THEOREM AnswersAreBalls == Spec => []AnswerIsBall
BY BallAnswers, ReadInvariant, PTL

\* Their relations are those at the inner nodes of the ball, in the call's direction
\* (graph.go:126-153): all that stayed there, and none that never was.
THEOREM AnswersHaveRelations == Spec => []RelationsAreIncident
BY BallAnswers, ReadInvariant, PTL

\* ShortestPath (graph.go:266-331) answers with a path of relations that each were there at
\* some moment, no longer than any path that was there throughout, although every level of
\* its search sees another graph; the walk back along its parents ends and is that path.
THEOREM PathsAreShortest == Spec => []PathIsShortest
<1>1. ReadInv => PathIsShortest
    <2> SUFFICES ASSUME ReadInv, pc \in {"answer", "done"}, read.op = "path", read.to \notin read.seeds
                 PROVE  PathIsShortest
        BY DEF PathIsShortest
    <2>1. IsShortest
        BY DEF ReadInv, SearchInv
    <2>2. \A k \in 1..Cardinality(Names) : k \in Nat
        BY ReadsAssumption, FS_CardinalityType
    <2> QED  BY <2>1, <2>2 DEF IsShortest, PathIsShortest, Lasting
<1> QED  BY <1>1, ReadInvariant, PTL

-----------------------------------------------------------------------------
(* The limit of Walk.                                                      *)

Walking == read.op = "walk" /\ read.limit > 0

\* Between two rounds a walk has not reached its limit, or has its seeds only.
BelowLimit ==
    Walking /\ pc \in {"links", "round"} =>
        visited = read.seeds \/ Cardinality(visited) < read.limit

Graph == [names : SUBSET Names, links : SUBSET (Names \X Names)]

WalkInv ==
    /\ read \in Call
    /\ IsFiniteSet(read.seeds) /\ IsFiniteSet(visited)
    /\ graph \in Graph
    /\ others.names \subseteq Names /\ others.links \subseteq Names \X Names
    /\ BelowLimit
    /\ WalkStopsAtLimit

\* A round adds at most what the limit has left, and one entity when it has nothing left.
LEMMA AddedBound ==
    ASSUME NEW fresh \in SUBSET Names, read \in Call, Walking,
           IsFiniteSet(visited), NEW N \in Added(fresh)
    PROVE  /\ N \subseteq fresh /\ IsFiniteSet(N)
           /\ Cardinality(N) \in Nat
           /\ \/ Cardinality(N) <= read.limit - Cardinality(visited)
              \/ Cardinality(visited) >= read.limit /\ Cardinality(N) <= 1
<1> DEFINE room == read.limit - Cardinality(visited)
           k == IF room < 1 THEN 1 ELSE room
<1>1. read.limit \in Nat /\ read.limit # 0
    BY DEF Walking, Call
<1>2. IsFiniteSet(fresh) /\ Cardinality(fresh) \in Nat
    BY ReadsAssumption, FS_Subset, FS_CardinalityType
<1>3. Cardinality(visited) \in Nat
    BY FS_CardinalityType
<1>4. N \in SUBSET fresh /\ Cardinality(N) = IF Cardinality(fresh) < k THEN Cardinality(fresh) ELSE k
    BY <1>1 DEF Added, AtMost
<1>5. IsFiniteSet(N) /\ Cardinality(N) \in Nat
    BY <1>2, <1>4, FS_Subset, FS_CardinalityType
<1> QED  BY <1>1, <1>2, <1>3, <1>4, <1>5

LEMMA EndRoundStep ==
    ASSUME WalkInv, EndRound
    PROVE  WalkInv'
<1> USE DEF WalkInv
<1>0. (wanted \cap graph.names) \ visited \in SUBSET Names
    BY DEF Graph
<1>1. PICK N \in Added((wanted \cap graph.names) \ visited) :
         /\ visited' = visited \cup N
         /\ pc' = "links" => GoesOn(N, visited', depth')
         /\ pc' \in {"links", "answer"}
    BY DEF EndRound
<1>2. read' = read /\ graph' = graph /\ others' = others /\ pc = "round"
    BY DEF EndRound
<1>3. ASSUME ~Walking PROVE WalkInv'
    <2>1. IsFiniteSet(visited')
        <3>1. N \subseteq Names
            BY <1>0, <1>1 DEF Added, AtMost
        <3> QED  BY <1>1, <3>1, ReadsAssumption, FS_Subset, FS_Union
    <2> QED  BY <1>2, <1>3, <2>1 DEF Walking, BelowLimit, WalkStopsAtLimit
<1>4. ASSUME Walking PROVE WalkInv'
    <2> DEFINE seen == Cardinality(visited)
               new == Cardinality(N)
    <2>1. /\ N \subseteq (wanted \cap graph.names) \ visited
          /\ IsFiniteSet(N) /\ new \in Nat
          /\ new <= read.limit - seen \/ (seen >= read.limit /\ new <= 1)
        BY <1>0, <1>1, <1>4, AddedBound
    <2>2. seen \in Nat /\ read.limit \in Nat /\ Cardinality(read.seeds) \in Nat
        BY FS_CardinalityType DEF Call
    <2>3. IsFiniteSet(visited') /\ Cardinality(visited') = seen + new
        <3>1. visited \cap N = {}
            BY <2>1
        <3>2. Cardinality({}) = 0
            BY FS_EmptySet
        <3>3. /\ IsFiniteSet(visited \cup N)
              /\ Cardinality(visited \cup N) = seen + new - Cardinality(visited \cap N)
            BY <2>1, FS_Union
        <3> HIDE DEF seen, new
        <3>4. seen + new - 0 = seen + new
            BY <2>1, <2>2
        <3> QED  BY <1>1, <3>1, <3>2, <3>3, <3>4
    <2>4. visited = read.seeds \/ seen < read.limit
        BY <1>2, <1>4 DEF BelowLimit
    <2>5. Cardinality(visited') <= IF Cardinality(read.seeds) < read.limit THEN read.limit
                                   ELSE Cardinality(read.seeds) + 1
        <3> HIDE DEF seen, new
        <3>1. CASE visited = read.seeds
            BY <2>1, <2>2, <2>3, <3>1 DEF seen
        <3>2. CASE seen < read.limit
            BY <2>1, <2>2, <2>3, <3>2
        <3> QED  BY <2>4, <3>1, <3>2
    <2>6. pc' = "links" => Cardinality(visited') < read.limit
        BY <1>1, <1>4 DEF GoesOn, Walking
    <2> QED  BY <1>1, <1>2, <2>3, <2>5, <2>6 DEF BelowLimit, WalkStopsAtLimit, Walking
<1> QED  BY <1>3, <1>4

\* The other statements of a walk leave visited alone and, but for the first of a
\* round, are past the rounds; a search for a path is no walk.
LEMMA StatementStep ==
    ASSUME WalkInv, Step \/ Fail, ~EndRound
    PROVE  WalkInv'
<1> USE DEF WalkInv
<1>1. UNCHANGED <<read, graph, others>>
    BY DEF Step, QueryNeighbors, QueryRound, SearchLevel, QueryRows, QueryObservations,
           SkipEntity, EndRows, QueryRelations, Fail
<1>2. CASE SearchLevel
    <2>1. ~Walking
        BY <1>2 DEF SearchLevel, Walking
    <2>2. Fresh \subseteq Names /\ visited' = visited \cup Fresh
        BY <1>2 DEF SearchLevel, Fresh
    <2>3. IsFiniteSet(visited')
        BY <2>2, ReadsAssumption, FS_Subset, FS_Union
    <2> QED  BY <1>1, <2>1, <2>3 DEF BelowLimit, WalkStopsAtLimit, Walking
<1>3. CASE ~SearchLevel
    <2>1. visited' = visited
        BY <1>3 DEF Step, QueryNeighbors, QueryRound, QueryRows, QueryObservations,
               SkipEntity, EndRows, QueryRelations, Fail, search
    <2>2. pc' \in {"links", "round"} => pc \in {"links", "round"}
        BY <1>3 DEF Step, QueryNeighbors, QueryRound, QueryRows, QueryObservations,
               SkipEntity, EndRows, QueryRelations, Fail
    <2> QED  BY <1>1, <2>1, <2>2 DEF BelowLimit, WalkStopsAtLimit, Walking
<1> QED  BY <1>2, <1>3

LEMMA OthersStep ==
    ASSUME WalkInv, Others
    PROVE  WalkInv'
<1> USE DEF WalkInv
<1>1. UNCHANGED <<read, pc, visited, others>>
    BY DEF Others, Store, Forget, Link, Unlink, Commit, search
<1>2. ASSUME NEW n \in others.names, Store(n) PROVE graph' \in Graph
    BY <1>2 DEF Store, Commit, Graph
<1>3. ASSUME NEW n \in others.names, Forget(n) PROVE graph' \in Graph
    BY <1>3 DEF Forget, Commit, Graph
<1>4. ASSUME NEW l \in others.links, Link(l) \/ Unlink(l) PROVE graph' \in Graph
    BY <1>4 DEF Link, Unlink, Commit, Graph
<1>5. graph' \in Graph
    BY <1>2, <1>3, <1>4 DEF Others
<1> QED  BY <1>1, <1>5 DEF BelowLimit, WalkStopsAtLimit, Walking

LEMMA InitWalk == Init => WalkInv
<1> SUFFICES ASSUME Init PROVE WalkInv
    OBVIOUS
<1>1. /\ read \in Call /\ graph \in Graph /\ visited = read.seeds
      /\ others.names \subseteq Names /\ others.links \subseteq Names \X Names
    BY ReadsAssumption DEF Init, WellFormed, Graph
<1>2. IsFiniteSet(read.seeds) /\ Cardinality(read.seeds) \in Nat
    BY <1>1, ReadsAssumption, FS_Subset, FS_CardinalityType DEF Call
<1>3. BelowLimit
    BY <1>1 DEF BelowLimit
<1>4. WalkStopsAtLimit
    BY <1>1, <1>2 DEF WalkStopsAtLimit, Call
<1> QED  BY <1>1, <1>2, <1>3, <1>4 DEF WalkInv

LEMMA NextWalk == WalkInv /\ [Next]_vars => WalkInv'
<1> SUFFICES ASSUME WalkInv, [Next]_vars PROVE WalkInv'
    OBVIOUS
<1>1. CASE Step \/ Fail
    BY <1>1, StatementStep, EndRoundStep
<1>2. CASE Others
    BY <1>2, OthersStep
<1>3. CASE UNCHANGED vars
    BY <1>3 DEF vars, WalkInv, BelowLimit, WalkStopsAtLimit, Walking
<1> QED  BY <1>1, <1>2, <1>3 DEF Next

\* Walk's limit (mcp_types.go:149, graph.go:218-227) bounds the entities a walk reaches
\* by itself, or by one more than its seeds when these are as many already: on every
\* graph, for every depth, direction and limit, and whatever is committed meanwhile.
THEOREM WalkIsBounded == Spec => []WalkStopsAtLimit
<1>1. WalkInv => WalkStopsAtLimit
    BY DEF WalkInv
<1> QED  BY <1>1, InitWalk, NextWalk, PTL DEF Spec
===============================================================================
