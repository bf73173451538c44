---------------------- MODULE GraphStoreRefinementProofs ----------------------
(***************************************************************************)
(* GraphStore implements KnowledgeGraph: with foreign keys enforced, every *)
(* call of the store takes effect whole and at one instant.                *)
(*                                                                         *)
(* The argument has three parts.  The statements: what each of them makes  *)
(* of the tables has, read back as a graph, the effect that KnowledgeGraph *)
(* gives it (the lemmas Image...).  The rounds: the invariant Sim says how *)
(* far the transaction of each call has brought the graph, as the stages   *)
(* of its batch or as the names and rows of its chunks so far.  The steps: *)
(* each action maps to one step of KnowledgeGraph or to none (the lemmas   *)
(* ...Simulated), and COMMIT, or a statement outside a transaction, to the *)
(* step at which the call takes effect.                                    *)
(***************************************************************************)
EXTENDS GraphStoreRefinement, GraphStoreProofs, WellFoundedInduction

-----------------------------------------------------------------------------
(* naturals *)

\* Every nonempty set of naturals has a least element.
LEMMA LeastNat ==
    ASSUME NEW T \in SUBSET Nat, T # {}
    PROVE  \E m \in T : \A k \in T : m <= k
<1> DEFINE R == OpToRel(<, Nat)
<1>1. IsWellFoundedOn(R, Nat)
    BY NatLessThanWellFounded, Zenon
<1>2. \A x, y \in Nat : x < y => <<x, y>> \in R
    BY DEF OpToRel
<1> HIDE DEF R
<1>3. PICK m \in T : \A k \in T : ~ (<<k, m>> \in R)
    BY <1>1, WFMin
<1>4. ASSUME NEW k \in T PROVE m <= k
    <2>1. m \in Nat /\ k \in Nat /\ ~ (<<k, m>> \in R)
        BY <1>3
    <2>2. ~ (k < m)
        BY <2>1, <1>2
    <2> QED  BY <2>1, <2>2
<1> QED  BY <1>4

\* Induction over the naturals, as a fact about a set of them.
LEMMA SetInduction ==
    ASSUME NEW S \in SUBSET Nat, 0 \in S, \A n \in Nat : n \in S => n + 1 \in S
    PROVE  S = Nat
<1> SUFFICES ASSUME Nat \ S # {} PROVE FALSE
    OBVIOUS
<1>1. PICK m \in Nat \ S : \A k \in Nat \ S : m <= k
    BY LeastNat
<1>2. m - 1 \in Nat /\ m - 1 \in S
    BY <1>1
<1> QED  BY <1>1, <1>2

-----------------------------------------------------------------------------
(* the texts of a list that are not blank *)

\* The part of the numbering of InsertObservations that an order of insertion
\* fixes: the contents at the positions kept, one after the other, are z.
Lists(z, s, kept) ==
    /\ Len(z) = Cardinality(kept)
    /\ \A i \in kept : Cardinality({j \in kept : j <= i}) \in 1..Len(z)
                       /\ z[Cardinality({j \in kept : j <= i})] = s[i]
    /\ \A k \in 1..Len(z) : \E i \in kept : k = Cardinality({j \in kept : j <= i})

\* All positions kept: the list itself.
LEMMA ListsAll ==
    ASSUME NEW s \in Seq(Text)
    PROVE  Lists(s, s, DOMAIN s)
<1>1. DOMAIN s = 1..Len(s) /\ Len(s) \in Nat
    OBVIOUS
<1>2. ASSUME NEW i \in DOMAIN s
      PROVE  Cardinality({j \in DOMAIN s : j <= i}) = i
    <2>1. {j \in DOMAIN s : j <= i} = 1..i
        BY <1>1
    <2>2. Cardinality(1..i) = i
        BY <1>1, FS_Interval
    <2> QED
        BY <2>1, <2>2
<1>3. Cardinality(DOMAIN s) = Len(s)
    BY <1>1, FS_Interval
<1> QED
    BY <1>1, <1>2, <1>3 DEF Lists

\* The list without its blank texts, built position by position.
KeptStep(l, s, i) == IF IsBlank(s[i]) THEN l ELSE Append(l, s[i])

AreKept(w, s) == w = [i \in 0..Len(s) |-> IF i = 0 THEN <<>> ELSE KeptStep(w[i - 1], s, i)]

\* The recursive function NonBlank stands for exists: its values can be listed for every prefix.
LEMMA KeptExists ==
    ASSUME NEW s \in Seq(Text)
    PROVE  \E w : AreKept(w, s)
<1> DEFINE Prefixes(n) == {w \in [0..n -> Seq(Text)] :
                              w[0] = <<>> /\ \A i \in 1..n : w[i] = KeptStep(w[i - 1], s, i)}
           T == {n \in Nat : n <= Len(s) => \E w : w \in Prefixes(n)}
<1>1. 0 \in T
    <2>1. [i \in 0..0 |-> <<>>] \in Prefixes(0)
        OBVIOUS
    <2> QED
        BY <2>1
<1>2. ASSUME NEW n \in Nat, n \in T
      PROVE  n + 1 \in T
    <2> HIDE DEF Prefixes
    <2>0. SUFFICES ASSUME n + 1 <= Len(s)
                   PROVE  \E w : w \in Prefixes(n + 1)
        OBVIOUS
    <2>1. PICK w : w \in Prefixes(n)
        <3>1. n <= Len(s)
            BY <2>0
        <3> QED
            BY <1>2, <3>1
    <2> USE DEF Prefixes
    <2> DEFINE z == [i \in 0..(n + 1) |-> IF i = n + 1 THEN KeptStep(w[n], s, n + 1) ELSE w[i]]
    <2>2. w \in [0..n -> Seq(Text)] /\ w[0] = <<>>
          /\ \A i \in 1..n : w[i] = KeptStep(w[i - 1], s, i)
        BY <2>1
    <2>3. KeptStep(w[n], s, n + 1) \in Seq(Text)
        <3>1. w[n] \in Seq(Text) /\ s[n + 1] \in Text
            BY <2>0, <2>2
        <3> QED
            BY <3>1 DEF KeptStep
    <2>4. z \in [0..(n + 1) -> Seq(Text)]
        BY <2>2, <2>3
    <2>5. z[0] = <<>>
        BY <2>2
    <2>6. ASSUME NEW i \in 1..(n + 1)
          PROVE  z[i] = KeptStep(z[i - 1], s, i)
        <3>1. i - 1 \in 0..n /\ i - 1 \in 0..(n + 1) /\ i - 1 # n + 1 /\ i \in 0..(n + 1)
            OBVIOUS
        <3>2. z[i - 1] = w[i - 1]
            BY <3>1
        <3>3. CASE i = n + 1
            BY <3>1, <3>2, <3>3
        <3>4. CASE i # n + 1
            <4>1. i \in 1..n /\ z[i] = w[i]
                BY <3>1, <3>4
            <4> QED
                BY <2>2, <3>2, <4>1
        <3> QED
            BY <3>3, <3>4
    <2> HIDE DEF z
    <2>7. z \in Prefixes(n + 1)
        BY <2>4, <2>5, <2>6
    <2> QED
        BY <2>7
<1> HIDE DEF T
<1>3. T \in SUBSET Nat
    BY DEF T
<1>4. Len(s) \in Nat /\ Len(s) \in T
    BY <1>1, <1>2, <1>3, SetInduction
<1>5. PICK w : w \in Prefixes(Len(s))
    BY <1>4 DEF T
<1>6. w \in [0..Len(s) -> Seq(Text)] /\ w[0] = <<>>
      /\ \A i \in 1..Len(s) : w[i] = KeptStep(w[i - 1], s, i)
    BY <1>5
<1>7. \A i \in 0..Len(s) : w[i] = IF i = 0 THEN <<>> ELSE KeptStep(w[i - 1], s, i)
    BY <1>4, <1>6
<1>8. w = [i \in 0..Len(s) |-> w[i]]
    BY <1>6
<1>9. w = [i \in 0..Len(s) |-> IF i = 0 THEN <<>> ELSE KeptStep(w[i - 1], s, i)]
    BY <1>7, <1>8, Zenon
<1> QED
    BY <1>9 DEF AreKept

\* What NonBlank computes, position by position.
LEMMA KeptByPositions ==
    ASSUME NEW s \in Seq(Text)
    PROVE  \E w : AreKept(w, s) /\ KG!NonBlank(s) = w[Len(s)]
<1> DEFINE kept == CHOOSE w : w = [i \in 0..Len(s) |-> IF i = 0 THEN <<>> ELSE KeptStep(w[i - 1], s, i)]
<1>1. kept = [i \in 0..Len(s) |-> IF i = 0 THEN <<>> ELSE KeptStep(kept[i - 1], s, i)]
    BY KeptExists DEF AreKept
<1>2. KG!NonBlank(s) = kept[Len(s)]
    BY DEF KG!NonBlank, KG!IsBlank, KeptStep, IsBlank
<1> QED
    BY <1>1, <1>2 DEF AreKept

\* One more position: the rank of a position counts those before it only.
LEMMA ListsBlank ==
    ASSUME NEW s \in Seq(Text), NEW n \in Nat, n + 1 <= Len(s), NEW z \in Seq(Text),
           Lists(z, s, {j \in NonBlank(s) : j <= n})
    PROVE  Lists(KeptStep(z, s, n + 1), s, {j \in NonBlank(s) : j <= n + 1})
<1> DEFINE old == {j \in NonBlank(s) : j <= n}
           new == {j \in NonBlank(s) : j <= n + 1}
<1>1. NonBlank(s) \in SUBSET (1..Len(s)) /\ Len(s) \in Nat
    BY NonBlankPositions
<1>2. CASE IsBlank(s[n + 1])
    <2>1. new = old
        <3>1. n + 1 \notin NonBlank(s)
            BY <1>2 DEF NonBlank
        <3> QED
            BY <1>1, <3>1
    <2>2. KeptStep(z, s, n + 1) = z
        BY <1>2 DEF KeptStep
    <2> HIDE DEF new, old
    <2>3. Lists(z, s, old)
        BY DEF old
    <2> QED
        BY <2>1, <2>2, <2>3 DEF new
<1>3. CASE ~IsBlank(s[n + 1])
    <2> DEFINE y == Append(z, s[n + 1])
    <2>1. n + 1 \in NonBlank(s) /\ s[n + 1] \in Text
        BY <1>3 DEF NonBlank
    <2>2. new = old \cup {n + 1} /\ n + 1 \notin old /\ \A i \in old : i \in Nat /\ i <= n
        BY <1>1, <2>1
    <2>3. IsFiniteSet(old) /\ old \in SUBSET (1..Len(s))
        <3>1. old \in SUBSET (1..Len(s))
            BY <1>1
        <3>2. IsFiniteSet(1..Len(s))
            BY <1>1, FS_Interval
        <3> HIDE DEF old
        <3> QED
            BY <3>1, <3>2, FS_Subset
    <2>4. /\ Len(z) = Cardinality(old)
          /\ \A i \in old : Cardinality({j \in old : j <= i}) \in 1..Len(z)
                             /\ z[Cardinality({j \in old : j <= i})] = s[i]
          /\ \A k \in 1..Len(z) : \E i \in old : k = Cardinality({j \in old : j <= i})
        BY DEF Lists
    <2>5. y \in Seq(Text) /\ Len(y) = Len(z) + 1 /\ y[Len(z) + 1] = s[n + 1]
          /\ \A k \in 1..Len(z) : y[k] = z[k]
        BY <2>1
    <2>6. KeptStep(z, s, n + 1) = y
        BY <1>3 DEF KeptStep
    <2> HIDE DEF old, new, y
    <2>7. Cardinality(new) = Len(z) + 1
        BY <2>2, <2>3, <2>4, FS_AddElement
    <2>8. \A i \in old : {j \in new : j <= i} = {j \in old : j <= i}
        BY <2>2
    <2>9. {j \in new : j <= n + 1} = new
        BY <2>2
    <2>10. Cardinality({j \in new : j <= n + 1}) = Len(z) + 1
        BY <2>7, <2>9
    <2>11. \A i \in old : Cardinality({j \in new : j <= i}) = Cardinality({j \in old : j <= i})
        BY <2>8
    <2> DEFINE rank(i) == Cardinality({j \in new : j <= i})
               was(i)  == Cardinality({j \in old : j <= i})
    <2>12. /\ rank(n + 1) = Len(z) + 1
           /\ \A i \in old : rank(i) = was(i)
           /\ \A i \in old : was(i) \in 1..Len(z) /\ z[was(i)] = s[i]
           /\ \A k \in 1..Len(z) : \E i \in old : k = was(i)
        BY <2>4, <2>10, <2>11
    <2>13. Len(y) = Cardinality(new) /\ Len(z) \in Nat
        BY <2>5, <2>7
    <2> SUFFICES Len(y) = Cardinality(new)
                 /\ (\A i \in new : rank(i) \in 1..Len(y) /\ y[rank(i)] = s[i])
                 /\ (\A k \in 1..Len(y) : \E i \in new : k = rank(i))
        BY <2>6 DEF Lists, new
    <2> HIDE DEF rank, was
    <2>14. \A i \in new : rank(i) \in 1..Len(y) /\ y[rank(i)] = s[i]
        BY <2>2, <2>5, <2>12, <2>13
    <2>15. ASSUME NEW k \in 1..Len(y)
           PROVE  \E i \in new : k = rank(i)
        <3>1. CASE k = Len(z) + 1
            BY <2>2, <2>12, <3>1
        <3>2. CASE k # Len(z) + 1
            <4>1. k \in 1..Len(z)
                BY <2>5, <2>13, <3>2
            <4> QED
                BY <2>2, <2>12, <4>1
        <3> QED
            BY <3>1, <3>2
    <2> QED
        BY <2>13, <2>14, <2>15
<1> QED
    BY <1>2, <1>3

\* The texts that are not blank are the contents at the positions that are not.
LEMMA NonBlankListed ==
    ASSUME NEW s \in Seq(Text)
    PROVE  KG!NonBlank(s) \in Seq(Text) /\ Lists(KG!NonBlank(s), s, NonBlank(s))
<1>1. PICK w : AreKept(w, s) /\ KG!NonBlank(s) = w[Len(s)]
    BY KeptByPositions
<1>2. NonBlank(s) \in SUBSET (1..Len(s)) /\ Len(s) \in Nat
    BY NonBlankPositions
<1>3. w[0] = <<>> /\ \A i \in 1..Len(s) : w[i] = KeptStep(w[i - 1], s, i)
    BY <1>1, <1>2 DEF AreKept
<1> DEFINE upto(n) == {j \in NonBlank(s) : j <= n}
           T == {n \in Nat : n <= Len(s) => w[n] \in Seq(Text) /\ Lists(w[n], s, upto(n))}
<1>4. 0 \in T
    <2>1. upto(0) = {}
        BY <1>2
    <2>2. Cardinality({}) = 0 /\ Len(<<>>) = 0
        BY FS_EmptySet
    <2>3. Lists(<<>>, s, {})
        BY <2>2 DEF Lists
    <2>4. w[0] \in Seq(Text)
        BY <1>3
    <2> HIDE DEF upto
    <2> QED
        BY <1>3, <2>1, <2>3, <2>4
<1>5. ASSUME NEW n \in Nat, n \in T
      PROVE  n + 1 \in T
    <2> SUFFICES ASSUME n + 1 <= Len(s)
                 PROVE  w[n + 1] \in Seq(Text) /\ Lists(w[n + 1], s, upto(n + 1))
        OBVIOUS
    <2>1. n <= Len(s) /\ n + 1 \in 1..Len(s) /\ (n + 1) - 1 = n
        BY <1>2
    <2>2. w[n] \in Seq(Text) /\ Lists(w[n], s, upto(n))
        BY <1>5, <2>1
    <2>3. w[n + 1] = KeptStep(w[n], s, n + 1)
        BY <1>3, <2>1
    <2>4. KeptStep(w[n], s, n + 1) \in Seq(Text)
        <3>1. s[n + 1] \in Text
            BY <2>1
        <3> QED
            BY <2>2, <3>1 DEF KeptStep
    <2>5. Lists(KeptStep(w[n], s, n + 1), s, upto(n + 1))
        BY <2>2, ListsBlank
    <2> QED
        BY <2>3, <2>4, <2>5
<1>6. upto(Len(s)) = NonBlank(s)
    BY <1>2
<1> HIDE DEF T
<1>7. T \in SUBSET Nat
    BY DEF T
<1>8. Len(s) \in T
    BY <1>2, <1>4, <1>5, <1>7, SetInduction
<1> HIDE DEF upto
<1>9. w[Len(s)] \in Seq(Text) /\ Lists(w[Len(s)], s, upto(Len(s)))
    BY <1>2, <1>8 DEF T
<1> QED
    BY <1>1, <1>6, <1>9

-----------------------------------------------------------------------------
(* the statements: the image of what each makes of the tables *)

\* The graph that tables hold, as KnowledgeGraph has it.
Image(g) == [type |-> TypesIn(g), notes |-> NotesIn(g), lastNote |-> g.obsSeq, links |-> LinksIn(g)]

\* The abstract graph is the image of the committed tables.
LEMMA GraphIsImage == KG!Graph = Image(db)
BY DEF KG!Graph, Image

\* No graph is mistaken for a refusal.
LEMMA ImageDefined ==
    ASSUME NEW g
    PROVE  Image(g) # KG!Undefined
<1>1. DOMAIN Image(g) = {"type", "notes", "lastNote", "links"}
    BY DEF Image
<1>2. DOMAIN KG!Undefined = {"undefined"}
    BY DEF KG!Undefined
<1> QED
    BY <1>1, <1>2

\* A graph is its four parts.
LEMMA FourParts ==
    ASSUME NEW h, NEW g,
           DOMAIN h = {"type", "notes", "lastNote", "links"}, h = [f \in DOMAIN h |-> h[f]],
           h.type = TypesIn(g), h.notes = NotesIn(g), h.lastNote = g.obsSeq, h.links = LinksIn(g)
    PROVE  Image(g) = h
<1>1. [f \in DOMAIN h |-> h[f]] = Image(g)
    BY DEF Image
<1> QED
    BY <1>1

\* The entities of the image are those of the table.
LEMMA KnownExists ==
    ASSUME NEW g, NEW n
    PROVE  /\ KG!Known(Image(g), n) <=> Exists(g, n)
           /\ n \in Names(g) <=> Exists(g, n)
BY DEF KG!Known, Image, TypesIn, Names, Exists

\* Each part of the graph is read from one table, and the notes from the entities too.
LEMMA ImageParts ==
    ASSUME NEW g, NEW h
    PROVE  /\ g.entities = h.entities => TypesIn(h) = TypesIn(g) /\ Names(h) = Names(g)
           /\ g.entities = h.entities /\ g.observations = h.observations => NotesIn(h) = NotesIn(g)
           /\ g.relations = h.relations => LinksIn(h) = LinksIn(g)
<1>1. ASSUME g.entities = h.entities
      PROVE  TypesIn(h) = TypesIn(g) /\ Names(h) = Names(g)
    <2>1. Names(h) = Names(g)
        BY <1>1 DEF Names
    <2>2. \A n : TypeOfEntity(h, n) = TypeOfEntity(g, n)
        BY <1>1, Zenon DEF TypeOfEntity
    <2> QED
        BY <2>1, <2>2 DEF TypesIn
<1>2. ASSUME g.entities = h.entities, g.observations = h.observations
      PROVE  NotesIn(h) = NotesIn(g)
    BY <1>1, <1>2 DEF NotesIn, NotesOf
<1>3. ASSUME g.relations = h.relations
      PROVE  LinksIn(h) = LinksIn(g)
    BY <1>3 DEF LinksIn, CopiesOf
<1> QED
    BY <1>1, <1>2, <1>3

\* INSERT of observations numbers their contents on, in order.
LEMMA ImageInsert ==
    ASSUME NEW g, Sound(g), NEW n, Exists(g, n), NEW s \in Seq(Text), NEW kept \in SUBSET DOMAIN s,
           NEW z \in Seq(Text), Lists(z, s, kept)
    PROVE  Image(InsertObservations(g, n, s, kept)) = KG!Noted(Image(g), n, z)
<1> DEFINE h == InsertObservations(g, n, s, kept)
           rank(i) == Cardinality({j \in kept : j <= i})
           row(i) == [id |-> g.obsSeq + rank(i), entity |-> n, content |-> s[i]]
           new == {row(i) : i \in kept}
           added == {[id |-> g.obsSeq + k, content |-> z[k]] : k \in DOMAIN z}
<1>1. /\ h.entities = g.entities /\ h.relations = g.relations
      /\ h.observations = g.observations \cup new
      /\ h.obsSeq = g.obsSeq + Cardinality(kept)
    BY DEF InsertObservations, Sound, Tables
<1>2. DOMAIN z = 1..Len(z) /\ Len(z) \in Nat /\ Len(z) = Cardinality(kept)
    BY DEF Lists
<1>3. /\ \A i \in kept : rank(i) \in DOMAIN z /\ z[rank(i)] = s[i]
      /\ \A k \in DOMAIN z : \E i \in kept : k = rank(i)
    BY <1>2 DEF Lists
<1> HIDE DEF h, rank
<1>4. {[id |-> o.id, content |-> o.content] : o \in new} = added
    <2>1. ASSUME NEW i \in kept
          PROVE  /\ row(i) \in new
                 /\ [id |-> row(i).id, content |-> row(i).content]
                      = [id |-> g.obsSeq + rank(i), content |-> z[rank(i)]]
        BY <1>3
    <2>2. \A o \in new : \E i \in kept : o = row(i)
        OBVIOUS
    <2> HIDE DEF new, row
    <2>3. ASSUME NEW o \in new
          PROVE  [id |-> o.id, content |-> o.content] \in added
        BY <1>3, <2>1, <2>2, <2>3
    <2>4. ASSUME NEW p \in added
          PROVE  p \in {[id |-> o.id, content |-> o.content] : o \in new}
        <3>1. PICK k \in DOMAIN z : p = [id |-> g.obsSeq + k, content |-> z[k]]
            OBVIOUS
        <3>2. PICK i \in kept : k = rank(i)
            BY <1>3
        <3>3. row(i) \in new /\ p = [id |-> row(i).id, content |-> row(i).content]
            BY <2>1, <3>1, <3>2
        <3> QED
            BY <3>3
    <2> HIDE DEF added
    <2> QED
        BY <2>3, <2>4
<1>5. \A o \in new : o.entity = n
    OBVIOUS
<1> HIDE DEF new, added, row
<1>6. NotesOf(h, n) = NotesOf(g, n) \cup added
    BY <1>1, <1>4, <1>5 DEF NotesOf
<1>7. \A m : m # n => NotesOf(h, m) = NotesOf(g, m)
    BY <1>1, <1>5 DEF NotesOf
<1>8. Names(h) = Names(g) /\ TypesIn(h) = TypesIn(g) /\ LinksIn(h) = LinksIn(g) /\ n \in Names(g)
    BY <1>1, ImageParts, KnownExists
<1>9. CASE z = <<>>
    <2>1. DOMAIN z = {} /\ Len(z) = 0
        BY <1>9
    <2>2. added = {}
        BY <2>1 DEF added
    <2>3. \A m : NotesOf(h, m) = NotesOf(g, m)
        BY <1>6, <1>7, <2>2
    <2>4. NotesIn(h) = NotesIn(g)
        BY <1>8, <2>3 DEF NotesIn
    <2>5. h.obsSeq = g.obsSeq
        BY <1>1, <1>2, <2>1 DEF Sound, Tables
    <2> QED
        BY <1>8, <1>9, <2>4, <2>5 DEF Image, KG!Noted, h
<1>10. CASE z # <<>>
    <2> DEFINE k == KG!Noted(Image(g), n, z)
    <2>1. NotesIn(h) = KG!Put(NotesIn(g), n, NotesIn(g)[n] \cup added)
        BY <1>6, <1>7, <1>8 DEF NotesIn, KG!Put
    <2>2. /\ DOMAIN k = {"type", "notes", "lastNote", "links"} /\ k = [f \in DOMAIN k |-> k[f]]
          /\ k.type = TypesIn(g) /\ k.links = LinksIn(g)
          /\ k.notes = KG!Put(NotesIn(g), n, NotesIn(g)[n] \cup added)
          /\ k.lastNote = g.obsSeq + Len(z)
        BY <1>10 DEF KG!Noted, Image, added
    <2> HIDE DEF k
    <2>3. Image(h) = k
        BY <1>1, <1>2, <1>8, <2>1, <2>2, FourParts
    <2> QED
        BY <2>3 DEF h, k
<1> QED
    BY <1>9, <1>10

\* The entity rows decide the types.
LEMMA TypeOfRow ==
    ASSUME NEW g, Sound(g), NEW e \in g.entities
    PROVE  TypeOfEntity(g, e.name) = e.type
BY DEF TypeOfEntity, Sound, HaveKeys

\* Entity n has type t in h, and the other entities are as they were in g.
LEMMA ImageRetyped ==
    ASSUME NEW g, Sound(g), NEW h, Sound(h), NEW n, NEW t,
           h.entities = {e \in g.entities : e.name # n} \cup {[name |-> n, type |-> t]}
    PROVE  TypesIn(h) = KG!Put(TypesIn(g), n, t) /\ Names(h) = Names(g) \cup {n}
<1>1. Names(h) = Names(g) \cup {n}
    <2> DEFINE row == [name |-> n, type |-> t]
    <2>1. row.name = n
        OBVIOUS
    <2> HIDE DEF row
    <2> QED
        BY <2>1 DEF Names, row
<1>2. TypeOfEntity(h, n) = t
    <2> DEFINE row == [name |-> n, type |-> t]
    <2>1. row \in h.entities /\ row.name = n /\ row.type = t
        OBVIOUS
    <2> HIDE DEF row
    <2> QED
        BY <2>1, TypeOfRow
<1>3. ASSUME NEW m \in Names(g), m # n
      PROVE  TypeOfEntity(h, m) = TypeOfEntity(g, m)
    <2>1. PICK e \in g.entities : e.name = m
        BY DEF Names
    <2>2. e \in h.entities
        BY <1>3, <2>1
    <2> QED
        BY <2>1, <2>2, TypeOfRow
<1>4. TypesIn(h) = [m \in Names(h) |-> TypeOfEntity(h, m)] /\ DOMAIN TypesIn(g) = Names(g)
      /\ \A m \in Names(g) : TypesIn(g)[m] = TypeOfEntity(g, m)
    BY DEF TypesIn
<1> QED
    BY <1>1, <1>2, <1>3, <1>4 DEF KG!Put

\* UPSERT of an entity whose observations are then cleared: it is new, or starts anew.
LEMMA ImageUpsertCleared ==
    ASSUME NEW g, Sound(g), NEW n \in Text, NEW t \in Text
    PROVE  LET h == ClearObservations(UpsertEntity(g, n, t), n)
           IN  /\ Sound(h) /\ Exists(h, n)
               /\ Image(h) = [Image(g) EXCEPT !.type = KG!Put(@, n, t), !.notes = KG!Put(@, n, {})]
<1> DEFINE h == ClearObservations(UpsertEntity(g, n, t), n)
<1>1. Sound(UpsertEntity(g, n, t)) /\ Exists(UpsertEntity(g, n, t), n)
    BY UpsertEntityFollows DEF Follows
<1>2. Sound(h) /\ Exists(h, n)
    BY <1>1, ClearObservationsFollows DEF Follows
<1>3. /\ h.entities = {e \in g.entities : e.name # n} \cup {[name |-> n, type |-> t]}
      /\ h.observations = {o \in g.observations : o.entity # n}
      /\ h.relations = g.relations /\ h.obsSeq = g.obsSeq
    BY DEF ClearObservations, UpsertEntity, Sound, Tables
<1> HIDE DEF h
<1>4. TypesIn(h) = KG!Put(TypesIn(g), n, t) /\ Names(h) = Names(g) \cup {n}
    BY <1>2, <1>3, ImageRetyped
<1>5. NotesOf(h, n) = {} /\ \A m : m # n => NotesOf(h, m) = NotesOf(g, m)
    BY <1>3 DEF NotesOf
<1>6. NotesIn(h) = KG!Put(NotesIn(g), n, {})
    BY <1>4, <1>5 DEF NotesIn, KG!Put
<1>7. LinksIn(h) = LinksIn(g)
    BY <1>3, ImageParts
<1> DEFINE k == [Image(g) EXCEPT !.type = KG!Put(@, n, t), !.notes = KG!Put(@, n, {})]
<1>8. /\ DOMAIN k = {"type", "notes", "lastNote", "links"} /\ k = [f \in DOMAIN k |-> k[f]]
      /\ k.type = KG!Put(TypesIn(g), n, t) /\ k.notes = KG!Put(NotesIn(g), n, {})
      /\ k.lastNote = g.obsSeq /\ k.links = LinksIn(g)
    BY DEF Image
<1> HIDE DEF k
<1>9. Image(h) = k
    BY <1>3, <1>4, <1>6, <1>7, <1>8, FourParts
<1> QED
    BY <1>2, <1>9 DEF h, k

\* UPDATE of an entity's type.
LEMMA ImageSetType ==
    ASSUME NEW g, Sound(g), NEW n \in Text, NEW t \in Text, Exists(g, n)
    PROVE  LET h == SetType(g, n, t)
           IN  /\ Sound(h) /\ Exists(h, n)
               /\ Image(h) = [Image(g) EXCEPT !.type = KG!Put(@, n, t)]
<1> DEFINE h == SetType(g, n, t)
<1>1. Sound(h) /\ Exists(h, n)
    BY SetTypeFollows DEF Follows
<1>2. {[name |-> n, type |-> t] : e \in {d \in g.entities : d.name = n}} = {[name |-> n, type |-> t]}
    BY DEF Exists
<1>3. /\ h.entities = {e \in g.entities : e.name # n} \cup {[name |-> n, type |-> t]}
      /\ h.observations = g.observations
      /\ h.relations = g.relations /\ h.obsSeq = g.obsSeq
    BY <1>2 DEF SetType, Sound, Tables
<1> HIDE DEF h
<1>4. TypesIn(h) = KG!Put(TypesIn(g), n, t) /\ Names(h) = Names(g) \cup {n}
    BY <1>1, <1>3, ImageRetyped
<1>5. NotesIn(h) = NotesIn(g)
    <2>1. Names(h) = Names(g)
        BY <1>4, KnownExists
    <2> QED
        BY <1>3, <2>1 DEF NotesIn, NotesOf
<1>6. LinksIn(h) = LinksIn(g)
    BY <1>3, ImageParts
<1> DEFINE k == [Image(g) EXCEPT !.type = KG!Put(@, n, t)]
<1>7. /\ DOMAIN k = {"type", "notes", "lastNote", "links"} /\ k = [f \in DOMAIN k |-> k[f]]
      /\ k.type = KG!Put(TypesIn(g), n, t) /\ k.notes = NotesIn(g)
      /\ k.lastNote = g.obsSeq /\ k.links = LinksIn(g)
    BY DEF Image
<1> HIDE DEF k
<1>9. Image(h) = k
    BY <1>3, <1>4, <1>5, <1>6, <1>7, FourParts
<1> QED
    BY <1>1, <1>9 DEF h, k

\* DELETE of some observations of one entity.
LEMMA ImageFewerNotes ==
    ASSUME NEW g, Sound(g), NEW n, Exists(g, n), NEW gone,
           gone = {o \in g.observations : o.entity = n /\ o \in gone}
    PROVE  LET h == [g EXCEPT !.observations = @ \ gone]
           IN  /\ Exists(h, n)
               /\ Image(h) = [Image(g) EXCEPT !.notes = KG!Put(@, n, NotesOf(h, n))]
<1> DEFINE h == [g EXCEPT !.observations = @ \ gone]
<1>1. /\ h.entities = g.entities /\ h.relations = g.relations /\ h.obsSeq = g.obsSeq
      /\ h.observations = g.observations \ gone
    BY DEF Sound, Tables
<1> HIDE DEF h
<1>2. Names(h) = Names(g) /\ TypesIn(h) = TypesIn(g) /\ LinksIn(h) = LinksIn(g) /\ n \in Names(g)
    BY <1>1, ImageParts, KnownExists
<1>3. \A m : m # n => NotesOf(h, m) = NotesOf(g, m)
    BY <1>1 DEF NotesOf
<1>4. NotesIn(h) = KG!Put(NotesIn(g), n, NotesOf(h, n))
    BY <1>2, <1>3 DEF NotesIn, KG!Put
<1> DEFINE k == [Image(g) EXCEPT !.notes = KG!Put(@, n, NotesOf(h, n))]
<1>5. /\ DOMAIN k = {"type", "notes", "lastNote", "links"} /\ k = [f \in DOMAIN k |-> k[f]]
      /\ k.type = TypesIn(g) /\ k.notes = KG!Put(NotesIn(g), n, NotesOf(h, n))
      /\ k.lastNote = g.obsSeq /\ k.links = LinksIn(g)
    BY DEF Image
<1> HIDE DEF k
<1>9. Image(h) = k
    BY <1>1, <1>2, <1>4, <1>5, FourParts
<1>6. Exists(h, n)
    BY <1>1 DEF Exists
<1> QED
    BY <1>6, <1>9 DEF h, k

\* Two graphs with the same parts are the same.
LEMMA SameParts ==
    ASSUME NEW h, NEW k,
           DOMAIN h = {"type", "notes", "lastNote", "links"}, h = [f \in DOMAIN h |-> h[f]],
           DOMAIN k = {"type", "notes", "lastNote", "links"}, k = [f \in DOMAIN k |-> k[f]],
           h.type = k.type, h.notes = k.notes, h.lastNote = k.lastNote, h.links = k.links
    PROVE  h = k
<1>1. \A f \in DOMAIN h : h[f] = k[f]
    OBVIOUS
<1>2. [f \in DOMAIN h |-> h[f]] = [f \in DOMAIN k |-> k[f]]
    BY <1>1
<1> QED
    BY <1>2

\* To note one list and then another is to note them one after the other.
LEMMA NotedTwice ==
    ASSUME NEW g, Sound(g), NEW n, Exists(g, n), NEW y \in Seq(Text), NEW z \in Seq(Text)
    PROVE  KG!Noted(KG!Noted(Image(g), n, y), n, z) = KG!Noted(Image(g), n, y \o z)
<1>1. CASE y = <<>>
    <2>1. y \o z = z
        BY <1>1
    <2>2. KG!Noted(Image(g), n, y) = Image(g)
        BY <1>1 DEF KG!Noted
    <2> QED
        BY <2>1, <2>2
<1>2. CASE y # <<>> /\ z = <<>>
    <2>1. y \o z = y
        BY <1>2
    <2>2. \A k : KG!Noted(k, n, z) = k
        BY <1>2 DEF KG!Noted
    <2> QED
        BY <2>1, <2>2
<1>3. CASE y # <<>> /\ z # <<>>
    <2> DEFINE l == g.obsSeq
               f == NotesIn(g)
               A == {[id |-> l + i, content |-> y[i]] : i \in DOMAIN y}
               m == l + Len(y)
               B == {[id |-> m + i, content |-> z[i]] : i \in DOMAIN z}
               C == {[id |-> l + i, content |-> (y \o z)[i]] : i \in DOMAIN (y \o z)}
               one == KG!Noted(Image(g), n, y)
               two == KG!Noted(one, n, z)
               all == KG!Noted(Image(g), n, y \o z)
    <2>1. /\ l \in Nat /\ n \in DOMAIN f
          /\ Len(y) \in Nat /\ Len(z) \in Nat /\ Len(y \o z) = Len(y) + Len(z)
          /\ y \o z # <<>>
        BY <1>3, KnownExists DEF Sound, Tables, NotesIn
    <2>2. A \cup B = C
        <3>1. ASSUME NEW i \in DOMAIN y
              PROVE  i \in DOMAIN (y \o z) /\ (y \o z)[i] = y[i]
            BY <2>1
        <3>2. ASSUME NEW i \in DOMAIN z
              PROVE  Len(y) + i \in DOMAIN (y \o z) /\ (y \o z)[Len(y) + i] = z[i] /\ m + i = l + (Len(y) + i)
            BY <2>1
        <3>3. ASSUME NEW i \in DOMAIN (y \o z), i \notin DOMAIN y
              PROVE  i - Len(y) \in DOMAIN z /\ (y \o z)[i] = z[i - Len(y)] /\ l + i = m + (i - Len(y))
            BY <2>1, <3>3
        <3>4. A \subseteq C
            BY <3>1
        <3>5. B \subseteq C
            BY <3>2
        <3>6. ASSUME NEW c \in C
              PROVE  c \in A \cup B
            <4>1. PICK i \in DOMAIN (y \o z) : c = [id |-> l + i, content |-> (y \o z)[i]]
                OBVIOUS
            <4>2. CASE i \in DOMAIN y
                BY <3>1, <4>1, <4>2
            <4>3. CASE i \notin DOMAIN y
                <5>1. c = [id |-> m + (i - Len(y)), content |-> z[i - Len(y)]] /\ i - Len(y) \in DOMAIN z
                    BY <3>3, <4>1, <4>3
                <5> QED
                    BY <5>1
            <4> QED
                BY <4>2, <4>3
        <3> HIDE DEF A, B, C
        <3> QED
            BY <3>4, <3>5, <3>6
    <2>3. /\ DOMAIN one = {"type", "notes", "lastNote", "links"} /\ one = [x \in DOMAIN one |-> one[x]]
          /\ one.type = TypesIn(g) /\ one.links = LinksIn(g)
          /\ one.notes = KG!Put(f, n, f[n] \cup A)
          /\ one.lastNote = m
        BY <1>3 DEF KG!Noted, Image
    <2>4. /\ DOMAIN all = {"type", "notes", "lastNote", "links"} /\ all = [x \in DOMAIN all |-> all[x]]
          /\ all.type = TypesIn(g) /\ all.links = LinksIn(g)
          /\ all.notes = KG!Put(f, n, f[n] \cup C)
          /\ all.lastNote = l + Len(y \o z)
        BY <2>1 DEF KG!Noted, Image
    <2> HIDE DEF one
    <2>5. /\ DOMAIN two = {"type", "notes", "lastNote", "links"} /\ two = [x \in DOMAIN two |-> two[x]]
          /\ two.type = TypesIn(g) /\ two.links = LinksIn(g)
          /\ two.notes = KG!Put(one.notes, n, one.notes[n] \cup B)
          /\ two.lastNote = m + Len(z)
        BY <1>3, <2>3 DEF KG!Noted
    <2> HIDE DEF A, B, C, f, two, all
    <2>6. two.notes = KG!Put(f, n, f[n] \cup C)
        <3>1. one.notes[n] = f[n] \cup A
            BY <2>1, <2>3 DEF KG!Put
        <3>2. two.notes = KG!Put(KG!Put(f, n, f[n] \cup A), n, f[n] \cup C)
            BY <2>2, <2>3, <2>5, <3>1
        <3> QED
            BY <3>2 DEF KG!Put
    <2>7. two.lastNote = all.lastNote
        BY <2>1, <2>4, <2>5
    <2>8. two = all
        BY <2>4, <2>5, <2>6, <2>7, SameParts
    <2> QED
        BY <2>8 DEF one, two, all
<1> QED
    BY <1>1, <1>2, <1>3

\* CreateEntity: what the transaction of one entity makes of the graph.
LEMMA ImageCreated ==
    ASSUME NEW g, Sound(g), NEW e \in EntitySpec, CreateAllowed(e), ~HasEmpty(e.obs)
    PROVE  Image(CreatedEntity(g, e)) = KG!Stored(Image(g), e)
<1> DEFINE h == ClearObservations(UpsertEntity(g, e.name, e.type), e.name)
           k == [Image(g) EXCEPT !.type = KG!Put(@, e.name, e.type), !.notes = KG!Put(@, e.name, {})]
<1>1. e.name \in Text /\ e.type \in Text /\ e.obs \in Seq(Text)
    BY DEF EntitySpec
<1>2. ~(IsBlank(e.name) \/ IsBlank(e.type) \/ e.obs = <<>> \/ Empty \in KG!Elements(e.obs))
    BY <1>1 DEF CreateAllowed, HasEmpty, KG!Elements
<1>3. KG!Stored(Image(g), e) = KG!Noted(k, e.name, e.obs)
    BY <1>2 DEF KG!Stored, KG!IsBlank, IsBlank
<1>4. Sound(h) /\ Exists(h, e.name) /\ Image(h) = k
    BY <1>1, ImageUpsertCleared
<1>5. CreatedEntity(g, e) = InsertObservations(h, e.name, e.obs, DOMAIN e.obs)
    <2>1. BeforeEmpty(e.obs) = DOMAIN e.obs
        BY <1>1 DEF BeforeEmpty, HasEmpty
    <2> QED
        BY <2>1 DEF CreatedEntity
<1> HIDE DEF h, k
<1>6. Image(InsertObservations(h, e.name, e.obs, DOMAIN e.obs)) = KG!Noted(Image(h), e.name, e.obs)
    BY <1>1, <1>4, ListsAll, ImageInsert
<1> QED
    BY <1>3, <1>4, <1>5, <1>6

\* An update writes nothing if it asks for nothing.
LEMMA UpdateAsks ==
    ASSUME NEW u \in EntityUpdate
    PROVE  UpdateWrites(u) <=> ~KG!AsksNothing(u)
<1>1. u.merge \in Seq(Text) /\ u.replace \in Seq(Text)
    BY DEF EntityUpdate
<1>2. KG!NonBlank(u.merge) \in Seq(Text) /\ Len(KG!NonBlank(u.merge)) = Cardinality(NonBlank(u.merge))
    BY <1>1, NonBlankListed DEF Lists
<1>3. IsFiniteSet(NonBlank(u.merge))
    <2>1. NonBlank(u.merge) \in SUBSET (1..Len(u.merge)) /\ Len(u.merge) \in Nat
        BY <1>1, NonBlankPositions
    <2>2. IsFiniteSet(1..Len(u.merge))
        BY <2>1, FS_Interval
    <2> QED
        BY <2>1, <2>2, FS_Subset
<1>4. NonBlank(u.merge) = {} <=> KG!NonBlank(u.merge) = <<>>
    BY <1>2, <1>3, FS_EmptySet
<1> QED
    BY <1>4 DEF UpdateWrites, KG!AsksNothing

\* UpdateEntity: what the round of one update makes of the graph.
LEMMA ImageUpdated ==
    ASSUME NEW g, Sound(g), NEW u \in EntityUpdate, UpdateAllowed(g, u)
    PROVE  Image(UpdatedEntity(g, u)) = KG!Updated(Image(g), u)
<1> DEFINE n == u.name
           typed == IF u.type = Empty THEN g ELSE SetType(g, n, u.type)
           cleared == IF u.replace = <<>> THEN typed ELSE ClearObservations(typed, n)
           replaced == IF u.replace = <<>> THEN typed
                       ELSE InsertObservations(cleared, n, u.replace, NonBlank(u.replace))
           typedG == IF u.type = Empty THEN Image(g) ELSE [Image(g) EXCEPT !.type = KG!Put(@, n, u.type)]
           clearG == IF u.replace = <<>> THEN typedG ELSE [typedG EXCEPT !.notes = KG!Put(@, n, {})]
           y == KG!NonBlank(u.replace)
           z == KG!NonBlank(u.merge)
<1>1. /\ n \in Text /\ u.type \in Text /\ u.replace \in Seq(Text) /\ u.merge \in Seq(Text)
      /\ Exists(g, n)
    BY DEF EntityUpdate, UpdateAllowed
<1>2. UpdatedEntity(g, u) = InsertObservations(replaced, n, u.merge, NonBlank(u.merge))
    BY DEF UpdatedEntity
<1>3. KG!Updated(Image(g), u) = KG!Noted(clearG, n, y \o z)
    <2>1. KG!Known(Image(g), n)
        BY <1>1, KnownExists
    <2> QED
        BY <2>1 DEF KG!Updated
<1>4. y \in Seq(Text) /\ z \in Seq(Text) /\ Lists(y, u.replace, NonBlank(u.replace))
      /\ Lists(z, u.merge, NonBlank(u.merge))
      /\ NonBlank(u.replace) \in SUBSET DOMAIN u.replace /\ NonBlank(u.merge) \in SUBSET DOMAIN u.merge
    BY <1>1, NonBlankListed, NonBlankPositions
<1>5. Sound(typed) /\ Exists(typed, n) /\ Image(typed) = typedG
    <2>1. CASE u.type = Empty
        BY <1>1, <2>1
    <2>2. CASE u.type # Empty
        BY <1>1, <2>2, ImageSetType
    <2> QED
        BY <2>1, <2>2
<1> HIDE DEF typed, typedG
<1>6. Sound(cleared) /\ Exists(cleared, n) /\ Image(cleared) = clearG
    <2>1. CASE u.replace = <<>>
        BY <1>5, <2>1
    <2>2. CASE u.replace # <<>>
        <3> DEFINE gone == {o \in typed.observations : o.entity = n}
                   h == [typed EXCEPT !.observations = @ \ gone]
        <3>1. {o \in typed.observations : o.entity # n} = typed.observations \ gone
            OBVIOUS
        <3>2. ClearObservations(typed, n) = h
            BY <3>1, Zenon DEF ClearObservations
        <3>3. gone = {o \in typed.observations : o.entity = n /\ o \in gone}
            OBVIOUS
        <3>4. h.observations = typed.observations \ gone
            BY <1>5 DEF Sound, Tables
        <3>5. NotesOf(h, n) = {}
            BY <3>4 DEF NotesOf
        <3>6. Exists(h, n) /\ Image(h) = [Image(typed) EXCEPT !.notes = KG!Put(@, n, NotesOf(h, n))]
            <4> HIDE DEF gone
            <4> QED
                BY <1>5, <3>3, ImageFewerNotes
        <3> HIDE DEF h
        <3>7. Image(h) = [typedG EXCEPT !.notes = KG!Put(@, n, {})]
            BY <1>5, <3>5, <3>6
        <3>8. Sound(h)
            BY <1>5, <3>2, ClearObservationsFollows DEF Follows
        <3> QED
            BY <2>2, <3>2, <3>6, <3>7, <3>8
    <2> QED
        BY <2>1, <2>2
<1> HIDE DEF cleared, clearG
<1>7. Sound(replaced) /\ Exists(replaced, n) /\ Image(replaced) = KG!Noted(clearG, n, y)
    <2>1. CASE u.replace = <<>>
        <3>1. Len(y) = 0
            <4>1. NonBlank(u.replace) = {}
                BY <1>4, <2>1
            <4> QED
                BY <1>4, <4>1, FS_EmptySet DEF Lists
        <3>2. y = <<>>
            BY <1>4, <3>1
        <3>3. clearG = Image(replaced)
            BY <1>6, <2>1 DEF cleared
        <3> HIDE DEF y
        <3> QED
            BY <1>5, <2>1, <3>2, <3>3 DEF KG!Noted
    <2>2. CASE u.replace # <<>>
        <3> DEFINE h == InsertObservations(cleared, n, u.replace, NonBlank(u.replace))
        <3>1. InsertObservationsAllowed(cleared, n, NonBlank(u.replace))
            BY <1>6 DEF InsertObservationsAllowed
        <3>2. Sound(h)
            BY <1>1, <1>4, <1>6, <3>1, InsertObservationsFollows DEF Follows
        <3>3. h.entities = cleared.entities
            BY <1>6 DEF InsertObservations, Sound, Tables
        <3>4. Exists(h, n)
            BY <1>6, <3>3 DEF Exists
        <3>5. Image(h) = KG!Noted(Image(cleared), n, y)
            <4> HIDE DEF n, y, z, replaced
            <4>1. /\ Sound(cleared) /\ Exists(cleared, n) /\ u.replace \in Seq(Text)
                  /\ NonBlank(u.replace) \in SUBSET DOMAIN u.replace
                  /\ y \in Seq(Text) /\ Lists(y, u.replace, NonBlank(u.replace))
                BY <1>1, <1>4, <1>6
            <4> QED
                BY <4>1, ImageInsert
        <3> QED
            BY <1>6, <2>2, <3>2, <3>4, <3>5
    <2> QED
        BY <2>1, <2>2
<1> HIDE DEF replaced, y, z
<1>8. Image(InsertObservations(replaced, n, u.merge, NonBlank(u.merge))) = KG!Noted(Image(replaced), n, z)
    <2> HIDE DEF n
    <2>1. /\ Sound(replaced) /\ Exists(replaced, n) /\ u.merge \in Seq(Text)
          /\ NonBlank(u.merge) \in SUBSET DOMAIN u.merge
          /\ z \in Seq(Text) /\ Lists(z, u.merge, NonBlank(u.merge))
        BY <1>1, <1>4, <1>7
    <2> QED
        BY <2>1, ImageInsert
<1>9. KG!Noted(KG!Noted(Image(cleared), n, y), n, z) = KG!Noted(Image(cleared), n, y \o z)
    BY <1>4, <1>6, NotedTwice
<1> QED
    BY <1>2, <1>3, <1>6, <1>7, <1>8, <1>9

\* An update that asks for nothing changes nothing.
LEMMA UpdatedNothing ==
    ASSUME NEW g, NEW u \in EntityUpdate, Exists(g, u.name), KG!AsksNothing(u)
    PROVE  KG!Updated(Image(g), u) = Image(g)
<1>1. KG!Known(Image(g), u.name)
    BY KnownExists
<1>2. u.type = Empty /\ u.replace = <<>> /\ KG!NonBlank(u.merge) = <<>> /\ <<>> \in Seq(Text)
    BY DEF KG!AsksNothing
<1>3. KG!NonBlank(<<>>) = <<>>
    <2>1. KG!NonBlank(<<>>) \in Seq(Text) /\ Len(KG!NonBlank(<<>>)) = Cardinality(NonBlank(<<>>))
        BY <1>2, NonBlankListed DEF Lists
    <2>2. NonBlank(<<>>) = {}
        BY DEF NonBlank
    <2>3. Len(KG!NonBlank(<<>>)) = 0
        BY <2>1, <2>2, FS_EmptySet
    <2> QED
        BY <2>1, <2>3
<1>4. KG!NonBlank(u.replace) \o KG!NonBlank(u.merge) = <<>>
    BY <1>2, <1>3
<1> QED
    BY <1>1, <1>2, <1>4 DEF KG!Updated, KG!Noted

\* DELETE of entities, with the trigger's cascade: they are forgotten.
LEMMA ImageForgotten ==
    ASSUME NEW g, Sound(g), RefOk(g), NEW names
    PROVE  Image(DeleteEntityRows(g, names)) = KG!Forgotten(Image(g), names)
<1> DEFINE h == DeleteEntityRows(g, names)
           hit == {t \in DOMAIN LinksIn(g) : {t.source, t.target} \cap names # {}}
           k == KG!Forgotten(Image(g), names)
<1>1. Sound(h)
    BY DeleteEntityRowsFollows DEF Follows
<1>2. /\ h.entities = {e \in g.entities : e.name \notin names}
      /\ h.observations = {o \in g.observations : o.entity \notin {n \in names : Exists(g, n)}}
      /\ h.relations = {r \in g.relations : /\ r.source \notin {n \in names : Exists(g, n)}
                                            /\ r.target \notin {n \in names : Exists(g, n)}}
      /\ h.obsSeq = g.obsSeq
    BY DEF DeleteEntityRows, Cascade, Sound, Tables
<1>3. /\ h.observations = {o \in g.observations : o.entity \notin names}
      /\ h.relations = {r \in g.relations : r.source \notin names /\ r.target \notin names}
    BY <1>2 DEF RefOk
<1>4. /\ DOMAIN k = {"type", "notes", "lastNote", "links"} /\ k = [x \in DOMAIN k |-> k[x]]
      /\ k.type = KG!Drop(TypesIn(g), names) /\ k.notes = KG!Drop(NotesIn(g), names)
      /\ k.lastNote = g.obsSeq
      /\ k.links = KG!Drop(LinksIn(g), hit)
    BY DEF KG!Forgotten, Image
<1> HIDE DEF h, k
<1>5. Names(h) = Names(g) \ names
    BY <1>2 DEF Names
<1>6. TypesIn(h) = KG!Drop(TypesIn(g), names)
    <2>1. ASSUME NEW m \in Names(h)
          PROVE  TypeOfEntity(h, m) = TypeOfEntity(g, m)
        <3>1. PICK e \in h.entities : e.name = m
            BY DEF Names
        <3>2. e \in g.entities
            BY <1>2
        <3> QED
            BY <1>1, <3>1, <3>2, TypeOfRow
    <2> QED
        BY <1>5, <2>1 DEF TypesIn, KG!Drop
<1>7. NotesIn(h) = KG!Drop(NotesIn(g), names)
    <2>1. \A m \in Names(h) : NotesOf(h, m) = NotesOf(g, m)
        BY <1>3, <1>5 DEF NotesOf
    <2> QED
        BY <1>5, <2>1 DEF NotesIn, KG!Drop
<1>8. LinksIn(h) = KG!Drop(LinksIn(g), hit)
    <2>1. \A r : EndsOf(r).source = r.source /\ EndsOf(r).target = r.target
        BY DEF EndsOf
    <2>2. DOMAIN LinksIn(g) = {EndsOf(r) : r \in g.relations}
        BY DEF LinksIn
    <2>3. {EndsOf(r) : r \in h.relations} = DOMAIN LinksIn(g) \ hit
        BY <1>3, <2>1, <2>2
    <2>4. ASSUME NEW t \in DOMAIN LinksIn(g) \ hit
          PROVE  CopiesOf(h, t) = CopiesOf(g, t)
        <3>1. {r \in h.relations : EndsOf(r) = t} = {r \in g.relations : EndsOf(r) = t}
            BY <1>3, <2>1, <2>4
        <3> QED
            BY <3>1 DEF CopiesOf
    <2> HIDE DEF hit
    <2> QED
        BY <2>2, <2>3, <2>4 DEF LinksIn, KG!Drop
<1>9. Image(h) = k
    BY <1>2, <1>4, <1>6, <1>7, <1>8, FourParts
<1> QED
    BY <1>9 DEF h, k

\* DELETE of every copy of a tuple.
LEMMA ImageUnlinked ==
    ASSUME NEW g, Sound(g), NEW t
    PROVE  Image(DeleteTuple(g, t)) = KG!Unlinked(Image(g), t)
<1> DEFINE h == DeleteTuple(g, t)
           k == KG!Unlinked(Image(g), t)
<1>1. /\ h.entities = g.entities /\ h.observations = g.observations /\ h.obsSeq = g.obsSeq
      /\ h.relations = {r \in g.relations : EndsOf(r) # t}
    BY DEF DeleteTuple, Sound, Tables
<1>2. /\ DOMAIN k = {"type", "notes", "lastNote", "links"} /\ k = [x \in DOMAIN k |-> k[x]]
      /\ k.type = TypesIn(g) /\ k.notes = NotesIn(g) /\ k.lastNote = g.obsSeq
      /\ k.links = [x \in DOMAIN LinksIn(g) \ {t} |-> LinksIn(g)[x]]
    BY DEF KG!Unlinked, KG!BagRemoveAll, Image
<1> HIDE DEF h, k
<1>3. LinksIn(h) = [x \in DOMAIN LinksIn(g) \ {t} |-> LinksIn(g)[x]]
    <2>1. {EndsOf(r) : r \in h.relations} = {EndsOf(r) : r \in g.relations} \ {t}
        BY <1>1
    <2>2. ASSUME NEW x, x # t
          PROVE  CopiesOf(h, x) = CopiesOf(g, x)
        <3>1. {r \in h.relations : EndsOf(r) = x} = {r \in g.relations : EndsOf(r) = x}
            BY <1>1, <2>2
        <3> QED
            BY <3>1 DEF CopiesOf
    <2> QED
        BY <2>1, <2>2 DEF LinksIn
<1>4. TypesIn(h) = TypesIn(g) /\ NotesIn(h) = NotesIn(g)
    BY <1>1, ImageParts
<1>5. Image(h) = k
    BY <1>1, <1>2, <1>3, <1>4, FourParts
<1> QED
    BY <1>5 DEF h, k

\* INSERT of a relation between entities that exist.
LEMMA ImageLinked ==
    ASSUME NEW g, Sound(g), NEW t \in RelationTuple, t.type # Empty,
           Exists(g, t.source), Exists(g, t.target)
    PROVE  Image(InsertRelation(g, t)) = KG!Linked(Image(g), t)
<1> DEFINE row == [id |-> g.relSeq + 1, source |-> t.source, target |-> t.target, type |-> t.type]
           h == InsertRelation(g, t)
           k == KG!Linked(Image(g), t)
           copies(x) == {r \in g.relations : EndsOf(r) = x}
           ends == {EndsOf(r) : r \in g.relations}
<1>1. /\ h.entities = g.entities /\ h.observations = g.observations /\ h.obsSeq = g.obsSeq
      /\ h.relations = g.relations \cup {row}
    BY DEF InsertRelation, Sound, Tables
<1>2. EndsOf(row) = t
    BY DEF EndsOf, RelationTuple
<1>3. row \notin g.relations
    <2>1. row.id = g.relSeq + 1 /\ g.relSeq \in Nat
        BY DEF Sound, Tables
    <2> HIDE DEF row
    <2>2. \A r \in g.relations : r.id \in Nat /\ r.id <= g.relSeq
        BY DEF Sound, HaveKeys, Tables, RelationRow
    <2> QED
        BY <2>1, <2>2
<1>4. /\ DOMAIN k = {"type", "notes", "lastNote", "links"} /\ k = [x \in DOMAIN k |-> k[x]]
      /\ k.type = TypesIn(g) /\ k.notes = NotesIn(g) /\ k.lastNote = g.obsSeq
      /\ k.links = KG!BagAdd(LinksIn(g), t)
    <2>1. KG!Known(Image(g), t.source) /\ KG!Known(Image(g), t.target)
        BY KnownExists
    <2> QED
        BY <2>1 DEF KG!Linked, Image
<1> HIDE DEF h, k, row
<1>5. {EndsOf(r) : r \in h.relations} = ends \cup {t}
    BY <1>1, <1>2
<1>6. ASSUME NEW x, x # t
      PROVE  CopiesOf(h, x) = CopiesOf(g, x)
    <2>1. {r \in h.relations : EndsOf(r) = x} = copies(x)
        BY <1>1, <1>2, <1>6
    <2> QED
        BY <2>1 DEF CopiesOf
<1>7. CopiesOf(h, t) = Cardinality(copies(t)) + 1
    <2>1. {r \in h.relations : EndsOf(r) = t} = copies(t) \cup {row}
        BY <1>1, <1>2
    <2>2. copies(t) \in SUBSET g.relations /\ row \notin copies(t)
        BY <1>3
    <2> HIDE DEF copies
    <2>3. IsFiniteSet(copies(t))
        BY <2>2, FS_Subset DEF Sound
    <2>4. Cardinality(copies(t) \cup {row}) = Cardinality(copies(t)) + 1
        BY <2>2, <2>3, FS_AddElement
    <2> QED
        BY <2>1, <2>4 DEF CopiesOf
<1>8. LinksIn(h) = KG!BagAdd(LinksIn(g), t)
    <2>0. /\ LinksIn(g) = [x \in ends |-> CopiesOf(g, x)]
          /\ LinksIn(h) = [x \in ends \cup {t} |-> CopiesOf(h, x)]
        BY <1>5 DEF LinksIn
    <2>1. CASE t \in ends
        <3>1. CopiesOf(h, t) = CopiesOf(g, t) + 1
            BY <1>7 DEF CopiesOf
        <3> HIDE DEF ends
        <3> QED
            BY <1>6, <2>0, <2>1, <3>1 DEF KG!BagAdd
    <2>2. CASE t \notin ends
        <3>1. copies(t) = {}
            BY <2>2
        <3>2. CopiesOf(h, t) = 1
            BY <1>7, <3>1, FS_EmptySet
        <3> HIDE DEF ends
        <3> QED
            BY <1>6, <2>0, <2>2, <3>2 DEF KG!BagAdd
    <2> QED
        BY <2>1, <2>2
<1>9. TypesIn(h) = TypesIn(g) /\ NotesIn(h) = NotesIn(g)
    BY <1>1, ImageParts
<1>10. Image(h) = k
    BY <1>1, <1>4, <1>8, <1>9, FourParts
<1> QED
    BY <1>10 DEF h, k

\* UpdateRelation: the old tuple goes, the new one is linked.
LEMMA ImageRelinked ==
    ASSUME NEW g, Sound(g), NEW u \in RelationChange, UpdateRelationAllowed(g, u)
    PROVE  Image(UpdatedRelation(g, u)) = KG!Relinked(Image(g), u)
<1> DEFINE t == NewTuple(u)
           h == DeleteTuple(g, EndsOf(u))
<1>1. t \in RelationTuple
    BY TextAssumption DEF NewTuple, Changed, RelationChange, RelationTuple
<1>2. t.type # Empty /\ Exists(g, t.source) /\ Exists(g, t.target)
    BY DEF UpdateRelationAllowed, HasEmptyField
<1>3. Sound(h)
    BY DeleteTupleFollows DEF Follows
<1>4. Exists(h, t.source) /\ Exists(h, t.target)
    <2>1. h.entities = g.entities
        BY DEF DeleteTuple, Sound, Tables
    <2> QED
        BY <1>2, <2>1 DEF Exists
<1>5. Image(h) = KG!Unlinked(Image(g), EndsOf(u))
    BY ImageUnlinked
<1>6. KG!Relinked(Image(g), u) = KG!Linked(KG!Unlinked(Image(g), EndsOf(u)), t)
    BY DEF KG!Relinked, EndsOf, NewTuple, Changed, IsBlank, KG!IsBlank
<1>7. UpdatedRelation(g, u) = InsertRelation(h, t)
    BY DEF UpdatedRelation
<1> HIDE DEF h, t
<1>8. Image(InsertRelation(h, t)) = KG!Linked(Image(h), t)
    BY <1>1, <1>2, <1>3, <1>4, ImageLinked
<1> QED
    BY <1>5, <1>6, <1>7, <1>8

\* Forgetting some entities and then others.
LEMMA ForgottenTwice ==
    ASSUME NEW g, NEW A, NEW B
    PROVE  KG!Forgotten(KG!Forgotten(Image(g), A), B) = KG!Forgotten(Image(g), A \cup B)
<1> DEFINE one == KG!Forgotten(Image(g), A)
           two == KG!Forgotten(one, B)
           all == KG!Forgotten(Image(g), A \cup B)
           hit(L, S) == {t \in DOMAIN L : {t.source, t.target} \cap S # {}}
<1>1. /\ DOMAIN one = {"type", "notes", "lastNote", "links"} /\ one = [x \in DOMAIN one |-> one[x]]
      /\ one.type = KG!Drop(TypesIn(g), A) /\ one.notes = KG!Drop(NotesIn(g), A)
      /\ one.lastNote = g.obsSeq
      /\ one.links = KG!Drop(LinksIn(g), hit(LinksIn(g), A))
    BY DEF KG!Forgotten, Image
<1>2. /\ DOMAIN all = {"type", "notes", "lastNote", "links"} /\ all = [x \in DOMAIN all |-> all[x]]
      /\ all.type = KG!Drop(TypesIn(g), A \cup B) /\ all.notes = KG!Drop(NotesIn(g), A \cup B)
      /\ all.lastNote = g.obsSeq
      /\ all.links = KG!Drop(LinksIn(g), hit(LinksIn(g), A \cup B))
    BY DEF KG!Forgotten, Image
<1> HIDE DEF one
<1>3. /\ DOMAIN two = {"type", "notes", "lastNote", "links"} /\ two = [x \in DOMAIN two |-> two[x]]
      /\ two.type = KG!Drop(one.type, B) /\ two.notes = KG!Drop(one.notes, B)
      /\ two.lastNote = g.obsSeq
      /\ two.links = KG!Drop(one.links, hit(one.links, B))
    BY <1>1 DEF KG!Forgotten
<1> HIDE DEF two, all
<1>4. \A f : KG!Drop(KG!Drop(f, A), B) = KG!Drop(f, A \cup B)
    BY DEF KG!Drop
<1>5. two.links = all.links
    <2> DEFINE L == LinksIn(g)
               K == KG!Drop(L, hit(L, A))
    <2>1. DOMAIN K = DOMAIN L \ hit(L, A) /\ \A t \in DOMAIN K : K[t] = L[t]
        BY DEF KG!Drop
    <2> HIDE DEF L, K
    <2>2. DOMAIN K \ hit(K, B) = DOMAIN L \ hit(L, A \cup B)
        BY <2>1
    <2>3. KG!Drop(K, hit(K, B)) = KG!Drop(L, hit(L, A \cup B))
        BY <2>1, <2>2 DEF KG!Drop
    <2> QED
        BY <1>1, <1>2, <1>3, <2>3 DEF L, K
<1>6. two.type = all.type /\ two.notes = all.notes
    BY <1>1, <1>2, <1>3, <1>4
<1>7. two = all
    BY <1>2, <1>3, <1>5, <1>6, SameParts
<1> QED
    BY <1>7 DEF one, two, all

\* The elements of a list before position k.
Upto(s, k) == {s[i] : i \in {j \in DOMAIN s : j < k}}

\* One chunk more.
LEMMA ChunkUpto ==
    ASSUME NEW S, NEW s \in Seq(S), NEW k \in Int
    PROVE  /\ k <= 1 => Upto(s, k) = {}
           /\ k > Len(s) => Upto(s, k) = KG!Elements(s)
           /\ k > 0 => Upto(s, k + MaxParams) = Upto(s, k) \cup Chunk(s, k)
<1>1. DOMAIN s = 1..Len(s) /\ Len(s) \in Nat /\ MaxParams \in Nat /\ MaxParams > 0
    BY BoundsAssumption
<1>2. ASSUME k <= 1
      PROVE  Upto(s, k) = {}
    BY <1>1, <1>2 DEF Upto
<1>3. ASSUME k > Len(s)
      PROVE  Upto(s, k) = KG!Elements(s)
    BY <1>1, <1>3 DEF Upto, KG!Elements
<1>4. ASSUME k > 0
      PROVE  Upto(s, k + MaxParams) = Upto(s, k) \cup Chunk(s, k)
    <2>1. {j \in DOMAIN s : j < k + MaxParams}
            = {j \in DOMAIN s : j < k} \cup {i \in k..Len(s) : i < k + MaxParams}
        BY <1>1, <1>4
    <2> QED
        BY <2>1 DEF Upto, Chunk
<1> QED
    BY <1>2, <1>3, <1>4

\* The observations that the chunks before position k of a DeleteObservations delete.
Hit(g, r, k) ==
    {o \in g.observations : /\ o.entity = r.name
                            /\ o.id \in Upto(r.ids, k) \/ o.content \in Upto(r.contents, k - Len(r.ids))}

\* The rows of an entity and its notes are as many.
LEMMA NotesCount ==
    ASSUME NEW n, NEW rows \in SUBSET ObservationRow, IsFiniteSet(rows), \A o \in rows : o.entity = n
    PROVE  Cardinality({[id |-> o.id, content |-> o.content] : o \in rows}) = Cardinality(rows)
<1> DEFINE f == [o \in rows |-> [id |-> o.id, content |-> o.content]]
           notes == {[id |-> o.id, content |-> o.content] : o \in rows}
<1>1. ASSUME NEW o \in rows, NEW p \in rows, f[o] = f[p]
      PROVE  o = p
    <2>1. o.id = p.id /\ o.content = p.content
        BY <1>1
    <2> QED
        BY <2>1 DEF ObservationRow
<1>2. f \in Bijection(rows, notes)
    BY <1>1 DEF Bijection, Injection, Surjection, IsInjective
<1>4. ExistsBijection(rows, notes)
    BY <1>2 DEF ExistsBijection
<1> HIDE DEF f, notes
<1>3. Cardinality(rows) = Cardinality(notes)
    BY <1>4, FS_Bijection
<1> QED
    BY <1>3 DEF notes

\* DELETE of an entity's observations: those pruned, and as many as it counts.
LEMMA ImagePruned ==
    ASSUME NEW g, Sound(g), RefOk(g), NEW r, NEW gone,
           gone = {o \in g.observations : o.entity = r.name /\
                        ((r.ids = <<>> /\ r.contents = <<>>)
                         \/ o.id \in KG!Elements(r.ids) \/ o.content \in KG!Elements(r.contents))},
           r.op = "DeleteObservations"
    PROVE  LET h == [g EXCEPT !.observations = @ \ gone]
           IN  /\ Image(h) = KG!Pruned(Image(g), r)
               /\ KG!NotesGone(Image(g), Image(h), r) = Cardinality(gone)
<1> DEFINE h == [g EXCEPT !.observations = @ \ gone]
           n == r.name
           rows(k) == {o \in k.observations : o.entity = n}
           asked(o) == (r.ids = <<>> /\ r.contents = <<>>)
                       \/ o.id \in KG!Elements(r.ids) \/ o.content \in KG!Elements(r.contents)
<1>1. /\ h.observations = g.observations \ gone /\ h.entities = g.entities
      /\ h.relations = g.relations /\ h.obsSeq = g.obsSeq
    BY DEF Sound, Tables
<1>2. CASE ~Exists(g, n)
    <2>1. gone = {}
        BY <1>2 DEF RefOk
    <2>2. h.observations = g.observations
        BY <1>1, <2>1
    <2>3. Image(h) = Image(g)
        <3> HIDE DEF h
        <3> QED
            BY <1>1, <2>2, ImageParts DEF Image
    <2>4. ~KG!Known(Image(g), n)
        BY <1>2, KnownExists
    <2> QED
        BY <2>1, <2>3, <2>4, FS_EmptySet DEF KG!Pruned, KG!NotesGone
<1>3. CASE Exists(g, n)
    <2> DEFINE goneN == {o \in Image(g).notes[n] : asked(o)}
               k == KG!Pruned(Image(g), r)
    <2>1. KG!Known(Image(g), n) /\ n \in Names(g) /\ Image(g).notes[n] = NotesOf(g, n)
        BY <1>3, KnownExists DEF Image, NotesIn
    <2>2. /\ DOMAIN k = {"type", "notes", "lastNote", "links"} /\ k = [x \in DOMAIN k |-> k[x]]
          /\ k.type = TypesIn(g) /\ k.links = LinksIn(g) /\ k.lastNote = g.obsSeq
          /\ k.notes = KG!Put(NotesIn(g), n, NotesOf(g, n) \ goneN)
        BY <2>1 DEF KG!Pruned, Image
    <2>3. NotesOf(h, n) = NotesOf(g, n) \ goneN
        <3> HIDE DEF h
        <3>1. rows(h) = {o \in rows(g) : ~asked(o)}
            BY <1>1
        <3>2. NotesOf(g, n) = {[id |-> o.id, content |-> o.content] : o \in rows(g)}
            BY DEF NotesOf
        <3>3. NotesOf(h, n) = {[id |-> o.id, content |-> o.content] : o \in rows(h)}
            BY DEF NotesOf
        <3>4. \A o : asked([id |-> o.id, content |-> o.content]) <=> asked(o)
            OBVIOUS
        <3>5. goneN = {p \in NotesOf(g, n) : asked(p)}
            BY <2>1
        <3> HIDE DEF rows, asked, goneN
        <3> QED
            BY <3>1, <3>2, <3>3, <3>4, <3>5
    <2>4. Names(h) = Names(g) /\ TypesIn(h) = TypesIn(g) /\ LinksIn(h) = LinksIn(g)
        <3> HIDE DEF h
        <3> QED
            BY <1>1, ImageParts
    <2>5. NotesIn(h) = KG!Put(NotesIn(g), n, NotesOf(g, n) \ goneN)
        <3>1. \A m : m # n => NotesOf(h, m) = NotesOf(g, m)
            <4> HIDE DEF h
            <4> QED
                BY <1>1 DEF NotesOf
        <3> HIDE DEF h, goneN
        <3> QED
            BY <2>1, <2>3, <2>4, <3>1 DEF NotesIn, KG!Put
    <2> HIDE DEF h, k, goneN
    <2>6. Image(h) = k
        BY <1>1, <2>2, <2>4, <2>5, FourParts
    <2>7. Image(h).notes[n] = NotesOf(h, n)
        BY <2>1, <2>4 DEF Image, NotesIn
    <2>8. KG!NotesGone(Image(g), Image(h), r) = Cardinality(NotesOf(g, n)) - Cardinality(NotesOf(h, n))
        BY <2>1, <2>7 DEF KG!NotesGone, KG!Cardinality, Cardinality
    <2>9. /\ rows(g) \in SUBSET ObservationRow /\ IsFiniteSet(rows(g))
          /\ rows(h) \in SUBSET ObservationRow /\ IsFiniteSet(rows(h))
          /\ gone \in SUBSET rows(g) /\ rows(h) = rows(g) \ gone
        <3>1. rows(g) \in SUBSET g.observations /\ rows(h) \in SUBSET g.observations
            BY <1>1
        <3>2. g.observations \in SUBSET ObservationRow /\ IsFiniteSet(g.observations)
            BY DEF Sound, Tables
        <3>3. gone \in SUBSET rows(g) /\ rows(h) = rows(g) \ gone
            BY <1>1
        <3> HIDE DEF rows
        <3> QED
            BY <3>1, <3>2, <3>3, FS_Subset
    <2>10. Cardinality(NotesOf(g, n)) = Cardinality(rows(g))
        BY <2>9, NotesCount DEF NotesOf
    <2>11. Cardinality(NotesOf(h, n)) = Cardinality(rows(h))
        BY <2>9, NotesCount DEF NotesOf
    <2> HIDE DEF rows
    <2>12. Cardinality(rows(g)) - Cardinality(rows(h)) = Cardinality(gone)
        <3>1. rows(g) \cap gone = gone
            BY <2>9
        <3>2. Cardinality(rows(h)) = Cardinality(rows(g)) - Cardinality(gone)
            <4>1. Cardinality(rows(g) \ gone) = Cardinality(rows(g)) - Cardinality(rows(g) \cap gone)
                BY <2>9, FS_Difference
            <4> QED
                BY <2>9, <3>1, <4>1
        <3>3. IsFiniteSet(gone)
            BY <2>9, FS_Subset
        <3> QED
            BY <2>9, <3>2, <3>3, FS_CardinalityType
    <2> QED
        BY <2>6, <2>8, <2>10, <2>11, <2>12 DEF h, k
<1> QED
    BY <1>2, <1>3

-----------------------------------------------------------------------------
(* the stages of a batch *)

NextStage(h, r, k) == IF h = KG!Undefined THEN KG!Undefined ELSE KG!Part(h, r, k)

AreStages(w, g, r, n) == w = [k \in 0..n |-> IF k = 0 THEN g ELSE NextStage(w[k - 1], r, k)]

\* The stages of a batch exist: the recursive function is defined for every number of items.
LEMMA StagesExist ==
    ASSUME NEW g, NEW r, NEW n \in Nat
    PROVE  \E w : AreStages(w, g, r, n)
<1> DEFINE IsPrefix(w, m) == /\ w = [k \in 0..m |-> w[k]]
                             /\ w[0] = g
                             /\ \A k \in 1..m : w[k] = NextStage(w[k - 1], r, k)
           T == {m \in Nat : \E w : IsPrefix(w, m)}
<1>1. 0 \in T
    <2>1. IsPrefix([k \in 0..0 |-> g], 0)
        OBVIOUS
    <2> HIDE DEF IsPrefix
    <2> QED
        BY <2>1
<1>2. ASSUME NEW m \in Nat, m \in T
      PROVE  m + 1 \in T
    <2>1. PICK w : IsPrefix(w, m)
        BY <1>2
    <2> DEFINE z == [k \in 0..(m + 1) |-> IF k = m + 1 THEN NextStage(w[m], r, m + 1) ELSE w[k]]
    <2>2. z[0] = g
        BY <2>1
    <2>3. ASSUME NEW k \in 1..(m + 1)
          PROVE  z[k] = NextStage(z[k - 1], r, k)
        <3>1. k - 1 \in 0..m /\ k - 1 \in 0..(m + 1) /\ k - 1 # m + 1 /\ k \in 0..(m + 1)
            OBVIOUS
        <3>2. z[k - 1] = w[k - 1]
            BY <3>1
        <3>3. CASE k = m + 1
            BY <3>1, <3>2, <3>3
        <3>4. CASE k # m + 1
            <4>1. k \in 1..m /\ z[k] = w[k]
                BY <3>1, <3>4
            <4> QED
                BY <2>1, <3>2, <4>1
        <3> QED
            BY <3>3, <3>4
    <2>4. z = [k \in 0..(m + 1) |-> z[k]]
        OBVIOUS
    <2> HIDE DEF z
    <2>5. IsPrefix(z, m + 1)
        BY <2>2, <2>3, <2>4
    <2> HIDE DEF IsPrefix
    <2> QED
        BY <2>5
<1> HIDE DEF T
<1>3. T \in SUBSET Nat
    BY DEF T
<1>4. n \in T
    BY <1>1, <1>2, <1>3, SetInduction
<1>5. PICK w : IsPrefix(w, n)
    BY <1>4 DEF T
<1>6. \A k \in 0..n : w[k] = IF k = 0 THEN g ELSE NextStage(w[k - 1], r, k)
    <2>1. w[0] = g /\ \A k \in 1..n : w[k] = NextStage(w[k - 1], r, k)
        BY <1>5
    <2>2. \A k \in 0..n : k = 0 \/ k \in 1..n
        OBVIOUS
    <2> QED
        BY <2>1, <2>2
<1>7. w = [k \in 0..n |-> IF k = 0 THEN g ELSE NextStage(w[k - 1], r, k)]
    BY <1>5, <1>6, Zenon
<1> QED
    BY <1>7 DEF AreStages

\* The first stage is the graph itself, and each item makes the next.
LEMMA StageByStage ==
    ASSUME NEW g, NEW r, Len(KG!Items(r)) \in Nat
    PROVE  /\ KG!Stages(g, r)[0] = g
           /\ \A k \in 1..Len(KG!Items(r)) :
                KG!Stages(g, r)[k] = NextStage(KG!Stages(g, r)[k - 1], r, k)
<1> DEFINE n == Len(KG!Items(r))
           after == CHOOSE w : w = [k \in 0..n |-> IF k = 0 THEN g ELSE NextStage(w[k - 1], r, k)]
<1>1. after = [k \in 0..n |-> IF k = 0 THEN g ELSE NextStage(after[k - 1], r, k)]
    BY StagesExist DEF AreStages
<1>2. KG!Stages(g, r) = after
    BY DEF KG!Stages, NextStage
<1> HIDE DEF after
<1> QED
    BY <1>1, <1>2

\* Updates that ask for nothing leave every stage as it was.
LEMMA IdleStages ==
    ASSUME NEW g, NEW r, r.op = "UpdateEntities", r.updates \in Seq(EntityUpdate),
           NEW n \in 0..Len(r.updates),
           \A i \in 1..n : KG!AsksNothing(r.updates[i]) /\ Exists(g, r.updates[i].name)
    PROVE  KG!Stages(Image(g), r)[n] = Image(g)
<1> DEFINE T == {k \in Nat : k <= n => KG!Stages(Image(g), r)[k] = Image(g)}
<1>1. KG!Items(r) = r.updates /\ Len(r.updates) \in Nat
    BY DEF KG!Items
<1>2. 0 \in T
    BY <1>1, StageByStage
<1>3. ASSUME NEW k \in Nat, k \in T
      PROVE  k + 1 \in T
    <2> SUFFICES ASSUME k + 1 <= n
                 PROVE  KG!Stages(Image(g), r)[k + 1] = Image(g)
        OBVIOUS
    <2>1. k + 1 \in 1..n /\ k + 1 \in 1..Len(r.updates) /\ (k + 1) - 1 = k /\ k <= n
        BY <1>1
    <2>2. KG!Stages(Image(g), r)[k + 1] = NextStage(Image(g), r, k + 1)
        BY <1>1, <1>3, <2>1, StageByStage
    <2>3. KG!Part(Image(g), r, k + 1) = KG!Updated(Image(g), r.updates[k + 1])
        BY DEF KG!Part
    <2>4. r.updates[k + 1] \in EntityUpdate
        BY <2>1
    <2>5. KG!Updated(Image(g), r.updates[k + 1]) = Image(g)
        BY <2>1, <2>4, UpdatedNothing
    <2> QED
        BY <2>2, <2>3, <2>5, ImageDefined DEF NextStage
<1> HIDE DEF T
<1>4. T \in SUBSET Nat
    BY DEF T
<1>5. n \in T
    <2>1. n \in Nat
        BY <1>1
    <2> QED
        BY <1>2, <1>3, <1>4, <2>1, SetInduction
<1> QED
    BY <1>5 DEF T

-----------------------------------------------------------------------------
(* the simulation invariant *)

\* The transaction of a call, by operation: s is its session, g the database, and
\* holds tells whether it has the write lock.
CreatingOne(s, g, holds) ==
    /\ holds
    /\ s.next <= Len(s.req.entities)
    /\ CreateAllowed(s.req.entities[s.next])
    /\ s.view = CreatedEntity(g, s.req.entities[s.next])

Updating(s, g, holds) ==
    /\ s.next <= Len(s.req.updates) + 1
    /\ IF holds
       THEN /\ Image(s.view) = KG!Stages(Image(g), s.req)[s.next - 1]
            /\ ~KG!IsIdle(s.req)
       ELSE \A i \in 1..(s.next - 1) : /\ KG!AsksNothing(s.req.updates[i])
                                       /\ Exists(s.view, s.req.updates[i].name)

Relating(s, g, holds) ==
    /\ holds
    /\ s.next <= Len(KG!Items(s.req)) + 1
    /\ Image(s.view) = KG!Stages(Image(g), s.req)[s.next - 1]

Forgetting(s, g, holds) ==
    /\ holds
    /\ Image(s.view) = KG!Forgotten(Image(g), Upto(s.req.names, s.next))

Noting(s, g, holds) ==
    IF holds THEN Image(s.view) = KG!Effect(Image(g), s.req) ELSE KG!NonBlank(s.req.obs) = <<>>

Pruning(s, g, holds) ==
    /\ holds
    /\ ~(s.req.ids = <<>> /\ s.req.contents = <<>>)
    /\ s.view = [g EXCEPT !.observations = @ \ Hit(g, s.req, s.next)]
    /\ s.count = Cardinality(Hit(g, s.req, s.next))

RelationBatches == {"CreateRelations", "UpdateRelations", "DeleteRelations"}

InTransaction(s, g, holds) ==
    /\ s.req.op \in {"CreateEntities", "UpdateEntities", "DeleteEntities", "AddObservations",
                     "DeleteObservations"} \cup RelationBatches
    /\ s.req.op # "DeleteObservations" => s.count = 0
    /\ s.req.op = "CreateEntities" => CreatingOne(s, g, holds)
    /\ s.req.op = "UpdateEntities" => Updating(s, g, holds)
    /\ s.req.op \in RelationBatches => Relating(s, g, holds)
    /\ s.req.op = "DeleteEntities" => Forgetting(s, g, holds)
    /\ s.req.op = "AddObservations" => Noting(s, g, holds)
    /\ s.req.op = "DeleteObservations" => Pruning(s, g, holds)

\* How far a call has come is what its place in the code says.
OnTrack(s, g, holds) ==
    /\ s.pc = "idle" => s.req = NoCall
    /\ s.pc # "idle" => s.answer = "none"
    /\ s.pc \in {"start", "checked"} =>
            s.count = 0 /\ (s.req.op # "CreateEntities" => s.next = 1)
    /\ s.pc = "start" /\ s.req.op = "CreateEntities" => s.next <= Len(s.req.entities) + 1
    /\ s.pc = "tx" => InTransaction(s, g, holds)

Sim == \A c \in Clients : OnTrack(session[c], db, writer = c)

\* A step of the tables is a step of the graph, or changes nothing in it.
Simulated == Sim' /\ [KG!Next]_(KG!vars)

-----------------------------------------------------------------------------
(* how steps map *)

\* The variables of the graph are the parts of the image.
LEMMA BecomeImage ==
    ASSUME NEW g, Image(db)' = g
    PROVE  KG!Become(g)
BY DEF Image, KG!Become

\* Nothing changes in the graph when the database and the callers stay.
LEMMA Stutters ==
    ASSUME NEW c \in Clients, db' = db, \A d \in Clients \ {c} : session'[d] = session[d],
           CallerOf(c)' = CallerOf(c)
    PROVE  UNCHANGED KG!vars
<1>1. \A d \in Clients : CallerOf(d)' = CallerOf(d)
    BY DEF CallerOf
<1>2. [d \in Clients |-> CallerOf(d)]' = [d \in Clients |-> CallerOf(d)]
    BY <1>1
<1>3. Image(db)' = Image(db)
    BY DEF Image, TypesIn, NotesIn, LinksIn, Names, TypeOfEntity, NotesOf, CopiesOf
<1> QED
    BY <1>2, <1>3, BecomeImage DEF KG!vars, KG!graphVars, KG!Become, Image

\* An answered call rests, and the other sessions are as they were.
LEMMA AnswerRests ==
    ASSUME Inv, NEW c \in Clients, NEW a, NEW n, Answer(c, a, n)
    PROVE  /\ KG!Rest(c, a, n)
           /\ \A d \in Clients \ {c} : session'[d] = session[d]
           /\ session'[c] = Answered(a, IF a = "ok" THEN n ELSE 0)
<1> DEFINE m == IF a = "ok" THEN n ELSE 0
<1>1. /\ session' = [session EXCEPT ![c] = Answered(a, m)]
      /\ session \in [Clients -> Session]
    BY DEF Answer, Inv, TypeOK
<1> HIDE DEF m
<1>2. \A d \in Clients \ {c} : session'[d] = session[d]
    BY <1>1
<1>3. session'[c] = Answered(a, m)
    BY <1>1
<1>4. CallerOf(c)' = KG!Resting(a, m)
    BY <1>3 DEF CallerOf, KG!Resting, Answered
<1>5. \A d \in Clients \ {c} : CallerOf(d)' = CallerOf(d)
    BY <1>2 DEF CallerOf
<1>6. [d \in Clients |-> CallerOf(d)]'
        = [[d \in Clients |-> CallerOf(d)] EXCEPT ![c] = KG!Resting(a, m)]
    BY <1>4, <1>5
<1> QED
    BY <1>2, <1>3, <1>6 DEF KG!Rest, m

\* A step keeps Sim when it touches one session, holds no other call's lock, and
\* changes the database under no lock but its own.
LEMMA SimStep ==
    ASSUME Inv, Sim, NEW c \in Clients,
           \A d \in Clients \ {c} : session'[d] = session[d],
           writer' \in {Nobody, writer, c},
           writer' = writer \/ writer \in {Nobody, c},
           writer \notin {Nobody, c} => db' = db,
           OnTrack(session[c], db, writer = c)'
    PROVE  Sim'
<1> SUFFICES ASSUME NEW d \in Clients \ {c}
             PROVE  OnTrack(session[d], db, writer = d)'
    BY DEF Sim
<1>1. session'[d] = session[d] /\ OnTrack(session[d], db, writer = d)
    BY DEF Sim
<1>2. (writer' = d) = (writer = d)
    BY ClientsAssumption
<1>3. CASE writer = d
    <2>1. db' = db
        BY <1>3, ClientsAssumption
    <2> QED
        BY <1>1, <1>2, <2>1
<1>4. CASE writer # d
    BY <1>1, <1>2, <1>4 DEF OnTrack, InTransaction, CreatingOne, Updating, Relating,
                            Forgetting, Noting, Pruning
<1> QED
    BY <1>3, <1>4

\* A session that has been answered is on track, whatever the database.
LEMMA AnsweredOnTrack ==
    ASSUME NEW a, NEW n, NEW g, NEW b
    PROVE  OnTrack(Answered(a, n), g, b)
BY DEF OnTrack, Answered

\* The rest of what a request is made of.
LEMMA NamesOf ==
    ASSUME Inv, NEW c \in Clients, Busy(c)
    PROVE  /\ Req(c) # NoCall
           /\ Req(c).op = "DeleteEntities" => Req(c).names \in Seq(Text)
           /\ Req(c).op \in {"CreateEntities", "UpdateEntities", "DeleteEntity", "DeleteEntities",
                "AddObservations", "DeleteObservations", "CreateRelations", "DeleteRelations",
                "DeleteRelation", "UpdateRelations"}
<1>1. Req(c) \in Request /\ Req(c) \in Requests
    BY RequestsAssumption DEF Inv
<1>2. Req(c) # NoCall
    BY <1>1, RequestsAssumption
<1> QED
    BY <1>1, <1>2 DEF Request

\* The caller of a call in progress, as KnowledgeGraph sees it.
LEMMA BusyCaller ==
    ASSUME NEW c \in Clients, Busy(c)
    PROVE  LET k == [d \in Clients |-> CallerOf(d)][c]
           IN  /\ k.req = Req(c)
               /\ Req(c).op = "CreateEntities" => k.done = Pos(c) - 1
BY DEF CallerOf, Busy, Req, Pos

\* An answer keeps Sim, if the call changes the database under no other call's lock.
LEMMA SimAnswer ==
    ASSUME Inv, Sim, NEW c \in Clients, NEW a, NEW n, Answer(c, a, n),
           writer' = Unlocked(c), writer \notin {Nobody, c} => db' = db
    PROVE  Sim'
<1> DEFINE m == IF a = "ok" THEN n ELSE 0
<1>1. session'[c] = Answered(a, m) /\ \A d \in Clients \ {c} : session'[d] = session[d]
    BY AnswerRests
<1> HIDE DEF m
<1>2. OnTrack(session[c], db, writer = c)'
    BY <1>1, AnsweredOnTrack
<1> QED
    BY <1>1, <1>2, SimStep DEF Unlocked

\* A call that gives up: an answer "error", and nothing else.
LEMMA GiveUpSimulated ==
    ASSUME Inv, Sim, NEW c \in Clients, Busy(c), Answer(c, "error", 0),
           writer' = Unlocked(c), db' = db
    PROVE  Simulated
<1>1. Sim'
    BY SimAnswer
<1>2. KG!Rest(c, "error", 0)
    BY AnswerRests
<1>3. [d \in Clients |-> CallerOf(d)][c].req # NoCall
    BY BusyCaller, NamesOf
<1>4. UNCHANGED KG!graphVars
    BY DEF KG!graphVars, TypesIn, NotesIn, LinksIn, Names, TypeOfEntity, NotesOf, CopiesOf
<1>5. KG!GiveUp(c)
    BY <1>2, <1>3, <1>4 DEF KG!GiveUp
<1> QED
    BY <1>1, <1>5 DEF Simulated, KG!Next

\* A call that takes effect as it is answered.
LEMMA PerformSimulated ==
    ASSUME Inv, Sim, NEW c \in Clients, Busy(c), Req(c).op # "CreateEntities",
           NEW g, g = KG!Effect(Image(db), Req(c)), g # KG!Undefined, Image(db)' = g,
           NEW a \in CommitAnswers, Answer(c, a, KG!NotesGone(Image(db), g, Req(c))),
           writer' = Unlocked(c), writer \notin {Nobody, c} => db' = db
    PROVE  Simulated
<1>1. Sim'
    BY SimAnswer
<1>2. KG!Rest(c, a, KG!NotesGone(Image(db), g, Req(c)))
    BY AnswerRests
<1>3. [d \in Clients |-> CallerOf(d)][c].req = Req(c) /\ Req(c) # NoCall
    BY BusyCaller, NamesOf
<1>4. KG!Become(g)
    BY BecomeImage
<1>5. a \in KG!Answers
    BY DEF CommitAnswers, KG!Answers
<1>6. KG!Perform(c)
    BY <1>2, <1>3, <1>4, <1>5, GraphIsImage DEF KG!Perform
<1> QED
    BY <1>1, <1>6 DEF Simulated, KG!Next

\* What a round leaves in the session.
LEMMA WriteFields ==
    ASSUME Inv, NEW c \in Clients, NEW g, NEW k, NEW n, Write(c, g, k, n)
    PROVE  /\ \A d \in Clients \ {c} : session'[d] = session[d]
           /\ session'[c].pc = "tx" /\ session'[c].next = k /\ session'[c].view = g
           /\ session'[c].count = n /\ session'[c].req = Req(c)
           /\ session'[c].answer = session[c].answer
           /\ db' = db /\ writer' = c /\ writer \in {Nobody, c}
<1>1. session \in [Clients -> Session] /\ session[c] \in Session
    BY DEF Inv, TypeOK
<1>2. session' = [session EXCEPT ![c] = [session[c] EXCEPT !.pc = "tx", !.next = k,
                                                          !.view = g, !.count = n]]
    BY <1>1 DEF Write
<1>3. session'[c] = [session[c] EXCEPT !.pc = "tx", !.next = k, !.view = g, !.count = n]
    BY <1>1, <1>2
<1>4. \A d \in Clients \ {c} : session'[d] = session[d]
    BY <1>1, <1>2
<1> QED
    BY <1>1, <1>3, <1>4 DEF Write, MayWrite, Req, Session

\* What a round that only reads leaves in the session.
LEMMA ReadOnlyFields ==
    ASSUME Inv, NEW c \in Clients, NEW k, ReadOnly(c, k)
    PROVE  /\ \A d \in Clients \ {c} : session'[d] = session[d]
           /\ session'[c].pc = "tx" /\ session'[c].next = k /\ session'[c].view = View(c)
           /\ session'[c].count = session[c].count /\ session'[c].req = Req(c)
           /\ session'[c].answer = session[c].answer
           /\ db' = db /\ writer' = writer
<1>1. session \in [Clients -> Session] /\ session[c] \in Session
    BY DEF Inv, TypeOK
<1>2. session' = [session EXCEPT ![c] = [session[c] EXCEPT !.pc = "tx", !.next = k,
                                                          !.view = View(c)]]
    BY <1>1 DEF ReadOnly
<1>3. session'[c] = [session[c] EXCEPT !.pc = "tx", !.next = k, !.view = View(c)]
    BY <1>1, <1>2
<1>4. \A d \in Clients \ {c} : session'[d] = session[d]
    BY <1>1, <1>2
<1> QED
    BY <1>1, <1>3, <1>4 DEF ReadOnly, Req, Session

\* A round of a call has no effect on the graph until its COMMIT.
LEMMA RoundSimulated ==
    ASSUME Inv, Sim, NEW c \in Clients, Busy(c),
           \/ \E g, n : Write(c, g, session'[c].next, n)
           \/ ReadOnly(c, session'[c].next),
           Req(c).op = "CreateEntities" => session'[c].next = Pos(c),
           InTransaction(session[c], db, writer = c)'
    PROVE  Simulated
<1>1. /\ \A d \in Clients \ {c} : session'[d] = session[d]
      /\ session'[c].pc = "tx" /\ session'[c].req = Req(c)
      /\ session'[c].answer = session[c].answer
      /\ db' = db /\ writer' \in {writer, c}
      /\ writer' = writer \/ writer \in {Nobody, c}
    BY WriteFields, ReadOnlyFields
<1>2. session[c].answer = "none"
    BY DEF Sim, OnTrack, Busy
<1>3. OnTrack(session[c], db, writer = c)'
    BY <1>1, <1>2 DEF OnTrack
<1>4. Sim'
    BY <1>1, <1>3, SimStep
<1>5. CallerOf(c)' = CallerOf(c)
    BY <1>1 DEF CallerOf, Busy, Req, Pos
<1>6. UNCHANGED KG!vars
    BY <1>1, <1>5, Stutters
<1> QED
    BY <1>4, <1>6 DEF Simulated

\* So has a lookup outside a transaction.
LEMMA LookupSimulated ==
    ASSUME Inv, Sim, NEW c \in Clients, session[c].pc = "start", Req(c).op # "CreateEntities",
           session' = [session EXCEPT ![c].pc = "checked"], UNCHANGED <<db, writer>>
    PROVE  Simulated
<1>1. session \in [Clients -> Session] /\ session[c] \in Session
    BY DEF Inv, TypeOK
<1>2. session'[c] = [session[c] EXCEPT !.pc = "checked"]
    BY <1>1
<1>3. \A d \in Clients \ {c} : session'[d] = session[d]
    BY <1>1
<1>4. /\ session'[c].pc = "checked" /\ session'[c].req = session[c].req
      /\ session'[c].answer = session[c].answer /\ session'[c].count = session[c].count
      /\ session'[c].next = session[c].next
    BY <1>1, <1>2 DEF Session
<1>5. OnTrack(session[c], db, writer = c)'
    BY <1>4 DEF Sim, OnTrack, Req
<1>6. Sim'
    BY <1>3, <1>5, SimStep
<1>7. CallerOf(c)' = CallerOf(c)
    BY <1>4 DEF CallerOf, Req
<1>8. UNCHANGED KG!vars
    BY <1>3, <1>7, Stutters
<1> QED
    BY <1>6, <1>8 DEF Simulated

-----------------------------------------------------------------------------
(* the actions, one by one *)

\* With foreign keys, what a statement reads has no dangling row.
LEMMA ViewRefers ==
    ASSUME Inv, ForeignKeys, NEW c \in Clients
    PROVE  /\ Sound(View(c)) /\ RefOk(View(c))
           /\ Sound(db) /\ RefOk(db)
BY ViewSound DEF Sound, Inv

\* A transaction that has not begun reads the database, and one that holds the lock commits its view.
LEMMA ViewOf ==
    ASSUME Inv, NEW c \in Clients
    PROVE  /\ session[c].pc # "tx" => View(c) = db /\ writer # c
           /\ session[c].pc = "tx" => View(c) = session[c].view
BY DEF View, Inv, WriterIsCurrent

\* The rounds of CreateEntities: a COMMIT stores one entity, and the last answer says all are.
LEMMA CreateSimulated ==
    ASSUME Inv, Sim, ForeignKeys, NEW c \in Clients,
           CreateEntity(c) \/ CommitEntity(c) \/ EndCreateEntities(c)
    PROVE  Simulated
<1>1. Busy(c) /\ Req(c).op = "CreateEntities" /\ session[c].pc \in {"start", "tx"}
    BY AtBusy DEF CreateEntity, CommitEntity, EndCreateEntities
<1>2. Req(c).entities \in Seq(EntitySpec) /\ Pos(c) \in Nat \ {0}
    BY <1>1, RequestOf
<1>3. OnTrack(session[c], db, writer = c)
    BY DEF Sim
<1>4. CASE CreateEntity(c)
    <2> DEFINE e == Req(c).entities[Pos(c)]
    <2>1. session[c].pc = "start" /\ Pos(c) <= Len(Req(c).entities) /\ CreateAllowed(e)
          /\ Write(c, CreatedEntity(View(c), e), Pos(c), 0)
        BY <1>4 DEF CreateEntity, At
    <2>2. View(c) = db
        BY <2>1, ViewOf
    <2> DEFINE h == CreatedEntity(db, e)
    <2>3. Write(c, h, Pos(c), 0)
        BY <2>1, <2>2
    <2> HIDE DEF h
    <2>4. /\ session'[c].next = Pos(c) /\ session'[c].view = h /\ session'[c].count = 0
          /\ session'[c].req = Req(c) /\ db' = db /\ writer' = c
        BY <2>3, WriteFields
    <2>5. InTransaction(session[c], db, writer = c)'
        BY <1>1, <2>1, <2>4 DEF InTransaction, CreatingOne, RelationBatches, h
    <2> QED
        BY <1>1, <2>3, <2>4, <2>5, RoundSimulated
<1>5. CASE CommitEntity(c)
    <2> DEFINE k == Pos(c)
               e == Req(c).entities[k]
    <2>1. Commit(c) /\ session[c].pc = "tx" /\ ~HasEmpty(e.obs)
        BY <1>5 DEF CommitEntity, At
    <2>2. /\ writer = c /\ k <= Len(Req(c).entities) /\ CreateAllowed(e)
          /\ session[c].view = CreatedEntity(db, e) /\ session[c].count = 0
        BY <1>1, <1>3, <2>1 DEF OnTrack, InTransaction, CreatingOne, Req, Pos
    <2>3. db' = CreatedEntity(db, e) /\ writer' = Nobody /\ Unlocked(c) = Nobody
        BY <2>1, <2>2 DEF Commit, Unlocked
    <2>4. e \in EntitySpec
        BY <1>2, <2>2
    <2>5. Image(CreatedEntity(db, e)) = KG!Stored(Image(db), e)
        BY <2>1, <2>2, <2>4, ViewRefers, ImageCreated
    <2>6. Image(db)' = Image(CreatedEntity(db, e))
        BY <2>3 DEF Image, TypesIn, NotesIn, LinksIn, Names, TypeOfEntity, NotesOf, CopiesOf
    <2>7. Image(db)' = KG!Stored(KG!Graph, e) /\ KG!Stored(KG!Graph, e) # KG!Undefined
        BY <2>5, <2>6, GraphIsImage, ImageDefined
    <2>8. KG!Become(KG!Stored(KG!Graph, e))
        BY <2>7, BecomeImage
    <2> DEFINE caller == [d \in Clients |-> CallerOf(d)]
    <2>9. caller[c].req = Req(c) /\ caller[c].done + 1 = k /\ Req(c) # NoCall
        BY <1>1, <1>2, BusyCaller, NamesOf
    <2>10. PICK a \in CommitAnswers :
                IF a = "ok"
                THEN session' = [session EXCEPT ![c].pc = "start", ![c].next = Pos(c) + 1, ![c].view = NoRows]
                ELSE Answer(c, "error", 0)
        BY <1>5 DEF CommitEntity
    <2>11. CASE a = "ok"
        <3>1. session \in [Clients -> Session] /\ session[c] \in Session
            BY DEF Inv, TypeOK
        <3>2. session'[c] = [session[c] EXCEPT !.pc = "start", !.next = k + 1, !.view = NoRows]
            BY <2>10, <2>11, <3>1
        <3>3. \A d \in Clients \ {c} : session'[d] = session[d]
            BY <2>10, <2>11, <3>1
        <3>4. /\ session'[c].pc = "start" /\ session'[c].req = session[c].req
              /\ session'[c].answer = session[c].answer /\ session'[c].count = 0
              /\ session'[c].next = k + 1
            BY <2>2, <3>1, <3>2 DEF Session
        <3>5. OnTrack(session[c], db, writer = c)'
            BY <1>1, <1>2, <1>3, <2>2, <3>4 DEF OnTrack, Busy, Req
        <3>6. Sim'
            BY <2>2, <2>3, <3>3, <3>5, SimStep
        <3>7. CallerOf(c)' = [CallerOf(c) EXCEPT !.done = k]
            BY <1>1, <1>2, <3>4 DEF CallerOf, Busy, Req
        <3>8. \A d \in Clients \ {c} : CallerOf(d)' = CallerOf(d)
            BY <3>3 DEF CallerOf
        <3>9. caller' = [caller EXCEPT ![c].done = k]
            BY <3>7, <3>8
        <3>10. KG!StoreNext(c)
            BY <1>1, <2>2, <2>7, <2>8, <2>9, <3>9 DEF KG!StoreNext
        <3> QED
            BY <3>6, <3>10 DEF Simulated, KG!Next
    <2>12. CASE a # "ok"
        <3>1. LostAcks /\ Answer(c, "error", 0)
            BY <2>10, <2>12 DEF CommitAnswers
        <3>2. Sim'
            BY <2>2, <2>3, <3>1, SimAnswer
        <3>3. KG!Rest(c, "error", 0)
            BY <3>1, AnswerRests
        <3>4. KG!StoreNext(c)
            BY <1>1, <2>2, <2>7, <2>8, <2>9, <3>1, <3>3 DEF KG!StoreNext
        <3> QED
            BY <3>2, <3>4 DEF Simulated, KG!Next
    <2> QED
        BY <2>11, <2>12
<1>6. CASE EndCreateEntities(c)
    <2>1. /\ session[c].pc = "start" /\ Pos(c) > Len(Req(c).entities)
          /\ Answer(c, "ok", 0) /\ db' = db /\ writer' = writer
        BY <1>6 DEF EndCreateEntities, At
    <2>2. writer # c
        BY <2>1, ViewOf
    <2>3. Pos(c) - 1 = Len(Req(c).entities)
        BY <1>1, <1>2, <1>3, <2>1 DEF OnTrack, Req, Pos
    <2>4. Sim'
        BY <2>1, <2>2, SimAnswer DEF Unlocked
    <2>5. KG!Rest(c, "ok", 0)
        BY <2>1, AnswerRests
    <2>6. UNCHANGED KG!graphVars
        BY <2>1 DEF KG!graphVars, TypesIn, NotesIn, LinksIn, Names, TypeOfEntity, NotesOf, CopiesOf
    <2> DEFINE caller == [d \in Clients |-> CallerOf(d)]
    <2>7. caller[c].req = Req(c) /\ caller[c].done = Pos(c) - 1 /\ Req(c) # NoCall
        BY <1>1, BusyCaller, NamesOf
    <2>8. KG!AllStored(c)
        BY <1>1, <2>3, <2>5, <2>6, <2>7 DEF KG!AllStored
    <2> QED
        BY <2>4, <2>8 DEF Simulated, KG!Next
<1> QED
    BY <1>4, <1>5, <1>6

\* The next item takes the graph from one stage to the next.
LEMMA StageAfter ==
    ASSUME NEW g, NEW h, NEW r, Len(KG!Items(r)) \in Nat, NEW k \in 1..Len(KG!Items(r)),
           Image(h) = KG!Stages(Image(g), r)[k - 1]
    PROVE  KG!Stages(Image(g), r)[k] = KG!Part(Image(h), r, k)
BY StageByStage, ImageDefined DEF NextStage

\* Updates that found nothing to write have not changed the graph, so that a writer,
\* old or new, goes on from the stage that the items before made.
LEMMA UpdatedSoFar ==
    ASSUME Inv, Sim, NEW c \in Clients, Req(c).op = "UpdateEntities",
           session[c].pc \in {"start", "tx"}, Pos(c) <= Len(Req(c).updates), MayWrite(c)
    PROVE  Image(View(c)) = KG!Stages(Image(db), Req(c))[Pos(c) - 1]
<1>1. Busy(c) /\ OnTrack(session[c], db, writer = c)
    BY DEF Sim, Busy
<1>2. Req(c).updates \in Seq(EntityUpdate) /\ Pos(c) \in Nat \ {0}
    BY <1>1, RequestOf
<1>3. KG!Items(Req(c)) = Req(c).updates /\ Len(Req(c).updates) \in Nat
    BY <1>2 DEF KG!Items
<1>4. CASE session[c].pc = "start"
    <2>1. Pos(c) - 1 = 0 /\ View(c) = db
        BY <1>1, <1>4, ViewOf DEF OnTrack, Req, Pos
    <2> QED
        BY <1>3, <2>1, StageByStage
<1>5. CASE session[c].pc = "tx"
    <2>1. Updating(session[c], db, writer = c) /\ View(c) = session[c].view
        BY <1>1, <1>5, ViewOf DEF OnTrack, InTransaction, Req
    <2>2. CASE writer = c
        BY <2>1, <2>2 DEF Updating, Req, Pos
    <2>3. CASE writer # c
        <3>1. View(c) = db
            BY <2>3 DEF MayWrite
        <3>2. \A i \in 1..(Pos(c) - 1) :
                KG!AsksNothing(Req(c).updates[i]) /\ Exists(db, Req(c).updates[i].name)
            BY <2>1, <2>3, <3>1 DEF Updating, Req, Pos
        <3>3. Pos(c) - 1 \in 0..Len(Req(c).updates)
            BY <1>2, <1>3
        <3> QED
            BY <1>2, <3>1, <3>2, <3>3, IdleStages
    <2> QED
        BY <2>2, <2>3
<1> QED
    BY <1>4, <1>5

\* A round of UpdateEntities is one stage of the batch, or reads only and promises nothing.
LEMMA UpdateSimulated ==
    ASSUME Inv, Sim, ForeignKeys, NEW c \in Clients, UpdateEntity(c)
    PROVE  Simulated
<1> DEFINE r == Req(c)
           k == Pos(c)
           u == r.updates[k]
           g == View(c)
<1>1. /\ Busy(c) /\ r.op = "UpdateEntities" /\ session[c].pc \in {"start", "tx"}
      /\ k <= Len(r.updates) /\ UpdateAllowed(g, u)
    BY AtBusy DEF UpdateEntity
<1>2. r.updates \in Seq(EntityUpdate) /\ k \in Nat \ {0} /\ OnTrack(session[c], db, writer = c)
    BY <1>1, RequestOf DEF Sim
<1>3. /\ KG!Items(r) = r.updates /\ Len(r.updates) \in Nat
      /\ u \in EntityUpdate /\ k \in 1..Len(r.updates) /\ (k + 1) - 1 = k
    BY <1>1, <1>2 DEF KG!Items
<1>4. Sound(g) /\ Exists(g, u.name)
    BY <1>1, ViewRefers DEF UpdateAllowed
<1>5. KG!Part(Image(g), r, k) = KG!Updated(Image(g), u)
    BY <1>1 DEF KG!Part
<1>6. MayWrite(c) => KG!Stages(Image(db), r)[k] = KG!Updated(Image(g), u)
    BY <1>1, <1>3, <1>5, UpdatedSoFar, StageAfter
<1>7. CASE UpdateWrites(u)
    <2> DEFINE h == UpdatedEntity(g, u)
    <2>1. Write(c, h, k + 1, 0) /\ MayWrite(c)
        BY <1>7 DEF UpdateEntity, Write
    <2>2. Image(h) = KG!Stages(Image(db), r)[k]
        BY <1>1, <1>3, <1>4, <1>6, <2>1, ImageUpdated
    <2> HIDE DEF h
    <2>3. /\ session'[c].next = k + 1 /\ session'[c].view = h /\ session'[c].count = 0
          /\ session'[c].req = r /\ db' = db /\ writer' = c
        BY <2>1, WriteFields
    <2>4. ~KG!IsIdle(r)
        <3>1. ~KG!AsksNothing(u)
            BY <1>3, <1>7, UpdateAsks
        <3> QED
            BY <1>3, <3>1 DEF KG!IsIdle, KG!Elements
    <2>5. Image(db)' = Image(db)
        BY <2>3 DEF Image, TypesIn, NotesIn, LinksIn, Names, TypeOfEntity, NotesOf, CopiesOf
    <2>6. Updating(session[c], db, writer = c)'
        BY <1>3, <2>2, <2>3, <2>4 DEF Updating
    <2>7. InTransaction(session[c], db, writer = c)'
        BY <1>1, <2>3, <2>6 DEF InTransaction, RelationBatches
    <2> QED
        BY <1>1, <2>1, <2>3, <2>7, RoundSimulated
<1>8. CASE ~UpdateWrites(u)
    <2>1. ReadOnly(c, k + 1)
        BY <1>8 DEF UpdateEntity
    <2>2. /\ session'[c].next = k + 1 /\ session'[c].view = g /\ session'[c].count = session[c].count
          /\ session'[c].req = r /\ db' = db /\ writer' = writer
        BY <2>1, ReadOnlyFields
    <2>3. KG!AsksNothing(u)
        BY <1>3, <1>8, UpdateAsks
    <2>4. KG!Updated(Image(g), u) = Image(g)
        BY <1>3, <1>4, <2>3, UpdatedNothing
    <2>5. session[c].count = 0
        BY <1>1, <1>2 DEF OnTrack, InTransaction, Req
    <2>6. CASE writer = c
        <3>1. session[c].pc = "tx" /\ MayWrite(c)
            BY <1>1, <2>6, ViewOf DEF MayWrite
        <3>2. ~KG!IsIdle(r)
            BY <1>1, <1>2, <2>6, <3>1 DEF OnTrack, InTransaction, Updating, Req
        <3>3. Updating(session[c], db, writer = c)'
            BY <1>3, <1>6, <2>2, <2>4, <2>6, <3>1, <3>2 DEF Updating
        <3>4. InTransaction(session[c], db, writer = c)'
            BY <1>1, <2>2, <2>5, <3>3 DEF InTransaction, RelationBatches
        <3> QED
            BY <1>1, <2>1, <2>2, <3>4, RoundSimulated
    <2>7. CASE writer # c
        <3>1. \A i \in 1..(k - 1) : KG!AsksNothing(r.updates[i]) /\ Exists(g, r.updates[i].name)
            <4>1. CASE session[c].pc = "start"
                BY <1>1, <1>2, <4>1 DEF OnTrack, Req, Pos
            <4>2. CASE session[c].pc = "tx"
                BY <1>1, <1>2, <2>7, <4>2, ViewOf DEF OnTrack, InTransaction, Updating, Req, Pos
            <4> QED
                BY <1>1, <4>1, <4>2
        <3>2. \A i \in 1..k : KG!AsksNothing(r.updates[i]) /\ Exists(g, r.updates[i].name)
            <4>1. \A i \in 1..k : i = k \/ i \in 1..(k - 1)
                BY <1>2
            <4> QED
                BY <1>4, <2>3, <3>1, <4>1
        <3>3. Updating(session[c], db, writer = c)'
            BY <1>3, <2>2, <2>7, <3>2 DEF Updating
        <3>4. InTransaction(session[c], db, writer = c)'
            BY <1>1, <2>2, <2>5, <3>3 DEF InTransaction, RelationBatches
        <3> QED
            BY <1>1, <2>1, <2>2, <3>4, RoundSimulated
    <2> QED
        BY <2>6, <2>7
<1> QED
    BY <1>7, <1>8

\* A round of one of the batches of relations is one stage of the batch.
LEMMA RelateSimulated ==
    ASSUME Inv, Sim, ForeignKeys, NEW c \in Clients,
           CreateRelation(c) \/ UpdateRelation(c) \/ DeleteRelations(c)
    PROVE  Simulated
<1> DEFINE r == Req(c)
           k == Pos(c)
           g == View(c)
<1>1. Busy(c) /\ r.op \in RelationBatches /\ session[c].pc \in {"start", "tx"}
    BY AtBusy DEF CreateRelation, UpdateRelation, DeleteRelations, RelationBatches
<1>2. k \in Nat \ {0} /\ OnTrack(session[c], db, writer = c) /\ Sound(g)
    BY <1>1, RequestOf, ViewRefers DEF Sim
<1>3. PICK h : Write(c, h, k + 1, 0) /\ Image(h) = KG!Part(Image(g), r, k)
               /\ k \in 1..Len(KG!Items(r)) /\ Len(KG!Items(r)) \in Nat
    <2>1. CASE CreateRelation(c)
        <3> DEFINE t == r.relations[k]
                   h == InsertRelation(g, t)
        <3>1. /\ r.op = "CreateRelations" /\ r.relations \in Seq(RelationTuple)
              /\ k <= Len(r.relations) /\ CreateRelationAllowed(g, t) /\ Write(c, h, k + 1, 0)
            BY <1>1, <2>1, RequestOf, AtBusy DEF CreateRelation
        <3>2. t \in RelationTuple /\ k \in 1..Len(KG!Items(r)) /\ Len(KG!Items(r)) \in Nat
            BY <1>2, <3>1 DEF KG!Items
        <3>3. t.type # Empty /\ Exists(g, t.source) /\ Exists(g, t.target)
            BY <3>1 DEF CreateRelationAllowed, HasEmptyField, InsertRelationAllowed
        <3>4. Image(h) = KG!Linked(Image(g), t)
            BY <1>2, <3>2, <3>3, ImageLinked
        <3>5. KG!Part(Image(g), r, k) = KG!Linked(Image(g), t)
            BY <3>1 DEF KG!Part
        <3> QED
            BY <3>1, <3>2, <3>4, <3>5
    <2>2. CASE UpdateRelation(c)
        <3> DEFINE u == r.changes[k]
                   h == UpdatedRelation(g, u)
        <3>1. /\ r.op = "UpdateRelations" /\ r.changes \in Seq(RelationChange)
              /\ k <= Len(r.changes) /\ UpdateRelationAllowed(g, u) /\ Write(c, h, k + 1, 0)
            BY <1>1, <2>2, RequestOf, AtBusy DEF UpdateRelation
        <3>2. u \in RelationChange /\ k \in 1..Len(KG!Items(r)) /\ Len(KG!Items(r)) \in Nat
            BY <1>2, <3>1 DEF KG!Items
        <3>3. Image(h) = KG!Relinked(Image(g), u)
            BY <1>2, <3>1, <3>2, ImageRelinked
        <3>4. KG!Part(Image(g), r, k) = KG!Relinked(Image(g), u)
            BY <3>1 DEF KG!Part
        <3> QED
            BY <3>1, <3>2, <3>3, <3>4
    <2>3. CASE DeleteRelations(c)
        <3> DEFINE t == r.relations[k]
                   h == DeleteTuple(g, t)
        <3>1. /\ r.op = "DeleteRelations" /\ r.relations \in Seq(RelationTuple)
              /\ k <= Len(r.relations) /\ Write(c, h, k + 1, 0)
            BY <1>1, <2>3, RequestOf, AtBusy DEF DeleteRelations
        <3>2. k \in 1..Len(KG!Items(r)) /\ Len(KG!Items(r)) \in Nat
            BY <1>2, <3>1 DEF KG!Items
        <3>3. Image(h) = KG!Unlinked(Image(g), t)
            BY <1>2, ImageUnlinked
        <3>4. KG!Part(Image(g), r, k) = KG!Unlinked(Image(g), t)
            BY <3>1 DEF KG!Part
        <3> QED
            BY <3>1, <3>2, <3>3, <3>4
    <2> QED
        BY <2>1, <2>2, <2>3
<1>4. Image(g) = KG!Stages(Image(db), r)[k - 1]
    <2>1. CASE session[c].pc = "start"
        <3>1. k - 1 = 0 /\ g = db
            BY <1>1, <1>2, <2>1, ViewOf DEF OnTrack, Req, Pos, RelationBatches
        <3> QED
            BY <1>3, <3>1, StageByStage
    <2>2. CASE session[c].pc = "tx"
        BY <1>1, <1>2, <2>2, ViewOf DEF OnTrack, InTransaction, Relating, Req, Pos
    <2> QED
        BY <1>1, <2>1, <2>2
<1>5. Image(h) = KG!Stages(Image(db), r)[k]
    BY <1>3, <1>4, StageAfter
<1>6. /\ session'[c].next = k + 1 /\ session'[c].view = h /\ session'[c].count = 0
      /\ session'[c].req = r /\ db' = db /\ writer' = c
    BY <1>3, WriteFields
<1>7. Relating(session[c], db, writer = c)'
    BY <1>2, <1>3, <1>5, <1>6 DEF Relating
<1>8. InTransaction(session[c], db, writer = c)'
    BY <1>1, <1>6, <1>7 DEF InTransaction, RelationBatches
<1> QED
    BY <1>1, <1>3, <1>6, <1>8, RoundSimulated DEF RelationBatches

\* A chunk of DeleteEntities forgets the names in it.
LEMMA ForgetSimulated ==
    ASSUME Inv, Sim, ForeignKeys, NEW c \in Clients, DeleteEntities(c)
    PROVE  Simulated
<1> DEFINE r == Req(c)
           k == Pos(c)
           g == View(c)
           names == Chunk(r.names, k)
           h == DeleteEntityRows(g, names)
<1>1. /\ Busy(c) /\ r.op = "DeleteEntities" /\ session[c].pc \in {"start", "tx"}
      /\ Write(c, h, k + MaxParams, 0)
    BY AtBusy DEF DeleteEntities
<1>2. /\ k \in Nat \ {0} /\ r.names \in Seq(Text) /\ OnTrack(session[c], db, writer = c)
      /\ Sound(g) /\ RefOk(g)
    BY <1>1, RequestOf, NamesOf, ViewRefers DEF Sim
<1>3. Image(h) = KG!Forgotten(Image(g), names)
    BY <1>2, ImageForgotten
<1>4. Upto(r.names, k + MaxParams) = Upto(r.names, k) \cup names
    BY <1>2, ChunkUpto
<1>5. Image(h) = KG!Forgotten(Image(db), Upto(r.names, k + MaxParams))
    <2>1. CASE session[c].pc = "start"
        <3>1. k <= 1 /\ g = db
            BY <1>1, <1>2, <2>1, ViewOf DEF OnTrack, Req, Pos
        <3>2. Upto(r.names, k) = {}
            BY <1>2, <3>1, ChunkUpto
        <3> QED
            BY <1>3, <1>4, <3>1, <3>2
    <2>2. CASE session[c].pc = "tx"
        <3>1. Image(g) = KG!Forgotten(Image(db), Upto(r.names, k))
            BY <1>1, <1>2, <2>2, ViewOf DEF OnTrack, InTransaction, Forgetting, Req, Pos
        <3> QED
            BY <1>3, <1>4, <3>1, ForgottenTwice
    <2> QED
        BY <1>1, <2>1, <2>2
<1> HIDE DEF h
<1>6. /\ session'[c].next = k + MaxParams /\ session'[c].view = h /\ session'[c].count = 0
      /\ session'[c].req = r /\ db' = db /\ writer' = c
    BY <1>1, WriteFields
<1>7. Forgetting(session[c], db, writer = c)'
    BY <1>5, <1>6 DEF Forgetting
<1>8. InTransaction(session[c], db, writer = c)'
    BY <1>1, <1>6, <1>7 DEF InTransaction, RelationBatches
<1> QED
    BY <1>1, <1>6, <1>8, RoundSimulated

\* The lookups of AddObservations and DeleteEntity.
LEMMA LookupsSimulated ==
    ASSUME Inv, Sim, NEW c \in Clients, LookupForAdd(c) \/ LookupForDelete(c)
    PROVE  Simulated
BY LookupSimulated DEF LookupForAdd, LookupForDelete, At

\* What noting adds to the graph: nothing when every text is blank.
LEMMA NoteEffect ==
    ASSUME NEW g, NEW r, r.op = "AddObservations", NEW z, z = KG!NonBlank(r.obs),
           z = <<>> \/ KG!Known(g, r.name)
    PROVE  KG!Effect(g, r) = KG!Noted(g, r.name, z)
BY DEF KG!Effect, KG!BatchOps

\* The INSERTs of AddObservations: what the lookup saw is not relied on.
LEMMA NoteSimulated ==
    ASSUME Inv, Sim, ForeignKeys, NEW c \in Clients, AddObservations(c)
    PROVE  Simulated
<1> DEFINE r == Req(c)
           k == Pos(c)
           z == KG!NonBlank(r.obs)
           new == NonBlank(r.obs)
<1>1. /\ Busy(c) /\ r.op = "AddObservations" /\ session[c].pc = "checked"
      /\ InsertObservationsAllowed(db, r.name, new)
    BY AtBusy DEF AddObservations
<1>2. /\ k \in Nat \ {0} /\ r.obs \in Seq(Text) /\ OnTrack(session[c], db, writer = c)
      /\ Sound(db)
    BY <1>1, RequestOf, ViewRefers DEF Sim
<1>3. z \in Seq(Text) /\ Lists(z, r.obs, new) /\ new \in SUBSET DOMAIN r.obs
    BY <1>2, NonBlankListed, NonBlankPositions
<1>4. new = {} => z = <<>>
    BY <1>3, FS_EmptySet DEF Lists
<1> HIDE DEF z, new
<1>5. CASE new = {}
    <2>1. ReadOnly(c, k + 1)
        BY <1>5 DEF AddObservations, new
    <2>2. /\ session'[c].next = k + 1 /\ session'[c].count = session[c].count
          /\ session'[c].req = r /\ db' = db /\ writer' = writer
        BY <2>1, ReadOnlyFields
    <2>3. session[c].count = 0 /\ writer # c
        BY <1>1, <1>2, ViewOf DEF OnTrack
    <2>4. Noting(session[c], db, writer = c)'
        BY <1>4, <1>5, <2>2, <2>3 DEF Noting, z
    <2>5. InTransaction(session[c], db, writer = c)'
        BY <1>1, <2>2, <2>3, <2>4 DEF InTransaction, RelationBatches
    <2> QED
        BY <1>1, <2>1, <2>2, <2>5, RoundSimulated
<1>6. CASE new # {}
    <2> DEFINE h == InsertObservations(db, r.name, r.obs, new)
    <2>1. Write(c, h, k + 1, 0)
        BY <1>6 DEF AddObservations, new
    <2>2. Exists(db, r.name)
        BY <1>1, <1>6 DEF InsertObservationsAllowed, new
    <2>3. Image(h) = KG!Noted(Image(db), r.name, z)
        BY <1>2, <1>3, <2>2, ImageInsert
    <2>4. KG!Known(Image(db), r.name)
        BY <2>2, KnownExists
    <2>5. Image(h) = KG!Effect(Image(db), r)
        BY <1>1, <2>3, <2>4, NoteEffect DEF z
    <2> HIDE DEF h
    <2>6. /\ session'[c].next = k + 1 /\ session'[c].view = h /\ session'[c].count = 0
          /\ session'[c].req = r /\ db' = db /\ writer' = c
        BY <2>1, WriteFields
    <2>7. Noting(session[c], db, writer = c)'
        BY <2>5, <2>6 DEF Noting
    <2>8. InTransaction(session[c], db, writer = c)'
        BY <1>1, <2>6, <2>7 DEF InTransaction, RelationBatches
    <2> QED
        BY <1>1, <2>1, <2>6, <2>8, RoundSimulated
<1> QED
    BY <1>5, <1>6

\* Where a DeleteObservations that takes chunks stands, in or out of its transaction.
LEMMA PrunedSoFar ==
    ASSUME Inv, Sim, NEW c \in Clients, Req(c).op = "DeleteObservations",
           session[c].pc \in {"start", "tx"}
    PROVE  /\ View(c) = [db EXCEPT !.observations = @ \ Hit(db, Req(c), Pos(c))]
           /\ session[c].count = Cardinality(Hit(db, Req(c), Pos(c)))
<1>1. Busy(c) /\ OnTrack(session[c], db, writer = c) /\ db \in Tables
    BY DEF Sim, Busy, Inv, TypeOK
<1>2. Req(c).ids \in Seq(Nat) /\ Req(c).contents \in Seq(Text)
    BY <1>1, RequestOf
<1>3. CASE session[c].pc = "start"
    <2>1. Pos(c) = 1 /\ session[c].count = 0 /\ View(c) = db
        BY <1>1, <1>3, ViewOf DEF OnTrack, Req, Pos
    <2>2. Len(Req(c).ids) \in Nat
        BY <1>2
    <2>3. Upto(Req(c).ids, 1) = {} /\ Upto(Req(c).contents, 1 - Len(Req(c).ids)) = {}
        BY <1>2, <2>2, ChunkUpto
    <2>4. Hit(db, Req(c), Pos(c)) = {}
        BY <2>1, <2>3 DEF Hit
    <2>5. db = [db EXCEPT !.observations = @ \ {}]
        BY <1>1 DEF Tables
    <2> QED
        BY <2>1, <2>4, <2>5, FS_EmptySet
<1>4. CASE session[c].pc = "tx"
    BY <1>1, <1>4, ViewOf DEF OnTrack, InTransaction, Pruning, Req, Pos
<1> QED
    BY <1>3, <1>4

\* A chunk that deletes the observations in more, and leaves left.
LEMMA ChunkSimulated ==
    ASSUME Inv, Sim, NEW c \in Clients, Req(c).op = "DeleteObservations",
           session[c].pc \in {"start", "tx"},
           ~(Req(c).ids = <<>> /\ Req(c).contents = <<>>),
           NEW k \in Nat \ {0}, NEW more \in SUBSET db.observations, NEW left,
           Hit(db, Req(c), k) = Hit(db, Req(c), Pos(c)) \cup more,
           left = [View(c) EXCEPT !.observations = @ \ more],
           DeletedChunk(c, left, k)
    PROVE  Simulated
<1> DEFINE r == Req(c)
           before == Hit(db, r, Pos(c))
           after == Hit(db, r, k)
           g == View(c)
<1>1. Busy(c) /\ db \in Tables /\ IsFiniteSet(db.observations)
    BY DEF Busy, Inv, TypeOK, Sound
<1>2. /\ g = [db EXCEPT !.observations = @ \ before]
      /\ session[c].count = Cardinality(before)
    BY PrunedSoFar
<1>3. before \in SUBSET db.observations /\ after \in SUBSET db.observations /\ after = before \cup more
    BY DEF Hit
<1> HIDE DEF before, after
<1>4. g.observations = db.observations \ before
    BY <1>1, <1>2 DEF Tables
<1>5. left = [db EXCEPT !.observations = @ \ after]
    <2>1. left.observations = db.observations \ after
        BY <1>1, <1>2, <1>3, <1>4 DEF Tables
    <2>2. db.observations \ after = (db.observations \ before) \ more
        BY <1>3
    <2> QED
        BY <1>1, <1>2, <2>2 DEF Tables
<1>6. left.observations = db.observations \ after
    BY <1>1, <1>5 DEF Tables
<1>7. RowsGone(g, left) = Cardinality(after \ before)
    <2>1. g.observations \ left.observations = after \ before
        BY <1>3, <1>4, <1>6
    <2> QED
        BY <2>1 DEF RowsGone
<1>8. IsFiniteSet(before) /\ IsFiniteSet(after \ before)
    <2>1. after \ before \in SUBSET db.observations
        BY <1>3
    <2> QED
        BY <1>1, <1>3, <2>1, FS_Subset
<1>9. Cardinality(before) + Cardinality(after \ before) = Cardinality(after)
    <2> DEFINE rest == after \ before
    <2>1. before \cap rest = {} /\ before \cup rest = after
        BY <1>3
    <2>2. IsFiniteSet(rest)
        BY <1>8
    <2> HIDE DEF rest
    <2>3. Cardinality(before \cup rest)
            = Cardinality(before) + Cardinality(rest) - Cardinality(before \cap rest)
        BY <1>8, <2>2, FS_Union
    <2>4. Cardinality(before) \in Nat /\ Cardinality(rest) \in Nat /\ Cardinality({}) = 0
        BY <1>8, <2>2, FS_CardinalityType, FS_EmptySet
    <2>5. Cardinality(before \cup rest) = Cardinality(after) /\ Cardinality(before \cap rest) = 0
        BY <2>1, <2>4
    <2>6. Cardinality(after) = Cardinality(before) + Cardinality(rest)
        BY <2>3, <2>4, <2>5
    <2> QED
        BY <2>6 DEF rest
<1>10. Write(c, left, k, Cardinality(after))
    BY <1>2, <1>7, <1>9 DEF DeletedChunk
<1>11. /\ session'[c].next = k /\ session'[c].view = left /\ session'[c].count = Cardinality(after)
       /\ session'[c].req = r /\ db' = db /\ writer' = c
    BY <1>10, WriteFields
<1>12. Pruning(session[c], db, writer = c)'
    BY <1>5, <1>11 DEF Pruning, after
<1>13. InTransaction(session[c], db, writer = c)'
    BY <1>11, <1>12 DEF InTransaction, RelationBatches
<1> QED
    BY <1>1, <1>10, <1>11, <1>13, RoundSimulated

\* A chunk of DeleteObservations, by id or by content.
LEMMA PruneSimulated ==
    ASSUME Inv, Sim, NEW c \in Clients, DeleteIdChunk(c) \/ DeleteContentChunk(c)
    PROVE  Simulated
<1> DEFINE r == Req(c)
           p == Pos(c)
           g == View(c)
<1>1. Busy(c) /\ r.op = "DeleteObservations" /\ session[c].pc \in {"start", "tx"}
    BY AtBusy DEF DeleteIdChunk, DeleteContentChunk
<1>2. /\ p \in Nat \ {0} /\ r.ids \in Seq(Nat) /\ r.contents \in Seq(Text)
      /\ Len(r.ids) \in Nat /\ Len(r.contents) \in Nat /\ MaxParams \in Nat /\ MaxParams > 0
    BY <1>1, RequestOf, BoundsAssumption
<1>3. g = [db EXCEPT !.observations = @ \ Hit(db, r, p)] /\ db \in Tables
    BY <1>1, PrunedSoFar DEF Inv, TypeOK
<1>4. g.observations = db.observations \ Hit(db, r, p)
    BY <1>3 DEF Tables
<1>5. CASE DeleteIdChunk(c)
    <2> DEFINE k == IF p + MaxParams > Len(r.ids) THEN Len(r.ids) + 1 ELSE p + MaxParams
               ids == Chunk(r.ids, p)
               left == DeleteObservationsById(g, r.name, ids)
               more == {o \in db.observations : o.entity = r.name /\ o.id \in ids}
    <2>1. p <= Len(r.ids) /\ DeletedChunk(c, left, k)
        BY <1>5 DEF DeleteIdChunk
    <2>2. k \in Nat \ {0} /\ k - Len(r.ids) <= 1 /\ p - Len(r.ids) <= 1
        BY <1>2, <2>1
    <2>3. Upto(r.contents, k - Len(r.ids)) = {} /\ Upto(r.contents, p - Len(r.ids)) = {}
        BY <1>2, <2>2, ChunkUpto
    <2>4. Upto(r.ids, k) = Upto(r.ids, p) \cup ids
        <3>1. Upto(r.ids, p + MaxParams) = Upto(r.ids, p) \cup ids
            BY <1>2, ChunkUpto
        <3>2. CASE p + MaxParams > Len(r.ids)
            <4>1. k = Len(r.ids) + 1
                BY <3>2
            <4>2. Upto(r.ids, k) = KG!Elements(r.ids)
                BY <1>2, <4>1, ChunkUpto
            <4>3. Upto(r.ids, p + MaxParams) = KG!Elements(r.ids)
                BY <1>2, <3>2, ChunkUpto
            <4> QED
                BY <3>1, <4>2, <4>3
        <3>3. CASE ~(p + MaxParams > Len(r.ids))
            BY <3>1, <3>3
        <3> QED
            BY <3>2, <3>3
    <2> HIDE DEF k, ids
    <2>5. Hit(db, r, k) = Hit(db, r, p) \cup more
        BY <2>3, <2>4 DEF Hit
    <2>6. left = [g EXCEPT !.observations = @ \ more]
        <3>1. {o \in g.observations : ~(o.entity = r.name /\ o.id \in ids)} = g.observations \ more
            BY <1>4
        <3> QED
            BY <3>1 DEF DeleteObservationsById
    <2>7. ~(r.ids = <<>> /\ r.contents = <<>>)
        BY <1>2, <2>1
    <2> HIDE DEF left, more
    <2>8. more \in SUBSET db.observations
        BY DEF more
    <2> QED
        BY <1>1, <2>1, <2>2, <2>5, <2>6, <2>7, <2>8, ChunkSimulated
<1>6. CASE DeleteContentChunk(c)
    <2> DEFINE q == p - Len(r.ids)
               k == p + MaxParams
               contents == Chunk(r.contents, q)
               left == DeleteObservationsByContent(g, r.name, contents)
               more == {o \in db.observations : o.entity = r.name /\ o.content \in contents}
    <2>1. q \in 1..Len(r.contents) /\ DeletedChunk(c, left, k)
        BY <1>6 DEF DeleteContentChunk
    <2>2. k \in Nat \ {0} /\ k - Len(r.ids) = q + MaxParams /\ q \in Int /\ p > Len(r.ids) /\ k > Len(r.ids)
        BY <1>2, <2>1
    <2>3. Upto(r.ids, k) = KG!Elements(r.ids) /\ Upto(r.ids, p) = KG!Elements(r.ids)
        BY <1>2, <2>2, ChunkUpto
    <2>4. Upto(r.contents, q + MaxParams) = Upto(r.contents, q) \cup contents
        BY <1>2, <2>1, <2>2, ChunkUpto
    <2>5. Upto(r.contents, k - Len(r.ids)) = Upto(r.contents, p - Len(r.ids)) \cup contents
        BY <2>2, <2>4
    <2>6. ~(r.ids = <<>> /\ r.contents = <<>>)
        BY <1>2, <2>1
    <2> HIDE DEF k, contents, q
    <2>7. Hit(db, r, k) = Hit(db, r, p) \cup more
        BY <2>3, <2>5 DEF Hit
    <2>8. left = [g EXCEPT !.observations = @ \ more]
        <3>1. {o \in g.observations : ~(o.entity = r.name /\ o.content \in contents)}
                = g.observations \ more
            BY <1>4
        <3> QED
            BY <3>1 DEF DeleteObservationsByContent
    <2> HIDE DEF left, more
    <2>9. more \in SUBSET db.observations
        BY DEF more
    <2> QED
        BY <1>1, <2>1, <2>2, <2>6, <2>7, <2>8, <2>9, ChunkSimulated
<1> QED
    BY <1>5, <1>6

\* The graph that the database becomes is defined and has the image of its tables.
LEMMA BecomesImage ==
    ASSUME NEW g, db' = g
    PROVE  Image(db)' = Image(g) /\ Image(g) # KG!Undefined
<1>1. TypesIn(db)' = TypesIn(g)
    BY DEF TypesIn, Names, TypeOfEntity
<1>2. NotesIn(db)' = NotesIn(g)
    BY DEF NotesIn, Names, NotesOf
<1>3. LinksIn(db)' = LinksIn(g)
    BY DEF LinksIn, CopiesOf
<1>4. (db.obsSeq)' = g.obsSeq
    OBVIOUS
<1>5. Image(db)' = Image(g)
    BY <1>1, <1>2, <1>3, <1>4 DEF Image
<1> QED
    BY <1>5, ImageDefined

\* A statement outside a transaction takes effect as the call is answered.
LEMMA StatementSimulated ==
    ASSUME Inv, Sim, ForeignKeys, NEW c \in Clients,
           DeleteEntity(c) \/ DeleteAllObservations(c) \/ DeleteRelation(c)
    PROVE  Simulated
<1> DEFINE r == Req(c)
<1>1. Busy(c) /\ r.op \in {"DeleteEntity", "DeleteObservations", "DeleteRelation"}
      /\ r.op # "CreateEntities"
    BY AtBusy DEF DeleteEntity, DeleteAllObservations, DeleteRelation
<1>2. Sound(db) /\ RefOk(db)
    BY ViewRefers
<1>3. ASSUME NEW g, AutoCommit(g)
      PROVE  /\ writer' = Unlocked(c) /\ writer \in {Nobody, c} /\ db' = g
             /\ Image(db)' = Image(g) /\ Image(g) # KG!Undefined
    BY <1>3, BecomesImage DEF AutoCommit, Unlocked
<1>4. CASE DeleteEntity(c)
    <2> DEFINE h == DeleteEntityRows(db, {r.name})
    <2>1. r.op = "DeleteEntity" /\ AutoCommit(h) /\ \E a \in CommitAnswers : Answer(c, a, 0)
        BY <1>4, AtBusy DEF DeleteEntity
    <2>2. Image(h) = KG!Forgotten(Image(db), {r.name})
        BY <1>2, ImageForgotten
    <2> HIDE DEF h
    <2>3. Image(h) = KG!Effect(Image(db), r) /\ KG!NotesGone(Image(db), Image(h), r) = 0
        BY <2>1, <2>2 DEF KG!Effect, KG!BatchOps, KG!NotesGone
    <2> QED
        BY <1>1, <1>3, <2>1, <2>3, PerformSimulated
<1>5. CASE DeleteAllObservations(c)
    <2> DEFINE left == ClearObservations(db, r.name)
               gone == {o \in db.observations : o.entity = r.name}
               h == [db EXCEPT !.observations = @ \ gone]
    <2>1. /\ r.op = "DeleteObservations" /\ r.ids = <<>> /\ r.contents = <<>>
          /\ AutoCommit(left)
          /\ \E a \in CommitAnswers : Answer(c, a, RowsGone(db, left))
        BY <1>5, AtBusy DEF DeleteAllObservations
    <2>2. left = h
        <3>1. {o \in db.observations : o.entity # r.name} = db.observations \ gone
            OBVIOUS
        <3> QED
            BY <3>1 DEF ClearObservations
    <2>3. gone = {o \in db.observations : o.entity = r.name /\
                        ((r.ids = <<>> /\ r.contents = <<>>)
                         \/ o.id \in KG!Elements(r.ids) \/ o.content \in KG!Elements(r.contents))}
        BY <2>1
    <2>4. RowsGone(db, left) = Cardinality(gone)
        <3>1. h.observations = db.observations \ gone
            BY <1>2 DEF Sound, Tables
        <3>2. db.observations \ h.observations = gone
            BY <3>1
        <3> QED
            BY <2>2, <3>2 DEF RowsGone
    <2> HIDE DEF gone, left
    <2>5. Image(h) = KG!Pruned(Image(db), r) /\ KG!NotesGone(Image(db), Image(h), r) = Cardinality(gone)
        BY <1>2, <2>1, <2>3, ImagePruned
    <2> HIDE DEF h
    <2>6. Image(h) = KG!Effect(Image(db), r)
        BY <2>1, <2>5 DEF KG!Effect, KG!BatchOps
    <2> QED
        BY <1>1, <1>3, <2>1, <2>2, <2>4, <2>5, <2>6, PerformSimulated
<1>6. CASE DeleteRelation(c)
    <2> DEFINE h == DeleteTuple(db, r.tuple)
    <2>1. /\ r.op = "DeleteRelation" /\ AutoCommit(h)
          /\ IF h = db THEN Answer(c, "error", 0) ELSE \E a \in CommitAnswers : Answer(c, a, 0)
        BY <1>6, AtBusy DEF DeleteRelation
    <2>2. CASE h = db
        BY <1>1, <1>3, <2>1, <2>2, GiveUpSimulated
    <2>3. CASE h # db
        <3>1. r.tuple \in DOMAIN LinksIn(db)
            <4>1. ASSUME \A x \in db.relations : EndsOf(x) # r.tuple
                  PROVE  FALSE
                <5>1. {x \in db.relations : EndsOf(x) # r.tuple} = db.relations
                    BY <4>1
                <5>2. h = [db EXCEPT !.relations = db.relations]
                    BY <5>1 DEF DeleteTuple
                <5>3. [db EXCEPT !.relations = db.relations] = db
                    BY <1>2 DEF Sound, Tables
                <5> QED
                    BY <2>3, <5>2, <5>3
            <4> QED
                BY <4>1 DEF LinksIn
        <3>2. Image(h) = KG!Unlinked(Image(db), r.tuple)
            BY <1>2, ImageUnlinked
        <3> HIDE DEF h
        <3>3. Image(db).links = LinksIn(db)
            BY DEF Image
        <3>4. Image(h) = KG!Effect(Image(db), r) /\ KG!NotesGone(Image(db), Image(h), r) = 0
            BY <2>1, <3>1, <3>2, <3>3 DEF KG!Effect, KG!BatchOps, KG!NotesGone
        <3> QED
            BY <1>1, <1>3, <2>1, <2>3, <3>4, PerformSimulated
    <2> QED
        BY <2>2, <2>3
<1> QED
    BY <1>4, <1>5, <1>6

\* To forget nobody changes nothing.
LEMMA ForgetNobody ==
    ASSUME NEW g, Sound(g), RefOk(g)
    PROVE  KG!Forgotten(Image(g), {}) = Image(g)
<1> DEFINE h == DeleteEntityRows(g, {})
<1>1. Image(h) = KG!Forgotten(Image(g), {})
    BY ImageForgotten
<1>2. /\ h.entities = g.entities /\ h.observations = g.observations
      /\ h.relations = g.relations /\ h.obsSeq = g.obsSeq
    BY DEF DeleteEntityRows, Cascade, Sound, Tables
<1> HIDE DEF h
<1>3. TypesIn(h) = TypesIn(g) /\ NotesIn(h) = NotesIn(g) /\ LinksIn(h) = LinksIn(g)
    BY <1>2, ImageParts
<1>4. Image(h) = Image(g)
    BY <1>2, <1>3 DEF Image
<1> QED
    BY <1>1, <1>4

\* A call without items changes nothing.
LEMMA EmptySimulated ==
    ASSUME Inv, Sim, ForeignKeys, NEW c \in Clients, EmptyBatch(c)
    PROVE  Simulated
<1> DEFINE r == Req(c)
<1>1. /\ session[c].pc = "start" /\ Busy(c) /\ r.op \in BatchOps \cup {"AddObservations"}
      /\ Rounds(r) = 0 /\ Answer(c, "ok", 0) /\ db' = db /\ writer' = writer
    BY DEF EmptyBatch, Busy
<1>2. Sound(db) /\ RefOk(db)
    BY ViewRefers
<1>3. KG!Effect(Image(db), r) = Image(db)
    <2>1. CASE r.op = "UpdateEntities"
        <3>1. r.updates \in Seq(EntityUpdate) /\ Len(r.updates) = 0
            BY <1>1, <2>1, RequestOf DEF Rounds
        <3>2. KG!Elements(r.updates) = {}
            BY <3>1 DEF KG!Elements
        <3> QED
            BY <2>1, <3>2 DEF KG!Effect, KG!BatchOps, KG!IsIdle
    <2>2. CASE r.op \in RelationBatches
        <3>1. Len(KG!Items(r)) = 0
            BY <1>1, <2>2 DEF Rounds, KG!Items, RelationBatches
        <3>2. KG!Batch(Image(db), r) = Image(db)
            BY <3>1, StageByStage DEF KG!Batch
        <3> QED
            BY <2>2, <3>2 DEF KG!Effect, KG!BatchOps, KG!IsIdle, RelationBatches
    <2>3. CASE r.op = "DeleteEntities"
        <3>1. r.names \in Seq(Text) /\ Len(r.names) = 0
            BY <1>1, <2>3, NamesOf DEF Rounds
        <3>2. KG!Elements(r.names) = {}
            BY <3>1 DEF KG!Elements
        <3> QED
            BY <1>2, <2>3, <3>2, ForgetNobody DEF KG!Effect, KG!BatchOps
    <2>4. CASE r.op = "AddObservations"
        <3>1. r.obs \in Seq(Text) /\ r.obs = <<>>
            BY <1>1, <2>4, RequestOf DEF Rounds
        <3>2. NonBlank(r.obs) = {}
            BY <3>1 DEF NonBlank
        <3>3. KG!NonBlank(r.obs) = <<>>
            <4> DEFINE z == KG!NonBlank(r.obs)
            <4>1. z \in Seq(Text) /\ Lists(z, r.obs, {})
                BY <3>1, <3>2, NonBlankListed
            <4> HIDE DEF z
            <4>2. z = <<>>
                BY <4>1, FS_EmptySet DEF Lists
            <4> QED
                BY <4>2 DEF z
        <3>4. KG!Effect(Image(db), r) = KG!Noted(Image(db), r.name, <<>>)
            BY <2>4, <3>3, NoteEffect
        <3> QED
            BY <3>4 DEF KG!Noted
    <2> QED
        BY <1>1, <2>1, <2>2, <2>3, <2>4 DEF BatchOps, RelationBatches
<1>4. KG!NotesGone(Image(db), Image(db), r) = 0
    BY <1>1 DEF KG!NotesGone, BatchOps
<1>5. Image(db)' = Image(db) /\ Image(db) # KG!Undefined
    BY <1>1, BecomesImage
<1>6. writer # c /\ writer' = Unlocked(c) /\ r.op # "CreateEntities"
    BY <1>1, ViewOf DEF Unlocked, BatchOps
<1>7. "ok" \in CommitAnswers
    BY DEF CommitAnswers
<1> QED
    BY <1>1, <1>3, <1>4, <1>5, <1>6, <1>7, PerformSimulated

\* What COMMIT makes of the graph is the effect of the whole call, and its count the
\* number of observations that are gone.
LEMMA CommitEffect ==
    ASSUME Inv, Sim, ForeignKeys, NEW c \in Clients, session[c].pc = "tx",
           Req(c).op \in BatchOps \cup {"AddObservations", "DeleteObservations"},
           Pos(c) > Rounds(Req(c)),
           NEW g, g = IF writer = c THEN session[c].view ELSE db
    PROVE  /\ KG!Effect(Image(db), Req(c)) = Image(g)
           /\ KG!NotesGone(Image(db), Image(g), Req(c)) = session[c].count
<1> DEFINE r == Req(c)
           k == Pos(c)
<1>1. /\ Busy(c) /\ k \in Nat \ {0} /\ Sound(db) /\ RefOk(db)
      /\ InTransaction(session[c], db, writer = c)
    BY RequestOf, ViewRefers DEF Busy, Sim, OnTrack
<1>2. r.op # "DeleteObservations" =>
            session[c].count = 0 /\ KG!NotesGone(Image(db), Image(g), r) = 0
    BY <1>1 DEF InTransaction, KG!NotesGone, Req
<1>3. CASE r.op = "UpdateEntities"
    <2>1. /\ Updating(session[c], db, writer = c) /\ r.updates \in Seq(EntityUpdate)
          /\ k > Len(r.updates) /\ KG!Items(r) = r.updates
        BY <1>1, <1>3, RequestOf DEF InTransaction, Rounds, Req, KG!Items
    <2>2. k - 1 = Len(r.updates) /\ Len(r.updates) \in Nat
        BY <1>1, <2>1 DEF Updating, Req, Pos
    <2>3. CASE writer = c
        <3>1. ~KG!IsIdle(r) /\ Image(g) = KG!Stages(Image(db), r)[k - 1]
            BY <2>1, <2>3 DEF Updating, Req, Pos
        <3>2. KG!Batch(Image(db), r) = Image(g)
            BY <2>1, <2>2, <3>1 DEF KG!Batch
        <3> QED
            BY <1>2, <1>3, <3>1, <3>2 DEF KG!Effect, KG!BatchOps
    <2>4. CASE writer # c
        <3>1. \A i \in 1..(k - 1) : KG!AsksNothing(r.updates[i])
            BY <2>1, <2>4 DEF Updating, Req, Pos
        <3>2. KG!IsIdle(r)
            BY <1>3, <2>1, <2>2, <3>1 DEF KG!IsIdle, KG!Elements
        <3> QED
            BY <1>2, <1>3, <2>4, <3>2 DEF KG!Effect, KG!BatchOps
    <2> QED
        BY <2>3, <2>4
<1>4. CASE r.op \in RelationBatches
    <2>1. Relating(session[c], db, writer = c) /\ k > Len(KG!Items(r))
        BY <1>1, <1>4 DEF InTransaction, Rounds, Req, KG!Items, RelationBatches
    <2>2. Len(KG!Items(r)) \in Nat
        <3>1. CASE r.op = "UpdateRelations"
            BY <1>1, <3>1, RequestOf DEF KG!Items
        <3>2. CASE r.op \in {"CreateRelations", "DeleteRelations"}
            BY <1>1, <3>2, RequestOf DEF KG!Items
        <3> QED
            BY <1>4, <3>1, <3>2 DEF RelationBatches
    <2>3. k - 1 = Len(KG!Items(r)) /\ writer = c /\ Image(g) = KG!Stages(Image(db), r)[k - 1]
        BY <1>1, <2>1, <2>2 DEF Relating, Req, Pos
    <2>4. KG!Batch(Image(db), r) = Image(g)
        BY <2>3 DEF KG!Batch
    <2> QED
        BY <1>2, <1>4, <2>4 DEF KG!Effect, KG!BatchOps, KG!IsIdle, RelationBatches
<1>5. CASE r.op = "DeleteEntities"
    <2>1. Forgetting(session[c], db, writer = c) /\ k > Len(r.names) /\ r.names \in Seq(Text)
        BY <1>1, <1>5, NamesOf DEF InTransaction, Rounds, Req
    <2>2. Upto(r.names, k) = KG!Elements(r.names)
        BY <1>1, <2>1, ChunkUpto
    <2>3. Image(g) = KG!Forgotten(Image(db), KG!Elements(r.names))
        BY <2>1, <2>2 DEF Forgetting, Req, Pos
    <2> QED
        BY <1>2, <1>5, <2>3 DEF KG!Effect, KG!BatchOps
<1>6. CASE r.op = "AddObservations"
    <2>1. Noting(session[c], db, writer = c)
        BY <1>1, <1>6 DEF InTransaction, Req
    <2>2. CASE writer = c
        BY <1>2, <1>6, <2>1, <2>2 DEF Noting, Req
    <2>3. CASE writer # c
        <3>1. KG!NonBlank(r.obs) = <<>>
            BY <2>1, <2>3 DEF Noting, Req
        <3>2. KG!Effect(Image(db), r) = KG!Noted(Image(db), r.name, <<>>)
            BY <1>6, <3>1, NoteEffect
        <3> QED
            BY <1>2, <1>6, <2>3, <3>2 DEF KG!Noted
    <2> QED
        BY <2>2, <2>3
<1>7. CASE r.op = "DeleteObservations"
    <2> DEFINE gone == Hit(db, r, k)
               h == [db EXCEPT !.observations = @ \ gone]
    <2>1. /\ writer = c /\ ~(r.ids = <<>> /\ r.contents = <<>>) /\ session[c].view = h
          /\ session[c].count = Cardinality(gone)
        BY <1>1, <1>7 DEF InTransaction, Pruning, Req, Pos
    <2>2. /\ r.ids \in Seq(Nat) /\ r.contents \in Seq(Text)
          /\ Len(r.ids) \in Nat /\ Len(r.contents) \in Nat
        BY <1>1, <1>7, RequestOf
    <2>3. Rounds(r) = Len(r.ids) + Len(r.contents)
        BY <1>7, <2>1 DEF Rounds
    <2>4. k > Len(r.ids) /\ k - Len(r.ids) > Len(r.contents) /\ k - Len(r.ids) \in Int
        <3>1. k > Len(r.ids) + Len(r.contents) /\ k \in Nat
            BY <1>1, <2>3
        <3>2. \A a, b, m \in Nat : m > a + b => m > a /\ m - a > b /\ m - a \in Int
            OBVIOUS
        <3> HIDE DEF k
        <3> QED
            BY <2>2, <3>1, <3>2
    <2>5. Upto(r.ids, k) = KG!Elements(r.ids)
        BY <1>1, <2>2, <2>4, ChunkUpto
    <2>6. Upto(r.contents, k - Len(r.ids)) = KG!Elements(r.contents)
        BY <2>2, <2>4, ChunkUpto
    <2>7. gone = {o \in db.observations : o.entity = r.name /\
                        ((r.ids = <<>> /\ r.contents = <<>>)
                         \/ o.id \in KG!Elements(r.ids) \/ o.content \in KG!Elements(r.contents))}
        BY <2>1, <2>5, <2>6 DEF Hit
    <2> HIDE DEF gone
    <2>8. Image(h) = KG!Pruned(Image(db), r) /\ KG!NotesGone(Image(db), Image(h), r) = Cardinality(gone)
        BY <1>1, <1>7, <2>7, ImagePruned
    <2> HIDE DEF h
    <2>9. Image(h) = KG!Effect(Image(db), r)
        BY <1>7, <2>8 DEF KG!Effect, KG!BatchOps
    <2> QED
        BY <2>1, <2>8, <2>9
<1> QED
    BY <1>3, <1>4, <1>5, <1>6, <1>7 DEF BatchOps, RelationBatches

\* COMMIT is the instant at which a call in one transaction takes effect.
LEMMA CommitSimulated ==
    ASSUME Inv, Sim, ForeignKeys, NEW c \in Clients, CommitBatch(c)
    PROVE  Simulated
<1> DEFINE g == IF writer = c THEN session[c].view ELSE db
<1>1. /\ session[c].pc = "tx" /\ Req(c).op # "CreateEntities" /\ Busy(c)
      /\ Req(c).op \in BatchOps \cup {"AddObservations", "DeleteObservations"}
      /\ Pos(c) > Rounds(Req(c)) /\ Commit(c)
    BY DEF CommitBatch, Busy, BatchOps
<1>2. db' = g /\ writer' = Unlocked(c) /\ (writer \notin {Nobody, c} => db' = db)
    BY <1>1 DEF Commit
<1> HIDE DEF g
<1>3. /\ KG!Effect(Image(db), Req(c)) = Image(g)
      /\ KG!NotesGone(Image(db), Image(g), Req(c)) = session[c].count
    BY <1>1, CommitEffect DEF g
<1>4. PICK a \in CommitAnswers : Answer(c, a, session[c].count)
    BY DEF CommitBatch
<1>5. Image(db)' = Image(g) /\ Image(g) # KG!Undefined
    BY <1>2, BecomesImage
<1> QED
    BY <1>1, <1>2, <1>3, <1>4, <1>5, PerformSimulated

\* A call that is refused, finds the database locked, or meets a fault gives up.
LEMMA FailureSimulated ==
    ASSUME Inv, Sim, NEW c \in Clients, Refuse(c) \/ Locked(c) \/ Fault(c)
    PROVE  Simulated
BY GiveUpSimulated DEF Refuse, Locked, Fault, Fail

\* A call begins.
LEMMA InvokeSimulated ==
    ASSUME Inv, Sim, NEW c \in Clients, Invoke(c)
    PROVE  Simulated
<1>1. PICK r \in Requests :
        session' = [session EXCEPT ![c] = [Answered("none", 0) EXCEPT !.pc = "start", !.req = r]]
    BY DEF Invoke
<1>2. /\ session[c].pc = "idle" /\ session \in [Clients -> Session]
      /\ db' = db /\ writer' = writer
    BY DEF Invoke, Busy, Inv, TypeOK
<1>3. session'[c] = [Answered("none", 0) EXCEPT !.pc = "start", !.req = r]
    BY <1>1, <1>2
<1>4. \A d \in Clients \ {c} : session'[d] = session[d]
    BY <1>1, <1>2
<1>5. /\ session'[c].pc = "start" /\ session'[c].req = r /\ session'[c].answer = "none"
      /\ session'[c].count = 0 /\ session'[c].next = 1
    BY <1>3 DEF Answered
<1>6. OnTrack(session[c], db, writer = c)'
    <2>1. r.op = "CreateEntities" => Len(r.entities) \in Nat
        BY RequestsAssumption DEF Request
    <2> QED
        BY <1>5, <2>1 DEF OnTrack
<1>7. Sim'
    BY <1>2, <1>4, <1>6, SimStep
<1>8. CallerOf(c).req = NoCall
    BY <1>2 DEF Sim, OnTrack, CallerOf
<1>9. CallerOf(c)' = [KG!Resting("none", 0) EXCEPT !.req = r]
    BY <1>5 DEF CallerOf, KG!Resting
<1>10. \A d \in Clients \ {c} : CallerOf(d)' = CallerOf(d)
    BY <1>4 DEF CallerOf
<1> DEFINE caller == [d \in Clients |-> CallerOf(d)]
<1>11. caller' = [caller EXCEPT ![c] = [KG!Resting("none", 0) EXCEPT !.req = r]]
    BY <1>9, <1>10
<1>12. UNCHANGED KG!graphVars
    BY <1>2 DEF KG!graphVars, TypesIn, NotesIn, LinksIn, Names, TypeOfEntity, NotesOf, CopiesOf
<1>13. KG!Call(c)
    BY <1>8, <1>11, <1>12 DEF KG!Call
<1> QED
    BY <1>7, <1>13 DEF Simulated, KG!Next

\* A crash ends every call, without effect.
LEMMA CrashSimulated ==
    ASSUME Crash
    PROVE  Simulated
<1>1. /\ session' = [c \in Clients |-> Answered("none", 0)]
      /\ writer' = Nobody /\ db' = db
    BY DEF Crash
<1>2. Sim'
    BY <1>1, AnsweredOnTrack DEF Sim
<1>3. \A c \in Clients : CallerOf(c)' = KG!Resting("none", 0)
    BY <1>1 DEF CallerOf, Answered, KG!Resting
<1>4. UNCHANGED KG!graphVars
    BY <1>1 DEF KG!graphVars, TypesIn, NotesIn, LinksIn, Names, TypeOfEntity, NotesOf, CopiesOf
<1>5. KG!Restart
    BY <1>3, <1>4 DEF KG!Restart
<1> QED
    BY <1>2, <1>5 DEF Simulated, KG!Next

\* Freshly initialised tables are the empty graph.
LEMMA InitSimulated == Init => Sim /\ KG!Init
<1> SUFFICES ASSUME Init
             PROVE  Sim /\ KG!Init
    OBVIOUS
<1>1. /\ session = [c \in Clients |-> Answered("none", 0)] /\ db = NoRows
    BY DEF Init
<1>2. Sim
    BY <1>1, AnsweredOnTrack DEF Sim
<1>3. \A c \in Clients : CallerOf(c) = KG!Resting("none", 0)
    BY <1>1 DEF CallerOf, Answered, KG!Resting
<1>4. Names(db) = {} /\ {EndsOf(r) : r \in db.relations} = {}
    BY <1>1 DEF Names, NoRows
<1>5. TypesIn(db) = <<>> /\ NotesIn(db) = <<>> /\ LinksIn(db) = <<>>
    <2>1. \A f : DOMAIN f = {} /\ f = [x \in DOMAIN f |-> f[x]] => f = <<>>
        OBVIOUS
    <2>2. DOMAIN TypesIn(db) = {} /\ TypesIn(db) = [x \in DOMAIN TypesIn(db) |-> TypesIn(db)[x]]
        BY <1>4 DEF TypesIn
    <2>3. DOMAIN NotesIn(db) = {} /\ NotesIn(db) = [x \in DOMAIN NotesIn(db) |-> NotesIn(db)[x]]
        BY <1>4 DEF NotesIn
    <2>4. DOMAIN LinksIn(db) = {} /\ LinksIn(db) = [x \in DOMAIN LinksIn(db) |-> LinksIn(db)[x]]
        BY <1>4 DEF LinksIn
    <2> QED
        BY <2>1, <2>2, <2>3, <2>4
<1>6. db.obsSeq = 0
    BY <1>1 DEF NoRows
<1> QED
    BY <1>2, <1>3, <1>5, <1>6 DEF KG!Init

\* Every step of GraphStore is a step of KnowledgeGraph or leaves the graph as it was.
LEMMA NextSimulated == ForeignKeys /\ Inv /\ Sim /\ [Next]_vars => Simulated
<1> SUFFICES ASSUME ForeignKeys, Inv, Sim, [Next]_vars
             PROVE  Simulated
    OBVIOUS
<1>1. CASE UNCHANGED vars
    <2>1. db' = db /\ writer' = writer /\ session' = session
        BY <1>1 DEF vars
    <2>2. Sim'
        BY <2>1 DEF Sim
    <2>3. UNCHANGED KG!vars
        BY <2>1 DEF KG!vars, KG!graphVars, CallerOf, TypesIn, NotesIn, LinksIn, Names,
                    TypeOfEntity, NotesOf, CopiesOf
    <2> QED
        BY <2>2, <2>3 DEF Simulated
<1>2. CASE Crash
    BY <1>2, CrashSimulated
<1>3. ASSUME NEW c \in Clients, Invoke(c) \/ Work(c) \/ Fault(c)
      PROVE  Simulated
    BY <1>3, InvokeSimulated, FailureSimulated, EmptySimulated, CommitSimulated, CreateSimulated,
       UpdateSimulated, LookupsSimulated, NoteSimulated, ForgetSimulated, PruneSimulated,
       RelateSimulated, StatementSimulated
       DEF Work
<1> QED
    BY <1>1, <1>2, <1>3 DEF Next

\* With foreign keys enforced, every call takes effect whole and at one instant between
\* its start and its answer, or not at all, and is answered accordingly, whatever other
\* calls run beside it and wherever it fails, is refused or crashes.
THEOREM Atomicity == ASSUME ForeignKeys PROVE Spec => CallsAreAtomic
<1>1. Init => Sim /\ KG!Init
    BY InitSimulated
<1>2. Inv /\ Sim /\ [Next]_vars => Sim' /\ [KG!Next]_(KG!vars)
    BY NextSimulated DEF Simulated
<1>3. Spec => []Inv
    BY Invariance
<1> QED
    BY <1>1, <1>2, <1>3, PTL DEF Spec, CallsAreAtomic, KG!Spec

===============================================================================
