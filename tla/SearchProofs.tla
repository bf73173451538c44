---------------------------- MODULE SearchProofs ----------------------------
(***************************************************************************)
(* The flags and the chain of methods: for any number of callers, any      *)
(* searches and any databases.                                             *)
(***************************************************************************)
EXTENDS Search, TLAPS

ProbePC == {"probeTopK", "probeFTS", "create", "publish"}
Probing(c) == call[c].pc \in ProbePC

CallType ==
    [pc : {"idle", "probeTopK", "probeFTS", "create", "publish", "caps", "try", "rows",
           "relations"},
     query : Queries \cup {NoQuery}, caps : CapFlags, method : Method,
     steady : BOOLEAN]

\* One call probes, before the flags are checked; until then they are down, and no other
\* call has seen the index that is being built.
OneProbe ==
    /\ ~opened => \A c \in Callers : At(c, "idle") /\ ~call[c].caps.fts
    /\ ~opened => ~flags.checked
    /\ \A c \in Callers : Probing(c) =>
          ~flags.checked /\ \A d \in Callers \ {c} : ~Probing(d) /\ ~call[d].caps.fts
    /\ ~flags.checked => ~flags.fts /\ ~flags.topK

\* How far a search k of a database that has not changed can have fallen.
OnTheWay(k) ==
    /\ k.query.kind = "vector" => k.method \in {"topK", "exact"}
    /\ k.query.kind = "text" => k.method \in {"bm25", "byName", "like"}
    /\ k.method = "topK" => k.caps.topK
    /\ k.method \in {"bm25", "byName"} => k.caps.fts
    /\ k.method = "bm25" => config.bm25
    /\ k.steady =>
          /\ k.method = "exact" => ~(k.caps.topK /\ "topK" \in engine)
          /\ k.method = "byName" => ~config.bm25 \/ "bm25" \notin engine
          /\ k.method = "like" => Best(k) = "like"

Right(k) ==
    /\ k.pc = "try" => OnTheWay(k)
    /\ k.pc = "rows" /\ k.steady => k.method = Best(k)

AllRight == \A c \in Callers : Right(call[c])

IInv == TypeOK /\ OneProbe /\ AllRight

-----------------------------------------------------------------------------

LEMMA Typed ==
    ASSUME TypeOK
    PROVE  /\ call \in [Callers -> CallType]
           /\ \A c \in Callers :
                /\ call[c] \in CallType /\ call[c].caps \in CapFlags
                /\ call[c].method \in Method /\ call[c].steady \in BOOLEAN
                /\ call[c].query \in Queries \cup {NoQuery}
BY DEF TypeOK, CallType

LEMMA QueryTyped ==
    ASSUME NEW q \in Queries \cup {NoQuery}
    PROVE  /\ q.kind \in {"text", "vector"} /\ q.match \in {"none", "malformed", "syntax"}
           /\ q.valid \in BOOLEAN
<1>1. CASE q \in Queries
  <2>1. q \in Query
    BY <1>1, SearchAssumption
  <2>2. QED
    BY <2>1 DEF Query
<1>2. CASE q = NoQuery
  BY <1>2 DEF NoQuery
<1>3. QED
  BY <1>1, <1>2

LEMMA IdleTyped == Idle \in CallType /\ NoFlags \in CapFlags
BY DEF Idle, Searching, CallType, CapFlags, NoFlags, Method

\* A step that gives one caller a record that is right leaves all of them right ...
LEMMA BecomesRight ==
    ASSUME IInv, NEW c \in Callers, NEW r \in CallType, Right(r), Becomes(c, r),
           config' = config, engine' = engine
    PROVE  /\ AllRight' /\ call' \in [Callers -> CallType] /\ call'[c] = r
           /\ \A d \in Callers \ {c} : call'[d] = call[d]
<1>1. /\ call' \in [Callers -> CallType] /\ call'[c] = r
      /\ \A d \in Callers \ {c} : call'[d] = call[d]
  BY Typed DEF Becomes, IInv
<1>2. ASSUME NEW d \in Callers PROVE Right(call[d])'
  <2>1. Right(call'[d])
    BY <1>1 DEF IInv, AllRight
  <2>2. QED
    BY <2>1 DEF Right, OnTheWay, Best
<1>3. QED
  BY <1>1, <1>2 DEF AllRight

\* ... also when it drops or builds the index that no other has seen.
LEMMA ProbeRight ==
    ASSUME IInv, NEW c \in Callers, Probing(c), NEW r \in CallType, Becomes(c, r),
           r.pc \notin {"try", "rows"},
           config' = config,
           \A f \in Feature \ {"table"} : f \in engine' <=> f \in engine
    PROVE  /\ AllRight' /\ call' \in [Callers -> CallType] /\ call'[c] = r
           /\ \A d \in Callers \ {c} : call'[d] = call[d]
<1>1. /\ call' \in [Callers -> CallType] /\ call'[c] = r
      /\ \A d \in Callers \ {c} : call'[d] = call[d]
  BY Typed DEF Becomes, IInv
<1>2. ASSUME NEW d \in Callers \ {c} PROVE Right(call[d])'
  <2>1. ~call[d].caps.fts
    BY DEF IInv, OneProbe
  <2>2. call[d].query.kind \in {"text", "vector"}
    BY Typed, QueryTyped DEF IInv
  <2>3. Right(call[d]) /\ call'[d] = call[d]
    BY <1>1 DEF IInv, AllRight
  <2>4. "topK" \in engine' <=> "topK" \in engine
    BY DEF Feature
  <2>5. "bm25" \in engine' <=> "bm25" \in engine
    BY DEF Feature
  <2>6. Best(call[d])' = Best(call[d])
    BY <2>1, <2>2, <2>3, <2>4 DEF Best
  <2>7. QED
    BY <2>3, <2>4, <2>5, <2>6 DEF Right, OnTheWay
<1>3. Right(call[c])'
  BY <1>1 DEF Right
<1>4. QED
  BY <1>1, <1>2, <1>3 DEF AllRight

\* The index aside, a step of a call that does not probe keeps OneProbe, if it only lowers
\* flags.
LEMMA QuietProbe ==
    ASSUME IInv, NEW c \in Callers, ~Probing(c), opened,
           call'[c].pc \notin ProbePC, opened' = opened,
           \A d \in Callers \ {c} : call'[d] = call[d],
           flags'.checked = flags.checked,
           flags'.fts => flags.fts, flags'.topK => flags.topK,
           call'[c].caps.fts => call[c].caps.fts \/ flags.fts
    PROVE  OneProbe'
BY DEF IInv, OneProbe, Probing

-----------------------------------------------------------------------------
(* one lemma per action *)

Kept == TypeOK' /\ OneProbe' /\ AllRight'

LEMMA TypedAgain ==
    ASSUME IInv, call' \in [Callers -> CallType], config' = config,
           engine' \subseteq Feature, opened' \in BOOLEAN, flags' \in CapFlags,
           prepared' \subseteq Method
    PROVE  TypeOK'
BY DEF IInv, TypeOK, CallType

LEMMA BeginKeeps ==
    ASSUME IInv, NEW c \in Callers, Begin(c)
    PROVE  Kept
<1>1. PICK q \in Queries :
        Becomes(c, Searching(IF opened THEN "caps" ELSE "probeTopK", q, NoFlags, "like"))
  BY DEF Begin
<1> DEFINE r == Searching(IF opened THEN "caps" ELSE "probeTopK", q, NoFlags, "like")
<1>2. /\ r \in CallType /\ Right(r) /\ Becomes(c, r)
      /\ r.pc = IF opened THEN "caps" ELSE "probeTopK"
      /\ ~r.caps.fts
  BY <1>1 DEF CallType, Searching, CapFlags, NoFlags, Method, Right
<1> HIDE DEF r
<1>3. /\ AllRight' /\ call' \in [Callers -> CallType] /\ call'[c] = r
      /\ \A d \in Callers \ {c} : call'[d] = call[d]
  BY <1>2, BecomesRight DEF Begin
<1>4. TypeOK'
  BY <1>3, TypedAgain DEF Begin, IInv, TypeOK
<1>5. OneProbe'
  <2>1. CASE opened
    BY <2>1, <1>2, <1>3 DEF Begin, IInv, OneProbe, Probing, ProbePC, At
  <2>2. CASE ~opened
    <3>1. \A d \in Callers : call[d].pc = "idle" /\ ~call[d].caps.fts /\ ~flags.checked
      BY <2>2 DEF IInv, OneProbe, At
    <3>2. QED
      BY <3>1, <1>2, <1>3 DEF Begin, IInv, OneProbe, Probing, ProbePC, At
  <2>3. QED
    BY <2>1, <2>2
<1>6. QED
  BY <1>3, <1>4, <1>5 DEF Kept

\* A step that only moves one caller, to a record of the right type and kind, keeps all.
LEMMA MoveKeeps ==
    ASSUME IInv, NEW c \in Callers, NEW r \in CallType, Right(r), Becomes(c, r),
           ~Probing(c), opened, r.pc \notin ProbePC,
           r.caps.fts => call[c].caps.fts \/ flags.fts,
           UNCHANGED <<config, engine, opened, flags>>, prepared' \subseteq Method
    PROVE  Kept
<1>1. /\ AllRight' /\ call' \in [Callers -> CallType] /\ call'[c] = r
      /\ \A d \in Callers \ {c} : call'[d] = call[d]
  BY BecomesRight
<1>2. TypeOK'
  BY <1>1, TypedAgain DEF IInv, TypeOK
<1>3. OneProbe'
  BY <1>1, QuietProbe
<1>4. QED
  BY <1>1, <1>2, <1>3 DEF Kept

\* ... also when it lowers one flag.
LEMMA LowerKeeps ==
    ASSUME IInv, NEW c \in Callers, NEW r \in CallType, Right(r), Becomes(c, r),
           ~Probing(c), opened, r.pc \notin ProbePC,
           r.caps.fts => call[c].caps.fts,
           flags' \in CapFlags, flags'.checked = flags.checked,
           flags'.fts => flags.fts, flags'.topK => flags.topK,
           UNCHANGED <<config, engine, opened>>, prepared' \subseteq Method
    PROVE  Kept
<1>1. /\ AllRight' /\ call' \in [Callers -> CallType] /\ call'[c] = r
      /\ \A d \in Callers \ {c} : call'[d] = call[d]
  BY BecomesRight
<1>2. TypeOK'
  BY <1>1, TypedAgain DEF IInv, TypeOK
<1>3. OneProbe'
  BY <1>1, QuietProbe
<1>4. QED
  BY <1>1, <1>2, <1>3 DEF Kept

LEMMA Working ==
    ASSUME IInv, NEW c \in Callers, call[c].pc # "idle"
    PROVE  opened
BY DEF IInv, OneProbe, At

LEMMA AnswerKeeps ==
    ASSUME IInv, NEW c \in Callers, ~Probing(c), call[c].pc # "idle", Answer(c),
           UNCHANGED <<config, engine, opened, flags>>, prepared' \subseteq Method
    PROVE  Kept
<1>1. /\ Idle \in CallType /\ Right(Idle) /\ Idle.pc = "idle" /\ ~Idle.caps.fts
  BY IdleTyped DEF Idle, Searching, NoFlags, Right
<1>2. Becomes(c, Idle) /\ opened
  BY Working DEF Answer
<1>3. QED
  BY <1>1, <1>2, MoveKeeps DEF ProbePC

\* A statement that is kept belongs to a method.
LEMMA CachingTyped ==
    ASSUME IInv, NEW m \in Method, NEW error, Caching(m, error)
    PROVE  prepared' \subseteq Method
BY DEF Caching, IInv, TypeOK

\* The record of a call after a step that moves it on.
LEMMA Stepped ==
    ASSUME IInv, NEW c \in Callers,
           NEW p \in {"create", "publish", "caps", "rows"}, NEW m \in Method
    PROVE  /\ [call[c] EXCEPT !.pc = p] \in CallType
           /\ [call[c] EXCEPT !.pc = p].pc = p
           /\ [call[c] EXCEPT !.pc = p].query = call[c].query
           /\ [call[c] EXCEPT !.pc = p].caps = call[c].caps
           /\ [call[c] EXCEPT !.pc = p].method = call[c].method
           /\ [call[c] EXCEPT !.pc = p].steady = call[c].steady
           /\ [call[c] EXCEPT !.method = m] \in CallType
           /\ [call[c] EXCEPT !.method = m].method = m
           /\ [call[c] EXCEPT !.method = m].pc = call[c].pc
           /\ [call[c] EXCEPT !.method = m].query = call[c].query
           /\ [call[c] EXCEPT !.method = m].caps = call[c].caps
           /\ [call[c] EXCEPT !.method = m].steady = call[c].steady
BY Typed DEF IInv, CallType

\* What a refusal, or the lack of one, tells of the method and of the database.
LEMMA NoError ==
    ASSUME NEW m \in Method, NEW q \in Queries \cup {NoQuery}, ErrorOf(m, q) = "none"
    PROVE  /\ m = "topK" => "topK" \in engine
           /\ m \in {"bm25", "byName"} =>
                 q.match = "none" /\ "table" \in engine /\ "fts5" \in engine
           /\ m = "bm25" => "bm25" \in engine /\ "alias" \in engine
<1>1. q.match \in {"none", "malformed", "syntax"}
  BY QueryTyped
<1>2. CASE m = "topK"
  BY <1>1, <1>2 DEF ErrorOf
<1>3. CASE m = "byName"
  BY <1>1, <1>3 DEF ErrorOf
<1>4. CASE m = "bm25"
  BY <1>1, <1>4 DEF ErrorOf
<1>5. CASE m \in {"like", "exact"}
  BY <1>1, <1>5 DEF ErrorOf
<1>6. QED
  BY <1>2, <1>3, <1>4, <1>5 DEF Method

LEMMA NoTopKMeans ==
    ASSUME NEW m \in Method, NEW q \in Queries \cup {NoQuery}, ErrorOf(m, q) = "no topK"
    PROVE  m = "topK" /\ "topK" \notin engine
<1>1. q.match \in {"none", "malformed", "syntax"}
  BY QueryTyped
<1>2. CASE m = "topK"
  BY <1>1, <1>2 DEF ErrorOf
<1>3. CASE m = "byName"
  BY <1>1, <1>3 DEF ErrorOf
<1>4. CASE m = "bm25"
  BY <1>1, <1>4 DEF ErrorOf
<1>5. CASE m \in {"like", "exact"}
  BY <1>1, <1>5 DEF ErrorOf
<1>6. QED
  BY <1>2, <1>3, <1>4, <1>5 DEF Method

LEMMA NoBm25Means ==
    ASSUME NEW m \in Method, NEW q \in Queries \cup {NoQuery}, ErrorOf(m, q) = "no bm25"
    PROVE  m = "bm25" /\ "bm25" \notin engine
<1>1. q.match \in {"none", "malformed", "syntax"}
  BY QueryTyped
<1>2. CASE m = "topK"
  BY <1>1, <1>2 DEF ErrorOf
<1>3. CASE m = "byName"
  BY <1>1, <1>3 DEF ErrorOf
<1>4. CASE m = "bm25"
  BY <1>1, <1>4 DEF ErrorOf
<1>5. CASE m \in {"like", "exact"}
  BY <1>1, <1>5 DEF ErrorOf
<1>6. QED
  BY <1>2, <1>3, <1>4, <1>5 DEF Method

LEMMA NoModuleMeans ==
    ASSUME NEW m \in Method, NEW q \in Queries \cup {NoQuery}, ErrorOf(m, q) = "no module"
    PROVE  m \in {"bm25", "byName"} /\ "fts5" \notin engine
<1>1. q.match \in {"none", "malformed", "syntax"}
  BY QueryTyped
<1>2. CASE m = "topK"
  BY <1>1, <1>2 DEF ErrorOf
<1>3. CASE m = "byName"
  BY <1>1, <1>3 DEF ErrorOf
<1>4. CASE m = "bm25"
  BY <1>1, <1>4 DEF ErrorOf
<1>5. CASE m \in {"like", "exact"}
  BY <1>1, <1>5 DEF ErrorOf
<1>6. QED
  BY <1>2, <1>3, <1>4, <1>5 DEF Method

LEMMA NoTableMeans ==
    ASSUME NEW m \in Method, NEW q \in Queries \cup {NoQuery}, ErrorOf(m, q) = "no table"
    PROVE  m \in {"bm25", "byName"} /\ "table" \notin engine
<1>1. q.match \in {"none", "malformed", "syntax"}
  BY QueryTyped
<1>2. CASE m = "topK"
  BY <1>1, <1>2 DEF ErrorOf
<1>3. CASE m = "byName"
  BY <1>1, <1>3 DEF ErrorOf
<1>4. CASE m = "bm25"
  BY <1>1, <1>4 DEF ErrorOf
<1>5. CASE m \in {"like", "exact"}
  BY <1>1, <1>5 DEF ErrorOf
<1>6. QED
  BY <1>2, <1>3, <1>4, <1>5 DEF Method

LEMMA NoColumnMeans ==
    ASSUME NEW m \in Method, NEW q \in Queries \cup {NoQuery}, ErrorOf(m, q) = "no column"
    PROVE  m = "bm25" /\ "bm25" \in engine /\ "alias" \notin engine
<1>1. q.match \in {"none", "malformed", "syntax"}
  BY QueryTyped
<1>2. CASE m = "topK"
  BY <1>1, <1>2 DEF ErrorOf
<1>3. CASE m = "byName"
  BY <1>1, <1>3 DEF ErrorOf
<1>4. CASE m = "bm25"
  BY <1>1, <1>4 DEF ErrorOf
<1>5. CASE m \in {"like", "exact"}
  BY <1>1, <1>5 DEF ErrorOf
<1>6. QED
  BY <1>2, <1>3, <1>4, <1>5 DEF Method

LEMMA MalformedMeans ==
    ASSUME NEW m \in Method, NEW q \in Queries \cup {NoQuery}, ErrorOf(m, q) = "malformed"
    PROVE  m \in {"bm25", "byName"} /\ q.match # "none"
<1>1. q.match \in {"none", "malformed", "syntax"}
  BY QueryTyped
<1>2. CASE m = "topK"
  BY <1>1, <1>2 DEF ErrorOf
<1>3. CASE m = "byName"
  BY <1>1, <1>3 DEF ErrorOf
<1>4. CASE m = "bm25"
  BY <1>1, <1>4 DEF ErrorOf
<1>5. CASE m \in {"like", "exact"}
  BY <1>1, <1>5 DEF ErrorOf
<1>6. QED
  BY <1>2, <1>3, <1>4, <1>5 DEF Method

LEMMA TryFacts ==
    ASSUME IInv, NEW c \in Callers, At(c, "try")
    PROVE  /\ call[c] \in CallType /\ OnTheWay(call[c]) /\ opened /\ ~Probing(c)
           /\ call[c].query.kind \in {"text", "vector"}
           /\ call[c].method \in Method /\ call[c].query \in Queries \cup {NoQuery}
BY Typed, QueryTyped, Working DEF IInv, AllRight, Right, At, Probing, ProbePC

LEMMA RefuseKeeps ==
    ASSUME IInv, NEW c \in Callers, Refuse(c)
    PROVE  Kept
BY AnswerKeeps DEF Refuse, At, Probing, ProbePC, IInv, TypeOK

LEMMA NotForgivenKeeps ==
    ASSUME IInv, NEW c \in Callers, NotForgiven(c)
    PROVE  Kept
<1>1. /\ At(c, "try") /\ Answer(c) /\ UNCHANGED <<config, engine, opened, flags>>
      /\ Caching(call[c].method, ErrorOf(call[c].method, call[c].query))
  BY DEF NotForgiven
<1>2. prepared' \subseteq Method
  BY <1>1, TryFacts, CachingTyped
<1>3. QED
  BY <1>1, <1>2, TryFacts, AnswerKeeps DEF At

LEMMA FoundKeeps ==
    ASSUME IInv, NEW c \in Callers, Found(c)
    PROVE  Kept
<1> DEFINE r == [call[c] EXCEPT !.pc = "rows"]
<1>1. At(c, "try") /\ ErrorOf(call[c].method, call[c].query) = "none"
  BY DEF Found, Meets
<1>2. /\ r \in CallType /\ r.pc = "rows" /\ r.query = call[c].query /\ r.caps = call[c].caps
      /\ r.method = call[c].method /\ r.steady = call[c].steady
     
  BY Stepped, Typed DEF IInv
<1>3. Becomes(c, r) /\ UNCHANGED <<config, engine, opened, flags>>
  BY DEF Found, Goto
<1>4. prepared' \subseteq Method
  BY <1>1, TryFacts, CachingTyped DEF Found
<1> HIDE DEF r
<1>5. ASSUME r.steady PROVE r.method = Best(r)
  <2>1. OnTheWay(call[c]) /\ call[c].query.kind \in {"text", "vector"}
        /\ call[c].method \in Method
    BY <1>1, TryFacts
  <2>2. CASE call[c].method = "topK"
    <3>1. "topK" \in engine
      BY <1>1, <2>2, TryFacts, NoError
    <3>2. QED
      BY <1>2, <2>1, <2>2, <3>1 DEF OnTheWay, Best
  <2>3. CASE call[c].method = "exact"
    BY <1>2, <1>5, <2>1, <2>3 DEF OnTheWay, Best
  <2>4. CASE call[c].method = "like"
    BY <1>2, <1>5, <2>1, <2>4 DEF OnTheWay, Best
  <2>5. CASE call[c].method \in {"bm25", "byName"}
    <3>1. call[c].method \in Method /\ call[c].query \in Queries \cup {NoQuery}
      BY <1>1, TryFacts
    <3>2. /\ call[c].query.match = "none" /\ "table" \in engine /\ "fts5" \in engine
          /\ call[c].method = "bm25" => "bm25" \in engine /\ "alias" \in engine
      BY <1>1, <2>5, <3>1, NoError
    <3>3. QED
      BY <1>2, <1>5, <2>1, <2>5, <3>2 DEF OnTheWay, Best
  <2>6. QED
    BY <2>1, <2>2, <2>3, <2>4, <2>5 DEF Method
<1>6. Right(r) /\ r.pc \notin ProbePC /\ (r.caps.fts => call[c].caps.fts)
  BY <1>1, <1>2, <1>5, TryFacts DEF Right, ProbePC
<1>7. QED
  BY <1>1, <1>2, <1>3, <1>4, <1>6, TryFacts, MoveKeeps

\* A call falls to m, and m is right.
LEMMA FallsRight ==
    ASSUME IInv, NEW c \in Callers, At(c, "try"), NEW m \in Method, FallsTo(c, m),
           OnTheWay([call[c] EXCEPT !.method = m]),
           flags' \in CapFlags, flags'.checked = flags.checked,
           flags'.fts => flags.fts, flags'.topK => flags.topK,
           UNCHANGED <<config, engine, opened>>, prepared' \subseteq Method
    PROVE  Kept
<1> DEFINE r == [call[c] EXCEPT !.method = m]
<1>1. r \in CallType /\ r.pc = "try" /\ r.caps = call[c].caps
  BY Stepped DEF At
<1>2. Becomes(c, r) /\ OnTheWay(r)
  BY DEF FallsTo
<1> HIDE DEF r
<1>3. Right(r) /\ r.pc \notin ProbePC /\ ~Probing(c) /\ opened
  BY <1>1, <1>2, TryFacts DEF Right, ProbePC
<1>4. QED
  BY <1>1, <1>2, <1>3, LowerKeeps

LEMMA NoBm25Keeps ==
    ASSUME IInv, NEW c \in Callers, NoBm25(c)
    PROVE  Kept
<1> DEFINE r == [call[c] EXCEPT !.method = "byName"]
<1>1. At(c, "try") /\ ErrorOf(call[c].method, call[c].query) = "no bm25" /\ FallsTo(c, "byName")
      /\ UNCHANGED <<config, engine, opened, flags, prepared>>
  BY DEF NoBm25, Meets
<1>0. call[c].method \in Method /\ call[c].query \in Queries \cup {NoQuery}
  BY <1>1, TryFacts
<1>2. OnTheWay(call[c])
  BY <1>1, TryFacts
<1>3. call[c].method = "bm25" /\ "bm25" \notin engine
  BY <1>1, <1>0, NoBm25Means
<1>4. r.method = "byName" /\ r.query = call[c].query /\ r.caps = call[c].caps
      /\ "byName" \in Method
  BY Stepped, Typed DEF IInv, Method
<1>5. OnTheWay(r)
  BY <1>2, <1>3, <1>4 DEF OnTheWay
<1>6. QED
  BY <1>1, <1>4, <1>5, FallsRight DEF IInv, TypeOK

LEMMA NoModuleKeeps ==
    ASSUME IInv, NEW c \in Callers, NoModule(c)
    PROVE  Kept
<1> DEFINE r == [call[c] EXCEPT !.method = "like"]
<1>1. At(c, "try") /\ ErrorOf(call[c].method, call[c].query) = "no module"
      /\ FallsTo(c, "like") /\ flags' = [flags EXCEPT !.fts = FALSE]
      /\ UNCHANGED <<config, engine, opened, prepared>>
  BY DEF NoModule, Meets
<1>0. call[c].method \in Method /\ call[c].query \in Queries \cup {NoQuery}
  BY <1>1, TryFacts
<1>2. OnTheWay(call[c]) /\ call[c].query.kind \in {"text", "vector"}
  BY <1>1, TryFacts
<1>3. call[c].method \in {"bm25", "byName"} /\ "fts5" \notin engine
  BY <1>1, <1>0, NoModuleMeans
<1>4. r.method = "like" /\ r.query = call[c].query /\ r.caps = call[c].caps
      /\ "like" \in Method
  BY Stepped, Typed DEF IInv, Method
<1>5. OnTheWay(r)
  BY <1>2, <1>3, <1>4 DEF OnTheWay, Best
<1>6. /\ flags' \in CapFlags /\ flags'.checked = flags.checked
      /\ ~flags'.fts /\ flags'.topK = flags.topK
  BY <1>1 DEF IInv, TypeOK, CapFlags
<1>7. QED
  BY <1>1, <1>4, <1>5, <1>6, FallsRight DEF IInv, TypeOK

LEMMA ThisOnceKeeps ==
    ASSUME IInv, NEW c \in Callers, ThisOnce(c)
    PROVE  Kept
<1> DEFINE r == [call[c] EXCEPT !.method = "like"]
           error == ErrorOf(call[c].method, call[c].query)
<1>1. At(c, "try") /\ error \in {"no table", "no column", "malformed"}
      /\ FallsTo(c, "like") /\ Caching(call[c].method, error)
      /\ UNCHANGED <<config, engine, opened, flags>>
  BY DEF ThisOnce
<1>0. call[c].method \in Method /\ call[c].query \in Queries \cup {NoQuery}
  BY <1>1, TryFacts
<1>2. OnTheWay(call[c]) /\ call[c].query.kind \in {"text", "vector"}
  BY <1>1, TryFacts
<1>3. /\ call[c].method \in {"bm25", "byName"}
      /\ error = "no table" => "table" \notin engine
      /\ error = "no column" => call[c].method = "bm25" /\ "bm25" \in engine /\ "alias" \notin engine
      /\ error = "malformed" => call[c].query.match # "none"
  BY <1>1, <1>0, NoTableMeans, NoColumnMeans, MalformedMeans
<1>8. prepared' \subseteq Method
  BY <1>1, <1>0, CachingTyped
<1> HIDE DEF error
<1>4. r.method = "like" /\ r.query = call[c].query /\ r.caps = call[c].caps
      /\ "like" \in Method
  BY Stepped, Typed DEF IInv, Method
<1>5. Best(r) = "like" /\ r.query.kind = "text"
  BY <1>1, <1>2, <1>3, <1>4 DEF OnTheWay, Best
<1>6. OnTheWay(r)
  BY <1>4, <1>5 DEF OnTheWay
<1>7. QED
  BY <1>1, <1>4, <1>6, <1>8, FallsRight DEF IInv, TypeOK

LEMMA NoTopKKeeps ==
    ASSUME IInv, NEW c \in Callers, NoTopK(c)
    PROVE  Kept
<1> DEFINE r == [call[c] EXCEPT !.method = "exact"]
<1>1. At(c, "try") /\ ErrorOf(call[c].method, call[c].query) = "no topK"
      /\ FallsTo(c, "exact") /\ flags' = [flags EXCEPT !.topK = FALSE]
      /\ UNCHANGED <<config, engine, opened, prepared>>
  BY DEF NoTopK, Meets
<1>0. call[c].method \in Method /\ call[c].query \in Queries \cup {NoQuery}
  BY <1>1, TryFacts
<1>2. OnTheWay(call[c]) /\ call[c].query.kind \in {"text", "vector"}
  BY <1>1, TryFacts
<1>3. call[c].method = "topK" /\ "topK" \notin engine
  BY <1>1, <1>0, NoTopKMeans
<1>4. r.method = "exact" /\ r.query = call[c].query /\ r.caps = call[c].caps
      /\ "exact" \in Method
  BY Stepped, Typed DEF IInv, Method
<1>5. OnTheWay(r)
  BY <1>2, <1>3, <1>4 DEF OnTheWay
<1>6. /\ flags' \in CapFlags /\ flags'.checked = flags.checked
      /\ ~flags'.topK /\ flags'.fts = flags.fts
  BY <1>1 DEF IInv, TypeOK, CapFlags
<1>7. QED
  BY <1>1, <1>4, <1>5, <1>6, FallsRight DEF IInv, TypeOK

LEMMA CopyCapsKeeps ==
    ASSUME IInv, NEW c \in Callers, CopyCaps(c)
    PROVE  Kept
<1> DEFINE q == call[c].query
           m == IF q.kind = "text" THEN (IF flags.fts THEN TextMethod ELSE "like")
                ELSE (IF flags.topK THEN "topK" ELSE "exact")
           r == Searching("try", q, flags, m)
<1>1. /\ call[c].pc = "caps" /\ Becomes(c, r)
      /\ UNCHANGED <<config, engine, opened, flags, prepared>>
  BY DEF CopyCaps, At
<1>2. /\ m \in Method /\ flags \in CapFlags /\ prepared \subseteq Method
      /\ q \in Queries \cup {NoQuery} /\ q.kind \in {"text", "vector"}
  BY Typed, QueryTyped DEF IInv, TypeOK, TextMethod, Method
<1>3. /\ r \in CallType /\ r.pc = "try" /\ r.query = q /\ r.caps = flags /\ r.method = m
     
  BY <1>2 DEF Searching, CallType
<1>4. OnTheWay(r)
  <2> HIDE DEF r
  <2>1. CASE q.kind = "text"
    BY <1>3, <2>1 DEF OnTheWay, Best, TextMethod
  <2>2. CASE q.kind = "vector"
    BY <1>3, <2>2 DEF OnTheWay, Best, TextMethod
  <2>3. QED
    BY <1>2, <2>1, <2>2
<1> HIDE DEF r, m
<1>5. Right(r) /\ r.pc \notin ProbePC /\ ~Probing(c) /\ opened
  BY <1>1, <1>3, <1>4, Working DEF Right, ProbePC, Probing
<1>6. QED
  BY <1>1, <1>2, <1>3, <1>5, MoveKeeps

LEMMA ReadKeeps ==
    ASSUME IInv, NEW c \in Callers, ReadRows(c) \/ ReadRelations(c) \/ Fault(c)
    PROVE  Kept
<1>1. CASE ReadRows(c)
  <2> DEFINE r == [Idle EXCEPT !.pc = "relations"]
  <2>1. /\ r \in CallType /\ Right(r) /\ r.pc \notin ProbePC /\ ~r.caps.fts
    BY DEF CallType, Idle, Searching, CapFlags, NoFlags, Method, Right, ProbePC
  <2>2. Becomes(c, r) /\ ~Probing(c) /\ opened /\ prepared' \subseteq Method
    BY <1>1, Working DEF ReadRows, At, Probing, ProbePC, IInv, TypeOK
  <2> HIDE DEF r
  <2>3. QED
    BY <1>1, <2>1, <2>2, MoveKeeps DEF ReadRows
<1>2. CASE ReadRelations(c)
  BY <1>2, AnswerKeeps DEF ReadRelations, At, Probing, ProbePC, IInv, TypeOK
<1>3. CASE Fault(c)
  <2>1. prepared' \subseteq Method
    BY <1>3, TryFacts, CachingTyped DEF Fault, IInv, TypeOK
  <2>2. QED
    BY <1>3, <2>1, AnswerKeeps DEF Fault, At, Probing, ProbePC
<1>4. QED
  BY <1>1, <1>2, <1>3

-----------------------------------------------------------------------------
(* the probe *)

\* While a call probes, the flags are down and no other has seen an index.
LEMMA ProbeFacts ==
    ASSUME IInv, NEW c \in Callers, call[c].pc \in ProbePC
    PROVE  /\ Probing(c) /\ opened /\ ~flags.checked /\ ~flags.fts /\ ~flags.topK
           /\ \A d \in Callers \ {c} : ~Probing(d) /\ ~call[d].caps.fts
           /\ flags \in CapFlags /\ call[c] \in CallType /\ call[c].caps \in CapFlags
           /\ call[c].query \in Queries \cup {NoQuery}
BY Typed, Working DEF IInv, OneProbe, Probing, ProbePC, TypeOK

\* A step of the probe itself.
LEMMA ProbeKeeps ==
    ASSUME IInv, NEW c \in Callers, call[c].pc \in ProbePC,
           NEW r \in CallType, r.pc \in ProbePC,
           Becomes(c, r),
           engine' \subseteq Feature,
           \A f \in Feature \ {"table"} : f \in engine' <=> f \in engine,
           UNCHANGED <<config, opened, flags, prepared>>
    PROVE  Kept
<1>1. r.pc \notin {"try", "rows"}
  BY DEF ProbePC
<1>2. /\ AllRight' /\ call' \in [Callers -> CallType] /\ call'[c] = r
      /\ \A d \in Callers \ {c} : call'[d] = call[d]
  BY <1>1, ProbeFacts, ProbeRight
<1>3. TypeOK'
  BY <1>2, TypedAgain DEF IInv, TypeOK
<1>4. OneProbe'
  BY <1>1, <1>2, ProbeFacts DEF IInv, OneProbe, Probing
<1>5. QED
  BY <1>2, <1>3, <1>4 DEF Kept

\* Its last step, which makes the flags known.
LEMMA PublishedKeeps ==
    ASSUME IInv, NEW c \in Callers, call[c].pc \in ProbePC,
           Goto(c, "caps"), flags' \in CapFlags, flags'.checked,
           UNCHANGED <<config, engine, opened, prepared>>
    PROVE  Kept
<1> DEFINE r == [call[c] EXCEPT !.pc = "caps"]
<1>1. r \in CallType /\ r.pc = "caps" /\ "like" \in Method
  BY Stepped DEF Method
<1>2. Becomes(c, r)
  BY DEF Goto
<1> HIDE DEF r
<1>3. Right(r)
  BY <1>1 DEF Right, IInv, AllRight
<1>4. /\ AllRight' /\ call' \in [Callers -> CallType] /\ call'[c] = r
      /\ \A d \in Callers \ {c} : call'[d] = call[d]
  BY <1>1, <1>2, <1>3, BecomesRight
<1>5. TypeOK'
  BY <1>4, TypedAgain DEF IInv, TypeOK
<1>6. OneProbe'
  BY <1>1, <1>4, ProbeFacts DEF IInv, OneProbe, Probing, ProbePC
<1>7. QED
  BY <1>4, <1>5, <1>6 DEF Kept

LEMMA ProbesKeep ==
    ASSUME IInv, NEW c \in Callers,
           \/ SkipProbe(c) \/ ProbeTopK(c) \/ ProbeFTS(c) \/ CreateIndex(c) \/ Publish(c)
    PROVE  Kept
<1>1. CASE SkipProbe(c)
  <2>1. call[c].pc \in ProbePC
    BY <1>1 DEF SkipProbe, At, ProbePC
  <2>2. flags' \in CapFlags /\ flags'.checked
    BY <1>1, <2>1, ProbeFacts DEF SkipProbe, CapFlags
  <2>3. QED
    BY <1>1, <2>1, <2>2, PublishedKeeps DEF SkipProbe
<1>2. CASE ProbeTopK(c)
  <2>1. call[c].pc \in ProbePC /\ "probeFTS" \in ProbePC
    BY <1>2 DEF ProbeTopK, At, ProbePC
  <2>2. PICK seen \in BOOLEAN :
          Becomes(c, Searching("probeFTS", call[c].query, [NoFlags EXCEPT !.topK = seen], "like"))
    BY <1>2 DEF ProbeTopK, Seen
  <2> DEFINE r == Searching("probeFTS", call[c].query, [NoFlags EXCEPT !.topK = seen], "like")
  <2>3. r \in CallType /\ r.pc = "probeFTS" /\ Becomes(c, r)
    BY <2>1, <2>2, ProbeFacts DEF NoFlags, CapFlags, Searching, CallType, Method
  <2> HIDE DEF r
  <2>4. QED
    BY <1>2, <2>1, <2>3, ProbeKeeps DEF ProbeTopK, IInv, TypeOK
<1>3. CASE ProbeFTS(c)
  <2>1. PICK seen \in BOOLEAN :
          /\ call[c].pc = "probeFTS" /\ Goto(c, IF seen THEN "create" ELSE "publish")
          /\ engine' = IF seen THEN engine \ {"table"} ELSE engine
          /\ UNCHANGED <<config, opened, flags, prepared>>
    BY <1>3 DEF ProbeFTS, Seen, At
  <2> DEFINE p == IF seen THEN "create" ELSE "publish"
             r == [call[c] EXCEPT !.pc = p]
  <2>2. p \in {"create", "publish"} /\ "like" \in Method
    BY DEF Method
  <2>3. Becomes(c, r)
    BY <2>1 DEF Goto
  <2> HIDE DEF p
  <2>4. r \in CallType /\ r.pc = p
    <3>1. call[c] \in CallType
      BY Typed DEF IInv
    <3>2. QED
      BY <2>2, <3>1 DEF CallType
  <2> HIDE DEF r
  <2>5. r.pc \in ProbePC /\ call[c].pc \in ProbePC
    BY <2>1, <2>2, <2>4 DEF ProbePC
  <2>6. /\ engine' \subseteq Feature
        /\ \A f \in Feature \ {"table"} : f \in engine' <=> f \in engine
    BY <2>1 DEF IInv, TypeOK
  <2>7. QED
    BY <2>1, <2>3, <2>4, <2>5, <2>6, ProbeKeeps
<1>4. CASE CreateIndex(c)
  <2> DEFINE caps == [call[c].caps EXCEPT !.fts = "table" \in engine']
             r == Searching("publish", call[c].query, caps, "like")
  <2>1. call[c].pc \in ProbePC
    BY <1>4 DEF CreateIndex, At, ProbePC
  <2>2. Becomes(c, r) /\ UNCHANGED <<config, opened, flags, prepared>>
    BY <1>4 DEF CreateIndex
  <2>3. caps \in CapFlags
    <3> DEFINE built == "table" \in engine'
    <3>1. built \in BOOLEAN /\ call[c].caps \in CapFlags
      BY <2>1, ProbeFacts
    <3> HIDE DEF built
    <3>2. [call[c].caps EXCEPT !.fts = built] \in CapFlags
      BY <3>1 DEF CapFlags
    <3>3. QED
      BY <3>2 DEF built
  <2> HIDE DEF caps
  <2>4. r \in CallType /\ r.pc \in ProbePC
    BY <2>1, <2>3, ProbeFacts DEF Searching, CallType, Method, ProbePC
  <2> HIDE DEF r
  <2>5. /\ engine' \subseteq Feature
        /\ \A f \in Feature \ {"table"} : f \in engine' <=> f \in engine
    BY <1>4 DEF CreateIndex, IInv, TypeOK, Feature
  <2>6. QED
    BY <2>1, <2>2, <2>4, <2>5, ProbeKeeps
<1>5. CASE Publish(c)
  <2>1. call[c].pc \in ProbePC
    BY <1>5 DEF Publish, At, ProbePC
  <2>2. flags' \in CapFlags /\ flags'.checked
    BY <1>5, <2>1, ProbeFacts DEF Publish, CapFlags
  <2>3. QED
    BY <1>5, <2>1, <2>2, PublishedKeeps DEF Publish
<1>6. QED
  BY <1>1, <1>2, <1>3, <1>4, <1>5

-----------------------------------------------------------------------------
(* the environment, and all together *)

LEMMA DatabaseKeeps ==
    ASSUME IInv, DatabaseChanges
    PROVE  Kept
<1>1. /\ call' = [c \in Callers |-> [call[c] EXCEPT !.steady = call[c].pc \notin {"try", "rows"}]]
      /\ UNCHANGED <<config, opened, flags, prepared>>
  BY DEF DatabaseChanges
<1>2. engine' \subseteq Feature
  BY DEF DatabaseChanges, IInv, TypeOK, Feature
<1>3. ASSUME NEW c \in Callers
      PROVE  /\ call'[c] \in CallType
             /\ call'[c].pc = call[c].pc /\ call'[c].query = call[c].query
             /\ call'[c].caps = call[c].caps /\ call'[c].method = call[c].method
             /\ call'[c].pc \in {"try", "rows"} => ~call'[c].steady
  BY <1>1, Typed DEF IInv, CallType
<1>4. call' \in [Callers -> CallType]
  BY <1>1, <1>3
<1>5. TypeOK'
  BY <1>1, <1>2, <1>4, TypedAgain DEF IInv, TypeOK
<1>6. OneProbe'
  BY <1>1, <1>3 DEF IInv, OneProbe, Probing, At
<1>7. ASSUME NEW c \in Callers PROVE Right(call[c])'
  BY <1>1, <1>3 DEF IInv, AllRight, Right, OnTheWay
<1>8. QED
  BY <1>5, <1>6, <1>7 DEF Kept, AllRight

LEMMA Start == Init => IInv
<1> SUFFICES ASSUME Init PROVE IInv
  OBVIOUS
<1>1. TypeOK
  BY SearchAssumption, IdleTyped DEF Init, TypeOK, CallType, Idle, Searching
<1>2. \A c \in Callers : call[c].pc = "idle" /\ ~call[c].caps.fts
  BY DEF Init, Idle, Searching, NoFlags
<1>3. OneProbe
  BY <1>2 DEF Init, OneProbe, Probing, ProbePC, At, NoFlags
<1>4. AllRight
  BY <1>2 DEF AllRight, Right
<1>5. QED
  BY <1>1, <1>3, <1>4 DEF IInv

LEMMA Step == IInv /\ [Next]_vars => IInv'
<1> SUFFICES ASSUME IInv, [Next]_vars PROVE IInv'
  OBVIOUS
<1>1. CASE DatabaseChanges
  BY <1>1, DatabaseKeeps DEF Kept, IInv
<1>2. CASE UNCHANGED vars
  BY <1>2 DEF vars, IInv, TypeOK, OneProbe, Probing, At, AllRight, Right, OnTheWay, Best
<1>3. ASSUME NEW c \in Callers, Begin(c) \/ Work(c) \/ Fault(c) PROVE IInv'
  <2>1. Kept
    BY <1>3, BeginKeeps, RefuseKeeps, ProbesKeep, CopyCapsKeeps, FoundKeeps, NoBm25Keeps,
       NoModuleKeeps, ThisOnceKeeps, NoTopKKeeps, NotForgivenKeeps, ReadKeeps DEF Work
  <2>2. QED
    BY <2>1 DEF Kept, IInv
<1>4. QED
  BY <1>1, <1>2, <1>3 DEF Next

LEMMA Invariance == Spec => []IInv
BY Start, Step, PTL DEF Spec

-----------------------------------------------------------------------------
(* theorems *)

\* Whatever is asked of whatever databases: callers, flags and features keep their types.
THEOREM SearchTypeCorrect == Spec => []TypeOK
BY Invariance, PTL DEF IInv

\* A search of a database that stays as it is takes the best method the database has and
\* the flags allow (search.go:196, 311-370), for any number of callers.
THEOREM ChainEndsAtBest == Spec => []AnswersByBestMethod
<1>1. IInv => AnswersByBestMethod
  BY DEF IInv, AllRight, Right, AnswersByBestMethod, At
<1>2. QED
  BY <1>1, Invariance, PTL

\* What the probe has published only falls, although every search may write it back
\* (search.go:212, 333, 355; capabilities.go:59).
THEOREM FlagsFall == Spec => FlagsOnlyFall
<1> DEFINE Falls ==
      /\ flags.checked => flags'.checked /\ (flags'.fts => flags.fts) /\ (flags'.topK => flags.topK)
      /\ ~flags.checked /\ (flags'.fts \/ flags'.topK) => flags'.checked
<1>1. ASSUME IInv, [Next]_vars PROVE Falls
  <2>1. flags \in CapFlags /\ (~flags.checked => ~flags.fts /\ ~flags.topK)
    BY <1>1 DEF IInv, TypeOK, OneProbe
  <2>2. CASE flags' = flags
    BY <2>1, <2>2
  <2>3. ASSUME NEW c \in Callers, NoModule(c) \/ NoTopK(c) PROVE Falls
    BY <2>1, <2>3 DEF NoModule, NoTopK, CapFlags
  <2>4. ASSUME NEW c \in Callers, SkipProbe(c) \/ Publish(c) PROVE Falls
    <3>1. call[c].pc \in ProbePC
      BY <2>4 DEF SkipProbe, Publish, At, ProbePC
    <3>2. ~flags.checked /\ call[c].caps \in CapFlags
      BY <1>1, <3>1, ProbeFacts
    <3>3. flags'.checked
      BY <2>4, <3>2 DEF SkipProbe, Publish, CapFlags
    <3>4. QED
      BY <3>2, <3>3
  <2>5. QED
    BY <1>1, <2>2, <2>3, <2>4 DEF Next, Work, vars, DatabaseChanges, Begin, Fault, Refuse,
       ProbeTopK, ProbeFTS, CreateIndex, CopyCaps, Found, NoBm25, ThisOnce, NotForgiven,
       ReadRows, ReadRelations
<1>2. QED
  BY <1>1, Invariance, PTL DEF Spec, FlagsOnlyFall

=============================================================================
