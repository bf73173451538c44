---------------------------- MODULE EmbeddingDims ----------------------------
(***************************************************************************)
(* The size of embeddings.  Every database fixes it when its schema is     *)
(* created (F32_BLOB(N)); DBManager has ONE configured size and ONE        *)
(* provider for all projects, which getDB changes to fit the database it   *)
(* has just opened (src/internal/database/conn.go:148-157), after it has   *)
(* published the handle and released its lock.  Reading the database's     *)
(* size may fail: then nothing is adopted, and nothing is said.            *)
(*                                                                         *)
(* A vector is its length and the number of leading components that still  *)
(* are the model's: adapting one pads it with zeros or cuts it.  The       *)
(* process may be restarted with other environment variables at any time;  *)
(* the databases stay.                                                     *)
(***************************************************************************)
EXTENDS Integers

CONSTANTS Projects,     \* projects; one of them in single-project mode
          MultiProject, \* config.MultiProjectMode
          Sizes,        \* sizes of databases, models and client vectors
          DefaultDims,  \* the size when EMBEDDING_DIMS is unset (4 in the code)
          Environments, \* [dims, native]: EMBEDDING_DIMS, size of the model
          Callers

None == 0               \* no database, variable unset, no provider, no vector

ASSUME DimsAssumption ==
    /\ Sizes \subseteq Nat \ {None} /\ DefaultDims \in Sizes
    /\ Environments \subseteq [dims : Sizes \cup {None}, native : Sizes \cup {None}]
    /\ MultiProject \in BOOLEAN
    /\ ~MultiProject => \E p \in Projects : Projects = {p}

VARIABLES disk,       \* N of each project's database
          stored,     \* the vectors of its entities
          env,        \* environment of this process
          config,     \* dm.config.EmbeddingDims
          provider,   \* dm.provider: sizes of its vectors, and what is kept
          published,  \* dm.dbs
          adopting,   \* how far getDB's reconciliation is, per project
          undetected, \* history: the projects whose size this process failed to read
          calls       \* create_entities in progress or just answered

vars == <<disk, stored, env, config, provider, published, adopting, undetected, calls>>

OrNone == Sizes \cup {None}

\* A vector and, when a model made it, the model's size and EMBEDDING_DIMS then.
Vector == [len : OrNone, kept : Nat, native : OrNone, asked : OrNone]
Plain(n, k) == [len |-> n, kept |-> k, native |-> None, asked |-> None]
NoVector == Plain(None, 0)

Provider == [dims : OrNone, kept : Nat]
NoProvider == [dims |-> None, kept |-> None]

Idle == [pc |-> "idle"]
Calls == {Idle} \cup [pc : {"convert", "ok", "refused"}, project : Projects,
                      client : OrNone, vec : Vector]

TypeOK ==
    /\ disk \in [Projects -> OrNone]
    /\ stored \in [Projects -> SUBSET Vector]
    /\ env \in Environments /\ config \in Sizes /\ provider \in Provider
    /\ published \subseteq {p \in Projects : disk[p] # None}
    /\ adopting \in [Projects -> {"no", "config", "provider"}]
    /\ undetected \subseteq published
    /\ calls \in [Callers -> Calls]

Smaller(m, n) == IF m < n THEN m ELSE n

\* Mutant: what padding adds is taken for the model's.
WrapToDimsFull(base, target) ==
    IF base = NoProvider \/ target = None \/ base.dims = target THEN base
    ELSE [dims |-> target, kept |-> target]

\* adaptVector behind WrapToDims.  A provider that was wrapped before is
\* wrapped again, so what the inner wrapper cut stays lost.
WrapToDims(base, target) ==
    IF base = NoProvider \/ target = None \/ base.dims = target THEN base
    ELSE [dims |-> target, kept |-> Smaller(base.kept, target)]

\* Mutant: only providers whose vectors are too long are wrapped.
NewFromEnvTruncating(e) ==
    IF e.native = None THEN NoProvider
    ELSE IF e.native < e.dims THEN [dims |-> e.native, kept |-> e.native]
    ELSE WrapToDims([dims |-> e.native, kept |-> e.native], e.dims)

NewFromEnv(e) ==
    IF e.native = None THEN NoProvider
    ELSE WrapToDims([dims |-> e.native, kept |-> e.native], e.dims)

NewConfig(e) == IF e.dims = None THEN DefaultDims ELSE e.dims

Start(e) ==
    /\ env' = e
    /\ config' = NewConfig(e)
    /\ provider' = NewFromEnv(e)
    /\ published' = {}
    /\ adopting' = [p \in Projects |-> "no"]
    /\ undetected' = {}
    /\ calls' = [c \in Callers |-> Idle]

Restart == \E e \in Environments : Start(e) /\ UNCHANGED <<disk, stored>>

\* Mutant: the handle is published before the schema is there.
OpenWithoutSchema(p) ==
    /\ p \notin published
    /\ published' = published \cup {p}
    /\ adopting' = [adopting EXCEPT ![p] = "config"]
    /\ UNCHANGED <<disk, stored, env, config, provider, undetected, calls>>

\* The locked part of getDB: CREATE TABLE IF NOT EXISTS with the configured
\* size, then the handle is published.
Open(p) ==
    /\ p \notin published
    /\ disk' = [disk EXCEPT ![p] = IF @ = None THEN config ELSE @]
    /\ published' = published \cup {p}
    /\ adopting' = [adopting EXCEPT ![p] = "config"]
    /\ UNCHANGED <<stored, env, config, provider, undetected, calls>>

\* Mutant: the size of an existing database is not looked at.
AdoptConfigNever(p) ==
    /\ adopting[p] = "config"
    /\ adopting' = [adopting EXCEPT ![p] = "no"]
    /\ UNCHANGED <<disk, stored, env, config, provider, published, undetected, calls>>

\* detectDBEmbeddingDims, and adopting what it finds: first the size ...
AdoptConfig(p) ==
    /\ adopting[p] = "config"
    /\ config' = disk[p]
    /\ adopting' = [adopting EXCEPT ![p] = IF config = disk[p] THEN "no" ELSE "provider"]
    /\ UNCHANGED <<disk, stored, env, provider, published, undetected, calls>>

\* Neither query of detectDBEmbeddingDims has its error looked at: when the first fails
\* and the second fails or finds no vector, the size is 0 and nothing is adopted.
DetectNothing(p) ==
    /\ adopting[p] = "config"
    /\ adopting' = [adopting EXCEPT ![p] = "no"]
    /\ undetected' = undetected \cup {p}
    /\ UNCHANGED <<disk, stored, env, config, provider, published, calls>>

\* ... then the provider.  No lock is held.
AdoptProvider(p) ==
    /\ adopting[p] = "provider"
    /\ provider' = WrapToDims(provider, disk[p])
    /\ adopting' = [adopting EXCEPT ![p] = "no"]
    /\ UNCHANGED <<disk, stored, env, config, published, undetected, calls>>

\* NewDBManager opens the only project of single-project mode before it
\* returns; in multi-project mode another call may be opening a project now.
Usable(p) == p \in published /\ (~MultiProject => adopting[p] = "no")

Answer(c, result) == calls' = [calls EXCEPT ![c] = [calls[c] EXCEPT !.pc = result]]

\* CreateEntities up to the provider's answer.  The precondition on the sizes
\* is there whether or not the provider is needed.
BeginCreate(c, p, client) ==
    /\ calls[c].pc \in {"idle", "ok", "refused"}
    /\ Usable(p)
    /\ LET made == [len |-> provider.dims, kept |-> provider.kept,
                    native |-> env.native, asked |-> env.dims]
           refuses == provider # NoProvider /\ provider.dims # config
       IN calls' = [calls EXCEPT ![c] =
                      [pc |-> IF refuses THEN "refused" ELSE "convert",
                       project |-> p, client |-> client,
                       vec |-> IF client # None THEN Plain(client, client)
                               ELSE IF provider = NoProvider THEN NoVector ELSE made]]
    /\ UNCHANGED <<disk, stored, env, config, provider, published, adopting, undetected>>

\* vectorToString: the configured size is read again; no vector is zeros.
Converts(v) == v = NoVector \/ v.len = config
OrZeros(v) == IF v = NoVector THEN Plain(config, 0) ELSE v

\* vectorToString and the INSERT, which the database's vector index refuses
\* when the vector has not its size.
Insert(c) ==
    /\ calls[c].pc = "convert"
    /\ LET p == calls[c].project
           v == OrZeros(calls[c].vec)
       IN IF Converts(calls[c].vec) /\ v.len = disk[p]
          THEN stored' = [stored EXCEPT ![p] = @ \cup {v}] /\ Answer(c, "ok")
          ELSE Answer(c, "refused") /\ UNCHANGED stored
    /\ UNCHANGED <<disk, env, config, provider, published, adopting, undetected>>

Init ==
    /\ disk = [p \in Projects |-> None]
    /\ stored = [p \in Projects |-> {}]
    /\ \E e \in Environments :
          /\ env = e /\ config = NewConfig(e) /\ provider = NewFromEnv(e)
    /\ published = {}
    /\ adopting = [p \in Projects |-> "no"]
    /\ undetected = {}
    /\ calls = [c \in Callers |-> Idle]

Next ==
    \/ Restart
    \/ \E p \in Projects :
          Open(p) \/ AdoptConfig(p) \/ DetectNothing(p) \/ AdoptProvider(p)
    \/ \E c \in Callers, p \in Projects, n \in Sizes \cup {None} : BeginCreate(c, p, n)
    \/ \E c \in Callers : Insert(c)

Spec == Init /\ [][Next]_vars

-----------------------------------------------------------------------------

\* The environment asks for another size than that of p's database, which this process
\* could not read.
Mismatched(p) == p \in undetected /\ NewConfig(env) # disk[p]

\* README:535: "Provider outputs are automatically adapted to the DB's fixed
\* embedding size", clients' vectors "must still be exactly the DB size".  So
\* a create is refused for its vector only if the client gave another size, or
\* the environment did and the database's could not be read.
RefusedOnlyForSize ==
    \A c \in Callers : calls[c].pc = "refused" =>
        \/ calls[c].client \notin {None, disk[calls[c].project]}
        \/ Mismatched(calls[c].project)

\* README:497: "Existing DBs are auto-detected and take precedence at
\* runtime."  Once a project is in use and no getDB is half-way, ExtractVector
\* accepts the vectors it stores: the size it expects is the database's, unless
\* that could not be read and the environment has another.
ReadsFit ==
    (\A q \in Projects : adopting[q] = "no") =>
        \A p \in published : ~Mismatched(p) => \A v \in stored[p] : v.len = config

\* Adapting twice loses what the first adaptation cut: a stored vector has the
\* model's components up to the smaller of its database's size and the
\* EMBEDDING_DIMS its process was started with.
KeepsWhatFits ==
    \A p \in Projects : \A v \in stored[p] :
        v.native # None => v.kept = Smaller(v.native, Smaller(v.asked, v.len))
=============================================================================
