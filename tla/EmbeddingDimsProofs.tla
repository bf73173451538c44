------------------------- MODULE EmbeddingDimsProofs -------------------------
(***************************************************************************)
(* Theorems about EmbeddingDims: the types in any mode, and, for a process *)
(* with one project, that stored vectors stay readable and creates are     *)
(* refused for a client's wrong size only, unless the database's size      *)
(* could not be read, and what is kept of a vector.                        *)
(***************************************************************************)
EXTENDS EmbeddingDims, TLAPS

-----------------------------------------------------------------------------
(* Types.                                                                  *)

AdoptingIsPublished ==
    \A p \in Projects : adopting[p] # "no" => p \in published /\ p \notin undetected

TypeInv == TypeOK /\ AdoptingIsPublished

LEMMA Constants ==
    /\ Sizes \subseteq Nat /\ None \notin Sizes /\ None \in Nat
    /\ DefaultDims \in Sizes
    /\ \A e \in Environments : e.dims \in OrNone /\ e.native \in OrNone
    /\ OrNone \subseteq Nat
<1>1. Sizes \subseteq Nat /\ None \notin Sizes /\ None \in Nat /\ DefaultDims \in Sizes
    BY DimsAssumption DEF None
<1>2. Environments \subseteq [dims : OrNone, native : OrNone]
    BY DimsAssumption DEF OrNone
<1>3. OrNone \subseteq Nat
    BY <1>1 DEF OrNone
<1> QED  BY <1>1, <1>2, <1>3

LEMMA SmallerType == \A m, n \in Nat : Smaller(m, n) \in Nat
BY DEF Smaller

LEMMA WrapType ==
    ASSUME NEW base \in Provider, NEW target \in OrNone
    PROVE  WrapToDims(base, target) \in Provider
BY Constants, SmallerType DEF WrapToDims, Provider

LEMMA StartType ==
    \A e \in Environments : NewConfig(e) \in Sizes /\ NewFromEnv(e) \in Provider
<1> SUFFICES ASSUME NEW e \in Environments
             PROVE  NewConfig(e) \in Sizes /\ NewFromEnv(e) \in Provider
    OBVIOUS
<1>1. NewConfig(e) \in Sizes
    BY Constants DEF NewConfig, OrNone
<1>2. [dims |-> e.native, kept |-> e.native] \in Provider /\ NoProvider \in Provider
    BY Constants DEF Provider, NoProvider, OrNone
<1>3. NewFromEnv(e) \in Provider
    BY <1>2, WrapType, Constants DEF NewFromEnv
<1> QED  BY <1>1, <1>3

\* The steps of getDB.
OpenStep(p) == Open(p) \/ AdoptConfig(p) \/ DetectNothing(p) \/ AdoptProvider(p)

LEMMA InitTypes == Init => TypeInv
BY Constants, StartType DEF Init, TypeInv, TypeOK, AdoptingIsPublished, OrNone, Calls

LEMMA RestartTypes == TypeInv /\ Restart => TypeInv'
BY StartType DEF Restart, Start, TypeInv, TypeOK, AdoptingIsPublished, Calls

LEMMA OpenTypes ==
    ASSUME TypeInv, NEW p \in Projects, OpenStep(p)
    PROVE  TypeInv'
<1>1. CASE Open(p)
    BY <1>1, Constants DEF Open, TypeInv, TypeOK, AdoptingIsPublished, OrNone
<1>2. CASE AdoptConfig(p)
    BY <1>2, Constants DEF AdoptConfig, TypeInv, TypeOK, AdoptingIsPublished, OrNone
<1>3. CASE AdoptProvider(p)
    <2>1. WrapToDims(provider, disk[p]) \in Provider
        BY WrapType DEF TypeInv, TypeOK
    <2> QED  BY <1>3, <2>1 DEF AdoptProvider, TypeInv, TypeOK, AdoptingIsPublished
<1>4. CASE DetectNothing(p)
    BY <1>4 DEF DetectNothing, TypeInv, TypeOK, AdoptingIsPublished
<1> QED  BY <1>1, <1>2, <1>3, <1>4 DEF OpenStep

\* The vector of a create: the client's, the model's, or none.
VectorFor(client) ==
    IF client # None THEN Plain(client, client)
    ELSE IF provider = NoProvider THEN NoVector
    ELSE [len |-> provider.dims, kept |-> provider.kept, native |-> env.native, asked |-> env.dims]

LEMMA VectorForType ==
    ASSUME TypeInv, NEW client \in Sizes \cup {None}
    PROVE  VectorFor(client) \in Vector
BY Constants DEF TypeInv, TypeOK, VectorFor, Plain, NoVector, Vector, OrNone, Provider

\* What BeginCreate writes.
LEMMA BeginCreateStep ==
    ASSUME NEW c \in Callers, NEW p \in Projects, NEW client \in Sizes \cup {None},
           BeginCreate(c, p, client)
    PROVE  \E pc \in {"refused", "convert"} :
              /\ pc = "refused" <=> provider # NoProvider /\ provider.dims # config
              /\ calls' = [calls EXCEPT ![c] = [pc |-> pc, project |-> p, client |-> client,
                                                vec |-> VectorFor(client)]]
<1> DEFINE pc == IF provider # NoProvider /\ provider.dims # config THEN "refused" ELSE "convert"
<1>1. calls' = [calls EXCEPT ![c] = [pc |-> pc, project |-> p, client |-> client,
                                     vec |-> VectorFor(client)]]
    BY DEF BeginCreate, VectorFor
<1>2. pc \in {"refused", "convert"}
    OBVIOUS
<1>3. pc = "refused" <=> provider # NoProvider /\ provider.dims # config
    OBVIOUS
<1> HIDE DEF pc
<1> QED  BY <1>1, <1>2, <1>3

LEMMA BeginCreateTypes ==
    ASSUME TypeInv, NEW c \in Callers, NEW p \in Projects, NEW client \in Sizes \cup {None},
           BeginCreate(c, p, client)
    PROVE  TypeInv'
<1>1. PICK pc \in {"refused", "convert"} :
         calls' = [calls EXCEPT ![c] = [pc |-> pc, project |-> p, client |-> client,
                                        vec |-> VectorFor(client)]]
    BY BeginCreateStep
<1>2. [pc |-> pc, project |-> p, client |-> client, vec |-> VectorFor(client)] \in Calls
    BY VectorForType DEF Calls, OrNone
<1>3. calls' \in [Callers -> Calls]
    BY <1>1, <1>2 DEF TypeInv, TypeOK
<1> QED  BY <1>3 DEF BeginCreate, TypeInv, TypeOK, AdoptingIsPublished

\* A call that has its vector is a full record.
LEMMA ConvertingCall ==
    ASSUME TypeOK, NEW c \in Callers, calls[c].pc = "convert"
    PROVE  calls[c] \in [pc : {"convert", "ok", "refused"}, project : Projects,
                         client : OrNone, vec : Vector]
BY DEF TypeOK, Calls, Idle

LEMMA OrZerosType ==
    ASSUME TypeOK, NEW v \in Vector
    PROVE  OrZeros(v) \in Vector
BY Constants DEF TypeOK, OrZeros, Plain, Vector, OrNone

\* What Insert writes.
LEMMA InsertStep ==
    ASSUME TypeOK, NEW c \in Callers, Insert(c)
    PROVE  /\ \E pc \in {"ok", "refused"} :
                 /\ calls' = [calls EXCEPT ![c] = [calls[c] EXCEPT !.pc = pc]]
                 /\ pc = "refused" <=> ~(/\ Converts(calls[c].vec)
                                         /\ OrZeros(calls[c].vec).len = disk[calls[c].project])
           /\ \/ UNCHANGED stored
              \/ /\ Converts(calls[c].vec)
                 /\ OrZeros(calls[c].vec).len = disk[calls[c].project]
                 /\ stored' = [stored EXCEPT ![calls[c].project] =
                                  stored[calls[c].project] \cup {OrZeros(calls[c].vec)}]
BY ConvertingCall DEF Insert, Answer, TypeOK

LEMMA InsertTypes ==
    ASSUME TypeInv, NEW c \in Callers, Insert(c)
    PROVE  TypeInv'
<1> USE DEF TypeInv
<1>1. calls[c].pc = "convert"
    BY DEF Insert
<1>2. calls[c].project \in Projects /\ calls[c].vec \in Vector
    BY <1>1, ConvertingCall
<1>3. calls' \in [Callers -> Calls]
    <2>1. PICK pc \in {"ok", "refused"} : calls' = [calls EXCEPT ![c] = [calls[c] EXCEPT !.pc = pc]]
        BY InsertStep
    <2>2. [calls[c] EXCEPT !.pc = pc] \in Calls
        BY <1>1, ConvertingCall DEF Calls
    <2> QED  BY <2>1, <2>2 DEF TypeOK
<1>4. OrZeros(calls[c].vec) \in Vector
    BY <1>2, OrZerosType
<1>5. stored' \in [Projects -> SUBSET Vector]
    BY <1>2, <1>4, InsertStep DEF TypeOK
<1> QED  BY <1>3, <1>5 DEF Insert, TypeOK, AdoptingIsPublished

LEMMA NextTypes == TypeInv /\ [Next]_vars => TypeInv'
<1> SUFFICES ASSUME TypeInv, [Next]_vars PROVE TypeInv'
    OBVIOUS
<1>1. CASE Restart
    BY <1>1, RestartTypes
<1>2. CASE \E p \in Projects : OpenStep(p)
    BY <1>2, OpenTypes
<1>3. CASE \E c \in Callers, p \in Projects, n \in Sizes \cup {None} : BeginCreate(c, p, n)
    BY <1>3, BeginCreateTypes
<1>4. CASE \E c \in Callers : Insert(c)
    BY <1>4, InsertTypes
<1>5. CASE UNCHANGED vars
    BY <1>5 DEF vars, TypeInv, TypeOK, AdoptingIsPublished
<1> QED  BY <1>1, <1>2, <1>3, <1>4, <1>5 DEF Next, OpenStep

LEMMA TypesHold == Spec => []TypeInv
BY InitTypes, NextTypes, PTL DEF Spec

\* The sizes, the provider and the calls keep their types in either mode, for any
\* projects and environments; a project half-way through getDB's reconciliation is published.
THEOREM DimsTypeCorrect == Spec => []TypeOK
BY TypesHold, PTL DEF TypeInv

-----------------------------------------------------------------------------
(* One project: stored vectors fit the size they are read with.            *)

\* While nothing was adopted the size and the provider are those of the environment.
AsStarted ==
    \A p \in Projects :
        /\ p \notin published \/ adopting[p] = "config" \/ p \in undetected =>
              config = NewConfig(env)
        /\ p \notin published \/ adopting[p] # "no" \/ p \in undetected =>
              provider = NewFromEnv(env)

\* Afterwards the size is the database's, if it was read.
SizeAdopted ==
    \A p \in published : adopting[p] # "config" /\ p \notin undetected => config = disk[p]

StoredFits ==
    \A p \in Projects : \A v \in stored[p] : disk[p] # None /\ v.len = disk[p]

SizeInv == TypeInv /\ AsStarted /\ SizeAdopted /\ StoredFits

LEMMA InitSizes == Init => SizeInv
BY InitTypes DEF Init, SizeInv, AsStarted, SizeAdopted, StoredFits

LEMMA RestartSizes == SizeInv /\ Restart => SizeInv'
<1> SUFFICES ASSUME SizeInv, Restart PROVE SizeInv'
    OBVIOUS
<1>1. TypeInv'
    BY RestartTypes DEF SizeInv
<1>2. PICK e \in Environments : Start(e) /\ UNCHANGED <<disk, stored>>
    BY DEF Restart
<1>3. AsStarted' /\ SizeAdopted'
    BY <1>2 DEF Start, AsStarted, SizeAdopted
<1>4. StoredFits'
    BY <1>2 DEF StoredFits, SizeInv
<1> QED  BY <1>1, <1>3, <1>4 DEF SizeInv

LEMMA OpenSizes ==
    ASSUME ~MultiProject, SizeInv, NEW p \in Projects,
           OpenStep(p)
    PROVE  SizeInv'
<1> USE DEF SizeInv, TypeInv
<1>0. Projects = {p}
    BY DimsAssumption
<1>1. TypeInv'
    BY OpenTypes
<1>2. CASE Open(p)
    <2>1. AsStarted' /\ SizeAdopted'
        BY <1>0, <1>2 DEF Open, TypeOK, AsStarted, SizeAdopted
    <2>2. StoredFits'
        BY <1>2 DEF Open, TypeOK, StoredFits
    <2> QED  BY <1>1, <2>1, <2>2
<1>3. CASE AdoptConfig(p)
    <2>1. p \in published
        BY <1>3 DEF AdoptConfig, AdoptingIsPublished
    <2>2. AsStarted' /\ SizeAdopted'
        BY <1>0, <1>3, <2>1 DEF AdoptConfig, TypeOK, AsStarted, SizeAdopted, AdoptingIsPublished
    <2>3. StoredFits'
        BY <1>3 DEF AdoptConfig, StoredFits
    <2> QED  BY <1>1, <2>2, <2>3
<1>4. CASE AdoptProvider(p)
    <2>1. p \in published
        BY <1>4 DEF AdoptProvider, AdoptingIsPublished
    <2>2. AsStarted' /\ SizeAdopted'
        BY <1>0, <1>4, <2>1 DEF AdoptProvider, TypeOK, AsStarted, SizeAdopted, AdoptingIsPublished
    <2>3. StoredFits'
        BY <1>4 DEF AdoptProvider, StoredFits
    <2> QED  BY <1>1, <2>2, <2>3
<1>5. CASE DetectNothing(p)
    <2>1. p \in published
        BY <1>5 DEF DetectNothing, AdoptingIsPublished
    <2>2. AsStarted' /\ SizeAdopted'
        BY <1>0, <1>5, <2>1 DEF DetectNothing, TypeOK, AsStarted, SizeAdopted
    <2>3. StoredFits'
        BY <1>5 DEF DetectNothing, StoredFits
    <2> QED  BY <1>1, <2>2, <2>3
<1> QED  BY <1>2, <1>3, <1>4, <1>5 DEF OpenStep

LEMMA BeginCreateSizes ==
    ASSUME SizeInv, NEW c \in Callers, NEW p \in Projects, NEW client \in Sizes \cup {None},
           BeginCreate(c, p, client)
    PROVE  SizeInv'
BY BeginCreateTypes DEF SizeInv, BeginCreate, AsStarted, SizeAdopted, StoredFits

LEMMA InsertSizes ==
    ASSUME SizeInv, NEW c \in Callers, Insert(c),
           calls[c].pc = "convert" => calls[c].project \in published
    PROVE  SizeInv'
<1> DEFINE p == calls[c].project
           v == OrZeros(calls[c].vec)
<1> USE DEF SizeInv, TypeInv
<1>1. TypeInv'
    BY InsertTypes
<1>2. AsStarted' /\ SizeAdopted'
    BY DEF Insert, AsStarted, SizeAdopted
<1>3. p \in published /\ p \in Projects /\ disk[p] # None
    BY DEF Insert, TypeOK
<1>4. StoredFits'
    <2>1. disk' = disk
        BY DEF Insert
    <2>2. UNCHANGED stored \/ (v.len = disk[p] /\ stored' = [stored EXCEPT ![p] = stored[p] \cup {v}])
        BY InsertStep
    <2> HIDE DEF p, v
    <2> QED  BY <1>3, <2>1, <2>2 DEF StoredFits, TypeOK
<1> QED  BY <1>1, <1>2, <1>4

-----------------------------------------------------------------------------
(* One project and EMBEDDING_DIMS set: the provider fits too.              *)

DimsAreSet == \A e \in Environments : e.dims # None

ProviderFits ==
    \A p \in published : adopting[p] = "no" /\ ~Mismatched(p) =>
        provider = NoProvider \/ provider.dims = disk[p]

\* What two adaptations leave of the model's output.
ProviderKeeps ==
    provider # NoProvider =>
        /\ env.native # None /\ provider.dims # None
        /\ provider.kept = Smaller(env.native, Smaller(env.dims, provider.dims))

KeptAsKnown(v) ==
    v.native # None => v.kept = Smaller(v.native, Smaller(v.asked, v.len))

\* A call uses a project whose size was looked for, and has the client's vector, none, or
\* one of the database's size, if that was found or is the environment's.
CallFits(c) ==
    calls[c].pc # "idle" =>
        /\ calls[c].project \in published /\ adopting[calls[c].project] = "no"
        /\ calls[c].pc = "refused" => \/ calls[c].client \notin {None, disk[calls[c].project]}
                                      \/ Mismatched(calls[c].project)
        /\ calls[c].pc = "convert" =>
              /\ KeptAsKnown(calls[c].vec)
              /\ IF calls[c].client # None
                 THEN calls[c].vec = Plain(calls[c].client, calls[c].client)
                 ELSE \/ calls[c].vec = NoVector
                      \/ calls[c].vec.len = disk[calls[c].project]
                      \/ Mismatched(calls[c].project)

ProviderInv == ProviderFits /\ ProviderKeeps
CallsInv == (\A c \in Callers : CallFits(c)) /\ KeepsWhatFits
Inv == SizeInv /\ ProviderInv /\ CallsInv

LEMMA FreshProvider ==
    ASSUME NEW e \in Environments, e.dims # None
    PROVE  /\ NewConfig(e) = e.dims
           /\ NewFromEnv(e) # NoProvider =>
                 /\ e.native # None /\ NewFromEnv(e).dims = e.dims
                 /\ NewFromEnv(e).kept = Smaller(e.native, Smaller(e.dims, e.dims))
<1>1. e.dims \in Nat /\ e.native \in Nat
    BY Constants DEF OrNone
<1>2. NewConfig(e) = e.dims
    BY DEF NewConfig
<1>3. ASSUME NewFromEnv(e) # NoProvider
      PROVE  /\ e.native # None /\ NewFromEnv(e).dims = e.dims
             /\ NewFromEnv(e).kept = Smaller(e.native, Smaller(e.dims, e.dims))
    <2>1. e.native # None
        BY <1>3 DEF NewFromEnv
    <2>2. [dims |-> e.native, kept |-> e.native] # NoProvider
        BY <2>1 DEF NoProvider
    <2>3. NewFromEnv(e) = IF e.native = e.dims THEN [dims |-> e.native, kept |-> e.native]
                          ELSE [dims |-> e.dims, kept |-> Smaller(e.native, e.dims)]
        BY <2>1, <2>2 DEF NewFromEnv, WrapToDims
    <2> QED  BY <1>1, <2>1, <2>3 DEF Smaller
<1> QED  BY <1>2, <1>3

\* Adopting a size once more keeps what fits.
LEMMA AdoptedProvider ==
    ASSUME TypeOK, ProviderKeeps, NEW target \in Sizes
    PROVE  WrapToDims(provider, target) # NoProvider =>
              /\ env.native # None
              /\ WrapToDims(provider, target).dims = target
              /\ provider.dims = env.dims =>
                    WrapToDims(provider, target).kept =
                        Smaller(env.native, Smaller(env.dims, target))
<1>1. target \in Nat /\ target # None /\ env.native \in Nat /\ env.dims \in Nat
    BY Constants DEF TypeOK, OrNone
<1>2. CASE provider = NoProvider
    BY <1>2 DEF WrapToDims
<1>3. CASE provider # NoProvider /\ provider.dims = target
    BY <1>1, <1>3 DEF WrapToDims, ProviderKeeps
<1>4. CASE provider # NoProvider /\ provider.dims # target
    <2>1. WrapToDims(provider, target) =
             [dims |-> target, kept |-> Smaller(provider.kept, target)]
        BY <1>1, <1>4 DEF WrapToDims
    <2>2. provider.kept = Smaller(env.native, Smaller(env.dims, provider.dims))
        BY <1>4 DEF ProviderKeeps
    <2>3. provider.dims = env.dims =>
             Smaller(provider.kept, target) = Smaller(env.native, Smaller(env.dims, target))
        BY <1>1, <2>2 DEF Smaller
    <2> QED  BY <1>4, <2>1, <2>3 DEF ProviderKeeps
<1> QED  BY <1>2, <1>3, <1>4

LEMMA StartProvider ==
    ASSUME DimsAreSet, NEW e \in Environments
    PROVE  NewFromEnv(e) # NoProvider =>
              /\ e.native # None /\ NewFromEnv(e).dims # None
              /\ NewFromEnv(e).kept = Smaller(e.native, Smaller(e.dims, NewFromEnv(e).dims))
BY FreshProvider DEF DimsAreSet

LEMMA InitProvider == DimsAreSet /\ Init => ProviderInv
BY StartProvider DEF Init, ProviderInv, ProviderFits, ProviderKeeps

LEMMA RestartProvider == DimsAreSet /\ Restart => ProviderInv'
BY StartProvider DEF Restart, Start, ProviderInv, ProviderFits, ProviderKeeps

LEMMA OpenProvider ==
    ASSUME ~MultiProject, DimsAreSet, SizeInv, ProviderInv, NEW p \in Projects,
           OpenStep(p)
    PROVE  ProviderInv'
<1> USE DEF SizeInv, TypeInv
<1>0. Projects = {p}
    BY DimsAssumption
<1>1. env \in Environments /\ env.dims # None
    BY DEF TypeOK, DimsAreSet
<1>2. CASE Open(p)
    BY <1>0, <1>2 DEF Open, TypeOK, ProviderInv, ProviderFits, ProviderKeeps, Mismatched
<1>3. CASE AdoptConfig(p)
    <2>1. p \in published
        BY <1>3 DEF AdoptConfig, AdoptingIsPublished
    <2>2. provider = NewFromEnv(env) /\ config = NewConfig(env)
        BY <1>3 DEF AdoptConfig, AsStarted
    <2>3. provider # NoProvider => provider.dims = config
        BY <1>1, <2>2, FreshProvider
    <2>4. ProviderFits'
        BY <1>0, <1>3, <2>3 DEF AdoptConfig, TypeOK, ProviderFits, Mismatched
    <2>5. ProviderKeeps'
        BY <1>3 DEF AdoptConfig, ProviderInv, ProviderKeeps
    <2> QED  BY <2>4, <2>5 DEF ProviderInv
<1>4. CASE AdoptProvider(p)
    <2>1. p \in published
        BY <1>4 DEF AdoptProvider, AdoptingIsPublished
    <2>2. provider = NewFromEnv(env)
        BY <1>4 DEF AdoptProvider, AsStarted
    <2>3. disk[p] \in Sizes
        BY <2>1 DEF TypeOK, OrNone
    <2>4. provider # NoProvider => provider.dims = env.dims
        BY <1>1, <2>2, FreshProvider
    <2>5. provider' = WrapToDims(provider, disk[p]) /\ disk' = disk /\ env' = env
        BY <1>4 DEF AdoptProvider
    <2>6. provider' # NoProvider => provider # NoProvider
        BY <2>5 DEF WrapToDims
    <2>7. disk[p] # None
        BY <2>3, Constants
    <2>8. ProviderKeeps'
        BY <2>3, <2>4, <2>5, <2>6, <2>7, AdoptedProvider DEF ProviderInv, ProviderKeeps
    <2>9. ProviderFits'
        <3>1. provider' = NoProvider \/ provider'.dims = disk[p]
            BY <2>3, <2>5, AdoptedProvider DEF ProviderInv
        <3>2. published' \subseteq {p} /\ disk' = disk
            BY <1>0, <1>4 DEF AdoptProvider, TypeOK
        <3> QED  BY <3>1, <3>2 DEF ProviderFits
    <2> QED  BY <2>8, <2>9 DEF ProviderInv
<1>5. CASE DetectNothing(p)
    <2>1. provider = NewFromEnv(env)
        BY <1>5 DEF DetectNothing, AsStarted, AdoptingIsPublished
    <2>2. provider = NoProvider \/ provider.dims = NewConfig(env)
        BY <1>1, <2>1, FreshProvider
    <2>3. ProviderFits'
        BY <1>0, <1>5, <2>2 DEF DetectNothing, TypeOK, ProviderFits, Mismatched
    <2>4. ProviderKeeps'
        BY <1>5 DEF DetectNothing, ProviderInv, ProviderKeeps
    <2> QED  BY <2>3, <2>4 DEF ProviderInv
<1> QED  BY <1>2, <1>3, <1>4, <1>5 DEF OpenStep

-----------------------------------------------------------------------------
(* ... and so do the calls.                                                *)

LEMMA InitCalls == Init => CallsInv
BY DEF Init, CallsInv, CallFits, KeepsWhatFits, Idle

LEMMA RestartCalls == CallsInv /\ Restart => CallsInv'
BY DEF Restart, Start, CallsInv, CallFits, KeepsWhatFits, Idle

LEMMA OpenCalls ==
    ASSUME SizeInv, CallsInv, NEW p \in Projects,
           OpenStep(p)
    PROVE  CallsInv'
<1> USE DEF SizeInv, TypeInv
<1>1. UNCHANGED <<calls, stored>> /\ published \subseteq published'
    BY DEF OpenStep, Open, AdoptConfig, DetectNothing, AdoptProvider
<1>2. \A q \in published : adopting[q] = "no" =>
         /\ disk'[q] = disk[q] /\ adopting'[q] = "no"
         /\ q \in undetected' <=> q \in undetected
         /\ env' = env
    BY DEF OpenStep, Open, AdoptConfig, DetectNothing, AdoptProvider, TypeOK
<1>3. \A c \in Callers : CallFits(c)'
    <2> SUFFICES ASSUME NEW c \in Callers PROVE CallFits(c)'
        OBVIOUS
    <2>1. CallFits(c)
        BY DEF CallsInv
    <2> QED  BY <1>1, <1>2, <2>1 DEF CallFits, Mismatched
<1>4. KeepsWhatFits'
    BY <1>1 DEF CallsInv, KeepsWhatFits
<1> QED  BY <1>3, <1>4 DEF CallsInv

LEMMA BeginCreateCalls ==
    ASSUME ~MultiProject, DimsAreSet, Inv, NEW c \in Callers, NEW p \in Projects,
           NEW client \in Sizes \cup {None}, BeginCreate(c, p, client)
    PROVE  CallsInv'
<1> USE DEF Inv, SizeInv, TypeInv
<1>1. p \in published /\ adopting[p] = "no"
    BY DEF BeginCreate, Usable
<1>2. Mismatched(p) \/ (config = disk[p] /\ (provider = NoProvider \/ provider.dims = disk[p]))
    BY <1>1 DEF SizeAdopted, AsStarted, ProviderInv, ProviderFits, Mismatched, TypeOK
<1>3. PICK pc \in {"refused", "convert"} :
         /\ pc = "refused" <=> provider # NoProvider /\ provider.dims # config
         /\ calls' = [calls EXCEPT ![c] = [pc |-> pc, project |-> p, client |-> client,
                                           vec |-> VectorFor(client)]]
    BY BeginCreateStep
<1>4. pc = "convert" \/ Mismatched(p)
    BY <1>2, <1>3
<1>5. KeptAsKnown(VectorFor(client))
    BY DEF KeptAsKnown, VectorFor, Plain, NoVector, ProviderInv, ProviderKeeps
<1>6. IF client # None THEN VectorFor(client) = Plain(client, client)
      ELSE VectorFor(client) = NoVector \/ VectorFor(client).len = disk[p] \/ Mismatched(p)
    BY <1>2 DEF VectorFor
<1>7. \A d \in Callers : CallFits(d)'
    <2> SUFFICES ASSUME NEW d \in Callers PROVE CallFits(d)'
        OBVIOUS
    <2>0. UNCHANGED <<published, adopting, disk, undetected, env>>
        BY DEF BeginCreate
    <2>1. CASE d = c
        <3>1. calls'[d] = [pc |-> pc, project |-> p, client |-> client,
                           vec |-> VectorFor(client)]
            BY <1>3, <2>1 DEF TypeOK
        <3> QED  BY <1>1, <1>4, <1>5, <1>6, <2>0, <3>1 DEF CallFits, KeptAsKnown, Mismatched
    <2>2. CASE d # c
        <3>1. calls'[d] = calls[d] /\ CallFits(d)
            BY <1>3, <2>2 DEF TypeOK, CallsInv
        <3> QED  BY <2>0, <3>1 DEF CallFits, KeptAsKnown, Mismatched
    <2> QED  BY <2>1, <2>2
<1>8. KeepsWhatFits'
    BY DEF BeginCreate, CallsInv, KeepsWhatFits
<1> QED  BY <1>7, <1>8 DEF CallsInv

LEMMA InsertCalls ==
    ASSUME Inv, NEW c \in Callers, Insert(c)
    PROVE  CallsInv'
<1> DEFINE k == calls[c]
           v == OrZeros(k.vec)
<1> USE DEF Inv, SizeInv, TypeInv
<1>1. k.pc = "convert" /\ CallFits(c)
    BY DEF Insert, CallsInv
<1>2. k \in [pc : {"convert", "ok", "refused"}, project : Projects, client : OrNone, vec : Vector]
    BY <1>1, ConvertingCall
<1>3. /\ k.project \in published /\ adopting[k.project] = "no"
      /\ KeptAsKnown(k.vec)
      /\ IF k.client # None THEN k.vec = Plain(k.client, k.client)
         ELSE k.vec = NoVector \/ k.vec.len = disk[k.project] \/ Mismatched(k.project)
    BY <1>1 DEF CallFits
<1>4. Mismatched(k.project) \/ (config = disk[k.project] /\ config # None)
    BY <1>2, <1>3, Constants DEF SizeAdopted, AsStarted, Mismatched, TypeOK
<1>5. KeptAsKnown(v)
    BY <1>3 DEF OrZeros, KeptAsKnown, Plain
<1>6. \/ Converts(k.vec) /\ v.len = disk[k.project]
     \/ k.client \notin {None, disk[k.project]}
     \/ Mismatched(k.project)
    BY <1>3, <1>4 DEF Converts, OrZeros, Plain, NoVector
<1>7. UNCHANGED <<published, adopting, disk, undetected, env>>
    BY DEF Insert
<1>8. \A d \in Callers : CallFits(d)'
    <2> SUFFICES ASSUME NEW d \in Callers PROVE CallFits(d)'
        OBVIOUS
    <2>1. PICK pc \in {"ok", "refused"} :
             /\ calls' = [calls EXCEPT ![c] = [k EXCEPT !.pc = pc]]
             /\ pc = "refused" <=> ~(Converts(k.vec) /\ v.len = disk[k.project])
        BY InsertStep
    <2>2. CASE d = c
        <3>1. calls'[d] = [k EXCEPT !.pc = pc]
            BY <2>1, <2>2 DEF TypeOK
        <3>2. /\ calls'[d].pc = pc /\ calls'[d].project = k.project
              /\ calls'[d].client = k.client
            BY <1>2, <3>1
        <3> HIDE DEF k, v
        <3> QED  BY <1>3, <1>6, <1>7, <2>1, <3>2 DEF CallFits, Mismatched
    <2>3. CASE d # c
        <3>1. calls'[d] = calls[d] /\ CallFits(d)
            BY <2>1, <2>3 DEF TypeOK, CallsInv
        <3> QED  BY <1>7, <3>1 DEF CallFits, KeptAsKnown, Mismatched
    <2> QED  BY <2>2, <2>3
<1>9. KeepsWhatFits'
    <2>1. UNCHANGED stored \/ stored' = [stored EXCEPT ![k.project] = stored[k.project] \cup {v}]
        BY InsertStep
    <2>2. KeepsWhatFits /\ k.project \in Projects /\ stored \in [Projects -> SUBSET Vector]
        BY <1>2 DEF CallsInv, TypeOK
    <2> HIDE DEF k, v
    <2> QED  BY <1>5, <2>1, <2>2 DEF KeepsWhatFits, KeptAsKnown
<1> QED  BY <1>8, <1>9 DEF CallsInv

-----------------------------------------------------------------------------

LEMMA NextSizes ==
    ASSUME ~MultiProject, SizeInv, [Next]_vars,
           \A c \in Callers : calls[c].pc = "convert" => calls[c].project \in published
    PROVE  SizeInv'
<1>1. CASE Restart
    BY <1>1, RestartSizes
<1>2. CASE \E p \in Projects : OpenStep(p)
    BY <1>2, OpenSizes
<1>3. CASE \E c \in Callers, p \in Projects, n \in Sizes \cup {None} : BeginCreate(c, p, n)
    BY <1>3, BeginCreateSizes
<1>4. CASE \E c \in Callers : Insert(c)
    BY <1>4, InsertSizes
<1>5. CASE UNCHANGED vars
    BY <1>5 DEF vars, SizeInv, TypeInv, TypeOK, AdoptingIsPublished, AsStarted, SizeAdopted, StoredFits
<1> QED  BY <1>1, <1>2, <1>3, <1>4, <1>5 DEF Next, OpenStep

LEMMA NextInv ==
    ASSUME ~MultiProject, DimsAreSet, Inv, [Next]_vars
    PROVE  Inv'
<1>1. SizeInv'
    BY NextSizes DEF Inv, CallsInv, CallFits
<1>2. ProviderInv' /\ CallsInv'
    <2> USE DEF Inv
    <2>1. CASE Restart
        BY <2>1, RestartProvider, RestartCalls
    <2>2. CASE \E p \in Projects : OpenStep(p)
        BY <2>2, OpenProvider, OpenCalls
    <2>3. CASE \E c \in Callers, p \in Projects, n \in Sizes \cup {None} : BeginCreate(c, p, n)
        <3>1. ProviderInv'
            BY <2>3 DEF BeginCreate, ProviderInv, ProviderFits, ProviderKeeps, Mismatched
        <3> QED  BY <2>3, <3>1, BeginCreateCalls
    <2>4. CASE \E c \in Callers : Insert(c)
        <3>1. ProviderInv'
            BY <2>4 DEF Insert, ProviderInv, ProviderFits, ProviderKeeps, Mismatched
        <3> QED  BY <2>4, <3>1, InsertCalls
    <2>5. CASE UNCHANGED vars
        BY <2>5 DEF vars, ProviderInv, ProviderFits, ProviderKeeps, CallsInv, CallFits,
                    KeptAsKnown, KeepsWhatFits, Mismatched
    <2> QED  BY <2>1, <2>2, <2>3, <2>4, <2>5 DEF Next, OpenStep
<1> QED  BY <1>1, <1>2 DEF Inv

LEMMA Invariance ==
    ASSUME ~MultiProject, DimsAreSet
    PROVE  Spec => []Inv
<1>1. Init => Inv
    BY InitSizes, InitProvider, InitCalls DEF Inv
<1>2. Inv /\ [Next]_vars => Inv'
    BY NextInv
<1> QED  BY <1>1, <1>2, PTL DEF Spec

\* README.md:497 for a process with one project: once getDB has adopted the size of its
\* database, whatever earlier processes made it, every stored vector has the size
\* ExtractVector expects; when it could not read that size, they have it still if the
\* environment asks for the same.
THEOREM StoredVectorsFit ==
    ASSUME ~MultiProject, DimsAreSet
    PROVE  Spec => []ReadsFit
<1>1. Inv => ReadsFit
    BY DEF Inv, SizeInv, TypeInv, TypeOK, StoredFits, SizeAdopted, AsStarted, Mismatched, ReadsFit
<1> QED  BY <1>1, Invariance, PTL

\* README.md:535 for a process with one project and an EMBEDDING_DIMS of its own: no
\* create is refused for its vector but one with a client's vector of another size, or
\* one under an EMBEDDING_DIMS that is not the database's when that could not be read.
THEOREM RefusalsAreDeserved ==
    ASSUME ~MultiProject, DimsAreSet
    PROVE  Spec => []RefusedOnlyForSize
<1>1. Inv => RefusedOnlyForSize
    BY DEF Inv, CallsInv, CallFits, RefusedOnlyForSize
<1> QED  BY <1>1, Invariance, PTL

\* What WrapToDims (adapter.go:18-77), applied for EMBEDDING_DIMS and again for the
\* database's size, leaves of the model's output in every vector ever stored.
THEOREM WhatFitsIsKept ==
    ASSUME ~MultiProject, DimsAreSet
    PROVE  Spec => []KeepsWhatFits
<1>1. Inv => KeepsWhatFits
    BY DEF Inv, CallsInv
<1> QED  BY <1>1, Invariance, PTL
=============================================================================
