------------------------------ MODULE ToolServer ------------------------------
(***************************************************************************)
(* The tool calls of the MCP server: what a handler (internal/server/      *)
(* server.go) does before and around its calls of DBManager.               *)
(*                                                                         *)
(* Every handler but health_check resolves the project, has                *)
(* ValidateProjectAuth (internal/database/database.go) compare the call's  *)
(* token with the project's .auth_token file, and then calls DBManager.    *)
(* No lock is held around the file: the first calls of a project race, and *)
(* os.WriteFile truncates the file before it writes it.  The server may be *)
(* killed between the two.                                                 *)
(*                                                                         *)
(* ValidateProjectAuth trims the project's name to find the token file,    *)
(* while DBManager opens the database under the name as it was sent: two   *)
(* names that trim alike have one token and two databases.  A name is      *)
(* taken to be one element of a path, and tokens as trimmed; a token is a  *)
(* sequence of characters because two writers may mix theirs.              *)
(*                                                                         *)
(* A call of DBManager fetches the handle with getDB, and so passes dm.mu, *)
(* in each of its functions, and then succeeds or fails; what it does is   *)
(* the subject of GraphStore, GraphReads and ConnPool.  The limits and     *)
(* offsets a handler normalises, and the shape of an answer, are left out. *)
(***************************************************************************)
EXTENDS Integers, FiniteSets, Sequences

CONSTANTS Callers,        \* the calls a server runs at once
          Names,          \* the names calls send, not empty
          Projects,       \* those among them without spaces around
          Trim,           \* strings.TrimSpace
          DefaultProject,
          NoName,         \* the empty name
          Chars,          \* characters of tokens
          AutoTokens,     \* MULTI_PROJECT_DEFAULT_TOKEN, or what may be drawn
          Requests,       \* the calls each client makes
          Configs,        \* the environments a server may start in
          Absent,         \* no .auth_token file
          MaxFaults       \* bound: failing file operations and crashes

VARIABLES config,   \* multi: MultiProjectMode; required, auto: the two env toggles
          file,     \* .auth_token of each project
          pc,       \* where each call is
          call,     \* the request it carries
          writing,  \* the token it is about to write
          answer,   \* what the client was told
          mu,       \* dm.mu: free, held by the call that opens a project, or left locked
          dbs,      \* names in dm.dbs
          opened,   \* names a database was opened under, also before a crash
          written,  \* history: tokens written for each project
          known,    \* history: the project's settled token when the call came
          faults

manager == <<mu, dbs, opened>>
vars == <<config, file, pc, call, writing, answer, manager, written, known, faults>>

Blank == <<>>

\* In place of the request where no call is running.
NoCall == [tool |-> "health_check", project |-> NoName, token |-> Blank, args |-> "plain"]

Tools == {"create_entities", "search_nodes", "read_graph", "create_relations",
          "delete_entity", "delete_relation", "add_observations", "open_nodes",
          "delete_entities", "delete_relations", "delete_observations",
          "update_entities", "update_relations", "neighbors", "walk",
          "shortest_path", "health_check"}

\* args is what a handler looks at itself: an add_observations without entity
\* name or without observations, an open_nodes that asks for relations.
Request == [tool : Tools, project : Names \cup {NoName}, token : Seq(Chars),
            args : {"plain", "no entity", "no observations", "relations"}]

Config == [multi : BOOLEAN, required : BOOLEAN, auto : BOOLEAN]

ASSUME ToolServerAssumption ==
    /\ DefaultProject \in Projects /\ Projects \subseteq Names /\ NoName \notin Names
    /\ Trim \in [Names \cup {NoName} -> Projects \cup {NoName}]
    /\ \A p \in Projects \cup {NoName} : Trim[p] = p
    /\ Absent \notin Seq(Chars)
    /\ AutoTokens \subseteq Seq(Chars) \ {Blank}
    /\ Requests \in [Callers -> SUBSET Request] /\ Configs \subseteq Config
    /\ MaxFaults \in Nat

TypeOK ==
    /\ config \in Config
    /\ file \in [Projects -> Seq(Chars) \cup {Absent}]
    /\ pc \in [Callers -> {"idle", "read", "truncate", "write", "run",
                           "getdb", "lock", "open", "work", "stats"}]
    /\ call \in [Callers -> Request]
    /\ writing \in [Callers -> Seq(Chars)]
    /\ \A c \in Callers : pc[c] \in {"truncate", "write"} <=> writing[c] # Blank
    /\ answer \in [Callers -> {"none", "ok", "failed", "no project", "no token",
                               "unauthorized", "retry", "lost"}]
    /\ mu \in {"free", "held", "leaked"} /\ dbs \subseteq Names /\ opened \subseteq Names
    /\ written \in [Projects -> SUBSET Seq(Chars)]
    /\ known \in [Callers -> Seq(Chars) \cup {Absent}]
    /\ faults \in 0..MaxFaults

-----------------------------------------------------------------------------
(* Names, tokens and the file.                                             *)

\* getProjectName
ProjectOf(r) == IF r.project = NoName /\ ~config.multi THEN DefaultProject ELSE r.project

\* The project whose token file the call is judged by.
TokenProject(r) == Trim[ProjectOf(r)]

\* Mutant: an empty token is never checked.
TokenCheckedIfGiven(r) == config.multi /\ config.required /\ r.token # Blank

\* MultiProjectMode, and MULTI_PROJECT_AUTH_REQUIRED not switched off.
TokenChecked(r) == config.multi /\ config.required

\* The file is missing, or is there and holds nothing.
Uninitialised(content) == content \in {Absent, Blank}

\* Mutant: the beginning of the token is enough.
Begins(token, content) == \E k \in 0..Len(content) : token = SubSeq(content, 1, k)

Matches(token, content) == token = content

\* Mutant: the file is opened for appending.
Appended(token, content) == content \o token

\* A write from the start of the file; what lies beyond its end stays.
Overlaid(token, content) == token \o SubSeq(content, Len(token) + 1, Len(content))

Writers(p) == {c \in Callers : /\ pc[c] \in {"truncate", "write"}
                               /\ TokenProject(call[c]) = p}

\* The project has its token: it is in the file and no call is about to write one.
Settled(p) == file[p] \notin {Absent, Blank} /\ Writers(p) = {}

\* NewDBManager opens the default project in single-project mode.
AtStart == IF config.multi THEN {} ELSE {DefaultProject}

-----------------------------------------------------------------------------
(* A call comes in and is admitted.                                        *)

Go(c, place) == pc' = [pc EXCEPT ![c] = place]

\* The call ends and is gone.
Answer(c, text) ==
    /\ Go(c, "idle")
    /\ answer' = [answer EXCEPT ![c] = text]
    /\ call' = [call EXCEPT ![c] = NoCall]
    /\ known' = [known EXCEPT ![c] = Absent]

Init ==
    /\ config \in Configs
    /\ file = [p \in Projects |-> Absent]
    /\ pc = [c \in Callers |-> "idle"]
    /\ call = [c \in Callers |-> NoCall]
    /\ writing = [c \in Callers |-> Blank]
    /\ answer = [c \in Callers |-> "none"]
    /\ mu = "free" /\ dbs = AtStart /\ opened = AtStart
    /\ written = [p \in Projects |-> {}]
    /\ known = [c \in Callers |-> Absent]
    /\ faults = 0

\* The project is to be named, and ValidateProjectAuth wants more than spaces.
Unnamed(r) == ProjectOf(r) = NoName \/ (TokenChecked(r) /\ TokenProject(r) = NoName)

\* What every handler but health_check begins with; known is what the file says
\* when ValidateProjectAuth is entered.
Receive(c, r) ==
    /\ pc[c] = "idle" /\ r.tool # "health_check"
    /\ ~Unnamed(r)
    /\ call' = [call EXCEPT ![c] = r]
    /\ known' = [known EXCEPT ![c] = IF TokenChecked(r) /\ Settled(TokenProject(r))
                                     THEN file[TokenProject(r)] ELSE Absent]
    /\ Go(c, IF TokenChecked(r) THEN "read" ELSE "run")
    /\ answer' = [answer EXCEPT ![c] = "none"]
    /\ UNCHANGED <<config, file, writing, manager, written, faults>>

RefuseUnnamed(c, r) ==
    /\ pc[c] = "idle" /\ r.tool # "health_check"
    /\ Unnamed(r)
    /\ Answer(c, "no project")
    /\ UNCHANGED <<config, file, writing, manager, written, faults>>

\* handleHealth looks at no project and no token ...
Health(c, r) ==
    /\ pc[c] = "idle" /\ r.tool = "health_check"
    /\ call' = [call EXCEPT ![c] = r]
    /\ Go(c, "stats")
    /\ answer' = [answer EXCEPT ![c] = "none"]
    /\ UNCHANGED <<config, file, writing, manager, written, known, faults>>

\* ... but reads the statistics of the pools, with dm.mu in hand.
PoolStats(c) ==
    /\ pc[c] = "stats"
    /\ mu = "free"
    /\ Answer(c, "ok")
    /\ UNCHANGED <<config, file, writing, manager, written, faults>>

\* os.ReadFile has found a token, and it is the call's ...
Admit(c) ==
    LET content == file[TokenProject(call[c])] IN
    /\ pc[c] = "read"
    /\ ~Uninitialised(content) /\ Matches(call[c].token, content)
    /\ Go(c, "run")
    /\ UNCHANGED <<config, file, call, writing, answer, manager, written, known,
                   faults>>

\* ... or is not.
Refuse(c) ==
    LET content == file[TokenProject(call[c])] IN
    /\ pc[c] = "read"
    /\ ~Uninitialised(content) /\ ~Matches(call[c].token, content)
    /\ Answer(c, "unauthorized")
    /\ UNCHANGED <<config, file, writing, manager, written, faults>>

\* Mutant: an empty token is as good as another.
TakeEvenBlank(c) ==
    /\ pc[c] = "read" /\ Uninitialised(file[TokenProject(call[c])])
    /\ writing' = [writing EXCEPT ![c] = call[c].token]
    /\ Go(c, "truncate")
    /\ UNCHANGED <<config, file, call, answer, manager, written, known, faults>>

\* Mutant: a token the file does not match replaces the project's.
TakeAnyToken(c) ==
    /\ pc[c] = "read" /\ call[c].token \notin {Blank, file[TokenProject(call[c])]}
    /\ writing' = [writing EXCEPT ![c] = call[c].token]
    /\ Go(c, "truncate")
    /\ UNCHANGED <<config, file, call, answer, manager, written, known, faults>>

\* No token in the file and one in the call, which becomes the project's.
TakeToken(c) ==
    /\ pc[c] = "read"
    /\ Uninitialised(file[TokenProject(call[c])]) /\ call[c].token # Blank
    /\ writing' = [writing EXCEPT ![c] = call[c].token]
    /\ Go(c, "truncate")
    /\ UNCHANGED <<config, file, call, answer, manager, written, known, faults>>

\* No file and no token: MULTI_PROJECT_AUTO_INIT_TOKEN has one made.
DrawToken(c) ==
    /\ pc[c] = "read" /\ config.auto
    /\ file[TokenProject(call[c])] = Absent /\ call[c].token = Blank
    /\ \E t \in AutoTokens : writing' = [writing EXCEPT ![c] = t]
    /\ Go(c, "truncate")
    /\ UNCHANGED <<config, file, call, answer, manager, written, known, faults>>

\* Mutant: such a call waits for another one to bring the token.
WaitForToken(c) ==
    /\ pc[c] = "read" /\ call[c].token = Blank
    /\ file[TokenProject(call[c])] = Blank \/ (file[TokenProject(call[c])] = Absent /\ ~config.auto)
    /\ UNCHANGED vars

\* No token on either side; an empty file is not initialised automatically.
RefuseWithoutToken(c) ==
    LET content == file[TokenProject(call[c])] IN
    /\ pc[c] = "read" /\ call[c].token = Blank
    /\ content = Blank \/ (content = Absent /\ ~config.auto)
    /\ Answer(c, "no token")
    /\ UNCHANGED <<config, file, writing, manager, written, faults>>

\* os.WriteFile opens the file with O_CREATE and O_TRUNC ...
Truncate(c) ==
    /\ pc[c] = "truncate"
    /\ file' = [file EXCEPT ![TokenProject(call[c])] = Blank]
    /\ Go(c, "write")
    /\ UNCHANGED <<config, call, writing, answer, manager, written, known, faults>>

\* ... and writes at its start.  A call whose own token was written goes on;
\* the others are told to come again with the one that was made.
Write(c) ==
    LET p == TokenProject(call[c]) IN
    /\ pc[c] = "write"
    /\ file' = [file EXCEPT ![p] = Overlaid(writing[c], @)]
    /\ written' = [written EXCEPT ![p] = @ \cup {writing[c]}]
    /\ writing' = [writing EXCEPT ![c] = Blank]
    /\ IF call[c].token = Blank THEN Answer(c, "retry")
                                ELSE Go(c, "run") /\ UNCHANGED <<answer, call, known>>
    /\ UNCHANGED <<config, manager, faults>>

\* MkdirAll, ReadFile, or one of the two steps of WriteFile fails.
FileFault(c) ==
    /\ pc[c] \in {"read", "truncate", "write"}
    /\ faults < MaxFaults
    /\ faults' = faults + 1
    /\ writing' = [writing EXCEPT ![c] = Blank]
    /\ Answer(c, "failed")
    /\ UNCHANGED <<config, file, manager, written>>

-----------------------------------------------------------------------------
(* DBManager, as far as calls meet in it.                                  *)

\* getDB under the read lock ...
GetDB(c) ==
    /\ pc[c] = "getdb"
    /\ mu = "free"
    /\ Go(c, IF ProjectOf(call[c]) \in dbs THEN "work" ELSE "lock")
    /\ UNCHANGED <<config, file, call, writing, answer, manager, written, known, faults>>

\* ... and under the write lock, from where a database may come to be.  If the project
\* was opened meanwhile, the second look returns with dm.mu locked.
Lock(c) ==
    LET n == ProjectOf(call[c]) IN
    /\ pc[c] = "lock"
    /\ mu = "free"
    /\ IF n \in dbs THEN mu' = "leaked" /\ Go(c, "work")
                   ELSE mu' = "held" /\ Go(c, "open")
    /\ opened' = opened \cup {n}
    /\ UNCHANGED <<config, file, call, writing, answer, dbs, written, known, faults>>

OpenProject(c) ==
    /\ pc[c] = "open"
    /\ mu' = "free"
    /\ \/ /\ dbs' = dbs \cup {ProjectOf(call[c])}
          /\ Go(c, "work") /\ UNCHANGED <<answer, call, known>>
       \/ Answer(c, "failed") /\ UNCHANGED dbs
    /\ UNCHANGED <<config, file, writing, opened, written, faults>>

\* A function that another one calls fetches the handle again.
GetDBAgain(c) ==
    /\ pc[c] = "work"
    /\ Go(c, "getdb")
    /\ UNCHANGED <<config, file, call, writing, answer, manager, written, known, faults>>

\* handleOpenNodes has read the entities, and its client wants their relations.
WantsRelations(c) == call[c].tool = "open_nodes" /\ call[c].args = "relations"

\* The call of DBManager is over, and with it the handler's.
Finish(c) ==
    /\ pc[c] = "work"
    /\ \/ ~WantsRelations(c) /\ Answer(c, "ok")
       \/ Answer(c, "failed")
    /\ UNCHANGED <<config, file, writing, manager, written, faults>>

\* handleOpenNodes goes on to GetRelationsForEntities.
FinishEntities(c) ==
    /\ pc[c] = "work" /\ WantsRelations(c)
    /\ call' = [call EXCEPT ![c].args = "plain"]
    /\ Go(c, "getdb")
    /\ UNCHANGED <<config, file, writing, answer, manager, written, known, faults>>

-----------------------------------------------------------------------------
(* The handlers, once the call is admitted.                                *)

\* The handler's call of DBManager.
Ask(c, tool) ==
    /\ pc[c] = "run" /\ call[c].tool = tool
    /\ Go(c, "getdb")
    /\ UNCHANGED <<config, file, call, writing, answer, manager, written, known, faults>>

\* What the call carries is answered before any database is asked for.
AnswerAtOnce(c, tool, text) ==
    /\ pc[c] = "run" /\ call[c].tool = tool
    /\ Answer(c, text)
    /\ UNCHANGED <<config, file, writing, manager, written, faults>>

CreateEntities(c) == Ask(c, "create_entities")
\* Also an empty vector and one that holds other things than numbers.
SearchNodes(c) == Ask(c, "search_nodes") \/ AnswerAtOnce(c, "search_nodes", "failed")
ReadGraph(c) == Ask(c, "read_graph")
CreateRelations(c) == Ask(c, "create_relations")
DeleteEntity(c) == Ask(c, "delete_entity")
DeleteRelation(c) == Ask(c, "delete_relation")
DeleteEntities(c) == Ask(c, "delete_entities")
DeleteRelations(c) == Ask(c, "delete_relations")
DeleteObservations(c) == Ask(c, "delete_observations")
UpdateEntities(c) == Ask(c, "update_entities")
UpdateRelations(c) == Ask(c, "update_relations")
Walk(c) == Ask(c, "walk")
OpenNodes(c) == Ask(c, "open_nodes")
\* Also the neighbours of no names ...
Neighbors(c) == Ask(c, "neighbors") \/ AnswerAtOnce(c, "neighbors", "ok")
\* ... and a path from or to no name, or from a name to itself.
ShortestPath(c) == Ask(c, "shortest_path") \/ AnswerAtOnce(c, "shortest_path", "ok")

\* handleAddObservations answers two calls itself.
AddObservations(c) ==
    \/ call[c].args \notin {"no entity", "no observations"} /\ Ask(c, "add_observations")
    \/ call[c].args = "no entity" /\ AnswerAtOnce(c, "add_observations", "failed")
    \/ call[c].args = "no observations" /\ AnswerAtOnce(c, "add_observations", "ok")

\* The process is killed and started again in the same environment.
Crash ==
    /\ faults < MaxFaults
    /\ faults' = faults + 1
    /\ pc' = [c \in Callers |-> "idle"]
    /\ answer' = [c \in Callers |-> IF pc[c] = "idle" THEN answer[c] ELSE "lost"]
    /\ writing' = [c \in Callers |-> Blank]
    /\ call' = [c \in Callers |-> NoCall]
    /\ known' = [c \in Callers |-> Absent]
    /\ mu' = "free" /\ dbs' = AtStart
    /\ UNCHANGED <<config, file, opened, written>>

Handler(c) ==
    \/ CreateEntities(c) \/ SearchNodes(c) \/ ReadGraph(c) \/ CreateRelations(c)
    \/ DeleteEntity(c) \/ DeleteRelation(c) \/ AddObservations(c) \/ OpenNodes(c)
    \/ DeleteEntities(c) \/ DeleteRelations(c) \/ DeleteObservations(c)
    \/ UpdateEntities(c) \/ UpdateRelations(c) \/ Neighbors(c) \/ Walk(c)
    \/ ShortestPath(c)

Validate(c) ==
    \/ Admit(c) \/ Refuse(c) \/ TakeToken(c) \/ DrawToken(c) \/ RefuseWithoutToken(c)
    \/ Truncate(c) \/ Write(c)

\* The steps that wait for dm.mu.
GetMu(c) == GetDB(c) \/ Lock(c) \/ PoolStats(c)

Next ==
    \/ \E c \in Callers :
          \/ \E r \in Requests[c] : Receive(c, r) \/ RefuseUnnamed(c, r) \/ Health(c, r)
          \/ Validate(c) \/ FileFault(c) \/ Handler(c) \/ GetMu(c) \/ OpenProject(c)
          \/ GetDBAgain(c) \/ FinishEntities(c) \/ Finish(c)
    \/ Crash

\* A call is a goroutine of its own, and the file system and the database answer.  It
\* meets others only at dm.mu, which Go lets none wait for for ever while it comes free,
\* and fetches a handle finitely often.  (Waiting for a connection is ConnPool's subject.)
Fairness ==
    \A c \in Callers :
        /\ WF_vars(Validate(c) \/ Handler(c) \/ OpenProject(c))
        /\ SF_vars(GetMu(c))
        /\ SF_vars(Finish(c) \/ FinishEntities(c))

Spec == Init /\ [][Next]_vars /\ Fairness

-----------------------------------------------------------------------------
(* Properties.                                                             *)

\* Once a project has its token and no first call is still writing, no call,
\* no fault and no crash changes or empties .auth_token.
TokenKept ==
    [][\A p \in Projects : Settled(p) => file'[p] = file[p] /\ Settled(p)']_vars

\* "Subsequent calls must present the same token" (ValidateProjectAuth): a call
\* made when the project has its token is let through with that token only,
\* and with that token is neither refused nor sent away.
TokenDecides ==
    [][\A c \in Callers :
          pc[c] = "read" /\ known[c] # Absent =>
             /\ pc'[c] \in {"read", "run", "idle"}
             /\ pc'[c] = "run" => call[c].token = known[c]
             /\ answer'[c] \in {"unauthorized", "no token"} => call[c].token # known[c]]_vars

\* Whatever first calls raced to initialise it, a project's token is one of
\* those written, provided they are equally long: os.WriteFile truncates before
\* and not while it writes, so a shorter token lies over the end of a longer one.
TokenIsWhole ==
    \A p \in Projects :
        /\ Settled(p)
        /\ \A t, u \in written[p] : Len(t) = Len(u)
        => file[p] \in written[p]

\* Where tokens are required, whatever name a database was opened under, the project
\* it trims to has a token file by which calls of that name are judged: what is stored
\* cannot come to stand open as a new project's would.
DataHasATokenFile ==
    config.multi /\ config.required =>
        \A n \in opened : Trim[n] # NoName /\ file[Trim[n]] # Absent

\* dm.mu was left locked, which takes a project that a call, not the start, opened.
LeftLocked == mu = "leaked" /\ dbs # AtStart

\* Every call is answered, or lost with the server, unless getDB has left dm.mu locked:
\* no branch of a handler or of ValidateProjectAuth is without an answer, nothing in the
\* admission of a call waits for another one, and without the leak nothing else does.
CallsAreAnswered ==
    \A c \in Callers : pc[c] # "idle" ~> pc[c] = "idle" \/ LeftLocked
==============================================================================
