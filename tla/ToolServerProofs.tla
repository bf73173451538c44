-------------------------- MODULE ToolServerProofs --------------------------
(***************************************************************************)
(* Theorems about ToolServer, for any calls, projects, tokens and          *)
(* environments.  Every step either leaves the token files alone, and then *)
(* is one call's beginning, going on or end (Quiet), or is one of the two  *)
(* steps of os.WriteFile, or a crash.  Each of the four keeps Inv and is   *)
(* allowed by TokenKept; what a call may do when it has read the file      *)
(* follows from Inv alone.                                                 *)
(***************************************************************************)
EXTENDS ToolServer, SequenceTheorems, TLAPS

\* Before a call is let through to DBManager, and after.
After == {"run", "getdb", "lock", "open", "work"}
Places == {"idle", "read", "truncate", "write", "stats"} \cup After
Answers == {"none", "ok", "failed", "no project", "no token", "unauthorized",
            "retry", "lost"}

\* A call that runs has a name, and one whose token is checked a project.
CallsHaveAProject ==
    \A c \in Callers :
        pc[c] \notin {"idle", "stats"} =>
            /\ ProjectOf(call[c]) \in Names
            /\ TokenChecked(call[c]) => TokenProject(call[c]) \in Projects

\* Only a call whose token is checked comes near the file ...
FileIsForChecking ==
    \A c \in Callers : pc[c] \in {"read", "truncate", "write"} => TokenChecked(call[c])

\* ... and once past the check, or past its truncation, the file exists.
PassedTheFile ==
    \A c \in Callers :
        pc[c] = "write" \/ (pc[c] \in After /\ TokenChecked(call[c]))
            => file[TokenProject(call[c])] # Absent

\* What was settled when a call came still is.
KnownIsSettled ==
    \A c \in Callers :
        known[c] # Absent =>
            /\ pc[c] \notin {"idle", "stats"} /\ TokenChecked(call[c])
            /\ Settled(TokenProject(call[c]))
            /\ file[TokenProject(call[c])] = known[c]

\* TokenIsWhole, with or without a call about to write.
FileIsWhole ==
    \A p \in Projects :
        (\A t, u \in written[p] : Len(t) = Len(u)) =>
            file[p] \in written[p] \cup {Absent, Blank}

\* A call that runs has not been answered.
RunningIsUnanswered == \A c \in Callers : pc[c] # "idle" => answer[c] = "none"

Rest == /\ RunningIsUnanswered /\ CallsHaveAProject /\ FileIsForChecking
        /\ PassedTheFile /\ KnownIsSettled /\ FileIsWhole /\ DataHasATokenFile

Inv == TypeOK /\ Rest

-----------------------------------------------------------------------------
(* The kinds of steps.                                                     *)

Others(c) ==
    \A d \in Callers \ {c} :
        /\ pc'[d] = pc[d] /\ call'[d] = call[d]
        /\ known'[d] = known[d] /\ answer'[d] = answer[d]

Starts(c) ==
    /\ pc[c] = "idle" /\ answer'[c] = "none" /\ opened' = opened
    /\ \/ pc'[c] = "stats" /\ known'[c] = known[c]
       \/ /\ ProjectOf(call'[c]) \in Names
          /\ TokenChecked(call'[c]) => TokenProject(call'[c]) \in Projects
          /\ \/ known'[c] = Absent
             \/ /\ TokenChecked(call'[c]) /\ Settled(TokenProject(call'[c]))
                /\ known'[c] = file[TokenProject(call'[c])]
          /\ \/ pc'[c] = "read" /\ TokenChecked(call'[c])
             \/ pc'[c] = "run" /\ ~TokenChecked(call'[c])

GoesOn(c) ==
    /\ call'[c].project = call[c].project /\ known'[c] = known[c] /\ answer'[c] = answer[c]
    /\ \/ /\ pc[c] = "read" /\ opened' = opened
          /\ \/ pc'[c] = "run" /\ ~Uninitialised(file[TokenProject(call[c])])
             \/ pc'[c] = "truncate" /\ Uninitialised(file[TokenProject(call[c])])
       \/ /\ pc[c] \in After /\ pc'[c] \in After
          /\ opened' \in {opened, opened \cup {ProjectOf(call[c])}}

Ends(c) == pc'[c] = "idle" /\ known'[c] = Absent /\ opened' = opened

Quiet(c) ==
    /\ config' = config /\ file' = file /\ written' = written
    /\ Others(c)
    /\ Starts(c) \/ GoesOn(c) \/ Ends(c)

Kept == \A p \in Projects : Settled(p) => file'[p] = file[p] /\ Settled(p)'

-----------------------------------------------------------------------------

\* What is left of a name without the spaces around it.
LEMMA TrimmedName ==
    ASSUME NEW n \in Names
    PROVE  Trim[n] \in Projects \cup {NoName}
  BY ToolServerAssumption

\* A call keeps the name it was made with.
LEMMA SameName ==
    ASSUME config' = config, NEW c \in Callers, call'[c].project = call[c].project
    PROVE  ProjectOf(call[c])' = ProjectOf(call[c]) /\ TokenProject(call[c])' = TokenProject(call[c])
  BY DEF ProjectOf, TokenProject

LEMMA QuietKeeps ==
    ASSUME Inv, TypeOK', NEW c \in Callers, Quiet(c)
    PROVE  Rest' /\ Kept
<1> USE DEF Inv, Rest, Quiet, TokenChecked
<1>2. \A d \in Callers : d # c => pc'[d] = pc[d] /\ call'[d] = call[d] /\ known'[d] = known[d]
  BY DEF Others
<1>1. \A d \in Callers : d # c =>
         ProjectOf(call[d])' = ProjectOf(call[d]) /\ TokenProject(call[d])' = TokenProject(call[d])
  BY <1>2, SameName
<1>10. GoesOn(c) =>
         ProjectOf(call[c])' = ProjectOf(call[c]) /\ TokenProject(call[c])' = TokenProject(call[c])
  BY SameName DEF GoesOn
<1>0. RunningIsUnanswered'
  BY DEF RunningIsUnanswered, Others, Starts, GoesOn, Ends, After
<1>3. CallsHaveAProject'
  BY <1>1, <1>2, <1>10 DEF CallsHaveAProject, Starts, GoesOn, Ends, After, ProjectOf, TokenProject
<1>4. FileIsForChecking'
  BY <1>2 DEF FileIsForChecking, Starts, GoesOn, Ends, After
<1>5. PassedTheFile'
  BY <1>1, <1>2, <1>10 DEF PassedTheFile, Starts, GoesOn, Ends, After, Uninitialised
<1>6. Kept
  <2> SUFFICES ASSUME NEW p \in Projects, Settled(p) PROVE Writers(p)' = {}
    BY DEF Kept, Settled
  <2>1. \A d \in Callers : pc[d] \in {"truncate", "write"} => TokenProject(call[d]) # p
    BY DEF Settled, Writers
  <2>2. \A d \in Callers : pc'[d] \in {"truncate", "write"} => TokenProject(call[d])' # p
    BY <1>1, <1>2, <1>10, <2>1 DEF Settled, Starts, GoesOn, Ends, After, Uninitialised
  <2> QED
    BY <2>2 DEF Writers
<1>7. KnownIsSettled'
  <2> SUFFICES ASSUME NEW d \in Callers, known'[d] # Absent
               PROVE  /\ pc'[d] \notin {"idle", "stats"} /\ TokenChecked(call[d])'
                      /\ Settled(TokenProject(call[d]))'
                      /\ file'[TokenProject(call[d])'] = known'[d]
    BY DEF KnownIsSettled
  <2>1. /\ pc'[d] \notin {"idle", "stats"} /\ TokenChecked(call[d])'
        /\ Settled(TokenProject(call[d])')
        /\ file[TokenProject(call[d])'] = known'[d]
    BY <1>1, <1>2, <1>10 DEF KnownIsSettled, Starts, GoesOn, Ends, After, ProjectOf, TokenProject
  <2>2. TokenProject(call[d])' \in Projects
    BY <1>3, <2>1 DEF CallsHaveAProject
  <2> QED
    BY <1>6, <2>1, <2>2 DEF Kept, Settled, Writers
<1>8. FileIsWhole'
  BY DEF FileIsWhole
<1>9. DataHasATokenFile'
  <2>1. opened' \in {opened, opened \cup {ProjectOf(call[c])}} /\ file' = file
    BY DEF Starts, GoesOn, Ends
  <2>2. opened' # opened /\ config.multi /\ config.required =>
           TokenProject(call[c]) \in Projects /\ file[TokenProject(call[c])] # Absent
    BY DEF Starts, GoesOn, Ends, After, CallsHaveAProject, PassedTheFile
  <2> QED
    BY <2>1, <2>2, ToolServerAssumption DEF DataHasATokenFile, TokenProject
<1> QED
  BY <1>0, <1>3, <1>4, <1>5, <1>6, <1>7, <1>8, <1>9

LEMMA CrashKeeps ==
    ASSUME Inv, Crash
    PROVE  Rest' /\ Kept
<1> USE DEF Inv, Rest, Crash, TokenChecked
<1>0. \A c \in Callers : pc'[c] = "idle" /\ known'[c] = Absent
  OBVIOUS
<1>1. /\ RunningIsUnanswered' /\ CallsHaveAProject' /\ FileIsForChecking'
      /\ PassedTheFile' /\ KnownIsSettled'
  BY <1>0 DEF RunningIsUnanswered, CallsHaveAProject, FileIsForChecking, PassedTheFile,
     KnownIsSettled, After
<1>2. FileIsWhole' /\ DataHasATokenFile'
  BY DEF FileIsWhole, DataHasATokenFile
<1>3. Kept
  BY DEF Kept, Settled, Writers
<1> QED
  BY <1>1, <1>2, <1>3

\* The two steps of os.WriteFile change the file of a project that is not settled.
LEMMA TruncateKeeps ==
    ASSUME Inv, TypeOK', NEW c \in Callers, Truncate(c)
    PROVE  Rest' /\ Kept
<1> DEFINE p == TokenProject(call[c])
<1> USE DEF Inv, Rest, Truncate, TokenChecked
<1>1. pc[c] = "truncate" /\ pc'[c] = "write" /\ \A d \in Callers : d # c => pc'[d] = pc[d]
  BY DEF Go, TypeOK
<1>2. UNCHANGED <<call, known, answer, config, opened, written>>
  BY DEF manager
<1>3. p \in Projects /\ c \in Writers(p)
  BY <1>1 DEF CallsHaveAProject, FileIsForChecking, Writers
<1>4. file'[p] = Blank /\ \A q \in Projects : q # p => file'[q] = file[q]
  BY <1>3 DEF TypeOK
<1>5. Blank # Absent
  BY ToolServerAssumption, EmptySeq DEF Blank
<1>6. \A d \in Callers : TokenProject(call[d])' = TokenProject(call[d])
  BY <1>2 DEF ProjectOf, TokenProject
<1>7. RunningIsUnanswered' /\ CallsHaveAProject' /\ FileIsForChecking'
  BY <1>1, <1>2, <1>6 DEF RunningIsUnanswered, CallsHaveAProject, FileIsForChecking, ProjectOf
<1>8. PassedTheFile'
  BY <1>1, <1>2, <1>3, <1>4, <1>5, <1>6 DEF PassedTheFile, CallsHaveAProject, After
<1>9. Kept
  BY <1>1, <1>2, <1>3, <1>4, <1>6 DEF Kept, Settled, Writers
<1>10. KnownIsSettled'
  BY <1>1, <1>2, <1>3, <1>6, <1>9 DEF KnownIsSettled, Kept, CallsHaveAProject, Settled, Writers
<1>11. FileIsWhole'
  BY <1>2, <1>3, <1>4 DEF FileIsWhole
<1>12. DataHasATokenFile'
  <2>1. \A n \in opened : Trim[n] \in Projects \cup {NoName}
    BY TrimmedName DEF TypeOK
  <2> QED
    BY <1>2, <1>3, <1>4, <1>5, <2>1 DEF DataHasATokenFile
<1> QED
  BY <1>7, <1>8, <1>9, <1>10, <1>11, <1>12

\* A token written over one of its own length is all there is then.
LEMMA OverlaidByItsLength ==
    ASSUME NEW t \in Seq(Chars), NEW u \in Seq(Chars), u = Blank \/ Len(t) = Len(u)
    PROVE  Overlaid(t, u) = t
<1>1. (Len(t) + 1 > Len(u) /\ Len(t) + 1 \in 1..(Len(u) + 1)) \/ u = Blank
  BY LenProperties
<1>2. SubSeq(u, Len(t) + 1, Len(u)) = <<>>
  BY <1>1, SubSeqEmpty, LenProperties, EmptySeq DEF Blank
<1> QED
  BY <1>2, ConcatEmptySeq DEF Overlaid

LEMMA OverlaidIsAToken ==
    ASSUME NEW t \in Seq(Chars), NEW u \in Seq(Chars)
    PROVE  Overlaid(t, u) \in Seq(Chars)
  BY LenProperties, SubSeqProperties, ConcatProperties DEF Overlaid

LEMMA WriteKeeps ==
    ASSUME Inv, TypeOK', NEW c \in Callers, Write(c)
    PROVE  Rest' /\ Kept
<1> DEFINE p == TokenProject(call[c])
<1> USE DEF Inv, Rest, Write, TokenChecked
<1>1. /\ pc[c] = "write" /\ pc'[c] \in {"run", "idle"}
      /\ pc'[c] # "idle" =>
            call'[c] = call[c] /\ known'[c] = known[c] /\ answer'[c] = answer[c]
      /\ Others(c)
  <2>1. /\ pc \in [Callers -> Places] /\ answer \in [Callers -> Answers]
        /\ DOMAIN call = Callers /\ DOMAIN known = Callers
    BY DEF TypeOK, Places, After, Answers
  <2>2. CASE call[c].token = Blank
    BY <2>1, <2>2 DEF Go, Answer, Others
  <2>3. CASE call[c].token # Blank
    BY <2>1, <2>3 DEF Go, Others
  <2> QED
    BY <2>2, <2>3
<1>2. config' = config /\ opened' = opened
  BY DEF manager
<1>3. p \in Projects /\ c \in Writers(p)
  BY <1>1 DEF CallsHaveAProject, FileIsForChecking, Writers
<1>4. file[p] \in Seq(Chars) /\ writing[c] \in Seq(Chars)
  <2>1. file[p] \in Seq(Chars) \cup {Absent} /\ writing[c] \in Seq(Chars)
    BY <1>3 DEF TypeOK
  <2>2. file[p] # Absent
    BY <1>1 DEF PassedTheFile
  <2> QED
    BY <2>1, <2>2
<1>5. /\ file'[p] = Overlaid(writing[c], file[p])
      /\ written'[p] = written[p] \cup {writing[c]}
      /\ \A q \in Projects : q # p => file'[q] = file[q] /\ written'[q] = written[q]
  BY <1>3 DEF TypeOK
<1>6. file'[p] # Absent
  BY <1>4, <1>5, OverlaidIsAToken, ToolServerAssumption
<1>7. \A d \in Callers : pc'[d] # "idle" => TokenProject(call[d])' = TokenProject(call[d])
  BY <1>1, <1>2, SameName DEF Others
<1>8. RunningIsUnanswered' /\ CallsHaveAProject' /\ FileIsForChecking'
  BY <1>1, <1>2 DEF Others, RunningIsUnanswered, CallsHaveAProject, FileIsForChecking, ProjectOf, TokenProject
<1>9. PassedTheFile'
  BY <1>1, <1>2, <1>3, <1>5, <1>6, <1>7 DEF Others, PassedTheFile, CallsHaveAProject, After
<1>10. Kept
  BY <1>1, <1>2, <1>3, <1>5, <1>7 DEF Others, Kept, Settled, Writers
<1>11. KnownIsSettled'
  <2> SUFFICES ASSUME NEW d \in Callers, known'[d] # Absent
               PROVE  /\ pc'[d] \notin {"idle", "stats"} /\ TokenChecked(call[d])'
                      /\ Settled(TokenProject(call[d]))'
                      /\ file'[TokenProject(call[d])'] = known'[d]
    BY DEF KnownIsSettled
  <2>1. d # c
    <3>1. pc'[c] = "idle" => known'[c] = Absent
      BY <1>1 DEF Go, Answer, TypeOK
    <3>2. known[c] = Absent
      BY <1>1, <1>3 DEF KnownIsSettled, Settled
    <3> QED
      BY <1>1, <3>1, <3>2
  <2>2. known[d] = known'[d] /\ pc'[d] = pc[d] /\ call'[d] = call[d]
    BY <1>1, <2>1 DEF Others
  <2>3. TokenProject(call[d])' = TokenProject(call[d])
    BY <1>2, <2>2, SameName
  <2>4. /\ pc[d] \notin {"idle", "stats"} /\ TokenChecked(call[d])
        /\ Settled(TokenProject(call[d])) /\ file[TokenProject(call[d])] = known[d]
    BY <2>2 DEF KnownIsSettled
  <2>5. TokenProject(call[d]) \in Projects
    BY <2>4 DEF CallsHaveAProject
  <2>6. file'[TokenProject(call[d])'] = known[d] /\ Settled(TokenProject(call[d]))'
    BY <1>10, <2>3, <2>4, <2>5 DEF Kept, Settled, Writers
  <2> QED
    BY <1>2, <2>2, <2>3, <2>4, <2>6
<1>12. FileIsWhole'
  <2> SUFFICES ASSUME NEW q \in Projects, \A t, u \in written'[q] : Len(t) = Len(u)
               PROVE  file'[q] \in written'[q] \cup {Absent, Blank}
    BY DEF FileIsWhole
  <2>1. CASE q # p
    BY <1>5, <2>1 DEF FileIsWhole
  <2>2. CASE q = p
    <3>1. \A t \in written[p] : Len(t) = Len(writing[c])
      BY <1>5, <2>2
    <3>2. file[p] \in written[p] \cup {Blank}
      BY <1>3, <1>4, <1>5, <2>2, ToolServerAssumption DEF FileIsWhole
    <3>3. file[p] = Blank \/ Len(writing[c]) = Len(file[p])
      BY <3>1, <3>2
    <3>4. Overlaid(writing[c], file[p]) = writing[c]
      BY <1>4, <3>3, OverlaidByItsLength
    <3> QED
      BY <1>5, <2>2, <3>4
  <2> QED
    BY <2>1, <2>2
<1>13. DataHasATokenFile'
  <2>1. \A n \in opened : Trim[n] \in Projects \cup {NoName}
    BY TrimmedName DEF TypeOK
  <2> QED
    BY <1>2, <1>5, <1>6, <2>1 DEF DataHasATokenFile
<1> QED
  BY <1>8, <1>9, <1>10, <1>11, <1>12, <1>13

-----------------------------------------------------------------------------
(* Types.                                                                  *)

LEMMA NoCallIsARequest == NoCall \in Request /\ Blank \in Seq(Chars)
  BY EmptySeq DEF NoCall, Request, Tools, Blank

LEMMA StartTypes == AtStart \subseteq Names
  BY ToolServerAssumption DEF AtStart

LEMMA InitTypes == Init => TypeOK
  BY NoCallIsARequest, StartTypes, ToolServerAssumption DEF Init, TypeOK

\* What the end of a call does to the types.
LEMMA AnswerTypes ==
    ASSUME TypeOK, NEW c \in Callers, NEW text \in Answers, Answer(c, text)
    PROVE  /\ pc' \in [Callers -> Places]
           /\ call' \in [Callers -> Request]
           /\ answer' \in [Callers -> Answers]
           /\ known' \in [Callers -> Seq(Chars) \cup {Absent}]
           /\ pc'[c] = "idle" /\ \A d \in Callers : d # c => pc'[d] = pc[d]
  BY NoCallIsARequest DEF TypeOK, Answer, Go, Places, After, Answers

\* A step that neither answers nor touches the file.
LEMMA GoTypes ==
    ASSUME TypeOK, NEW c \in Callers, NEW place \in Places \ {"truncate", "write"}, Go(c, place),
           pc[c] \notin {"truncate", "write"}
    PROVE  /\ pc' \in [Callers -> Places]
           /\ pc'[c] = place /\ \A d \in Callers : d # c => pc'[d] = pc[d]
  BY DEF TypeOK, Go, Places, After

\* The calls of DBManager.
LEMMA ManagerTypes ==
    ASSUME Inv, NEW c \in Callers,
           \/ GetDB(c) \/ Lock(c) \/ PoolStats(c) \/ OpenProject(c)
           \/ GetDBAgain(c) \/ FinishEntities(c) \/ Finish(c)
    PROVE  TypeOK'
<1> USE DEF Inv, manager
<1>1. CASE GetDB(c)
  <2>1. PICK place \in {"work", "lock"} : Go(c, place)
    BY <1>1 DEF GetDB
  <2> QED
    BY <1>1, <2>1, GoTypes DEF GetDB, TypeOK, Places, After
<1>2. CASE Lock(c)
  <2>1. PICK place \in {"work", "open"} : Go(c, place)
    BY <1>2 DEF Lock
  <2>2. mu' \in {"free", "held", "leaked"} /\ opened' \subseteq Names
    BY <1>2 DEF Lock, TypeOK, Rest, CallsHaveAProject
  <2> QED
    BY <1>2, <2>1, <2>2, GoTypes DEF Lock, TypeOK, Places, After
<1>3. CASE PoolStats(c)
  BY <1>3, AnswerTypes DEF PoolStats, TypeOK, Places, After, Answers
<1>4. CASE OpenProject(c)
  <2>1. mu' = "free" /\ dbs' \subseteq Names /\ pc[c] = "open"
    BY <1>4 DEF OpenProject, TypeOK, Rest, CallsHaveAProject
  <2>2. CASE Answer(c, "failed")
    BY <1>4, <2>1, <2>2, AnswerTypes DEF OpenProject, TypeOK, Places, After, Answers
  <2>3. CASE Go(c, "work") /\ UNCHANGED <<answer, call, known>>
    <3>1. /\ pc' \in [Callers -> Places]
          /\ pc'[c] = "work" /\ \A d \in Callers : d # c => pc'[d] = pc[d]
      BY <2>1, <2>3, GoTypes DEF Places, After
    <3>2. UNCHANGED <<config, file, writing, opened, written, faults>>
      BY <1>4 DEF OpenProject
    <3> QED
      BY <2>1, <2>3, <3>1, <3>2 DEF TypeOK, Places, After
  <2> QED
    BY <1>4, <2>2, <2>3 DEF OpenProject
<1>5. CASE GetDBAgain(c)
  BY <1>5, GoTypes DEF GetDBAgain, TypeOK, Places, After
<1>6. CASE FinishEntities(c)
  <2>1. call' \in [Callers -> Request]
    BY <1>6 DEF FinishEntities, TypeOK, Request
  <2> QED
    BY <1>6, <2>1, GoTypes DEF FinishEntities, TypeOK, Places, After
<1>7. CASE Finish(c)
  BY <1>7, AnswerTypes DEF Finish, TypeOK, Places, After, Answers
<1> QED
  BY <1>1, <1>2, <1>3, <1>4, <1>5, <1>6, <1>7

\* A call that is not refused for its name has one, and a project if its token is checked.
LEMMA NamedCall ==
    ASSUME NEW r \in Request, ~Unnamed(r)
    PROVE  ProjectOf(r) \in Names /\ (TokenChecked(r) => TokenProject(r) \in Projects)
<1>1. ProjectOf(r) \in Names \cup {NoName}
  BY ToolServerAssumption DEF ProjectOf, Request
<1>2. TokenProject(r) \in Projects \cup {NoName}
  BY <1>1, ToolServerAssumption DEF TokenProject
<1> QED
  BY <1>1, <1>2 DEF Unnamed

LEMMA ReceiveTypes ==
    ASSUME Inv, NEW c \in Callers, NEW r \in Requests[c],
           Receive(c, r) \/ RefuseUnnamed(c, r) \/ Health(c, r)
    PROVE  TypeOK'
<1> USE DEF Inv, manager
<1>0. r \in Request
  BY ToolServerAssumption
<1>1. CASE Receive(c, r)
  <2>2. TokenChecked(r) => TokenProject(r) \in Projects
    BY <1>0, <1>1, NamedCall DEF Receive
  <2>3. known' \in [Callers -> Seq(Chars) \cup {Absent}]
    BY <1>1, <2>2 DEF Receive, TypeOK
  <2>4. PICK place \in {"read", "run"} : Go(c, place)
    BY <1>1 DEF Receive
  <2> QED
    BY <1>0, <1>1, <2>3, <2>4, GoTypes DEF Receive, TypeOK, Places, After
<1>2. CASE RefuseUnnamed(c, r)
  BY <1>2, AnswerTypes DEF RefuseUnnamed, TypeOK, Places, After, Answers
<1>3. CASE Health(c, r)
  <2>1. /\ pc' \in [Callers -> Places]
        /\ pc'[c] = "stats" /\ \A d \in Callers : d # c => pc'[d] = pc[d]
    BY <1>3, GoTypes DEF Health, Places, After
  <2>2. call' \in [Callers -> Request] /\ answer' \in [Callers -> Answers]
    BY <1>0, <1>3 DEF Health, TypeOK, Answers
  <2>3. UNCHANGED <<config, file, writing, manager, written, known, faults>> /\ pc[c] = "idle"
    BY <1>3 DEF Health
  <2> QED
    BY <2>1, <2>2, <2>3 DEF TypeOK, Places, After, Answers
<1> QED
  BY <1>1, <1>2, <1>3

\* The steps of ValidateProjectAuth.
LEMMA ValidationTypes ==
    ASSUME Inv, NEW c \in Callers,
           \/ Admit(c) \/ Refuse(c) \/ TakeToken(c) \/ DrawToken(c) \/ RefuseWithoutToken(c)
           \/ Truncate(c) \/ Write(c) \/ FileFault(c)
    PROVE  TypeOK'
<1> DEFINE p == TokenProject(call[c])
<1> USE DEF Inv, manager
<1>1. CASE Admit(c)
  BY <1>1 DEF Admit, Go, TypeOK
<1>2. CASE Refuse(c)
  BY <1>2, AnswerTypes DEF Refuse, TypeOK, Places, After, Answers
<1>3. CASE TakeToken(c)
  <2>1. call[c].token \in Seq(Chars) \ {Blank}
    BY <1>3 DEF TakeToken, TypeOK, Request
  <2> QED
    BY <1>3, <2>1 DEF TakeToken, Go, TypeOK
<1>4. CASE DrawToken(c)
  <2>1. PICK t \in AutoTokens : writing' = [writing EXCEPT ![c] = t]
    BY <1>4 DEF DrawToken
  <2>2. t \in Seq(Chars) \ {Blank}
    BY ToolServerAssumption
  <2> QED
    BY <1>4, <2>1, <2>2 DEF DrawToken, Go, TypeOK
<1>5. CASE RefuseWithoutToken(c)
  BY <1>5, AnswerTypes DEF RefuseWithoutToken, TypeOK, Places, After, Answers
<1>6. CASE Truncate(c)
  BY <1>6, NoCallIsARequest DEF Truncate, Go, TypeOK
<1>7. CASE Write(c)
  <2>1. pc[c] = "write" /\ p \in Projects /\ file[p] # Absent
    BY <1>7 DEF Write, Rest, CallsHaveAProject, FileIsForChecking, PassedTheFile
  <2>2. Overlaid(writing[c], file[p]) \in Seq(Chars)
    BY <2>1, OverlaidIsAToken DEF TypeOK
  <2>3. file' \in [Projects -> Seq(Chars) \cup {Absent}]
    BY <1>7, <2>2 DEF Write, TypeOK
  <2>4. written' \in [Projects -> SUBSET Seq(Chars)]
    BY <1>7 DEF Write, TypeOK
  <2>5. writing' \in [Callers -> Seq(Chars)] /\ writing'[c] = Blank
        /\ \A d \in Callers : d # c => writing'[d] = writing[d]
    BY <1>7, NoCallIsARequest DEF Write, TypeOK
  <2>6. UNCHANGED <<config, manager, faults>>
    BY <1>7 DEF Write
  <2>7. CASE Answer(c, "retry")
    BY <2>3, <2>4, <2>5, <2>6, <2>7, AnswerTypes DEF TypeOK, Places, After, Answers
  <2>8. CASE Go(c, "run") /\ UNCHANGED <<answer, call, known>>
    BY <2>3, <2>4, <2>5, <2>6, <2>8 DEF TypeOK, Go
  <2> QED
    BY <1>7, <2>7, <2>8 DEF Write
<1>8. CASE FileFault(c)
  <2>1. writing' \in [Callers -> Seq(Chars)] /\ writing'[c] = Blank
        /\ \A d \in Callers : d # c => writing'[d] = writing[d]
    BY <1>8, NoCallIsARequest DEF FileFault, TypeOK
  <2>2. faults \in 0..MaxFaults /\ faults < MaxFaults /\ faults' = faults + 1
    BY <1>8 DEF FileFault, TypeOK
  <2>3. faults' \in 0..MaxFaults
    BY <2>2, ToolServerAssumption
  <2>4. /\ pc' \in [Callers -> Places]
        /\ call' \in [Callers -> Request]
        /\ answer' \in [Callers -> Answers]
        /\ known' \in [Callers -> Seq(Chars) \cup {Absent}]
        /\ pc'[c] = "idle" /\ \A d \in Callers : d # c => pc'[d] = pc[d]
    BY <1>8, AnswerTypes DEF FileFault, Answers
  <2>5. UNCHANGED <<config, file, manager, written>>
    BY <1>8 DEF FileFault
  <2>6. \A d \in Callers : pc'[d] \in {"truncate", "write"} <=> writing'[d] # Blank
    BY <2>1, <2>4 DEF TypeOK
  <2>7. /\ config' \in Config /\ file' \in [Projects -> Seq(Chars) \cup {Absent}]
        /\ mu' \in {"free", "held", "leaked"} /\ dbs' \subseteq Names /\ opened' \subseteq Names
        /\ written' \in [Projects -> SUBSET Seq(Chars)]
    BY <2>5 DEF TypeOK
  <2> QED
    BY <2>1, <2>3, <2>4, <2>6, <2>7 DEF TypeOK, Places, After, Answers
<1> QED
  BY <1>1, <1>2, <1>3, <1>4, <1>5, <1>6, <1>7, <1>8

\* Every handler's step is a call of DBManager, or an answer without one.
LEMMA HandlerCases ==
    ASSUME NEW c \in Callers, Handler(c)
    PROVE  /\ pc[c] = "run"
           /\ \/ Go(c, "getdb") /\ UNCHANGED <<call, answer, known>>
              \/ Answer(c, "failed") \/ Answer(c, "ok")
           /\ UNCHANGED <<config, file, writing, manager, written, faults>>
  BY DEF Handler, CreateEntities, SearchNodes, ReadGraph, CreateRelations, DeleteEntity,
         DeleteRelation, AddObservations, OpenNodes, DeleteEntities, DeleteRelations,
         DeleteObservations, UpdateEntities, UpdateRelations, Neighbors, Walk, ShortestPath,
         Ask, AnswerAtOnce

LEMMA HandlerTypes ==
    ASSUME Inv, NEW c \in Callers, Handler(c)
    PROVE  TypeOK'
<1>1. pc[c] = "run" /\ UNCHANGED <<config, file, writing, manager, written, faults>>
  BY HandlerCases
<1>2. CASE Go(c, "getdb") /\ UNCHANGED <<call, answer, known>>
  BY <1>1, <1>2, GoTypes DEF Inv, manager, TypeOK, Places, After
<1>3. CASE Answer(c, "failed") \/ Answer(c, "ok")
  BY <1>1, <1>3, AnswerTypes DEF Inv, manager, TypeOK, Places, After, Answers
<1> QED
  BY <1>2, <1>3, HandlerCases

LEMMA CrashTypes ==
    ASSUME TypeOK, Crash
    PROVE  TypeOK'
<1>1. faults \in 0..MaxFaults /\ faults < MaxFaults /\ faults' = faults + 1
  BY DEF Crash, TypeOK
<1>2. faults' \in 0..MaxFaults
  BY <1>1, ToolServerAssumption
<1> QED
  BY <1>2, NoCallIsARequest, StartTypes DEF Crash, TypeOK

LEMMA NextTypes == Inv /\ Next => TypeOK'
  BY ReceiveTypes, ValidationTypes, HandlerTypes, ManagerTypes, CrashTypes
     DEF Next, Validate, GetMu, Inv

-----------------------------------------------------------------------------
(* Every step is of one of the kinds.                                      *)

LEMMA AnswerIsQuiet ==
    ASSUME Inv, NEW c \in Callers, NEW text \in Answers, Answer(c, text),
           UNCHANGED <<config, file, opened, written>>
    PROVE  Quiet(c)
  BY DEF Inv, TypeOK, Answer, Go, Quiet, Others, Ends

\* A call that was let through goes on.
LEMMA GoIsQuiet ==
    ASSUME Inv, NEW c \in Callers, pc[c] \in After, NEW place \in After, Go(c, place),
           UNCHANGED <<config, file, answer, known, written>>,
           call' = call \/ call' = [call EXCEPT ![c].args = "plain"],
           opened' \in {opened, opened \cup {ProjectOf(call[c])}}
    PROVE  Quiet(c)
<1>1. Others(c)
  BY DEF Inv, TypeOK, Go, Others
<1>2. call'[c].project = call[c].project
  BY DEF Inv, TypeOK, Request
<1>3. GoesOn(c)
  BY <1>2 DEF Inv, TypeOK, Go, GoesOn
<1> QED
  BY <1>1, <1>3 DEF Quiet

LEMMA ManagerIsQuiet ==
    ASSUME Inv, NEW c \in Callers,
           \/ GetDB(c) \/ Lock(c) \/ PoolStats(c) \/ OpenProject(c)
           \/ GetDBAgain(c) \/ FinishEntities(c) \/ Finish(c)
    PROVE  Quiet(c)
<1> USE DEF manager
<1>1. CASE GetDB(c)
  <2>1. PICK place \in {"work", "lock"} : Go(c, place)
    BY <1>1 DEF GetDB
  <2> QED
    BY <1>1, <2>1, GoIsQuiet DEF GetDB, After
<1>2. CASE Lock(c)
  <2>1. PICK place \in {"work", "open"} : Go(c, place)
    BY <1>2 DEF Lock
  <2> QED
    BY <1>2, <2>1, GoIsQuiet DEF Lock, After
<1>3. CASE PoolStats(c)
  BY <1>3, AnswerIsQuiet DEF PoolStats, Answers
<1>4. CASE OpenProject(c)
  BY <1>4, AnswerIsQuiet, GoIsQuiet DEF OpenProject, After, Answers
<1>5. CASE GetDBAgain(c)
  BY <1>5, GoIsQuiet DEF GetDBAgain, After
<1>6. CASE FinishEntities(c)
  BY <1>6, GoIsQuiet DEF FinishEntities, After
<1>7. CASE Finish(c)
  BY <1>7, AnswerIsQuiet DEF Finish, Answers
<1> QED
  BY <1>1, <1>2, <1>3, <1>4, <1>5, <1>6, <1>7

LEMMA HandlerIsQuiet ==
    ASSUME Inv, NEW c \in Callers, Handler(c)
    PROVE  Quiet(c)
  BY HandlerCases, AnswerIsQuiet, GoIsQuiet DEF manager, After, Answers

LEMMA ReceiveIsQuiet ==
    ASSUME Inv, NEW c \in Callers, NEW r \in Requests[c],
           Receive(c, r) \/ RefuseUnnamed(c, r) \/ Health(c, r)
    PROVE  Quiet(c)
<1> USE DEF manager
<1>1. CASE Receive(c, r)
  <2>1. r \in Request
    BY ToolServerAssumption
  <2>2. ProjectOf(r) \in Names /\ (TokenChecked(r) => TokenProject(r) \in Projects)
    BY <1>1, <2>1, NamedCall DEF Receive
  <2>3. call'[c] = r /\ Others(c) /\ answer'[c] = "none"
    BY <1>1 DEF Inv, TypeOK, Receive, Go, Others
  <2>4. Starts(c)
    BY <1>1, <2>2, <2>3 DEF Inv, TypeOK, Receive, Go, Starts
  <2> QED
    BY <1>1, <2>3, <2>4 DEF Receive, Quiet
<1>2. CASE RefuseUnnamed(c, r)
  BY <1>2, AnswerIsQuiet DEF RefuseUnnamed, Answers
<1>3. CASE Health(c, r)
  BY <1>3 DEF Inv, TypeOK, Health, Go, Quiet, Others, Starts
<1> QED
  BY <1>1, <1>2, <1>3

LEMMA ValidationIsQuiet ==
    ASSUME Inv, NEW c \in Callers,
           \/ Admit(c) \/ Refuse(c) \/ TakeToken(c) \/ DrawToken(c)
           \/ RefuseWithoutToken(c) \/ FileFault(c)
    PROVE  Quiet(c)
<1> USE DEF manager
<1>1. CASE Admit(c)
  BY <1>1 DEF Inv, TypeOK, Admit, Go, Quiet, Others, GoesOn
<1>2. CASE Refuse(c)
  BY <1>2, AnswerIsQuiet DEF Refuse, Answers
<1>3. CASE TakeToken(c)
  BY <1>3 DEF Inv, TypeOK, TakeToken, Go, Quiet, Others, GoesOn
<1>4. CASE DrawToken(c)
  BY <1>4 DEF Inv, TypeOK, DrawToken, Go, Quiet, Others, GoesOn, Uninitialised
<1>5. CASE RefuseWithoutToken(c)
  BY <1>5, AnswerIsQuiet DEF RefuseWithoutToken, Answers
<1>6. CASE FileFault(c)
  BY <1>6, AnswerIsQuiet DEF FileFault, Answers
<1> QED
  BY <1>1, <1>2, <1>3, <1>4, <1>5, <1>6

LEMMA InitInv == Init => Inv
<1> SUFFICES ASSUME Init PROVE Rest
  BY InitTypes DEF Inv
<1>1. /\ \A c \in Callers : pc[c] = "idle" /\ known[c] = Absent
      /\ \A p \in Projects : file[p] = Absent
      /\ opened = AtStart
  BY DEF Init
<1>2. /\ RunningIsUnanswered /\ CallsHaveAProject /\ FileIsForChecking
      /\ PassedTheFile /\ KnownIsSettled
  BY <1>1 DEF RunningIsUnanswered, CallsHaveAProject, FileIsForChecking, PassedTheFile,
     KnownIsSettled, After
<1>3. FileIsWhole /\ DataHasATokenFile
  BY <1>1 DEF FileIsWhole, DataHasATokenFile, AtStart
<1> QED
  BY <1>2, <1>3 DEF Rest

LEMMA StepKeeps == Inv /\ Next => Rest' /\ Kept
<1> SUFFICES ASSUME Inv, Next, TypeOK' PROVE Rest' /\ Kept
  BY NextTypes
<1>1. CASE Crash
  BY <1>1, CrashKeeps
<1>2. CASE \E c \in Callers : Truncate(c)
  BY <1>2, TruncateKeeps
<1>3. CASE \E c \in Callers : Write(c)
  BY <1>3, WriteKeeps
<1>4. CASE \E c \in Callers : Quiet(c)
  BY <1>4, QuietKeeps
<1> QED
  BY <1>1, <1>2, <1>3, <1>4, HandlerIsQuiet, ReceiveIsQuiet, ValidationIsQuiet,
     ManagerIsQuiet DEF Next, Validate, GetMu

LEMMA StutterKeeps ==
    ASSUME Inv, UNCHANGED vars
    PROVE  Inv' /\ Kept
<1>1. TypeOK'
  BY DEF Inv, TypeOK, vars, manager
<1>2. /\ RunningIsUnanswered' /\ CallsHaveAProject' /\ FileIsForChecking' /\ PassedTheFile'
      /\ FileIsWhole' /\ DataHasATokenFile'
  BY DEF Inv, Rest, vars, manager, RunningIsUnanswered, CallsHaveAProject, FileIsForChecking,
         PassedTheFile, FileIsWhole, DataHasATokenFile, ProjectOf,
         TokenProject, TokenChecked
<1>3. KnownIsSettled' /\ Kept
  BY DEF Inv, Rest, vars, KnownIsSettled, Kept, Settled, Writers, ProjectOf,
         TokenProject, TokenChecked
<1> QED
  BY <1>1, <1>2, <1>3 DEF Inv, Rest

LEMMA Invariance == Inv /\ [Next]_vars => Inv' /\ Kept
  BY StepKeeps, StutterKeeps, NextTypes DEF Inv

LEMMA AlwaysInv == Spec => []Inv
  BY InitInv, Invariance, PTL DEF Spec

\* What a step may do for a call that has yet to read the file, which is settled.
Decided(c) ==
    pc[c] = "read" /\ known[c] # Absent =>
        /\ pc'[c] \in {"read", "run", "idle"}
        /\ pc'[c] = "run" => call[c].token = known[c]
        /\ answer'[c] \in {"unauthorized", "no token"} => call[c].token # known[c]

LEMMA StepDecides ==
    ASSUME Inv, [Next]_vars, NEW c \in Callers
    PROVE  Decided(c)
<1> SUFFICES ASSUME pc[c] = "read", known[c] # Absent
             PROVE  /\ pc'[c] \in {"read", "run", "idle"}
                    /\ pc'[c] = "run" => call[c].token = known[c]
                    /\ answer'[c] \in {"unauthorized", "no token"} => call[c].token # known[c]
  BY DEF Decided
<1>1. answer[c] = "none"
  BY DEF Inv, Rest, RunningIsUnanswered
<1>2. file[TokenProject(call[c])] = known[c] /\ ~Uninitialised(known[c])
  BY DEF Inv, Rest, KnownIsSettled, Settled, Uninitialised
<1>3. CASE UNCHANGED vars
  BY <1>1, <1>3 DEF vars
<1>4. CASE Crash
  BY <1>1, <1>4 DEF Crash
<1>5. ASSUME NEW d \in Callers, d # c, Quiet(d) \/ Truncate(d) \/ Write(d)
      PROVE  pc'[c] = "read" /\ answer'[c] = "none"
  BY <1>1, <1>5 DEF Inv, TypeOK, Quiet, Others, Truncate, Write, Go, Answer
<1>6. CASE Admit(c)
  BY <1>1, <1>2, <1>6 DEF Inv, TypeOK, Admit, Go, Matches
<1>7. CASE Refuse(c)
  BY <1>2, <1>7 DEF Inv, TypeOK, Refuse, Answer, Go, Matches
<1>8. CASE FileFault(c)
  BY <1>8 DEF Inv, TypeOK, FileFault, Answer, Go
<1>9. ~TakeToken(c) /\ ~DrawToken(c) /\ ~RefuseWithoutToken(c)
  BY <1>2 DEF TakeToken, DrawToken, RefuseWithoutToken, Uninitialised
<1>10. ~Truncate(c) /\ ~Write(c)
  BY DEF Truncate, Write
<1>11. ~Handler(c)
  BY HandlerCases
<1>14. /\ ~GetDB(c) /\ ~Lock(c) /\ ~PoolStats(c) /\ ~OpenProject(c)
       /\ ~GetDBAgain(c) /\ ~FinishEntities(c) /\ ~Finish(c)
  BY DEF GetDB, Lock, PoolStats, OpenProject, GetDBAgain, FinishEntities, Finish
<1>12. \A r \in Requests[c] : ~Receive(c, r) /\ ~RefuseUnnamed(c, r) /\ ~Health(c, r)
  BY DEF Receive, RefuseUnnamed, Health
<1>13. CASE \E d \in Callers : d # c /\ (Quiet(d) \/ Truncate(d) \/ Write(d))
  BY <1>5, <1>13
<1> QED
  BY <1>3, <1>4, <1>6, <1>7, <1>8, <1>9, <1>10, <1>11, <1>12, <1>13, <1>14,
     HandlerIsQuiet, ReceiveIsQuiet, ValidationIsQuiet, ManagerIsQuiet DEF Next, Validate, GetMu

-----------------------------------------------------------------------------
(* The theorems.                                                           *)

\* Files hold tokens or are absent, a call that writes has a token to write, the
\* history variables record tokens: for every run of a server.
THEOREM ServerTypeCorrect == Spec => []TypeOK
<1>1. Inv => TypeOK
  BY DEF Inv
<1> QED
  BY <1>1, AlwaysInv, PTL

\* Where tokens are required, every name a database was opened under trims to a project
\* with a token file.
THEOREM DataIsGuarded == Spec => []DataHasATokenFile
<1>1. Inv => DataHasATokenFile
  BY DEF Inv, Rest
<1> QED
  BY <1>1, AlwaysInv, PTL

\* A settled token is one that was written, if those written are equally long.
THEOREM TokensAreWhole == Spec => []TokenIsWhole
<1>1. Inv => TokenIsWhole
  BY DEF Inv, Rest, FileIsWhole, TokenIsWhole, Settled
<1> QED
  BY <1>1, AlwaysInv, PTL

\* No step changes a settled token, or unsettles it.
THEOREM TokensAreKept == Spec => TokenKept
<1>1. Inv /\ [Next]_vars => [\A p \in Projects : Settled(p) => file'[p] = file[p] /\ Settled(p)']_vars
  BY Invariance DEF Kept
<1> QED
  BY <1>1, AlwaysInv, PTL DEF Spec, TokenKept

\* A call made when the project has its token goes on with that token only, and
\* with it is not refused.
THEOREM SettledTokenDecides == Spec => TokenDecides
<1>1. Inv /\ [Next]_vars =>
         [\A c \in Callers :
             pc[c] = "read" /\ known[c] # Absent =>
                /\ pc'[c] \in {"read", "run", "idle"}
                /\ pc'[c] = "run" => call[c].token = known[c]
                /\ answer'[c] \in {"unauthorized", "no token"} => call[c].token # known[c]]_vars
  BY StepDecides DEF Decided
<1> QED
  BY <1>1, AlwaysInv, PTL DEF Spec, TokenDecides
=============================================================================
