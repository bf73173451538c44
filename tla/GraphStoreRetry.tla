--------------------------- MODULE GraphStoreRetry ---------------------------
(***************************************************************************)
(* A client that issues the call it has just had answered once more, as an *)
(* MCP client does when the answer did not reach it.                       *)
(***************************************************************************)
EXTENDS GraphStoreRefinement
LOCAL INSTANCE SequencesExt

VARIABLE last     \* the last call answered "ok", and the graph it left

\* The contents of the observations of n, ORDER BY id.
Listed(g, n) ==
    LET rows == SetToSortSeq(NotesOf(g, n), LAMBDA o, p : o.id < p.id)
    IN  [i \in DOMAIN rows |-> rows[i].content]

\* What a reader sees of the tables: no ids.
Contents(g) ==
    [entities |-> g.entities,
     notes |-> [n \in {o.entity : o \in g.observations} |-> Listed(g, n)],
     links |-> LinksIn(g)]

Ends(c) == Busy(c) /\ session'[c].answer # "none"

RetryInit == Init /\ last = [req |-> NoCall, left |-> Contents(NoRows)]

RetryNext ==
    /\ Next
    /\ IF \E c \in Clients : Ends(c) /\ session'[c].answer = "ok"
       THEN \E c \in Clients : Ends(c) /\ last' = [req |-> Req(c), left |-> Contents(db')]
       ELSE last' = IF db' # db /\ \E c \in Clients : Busy(c) /\ Req(c) # last.req
                    THEN [req |-> NoCall, left |-> Contents(NoRows)] ELSE last

RetrySpec == RetryInit /\ [][RetryNext]_<<vars, last>>

\* Issuing a call that was answered "ok" again, with no other call in between,
\* leaves the graph a reader sees as it was.
RetryIsIdempotent ==
    [][ \A c \in Clients :
            Ends(c) /\ Req(c) = last.req => Contents(db') = last.left ]_<<vars, last>>

=============================================================================
