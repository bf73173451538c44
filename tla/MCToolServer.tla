---------------------------- MODULE MCToolServer ----------------------------
(* Two calls at a time, a project, also named with a space, a name of spaces *)
(* only, the default project, and tokens of one and two characters.         *)
EXTENDS ToolServer

CONSTANTS c1, proj, home, padded, spaces, x, y

Trimmed ==
    [n \in Names \cup {NoName} |->
        CASE n = padded -> proj [] n = spaces -> NoName [] OTHER -> n]

T1 == <<x>>
T2 == <<y>>
T3 == <<y, y>>

DrawnTokens == {T1, T3}

Base == [tool |-> "create_entities", project |-> proj, token |-> T1, args |-> "plain"]

\* One tool with and without a token, under two names for one project ...
Named ==
    {[Base EXCEPT !.token = t] : t \in {Blank, T1}}
    \cup {[Base EXCEPT !.project = padded, !.token = T2]}

\* ... and every tool without a name, or with one of spaces: one reads in two steps, its
\* handler answers another.
NoNames ==
    {[Base EXCEPT !.tool = t, !.project = NoName] : t \in Tools}
    \cup {[Base EXCEPT !.tool = "open_nodes", !.project = NoName, !.args = "relations"]}
    \cup {[Base EXCEPT !.tool = "add_observations", !.project = NoName, !.args = a] :
             a \in {"no entity", "no observations"}}
    \cup {[Base EXCEPT !.project = spaces]}

ManyRequests == [c \in Callers |-> IF c = c1 THEN Named \cup NoNames ELSE Named]

\* Single-project mode; tokens not required; required; and made when missing.
AllConfigs == {[multi |-> FALSE, required |-> TRUE, auto |-> FALSE],
               [multi |-> TRUE, required |-> FALSE, auto |-> FALSE],
               [multi |-> TRUE, required |-> TRUE, auto |-> FALSE],
               [multi |-> TRUE, required |-> TRUE, auto |-> TRUE]}
=============================================================================
