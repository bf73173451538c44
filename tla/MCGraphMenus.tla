---------------------------- MODULE MCGraphMenus ----------------------------
\* Concurrent clients that issue the calls of one menu: batches over entities,
\* batches over the two other tables, or, one client at a time, calls that are
\* issued again.
EXTENDS GraphStoreRetry, MCGraphCalls

VARIABLE menu

\* Clients are interchangeable.
Symmetry == Permutations(Clients)

Menu == [entities |-> EntityCalls, facts |-> FactCalls, repeats |-> RepeatableCalls]
MenuCalls == UNION {Menu[m] : m \in DOMAIN Menu}

MenuInit == RetryInit /\ menu \in DOMAIN Menu

MenuNext ==
    /\ IF menu = "repeats"
       THEN RetryNext /\ \A c, d \in Clients : Busy(c)' /\ Busy(d)' => c = d
       ELSE Next /\ UNCHANGED last
    /\ \A c \in Clients : session'[c].req \in Menu[menu] \cup {NoCall}
    /\ UNCHANGED menu

MenuSpec == MenuInit /\ [][MenuNext]_<<vars, last, menu>>
=============================================================================
