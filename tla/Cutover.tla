------------------------------ MODULE Cutover ------------------------------
(***************************************************************************)
(* What an etcd restore promises (internal/rescue, docs/RESCUE.md): the    *)
(* servers taking part go from the old data to the restored data as one.   *)
(* While the old data is served, servers come and go; the cut happens when *)
(* none of them serves it, but for those khealth has warned that an etcd   *)
(* is left on; afterwards servers start on the restored data only, and the *)
(* old data never comes back: those few only end.                          *)
(***************************************************************************)
CONSTANT Server

VARIABLES
    old,    \* the servers serving the data from before the restore
    new,    \* the servers serving the restored data
    warned, \* of the first, those where an etcd has outlived a stop that warned of it
    cut     \* the old data is moved aside on every server

Init ==
    /\ old \subseteq Server
    /\ new = {} /\ warned = {}
    /\ cut = FALSE

\* Before the cut: servers stop, or start again on the old data.
Before ==
    /\ ~cut
    /\ old' \subseteq Server /\ warned' \subseteq old'
    /\ UNCHANGED <<new, cut>>

\* The last server's old data is moved aside while nobody else serves it.
Cut ==
    /\ ~cut /\ old = warned
    /\ cut' = TRUE
    /\ UNCHANGED <<old, new, warned>>

\* After the cut: servers start and stop on the restored data; what is left of
\* the old one ends.
After ==
    /\ cut
    /\ new' \subseteq Server
    /\ old' \subseteq old /\ warned' = old'
    /\ UNCHANGED cut

Next == Before \/ Cut \/ After

Spec == Init /\ [][Next]_<<old, new, warned, cut>>
=============================================================================
