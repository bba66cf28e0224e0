----------------------------- MODULE Incidents -----------------------------
(***************************************************************************)
(* The Incidents tab (internal/ui/incidents.go): what khealth cannot       *)
(* reach, the list built from it and the context of an opened incident,    *)
(* which a command reads through the API.                                  *)
(*                                                                         *)
(* rca.Extract numbers the incidents of each kind from the newest on, anew *)
(* whenever the list is built.  The SSH failures stand for every kind:     *)
(* their source is the loop's own state.  Filters, cursors and panes are   *)
(* left out, and so are the journals, whose lines also rebuild the list.   *)
(***************************************************************************)
EXTENDS Naturals, Sequences, SequencesExt, FiniteSets

CONSTANTS
    Hosts,    \* node names
    Listings, \* the lists of nodes a snapshot brings, {} among them
    MaxAsked, \* bound on the contexts being read when another is asked for
    None      \* no snapshot, no list, no context

IncidentsAssumption ==
    /\ IsFiniteSet(Hosts) /\ None \notin Hosts
    /\ {} \in Listings /\ Listings \subseteq SUBSET Hosts
    /\ MaxAsked \in Nat

VARIABLES
    snap,     \* the nodes App.snap lists
    known,    \* the nodes with an entry in App.nodes
    sshDown,  \* the nodes of App.sshDown, the latest to fail first
    apiDown,  \* App.apiDown is set
    tabOpen,  \* the Incidents tab is on the screen
    incList,  \* inc.list: the nodes of its SSH failures, and whether it has an API outage
    builtOf,  \* inc.builtOf without the snapshot's time: None when that has moved
    openInc,  \* inc.open: the number of the SSH failure shown, 0 for the list
    ctx,      \* inc.ctx: the node whose context is kept under each number
    asked     \* contexts being read: the number and the node they were asked for

vars == <<snap, known, sshDown, apiDown, tabOpen, incList, builtOf, openInc, ctx, asked>>
reachVars == <<snap, known, sshDown, apiDown>>

Id == 1..Cardinality(Hosts)
NodeSeq == SeqOf(Hosts, Cardinality(Hosts))

TypeOK ==
    /\ snap \in Listings \cup {None}
    /\ known \subseteq Hosts
    /\ sshDown \in NodeSeq
    /\ apiDown \in BOOLEAN /\ tabOpen \in BOOLEAN
    /\ incList \in [ssh : NodeSeq, api : BOOLEAN]
    /\ builtOf \in [ssh : 0..Cardinality(Hosts), api : BOOLEAN] \cup {None}
    /\ openInc \in 0..Cardinality(Hosts)
    /\ ctx \in [Id -> Hosts \cup {None}]
    /\ asked \subseteq [id : Id, node : Hosts]

-----------------------------------------------------------------------------
NoContext == [i \in Id |-> None]

Init ==
    /\ snap = None
    /\ known = {}
    /\ sshDown = <<>>
    /\ apiDown = FALSE
    /\ tabOpen = FALSE
    /\ incList = [ssh |-> <<>>, api |-> FALSE]
    /\ builtOf = None
    /\ openInc = 0
    /\ ctx = NoContext
    /\ asked = {}

\* sshEntries and Extract: the nodes the cluster lists; all of them in an outage.
SSHEntries(down, listed) ==
    SelectSeq(down, LAMBDA n : listed = {} \/ n \in listed)

\* Mutant of View: the list is built under an incident that is open.
ViewRebuilds(built, contexts) ==
    LET key == [ssh |-> Len(sshDown'), api |-> apiDown']
    IN IF tabOpen' /\ snap' # None /\ key # built
       THEN /\ incList' = [ssh |-> SSHEntries(sshDown', snap'), api |-> apiDown']
            /\ builtOf' = key
            /\ ctx' = NoContext
       ELSE incList' = incList /\ builtOf' = built /\ ctx' = contexts

\* The frame drawn after every message: incidentsContent calls incRefresh,
\* which builds the list when the snapshot or the *number* of failures moved,
\* and keeps the one an open incident is from.
View(built, contexts) ==
    LET key == [ssh |-> Len(sshDown'), api |-> apiDown']
    IN IF tabOpen' /\ snap' # None /\ openInc' = 0 /\ key # built
       THEN /\ incList' = [ssh |-> SSHEntries(sshDown', snap'), api |-> apiDown']
            /\ builtOf' = key
            /\ ctx' = NoContext
       ELSE incList' = incList /\ builtOf' = built /\ ctx' = contexts

-----------------------------------------------------------------------------
(* The messages that say what is reached *)

Without(down, nodes) == SelectSeq(down, LAMBDA n : n \notin nodes)

\* snapshotMsg: noteAPI (an empty list is an outage if the errors say that the
\* API did not answer), and when nodes are listed those that left are forgotten.
SnapshotMsg(listed, down) ==
    /\ down => listed = {}
    /\ snap' = listed
    /\ apiDown' = down
    /\ LET gone == IF listed = {} THEN {} ELSE known \ listed
       IN known' = known \ gone /\ sshDown' = Without(sshDown, gone)
    /\ UNCHANGED <<tabOpen, openInc, asked>>
    /\ View(None, ctx)

\* nodeMsg: noteSSH.  A failure keeps the time of the first one.
NodeMsg(n, ok) ==
    /\ snap # None
    /\ known' = known \cup {n}
    /\ sshDown' = IF ok THEN Without(sshDown, {n})
                  ELSE IF Contains(sshDown, n) THEN sshDown ELSE <<n>> \o sshDown
    /\ UNCHANGED <<snap, apiDown, tabOpen, openInc, asked>>
    /\ View(builtOf, ctx)

\* switchContext: the failures, the outage and the whole of inc stay.
SwitchContext ==
    /\ snap' = None
    /\ known' = {}
    /\ UNCHANGED <<sshDown, apiDown, tabOpen, openInc, asked>>
    /\ View(builtOf, ctx)

-----------------------------------------------------------------------------
(* The tab *)

ToggleTab ==
    /\ tabOpen' = ~tabOpen
    /\ UNCHANGED <<reachVars, openInc, asked>>
    /\ View(builtOf, ctx)

\* openIncident, from the list or from the row of a related incident in a pane:
\* the context that is kept is shown, otherwise it is asked for.  Asking twice
\* for the same brings the same.
OpenIncident(i) ==
    /\ tabOpen /\ snap # None
    /\ i \in DOMAIN incList.ssh
    /\ openInc # 0 => ctx[openInc] # None /\ i # openInc
    /\ Cardinality(asked) < MaxAsked
    /\ openInc' = i
    /\ asked' = IF ctx[i] # None THEN asked
                ELSE asked \cup {[id |-> i, node |-> incList.ssh[i]]}
    /\ UNCHANGED <<reachVars, tabOpen>>
    /\ View(builtOf, ctx)

CloseIncident ==
    /\ tabOpen /\ snap # None /\ openInc # 0
    /\ openInc' = 0
    /\ UNCHANGED <<reachVars, tabOpen, asked>>
    /\ View(builtOf, ctx)

\* incCtxMsg: kept under its number, whatever that number is now.
IncCtxMsg(m) ==
    /\ m \in asked
    /\ asked' = asked \ {m}
    /\ UNCHANGED <<reachVars, tabOpen, openInc>>
    /\ View(builtOf, [ctx EXCEPT ![m.id] = m.node])

Snapshots == \E listed \in Listings, down \in BOOLEAN : SnapshotMsg(listed, down)

Next ==
    \/ Snapshots
    \/ \E n \in Hosts, ok \in BOOLEAN : NodeMsg(n, ok)
    \/ SwitchContext
    \/ ToggleTab
    \/ \E i \in Id : OpenIncident(i)
    \/ CloseIncident
    \/ \E m \in asked : IncCtxMsg(m)

Spec == Init /\ [][Next]_vars

\* The refresh chain goes on, and the calls a context makes end within 20 s each.
Fairness ==
    /\ WF_vars(Snapshots)
    /\ \A i \in Id, n \in Hosts : WF_vars(IncCtxMsg([id |-> i, node |-> n]))

FairSpec == Spec /\ Fairness

-----------------------------------------------------------------------------
\* An incident that stays open gets its context: no rebuild of the list under it
\* throws away what was read for it (incRefresh keeps the list of an open one).
OpenedIsExplained == \A i \in Id : openInc = i ~> (openInc # i \/ ctx[i] # None)

\* While the tab shows the list, a failure or an outage that begins or ends is
\* on it or off it in the end, although the list is only built when the
\* snapshot or the number of failures has moved.
ListCatchesUp ==
    LET showsList == tabOpen /\ snap # None /\ openInc = 0
    IN showsList ~> \/ ~showsList
                    \/ incList = [ssh |-> SSHEntries(sshDown, snap), api |-> apiDown]

\* The panes explain the incident that is open: the context kept under its
\* number is its own.  (Incident.ID is "stable within one analysis".)
ContextIsItsIncident ==
    openInc # 0 /\ ctx[openInc] # None => ctx[openInc] = incList.ssh[openInc]

=============================================================================
