---------------------------- MODULE RefreshChain ----------------------------
(***************************************************************************)
(* The refresh chain of ui.App (internal/ui/app.go).                       *)
(*                                                                         *)
(* One goroutine owns the App; everything slow runs as a command in a      *)
(* goroutine of its own and comes back as a message.  A refresh is a chain *)
(* of such messages: refreshCmd moves seq and asks the API for a snapshot, *)
(* the snapshotMsg arms a tick, the tickMsg starts the next refresh.  A    *)
(* message carries the seq it was asked under and is dropped when seq has  *)
(* moved since, so a chain that loses its live message never refreshes     *)
(* again, and one with two live messages refreshes twice.                  *)
(*                                                                         *)
(* The other modules of the update loop extend this one and conjoin their  *)
(* own part of the same handlers to its actions.                           *)
(***************************************************************************)
EXTENDS Naturals

CONSTANTS
    Cluster,   \* the kubeconfig contexts the app can be pointed at
    NoCluster, \* "no snapshot yet" (a.snap == nil)
    MaxSeq     \* bound on the refreshes of one behaviour

ASSUME ClusterAssumption == NoCluster \notin Cluster
ASSUME MaxSeqAssumption == MaxSeq \in Nat \ {0}

VARIABLES
    seq,        \* App.seq: numbers one refresh
    refreshing, \* App.refreshing: a fetch of this seq is in flight
    cluster,    \* the cluster App.client talks to
    snapFrom,   \* the cluster App.snap was fetched from, NoCluster when nil
    fetches,    \* snapshotMsg commands in flight: the seq and the client asked
    ticks       \* the seqs of the armed tickMsg timers

chainVars == <<seq, refreshing, cluster, snapFrom, fetches, ticks>>

Fetch == [seq : 1..MaxSeq, from : Cluster]

ChainTypeOK ==
    /\ seq \in 1..MaxSeq
    /\ refreshing \in BOOLEAN
    /\ cluster \in Cluster
    /\ snapFrom \in Cluster \cup {NoCluster}
    /\ fetches \subseteq Fetch
    /\ ticks \subseteq 1..MaxSeq

-----------------------------------------------------------------------------
\* New, then Init's refreshCmd.
ChainInit ==
    /\ seq = 1
    /\ refreshing = TRUE
    /\ cluster \in Cluster
    /\ snapFrom = NoCluster
    /\ fetches = {[seq |-> 1, from |-> cluster]}
    /\ ticks = {}

\* refreshCmd: s is the value of seq it starts from, c the client it asks.
RefreshCmd(s, c) ==
    /\ s < MaxSeq
    /\ seq' = s + 1
    /\ refreshing' = TRUE
    /\ fetches' = fetches \cup {[seq |-> s + 1, from |-> c]}

\* The guard the keys r and R, a finished action, a closed rescue and a
\* successful API failover share: refresh unless one is already running.
RefreshUnlessRunning ==
    \/ /\ ~refreshing
       /\ RefreshCmd(seq, cluster)
       /\ UNCHANGED <<cluster, snapFrom, ticks>>
    \/ /\ refreshing
       /\ UNCHANGED chainVars

\* The armed timer fires: tickMsg, accepted for the current seq only.
TickMsg(s) ==
    /\ s \in ticks
    /\ ticks' = ticks \ {s}
    /\ UNCHANGED <<cluster, snapFrom>>
    /\ IF s = seq /\ ~refreshing
         THEN RefreshCmd(seq, cluster)
         ELSE UNCHANGED <<seq, refreshing, fetches>>

\* The snapshotMsg f is the one the current refresh waits for.
Current(f) == f.seq = seq

\* Mutant of SnapshotMsg: the tick carries the seq it will start.
SnapshotMsgTicksAhead(f) ==
    /\ f \in fetches
    /\ fetches' = fetches \ {f}
    /\ UNCHANGED <<seq, cluster>>
    /\ IF Current(f)
         THEN /\ snapFrom' = f.from
              /\ refreshing' = FALSE
              /\ ticks' = ticks \cup {seq + 1}
         ELSE UNCHANGED <<snapFrom, refreshing, ticks>>

\* A fetch ends (its context gives it 90 s): snapshotMsg, then tickCmd.
SnapshotMsg(f) ==
    /\ f \in fetches
    /\ fetches' = fetches \ {f}
    /\ UNCHANGED <<seq, cluster>>
    /\ IF Current(f)
         THEN /\ snapFrom' = f.from
              /\ refreshing' = FALSE
              /\ ticks' = ticks \cup {seq}
         ELSE UNCHANGED <<snapFrom, refreshing, ticks>>

\* Mutant of SwitchChain: the refresh of the new cluster is left to the timer.
SwitchWithoutRefresh(c) ==
    /\ seq < MaxSeq
    /\ seq' = seq + 1
    /\ refreshing' = FALSE
    /\ cluster' = c
    /\ snapFrom' = NoCluster
    /\ UNCHANGED <<fetches, ticks>>

\* switchContext: the snapshot is dropped, seq moves and the first refresh of
\* the new cluster starts at once.
SwitchChain(c) ==
    /\ RefreshCmd(seq + 1, c)
    /\ cluster' = c
    /\ snapFrom' = NoCluster
    /\ UNCHANGED ticks

\* At the bound the timer of the last refresh has nothing left to start.
AtMaxSeq ==
    /\ seq = MaxSeq
    /\ ~refreshing
    /\ UNCHANGED chainVars

ChainNext ==
    \/ RefreshUnlessRunning
    \/ \E s \in ticks : TickMsg(s)
    \/ \E f \in fetches : SnapshotMsg(f)
    \/ \E c \in Cluster : SwitchChain(c)
    \/ AtMaxSeq

ChainSpec == ChainInit /\ [][ChainNext]_chainVars

\* Every fetch has a 90 s context and every timer fires, so both deliver.
ChainFairness ==
    /\ WF_chainVars(\E f \in fetches : SnapshotMsg(f))
    /\ WF_chainVars(\E s \in ticks : TickMsg(s))

FairChainSpec == ChainSpec /\ ChainFairness

-----------------------------------------------------------------------------
\* The refresh chain has exactly one live message at all times: the snapshot
\* of the current seq while refreshing, the tick of the current seq
\* otherwise.  Losing it would stop the refreshes for good (tickMsg and
\* snapshotMsg drop what is not of the current seq); a second one would run
\* two chains side by side.
OneLiveMessage ==
    /\ refreshing <=> \E f \in fetches : Current(f)
    /\ seq \in ticks <=> ~refreshing
    /\ \A f, g \in fetches : f.seq = g.seq => f = g

\* What is shown was fetched from the cluster the app is attached to: a
\* snapshot asked of the previous cluster is never adopted after
\* switchContext, however late it lands.
NoForeignSnapshot == snapFrom \in {NoCluster, cluster}

\* The refreshes never stop, whatever keys and context switches come in
\* between: the bound is reached, and every seq below it on the way.
RefreshesForever == <>(seq >= MaxSeq)
=============================================================================
