-------------------------------- MODULE Tiers --------------------------------
(***************************************************************************)
(* Which demand tiers a node probe carries and what becomes of their facts *)
(* (internal/ui/collect.go, the snapshot and node cases of App.update,     *)
(* Info.MergeTiers and Info.MergeConfig, the coalesced recompute).         *)
(*                                                                         *)
(* A light probe runs every cycle; the journal, the image inventory, the   *)
(* PV usage and the config facts ride on it only when a tab shows them and *)
(* they are stale, on R, below the journal's background floor, or on first *)
(* contact.  A probe that leaves a tier out takes it over from the probe   *)
(* before.  Ages count in steps: fresh, older than tierCadence, older than *)
(* journal_background, never.  Facts are reduced to whether they arrived,  *)
(* whether they arrived whole, and one illness of the node's light facts.  *)
(* The SSH toggle and the context switch are UpdateLoop's.                 *)
(***************************************************************************)
EXTENDS Naturals, FiniteSets

CONSTANTS
    Nodes,     \* node names; the cluster has others that never leave
    EtcdNodes, \* the nodes the etcd probe runs on too
    Tier,      \* the demand tiers, "journal" and "config" among them
    Tabs,      \* what the tabs need: sets of tiers (tabNeeds)
    Pinned,    \* collect.always
    None       \* no facts, no probe

VARIABLES
    tab,        \* the tab on the screen, by what it needs
    heavyNext,  \* App.heavyNext
    knownNodes, \* App.knownNodes (none before the first snapshot)
    facts,      \* App.nodes
    collecting, \* App.pending and App.collecting: the tiers a running probe carries
    etcdPend,   \* App.etcdPend
    skip,       \* App.fp.skipUntil, relative to App.cycle
    shown,      \* App.findings
    timer       \* App.fp.recomputeTimer

tierVars == <<tab, heavyNext, knownNodes, facts, collecting, etcdPend, skip, shown, timer>>

Fresh == 0
Stale == 1
Old == 2
Never == 3

\* part: the tiers whose section was cut off by the end of the output.
Info == [err : BOOLEAN, ill : BOOLEAN, age : [Tier -> Fresh..Never], part : SUBSET Tier]

TiersAssumption == /\ {"journal", "config"} \subseteq Tier
                   /\ EtcdNodes \subseteq Nodes /\ Tabs \subseteq SUBSET Tier /\ {} \in Tabs /\ Pinned \subseteq Tier
                   /\ \A s \in SUBSET Tier : None # s
                   /\ None \notin Info

TierTypeOK ==
    /\ tab \in Tabs /\ heavyNext \in BOOLEAN /\ timer \in BOOLEAN
    /\ knownNodes \subseteq Nodes
    /\ facts \in [Nodes -> Info \cup {None}]
    /\ collecting \in [Nodes -> (SUBSET Tier) \cup {None}]
    /\ etcdPend \in [Nodes -> BOOLEAN]
    /\ skip \in [Nodes -> 0..2]
    /\ shown \subseteq Nodes \X {"ssh", "node"}

TierInit ==
    /\ tab = {} \* the Overview
    /\ heavyNext = TRUE
    /\ knownNodes = {}
    /\ facts = [n \in Nodes |-> None]
    /\ collecting = [n \in Nodes |-> None]
    /\ etcdPend = [n \in Nodes |-> FALSE]
    /\ skip = [n \in Nodes |-> 0]
    /\ shown = {}
    /\ timer = FALSE

-----------------------------------------------------------------------------
(* Which tiers                                                             *)

TierAge(n, t) == IF facts[n] = None THEN Never ELSE facts[n].age[t]
IsStale(n, t) == TierAge(n, t) >= Stale

NodeTiers(n, want, force) ==
    {t \in Tier : \/ force
                  \/ t \in want /\ IsStale(n, t)
                  \/ t = "journal" /\ TierAge(n, t) >= Old
                  \/ t = "config" /\ TierAge(n, t) = Never}

SkipProbe(n) == collecting[n] # None \/ etcdPend[n] \/ skip[n] > 0

Evaluate(ns) ==
    {f \in Nodes \X {"ssh", "node"} :
        /\ ns[f[1]] # None
        /\ IF ns[f[1]].err THEN f[2] = "ssh" ELSE f[2] = "node" /\ ns[f[1]].ill}

-----------------------------------------------------------------------------
(* The cycle                                                               *)

\* Mutant of CollectCmds: facts that are there are taken for fresh.
CollectMissing(targets, force, offline) ==
    LET due == {n \in targets : ~(collecting[n] # None \/ etcdPend[n] \/ skip'[n] > 0)} IN
    /\ collecting' = [n \in Nodes |->
                        IF n \in due THEN {t \in Tier : force \/ TierAge(n, t) = Never} ELSE collecting[n]]
    /\ etcdPend' = [n \in Nodes |-> etcdPend[n] \/ (n \in due /\ (offline \/ n \in EtcdNodes))]

\* collectCmds, with the backoff the new cycle leaves.
CollectCmds(targets, force, offline) ==
    LET due == {n \in targets : ~(collecting[n] # None \/ etcdPend[n] \/ skip'[n] > 0)} IN
    /\ collecting' = [n \in Nodes |-> IF n \in due THEN NodeTiers(n, tab \cup Pinned, force) ELSE collecting[n]]
    /\ etcdPend' = [n \in Nodes |-> etcdPend[n] \/ (n \in due /\ (offline \/ n \in EtcdNodes))]

\* The API answers with the nodes listed, or not at all (None): an outage erases nothing.
Snapshot(listed) ==
    /\ knownNodes' = IF listed = None THEN knownNodes ELSE listed
    /\ facts' = [n \in Nodes |-> IF n \in knownNodes' \/ listed = None THEN facts[n] ELSE None]
    /\ skip' = [n \in Nodes |-> IF skip[n] > 0 THEN skip[n] - 1 ELSE 0]
    /\ shown' = Evaluate(facts')
    /\ heavyNext' = FALSE
    /\ CollectCmds(knownNodes', heavyNext, listed = None)
    /\ UNCHANGED <<tab, timer>>

\* "R": everything, from every node, with the next snapshot.
PressR ==
    /\ heavyNext' = TRUE
    /\ UNCHANGED <<tab, knownNodes, facts, collecting, etcdPend, skip, shown, timer>>

\* onEnter's own filter: the tab's tiers, of nodes that have been probed.
EntryTiers(n, need) ==
    IF n \notin knownNodes \/ facts[n] = None \/ SkipProbe(n) THEN {}
    ELSE {t \in NodeTiers(n, need, FALSE) \cap need : t = "config" => TierAge(n, t) # Never}

\* A tab is opened, or opened again.
OnEnter(need) ==
    /\ tab' = need
    /\ collecting' = [n \in Nodes |-> IF EntryTiers(n, need) = {} THEN collecting[n] ELSE EntryTiers(n, need)]
    /\ UNCHANGED <<heavyNext, knownNodes, facts, etcdPend, skip, shown, timer>>

-----------------------------------------------------------------------------
(* The answers                                                             *)

\* Mutant of Merge: the times of collection are not carried over.
MergeNothing(n, got, part) ==
    [age |-> [t \in Tier |-> IF t \in got THEN Fresh ELSE Never],
     part |-> part \cup (IF facts[n] = None THEN {} ELSE facts[n].part \ got)]

\* MergeTiers and MergeConfig: what this probe did not bring is the previous probe's.
Merge(n, got, part) ==
    [age |-> [t \in Tier |-> IF t \in got THEN Fresh ELSE TierAge(n, t)],
     part |-> part \cup (IF facts[n] = None THEN {} ELSE facts[n].part \ got)]

\* Mutant of NodeMsg: the findings wait for the next snapshot.
NodeMsgNoRecompute(n, err, ill, got, part, slow) ==
    LET m == Merge(n, got, part) IN
    /\ collecting[n] # None
    /\ facts' = [facts EXCEPT ![n] = [err |-> err, ill |-> ill, age |-> m.age, part |-> m.part]]
    /\ collecting' = [collecting EXCEPT ![n] = None]
    /\ skip' = IF slow THEN [skip EXCEPT ![n] = 2] ELSE skip
    /\ UNCHANGED <<tab, heavyNext, knownNodes, etcdPend, shown, timer>>

\* nodeMsg; noteProbeDuration arms the backoff of a slow node.
NodeMsg(n, err, ill, got, part, slow) ==
    LET m == Merge(n, got, part) IN
    /\ collecting[n] # None
    /\ facts' = [facts EXCEPT ![n] = [err |-> err, ill |-> ill, age |-> m.age, part |-> m.part]]
    /\ collecting' = [collecting EXCEPT ![n] = None]
    /\ skip' = IF slow THEN [skip EXCEPT ![n] = 2] ELSE skip
    /\ timer' = TRUE
    /\ UNCHANGED <<tab, heavyNext, knownNodes, etcdPend, shown>>

\* The whole script ran.
Answered(n) ==
    \E ill, slow \in BOOLEAN : NodeMsg(n, FALSE, ill, collecting[n], {}, slow)

\* The session broke or ran into its deadline: some of the sections, the last one perhaps not whole.
CutOff(n) ==
    /\ collecting[n] # None
    /\ \E got \in SUBSET collecting[n] : \E part \in {p \in SUBSET got : Cardinality(p) <= 1} :
          \E slow \in BOOLEAN : NodeMsg(n, TRUE, FALSE, got, part, slow)

EtcdMsg(n) ==
    /\ etcdPend[n]
    /\ etcdPend' = [etcdPend EXCEPT ![n] = FALSE]
    /\ timer' = TRUE
    /\ UNCHANGED <<tab, heavyNext, knownNodes, facts, collecting, skip, shown>>

RecomputeMsg ==
    /\ timer
    /\ timer' = FALSE
    /\ shown' = Evaluate(facts)
    /\ UNCHANGED <<tab, heavyNext, knownNodes, facts, collecting, etcdPend, skip>>

\* Time passes: a tier of a node is due for the next thing.
GrowsOld(n, t) ==
    /\ facts[n] # None /\ facts[n].age[t] < (IF t = "journal" THEN Old ELSE Stale)
    /\ facts' = [facts EXCEPT ![n].age[t] = @ + 1]
    /\ UNCHANGED <<tab, heavyNext, knownNodes, collecting, etcdPend, skip, shown, timer>>

Cycle == \E listed \in (SUBSET Nodes) \cup {None} : Snapshot(listed)

TierNext ==
    \/ Cycle
    \/ PressR
    \/ \E need \in Tabs : OnEnter(need)
    \/ \E n \in Nodes : Answered(n) \/ CutOff(n) \/ EtcdMsg(n)
    \/ RecomputeMsg
    \/ \E n \in Nodes, t \in Tier : GrowsOld(n, t)

TierSpec == TierInit /\ [][TierNext]_tierVars

\* The refresh chain never stops (UpdateLoop.RefreshesForever), commands
\* answer within their deadline, and a node whose probe is repeated is
\* once not cut off.
TierFairness ==
    /\ WF_tierVars(Cycle)
    /\ WF_tierVars(RecomputeMsg)
    /\ \A n \in Nodes : /\ WF_tierVars(Answered(n) \/ CutOff(n))
                        /\ SF_tierVars(Answered(n))
                        /\ WF_tierVars(EtcdMsg(n))

FairTierSpec == TierSpec /\ TierFairness

-----------------------------------------------------------------------------
\* The ages the tabs print are true: between two sets of facts of a node the
\* age of a tier stays, grows by a step, or starts over because a probe that
\* was asked for that tier brought it; it is never forgotten.
AgesAreHonest ==
    [][\A n \in Nodes, t \in Tier :
         facts[n] # None /\ facts'[n] # None =>
           \/ facts'[n].age[t] = facts[n].age[t]
           \/ facts[n].age[t] < Old /\ facts'[n].age[t] = facts[n].age[t] + 1
           \/ facts'[n].age[t] = Fresh /\ t \in (IF collecting[n] = None THEN {} ELSE collecting[n])]_tierVars

\* What the open tab shows does not stay stale: a tier that is due on a node
\* of the cluster is collected, unless the tab or the node goes away first.
WantedIsRefreshed ==
    \A n \in Nodes, t \in Tier :
        (n \in knownNodes /\ t \in tab /\ IsStale(n, t)) ~> (~IsStale(n, t) \/ t \notin tab \/ n \notin knownNodes)

\* The findings on the screen are those of the facts collected, or a
\* recompute that makes them so is on its way.
ShownOrScheduled == shown = Evaluate(facts) \/ timer

\* nodeinfo.Info: a node's tier facts are present, from this probe or an
\* earlier one, whenever it shows no collection error.
ShownIsComplete == \A n \in Nodes : facts[n] # None /\ ~facts[n].err => facts[n].part = {}

=============================================================================
