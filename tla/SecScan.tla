------------------------------ MODULE SecScan ------------------------------
(***************************************************************************)
(* The Shift+S security scan (internal/ui/app.go: secScan, startScan,      *)
(* stigStageCmd, handleStage, adoptSTIG) and the evaluation it feeds       *)
(* (recompute, scheduleRecompute in perf.go).                              *)
(*                                                                         *)
(* A scan runs the collection stages on every target node, one after the   *)
(* other, as probes of its own: a stage's answer starts the next stage,    *)
(* the last one hands the node's facts to its Info.  Meanwhile snapshots   *)
(* and regular probe answers keep replacing the Infos.  Both are taken     *)
(* here at any moment; RefreshChain and UpdateLoop say when they come.     *)
(***************************************************************************)
EXTENDS Integers, FiniteSets, FiniteSetsExt

CONSTANTS
    Node,      \* node names
    None,      \* no Info for a node
    Stages,    \* the number of collection stages (nodeinfo.STIGStages)
    MaxScans,  \* bound on the scans started
    MaxSwitch, \* bound on context switches
    MaxApply   \* bound on SSH settings applied

ASSUME StagesAssumption == Stages \in Nat \ {0}
ASSUME ScanBounds == MaxScans \in Nat /\ MaxSwitch \in Nat /\ MaxApply \in Nat
ASSUME NodeAssumption == None \notin 0..MaxScans /\ None \notin [Node -> 0..MaxScans \cup {None}]

VARIABLES
    gen,        \* App.gen
    ssh,        \* App.sshEnabled, and whether App.runner is non-nil
    snapped,    \* App.snap # nil
    listing,    \* the SSH targets (sshTargets of App.snap)
    infos,      \* App.nodes: the scan an Info's STIG facts are from, 0 for none
    secScanned, \* App.secScanned
    scan,       \* App.scan
    stages,     \* stage commands in flight
    dirty,      \* App.stigDirty
    timer,      \* App.fp.recomputeTimer: a recomputeMsg is on its way
    shown,      \* the Infos the rules were last evaluated on (None: no result)
    switches, applies \* how often gen moved, and why

vars == <<gen, ssh, snapped, listing, infos, secScanned, scan, stages, dirty,
          timer, shown, switches, applies>>

Gens == 0..(MaxSwitch + MaxApply)
Infos == [Node -> 0..MaxScans \cup {None}]

\* A scan: its number (for started), the gen it was started under, its
\* targets, the nodes that still owe stages, the ones that failed, the stages
\* finished and the gens they were asked under.  The nil scan has no nodes.
Scan == [no : 0..MaxScans, gen : Gens, nodes : SUBSET Node, want : SUBSET Node,
         failed : SUBSET Node, stage : [Node -> 0..Stages], asked : [Node -> SUBSET Gens]]

NewScan(no, g, targets) ==
    [no |-> no, gen |-> g, nodes |-> targets, want |-> targets, failed |-> {},
     stage |-> [n \in Node |-> 0], asked |-> [n \in Node |-> {}]]
NoScan(no) == NewScan(no, 0, {})

StageCmd == [gen : Gens, node : Node, idx : 0..(Stages - 1)]

TypeOK ==
    /\ gen = switches + applies
    /\ switches \in 0..MaxSwitch /\ applies \in 0..MaxApply
    /\ ssh \in [enabled : BOOLEAN, runner : BOOLEAN]
    /\ snapped \in BOOLEAN
    /\ listing \subseteq Node
    /\ infos \in Infos
    /\ secScanned \in BOOLEAN
    /\ scan \in Scan
    /\ stages \subseteq StageCmd
    /\ dirty \in BOOLEAN
    /\ timer \in BOOLEAN
    /\ shown \in Infos \cup {None}

-----------------------------------------------------------------------------
NoInfos == [n \in Node |-> None]

\* running: any node still owes its facts.
Running(sc) == sc.want # {}

\* complete: every stage of the node is in.
Complete(sc, n) == n \in sc.nodes /\ n \notin sc.failed /\ sc.stage[n] >= Stages

\* percent: stages finished over stages planned, a failed node counting whole.
Percent(sc) ==
    IF sc.nodes = {} THEN 0
    ELSE (100 * MapThenSumSet(LAMBDA n : IF n \in sc.failed THEN Stages ELSE sc.stage[n], sc.nodes))
         \div (Cardinality(sc.nodes) * Stages)

\* adoptSTIG: the node's Info takes the finished scan's facts, unless it has
\* none, the node is not complete, or its facts are from this scan already.
Adopts(sc, map, n) == map[n] # None /\ Complete(sc, n) /\ map[n] < sc.no
AdoptSTIG(sc, map, n) == IF Adopts(sc, map, n) THEN [map EXCEPT ![n] = sc.no] ELSE map

\* recompute: the STIG rules are evaluated again when the facts changed.
Recompute(scanned, isDirty, map) ==
    /\ shown' = IF ~scanned THEN None
                ELSE IF isDirty \/ shown = None THEN map ELSE shown
    /\ dirty' = IF scanned THEN FALSE ELSE isDirty

-----------------------------------------------------------------------------
Init ==
    /\ gen = 0 /\ switches = 0 /\ applies = 0
    /\ ssh \in {[enabled |-> TRUE, runner |-> TRUE], [enabled |-> FALSE, runner |-> FALSE]}
    /\ snapped = FALSE
    /\ listing = {}
    /\ infos = NoInfos
    /\ secScanned = FALSE
    /\ scan = NoScan(0)
    /\ stages = {}
    /\ dirty = FALSE
    /\ timer = FALSE
    /\ shown = None

\* snapshotMsg: Infos of nodes that are gone are dropped, the rules are
\* evaluated at once.  An outage ({}) keeps the last targets.
Snapshot(list) ==
    /\ snapped' = TRUE
    /\ listing' = IF list # {} THEN list ELSE listing
    /\ infos' = [n \in Node |-> IF list # {} /\ n \notin list THEN None ELSE infos[n]]
    /\ Recompute(secScanned, TRUE, infos')
    /\ UNCHANGED <<gen, ssh, secScanned, scan, stages, timer, switches, applies>>

\* Mutants of NodeMsg: the scan's facts are adopted without marking the rules
\* dirty; not adopted at all; the previous Info's facts are not merged.
NodeMsgNotDirty(n, touched) ==
    /\ snapped /\ ssh.runner
    /\ infos' = AdoptSTIG(scan, [infos EXCEPT ![n] = IF @ = None THEN 0 ELSE @], n)
    /\ dirty' = (dirty \/ touched)
    /\ timer' = TRUE
    /\ UNCHANGED <<gen, ssh, snapped, listing, secScanned, scan, stages, shown, switches, applies>>
NodeMsgNotAdopting(n, touched) ==
    /\ snapped /\ ssh.runner
    /\ infos' = [infos EXCEPT ![n] = IF @ = None THEN 0 ELSE @]
    /\ dirty' = (dirty \/ touched)
    /\ timer' = TRUE
    /\ UNCHANGED <<gen, ssh, snapped, listing, secScanned, scan, stages, shown, switches, applies>>
NodeMsgNotMerging(n, touched) ==
    /\ snapped /\ ssh.runner
    /\ infos' = AdoptSTIG(scan, [infos EXCEPT ![n] = 0], n)
    /\ dirty' = TRUE
    /\ timer' = TRUE
    /\ UNCHANGED <<gen, ssh, snapped, listing, secScanned, scan, stages, shown, switches, applies>>

\* nodeMsg: a new Info carries the previous one's STIG facts (MergeSTIG), or
\* those of the finished scan; touched is the config tier or a probe error.
NodeMsg(n, touched) ==
    /\ snapped /\ ssh.runner
    /\ LET merged == [infos EXCEPT ![n] = IF @ = None THEN 0 ELSE @]
       IN /\ infos' = AdoptSTIG(scan, merged, n)
          /\ dirty' = (dirty \/ touched \/ Adopts(scan, merged, n))
    /\ timer' = TRUE
    /\ UNCHANGED <<gen, ssh, snapped, listing, secScanned, scan, stages, shown, switches, applies>>

\* Shift+S with SSH (startScan): a new scan, its first stage on every target.
StartScan ==
    /\ snapped /\ ~Running(scan)
    /\ ssh.enabled /\ ssh.runner
    /\ scan.no < MaxScans
    /\ secScanned' = TRUE
    /\ dirty' = TRUE
    /\ timer' = TRUE
    /\ scan' = NewScan(scan.no + 1, gen, listing)
    /\ stages' = stages \cup {[gen |-> gen, node |-> n, idx |-> 0] : n \in listing}
    /\ UNCHANGED <<gen, ssh, snapped, listing, infos, shown, switches, applies>>

\* Shift+S without SSH: the rules from the API only.
StartAPIScan ==
    /\ snapped /\ ~Running(scan)
    /\ ~(ssh.enabled /\ ssh.runner)
    /\ secScanned' = TRUE
    /\ scan' = NoScan(scan.no)
    /\ Recompute(TRUE, TRUE, infos)
    /\ UNCHANGED <<gen, ssh, snapped, listing, infos, stages, timer, switches, applies>>

\* Mutant of Accepted: the gen of a stage is not compared.
AcceptedOfAnyGen(m) == m.node \in scan.want

\* The guards of stigStageMsg and handleStage.
Accepted(m) == m.gen = gen /\ m.node \in scan.want

\* stigStageCmd: the next stage of a node, if there is one and a runner.
NextStage(m, sc) ==
    IF sc.stage[m.node] < Stages /\ ssh.runner
    THEN {[gen |-> gen, node |-> m.node, idx |-> sc.stage[m.node]]} ELSE {}

\* Mutant of StageFailed: the node is still waited for.
StageFailedKeepsWant(m) ==
    /\ Accepted(m)
    /\ stages' = stages \ {m}
    /\ scan' = [scan EXCEPT !.failed = @ \cup {m.node}]
    /\ timer' = TRUE
    /\ UNCHANGED <<gen, ssh, snapped, listing, infos, secScanned, dirty, shown, switches, applies>>

\* A stage failed: the node is done with, the rules are evaluated again.
StageFailed(m) ==
    /\ Accepted(m)
    /\ stages' = stages \ {m}
    /\ scan' = [scan EXCEPT !.failed = @ \cup {m.node}, !.want = @ \ {m.node}]
    /\ timer' = TRUE
    /\ UNCHANGED <<gen, ssh, snapped, listing, infos, secScanned, dirty, shown, switches, applies>>

\* A stage succeeded: the next one, or the node's facts are complete.
StageDone(m) ==
    /\ Accepted(m)
    /\ LET sc == [scan EXCEPT !.stage[m.node] = @ + 1, !.asked[m.node] = @ \cup {m.gen}]
       IN /\ stages' = (stages \ {m}) \cup NextStage(m, sc)
          /\ IF sc.stage[m.node] < Stages
               THEN /\ scan' = sc
                    /\ UNCHANGED <<infos, dirty, timer>>
               ELSE /\ scan' = [sc EXCEPT !.want = @ \ {m.node}]
                    /\ infos' = AdoptSTIG(scan', infos, m.node)
                    /\ dirty' = (dirty \/ Adopts(scan', infos, m.node))
                    /\ timer' = TRUE
    /\ UNCHANGED <<gen, ssh, snapped, listing, secScanned, shown, switches, applies>>

\* A stage of an earlier gen, or of a node the scan does not want.
StageDropped(m) ==
    /\ ~Accepted(m)
    /\ stages' = stages \ {m}
    /\ UNCHANGED <<gen, ssh, snapped, listing, infos, secScanned, scan, dirty, timer,
                   shown, switches, applies>>

StageMsg(m) == StageFailed(m) \/ StageDone(m) \/ StageDropped(m)

\* recomputeMsg: the coalesced evaluation.
RecomputeMsg ==
    /\ timer
    /\ timer' = FALSE
    /\ Recompute(secScanned, dirty, infos)
    /\ UNCHANGED <<gen, ssh, snapped, listing, infos, secScanned, scan, stages, switches, applies>>

\* The key s.
ToggleSSH ==
    /\ ssh.runner
    /\ ssh' = [ssh EXCEPT !.enabled = ~@]
    /\ UNCHANGED <<gen, snapped, listing, infos, secScanned, scan, stages, dirty, timer,
                   shown, switches, applies>>

\* switchContext: the scan and everything collected is dropped.
SwitchContext(runner) ==
    /\ switches < MaxSwitch
    /\ switches' = switches + 1
    /\ gen' = gen + 1
    /\ ssh' = [enabled |-> runner, runner |-> runner]
    /\ snapped' = FALSE
    /\ listing' = {}
    /\ infos' = NoInfos
    /\ secScanned' = FALSE
    /\ scan' = NoScan(scan.no)
    /\ shown' = None
    /\ UNCHANGED <<stages, dirty, timer, applies>>

\* applySSHConfig: the Infos are dropped and gen moves; the scan is not
\* touched.
ApplySSHConfig ==
    /\ applies < MaxApply
    /\ applies' = applies + 1
    /\ gen' = gen + 1
    /\ ssh' = [enabled |-> TRUE, runner |-> TRUE]
    /\ infos' = NoInfos
    /\ UNCHANGED <<snapped, listing, secScanned, scan, stages, dirty, timer, shown, switches>>

Next ==
    \/ \E list \in SUBSET Node : Snapshot(list)
    \/ \E n \in Node, touched \in BOOLEAN : NodeMsg(n, touched)
    \/ StartScan
    \/ StartAPIScan
    \/ \E m \in stages : StageMsg(m)
    \/ RecomputeMsg
    \/ ToggleSSH
    \/ \E runner \in BOOLEAN : SwitchContext(runner)
    \/ ApplySSHConfig

Spec == Init /\ [][Next]_vars

\* A stage has a timeout of its own, so it answers; the timer fires.
Fairness ==
    /\ \A n \in Node : WF_vars(\E m \in stages : m.node = n /\ StageMsg(m))
    /\ WF_vars(RecomputeMsg)

FairSpec == Spec /\ Fairness

-----------------------------------------------------------------------------
\* A node the scan waits for has exactly one stage in flight, the one after
\* those it finished, and its answer will be accepted: otherwise the scan
\* waits for ever and Shift+S is refused ("already running").  Only SSH
\* settings applied during the scan (scan.gen # gen) take that away.
WantedHasStage ==
    scan.gen = gen => \A n \in scan.want :
        /\ [gen |-> gen, node |-> n, idx |-> scan.stage[n]] \in stages
        /\ \A m \in stages : m.gen = gen /\ m.node = n => m.idx = scan.stage[n]

\* The facts a scan merges were all asked under the gen it was started under:
\* a stage of the previous cluster or of the previous login never completes a
\* node (the gen guard of stigStageMsg).
FactsFromHere == \A n \in Node : scan.asked[n] \subseteq {scan.gen}

\* Once a node is complete its Info has the scan's facts, whichever of the
\* Info and the last stage came last (adoptSTIG is called on both sides).
CompleteIsAdopted ==
    \A n \in Node : Complete(scan, n) /\ infos[n] # None => infos[n] = scan.no

\* Unless a recompute is on its way, the results on the Security tab were
\* evaluated on the facts the app holds: no change of them goes unnoticed.
ResultsAreCurrent == secScanned /\ ~timer => shown # None /\ \A n \in Node :
    (infos[n] # None /\ infos[n] > 0) => shown[n] = infos[n]

\* The progress in the header reads 100% exactly when the scan has ended.
ProgressIsHonest == scan.nodes # {} => (Percent(scan) = 100 <=> ~Running(scan))

\* Facts are never replaced by those of an older scan.
FactsNeverOlder ==
    [][\A n \in Node : infos[n] # None /\ infos'[n] # None => infos'[n] >= infos[n]]_vars

\* Every scan ends, unless SSH settings are applied while it runs: each stage
\* answers or times out, and the answer is not lost to a refresh, a probe or
\* a context switch.
UndisturbedScanEnds ==
    Running(scan) /\ scan.gen = gen ~> ~Running(scan) \/ scan.gen # gen

\* Every scan ends, whatever the operator does meanwhile.
ScanEnds == Running(scan) ~> ~Running(scan)
=============================================================================
