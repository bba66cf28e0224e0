--------------------------- MODULE SecScan_proofs ---------------------------
(***************************************************************************)
(* The security scan is well typed, merges facts of one cluster and login  *)
(* only, and never loses a complete node's facts to a probe answer: for    *)
(* any nodes, any number of stages and any bounds.                         *)
(*                                                                         *)
(* FactsFromHere holds because a stage of the current gen, of a node the   *)
(* scan waits for, belongs to a scan of the current gen (OldScanIsDeaf):   *)
(* applySSHConfig moves gen under a scan that goes on, so this is not the  *)
(* same as the scan having been started under gen.  CompleteIsAdopted      *)
(* needs that no Info has facts of a scan yet to come, and that a node     *)
(* still waited for is not complete.                                       *)
(***************************************************************************)
EXTENDS SecScan, TLAPS

\* A node still waited for is a target that has neither failed nor finished.
WantUnfinished ==
    \A n \in scan.want : n \in scan.nodes /\ n \notin scan.failed /\ scan.stage[n] < Stages

\* A scan that gen has moved away from has no stage that would be accepted.
OldScanIsDeaf == scan.want # {} /\ scan.gen # gen => \A m \in stages : m.gen # gen

NoFutureStage == \A m \in stages : m.gen <= gen
NoFutureFacts == \A n \in Node : infos[n] # None => infos[n] <= scan.no

ScanInv ==
    /\ TypeOK /\ FactsFromHere /\ CompleteIsAdopted
    /\ WantUnfinished /\ OldScanIsDeaf /\ NoFutureStage /\ NoFutureFacts

USE DEF Gens, Infos

\* Evaluating the rules keeps their type.
LEMMA RecomputeType ==
    ASSUME NEW scanned \in BOOLEAN, NEW isDirty \in BOOLEAN, NEW map \in Infos,
           shown \in Infos \cup {None}, dirty \in BOOLEAN,
           Recompute(scanned, isDirty, map)
    PROVE  shown' \in Infos \cup {None} /\ dirty' \in BOOLEAN
  BY DEF Recompute

\* A fresh scan is typed and has no complete node.
LEMMA NewScanFresh ==
    ASSUME NEW no \in 0..MaxScans, NEW g \in Gens, NEW T \in SUBSET Node
    PROVE  /\ NewScan(no, g, T) \in Scan
           /\ NewScan(no, g, T).no = no /\ NewScan(no, g, T).gen = g
           /\ NewScan(no, g, T).want = T /\ NewScan(no, g, T).nodes = T
           /\ NewScan(no, g, T).failed = {}
           /\ \A n \in Node : /\ NewScan(no, g, T).asked[n] = {}
                              /\ NewScan(no, g, T).stage[n] = 0
                              /\ ~Complete(NewScan(no, g, T), n)
  <1>1. Stages \in Nat /\ Stages > 0
    BY StagesAssumption
  <1> QED BY <1>1 DEF NewScan, Scan, Complete

\* adoptSTIG: typed, no older facts, and a complete node's Info has the scan's.
LEMMA AdoptFacts ==
    ASSUME NEW sc \in Scan, NEW map \in Infos, NEW n \in Node,
           \A k \in Node : map[k] # None => map[k] <= sc.no,
           NEW m, m = AdoptSTIG(sc, map, n)
    PROVE  /\ m \in Infos
           /\ \A k \in Node : (m[k] = None <=> map[k] = None) /\ (m[k] # None => m[k] >= map[k])
           /\ \A k \in Node : m[k] # None => m[k] <= sc.no
           /\ Complete(sc, n) /\ m[n] # None => m[n] = sc.no
           /\ \A k \in Node \ {n} : m[k] = map[k]
  <1>1. sc.no \in 0..MaxScans /\ MaxScans \in Nat /\ None \notin 0..MaxScans
    BY ScanBounds, NodeAssumption DEF Scan
  <1>2. \A k \in Node : map[k] # None => map[k] \in 0..MaxScans
    OBVIOUS
  <1>3. CASE Adopts(sc, map, n)
    <2>1. m = [map EXCEPT ![n] = sc.no]
      BY <1>3 DEF AdoptSTIG
    <2>2. map[n] # None /\ map[n] < sc.no
      BY <1>3 DEF Adopts
    <2> QED BY <1>1, <1>2, <2>1, <2>2
  <1>4. CASE ~Adopts(sc, map, n)
    <2>1. m = map
      BY <1>4 DEF AdoptSTIG
    <2>2. Complete(sc, n) /\ map[n] # None => map[n] = sc.no
      BY <1>1, <1>2, <1>4 DEF Adopts
    <2> QED BY <1>1, <1>2, <2>1, <2>2
  <1> QED BY <1>3, <1>4

LEMMA InitInv == Init => ScanInv
  <1> SUFFICES ASSUME Init PROVE ScanInv
    OBVIOUS
  <1>1. NoInfos \in Infos /\ \A n \in Node : NoInfos[n] = None
    BY DEF NoInfos
  <1>2. 0 \in 0..MaxScans /\ 0 \in Gens
    BY ScanBounds
  <1>3. /\ scan \in Scan /\ scan.want = {}
        /\ \A n \in Node : scan.asked[n] = {} /\ ~Complete(scan, n)
    BY <1>2, NewScanFresh DEF Init, NoScan
  <1>4. TypeOK
    <2>1. ssh \in [enabled : BOOLEAN, runner : BOOLEAN]
      <3>1. \A b \in BOOLEAN : [enabled |-> b, runner |-> b] \in [enabled : BOOLEAN, runner : BOOLEAN]
        OBVIOUS
      <3> QED BY <3>1 DEF Init
    <2>2. NoInfos \in Infos \cup {None} /\ {} \subseteq Node /\ {} \subseteq StageCmd
      BY <1>1
    <2>3. /\ gen = 0 /\ switches = 0 /\ applies = 0
          /\ MaxSwitch \in Nat /\ MaxApply \in Nat
      BY ScanBounds DEF Init
    <2>4. gen = switches + applies /\ switches \in 0..MaxSwitch /\ applies \in 0..MaxApply
      BY <2>3
    <2>5. /\ snapped \in BOOLEAN /\ secScanned \in BOOLEAN /\ dirty \in BOOLEAN
          /\ timer \in BOOLEAN
      BY DEF Init
    <2> QED BY <1>1, <1>3, <2>1, <2>2, <2>4, <2>5 DEF Init, TypeOK
  <1>5. FactsFromHere /\ CompleteIsAdopted /\ NoFutureFacts
    BY <1>1, <1>3 DEF Init, FactsFromHere, CompleteIsAdopted, NoFutureFacts
  <1>6. WantUnfinished /\ OldScanIsDeaf /\ NoFutureStage
    BY <1>3 DEF Init, WantUnfinished, OldScanIsDeaf, NoFutureStage
  <1> QED BY <1>4, <1>5, <1>6 DEF ScanInv

\* The steps that leave the scan, its stages and gen as they are.
LEMMA QuietStep ==
    ASSUME ScanInv, UNCHANGED <<scan, stages, gen, switches, applies>>,
           infos' \in Infos,
           \A n \in Node : infos'[n] # None =>
               infos'[n] <= scan.no /\ (Complete(scan, n) => infos'[n] = scan.no),
           ssh' \in [enabled : BOOLEAN, runner : BOOLEAN], snapped' \in BOOLEAN,
           listing' \subseteq Node, secScanned' \in BOOLEAN, dirty' \in BOOLEAN,
           timer' \in BOOLEAN, shown' \in Infos \cup {None}
    PROVE  ScanInv'
  BY DEF ScanInv, TypeOK, FactsFromHere, CompleteIsAdopted, WantUnfinished,
         OldScanIsDeaf, NoFutureStage, NoFutureFacts, Complete

LEMMA SnapshotInv ==
    ASSUME ScanInv, NEW list \in SUBSET Node, Snapshot(list) PROVE ScanInv'
  <1>1. infos' \in Infos /\ \A n \in Node : infos'[n] # None => infos'[n] = infos[n]
    BY DEF Snapshot, ScanInv, TypeOK
  <1>2. shown' \in Infos \cup {None} /\ dirty' \in BOOLEAN
    BY <1>1, RecomputeType DEF Snapshot, ScanInv, TypeOK
  <1> QED BY <1>1, <1>2, QuietStep
          DEF Snapshot, ScanInv, TypeOK, CompleteIsAdopted, NoFutureFacts

LEMMA NodeMsgInv ==
    ASSUME ScanInv, NEW n \in Node, NEW touched \in BOOLEAN, NodeMsg(n, touched)
    PROVE  ScanInv' /\ \A k \in Node : infos[k] # None /\ infos'[k] # None => infos'[k] >= infos[k]
  <1> DEFINE merged == [infos EXCEPT ![n] = IF infos[n] = None THEN 0 ELSE infos[n]]
  <1>1. infos' = AdoptSTIG(scan, merged, n) /\ dirty' \in BOOLEAN
    BY DEF NodeMsg, Adopts, Complete, ScanInv, TypeOK
  <1>2. scan \in Scan /\ infos \in Infos /\ scan.no \in 0..MaxScans /\ MaxScans \in Nat
    BY ScanBounds DEF ScanInv, TypeOK, Scan
  <1>3. /\ merged \in Infos
        /\ \A k \in Node : merged[k] # None => merged[k] <= scan.no
        /\ \A k \in Node \ {n} : merged[k] = infos[k]
        /\ infos[n] # None => merged[n] = infos[n]
    BY <1>2 DEF ScanInv, NoFutureFacts
  <1>4. /\ infos' \in Infos
        /\ \A k \in Node : infos'[k] # None => infos'[k] <= scan.no
        /\ Complete(scan, n) /\ infos'[n] # None => infos'[n] = scan.no
        /\ \A k \in Node \ {n} : infos'[k] = infos[k]
        /\ infos'[n] # None => infos'[n] >= merged[n]
    <2>1. /\ infos' \in Infos
          /\ \A k \in Node : infos'[k] # None => infos'[k] >= merged[k]
          /\ \A k \in Node : infos'[k] # None => infos'[k] <= scan.no
          /\ Complete(scan, n) /\ infos'[n] # None => infos'[n] = scan.no
          /\ \A k \in Node \ {n} : infos'[k] = merged[k]
      <3> HIDE DEF merged, Infos
      <3> QED BY <1>1, <1>2, <1>3, AdoptFacts
    <2> QED BY <1>3, <2>1
  <1>5. \A k \in Node : infos'[k] # None /\ Complete(scan, k) => infos'[k] = scan.no
    BY <1>4 DEF ScanInv, CompleteIsAdopted
  <1>6. ScanInv'
    BY <1>1, <1>4, <1>5, QuietStep DEF NodeMsg, ScanInv, TypeOK
  <1> QED BY <1>2, <1>3, <1>4, <1>6

LEMMA StartScanInv == ASSUME ScanInv, StartScan PROVE ScanInv'
  <1>1. /\ scan.no + 1 \in 0..MaxScans /\ gen \in Gens /\ listing \in SUBSET Node
        /\ Stages \in Nat /\ Stages > 0
    BY StagesAssumption, ScanBounds DEF StartScan, ScanInv, TypeOK, Scan
  <1>2. scan' = NewScan(scan.no + 1, gen, listing)
    BY DEF StartScan
  <1>3. /\ scan' \in Scan /\ scan'.no = scan.no + 1 /\ scan'.gen = gen
        /\ scan'.want = listing /\ scan'.nodes = listing /\ scan'.failed = {}
        /\ \A n \in Node : scan'.asked[n] = {} /\ scan'.stage[n] = 0 /\ ~Complete(scan', n)
    BY <1>1, <1>2, NewScanFresh
  <1>4. stages' \subseteq StageCmd /\ \A m \in stages' : m.gen <= gen
    BY <1>1 DEF StartScan, StageCmd, ScanInv, TypeOK, NoFutureStage
  <1>5. \A n \in Node : infos[n] # None => infos[n] <= scan.no + 1
    BY <1>1 DEF ScanInv, TypeOK, NoFutureFacts, Scan
  <1> QED BY <1>1, <1>3, <1>4, <1>5
          DEF StartScan, ScanInv, TypeOK, FactsFromHere, CompleteIsAdopted, WantUnfinished,
              OldScanIsDeaf, NoFutureStage, NoFutureFacts

LEMMA StartAPIScanInv == ASSUME ScanInv, StartAPIScan PROVE ScanInv'
  <1>1. scan.no \in 0..MaxScans /\ 0 \in Gens
    BY ScanBounds DEF ScanInv, TypeOK, Scan
  <1>2. /\ scan' \in Scan /\ scan'.no = scan.no /\ scan'.want = {}
        /\ \A n \in Node : scan'.asked[n] = {} /\ ~Complete(scan', n)
    BY <1>1, NewScanFresh DEF StartAPIScan, NoScan
  <1>3. shown' \in Infos \cup {None} /\ dirty' \in BOOLEAN
    BY RecomputeType DEF StartAPIScan, ScanInv, TypeOK
  <1> QED BY <1>2, <1>3
          DEF StartAPIScan, ScanInv, TypeOK, FactsFromHere, CompleteIsAdopted, WantUnfinished,
              OldScanIsDeaf, NoFutureStage, NoFutureFacts

LEMMA StageFailedInv ==
    ASSUME ScanInv, NEW m \in stages, StageFailed(m) PROVE ScanInv'
  <1>1. scan \in Scan /\ m.node \in Node
    BY DEF ScanInv, TypeOK, StageCmd
  <1>2. scan' = [scan EXCEPT !.failed = scan.failed \cup {m.node}, !.want = scan.want \ {m.node}]
    BY DEF StageFailed
  <1>3. /\ scan' \in Scan /\ scan'.no = scan.no /\ scan'.gen = scan.gen /\ scan'.nodes = scan.nodes
        /\ scan'.stage = scan.stage /\ scan'.asked = scan.asked
        /\ scan'.failed = scan.failed \cup {m.node} /\ scan'.want = scan.want \ {m.node}
    BY <1>1, <1>2 DEF Scan
  <1>4. stages' \subseteq stages
    BY DEF StageFailed
  <1> QED BY <1>3, <1>4
          DEF StageFailed, ScanInv, TypeOK, FactsFromHere, CompleteIsAdopted, WantUnfinished,
              OldScanIsDeaf, NoFutureStage, NoFutureFacts, Complete

LEMMA StageDoneInv ==
    ASSUME ScanInv, NEW m \in stages, StageDone(m)
    PROVE  ScanInv' /\ \A k \in Node : infos[k] # None /\ infos'[k] # None => infos'[k] >= infos[k]
  <1> DEFINE sc == [scan EXCEPT !.stage[m.node] = scan.stage[m.node] + 1,
                                !.asked[m.node] = scan.asked[m.node] \cup {m.gen}]
             done == [sc EXCEPT !.want = sc.want \ {m.node}]
  <1>1. /\ scan \in Scan /\ infos \in Infos /\ m.node \in Node /\ m.gen = gen /\ gen \in Gens
        /\ m.node \in scan.want /\ m.node \in scan.nodes /\ m.node \notin scan.failed
        /\ scan.stage[m.node] < Stages /\ scan.gen = gen /\ Stages \in Nat
    BY StagesAssumption, ScanBounds
    DEF StageDone, Accepted, ScanInv, TypeOK, StageCmd, WantUnfinished, OldScanIsDeaf
  <1>2. /\ sc \in Scan /\ sc.no = scan.no /\ sc.gen = scan.gen /\ sc.nodes = scan.nodes
        /\ sc.failed = scan.failed /\ sc.want = scan.want
        /\ sc.stage[m.node] = scan.stage[m.node] + 1
        /\ \A n \in Node \ {m.node} : sc.stage[n] = scan.stage[n]
        /\ \A n \in Node : sc.asked[n] \subseteq {gen}
    <2>1. /\ scan.stage \in [Node -> 0..Stages] /\ scan.asked \in [Node -> SUBSET Gens]
          /\ scan.stage[m.node] + 1 \in 0..Stages
      BY <1>1 DEF Scan
    <2>2. \A n \in Node : scan.asked[n] \subseteq {gen}
      BY <1>1 DEF ScanInv, FactsFromHere
    <2>3. [scan.stage EXCEPT ![m.node] = scan.stage[m.node] + 1] \in [Node -> 0..Stages]
      BY <2>1
    <2>4. [scan.asked EXCEPT ![m.node] = scan.asked[m.node] \cup {m.gen}] \in [Node -> SUBSET Gens]
      BY <1>1, <2>1
    <2> QED BY <1>1, <2>1, <2>2, <2>3, <2>4 DEF Scan
  <1>3. /\ done \in Scan /\ done.no = scan.no /\ done.gen = scan.gen /\ done.nodes = scan.nodes
        /\ done.failed = scan.failed /\ done.want = scan.want \ {m.node}
        /\ done.stage = sc.stage /\ done.asked = sc.asked
    BY <1>2 DEF Scan
  <1>4. stages' \subseteq StageCmd /\ \A c \in stages' : c.gen <= gen
    <2>1. NextStage(m, sc) \subseteq StageCmd /\ \A c \in NextStage(m, sc) : c.gen = gen
      BY <1>1, <1>2 DEF NextStage, StageCmd, Scan
    <2>2. stages' = (stages \ {m}) \cup NextStage(m, sc)
      BY DEF StageDone
    <2> QED BY <1>1, <2>1, <2>2, ScanBounds DEF ScanInv, TypeOK, NoFutureStage
  <1>5. CASE sc.stage[m.node] < Stages
    <2>1. scan' = sc /\ UNCHANGED <<infos, dirty, timer>>
      BY <1>5 DEF StageDone
    <2>2. \A n \in Node : Complete(scan', n) => Complete(scan, n)
      <3>1. ~Complete(scan', m.node)
        BY <1>5, <2>1, <1>1, <1>2 DEF Complete, Scan
      <3>2. ASSUME NEW n \in Node \ {m.node} PROVE Complete(scan', n) => Complete(scan, n)
        BY <1>2, <2>1, <3>2 DEF Complete
      <3> QED BY <3>1, <3>2
    <2>3. \A k \in Node : infos[k] # None => infos[k] \in 0..MaxScans
      BY <1>1
    <2>4. ScanInv'
      BY <1>1, <1>2, <1>4, <1>5, <2>1, <2>2
      DEF StageDone, ScanInv, TypeOK, FactsFromHere, CompleteIsAdopted, WantUnfinished,
          OldScanIsDeaf, NoFutureStage, NoFutureFacts
    <2> QED BY <2>1, <2>3, <2>4, ScanBounds
  <1>6. CASE ~(sc.stage[m.node] < Stages)
    <2>1. scan' = done /\ infos' = AdoptSTIG(done, infos, m.node) /\ timer' = TRUE
      BY <1>6 DEF StageDone
    <2>2. dirty' \in BOOLEAN
      BY <1>6 DEF StageDone, Adopts, Complete, ScanInv, TypeOK
    <2>3. /\ infos' \in Infos
          /\ \A k \in Node : infos'[k] # None => infos'[k] <= scan.no
          /\ Complete(done, m.node) /\ infos'[m.node] # None => infos'[m.node] = scan.no
          /\ \A k \in Node \ {m.node} : infos'[k] = infos[k]
          /\ \A k \in Node : infos'[k] # None => infos'[k] >= infos[k]
      <3>1. \A k \in Node : infos[k] # None => infos[k] <= done.no
        BY <1>3 DEF ScanInv, NoFutureFacts
      <3> HIDE DEF done, Infos
      <3>2. /\ infos' \in Infos
            /\ \A k \in Node : infos'[k] # None => infos'[k] >= infos[k]
            /\ \A k \in Node : infos'[k] # None => infos'[k] <= done.no
            /\ Complete(done, m.node) /\ infos'[m.node] # None => infos'[m.node] = done.no
            /\ \A k \in Node \ {m.node} : infos'[k] = infos[k]
        BY <1>1, <1>3, <2>1, <3>1, AdoptFacts
      <3> QED BY <1>3, <3>2
    <2>4. \A n \in Node \ {m.node} : Complete(done, n) => Complete(scan, n)
      BY <1>2, <1>3 DEF Complete
    <2>5. CompleteIsAdopted'
      BY <1>3, <2>1, <2>3, <2>4 DEF ScanInv, CompleteIsAdopted
    <2>6. WantUnfinished'
      BY <1>1, <1>2, <1>3, <2>1 DEF ScanInv, WantUnfinished, TypeOK, Scan
    <2>7. ScanInv'
      BY <1>1, <1>2, <1>3, <1>4, <2>1, <2>2, <2>3, <2>5, <2>6
      DEF StageDone, ScanInv, TypeOK, FactsFromHere, OldScanIsDeaf, NoFutureStage, NoFutureFacts
    <2> QED BY <2>3, <2>7
  <1> QED BY <1>5, <1>6

LEMMA StageDroppedInv ==
    ASSUME ScanInv, NEW m \in stages, StageDropped(m) PROVE ScanInv'
  <1>1. stages' \subseteq stages
    BY DEF StageDropped
  <1> QED BY <1>1
          DEF StageDropped, ScanInv, TypeOK, FactsFromHere, CompleteIsAdopted, WantUnfinished,
              OldScanIsDeaf, NoFutureStage, NoFutureFacts, Complete

\* gen moves and the Infos are dropped: no stage in flight is current.
LEMMA GenMoves ==
    ASSUME ScanInv, gen' = gen + 1, UNCHANGED stages
    PROVE  (\A m \in stages' : m.gen # gen') /\ (\A m \in stages' : m.gen <= gen')
  <1>1. gen \in Nat /\ \A m \in stages : m.gen \in Nat /\ m.gen <= gen
    BY ScanBounds DEF ScanInv, TypeOK, StageCmd, NoFutureStage
  <1> QED BY <1>1

LEMMA SwitchContextInv ==
    ASSUME ScanInv, NEW runner \in BOOLEAN, SwitchContext(runner) PROVE ScanInv'
  <1>1. scan.no \in 0..MaxScans /\ 0 \in Gens
    BY ScanBounds DEF ScanInv, TypeOK, Scan
  <1>2. /\ scan' \in Scan /\ scan'.no = scan.no /\ scan'.want = {}
        /\ \A n \in Node : scan'.asked[n] = {} /\ ~Complete(scan', n)
    BY <1>1, NewScanFresh DEF SwitchContext, NoScan
  <1>3. infos' \in Infos /\ \A n \in Node : infos'[n] = None
    BY DEF SwitchContext, NoInfos
  <1>4. gen' = switches' + applies' /\ switches' \in 0..MaxSwitch /\ applies' \in 0..MaxApply
    BY ScanBounds DEF SwitchContext, ScanInv, TypeOK
  <1>5. \A m \in stages' : m.gen <= gen'
    BY GenMoves DEF SwitchContext
  <1> QED BY <1>2, <1>3, <1>4, <1>5
          DEF SwitchContext, ScanInv, TypeOK, FactsFromHere, CompleteIsAdopted, WantUnfinished,
              OldScanIsDeaf, NoFutureStage, NoFutureFacts

LEMMA ApplySSHConfigInv == ASSUME ScanInv, ApplySSHConfig PROVE ScanInv'
  <1>1. infos' \in Infos /\ \A n \in Node : infos'[n] = None
    BY DEF ApplySSHConfig, NoInfos
  <1>2. gen' = switches' + applies' /\ switches' \in 0..MaxSwitch /\ applies' \in 0..MaxApply
    BY ScanBounds DEF ApplySSHConfig, ScanInv, TypeOK
  <1>3. (\A m \in stages' : m.gen # gen') /\ (\A m \in stages' : m.gen <= gen')
    BY GenMoves DEF ApplySSHConfig
  <1> QED BY <1>1, <1>2, <1>3
          DEF ApplySSHConfig, ScanInv, TypeOK, FactsFromHere, CompleteIsAdopted, WantUnfinished,
              OldScanIsDeaf, NoFutureStage, NoFutureFacts, Complete

LEMMA NextInv == ScanInv /\ [Next]_vars => ScanInv'
  <1> SUFFICES ASSUME ScanInv, [Next]_vars PROVE ScanInv'
    OBVIOUS
  <1>1. CASE RecomputeMsg
    <2>1. shown' \in Infos \cup {None} /\ dirty' \in BOOLEAN
      BY <1>1, RecomputeType DEF RecomputeMsg, ScanInv, TypeOK
    <2> QED BY <1>1, <2>1, QuietStep
            DEF RecomputeMsg, ScanInv, TypeOK, CompleteIsAdopted, NoFutureFacts
  <1>2. CASE ToggleSSH
    <2>1. ssh' \in [enabled : BOOLEAN, runner : BOOLEAN]
      BY <1>2 DEF ToggleSSH, ScanInv, TypeOK
    <2> QED BY <1>2, <2>1, QuietStep
            DEF ToggleSSH, ScanInv, TypeOK, CompleteIsAdopted, NoFutureFacts
  <1>3. CASE UNCHANGED vars
    BY <1>3, QuietStep DEF vars, ScanInv, TypeOK, CompleteIsAdopted, NoFutureFacts
  <1>4. CASE \E m \in stages : StageMsg(m)
    BY <1>4, StageFailedInv, StageDoneInv, StageDroppedInv DEF StageMsg
  <1> QED BY <1>1, <1>2, <1>3, <1>4, SnapshotInv, NodeMsgInv, StartScanInv, StartAPIScanInv,
             SwitchContextInv, ApplySSHConfigInv DEF Next

\* The scan's facts are of one gen, and once a node's stages are in, its Info
\* has them whichever of the probe and the last stage answered last
\* (handleStage, adoptSTIG, MergeSTIG).
THEOREM ScanCorrect == Spec => [](TypeOK /\ FactsFromHere /\ CompleteIsAdopted)
  <1>1. ScanInv => TypeOK /\ FactsFromHere /\ CompleteIsAdopted
    BY DEF ScanInv
  <1> QED BY <1>1, InitInv, NextInv, PTL DEF Spec

\* A stage asked of the previous cluster or login never completes a node (the
\* gen guard of stigStageMsg).
THEOREM FactsOfOneGen == Spec => []FactsFromHere
  <1>1. ScanInv => FactsFromHere
    BY DEF ScanInv
  <1> QED BY <1>1, InitInv, NextInv, PTL DEF Spec

\* A node's security facts are never replaced by an older scan's (MergeSTIG
\* and adoptSTIG in nodeMsg and handleStage).
THEOREM FactsOnlyGetNewer == Spec => FactsNeverOlder
  <1> DEFINE Newer == \A n \in Node : infos[n] # None /\ infos'[n] # None => infos'[n] >= infos[n]
  <1>1. ASSUME ScanInv, [Next]_vars PROVE [Newer]_vars
    <2>1. \A n \in Node : infos[n] # None => infos[n] \in 0..MaxScans
      BY <1>1 DEF ScanInv, TypeOK
    <2>2. ASSUME \A n \in Node : infos'[n] = infos[n] \/ infos'[n] = None PROVE Newer
      BY <2>1, <2>2, ScanBounds
    <2>3. CASE \E list \in SUBSET Node : Snapshot(list)
      BY <2>2, <2>3, <1>1 DEF Snapshot, ScanInv, TypeOK
    <2>4. CASE \E n \in Node, touched \in BOOLEAN : NodeMsg(n, touched)
      BY <1>1, <2>4, NodeMsgInv
    <2>5. CASE \E m \in stages : StageMsg(m)
      <3>1. PICK m \in stages : StageMsg(m)
        BY <2>5
      <3>2. CASE StageDone(m)
        BY <1>1, <3>2, StageDoneInv
      <3>3. CASE StageFailed(m) \/ StageDropped(m)
        BY <2>2, <3>3 DEF StageFailed, StageDropped
      <3> QED BY <3>1, <3>2, <3>3 DEF StageMsg
    <2>6. CASE \E runner \in BOOLEAN : SwitchContext(runner)
      BY <2>2, <2>6 DEF SwitchContext, NoInfos
    <2>7. CASE ApplySSHConfig
      BY <2>2, <2>7 DEF ApplySSHConfig, NoInfos
    <2>8. CASE StartScan \/ StartAPIScan \/ RecomputeMsg \/ ToggleSSH
      BY <2>2, <2>8 DEF StartScan, StartAPIScan, RecomputeMsg, ToggleSSH
    <2> QED BY <1>1, <2>3, <2>4, <2>5, <2>6, <2>7, <2>8 DEF Next
  <1> QED BY <1>1, InitInv, NextInv, PTL DEF Spec, FactsNeverOlder

\* While results are shown, a change of the facts marks them dirty and puts a
\* recompute on its way; results that are not dirty are of the facts held.
ResultsFollow ==
    secScanned => /\ dirty => timer
                  /\ ~dirty => /\ shown # None
                               /\ \A n \in Node : (infos[n] # None /\ infos[n] > 0) => shown[n] = infos[n]

\* An evaluation leaves results of the facts it was given.
LEMMA RecomputeFollows ==
  ASSUME NEW scanned, NEW isDirty, NEW map \in Infos, Recompute(scanned, isDirty, map),
         ~isDirty /\ shown # None =>
            \A n \in Node : (map[n] # None /\ map[n] > 0) => shown[n] = map[n]
  PROVE  scanned => /\ ~dirty' /\ shown' # None
                    /\ \A n \in Node : (map[n] # None /\ map[n] > 0) => shown'[n] = map[n]
  <1>1. map # None
    BY NodeAssumption DEF Infos
  <1> QED BY <1>1 DEF Recompute

LEMMA FollowNextInv ==
  ASSUME ScanInv, ResultsFollow, [Next]_vars PROVE ResultsFollow'
  <1> USE DEF ResultsFollow
  <1>1. ScanInv'
    BY NextInv
  <1>2. infos \in Infos /\ infos' \in Infos
    BY <1>1 DEF ScanInv, TypeOK
  <1>3. ASSUME NEW list \in SUBSET Node, Snapshot(list) PROVE ResultsFollow'
    <2>1. secScanned' = secScanned /\ Recompute(secScanned, TRUE, infos')
      BY <1>3 DEF Snapshot
    <2> QED BY <1>2, <2>1, RecomputeFollows
  <1>4. ASSUME NEW n \in Node, NEW touched \in BOOLEAN, NodeMsg(n, touched) PROVE ResultsFollow'
    <2> DEFINE merged == [infos EXCEPT ![n] = IF infos[n] = None THEN 0 ELSE infos[n]]
    <2>1. /\ secScanned' = secScanned /\ shown' = shown /\ timer' = TRUE
          /\ infos' = AdoptSTIG(scan, merged, n)
          /\ ~dirty' => ~dirty /\ ~Adopts(scan, merged, n)
      BY <1>4 DEF NodeMsg
    <2>2. ~dirty' => infos' = merged
      BY <2>1 DEF AdoptSTIG
    <2>3. \A k \in Node : merged[k] = infos[k] \/ merged[k] = 0
      BY <1>2 DEF Infos
    <2> HIDE DEF merged
    <2> QED BY <2>1, <2>2, <2>3
  <1>5. CASE StartScan
    BY <1>5 DEF StartScan
  <1>6. CASE StartAPIScan
    <2>1. infos' = infos /\ Recompute(TRUE, TRUE, infos)
      BY <1>6 DEF StartAPIScan
    <2> QED BY <1>2, <2>1, RecomputeFollows
  <1>7. ASSUME NEW m \in stages, StageMsg(m) PROVE ResultsFollow'
    <2>1. /\ secScanned' = secScanned /\ shown' = shown
          /\ \/ UNCHANGED <<infos, dirty, timer>>
             \/ timer' = TRUE /\ (~dirty' => ~dirty /\ infos' = infos)
      <3>1. CASE StageFailed(m) \/ StageDropped(m)
        BY <3>1 DEF StageFailed, StageDropped
      <3>2. CASE StageDone(m)
        BY <3>2 DEF StageDone, AdoptSTIG
      <3> QED BY <1>7, <3>1, <3>2 DEF StageMsg
    <2> QED BY <2>1
  <1>8. CASE RecomputeMsg
    <2>1. infos' = infos /\ secScanned' = secScanned /\ Recompute(secScanned, dirty, infos)
      BY <1>8 DEF RecomputeMsg
    <2>2. CASE secScanned
      BY <1>2, <2>1, <2>2, RecomputeFollows
    <2> QED BY <2>1, <2>2
  <1>9. CASE ToggleSSH
    BY <1>9 DEF ToggleSSH
  <1>10. CASE \E runner \in BOOLEAN : SwitchContext(runner)
    BY <1>10 DEF SwitchContext
  <1>11. CASE ApplySSHConfig
    <2>1. \A n \in Node : infos'[n] = None
      BY <1>11 DEF ApplySSHConfig, NoInfos
    <2> QED BY <1>11, <2>1 DEF ApplySSHConfig
  <1>12. CASE UNCHANGED vars
    BY <1>12 DEF vars
  <1> QED BY <1>3, <1>4, <1>5, <1>6, <1>7, <1>8, <1>9, <1>10, <1>11, <1>12 DEF Next

\* No change of the facts held goes unnoticed by the Security tab: unless a
\* recompute is on its way its results are those of the facts (stigDirty and
\* scheduleRecompute in nodeMsg, handleStage, startScan and snapshotMsg).
THEOREM ResultsStayCurrent == Spec => []ResultsAreCurrent
  <1>1. Init => ResultsFollow
    BY DEF Init, ResultsFollow
  <1>2. ResultsFollow => ResultsAreCurrent
    BY DEF ResultsFollow, ResultsAreCurrent
  <1>3. ScanInv /\ ResultsFollow /\ [Next]_vars => ResultsFollow'
    BY FollowNextInv
  <1> QED BY <1>1, <1>2, <1>3, InitInv, NextInv, PTL DEF Spec
=============================================================================
