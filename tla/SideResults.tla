---------------------------- MODULE SideResults ----------------------------
(***************************************************************************)
(* The results the update loop fetches beside the node probes              *)
(* (internal/ui/app.go, tabs_crds.go): chart versions (helmCmd), the etcd  *)
(* view through the API (etcdExecCmd), the snapshot S3 secret and its      *)
(* reachability from a node (s3Cmd, s3CheckCmd) and the CRD counts         *)
(* (crdCountCmd).  Each comes back as a message of its own; some carry gen *)
(* or seq and are dropped when it moved, some carry neither.               *)
(***************************************************************************)
EXTENDS RefreshChain, Bags

CONSTANTS
    Node,      \* etcd nodes
    None,      \* no result
    S3Cluster, \* the clusters whose RKE2 config names an S3 secret; one name for all
    MaxGen,    \* bound on context switches and SSH settings applied
    MaxCmds    \* bound on the commands in flight when a tab or a probe adds one

SideAssumption ==
    None \notin Cluster /\ S3Cluster \subseteq Cluster /\ MaxGen \in Nat /\ MaxCmds \in Nat

VARIABLES
    gen,         \* App.gen
    sshOn,       \* App.sshEnabled
    heavyNext,   \* App.heavyNext
    etcdKnown,   \* the nodes with an entry in App.etcd
    helmLatest,  \* the cluster App.helmLatest was looked up for
    s3,          \* the cluster App.s3 was read from
    s3Reach,     \* App.s3Reach: node -> the cluster it was asked in and the store it tried
    etcdExec,    \* App.etcdExec: the cluster, and whether the sample is known
    crdCounts,   \* the cluster App.crdCounts was counted in
    crdCounting, \* App.crdCounting
    cmds         \* the bag of commands in flight

sideVars == <<gen, sshOn, heavyNext, etcdKnown, helmLatest, s3, s3Reach, etcdExec,
              crdCounts, crdCounting, cmds>>
vars == <<chainVars, sideVars>>

Kind == {"helm", "exec", "s3", "s3check", "crd"}
\* What a message carries: its kind's guard (gen of exec and s3check, seq of
\* crd, 0 otherwise) and the cluster asked.  store: whose secret the URL and
\* the CA of an s3check are taken from.  sample: the exec probe reads the
\* encryption-at-rest sample; had: the sample was known when it started.
\* An exec probe does one or the other.
Cmd == {c \in [kind : Kind, guard : 0..(MaxGen + MaxSeq), from : Cluster,
               node : Node \cup {None}, store : Cluster \cup {None},
               sample : BOOLEAN, had : BOOLEAN] :
           c.kind = "exec" => c.sample \/ c.had}
Check == [asked : Cluster, store : Cluster]
Exec == [from : Cluster, sampled : BOOLEAN]

TypeOK ==
    /\ ChainTypeOK
    /\ gen \in 0..MaxGen
    /\ sshOn \in BOOLEAN
    /\ heavyNext \in BOOLEAN
    /\ etcdKnown \subseteq Node
    /\ helmLatest \in Cluster \cup {None}
    /\ s3 \in Cluster \cup {None}
    /\ s3Reach \in [Node -> Check \cup {None}]
    /\ etcdExec \in Exec \cup {None}
    /\ crdCounts \in Cluster \cup {None}
    /\ crdCounting \in BOOLEAN
    /\ IsABag(cmds) /\ BagToSet(cmds) \subseteq Cmd

-----------------------------------------------------------------------------
Issue(new) == cmds (+) SetToBag(new)
Answered(m) == cmds (-) SetToBag({m})
Room == BagCardinality(cmds) < MaxCmds

NewCmd(kind, guard, n) ==
    [kind |-> kind, guard |-> guard, from |-> cluster, node |-> n, store |-> None,
     sample |-> FALSE, had |-> FALSE]

\* etcdExecCmd: the sample is read until it is known, then with heavyNext.
EtcdExecCmd ==
    LET known == etcdExec # None /\ etcdExec.sampled
    IN [NewCmd("exec", gen, None) EXCEPT !.sample = ~known \/ heavyNext, !.had = known]
HelmCmd == NewCmd("helm", 0, None)
CRDCountCmd == NewCmd("crd", seq, None)
S3Cmd == NewCmd("s3", 0, None)

\* s3CheckCmd: the node's S3 config is known once the secret is read.  A node
\* of this cluster is asked, for the store of App.s3 whoever that was read from.
S3CheckCmds(nodes, secret) ==
    IF sshOn /\ secret # None
      THEN {[NewCmd("s3check", gen, n) EXCEPT !.store = secret] : n \in nodes}
      ELSE {}

Init ==
    /\ ChainInit
    /\ gen = 0
    /\ sshOn \in BOOLEAN
    /\ heavyNext = TRUE
    /\ etcdKnown = {}
    /\ helmLatest = None
    /\ s3 = None
    /\ s3Reach = [n \in Node |-> None]
    /\ etcdExec = None
    /\ crdCounts = None
    /\ crdCounting = FALSE
    /\ cmds = EmptyBag

Tick == /\ \E s \in ticks : TickMsg(s)
        /\ UNCHANGED sideVars

\* snapshotMsg: the chart lookup, the exec probe (its sample decided before
\* collectCmds consumes heavyNext) and, on the CRD tab, the counts, as far as
\* the snapshot has releases, etcd pods and CRDs: `wants`.  Without SSH
\* collectCmds returns before it clears heavyNext.
Snapshot(f, wants) ==
    /\ SnapshotMsg(f)
    /\ Current(f)
    /\ crdCounts' = None
    /\ crdCounting' = ("crd" \in wants)
    /\ cmds' = Issue({c \in {HelmCmd, EtcdExecCmd, CRDCountCmd} : c.kind \in wants})
    /\ heavyNext' = (heavyNext /\ ~sshOn)
    /\ UNCHANGED <<gen, sshOn, etcdKnown, helmLatest, s3, s3Reach, etcdExec>>

StaleSnapshot(f) ==
    /\ SnapshotMsg(f)
    /\ ~Current(f)
    /\ UNCHANGED sideVars

\* The key R.
FullRefreshKey ==
    /\ RefreshUnlessRunning
    /\ heavyNext' = TRUE
    /\ UNCHANGED <<gen, sshOn, etcdKnown, helmLatest, s3, s3Reach, etcdExec, crdCounts, crdCounting, cmds>>

\* The key s: enabling SSH forces the collection it starts.
ToggleSSH ==
    /\ sshOn' = ~sshOn
    /\ heavyNext' = IF sshOn THEN heavyNext ELSE snapFrom = NoCluster
    /\ UNCHANGED <<chainVars, gen, etcdKnown, helmLatest, s3, s3Reach, etcdExec, crdCounts, crdCounting, cmds>>

\* onEnter of the CRD tab; crdCountCmd counts once at a time.
OpenCRDs ==
    /\ snapFrom # NoCluster
    /\ ~crdCounting
    /\ Room
    /\ crdCounting' = TRUE
    /\ cmds' = Issue({CRDCountCmd})
    /\ UNCHANGED <<chainVars, gen, sshOn, heavyNext, etcdKnown, helmLatest, s3, s3Reach, etcdExec, crdCounts>>

\* onEnter of the etcd tab with a missing or stale exec view.
OpenEtcd ==
    /\ snapFrom # NoCluster
    /\ Room
    /\ cmds' = Issue({EtcdExecCmd})
    /\ UNCHANGED <<chainVars, gen, sshOn, heavyNext, etcdKnown, helmLatest, s3, s3Reach, etcdExec, crdCounts, crdCounting>>

\* etcdMsg of node n: the secret its config names is read, or checked.
EtcdMsg(n) ==
    /\ snapFrom # NoCluster
    /\ sshOn
    /\ Room
    /\ etcdKnown' = etcdKnown \cup {n}
    /\ cmds' = IF cluster \in S3Cluster /\ s3 = None
                 THEN Issue({S3Cmd})
                 ELSE Issue(IF cluster \in S3Cluster THEN S3CheckCmds({n}, s3) ELSE {})
    /\ UNCHANGED <<chainVars, gen, sshOn, heavyNext, helmLatest, s3, s3Reach, etcdExec, crdCounts, crdCounting>>

\* helmMsg: no guard.
HelmMsg(m) ==
    /\ m.kind = "helm"
    /\ helmLatest' = m.from
    /\ cmds' = Answered(m)
    /\ UNCHANGED <<chainVars, gen, sshOn, heavyNext, etcdKnown, s3, s3Reach, etcdExec, crdCounts, crdCounting>>

\* s3Msg: no guard; every known etcd node checks the endpoint again.
S3Msg(m) ==
    /\ m.kind = "s3"
    /\ s3' = m.from
    /\ cmds' = Answered(m) (+) SetToBag(IF cluster \in S3Cluster THEN S3CheckCmds(etcdKnown, m.from) ELSE {})
    /\ UNCHANGED <<chainVars, gen, sshOn, heavyNext, etcdKnown, helmLatest, s3Reach, etcdExec, crdCounts, crdCounting>>

CheckOf(m) == [asked |-> m.from, store |-> m.store]

\* Mutant of S3CheckMsg: the gen is not compared.
S3CheckOfAnyGen(m) ==
    /\ m.kind = "s3check"
    /\ s3Reach' = [s3Reach EXCEPT ![m.node] = CheckOf(m)]
    /\ cmds' = Answered(m)
    /\ UNCHANGED <<chainVars, gen, sshOn, heavyNext, etcdKnown, helmLatest, s3, etcdExec, crdCounts, crdCounting>>

\* s3CheckMsg: gen guard.
S3CheckMsg(m) ==
    /\ m.kind = "s3check"
    /\ s3Reach' = IF m.guard = gen THEN [s3Reach EXCEPT ![m.node] = CheckOf(m)] ELSE s3Reach
    /\ cmds' = Answered(m)
    /\ UNCHANGED <<chainVars, gen, sshOn, heavyNext, etcdKnown, helmLatest, s3, etcdExec, crdCounts, crdCounting>>

\* etcdExecMsg: gen guard; ok is whether the sample could be read.  A probe
\* without one carries the sample known when it started, not the one shown.
EtcdExecMsg(m, ok) ==
    /\ m.kind = "exec"
    /\ etcdExec' = IF m.guard = gen THEN [from |-> m.from, sampled |-> (m.sample /\ ok) \/ m.had]
                                  ELSE etcdExec
    /\ cmds' = Answered(m)
    /\ UNCHANGED <<chainVars, gen, sshOn, heavyNext, etcdKnown, helmLatest, s3, s3Reach, crdCounts, crdCounting>>

\* crdCountMsg: seq guard, but crdCounting is reset whatever the seq.
CRDCountMsg(m) ==
    /\ m.kind = "crd"
    /\ crdCounting' = FALSE
    /\ crdCounts' = IF m.guard = seq THEN m.from ELSE crdCounts
    /\ cmds' = Answered(m)
    /\ UNCHANGED <<chainVars, gen, sshOn, heavyNext, etcdKnown, helmLatest, s3, s3Reach, etcdExec>>

\* switchContext; crdCounting is not reset.
SwitchContext(c) ==
    /\ gen < MaxGen
    /\ SwitchChain(c)
    /\ gen' = gen + 1
    /\ sshOn' \in BOOLEAN
    /\ heavyNext' = TRUE
    /\ etcdKnown' = {}
    /\ helmLatest' = None
    /\ s3' = None
    /\ s3Reach' = [n \in Node |-> None]
    /\ etcdExec' = None
    /\ crdCounts' = None
    /\ UNCHANGED <<crdCounting, cmds>>

\* applySSHConfig: gen moves and what SSH or exec read is dropped; s3 and
\* s3Reach stay, and the forced collection it starts needs a snapshot.
ApplySSHConfig ==
    /\ gen < MaxGen
    /\ gen' = gen + 1
    /\ sshOn' = TRUE
    /\ heavyNext' = (snapFrom = NoCluster)
    /\ etcdKnown' = {}
    /\ etcdExec' = None
    /\ UNCHANGED <<chainVars, helmLatest, s3, s3Reach, crdCounts, crdCounting, cmds>>

Done == AtMaxSeq /\ UNCHANGED sideVars

Next ==
    \/ Tick
    \/ \E f \in fetches : \E wants \in SUBSET {"helm", "exec", "crd"} : Snapshot(f, wants)
    \/ \E f \in fetches : StaleSnapshot(f)
    \/ FullRefreshKey
    \/ ToggleSSH
    \/ OpenCRDs
    \/ OpenEtcd
    \/ \E n \in Node : EtcdMsg(n)
    \/ \E m \in BagToSet(cmds) :
          HelmMsg(m) \/ S3Msg(m) \/ S3CheckMsg(m) \/ CRDCountMsg(m)
          \/ \E ok \in BOOLEAN : EtcdExecMsg(m, ok)
    \/ \E c \in Cluster : SwitchContext(c)
    \/ ApplySSHConfig
    \/ Done

Spec == Init /\ [][Next]_vars

-----------------------------------------------------------------------------
\* What is asked under a guard is of the current cluster: an etcd view, an S3
\* check or a CRD count asked of the previous cluster is never shown for this
\* one.  Of an S3 check that says which cluster's node was asked, not which
\* store it tried: see UnguardedResultsAreOurs.
GuardedResultsAreOurs ==
    /\ etcdExec = None \/ etcdExec.from = cluster
    /\ \A n \in Node : s3Reach[n] = None \/ s3Reach[n].asked = cluster
    /\ crdCounts \in {None, cluster}

\* crdCounting is never left set with no count running to reset it: the CRD
\* tab would stay without counts.
CountingEnds == crdCounting => \E m \in BagToSet(cmds) : m.kind = "crd"

\* switchContext: every cached result is dropped and what is in flight is
\* ignored - the chart versions, the S3 secret and the stores shown as checked
\* are this cluster's.
UnguardedResultsAreOurs ==
    /\ helmLatest \in {None, cluster}
    /\ s3 \in {None, cluster}
    /\ \A n \in Node : s3Reach[n] = None \/ s3Reach[n].store = cluster
=============================================================================
