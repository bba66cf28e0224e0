----------------------------- MODULE UpdateLoop -----------------------------
(***************************************************************************)
(* SSH collection in the update loop of ui.App: what is probed, when, and  *)
(* which answers are kept (internal/ui/app.go, collect.go, perf.go,        *)
(* sshconfig.go).                                                          *)
(*                                                                         *)
(* An accepted snapshot starts a node probe, and on etcd nodes an etcd     *)
(* probe, on every SSH target that has none pending and is not in backoff. *)
(* The probes run in goroutines of their own, take any time up to their    *)
(* timeout, and answer in any order - across refresh ticks, a context      *)
(* switch or new SSH settings.  Each carries the gen it was asked under.   *)
(*                                                                         *)
(* Names are shared between the clusters on purpose: two clusters with the *)
(* same node names are what makes a stale answer hard to see.              *)
(***************************************************************************)
EXTENDS RefreshChain, Bags

CONSTANTS
    Node,     \* node names, the same in every cluster
    None,     \* "no entry" in a per-node map
    EtcdNode, \* the nodes k8s.IsEtcdNode is true of
    SSHNodes, \* cfg.SSH.Nodes: limits the probes, {} means every node
    Hosts,    \* the host a cluster is reached by when its API is down
    Login,    \* the SSH settings the operator can choose
    Backoff,  \* cfg.SSH.Backoff
    Failing,  \* the nodes whose SSH probe can fail
    Moved,    \* the nodes whose address is edited in the rescue picker
    MaxGen,   \* bound on context switches and SSH settings applied
    MaxStack  \* bound on the probes probeNodeNow piles up on one node

ASSUME NodeAssumption ==
    /\ EtcdNode \subseteq Node
    /\ SSHNodes \subseteq Node
    /\ Hosts \subseteq Node
ASSUME NoneAssumption == None \notin Cluster \cup Login
ASSUME BoundAssumption == MaxGen \in Nat /\ MaxStack \in Nat

VARIABLES
    gen,        \* App.gen: numbers the cluster and login the probes are for
    cycle,      \* App.cycle: snapshots accepted since the context switch
    heavyNext,  \* App.heavyNext: the next collection forces every tier
    login,      \* App.cfg.SSH
    hosts,      \* App.cfg.SSH.Hosts: name -> the cluster its address is in
    ssh,        \* App.sshEnabled, and whether App.runner is non-nil
    listing,    \* the node names in App.snap
    knownNodes, \* App.knownNodes: the last non-empty listing
    nodes,      \* App.nodes: node -> where and as whom its facts were read
    etcd,       \* App.etcd: the same, with the peers found on the node's disk
    pending,    \* App.pending: nodes with a node probe running
    etcdPend,   \* App.etcdPend: nodes with an etcd probe running
    skipUntil,  \* App.fp.skipUntil: the cycle a node's backoff ends
    sshDown,    \* App.sshDown: node -> the cluster its SSH failures were seen in
    probes      \* the bag of probe commands in flight

sshVars == <<gen, cycle, heavyNext, login, hosts, ssh, listing, knownNodes, nodes,
             etcd, pending, etcdPend, skipUntil, sshDown, probes>>
vars == <<chainVars, sshVars>>

Probe == [kind : {"node", "etcd"}, gen : 0..MaxGen, node : Node,
          from : Cluster, as : Login, force : BOOLEAN]
Facts == [from : Cluster, as : Login]
EtcdFacts == [from : Cluster, as : Login, peers : SUBSET Node]

TypeOK ==
    /\ ChainTypeOK
    /\ gen \in 0..MaxGen
    /\ cycle \in 0..MaxSeq
    /\ heavyNext \in BOOLEAN
    /\ login \in Login
    /\ hosts \in [Node -> Cluster \cup {None}]
    /\ ssh \in [enabled : BOOLEAN, runner : BOOLEAN]
    /\ listing \subseteq Node
    /\ knownNodes \subseteq Node
    /\ nodes \in [Node -> Facts \cup {None}]
    /\ etcd \in [Node -> EtcdFacts \cup {None}]
    /\ pending \subseteq Node
    /\ etcdPend \subseteq Node
    /\ skipUntil \in [Node -> 0..(MaxSeq + 2)]
    /\ sshDown \in [Node -> Cluster \cup {None}]
    /\ IsABag(probes)
    /\ BagToSet(probes) \subseteq Probe

-----------------------------------------------------------------------------
NoFacts == [n \in Node |-> None]
Seen(facts) == {n \in Node : facts[n] # None}

\* sshTargets and withPeers: the listing, or in an outage the last good list
\* (then ssh.hosts) with the peers the etcd probes found.
SSHTargets(list, known, et, hs) ==
    IF list # {} THEN list
    ELSE (IF known # {} THEN known ELSE Seen(hs))
         \cup UNION {et[n].peers : n \in Seen(et)}

\* The ssh.nodes filter (`only`).
Only(targets) == IF SSHNodes = {} THEN targets ELSE targets \cap SSHNodes

\* Mutant of SkipProbe: only the node probe's mark is looked at.
SkipProbeIgnoringEtcd(n, pend, epend, until, cyc) == n \in pend \/ (Backoff /\ until[n] > cyc)

\* skipProbe: a probe is still running, or the node is in backoff.
SkipProbe(n, pend, epend, until, cyc) ==
    \/ n \in pend \cup epend
    \/ Backoff /\ until[n] > cyc

\* nodeAddress: the address in ssh.hosts, or the one the cluster gives.
NodeAddress(n, hs, c) == IF hs[n] # None THEN hs[n] ELSE c

\* AddFallbackHost on an empty map: the host cluster c is reached by.
FallbackHosts(c) == [n \in Node |-> IF n \in Hosts THEN c ELSE None]

\* The probe a command closure carries: the gen, the runner's login and the
\* cluster whose node it reaches, at the moment it was built.
NewProbe(kind, n, g, from, l, force) ==
    [kind |-> kind, gen |-> g, node |-> n, from |-> from, as |-> l, force |-> force]

\* Which nodes collectCmds probes, after the assignments of its caller.
Collected(pend, epend) ==
    {n \in Only(SSHTargets(listing', knownNodes', etcd', hosts')) :
        ~SkipProbe(n, pend, epend, skipUntil', cycle')}

\* In an outage the roles are unknown: every host gets the etcd probe.
EtcdCollected(picked) == IF listing' = {} THEN picked ELSE picked \cap EtcdNode

\* collectCmds, run last by its callers: pend, epend and heavy are pending,
\* etcdPend and heavyNext as the caller left them.  Without SSH or a snapshot
\* it returns before heavyNext is consumed.
CollectCmds(pend, epend, heavy) ==
    IF ~ssh'.enabled \/ ~ssh'.runner \/ snapFrom' = NoCluster
    THEN /\ pending' = pend
         /\ etcdPend' = epend
         /\ heavyNext' = heavy
         /\ probes' = probes
    ELSE LET picked == Collected(pend, epend)
             epicked == EtcdCollected(picked)
             new(kind, n) == NewProbe(kind, n, gen', NodeAddress(n, hosts', cluster'), login', heavy)
         IN /\ pending' = pend \cup picked
            /\ etcdPend' = epend \cup epicked
            /\ heavyNext' = FALSE
            /\ probes' = probes (+) SetToBag({new("node", n) : n \in picked}
                                             \cup {new("etcd", n) : n \in epicked})

-----------------------------------------------------------------------------
Init ==
    /\ ChainInit
    /\ gen = 0
    /\ cycle = 0
    /\ heavyNext = TRUE
    /\ login \in Login
    /\ hosts = FallbackHosts(cluster)
    /\ ssh \in {[enabled |-> TRUE, runner |-> TRUE], [enabled |-> FALSE, runner |-> FALSE]}
    /\ listing = {}
    /\ knownNodes = {}
    /\ nodes = NoFacts
    /\ etcd = NoFacts
    /\ pending = {}
    /\ etcdPend = {}
    /\ skipUntil = [n \in Node |-> 0]
    /\ sshDown = NoFacts
    /\ probes = EmptyBag

\* tickMsg: only the chain moves.
Tick == /\ \E s \in ticks : TickMsg(s)
        /\ UNCHANGED sshVars

\* The key r, and handleActionDone: refresh unless one is running.
RefreshKey == /\ RefreshUnlessRunning
              /\ UNCHANGED sshVars

\* The key R, and closing a finished rescue: every tier on the next cycle.
FullRefreshKey ==
    /\ RefreshUnlessRunning
    /\ heavyNext' = TRUE
    /\ UNCHANGED <<gen, cycle, login, hosts, ssh, listing, knownNodes, nodes, etcd,
                   pending, etcdPend, skipUntil, sshDown, probes>>

\* The entries a non-empty listing leaves: the nodes of App.nodes it does not
\* name are dropped from every per-node map.  An empty listing is an outage.
Forget(map, list) ==
    [n \in Node |-> IF list # {} /\ nodes[n] # None /\ n \notin list THEN None ELSE map[n]]

\* snapshotMsg of the current seq, listing `list` ({}: the API did not answer).
Snapshot(f, list) ==
    /\ SnapshotMsg(f)
    /\ Current(f)
    /\ listing' = list
    /\ cycle' = cycle + 1
    /\ knownNodes' = IF list # {} THEN list ELSE knownNodes
    /\ nodes' = Forget(nodes, list)
    /\ etcd' = Forget(etcd, list)
    /\ sshDown' = Forget(sshDown, list)
    /\ UNCHANGED <<gen, login, hosts, ssh, skipUntil>>
    /\ CollectCmds(pending, etcdPend, heavyNext)

\* snapshotMsg of a superseded refresh.
StaleSnapshot(f) ==
    /\ SnapshotMsg(f)
    /\ ~Current(f)
    /\ UNCHANGED sshVars

Answered(p) == probes' = probes (-) SetToBag({p})

\* Mutant of Accepted: the gen is not compared.
AnyGen(p) == TRUE

\* The gen guard of nodeMsg and etcdMsg.
Accepted(p) == p.gen = gen

\* noteProbeDuration: the backoff armed by a slow answer.
NoteProbeDuration(n, slow) ==
    skipUntil' = IF Backoff /\ slow THEN [skipUntil EXCEPT ![n] = cycle + 2] ELSE skipUntil

\* nodeMsg with its noteSSH; ok is whether the script's answer came back.
NodeMsg(p, ok, slow) ==
    /\ p.kind = "node"
    /\ Accepted(p)
    /\ nodes' = [nodes EXCEPT ![p.node] = [from |-> p.from, as |-> p.as]]
    /\ sshDown' = [sshDown EXCEPT ![p.node] =
                     IF ok THEN None ELSE IF @ = None THEN p.from ELSE @]
    /\ pending' = pending \ {p.node}
    /\ NoteProbeDuration(p.node, slow)
    /\ Answered(p)
    /\ UNCHANGED <<chainVars, gen, cycle, heavyNext, login, hosts, ssh, listing,
                   knownNodes, etcd, etcdPend>>

\* Mutant of EtcdMsg: a slow answer keeps its pending mark.
EtcdMsgKeepsSlow(p, peers, slow) ==
    /\ p.kind = "etcd"
    /\ Accepted(p)
    /\ etcd' = [etcd EXCEPT ![p.node] = [from |-> p.from, as |-> p.as, peers |-> peers]]
    /\ etcdPend' = IF slow THEN etcdPend ELSE etcdPend \ {p.node}
    /\ NoteProbeDuration(p.node, slow)
    /\ Answered(p)
    /\ UNCHANGED <<chainVars, gen, cycle, heavyNext, login, hosts, ssh, listing,
                   knownNodes, nodes, pending, sshDown>>

\* etcdMsg; peers is what the probe found on the node's disk.
EtcdMsg(p, peers, slow) ==
    /\ p.kind = "etcd"
    /\ Accepted(p)
    /\ etcd' = [etcd EXCEPT ![p.node] = [from |-> p.from, as |-> p.as, peers |-> peers]]
    /\ etcdPend' = etcdPend \ {p.node}
    /\ NoteProbeDuration(p.node, slow)
    /\ Answered(p)
    /\ UNCHANGED <<chainVars, gen, cycle, heavyNext, login, hosts, ssh, listing,
                   knownNodes, nodes, pending, sshDown>>

\* nodeMsg or etcdMsg of an earlier gen.
StaleAnswer(p) ==
    /\ ~Accepted(p)
    /\ Answered(p)
    /\ UNCHANGED <<chainVars, gen, cycle, heavyNext, login, hosts, ssh, listing, knownNodes,
                   nodes, etcd, pending, etcdPend, skipUntil, sshDown>>

\* The key s with a runner: SSH collection off, or on with a forced cycle.
ToggleSSH ==
    /\ ssh.runner
    /\ ssh' = [ssh EXCEPT !.enabled = ~@]
    /\ UNCHANGED <<chainVars, gen, cycle, login, hosts, listing, knownNodes, nodes,
                   etcd, skipUntil, sshDown>>
    /\ IF ssh'.enabled
         THEN CollectCmds(pending, etcdPend, TRUE)
         ELSE UNCHANGED <<pending, etcdPend, heavyNext, probes>>

\* applySSHConfig with settings a runner can be built from: everything read
\* as the previous login is dropped and the nodes are probed again at once.
ApplySSHConfig(l) ==
    /\ gen < MaxGen
    /\ gen' = gen + 1
    /\ login' = l
    /\ ssh' = [enabled |-> TRUE, runner |-> TRUE]
    /\ nodes' = NoFacts
    /\ etcd' = NoFacts
    /\ UNCHANGED <<chainVars, cycle, hosts, listing, knownNodes, skipUntil, sshDown>>
    /\ CollectCmds({}, {}, TRUE)

\* switchContext: the context may name the login and the host its nodes are
\* reached with (hint); without, login and ssh.hosts stay.  No runner may come
\* of it.  skipUntil and sshDown are not reset.
SwitchContext(c, hint, runner) ==
    /\ gen < MaxGen
    /\ SwitchChain(c)
    /\ gen' = gen + 1
    /\ cycle' = 0
    /\ heavyNext' = TRUE
    /\ login' = IF hint = None THEN login ELSE hint
    /\ hosts' = IF hint = None THEN hosts ELSE FallbackHosts(c)
    /\ ssh' = [enabled |-> runner, runner |-> runner]
    /\ listing' = {}
    /\ knownNodes' = {}
    /\ nodes' = NoFacts
    /\ etcd' = NoFacts
    /\ pending' = {}
    /\ etcdPend' = {}
    /\ UNCHANGED <<skipUntil, sshDown, probes>>

\* onEnter: a tab opened with stale tiers probes the nodes it already knows,
\* S of them, with those tiers only.
OnEnter(S) ==
    /\ snapFrom # NoCluster
    /\ ssh.enabled /\ ssh.runner
    /\ S # {}
    /\ S \subseteq {n \in Only(SSHTargets(listing, knownNodes, etcd, hosts)) :
                       ~SkipProbe(n, pending, etcdPend, skipUntil, cycle) /\ nodes[n] # None}
    /\ pending' = pending \cup S
    /\ probes' = probes (+) SetToBag({NewProbe("node", n, gen, NodeAddress(n, hosts, cluster), login, FALSE) : n \in S})
    /\ UNCHANGED <<chainVars, gen, cycle, heavyNext, login, hosts, ssh, listing,
                   knownNodes, nodes, etcd, etcdPend, skipUntil, sshDown>>

\* openRescue with a node that was never probed and nothing running.
OpenRescue ==
    /\ snapFrom # NoCluster
    /\ ssh.enabled /\ ssh.runner
    /\ pending = {} /\ etcdPend = {}
    /\ \E n \in SSHTargets(listing, knownNodes, etcd, hosts) :
          (listing = {} \/ n \in EtcdNode) /\ etcd[n] = None
    /\ UNCHANGED <<chainVars, gen, cycle, login, hosts, ssh, listing, knownNodes,
                   nodes, etcd, skipUntil, sshDown>>
    /\ CollectCmds(pending, etcdPend, heavyNext)

\* The probes running on node n for the current gen, and their number.
Running(kind, n) == {p \in BagToSet(probes) : p.kind = kind /\ p.node = n /\ Accepted(p)}
Stacked(kind, n) == BagCardinality([p \in Running(kind, n) |-> probes[p]])

\* The rescue picker changed a node's address in ssh.hosts, then probeNodeNow:
\* skipProbe is not consulted.
ProbeNodeNow(n) ==
    /\ n \in Moved
    /\ snapFrom # NoCluster
    /\ ssh.runner
    /\ n \in SSHTargets(listing, knownNodes, etcd, hosts)
    /\ \A kind \in {"node", "etcd"} : Stacked(kind, n) < MaxStack
    /\ LET new(kind) == NewProbe(kind, n, gen, cluster, login, FALSE) \* its new address
           withEtcd == listing = {} \/ n \in EtcdNode
       IN /\ pending' = pending \cup {n}
          /\ etcdPend' = IF withEtcd THEN etcdPend \cup {n} ELSE etcdPend
          /\ probes' = probes (+) SetToBag({new("node")} \cup
                                           (IF withEtcd THEN {new("etcd")} ELSE {}))
    /\ hosts' = [hosts EXCEPT ![n] = cluster]
    /\ UNCHANGED <<chainVars, gen, cycle, heavyNext, login, ssh, listing,
                   knownNodes, nodes, etcd, skipUntil, sshDown>>

Done == AtMaxSeq /\ UNCHANGED sshVars

Deliver(p) ==
    \/ \E ok \in {TRUE} \cup {p.node \notin Failing}, slow \in BOOLEAN : NodeMsg(p, ok, slow)
    \/ \E peers \in {{}, EtcdNode}, slow \in BOOLEAN : EtcdMsg(p, peers, slow)
    \/ StaleAnswer(p)

Next ==
    \/ Tick
    \/ RefreshKey
    \/ FullRefreshKey
    \/ \E f \in fetches : \E list \in SUBSET Node : Snapshot(f, list)
    \/ \E f \in fetches : StaleSnapshot(f)
    \/ \E p \in BagToSet(probes) : Deliver(p)
    \/ ToggleSSH
    \/ \E l \in Login : ApplySSHConfig(l)
    \/ \E c \in Cluster, hint \in Login \cup {None}, runner \in BOOLEAN : SwitchContext(c, hint, runner)
    \/ \E S \in SUBSET Node : OnEnter(S)
    \/ OpenRescue
    \/ \E n \in Node : ProbeNodeNow(n)
    \/ Done

Spec == Init /\ [][Next]_vars

\* Every SSH probe runs under a context timeout, so each one answers; the
\* fetches and the timers deliver as in RefreshChain.  Keys are never fair.
Fairness ==
    /\ \A n \in Node : WF_vars(\E p \in BagToSet(probes) : p.node = n /\ Deliver(p))
    /\ WF_vars(\E f \in fetches : StaleSnapshot(f) \/ \E list \in SUBSET Node : Snapshot(f, list))
    /\ WF_vars(Tick)

FairSpec == Spec /\ Fairness

-----------------------------------------------------------------------------
\* Every fact shown was read with the SSH settings in use and from the
\* cluster the app is attached to: an answer asked before a context switch or
\* before new settings is never merged, even when the new cluster has a node
\* of the same name (the gen guards of nodeMsg and etcdMsg).  A name with an
\* address in ssh.hosts is reached wherever that address leads.
NoForeignFacts ==
    \A n \in Node : \A facts \in {nodes[n], etcd[n]} \ {None} :
        facts.as = login /\ (facts.from = cluster \/ hosts[n] # None)

\* Nor is a list of the previous cluster shown for this one (the seq guard of snapshotMsg).
NothingForeign == NoForeignSnapshot /\ NoForeignFacts

\* A node marked pending has a probe in flight whose answer will be accepted.
\* Without it skipProbe would refuse to probe the node ever again.
PendingHasProbe ==
    /\ \A n \in pending : \E p \in BagToSet(probes) :
          p.kind = "node" /\ p.node = n /\ Accepted(p)
    /\ \A n \in etcdPend : \E p \in BagToSet(probes) :
          p.kind = "etcd" /\ p.node = n /\ Accepted(p)

\* skipProbe's promise: never two sessions of the same kind on one node.
NoStackedProbes ==
    \A kind \in {"node", "etcd"}, n \in Node :
        \A p, q \in Running(kind, n) : p = q /\ probes[p] = 1

\* A slow answer costs the node the next cycle and no more: the backoff never
\* reaches past the cycle after next (noteProbeDuration against the cycle
\* counter that the context switch resets).
BackoffBounded == \A n \in Node : skipUntil[n] <= cycle + 2

\* A pending mark is always taken back: the node is never skipped for good.
PendingClears == \A n \in Node : n \in pending \cup etcdPend ~> n \notin pending \cup etcdPend
=============================================================================
