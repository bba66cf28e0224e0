------------------------------ MODULE Findings ------------------------------
(***************************************************************************)
(* App.recompute: the findings, and the rules' statuses, of what has         *)
(* answered so far; and App.incRefresh: the incidents and their causes.    *)
(*                                                                         *)
(* The lists of the API, the probe of each node, its slower tiers and its  *)
(* etcd answer at moments of their own, and each may fail, while the       *)
(* cluster goes on.  The findings are those of what is at hand.            *)
(*                                                                         *)
(* A scene is a cluster and what becomes of it: the sets of facts that are *)
(* true one after the other, the hosts that are asked, and whether it is a  *)
(* run without a screen, which asks each of them once.                     *)
(***************************************************************************)
EXTENDS CheckHosts, CheckStorage, CheckEtcd, StigOS, RootCause

CONSTANTS
    Scenes,    \* the scenes looked at, by name
    MaxMissing \* the lists that fail in one refresh, at most

VARIABLES
    scene,   \* the cluster and its worlds
    world,   \* the one that is true now
    lists,   \* the refresh on the screen: when it was, the lists that failed, those of
             \* them that were refused, and of the ones that are kept when they were read
    seen,    \* of each probe and node, the world its facts are of (0: none yet)
    lost,    \* probes whose last try failed: the base probe, etcd's and the rules' scan
    etcdctl  \* etcdctl in a pod: when, and what came of it

findingVars == <<scene, world, lists, seen, lost, etcdctl>>

Worlds == [s \in DOMAIN Scenes |-> UNION {Scenes[s].worlds[i] : i \in DOMAIN Scenes[s].worlds}]
Sources == [s \in DOMAIN Scenes |-> {f[1] : f \in Worlds[s]}]
Lists == Sources[scene] \cap (Required \cup Optional)
TiersOfScene == {t \in Tiers : t \in Sources[scene] \/ (t = "journal" /\ "logs" \in Sources[scene])}
HostsOf == [s \in DOMAIN Scenes |-> [p \in {"etcd", "stig"} |-> {f[2] : f \in {g \in Worlds[s] : g[1] = p}}]]

\* The releases of a node's OS that have a benchmark.
ReleasesOf(s, n) == {b \in DOMAIN Benchmarks : <<"probe", n, b>> \in Worlds[s]}

ASSUME ScenesAssumption ==
    /\ MaxMissing \in Nat
    /\ \A s \in DOMAIN Scenes :
          /\ Len(Scenes[s].worlds) \in Nat \ {0}
          /\ DOMAIN Scenes[s].worlds = 1..Len(Scenes[s].worlds)

\* A rule is of one benchmark, and a node of one release, which is known with its OS.
ASSUME BenchmarksAssumption ==
    /\ \A b, c \in DOMAIN Benchmarks : b # c => \A r \in Benchmarks[b], q \in Benchmarks[c] : r.id # q.id
    /\ \A s \in DOMAIN Scenes, n \in Node : \A b \in ReleasesOf(s, n) :
          /\ ReleasesOf(s, n) = {b}
          /\ \A w \in DOMAIN Scenes[s].worlds :
                <<"probe", n, "OS known">> \in Scenes[s].worlds[w] => <<"probe", n, b>> \in Scenes[s].worlds[w]

TypeOK ==
    /\ scene \in DOMAIN Scenes /\ world \in DOMAIN Scenes[scene].worlds
    /\ lists.at \in 0..world /\ lists.missing \subseteq Required \cup Optional
    /\ lists.refused \subseteq Lists /\ lists.kept \in [Kept -> 0..world]
    /\ seen \in [Probes -> [Node -> 0..world]]
    /\ lost \subseteq {"probe", "etcd", "stig"} \X Node
    /\ etcdctl.at \in 0..world /\ etcdctl.exec \in {"nil", "err", "ok"}

FindingsInit ==
    /\ scene \in DOMAIN Scenes
    /\ world = 1
    /\ lists = [at |-> 0, missing |-> {}, refused |-> {}, kept |-> [l \in Kept |-> 0]]
    /\ seen = [p \in Probes |-> [n \in Node |-> 0]]
    /\ lost = {}
    /\ etcdctl = [at |-> 0, exec |-> "nil"]

\* The cluster goes on.
Happen ==
    /\ world < Len(Scenes[scene].worlds)
    /\ world' = world + 1
    /\ UNCHANGED <<scene, lists, seen, lost, etcdctl>>

\* What a refresh leaves: each list answers, or fails by itself, which leaves out those
\* that follow it.  One that is kept is read again when it is old, or wanted now; when
\* that fails it is gone, unless the old one stands in.
Refreshed(failed, denied, fresh) ==
    LET missing == Unread(failed, denied)
        asked == Wanted(Scenes[scene].worlds[world]) \cup (Kept \ fresh)
        moment == [l \in Kept |-> IF l \in asked \ missing THEN world
                                  ELSE IF l \in asked \ StandsIn THEN 0 ELSE lists.kept[l]]
    IN [at |-> world, missing |-> {l \in missing : l \notin Kept \/ moment[l] = 0}, refused |-> denied, kept |-> moment]

SnapshotMsg ==
    /\ Scenes[scene].headless => lists.at = 0
    /\ \E failed \in {f \in SUBSET Lists : Cardinality(f) <= MaxMissing} :
          \E denied \in SUBSET ({"tridentbackends", "machine plans"} \cap failed),
             fresh \in SUBSET {l \in Kept \cap Lists : lists.kept[l] > 0} :
                lists' = Refreshed(failed, denied, fresh)
    /\ UNCHANGED <<scene, world, seen, lost, etcdctl>>

Tried(p, n) == seen[p][n] > 0 \/ <<p, n>> \in lost

\* The tiers that a probe carries until they were read: the configuration, which
\* the first cycle asks for, and the journal's log scan (nodeTiers).
Always(n) == {t \in TiersOfScene \cap {"config", "journal"} : seen[t][n] = 0}

\* The probe of a node: with some of its slower tiers, or in vain.  What the tiers
\* read before is merged into it either way.
NodeMsg(n) ==
    /\ Scenes[scene].ssh /\ n \in Scenes[scene].hosts
    /\ Scenes[scene].headless => lists.at > 0 /\ ~Tried("probe", n)
    /\ \/ \E tiers \in SUBSET TiersOfScene :
             /\ Always(n) \subseteq tiers
             /\ seen' = [p \in Probes |-> IF p \in tiers \cup {"probe"} THEN [seen[p] EXCEPT ![n] = world] ELSE seen[p]]
             /\ lost' = lost \ {<<"probe", n>>}
       \/ /\ lost' = lost \cup {<<"probe", n>>}
          /\ UNCHANGED seen
    /\ UNCHANGED <<scene, world, lists, etcdctl>>

EtcdMsg(n) ==
    /\ Scenes[scene].ssh /\ n \in HostsOf[scene]["etcd"]
    /\ Scenes[scene].headless => lists.at > 0 /\ ~Tried("etcd", n)
    /\ \/ seen' = [seen EXCEPT !["etcd"][n] = world] /\ lost' = lost \ {<<"etcd", n>>}
       \/ lost' = lost \cup {<<"etcd", n>>} /\ UNCHANGED seen
    /\ UNCHANGED <<scene, world, lists, etcdctl>>

\* The scan of a node for the OS's rules, all of its stages.  A run without a screen
\* says of a node that it was not scanned (STIGErr), and goes on with the others.
ScanMsg(n) ==
    /\ Scenes[scene].ssh /\ n \in HostsOf[scene]["stig"] /\ Tried("probe", n)
    /\ Scenes[scene].headless => ~Tried("stig", n)
    /\ \/ <<"probe", n>> \notin lost /\ seen' = [seen EXCEPT !["stig"][n] = world] /\ UNCHANGED lost
       \/ Scenes[scene].headless /\ lost' = lost \cup {<<"stig", n>>} /\ UNCHANGED seen
    /\ UNCHANGED <<scene, world, lists, etcdctl>>

EtcdExecMsg ==
    /\ "exec" \in Sources[scene] /\ ~Scenes[scene].headless
    /\ \E e \in {"ok", "err"} : etcdctl' = [at |-> world, exec |-> e]
    /\ UNCHANGED <<scene, world, lists, seen, lost>>

Next ==
    \/ Happen \/ SnapshotMsg \/ EtcdExecMsg
    \/ \E n \in Node : NodeMsg(n) \/ EtcdMsg(n) \/ ScanMsg(n)

Spec == FindingsInit /\ [][Next]_findingVars

-----------------------------------------------------------------------------
(* What recompute has at hand, and what it would have of a whole world      *)

\* The world a fact was read in.
Moment(l, o) ==
    CASE l = "logs" -> seen["journal"][o]
      [] l \in Probes -> seen[l][o]
      [] l = "exec" -> etcdctl.at
      [] l = "here" -> world
      [] l \in Kept -> lists.kept[l]
      [] OTHER -> lists.at

AtHand ==
    [read   |-> (Required \cup Optional) \ lists.missing,
     refused |-> lists.refused,
     ok     |-> [p \in Probes |-> {n \in Node : seen[p][n] > 0 /\ <<p, n>> \notin lost}],
     probed |-> [p \in Probes |-> {n \in Node : seen[p][n] > 0 \/ <<p, n>> \in lost}],
     ssh    |-> Scenes[scene].ssh,
     exec   |-> etcdctl.exec,
     facts  |-> {f \in Worlds[scene] : LET m == Moment(f[1], f[2]) IN m > 0 /\ f \in Scenes[scene].worlds[m]}]

Whole(s, w) ==
    LET all == [p \in Probes |-> IF p \in {"etcd", "stig"} THEN HostsOf[s][p] ELSE Scenes[s].hosts] IN
    [read |-> Required \cup Optional, refused |-> {}, ok |-> all, probed |-> all, ssh |-> Scenes[s].ssh,
     exec |-> IF "exec" \in Sources[s] THEN "ok" ELSE "nil", facts |-> Scenes[s].worlds[w]]

\* checks.Evaluate.
Evaluate(d) ==
    UNION {Cluster(d), Nodes(d), Isolation(d), HostKeys(d), Addresses(d), Clocks(d), Services(d), Host(d), Journal(d),
           KernelLog(d), Preflight(d), NodeHealth(d), Runtime(d), Endpoint(d), VIP(d), Network(d), Pods(d), Workloads(d),
           References(d), Usage(d), Claims(d), DefaultClass(d), RancherAgents(d), Helm(d), ACE(d), Control(d), Events(d),
           Storage(d), Etcd(d), Upgrade(d)}

Failed(rs) == {r \in rs : r[2] = "Fail"}

\* App.incRefresh: the incidents, and the causes that are offered for them.
Incidents(d) == Extract(d) \cup Analyze(d)

\* All that is claimed of the cluster: findings, incidents and causes, failing rules.
ClaimsOf(d) == Evaluate(d) \cup Incidents(d) \cup Failed(StigResults(d))

\* App.recompute: nothing is said before the first refresh.
Claimed == IF lists.at = 0 THEN {} ELSE LET d == AtHand IN ClaimsOf(d)

\* What is true of each world, as all of it answering would have it.
Truth == [s \in DOMAIN Scenes |-> [w \in DOMAIN Scenes[s].worlds |-> LET d == Whole(s, w) IN ClaimsOf(d)]]
BeenTrue == UNION {Truth[scene][w] : w \in 1..world}

-----------------------------------------------------------------------------
(* The claims                                                              *)

\* What says that something is not known.
Gaps == {"could not be listed", "collection failed", "etcd probe failed", "backends unknown", "machine plans unknown",
         "no live usage", "SSH incident"}

\* What is said of a list or a probe that did not answer as if it had, and were empty.
Guesses ==
    {<<"ACE not enabled", "probe">>, <<"alarm", "exec">>, <<"members disagree on the leader", "exec">>,
     <<"attached to a lost node, pod stuck", "nodes">>, <<"attached to a lost node, unused", "nodes">>,
     <<"attached to a lost node, unused", "persistentvolumes">>,
     <<"attached to a lost node, wanted elsewhere", "persistentvolumes">>,
     <<"cannot schedule any replica", "longhorn replicas">>, <<"degraded", "longhorn engines">>,
     <<"cgroup v1", "nodes">>, <<"class selects no backend", "tridentbackends">>,
     <<"credentials secret does not exist", "metadata">>, <<"CSI without CPI", "nodes">>,
     <<"driver of the class not installed", "csidrivers">>, <<"provisioner registers no driver", "csidrivers">>,
     <<"every run fails: no backup target", "longhorn targets">>, <<"fewer nodes than copies", "longhorn settings">>,
     <<"filling", "volume stats">>, <<"held by no node", "probe">>, <<"joins an unknown address", "nodes">>,
     <<"kube-api-auth missing", "daemonsets">>, <<"leaked pod IPs", "pods">>,
     <<"lock is stale: delete the lease", "protect snapshots">>, <<"lock may be stale", "leases">>,
     <<"no backup mechanism", "kubeadm-config">>, <<"no backup mechanism", "snapshot records">>,
     <<"S3 unreachable and no recent backup", "snapshot records">>, <<"uploads stopped", "snapshot map">>,
     <<"snapshot records pile up", "nodes">>, <<"snapshots never taken", "deployments">>,
     <<"Pending", "storageclasses">>, <<"usage high", "probe">>, <<"user pods on server", "namespaces">>,
     <<"attached to a lost node, unused", "pods">>, <<"attached to a lost node, unused", "persistentvolumeclaims">>,
     <<"CSI without CPI", "daemonsets">>, <<"even number of members", "kubeadm-config">>,
     <<"latest snapshot is old", "snapshot records">>, <<"missing claim", "persistentvolumeclaims">>,
     <<"no local etcd", "kubeadm-config">>, <<"no upgrade job", "jobs">>, <<"one healthy replica left", "longhorn engines">>,
     <<"Terminating", "pods">>, <<"upgrade stuck", "pods">>}
RuleGuesses ==
    {<<"V-252843", "authconfigs">>, <<"V-252847", "globalrolebindings">>, <<"V-252849", "rancher ingress">>,
     <<"V-252849", "networkpolicies">>, <<"V-254571", "pods">>, <<"V-254800-ns", "pods">>,
     <<"OS-mac", "probe">>, <<"OS-auditd", "probe">>}

\* The same of the causes: what a node produces as it comes up, or back, is known by the
\* nodes' list, the pods' and the probe.
CauseGuesses ==
    ({"liveness probe fails", "killed for its probe", "probe incident", "schedule incident", "no room"} \X {"nodes", "pods"})
        \cup ({"restart incident", "sandbox incident", "repeated elections", "fail", "rebooted"} \X {"nodes"})
        \cup ({"containers stopped, or rebooted", "restart incident", "restarting", "service restarting", "memory exhausted",
               "node-oom incident"} \X {"probe"})
        \cup ({"containers stopped", "service restarting", "restart incident", "restarting", "cannot be pulled",
               "cordoned incident"} \X {"events"})

\* What relates facts of two moments.
Joined == {"device on another node: split brain", "held by several nodes", "held by no node", "ACE not enabled",
           "swap comes back at boot", "leaked pod IPs", "webhook refuses",
           "containers stopped", "service restarting", "restart incident", "restarting"}

\* The lists and the probes that are missing, of a node at least.
Silent ==
    lists.missing \cup {p \in {"probe"} : Scenes[scene].hosts # AtHand.ok["probe"]}
        \cup {l \in {"exec"} : etcdctl.exec # "ok"}
Moments ==
    {lists.at, etcdctl.at} \cup {lists.kept[l] : l \in Kept} \cup UNION {{seen[p][n] : n \in Node} : p \in Probes}

Excused(f) ==
    \/ f[2] \in Gaps
    \/ \E l \in Silent : <<f[2], l>> \in Guesses \cup CauseGuesses
    \/ f[2] = "Fail" /\ \E l \in Silent : <<f[1], l>> \in RuleGuesses
    \/ f[2] \in Joined /\ Cardinality(Moments \ {0}) > 1

\* A finding, a cause and a rule that fails was true at some moment since the start, or
\* says that something is not known; the others are known, each with the one list it is
\* silent about, or with the two moments it relates (checks.Evaluate, rca.Extract and
\* rca.Analyze, stig.Evaluate).
ClaimsAreGrounded == \A f \in Claimed \ BeenTrue : Excused(f)

\* The rules of a node's release.
RulesOf(n) == {rule.id : rule \in UNION {Benchmarks[b] : b \in ReleasesOf(scene, n)}}
KeptFromPassing(results, rules) == <<"OS-scan", "Unknown">> \in results \/ \A r \in rules : <<r, "Pass">> \notin results

\* A node the scan of which failed keeps every rule of its release from passing, or is
\* reported as not scanned: the score is never that of the other nodes only (osRules).
UnscannedIsNotPassed == \A n \in Unscanned(AtHand) : KeptFromPassing(StigResults(AtHand), RulesOf(n))

=============================================================================
