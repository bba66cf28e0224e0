------------------------------- MODULE Checks -------------------------------
(***************************************************************************)
(* checks.Evaluate: from what was collected to findings (package checks,   *)
(* and the derived views of package k8s it asks).                          *)
(*                                                                         *)
(* What the cluster is, is a set of facts: <<source, object, what>>.  A    *)
(* list of the API, or the probe of a node, shows its facts when it        *)
(* answered, and nothing otherwise: the Go slice or map is empty then.     *)
(* Of a measure that has thresholds one fact names the band it is in.  A   *)
(* finding is <<object, what>>; severity and wording are left out where    *)
(* nothing else decides them.  Each operator is the function of its        *)
(* comment.                                                                *)
(***************************************************************************)
EXTENDS Naturals, FiniteSets, Sequences

CONSTANT Node \* the cluster's nodes, by their names

\* Snapshot.Fetch, run(...): a list that fails is among the snapshot's errors.
Required == {"version", "nodes", "pods", "namespaces", "events", "persistentvolumes",
             "persistentvolumeclaims", "storageclasses", "csidrivers", "csinodes", "deployments",
             "daemonsets", "statefulsets", "services", "jobs", "cronjobs", "clusterrolebindings",
             "ingresses", "networkpolicies", "readyz", "livez"}

\* Snapshot.Fetch, optional(...) and the calls beside it: one that fails is not mentioned.
ControlLists == {"webhooks", "endpointslices", "apiservices", "csrs", "pdbs"}
Optional == ControlLists \cup
            {"volumeattachments", "metrics", "metadata", "volume stats", "kubeadm-config",
             "certificates", "apiserver metrics", "snapshot records", "snapshot map", "rancher", "helm charts",
             "vsphere.conf", "s3 secret", "s3 checks", "plans", "provisioned", "control planes", "machines", "machine plans",
             "snapshot classes", "snapshots", "snapshot contents",
             "tridentbackends", "tridentbackendconfigs", "tridentnodes", "tridentstorageclasses",
             "tridentvolumepublications", "longhorn volumes", "longhorn replicas", "longhorn nodes",
             "longhorn settings", "longhorn engines", "longhorn images", "longhorn managers",
             "longhorn targets", "longhorn backups", "longhorn jobs", "longhorn orphans",
             "cephclusters", "ceph resources", "appvaults", "protect applications",
             "protect snapshots", "protect backups", "leases", "schedules", "longhorn shares", "configz",
             "rancher ingress", "authconfigs", "globalroles", "globalrolebindings", "users"}

\* What the probe of a node reads in some cycles only; the probes after it carry it
\* (Info.MergeConfig, MergeTiers), and show it when they do not fail.
Tiers == {"config", "journal", "images"}
\* "stig": the scan for the OS's rules, which every probe after it carries.
Probes == Tiers \cup {"probe", "etcd", "stig"}

(* d.read: the lists that answered, d.refused those the token may not make;       *)
(* d.ok[p]: the nodes that answered p, d.probed  *)
(* with those that failed; d.exec: etcdctl in a pod, "nil" when it was not tried; *)
(* d.ssh: whether hosts are asked; d.facts: what the cluster is.  The journal's   *)
(* patterns ("logs") are kept apart, and outlive a probe that fails.              *)
Answered(d, l, o) ==
    CASE l \in Tiers -> d.ssh /\ o \in d.ok[l] \cap d.ok["probe"]
      [] l = "logs" -> d.ssh /\ o \in d.ok["journal"]
      [] l \in {"probe", "etcd", "stig"} -> d.ssh /\ o \in d.ok[l]
      [] l = "exec" -> d.exec = "ok"
      [] OTHER -> l \in d.read \cup {"here"}

Has(d, l, o, w) == Answered(d, l, o) /\ <<l, o, w>> \in d.facts
Some(d, l, w) == \E f \in d.facts : f[1] = l /\ f[3] = w /\ Answered(d, l, f[2])
With(d, l, w) == {f[2] : f \in {g \in d.facts : g[1] = l /\ g[3] = w /\ Answered(d, l, g[2])}}
Of(d, l, S) == {<<f[2], f[3]>> : f \in {g \in d.facts : g[1] = l /\ g[3] \in S /\ Answered(d, l, g[2])}}
When(c, f) == IF c THEN {f} ELSE {}
Except(fs, objects) == {f \in fs : f[1] \notin objects}

Listed(d) == With(d, "nodes", "exists")
Hosts(d) == IF d.ssh THEN d.ok["probe"] ELSE {} \* Input.Nodes without an error

-----------------------------------------------------------------------------
(* The API and the nodes                                                   *)

Cluster(d) ==
    {<<l, "could not be listed">> : l \in Required \ d.read}
        \cup Of(d, "readyz", {"a check failed"}) \cup Of(d, "livez", {"a check failed"})
        \cup When("metrics" \notin d.read /\ ~d.ssh, <<"metrics", "no live usage">>)

\* A kubelet version that less than half of the nodes run.
Skewed(d) ==
    LET old == With(d, "nodes", "old kubelet") \cap Listed(d)
        new == Listed(d) \ old
        Minority(S) == Cardinality(S) < Cardinality(Listed(d)) \div 2 + 1
    IN IF old = {} \/ new = {} THEN {} ELSE UNION {S \in {old, new} : Minority(S)}

\* Node conditions, then what the pods take of the node, then metrics-server's
\* figures for the nodes without a probe of their own.
Nodes(d) ==
    Of(d, "nodes", {"not Ready", "under pressure", "NetworkUnavailable", "cordoned"})
        \cup {<<n, "kubelet differs from majority">> : n \in Skewed(d)}
        \cup {x \in Listed(d) \X {"pods near limit", "requests near capacity"} : Has(d, "pods", x[1], x[2])}
        \cup {<<n, "usage high">> : n \in (Listed(d) \ Hosts(d)) \cap With(d, "metrics", "usage high")}

\* Snapshot.ControlPlaneIsolation: the namespaces Rancher files as system ones
\* are known from the list of the namespaces.
Isolation(d) ==
    LET servers == With(d, "nodes", "server")
        rancher == Some(d, "namespaces", "in Rancher's System project")
    IN {<<n, "user pods on server">> :
            n \in servers \cap (With(d, "pods", "user pods")
                                    \cup IF rancher THEN {} ELSE With(d, "pods", "Rancher pods"))}
           \cup {<<n, "server without taint">> : n \in servers \ With(d, "nodes", "NoSchedule")}
           \cup {<<n, "control plane without requests">> : n \in servers \cap With(d, "pods", "no requests")}

-----------------------------------------------------------------------------
(* The hosts                                                               *)

\* A host key that is another node's too.
HostKeys(d) ==
    LET same == With(d, "probe", "image's host key")
    IN IF Cardinality(same) < 2 THEN {} ELSE {<<n, "host key shared">> : n \in same}

\* evalClocks: this machine is one more voter.  The offsets are against its clock.
Clocks(d) ==
    LET off == With(d, "probe", "clock off")
        here == <<"here", "-", "clock off">> \in d.facts
        Apart(n) == {o \in Hosts(d) : (o \in off) # (n \in off)}
        FarFromHere == {n \in Hosts(d) : (n \in off) # here}
        Odd(n) == 2 * (Cardinality(Apart(n)) + IF n \in FarFromHere THEN 1 ELSE 0) > Cardinality(Hosts(d))
    IN {<<n, "clock differs">> : n \in {m \in Hosts(d) : Odd(m)}}
           \cup When(Cardinality(Hosts(d)) > 1 /\ 2 * Cardinality(FarFromHere) > Cardinality(Hosts(d)),
                     <<"clock", "this machine is off">>)

\* Of the two units rke2 installs on each node the one of its role has to run.
Services(d) ==
    LET server == With(d, "probe", "server unit runs")
        agent == With(d, "probe", "agent unit runs")
        plane == With(d, "probe", "control plane")
    IN {<<n, "server unit down">> : n \in (Hosts(d) \cap plane) \ (server \cup agent)}
           \cup {<<n, "agent unit down">> : n \in Hosts(d) \ (agent \cup server \cup plane)}

\* registries.yaml, and the directory containerd reads.
Mirrors(d) ==
    {<<n, "mirrors not applied">> : n \in With(d, "config", "mirrors") \ With(d, "config", "certs.d")}
        \cup {<<n, "config_path not set">> :
                n \in With(d, "config", "certs.d") \ (With(d, "config", "config_path") \cup With(d, "probe", "rancher's"))}

Host(d) ==
    {<<n, "collection failed">> : n \in IF d.ssh THEN d.probed["probe"] \ d.ok["probe"] ELSE {}}
        \cup Of(d, "probe", {"disk filling", "inodes", "memory", "CPU busy", "load", "unit restarted",
                             "clock not synchronized", "rancher-system-agent down"})
        \cup Of(d, "config", {"certificate expires", "reboot required", "hardening drifts"})
        \cup Of(d, "images", {"dangling images"})
        \cup Mirrors(d)

\* The journal's patterns.  A plan that failed, and was applied since, is history.
Journal(d) ==
    Of(d, "logs", {"error lines", "warning lines", "plan applied", "plan probes fail"})
        \cup {<<n, IF Has(d, "logs", n, "plan applied since") THEN "plan failed once" ELSE "plan failed">> :
                n \in With(d, "logs", "plan failed")}

-----------------------------------------------------------------------------
(* Workloads                                                               *)

\* containerTrouble: also between two back-offs, when the pod's status is Running.
ContainerTrouble(d) ==
    Of(d, "pods", {"CrashLoopBackOff", "cannot pull", "cannot create"})
        \cup {<<p, "keeps failing">> : p \in With(d, "pods", "failed lately")
                                               \ With(d, "pods", "CrashLoopBackOff")}

Troubled(d) == {f[1] : f \in ContainerTrouble(d)}

\* The pod's status stands for one of its containers: it speaks for a pod no
\* container of which has said what is wrong.
Pods(d) ==
    ContainerTrouble(d)
        \cup Except(Of(d, "pods", {"config error", "Evicted", "Pending", "Failed", "Unknown", "Terminating",
                                   "restarts", "not all ready"}), Troubled(d))
        \cup Of(d, "pods", {"OOMKilled"})

\* With replicaFailure for the cause.
Workloads(d) ==
    Of(d, "deployments", {"replicas unavailable", "no replica of a system service", "replicas refused"})
        \cup Of(d, "daemonsets", {"not ready"}) \cup Of(d, "statefulsets", {"not ready"})
        \cup Of(d, "jobs", {"failed"}) \cup Of(d, "cronjobs", {"suspended"})

\* Snapshot.RefExists: names are tracked when there are any; claims always are.
Tracked(d, l) == IF l = "persistentvolumeclaims" THEN TRUE ELSE Some(d, l, "named")
Missing(d, l, o) == Tracked(d, l) /\ ~Has(d, l, o, "named")

References(d) ==
    {<<p, "missing secret">> : p \in {q \in With(d, "pods", "uses secret") : Missing(d, "metadata", "secret")}}
        \cup {<<p, "missing claim">> :
                p \in {q \in With(d, "pods", "uses claim") : Missing(d, "persistentvolumeclaims", "claim")}}
        \cup {<<i, "TLS secret missing">> :
                i \in {q \in With(d, "ingresses", "uses secret") : Missing(d, "metadata", "secret")}}

-----------------------------------------------------------------------------
(* Storage                                                                 *)

\* MergePVCUsage: the kubelet's figure of a volume, else df of its mount, which
\* the volumes' or the claims' list names.
Usage(d) ==
    LET mapped == Has(d, "persistentvolumes", "claim", "bound") \/ Has(d, "persistentvolumeclaims", "claim", "bound")
    IN When(\/ Has(d, "volume stats", "claim", "filling")
            \/ /\ ~Has(d, "volume stats", "claim", "measured")
               /\ mapped /\ Some(d, "probe", "df filling"),
            <<"claim", "filling">>)

\* A claim that waits for its first consumer, and has none, waits by design.
Claims(d) ==
    LET waits == Has(d, "storageclasses", "class", "WaitForFirstConsumer") /\ ~Some(d, "pods", "uses claim")
    IN When(Has(d, "persistentvolumeclaims", "claim", "Pending") /\ ~waits, <<"claim", "Pending">>)
           \cup Of(d, "persistentvolumeclaims", {"Lost"})
           \cup Of(d, "persistentvolumes", {"Failed", "Released"})

DefaultClass(d) ==
    LET classes == With(d, "storageclasses", "exists")
        default == classes \cap With(d, "storageclasses", "default")
    IN When(classes # {} /\ default = {}, <<"storageclasses", "no default">>)
           \cup When(Cardinality(default) > 1, <<"storageclasses", "several defaults">>)

-----------------------------------------------------------------------------
(* Rancher and Helm                                                        *)

\* rancherInfo: a cluster with Rancher's agent is managed.  One without it, where Rancher
\* itself runs, is the management cluster.
Managed(d) == Has(d, "rancher", "agent", "exists")
RunsRancher(d) == ~Managed(d) /\ Has(d, "rancher", "server", "exists")
RancherAgents(d) ==
    IF Managed(d) THEN Of(d, "rancher", {"cluster agent not ready", "fleet agent not ready"}) ELSE {}

Helm(d) == Of(d, "helm charts", {"install job failed", "release not deployed", "chart is old"})

\* evalACE, over the flags of the apiserver pods and kube-api-auth.
ACE(d) ==
    LET with == With(d, "pods", "apiserver with ACE")
        without == With(d, "pods", "apiserver without ACE")
        planes == With(d, "probe", "control plane")
        imported == planes # {} /\ planes \cap With(d, "probe", "provisioned") = {}
    IN IF ~Managed(d) \/ with \cup without = {} THEN {}
       ELSE IF with = {} THEN When(~imported, <<"rancher", "ACE not enabled">>)
       ELSE IF without # {} THEN {<<"rancher", "ACE only on some servers">>}
       ELSE When(~Has(d, "daemonsets", "kube-api-auth", "exists"), <<"rancher", "kube-api-auth missing">>)
                \cup Of(d, "daemonsets", {"kube-api-auth not ready"})

-----------------------------------------------------------------------------
(* evalControl: what stops a cluster while nodes and pods look fine         *)

\* The kinds a webhook that fails closed must not refuse (broadWebhook).
Broad(d, w) == Has(d, "webhooks", w, "reaches pods") /\ ~Has(d, "webhooks", w, "skips kube-system")

\* Without the endpoint slices nothing is known of what is behind a service.
Webhooks(d) ==
    LET dead == IF "endpointslices" \in d.read
                THEN With(d, "webhooks", "has a service") \ With(d, "endpointslices", "ready") ELSE {}
    IN {<<w, IF ~Has(d, "webhooks", w, "fails closed") THEN "webhook skipped"
             ELSE IF Broad(d, w) THEN "webhook refuses everything" ELSE "webhook refuses">> : w \in dead}
           \cup Of(d, "webhooks", {"caBundle expired", "caBundle expires"})

\* Mutant of SystemServices: slices that could not be listed are read as none.
ServicesWithoutSlices(d) ==
    {<<s, "no ready endpoint">> : s \in With(d, "services", "system, selects pods") \ With(d, "endpointslices", "ready")}

SystemServices(d) ==
    IF "endpointslices" \in d.read
    THEN {<<s, "no ready endpoint">> :
            s \in With(d, "services", "system, selects pods") \ With(d, "endpointslices", "ready")}
    ELSE {}

APIServices(d) == Of(d, "apiservices", {"unavailable"})

\* What is stuck in deletion, and the pods that keep a claim.
Deletions(d) ==
    Of(d, "namespaces", {"Terminating"}) \cup Of(d, "persistentvolumes", {"Terminating"})
        \cup {<<c, IF Some(d, "pods", "uses claim") THEN "Terminating, mounted" ELSE "Terminating">> :
                c \in With(d, "persistentvolumeclaims", "Terminating")}

Budgets(d) == {<<b, "budget allows no disruption">> :
                 b \in With(d, "pdbs", "allows none") \ With(d, "pdbs", "of an operator")}
Requests(d) == Of(d, "csrs", {"pending"})

\* A system add-on of two replicas or more, all on one node although there are others.
OneNode(d) ==
    LET on == {n \in Node : Has(d, "pods", n, "add-on replica")}
        ready == Listed(d) \ With(d, "nodes", "not Ready")
    IN When(/\ Cardinality(ready) >= 2 /\ Has(d, "deployments", "add-on", "two available")
            /\ Cardinality(on) = 1, <<"add-on", "all replicas on one node">>)

APIMetrics(d) == Of(d, "apiserver metrics", {"rejects requests", "too many objects"})

\* evalIngressNetpol: rke2's CIS policy keeps the controller from the backends.
IngressPolicy(d) ==
    {<<i, "controller cannot reach it">> :
        i \in {j \in With(d, "ingresses", "exists") :
                 /\ Some(d, "pods", "ingress controller")
                 /\ Has(d, "networkpolicies", j, "rke2 default") /\ ~Has(d, "networkpolicies", j, "opens up")}}

Certificates(d) == Of(d, "certificates", {"expired", "not renewed", "not Ready", "issuer not Ready"})

Control(d) ==
    APIMetrics(d) \cup IngressPolicy(d) \cup Certificates(d) \cup Webhooks(d) \cup APIServices(d)
        \cup Deletions(d) \cup Budgets(d) \cup Requests(d) \cup SystemServices(d) \cup OneNode(d)

\* evalEvents: the last hour's events, and the nodes that are gone for good.
Events(d) ==
    LET bound == {n \in Node : Has(d, "pods", n, "Terminating there")}
        attached == {n \in Node : Has(d, "volumeattachments", n, "attached")}
    IN Of(d, "events", {"image GC failed", "resolver trimmed", "out of pod IPs"})
           \cup Of(d, "pods", {"eviction storm"})
           \cup {<<n, "out of service">> :
                   n \in ((With(d, "nodes", "not Ready") \cap (bound \cup attached))
                             \ With(d, "nodes", "out-of-service taint"))}

=============================================================================
