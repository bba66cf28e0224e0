----------------------------- MODULE MCFindings -----------------------------
(***************************************************************************)
(* Model checking Findings: three nodes, and for each part of Evaluate a   *)
(* cluster in which it has something to say.                               *)
(***************************************************************************)
EXTENDS Findings

F(l, o, ws) == {<<l, o, w>> : w \in ws}
On(l, ns, ws) == UNION {F(l, n, ws) : n \in ns}

\* The usual cluster: a server and two agents.
Usual == On("nodes", {"n1", "n2", "n3"}, {"exists", "rke2"}) \cup F("nodes", "n1", {"server", "NoSchedule"})
             \cup F("version", "-", {"answers 33"}) \cup F("namespaces", "-", {"exists"})

Scene(hosts, worlds) == [ssh |-> hosts # {}, hosts |-> hosts, headless |-> FALSE, worlds |-> worlds]

-----------------------------------------------------------------------------
(* Without the hosts                                                       *)

ClusterScene ==
    Scene({"n3"}, <<Usual \cup F("nodes", "n2", {"not Ready", "old kubelet"}) \cup F("nodes", "n3", {"cordoned", "under pressure"})
        \cup F("readyz", "etcd", {"a check failed"}) \cup F("pods", "n2", {"pods near limit", "requests near capacity"})
        \cup F("pods", "n1", {"user pods", "Rancher pods", "no requests"}) \cup F("metrics", "n3", {"usage high"})
        \cup F("probe", "n3", {"disk filling"}) \cup F("rancher", "agent", {"exists"}) \cup F("rancher", "fleet", {"fleet agent not ready"})
        \cup F("helm charts", "rke2-canal", {"install job failed"})>>)

SystemProject ==
    Scene({}, <<Usual \cup F("namespaces", "cattle", {"in Rancher's System project"}) \cup F("pods", "n1", {"Rancher pods"})
        \cup F("livez", "ping", {"a check failed"}) \cup F("metrics", "n1", {"usage high"})>>)

WorkloadScene ==
    Scene({}, <<Usual \cup F("pods", "p1", {"CrashLoopBackOff", "failed lately", "restarts", "not all ready"})
        \cup F("pods", "p2", {"failed lately", "Pending", "uses secret", "uses claim"}) \cup F("pods", "p3", {"OOMKilled", "Evicted"})
        \cup F("metadata", "other", {"secret", "named"}) \cup F("persistentvolumeclaims", "p2", {"claim"})
        \cup F("deployments", "d1", {"replicas unavailable", "replicas refused"}) \cup F("daemonsets", "d2", {"not ready"})
        \cup F("statefulsets", "d3", {"not ready"}) \cup F("jobs", "j", {"failed"}) \cup F("cronjobs", "j", {"suspended"})
        \cup F("ingresses", "i", {"uses secret", "exists"})>>)

ClaimScene ==
    Scene({"n2"}, <<Usual \cup F("persistentvolumeclaims", "claim", {"Pending"}) \cup F("storageclasses", "class", {"WaitForFirstConsumer", "exists"})
        \cup F("persistentvolumes", "pv", {"Released"}) \cup F("persistentvolumeclaims", "c2", {"Lost", "Terminating"})
        \cup F("probe", "n2", {"df filling"}),
        Usual \cup F("persistentvolumeclaims", "claim", {"bound"}) \cup F("storageclasses", "class", {"WaitForFirstConsumer", "exists", "default"})
        \cup F("storageclasses", "class2", {"exists", "default"}) \cup F("volume stats", "claim", {"measured"})
        \cup F("persistentvolumeclaims", "claim", {"named"}) \cup F("persistentvolumeclaims", "c3", {"Terminating"})
        \cup F("pods", "p", {"uses claim"}) \cup F("persistentvolumes", "pv", {"Terminating"}) \cup F("probe", "n2", {"df filling"})>>)

ControlScene ==
    Scene({}, <<Usual \cup F("webhooks", "w1", {"has a service", "fails closed", "reaches pods"})
        \cup F("webhooks", "w2", {"has a service", "caBundle expires"}) \cup F("webhooks", "w3", {"has a service", "fails closed", "reaches pods", "skips kube-system"})
        \cup F("endpointslices", "w3", {"ready"}) \cup F("endpointslices", "dns", {"ready"})
        \cup F("services", "dns", {"system, selects pods"}) \cup F("apiservices", "metrics", {"unavailable"})>>)

\* A webhook that is removed together with its service; a request that is granted.
RemovedScene ==
    Scene({}, <<Usual \cup F("webhooks", "w1", {"has a service", "fails closed"}) \cup F("endpointslices", "w1", {"ready"})
        \cup F("csrs", "c", {"pending"}) \cup F("apiserver metrics", "api", {"rejects requests"}), Usual>>)

StuckScene ==
    Scene({}, <<Usual \cup F("nodes", "n3", {"not Ready"}) \cup F("pods", "n3", {"Terminating there"}) \cup F("volumeattachments", "n3", {"attached"})
        \cup F("pdbs", "b", {"allows none"}) \cup F("csrs", "c", {"pending"}) \cup F("namespaces", "ns", {"Terminating"})
        \cup F("pods", "n2", {"add-on replica"}) \cup F("deployments", "add-on", {"two available"})
        \cup F("events", "n1", {"image GC failed"}) \cup F("apiserver metrics", "api", {"rejects requests"})
        \cup F("certificates", "c", {"not renewed"}),
        Usual \cup F("pods", "n2", {"add-on replica"}) \cup F("pods", "n3", {"add-on replica"}) \cup F("deployments", "add-on", {"two available"})>>)

IngressScene ==
    Scene({}, <<Usual \cup F("ingresses", "i", {"exists"}) \cup F("pods", "nginx", {"ingress controller"})
        \cup F("networkpolicies", "i", {"rke2 default", "opens up"}) \cup F("pdbs", "b", {"allows none", "of an operator"})>>)

ACEScene ==
    Scene({"n1"}, <<Usual \cup F("rancher", "agent", {"exists"}) \cup F("pods", "a1", {"apiserver with ACE"})
        \cup F("daemonsets", "kube-api-auth", {"exists", "kube-api-auth not ready"}) \cup F("probe", "n1", {"control plane", "provisioned"}),
        Usual \cup F("rancher", "agent", {"exists"}) \cup F("pods", "a1", {"apiserver without ACE"}) \cup F("probe", "n1", {"control plane"})>>)

-----------------------------------------------------------------------------
(* With the hosts                                                          *)

\* A server that got a new address, and an agent that joins it by the old one.
AddressScene ==
    LET base == Usual \cup F("probe", "n1", {"control plane"}) \cup F("config", "n2", {"joins n1"}) IN
    Scene({"n1", "n2"}, <<base,
        base \cup F("probe", "n1", {"address gone"}) \cup F("nodes", "n1", {"old address"}) \cup F("config", "n1", {"node-ip pinned"})>>)

\* A virtual address that moves from a server to another.
VIPScene ==
    LET base == Usual \cup F("here", "-", {"server is an address"}) \cup F("config", "n2", {"joins the VIP"}) \cup F("pods", "kv", {"kube-vip"})
                  \cup On("probe", {"n1", "n2"}, {"control plane"}) IN
    Scene({"n1", "n2"}, <<base \cup F("probe", "n1", {"holds the VIP"}), base \cup F("probe", "n2", {"holds the VIP"})>>)

\* The kubeconfig points at a server.
EndpointScene ==
    Scene({"n1", "n2"}, <<Usual \cup F("here", "-", {"server is an address"}) \cup F("here", "n1", {"server is its address"})
        \cup F("nodes", "n1", {"the VIP is its address"}) \cup F("probe", "n1", {"control plane", "holds the VIP", "keepalived"})
        \cup F("probe", "n2", {"control plane"}) \cup On("config", {"n1", "n2"}, {"serving certificate"})
        \cup F("config", "n1", {"certificate has the host", "tls-san not in certificate"})>>)

NetworkScene ==
    Scene({"n1", "n2"}, <<Usual \cup F("config", "n1", {"ping fails", "dns pod fails", "several peers"})
        \cup F("config", "n2", {"ping works", "ping fails", "dns pod works", "dns service fails", "tcp fails"})
        \cup F("probe", "n1", {"tunnel down", "it is a generic one", "MTU 1450"}) \cup F("probe", "n2", {"tunnel down", "MTU 8950"})
        \cup F("nodes", "n1", {"network was unavailable"}) \cup F("pods", "canal", {"CNI agent restarted"})>>)

HostScene ==
    Scene({"n1", "n2"}, <<Usual \cup F("nodes", "n2", {"kubelet 1.35"}) \cup F("config", "n2", {"cgroup v1", "nameserver is local", "mirrors"})
        \cup F("probe", "n1", {"disk filling", "read-only filesystem", "control plane", "image's host key"})
        \cup F("probe", "n2", {"resolver not read", "image's host key", "agent unit runs"})
        \cup F("journal", "n2", {"runtime slow", "runtime fails"}) \cup F("logs", "n2", {"hung tasks", "plan failed", "plan applied since"})
        \cup F("config", "n1", {"cgroup v1", "certificate expires", "mirrors", "certs.d"}) \cup F("images", "n2", {"pull fails", "no crictl"})>>)

ClockScene ==
    Scene({"n1", "n2", "n3"}, <<Usual \cup F("here", "-", {"clock off"}) \cup F("probe", "n1", {"clock off"}),
                                Usual \cup F("probe", "n1", {"clock off"})>>)

\* Addresses that were given back after the tier counted them.
IPAMScene ==
    Scene({"n2"}, <<Usual \cup F("config", "n2", {"many allocations"}) \cup F("pods", "n2", {"many pods"}), Usual>>)

SwapScene ==
    Scene({"n1", "n2"}, <<Usual \cup F("probe", "n1", {"swap on", "server unit runs"}) \cup F("config", "n1", {"failSwapOn: false", "swap in fstab"})
        \cup F("probe", "n2", {"swap on", "fail-swap-on=true"}) \cup F("config", "n2", {"failSwapOn: false", "swap in fstab"}),
        Usual \cup F("probe", "n1", {"server unit runs"}) \cup F("config", "n1", {"failSwapOn: false", "swap in fstab"})>>)

HardenedScene ==
    Scene({"n1", "n2"}, <<Usual \cup F("csidrivers", "longhorn", {"exists"}) \cup On("probe", {"n1", "n2"}, {"fapolicyd", "SELinux enforcing"})
        \cup F("config", "n1", {"fapolicyd asked", "rules for the runtime", "rules cover data-dir", "rules compiled", "deny first", "driver's directory",
                                "packages asked", "policy packages"})
        \cup F("config", "n2", {"fapolicyd asked", "packages asked", "longhorn", "multipathd", "selinux: true"})
        \cup F("journal", "n1", {"denials today"}) \cup F("config", "n2", {"auditd halts the node", "auditd halts at space_left"})
        \cup F("probe", "n1", {"audit log's disk filling", "provisioned"}) \cup F("config", "n1", {"auditd suspends", "calico", "nm-cloud-setup"})>>)

PreflightScene ==
    Scene({"n1", "n2"}, <<Usual \cup F("config", "n1", {"proxy", "NO_PROXY", "NO_PROXY covers n1", "NO_PROXY covers n2", "failed logins", "password expired"})
        \cup F("config", "n2", {"shell proxy", "provisioning sudo", "VMware", "CD-ROM disabled", "cloud-init", "seeded from CD-ROM"})
        \cup F("images", "n1", {"pull fails", "fell through"}) \cup F("config", "n1", {"key names no endpoint", "registry refuses", "data dir noexec"})>>)

-----------------------------------------------------------------------------
(* Cloud provider and storage                                              *)

CloudScene ==
    Scene({"n2"}, <<Usual \cup F("deployments", "vsphere", {"cloud controller", "not all ready"}) \cup F("nodes", "n1", {"providerID of vsphere"})
        \cup F("nodes", "n2", {"providerID of rke2"}) \cup F("nodes", "n3", {"uninitialized"}) \cup F("pods", "ccm", {"embedded cloud controller"})
        \cup F("probe", "n2", {"kubelet flags"}) \cup F("csidrivers", "vsphere", {"exists"}) \cup F("vsphere.conf", "vsphere", {"names a secret"})
        \cup F("metadata", "vsphere", {"named"}) \cup F("config", "n2", {"VMware without wwn"})>>)

\* The driver of a provider that has not named a node yet.
NewCloudScene ==
    Scene({}, <<Usual \cup F("nodes", "n3", {"uninitialized"}) \cup F("daemonsets", "vsphere", {"cloud controller"})
        \cup F("csidrivers", "vsphere", {"exists"})>>)

DriverScene ==
    Scene({}, <<Usual \cup F("nodes", "n1", {"providerID of aws"}) \cup F("csidrivers", "ebs", {"exists", "serves it"}) \cup F("daemonsets", "ebs", {"CSI plugin", "ebs wants every node", "not all ready"})
        \cup On("csinodes", {"n1", "n2"}, {"ebs"}) \cup F("storageclasses", "sc", {"external", "of a CSI driver", "exists"})
        \cup F("storageclasses", "ebs", {"external", "of ebs", "exists", "default"}) \cup F("events", "e", {"volume failure", "names ebs"}) \cup F("persistentvolumes", "e", {"of other"}) \cup F("pods", "ebs", {"does not start"})>>)

AttachScene ==
    Scene({}, <<Usual \cup F("nodes", "n3", {"not Ready"}) \cup F("volumeattachments", "v1", {"on n3"}) \cup F("persistentvolumes", "v1", {"shared"})
        \cup F("pods", "v1", {"user on n2"}) \cup F("persistentvolumeclaims", "v1", {"bound"})
        \cup F("volumeattachments", "v2", {"on n3"}) \cup F("persistentvolumes", "v2", {"shared"}),
        Usual \cup F("volumeattachments", "v1", {"on n3"}) \cup F("pods", "v1", {"user on n3"}) \cup F("persistentvolumeclaims", "v1", {"bound"})
        \cup F("volumeattachments", "v2", {"on n2"}),
        Usual \cup F("nodes", "n3", {"not Ready"}) \cup F("volumeattachments", "v1", {"on n3"}) \cup F("pods", "v1", {"user on n3"})
        \cup F("persistentvolumeclaims", "v1", {"bound"})>>)

SnapshotScene ==
    Scene({}, <<Usual \cup F("snapshots", "s1", {"exists", "old", "error"}) \cup F("snapshots", "s2", {"exists", "ready"})
        \cup F("snapshot classes", "c", {"exists"}) \cup F("csidrivers", "c", {"serves it"}) \cup F("deployments", "sc", {"snapshot-controller runs"})
        \cup F("snapshot contents", "s3", {"content failed"})>>)

\* A volume with its engine on a node, which moves to the next.
DeviceScene ==
    LET base == Usual \cup F("csidrivers", "longhorn", {"exists"}) \cup F("longhorn volumes", "v1", {"exists", "degraded"}) IN
    Scene({"n2"}, <<base \cup F("longhorn volumes", "v1", {"on n2"}) \cup F("config", "n2", {"device of v1"}),
                    base \cup F("longhorn volumes", "v1", {"on n3"}) \cup F("longhorn engines", "v1", {"RW on n2", "RW on n3"})>>)

LonghornScene ==
    Scene({}, <<Usual \cup F("csidrivers", "longhorn", {"exists"}) \cup F("longhorn volumes", "v1", {"exists", "degraded", "on n1"})
        \cup F("longhorn replicas", "v1", {"healthy on n1", "healthy on n2", "placed on n1"})
        \cup F("longhorn volumes", "v2", {"exists", "cannot schedule", "faulted"}) \cup F("longhorn replicas", "v2", {"placed on n2"})
        \cup On("longhorn nodes", {"n1", "n2", "n3"}, {"exists"}) \cup F("longhorn nodes", "n2", {"disk full"})
        \cup F("longhorn nodes", "n3", {"not ready"}) \cup F("longhorn managers", "n1", {"v1 stopped"})
        \cup F("longhorn volumes", "v3", {"exists", "degraded"}) \cup F("longhorn engines", "v3", {"RW on n1", "RW on n2"})
        \cup F("longhorn replicas", "v3", {"healthy on n1", "healthy on n2", "placed on n1"})
        \cup F("longhorn shares", "v1", {"exists"}) \cup F("longhorn engines", "v1", {"active", "active: RW on n1", "ERR on n2"})>>)

LonghornCareScene ==
    Scene({}, <<Usual \cup F("csidrivers", "longhorn", {"exists"}) \cup F("longhorn volumes", "v1", {"exists", "on n2"}) \cup F("pods", "v1", {"pending user on n1"})
        \cup F("longhorn targets", "t", {"exists", "available"}) \cup F("longhorn jobs", "j", {"backs up"}) \cup F("longhorn settings", "-", {"one copy"})
        \cup On("longhorn nodes", {"n1", "n2"}, {"exists", "allows scheduling"}) \cup F("longhorn images", "n1", {"missing"})>>)

TridentScene ==
    Scene({"n2"}, <<Usual \cup F("csidrivers", "trident", {"exists"}) \cup F("tridentbackends", "b1", {"exists", "SAN"}) \cup F("tridentbackends", "b2", {"exists", "NAS", "offline"})
        \cup F("storageclasses", "gold", {"of Trident", "type SAN", "exists"}) \cup F("storageclasses", "silver", {"of Trident", "names b1", "names b2"})
        \cup F("tridentstorageclasses", "gold", {"exists"}) \cup F("tridentstorageclasses", "silver", {"exists"})
        \cup On("tridentnodes", {"n1", "n2"}, {"exists"}) \cup F("config", "n2", {"trident", "iscsid"})
        \cup F("tridentbackendconfigs", "c", {"config failed"}) \cup F("tridentvolumepublications", "v", {"one writer", "on n1", "on n2"})>>)

ProtectScene ==
    Scene({}, <<Usual \cup F("appvaults", "vault", {"exists", "available"}) \cup F("schedules", "s", {"names a vault"}) \cup F("leases", "app", {"locked"})
        \cup F("protect backups", "app", {"blocked"}) \cup F("protect snapshots", "s1", {"holds the lock of app"})
        \cup F("protect applications", "app2", {"not protected"}) \cup F("protect snapshots", "s2", {"run failed"}),
        Usual \cup F("appvaults", "vault", {"exists"}) \cup F("leases", "app", {"locked"}) \cup F("protect backups", "app", {"blocked"})>>)

CephScene ==
    Scene({}, <<Usual \cup F("csidrivers", "ceph", {"exists"}) \cup F("cephclusters", "c", {"HEALTH_WARN", "data at risk", "nearly full"})
        \cup F("ceph resources", "pool", {"not Ready"})>>)

-----------------------------------------------------------------------------
(* etcd, backups, upgrades                                                 *)

Servers2 == On("nodes", {"n1", "n2"}, {"exists", "rke2", "server", "NoSchedule", "etcd"})
              \cup F("version", "-", {"answers 33"}) \cup F("namespaces", "-", {"exists"})

\* A leader that changes; an alarm, and the member that has the snapshot.
TwoMembers == F("exec", "m1", {"voter"}) \cup F("exec", "m2", {"voter"}) \cup On("etcd", {"n1", "n2"}, {"exists", "lists members", "lists n1", "lists n2"})
LeaderScene ==
    LET base == On("nodes", {"n1", "n2"}, {"exists", "server", "etcd"}) \cup TwoMembers IN
    Scene({"n1"}, <<base \cup F("exec", "-", {"leader is n1"}) \cup On("etcd", {"n1", "n2"}, {"leader is n1"}),
                base \cup F("exec", "-", {"leader is n2"}) \cup On("etcd", {"n1", "n2"}, {"leader is n2"})>>)
AlarmScene ==
    Scene({"n1"}, <<Servers2 \cup TwoMembers \cup F("exec", "-", {"alarm", "leader is n1"}) \cup On("etcd", {"n1", "n2"}, {"leader is n1"})
        \cup F("snapshot records", "n1", {"exists", "succeeded", "local"}) \cup F("etcd", "n1", {"alarm", "snapshot file"})>>)

BackupScene ==
    Scene({"n1"}, <<Servers2 \cup F("snapshot records", "n1", {"exists", "succeeded", "fresh", "local", "more than r"})
        \cup F("snapshot records", "n2", {"local", "fresh local", "S3"})
        \cup F("snapshot map", "n1", {"exists", "nearly full", "fresh S3", "S3"}) \cup F("probe", "n1", {"retention R"}) \cup F("etcd", "n1", {"exists", "S3 enabled", "S3 by secret", "S3 to A"})
        \cup F("s3 checks", "n1", {"unreachable"}) \cup F("s3 secret", "secret", {"complete"})>>)

S3Scene ==
    Scene({"n1"}, <<Servers2 \cup F("etcd", "n1", {"exists", "S3 enabled", "S3 bucket and keys", "S3 to A"}) \cup F("etcd", "n2", {"exists", "S3 enabled", "S3 to B"})
        \cup F("snapshot records", "n1", {"exists", "succeeded", "fresh", "fresh S3", "S3", "upload failed"})
        \cup F("etcd", "n2", {"snapshot file"})>>)

ExternalScene ==
    Scene({"n1"}, <<On("nodes", {"n1", "n2"}, {"exists", "server", "NoSchedule"}) \cup F("kubeadm-config", "-", {"external etcd"})
        \cup F("etcd", "n1", {"exists", "no local etcd"})>>)
WithoutEtcdScene == Scene({}, <<Usual \cup F("nodes", "n2", {"k3s without etcd"})>>)

\* A server is upgraded between two refreshes: the kubelets and the apiserver's answer.
UpgradeScene ==
    LET nodes(k1, k2) == On("nodes", {"n1", "n2"}, {"exists", "NoSchedule", "server"}) \cup F("nodes", "n3", {"exists", "kubelet 32"})
                           \cup F("nodes", "n1", {"kubelet " \o k1}) \cup F("nodes", "n2", {"kubelet " \o k2})
        late == F("plans", "r", {"exists", "targets 33", "selects n3", "old"})
                    \cup F("jobs", "r", {"upgrades n3", "runs on n3", "old on n3"}) \cup F("pods", "r", {"cannot pull on n3"})
        plan == late \cup F("plans", "p", {"exists", "targets 33", "selects n1", "selects n2", "old"}) \cup F("plans", "q", {"exists", "targets 34", "selects n3"}) IN
    Scene({}, <<nodes("32", "32") \cup F("version", "-", {"answers 32"}) \cup F("jobs", "p", {"upgrades n1"}) \cup plan,
                nodes("33", "32") \cup F("version", "-", {"answers 32"}) \cup F("jobs", "p", {"upgrades n1", "runs on n1", "old on n1"}) \cup plan
                    \cup F("nodes", "n1", {"done by p"}) \cup F("deployments", "suc", {"upgrade controller not ready"})>>)

ProvisionScene ==
    Scene({}, <<Usual \cup F("provisioned", "c", {"exists", "not ready"}) \cup F("control planes", "c", {"control plane failed"})
        \cup F("machines", "m", {"exists", "machine behind"}) \cup F("machine plans", "m", {"plan", "failed on the plan", "below the threshold", "probes fail"})>>)

-----------------------------------------------------------------------------
(* What happened, and why                                                  *)

\* A node goes down, comes back with its containers, and takes others along.
RebootScene ==
    LET base == Usual \cup On("pods", {"n1", "n2"}, {"many pods"}) \cup F("pods", "c1", {"on n2"}) \cup F("pods", "c2", {"on n2"})
        back == base \cup F("probe", "n2", {"booted"}) \cup F("events", "-", {"before the boot of n2"})
                  \cup F("pods", "c1", {"exited", "lost with n2"})
                  \cup F("pods", "c2", {"exited", "exited three times", "exited as its node came back"})
                  \cup F("logs", "n2", {"unit restarts", "unit restarts as its node came back", "shutdown requested", "silent for minutes"}) IN
    Scene({"n2"}, <<base \cup F("nodes", "n2", {"not Ready", "cordoned"}) \cup F("logs", "n2", {"warns before NotReady"}),
                back \cup F("events", "n2", {"NodeNotReady", "NodeNotReady as its node came back"}),
                (back \ (F("logs", "n2", {"shutdown requested"}) \cup F("pods", "c1", {"lost with n2"}))) \cup F("probe", "n2", {"booted long ago"})>>)

\* The containers of a node that was not rebooted; one that was, before it joined.
KillallScene ==
    Scene({"n1", "n2"}, <<Usual \cup F("probe", "n1", {"booted"}) \cup F("events", "-", {"before the boot of n1"}) \cup F("nodes", "n1", {"joined after its boot"})
        \cup F("pods", "c1", {"lost with n2", "exited"}) \cup F("probe", "n2", {"booted"}) \cup F("pods", "n2", {"lost apart from the boot"})
        \cup F("logs", "n2", {"kernel boots", "shutdown requested", "shutdown clean"})>>)

\* A node that joins: what it produces while it comes up is no incident.
JoinScene ==
    LET young == {"no room", "sandbox failed", "liveness fails", "liveness kills", "exited", "not Ready", "leader changes"} IN
    Scene({"n2"}, <<On("nodes", {"n1", "n2"}, {"exists", "server", "etcd", "NoSchedule", "rke2"})
        \cup F("nodes", "n2", {w \o " as it came up" : w \in young} \cup {"not Ready"}) \cup F("nodes", "cluster", {"sandbox failed as it came up"})
        \cup F("pods", "c1", {"on n2", "exited"}) \cup F("events", "c1", {"no room", "liveness fails", "liveness kills", "sandbox failed"})
        \cup F("logs", "n2", {"leader changes"})>>)

\* A slow disk and what follows; a node that is a container.
LatencyScene ==
    Scene({"n1", "n2"}, <<Servers2 \cup F("logs", "n1", {"slow fsyncs", "leader changes", "lost leases after that"}) \cup F("events", "n2", {"NotReady after that"})
        \cup F("logs", "n2", {"lost its node lease after that", "oom"}) \cup F("probe", "n2", {"in a container"}) \cup F("events", "n1", {"SystemOOM"})>>)

\* Pods that do not run, by whatever keeps them from it.
TroubleScene ==
    Scene({"n1"}, <<Usual \cup F("pods", "c1", {"CrashLoopBackOff", "exited", "exit 137", "on n1"}) \cup F("events", "c1", {"liveness fails", "liveness kills"})
        \cup F("pods", "c2", {"exited three times", "exited", "OOMKilled"}) \cup F("events", "c3", {"pull failed", "taint not tolerated", "mount failed"})
        \cup F("events", "d1", {"violates PodSecurity"}) \cup F("events", "c4", {"evicted", "rejected"})
        \cup F("nodes", "n1", {"DiskPressure", "MemoryPressure", "cordoned"}) \cup F("events", "n1", {"evicts for disk", "evicts for memory", "pods stopped after that"})
        \cup F("logs", "n1", {"pull failed", "disk full", "token mismatch", "fapolicyd denies", "unit restarts", "mount failed"})>>)

-----------------------------------------------------------------------------
(* The hardening rules                                                     *)

\* A server as the rules ask, and what a kubelet and a node's files are then.
Hardened(n) ==
    F("pods", n, {"kube-apiserver", "kube-controller-manager", "kube-scheduler", "etcd args", "V-274882", "RKE2-cm-ciphers",
                  "RKE2-sched-ciphers", "RKE2-audit-log-mode", "apiserver names A", "client cert-auth", "peer cert-auth"})
        \cup F("pods", n, UNION {APIServerFlags, ManagerFlags, SchedulerFlags, APIServerFlagsOfCIS, ManagerFlagsOfCIS, SchedulerFlagsOfCIS})
        \cup F("probe", n, {"control plane", "etcd user"}) \cup F("config", n, {"PSA file A", "restricted A", "exempts users in A"})
EtcdOf(n) == F("etcd", n, {"exists", "etcd config", "client cert-auth", "client auto-tls false", "sample encrypted"})
KubeletOfNode(n) ==
    F("configz", n, {"answered", "V-254568", "V-242425"} \cup KubeletKeys \cup KubeletKeysOfCIS)
        \cup F("probe", n, {"rke2", "kubelet flags", "SELinux enforcing"})
        \cup F("config", n, {"profile cis", "file of V-242408", "file of V-242466", "file of V-242445"})

\* A server whose admission defaults are loosened, and a rule of the kubelet's.
ServerRulesScene ==
    LET base == Usual \cup F("namespaces", "apps", {"user namespace"}) \cup F("version", "-", {"answers 33"})
        good == base \cup Hardened("n1") \cup KubeletOfNode("n1") IN
    Scene({"n1"}, <<good,
        (good \ (F("config", "n1", {"restricted A"}) \cup F("configz", "n1", {"V-242434", "V-254568"})))
            \cup F("config", "n1", {"wrong V-242408", "wrong V-242460", "exempts a user namespace in A"})
            \cup F("pods", "p", {"V-242415 found", "V-242383 found", "insecure port", "runs image:1", "runs image:2"})>>)

\* Two servers of different make.
ServersApart ==
    Scene({"n1", "n2"}, <<Servers2 \cup Hardened("n1") \cup EtcdOf("n1") \cup KubeletOfNode("n1") \cup KubeletOfNode("n2")
        \cup F("pods", "n2", {"kube-apiserver", "apiserver names B", "etcd args", "client auto-tls true"})
        \cup F("config", "n2", {"PSA file B", "external B"}) \cup F("configz", "n2", {"idle not a duration"})
        \cup F("probe", "n2", {"swap on", "SELinux permissive", "hostname-override", "control plane"})>>)

\* The rules about the cluster's objects.
ClusterRulesScene ==
    Scene({}, <<Usual \cup F("namespaces", "apps", {"user namespace"}) \cup F("networkpolicies", "apps", {"covers the namespace"})
        \cup F("clusterrolebindings", "b", {"CIS-5.1.1 found"}) \cup F("deployments", "d", {"V-254570 found"})>>)

\* The cluster that runs Rancher.
ManagementScene ==
    Scene({}, <<Usual \cup F("rancher", "server", {"exists"}) \cup F("users", "admin", {"local", "enabled"}) \cup F("globalrolebindings", "admin", {"admin"})
        \cup F("globalroles", "user-base", {"default"}) \cup F("authconfigs", "keycloak", {"enabled"})
        \cup F("deployments", "rancher", {"exists", "AUDIT_LEVEL 2"}) \cup F("rancher ingress", "rancher", {"port 443"})
        \cup F("networkpolicies", "rancher", {"444 only"}) \cup F("helm charts", "rancher", {"release", "privateCA and secret"}),
        Usual \cup F("rancher", "server", {"exists"}) \cup F("users", "admin", {"local", "enabled"}) \cup F("globalroles", "user", {"default"})>>)

\* One rule for each of the templates, for the hand-written checks (one of each shape,
\* and all of those with a condition), and for each check of the project's own.
OneCheck(eval, name, with) == {[eval |-> eval, name |-> name, with |-> with]}
ByTemplates == {[id |-> "STIG " \o t, own |-> "-", checks |-> OneCheck(t, t, {})] : t \in Template}
Shapes == {"accounts_umask_etc_bashrc", "no_duplicate_uids", "security_patches_up_to_date", "dconf_gnome_banner_enabled",
           "configure_bind_crypto_policy", "file_permissions_cron_not_modified", "rsyslog_remote_loghost",
           "directory_ownership_var_log_audit", "grub2_password", "grub2_uefi_admin_username"}
Own == {"dconf_db_up_to_date", "rootfiles_configured", "account_password_selinux_faillock_dir", "selinux_all_devicefiles_labeled",
        "selinux_state", "sudoers_default_includedir", "sshd_rekey_limit", "installed_OS_is_vendor_supported",
        "ensure_gpgcheck_never_disabled", "kerberos_disable_no_keytab", "auditd_data_retention_space_left_percentage",
        "auditd_audispd_configure_sufficiently_large_partition", "audit_rules_cron_execution", "fips_crypto_subpolicy",
        "crypto_policy_not_overridden", "libreswan_approved_tunnels", "is_fips_mode_enabled", "bios_enable_execution_restrictions",
        "configured_firewalld_default_deny", "configure_firewalld_ports", "ufw_only_required_services", "check_ufw_active",
        "wireless_disable_interfaces", "encrypt_partitions", "grub2_disable_interactive_boot", "sssd_offline_cred_expiration",
        "usbguard_generate_policy"}
ByNames == {[id |-> "STIG " \o r, own |-> "-", checks |-> OneCheck("named", r, {})] : r \in Shapes \cup Own}
ByHand == {[id |-> "STIG " \o k, own |-> k, checks |-> {}] : k \in OSKeys}
Mixed ==
    {[id |-> "STIG removed, by hand too", own |-> "-", checks |-> OneCheck("package_removed", "telnet", {}) \cup OneCheck("custom", "telnet", {})],
     [id |-> "STIG ipv6", own |-> "-", checks |-> OneCheck("sysctl", "ipv6", {"ipv6"}) \cup OneCheck("sysctl", "aslr", {})],
     [id |-> "STIG variable", own |-> "-", checks |-> OneCheck("service_enabled", "auditd", {"variable differs"})],
     [id |-> "STIG by hand", own |-> "-", checks |-> OneCheck("custom", "usb", {})]}
Release(os, rules) == {[r EXCEPT !.id = os \o @] : r \in rules}
MCBenchmarks ==
    [rhel9 |-> Release("rhel ", UNION {ByTemplates, ByNames, ByHand, Mixed}),
     ubuntu2204 |-> Release("ubuntu ", {r \in ByHand : r.own \in {"mac", "auditd", "aslr"}} \cup Mixed)]

\* A node as the rules ask.
OSFacts(n, os) ==
    F("probe", n, {"OS known", os, "fips known", "fips", "SELinux enforcing", "fapolicyd active", "auditd active", "firewalld active",
                   "usbguard active", "clock known", "x86_64", "audit=1", "grub2_bootloader_argument"} \cup (IF os = "rhel9" THEN {"rhel"} ELSE IF os = "ubuntu2204" THEN {"ubuntu"} ELSE {}))
        \cup F("config", n, {"value of " \o k : k \in SysctlKeys} \cup SysctlKeys)
        \cup F("stig", n, {"sshd -T", "GUI", "repo files", "nx", "efi", "grub superuser", "grub read", "AUDITDIR", "rsyslog config", "configure_crypto_policy",
                            "CURRENT.pol", "/etc/sudoers"} \cup Template \cup Shapes \cup Own)
        \cup F("stig", n, {"value of " \o t : t \in Template \cup {"aslr", "sshd_rekey_limit"}} \cup {"aslr"})
        \cup F("here", n, {"in support"})

\* A run without a screen, over nodes of one release and of two; scans on the screen.
HeadlessScene(hosts, worlds) == [Scene(hosts, worlds) EXCEPT !.headless = TRUE]
OneRelease == HeadlessScene({"n1", "n2"}, <<Usual \cup OSFacts("n1", "rhel9") \cup OSFacts("n2", "rhel9") \cup F("stig", "n2", {"wrong no_duplicate_uids"})>>)
TwoReleases == HeadlessScene({"n1", "n2", "n3"}, <<Usual \cup OSFacts("n1", "rhel9") \cup OSFacts("n2", "ubuntu2204") \cup OSFacts("n3", "rhel9")>>)
OtherRelease == HeadlessScene({"n1", "n2"}, <<Usual \cup OSFacts("n1", "rhel9") \cup OSFacts("n2", "sles15")>>)
ScansScene == Scene({"n2"}, <<Usual \cup OSFacts("n2", "rhel9"),
                              Usual \cup (OSFacts("n2", "rhel9") \ F("probe", "n2", {"fips", "auditd active"}))
                                  \cup F("stig", "n2", {"wrong no_duplicate_uids"}) \cup F("config", "n2", {"no audit rules"})>>)

-----------------------------------------------------------------------------

MCNode == {"n1", "n2", "n3"}
MCVolume == {"v1", "v2"}
MCScenes ==
    [cluster |-> ClusterScene, systemProject |-> SystemProject, workload |-> WorkloadScene, claim |-> ClaimScene,
     control |-> ControlScene, removed |-> RemovedScene, stuck |-> StuckScene, ingress |-> IngressScene,
     ACE |-> ACEScene, address |-> AddressScene, VIP |-> VIPScene, endpoint |-> EndpointScene,
     network |-> NetworkScene, host |-> HostScene, clock |-> ClockScene, IPAM |-> IPAMScene, swap |-> SwapScene,
     hardened |-> HardenedScene, preflight |-> PreflightScene, cloud |-> CloudScene, newCloud |-> NewCloudScene, driver |-> DriverScene,
     attach |-> AttachScene, snapshot |-> SnapshotScene, device |-> DeviceScene, longhorn |-> LonghornScene,
     longhornCare |-> LonghornCareScene, trident |-> TridentScene, protect |-> ProtectScene, ceph |-> CephScene,
     leader |-> LeaderScene, alarm |-> AlarmScene, backup |-> BackupScene, S3 |-> S3Scene, external |-> ExternalScene, withoutEtcd |-> WithoutEtcdScene,
     reboot |-> RebootScene, killall |-> KillallScene, join |-> JoinScene, latency |-> LatencyScene,
     trouble |-> TroubleScene, upgrade |-> UpgradeScene, provision |-> ProvisionScene, serverRules |-> ServerRulesScene,
     serversApart |-> ServersApart, clusterRules |-> ClusterRulesScene, management |-> ManagementScene, oneRelease |-> OneRelease,
     twoReleases |-> TwoReleases, otherRelease |-> OtherRelease, scans |-> ScansScene]
=============================================================================
