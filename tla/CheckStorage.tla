---------------------------- MODULE CheckStorage ----------------------------
(***************************************************************************)
(* checks.Evaluate, the part about the cloud provider and the storage      *)
(* drivers (cloud.go, storage_backend.go), over the views of module Drivers.       *)
(*                                                                         *)
(* Each list of a driver's resources is one of its own, and none of them   *)
(* is reported when it fails: what a check makes of an empty list is what  *)
(* it makes of one that was not read, unless the collector keeps the two   *)
(* apart (a nil, or a flag beside it).                                     *)
(***************************************************************************)
EXTENDS Drivers

CONSTANT Volume \* the names of Longhorn's volumes

-----------------------------------------------------------------------------
(* evalCloud                                                               *)

Controllers(d) ==
    {<<c, "cloud controller not healthy">> : c \in Unhealthy(d, "cloud controller")}
        \cup When(Stub(d) /\ External(d), <<"rke2", "embedded controller beside another">>)

\* What the controllers made of each node.
CloudNodes(d) ==
    LET waits == With(d, "nodes", "uninitialized")
        Named(n) == {p \in {"vsphere", "aws", "rke2"} : Has(d, "nodes", n, "providerID of " \o p)}
    IN {<<n, "not initialized">> : n \in waits}
           \cup IF ~External(d) THEN {}
                ELSE {<<n, IF Named(n) = {} THEN "no providerID"
                           ELSE IF "rke2" \in Named(n) THEN "initialized by the embedded controller"
                           ELSE "providerID of another">> :
                        n \in {m \in Listed(d) \ waits : Provider(d) \notin Named(m)}}

\* A driver: its controller, its plugin on the nodes, where it registered, what failed.
DriverHealth(d) ==
    LET plugin == Workload(d, "CSI plugin") IN
    {<<c, "CSI controller not healthy">> : c \in Drivers(d) \cap Unhealthy(d, "CSI controller")}
        \cup {<<c, "CSI plugin not healthy">> : c \in Drivers(d) \cap Unhealthy(d, "CSI plugin")}
        \cup {<<c, IF Some(d, "daemonsets", c \o " wants every node") THEN "driver not registered"
                   ELSE "driver not on every node">> :
                c \in {x \in Drivers(d) \cap plugin : /\ Listed(d) \ Registered(d, x) # {}
                                                      /\ \/ Some(d, "daemonsets", x \o " wants every node")
                                                         \/ Some(d, "storageclasses", "of " \o x)}}
        \cup {<<c, "volume failures">> : c \in {x \in Drivers(d) : FailuresOf(d, x) # {}}}

\* vsphere.conf.  A secret that is not among the names read counts as missing.
VSphere(d) ==
    IF "vsphere" \notin Drivers(d) THEN {}
    ELSE When(Provider(d) # "vsphere", <<"vsphere", "CSI without CPI">>)
             \cup When(/\ Has(d, "vsphere.conf", "vsphere", "names a secret")
                       /\ ~Has(d, "metadata", "vsphere", "named"), <<"vsphere", "credentials secret does not exist">>)
             \cup Of(d, "vsphere.conf", {"no vCenter", "no datacenters"})

\* StorageClasses of a provisioner without a CSIDriver.
Provisioners(d) ==
    {<<s, IF Has(d, "persistentvolumeclaims", s, "Pending") \/ Has(d, "storageclasses", s, "of a CSI driver")
          THEN "provisioner not installed" ELSE "provisioner registers no driver">> :
        s \in {x \in With(d, "storageclasses", "external") : ~Has(d, "csidrivers", x, "serves it")}}

\* evalCloudNode: the host, under the provider that was found.
CloudHost(d) ==
    LET kubelet == With(d, "probe", "kubelet flags")
        aws == Provider(d) = "aws" \/ "aws" \in Drivers(d)
        San(n) == Some(d, "tridentbackends", "SAN")
        trident == With(d, "config", "trident")
    IN {<<n, "kubelet not external">> :
           n \in IF External(d) THEN kubelet \ With(d, "probe", "cloud-provider external") ELSE {}}
           \cup {<<n, "no instance metadata">> : n \in IF aws THEN With(d, "config", "IMDS refuses") ELSE {}}
           \cup {<<n, "disks without UUID">> :
                   n \in IF "vsphere" \in Drivers(d) THEN With(d, "config", "VMware without wwn") ELSE {}}
           \cup {<<n, "vCenter unreachable">> : n \in With(d, "config", "vCenter unreachable")}
           \cup {<<n, "SAN without iscsid">> : n \in {m \in trident \ With(d, "config", "iscsid") : San(m)}}
           \cup {<<n, "SAN without multipathd">> : n \in {m \in trident \ With(d, "config", "multipathd") : San(m)}}
           \cup {<<n, "NAS without mount.nfs">> :
                   n \in {m \in trident \ With(d, "config", "mount.nfs") : Some(d, "tridentbackends", "NAS")}}

-----------------------------------------------------------------------------
(* Volumes and snapshots of every driver                                   *)

\* evalVolumeAttachments.  "on n" : the volume is attached there; "user on n" :
\* a pod that is not finished, bound there, wants it through its claim.
Attachments(d) ==
    LET On(v) == {n \in Node : Has(d, "volumeattachments", v, "on " \o n)}
        Gone(v) == On(v) \ (Listed(d) \ With(d, "nodes", "not Ready"))
        Users(v) == {n \in Node : /\ Has(d, "pods", v, "user on " \o n)
                                  /\ Has(d, "persistentvolumeclaims", v, "bound")}
        volumes == {f[2] : f \in {g \in d.facts : g[1] = "volumeattachments"}}
    IN Of(d, "volumeattachments", {"attach fails", "detach fails"})
           \cup {<<v, IF Has(d, "persistentvolumes", v, "shared") THEN "shared, attached to a lost node"
                      ELSE IF Users(v) \ On(v) # {} THEN "attached to a lost node, wanted elsewhere"
                      ELSE IF Users(v) # {} THEN "attached to a lost node, pod stuck"
                      ELSE "attached to a lost node, unused">> : v \in {x \in volumes : Gone(x) # {}}}

\* evalSnapshots: without the classes the rest is not read (snapshotInfo).
Snapshots(d) ==
    LET taken == With(d, "snapshots", "exists")
        waiting == taken \ With(d, "snapshots", "ready")
    IN IF "snapshot classes" \notin d.read THEN {}
       ELSE When(taken # {} /\ ~Some(d, "deployments", "snapshot-controller runs"),
                 <<"snapshot-controller", IF waiting # {} THEN "snapshots never taken" ELSE "no new snapshots">>)
                \cup {<<c, "driver of the class not installed">> :
                        c \in {x \in With(d, "snapshot classes", "exists") : ~Has(d, "csidrivers", x, "serves it")}}
                \cup {<<s, IF Has(d, "snapshots", s, "error") THEN "snapshot failed" ELSE "snapshot not ready">> :
                        s \in waiting \cap With(d, "snapshots", "old")}
                \cup Of(d, "snapshot contents", {"content stuck deleting", "content failed"})

\* evalStorageNode: what the node still presents, against Longhorn's volumes.
NodeDevices(d) ==
    LET Known(v) == Has(d, "longhorn volumes", v, "exists") IN
    Of(d, "probe", {"network mount hung"})
        \cup IF "longhorn volumes" \notin d.read THEN {}
             ELSE UNION {{<<v, IF Known(v) THEN "device on another node: split brain" ELSE "device of no volume">> :
                            v \in {x \in Volume : /\ Has(d, "config", n, "device of " \o x)
                                                  /\ ~Has(d, "longhorn volumes", x, "on " \o n)}} : n \in Hosts(d)}

-----------------------------------------------------------------------------
(* Longhorn (longhornInfo, evalLonghorn): without the volumes nothing is said *)

Down(d, n) == Has(d, "nodes", n, "not Ready") \/ Has(d, "longhorn nodes", n, "not ready")

LonghornNodes(d) ==
    LET up == With(d, "longhorn nodes", "exists") \ With(d, "longhorn nodes", "not ready") IN
    {<<n, "Longhorn not ready">> :
        n \in (With(d, "longhorn nodes", "not ready") \cap Listed(d)) \ With(d, "nodes", "not Ready")}
        \cup {x \in up \X {"disk not schedulable", "disk not ready", "disk full", "packages missing",
                               "mount propagation off"} : Has(d, "longhorn nodes", x[1], x[2])}
        \cup {<<n, "instance manager down">> :
                n \in {m \in Node : ManagerDown(d, m) /\ (m \in up \/ ~Has(d, "longhorn nodes", m, "exists"))}}
        \cup {<<n, "engine image missing">> :
                n \in (With(d, "longhorn images", "missing") \cap Listed(d)) \ With(d, "nodes", "not Ready")}

\* LonghornVolume.Healthy: what the engine serves, else the replicas listed as
\* running: none when neither list was read.  (Engines are kept while every volume
\* is healthy; one that is not has them listed again.)
Healthy(d, v) ==
    LET Serves(w) == {n \in Node : EngineSays(d, v, w \o n)}
    IN IF Serves("RW on ") \cup Serves("ERR on ") # {} THEN Cardinality(Serves("RW on "))
       ELSE Cardinality({n \in Node : Has(d, "longhorn replicas", v, "healthy on " \o n)})
Placed(d, v) == \E n \in Node : Has(d, "longhorn replicas", v, "placed on " \o n)

LonghornVolumes(d) ==
    LET Is(v, w) == Has(d, "longhorn volumes", v, w)
        volumes == With(d, "longhorn volumes", "exists")
        On(v) == {n \in Node : Is(v, "on " \o n)}
        unplaced == {v \in volumes : Is(v, "cannot schedule") /\ ~Placed(d, v)}
    IN {<<v, "FAULTED">> : v \in {x \in volumes \ unplaced : Is(x, "faulted")}}
           \cup {<<v, IF Healthy(d, v) <= 1 /\ ~Is(v, "single replica") THEN "one healthy replica left"
                      ELSE "degraded">> :
                   v \in {x \in volumes : Is(x, "degraded")}}
           \cup {<<v, IF Placed(d, v) THEN "short of replicas" ELSE "cannot schedule any replica">> :
                   v \in {x \in volumes : /\ Is(x, "cannot schedule") /\ ~Is(x, "degraded")
                                          /\ ~(Is(x, "faulted") /\ Placed(d, x))}}
           \cup {<<v, "attached to a node that is down">> : v \in {x \in volumes : \E n \in On(x) : Down(d, n)}}
           \cup {<<v, "robustness unknown">> :
                   v \in {x \in volumes : Is(x, "unknown") /\ \E n \in On(x) : ~Down(d, n)}}
           \cup {<<v, "pod waits on another node">> :
                   v \in {x \in volumes : /\ On(x) # {}
                                          /\ \E n \in Node \ On(x) : Has(d, "pods", x, "pending user on " \o n)}}
           \cup {<<v, "share manager down">> : v \in {x \in volumes : ShareDown(d, x)}}
           \cup {<<v, "too many snapshots">> :
                   v \in {x \in volumes : Is(x, "too many snapshots") \/ EngineSays(d, x, "too many snapshots")}}
           \cup {<<v, "expansion failed">> : v \in {x \in volumes : EngineSays(d, x, "expansion failed")}}
           \cup Of(d, "longhorn volumes", {"single replica"})

\* Backups, orphans and settings.  A setting that was not read has its default.
LonghornCare(d) ==
    LET targets == {t \in Targets(d) : t[2] = "available"}
        allowed == With(d, "longhorn nodes", "allows scheduling")
        copies == IF Some(d, "longhorn settings", "one copy") THEN 1 ELSE 3
    IN (Targets(d) \ targets) \cup Of(d, "longhorn backups", {"backup failed"})
           \cup {<<j, "every run fails: no backup target">> :
                   j \in IF targets = {} THEN With(d, "longhorn jobs", "backs up") ELSE {}}
           \cup Of(d, "longhorn orphans", {"orphaned replicas"})
           \cup When(allowed # {} /\ copies > Cardinality(allowed) /\ ~Some(d, "longhorn settings", "soft anti-affinity"),
                     <<"longhorn", "fewer nodes than copies">>)
           \cup Of(d, "longhorn settings", {"no rebuilds", "no auto-salvage"})

Longhorn(d) ==
    IF "longhorn" \in Drivers(d) /\ "longhorn volumes" \in d.read
    THEN LonghornNodes(d) \cup LonghornVolumes(d) \cup LonghornCare(d) ELSE {}

-----------------------------------------------------------------------------
(* Ceph, Trident, Trident Protect                                          *)

\* evalCeph.  A warning that hides a loss of availability is critical.
Ceph(d) ==
    IF "ceph" \notin Drivers(d) \/ "cephclusters" \notin d.read THEN {}
    ELSE {<<c, IF Has(d, "cephclusters", c, "data at risk") THEN "Ceph: data at risk" ELSE "HEALTH_WARN">> :
            c \in With(d, "cephclusters", "HEALTH_WARN")}
             \cup Of(d, "cephclusters", {"HEALTH_ERR", "not reached", "operator fails", "nearly full"})
             \cup Of(d, "ceph resources", {"not Ready"})

\* What a class of Trident's can provision on, in the order it is asked.
TridentClass(d, s) ==
    LET online == Selects(d, s) \ With(d, "tridentbackends", "offline") IN
    IF Unregistered(d, s) THEN "class not registered"
    ELSE IF Selects(d, s) = {} THEN "class selects no backend"
    ELSE IF online = {} THEN "every backend of the class offline"
    ELSE IF online # Selects(d, s) THEN "some backends of the class offline"
    ELSE IF Unlisted(d, s) # {} THEN "class names no such backend" ELSE "-"

\* tridentBackends keeps "none" and "not listed" apart; the classes' resolution
\* reads the list either way.
Trident(d) ==
    LET classes == With(d, "storageclasses", "of Trident")
        nodes == With(d, "tridentnodes", "exists")
        registered == nodes \ With(d, "tridentnodes", "not registered")
        absent == Listed(d) \ (nodes \cup With(d, "nodes", "not Ready"))
    IN IF "trident" \notin Drivers(d) THEN {}
       ELSE When(With(d, "tridentbackends", "exists") = {},
                 <<"trident", IF "tridentbackends" \in d.read THEN "no backend" ELSE "backends unknown">>)
                \cup Of(d, "tridentbackends", {"offline", "suspended"})
                \cup Of(d, "tridentbackendconfigs", {"config outside the namespace", "config failed", "config not updated"})
                \cup {<<n, "no TridentNode">> : n \in IF nodes = {} THEN {}
                                                     ELSE (nodes \ registered) \cup IF "trident" \in Workload(d, "CSI plugin") THEN absent ELSE {}}
                \cup {<<n, "publications dirty">> : n \in registered \cap With(d, "tridentnodes", "dirty")}
                \cup Except({<<s, TridentClass(d, s)>> : s \in classes}, {s \in classes : TridentClass(d, s) = "-"})
                \cup {<<v, "published to two nodes">> : v \in MultiPublished(d)}

\* evalTridentProtect: without the vaults nothing is said (tridentProtect).
Protect(d) ==
    LET usable == With(d, "appvaults", "available") IN
    IF "appvaults" \notin d.read THEN {}
    ELSE {<<v, "vault not available">> : v \in With(d, "appvaults", "exists") \ usable}
             \cup Of(d, "protect applications", {"not protected"})
             \cup (UNION {Of(d, l, {"run failed", "run stuck deleting", "run takes long"}) :
                            l \in {"protect snapshots", "protect backups"}})
             \cup {<<a, LockOf(d, a)>> : a \in Runs(d, "blocked")}
             \cup Of(d, "schedules", {"disabled", "schedule failed"})
             \cup {<<s, "schedule writes to no vault">> :
                     s \in IF usable = {} THEN With(d, "schedules", "names a vault") ELSE {}}

Storage(d) ==
    Controllers(d) \cup CloudNodes(d) \cup DriverHealth(d) \cup VSphere(d) \cup Provisioners(d) \cup CloudHost(d)
        \cup Attachments(d) \cup Snapshots(d) \cup NodeDevices(d) \cup Longhorn(d) \cup Ceph(d) \cup Trident(d) \cup Protect(d)

=============================================================================
