------------------------------ MODULE Drivers ------------------------------
(***************************************************************************)
(* What Snapshot.Fetch makes of the lists before a check reads them        *)
(* (package k8s): which are asked for at all, which of an earlier refresh  *)
(* stand in for the new ones, and the views that join several of them.     *)
(***************************************************************************)
EXTENDS Checks, TLC

-----------------------------------------------------------------------------
(* Which lists are asked for                                               *)

LonghornLists == {"longhorn replicas", "longhorn nodes", "longhorn settings", "longhorn engines", "longhorn images",
                  "longhorn managers", "longhorn shares", "longhorn targets", "longhorn backups", "longhorn jobs",
                  "longhorn orphans"}
TridentLists == {"tridentbackendconfigs", "tridentnodes", "tridentstorageclasses", "tridentvolumepublications"}
ProtectLists == {"protect applications", "protect snapshots", "protect backups", "leases", "schedules"}
ManagementLists == {"rancher ingress", "authconfigs", "globalroles", "globalrolebindings", "users"}

CephLists == {"ceph resources"}

\* provisionedClusters: nothing of a machine is known without the list of clusters.
ProvisionedLists == {"control planes", "machines", "machine plans"}

\* A list, and the one that decides whether it is asked for, or is of any use.
Follows ==
    (LonghornLists \X {"longhorn volumes"}) \cup (ProtectLists \X {"appvaults"})
        \cup ({"snapshots", "snapshot contents"} \X {"snapshot classes"}) \cup ({"volume stats", "configz"} \X {"nodes"})
        \cup (ManagementLists \X {"rancher"}) \cup (CephLists \X {"cephclusters"})
        \cup (ProvisionedLists \X {"provisioned"})

\* Trident's other lists are only skipped once its backends were refused.
Unread(missing, refused) ==
    missing \cup {l[1] : l \in {f \in Follows : f[2] \in missing}}
        \cup IF "tridentbackends" \in refused THEN TridentLists ELSE {}

\* Lists that are read every so often; the one before stands in for them meanwhile.
Kept == {"webhooks", "csrs", "apiserver metrics", "configz", "longhorn engines", "longhorn settings"}
\* Of these, the ones an old one of which is better than none.
StandsIn == {"longhorn engines", "longhorn settings"}

\* longhornInfo: a volume that is not healthy has the engines listed, however fresh they are.
Wanted(facts) == IF \E f \in facts : f[1] = "longhorn volumes" /\ f[3] \in {"degraded", "faulted"}
                 THEN {"longhorn engines"} ELSE {}

-----------------------------------------------------------------------------
(* Snapshot.Cloud                                                          *)

\* A workload that is not all there, or a pod of which says why it does not start.
Fine(d, l, c) == ~Has(d, l, c, "not all ready") /\ ~Has(d, "pods", c, "does not start")
Workload(d, role) == With(d, "deployments", role) \cup With(d, "daemonsets", role)
Unhealthy(d, role) ==
    {c \in Workload(d, role) : \/ c \in With(d, "deployments", role) /\ ~Fine(d, "deployments", c)
                               \/ c \in With(d, "daemonsets", role) /\ ~Fine(d, "daemonsets", c)}

\* rke2's own cloud controller is a static pod.
Stub(d) == Some(d, "pods", "embedded cloud controller")

\* The installed controller decides, then what most providerIDs name (rke2 and k3s
\* set one of their own), then the stub.
Provider(d) ==
    LET controllers == Workload(d, "cloud controller")
        Count(p) == Cardinality(With(d, "nodes", "providerID of " \o p))
        most == {p \in {"vsphere", "aws"} : /\ Count(p) > 0
                                            /\ \A q \in {"vsphere", "aws"} : Count(q) <= Count(p)}
    IN IF controllers # {} THEN CHOOSE p \in controllers : TRUE
       ELSE IF most # {} THEN CHOOSE p \in most : TRUE
       ELSE IF Stub(d) THEN "rke2" ELSE "none"

External(d) == Provider(d) \notin {"none", "rke2"}
Drivers(d) == With(d, "csidrivers", "exists")
Registered(d, driver) == {n \in Node : Has(d, "csinodes", n, driver)}

\* A failure's event names a volume: its driver is in the volumes' list.  Without
\* it, the driver that the message names.
FailuresOf(d, c) ==
    {e \in With(d, "events", "volume failure") :
        LET Owner(x) == Has(d, "persistentvolumes", e, "of " \o x) IN
        Owner(c) \/ ((\A x \in Drivers(d) : ~Owner(x)) /\ Has(d, "events", e, "names " \o c))}

-----------------------------------------------------------------------------
(* Longhorn                                                                *)

\* The instance manager of a node: one of the v1 engine decides, and one that runs
\* is enough.
ManagerDown(d, n) ==
    LET Is(w) == Has(d, "longhorn managers", n, w) IN
    IF Is("v1 running") \/ Is("v1 stopped") THEN ~Is("v1 running") ELSE Is("v2 stopped") /\ ~Is("v2 running")

\* The engine of a volume: the active one, while there are two of them.
EngineSays(d, v, w) ==
    \/ Has(d, "longhorn engines", v, "active: " \o w)
    \/ ~Has(d, "longhorn engines", v, "active") /\ Has(d, "longhorn engines", v, w)

\* The state of a volume's share manager, else the one the volume's status shows.
ShareDown(d, v) ==
    IF Has(d, "longhorn shares", v, "exists") THEN ~Has(d, "longhorn shares", v, "running")
    ELSE Has(d, "longhorn volumes", v, "share not running")

\* The backup targets; before they were resources, a setting.
Targets(d) ==
    IF Some(d, "longhorn targets", "exists") THEN Of(d, "longhorn targets", {"available", "unavailable", "not set"})
    ELSE When(Some(d, "longhorn settings", "backup target"), <<"default", "available">>)

-----------------------------------------------------------------------------
(* Trident                                                                 *)

\* ResolveStorageClasses: the backends a class may provision on, by the type it asks
\* for, the backends it names, and the labels of their pools.  A class that names a
\* backend that is not listed has a problem of its own.
Pool == {"gold", "silver"}
Backend == {"b1", "b2"}
Names(d, s) == {b \in Backend : Has(d, "storageclasses", s, "names " \o b)}
Selects(d, s) ==
    LET typed == {t \in {"SAN", "NAS"} : Has(d, "storageclasses", s, "type " \o t)}
        wanted == {p \in Pool : Has(d, "storageclasses", s, "selector " \o p)}
        Fits(b) == /\ typed = {} \/ \E t \in typed : Has(d, "tridentbackends", b, t)
                   /\ Names(d, s) = {} \/ b \in Names(d, s)
                   /\ wanted = {} \/ \E p \in wanted : Has(d, "tridentbackends", b, "pool " \o p)
                   /\ ~Has(d, "storageclasses", s, "excludes " \o b)
    IN {b \in With(d, "tridentbackends", "exists") : Fits(b)}
Unlisted(d, s) == Names(d, s) \ With(d, "tridentbackends", "exists")

\* A class counts as registered when the list of Trident's classes was not made.
Unregistered(d, s) == "tridentstorageclasses" \in d.read /\ ~Has(d, "tridentstorageclasses", s, "exists")

\* MultiPublished: a volume of one writer that was published to two nodes.
MultiPublished(d) ==
    {v \in With(d, "tridentvolumepublications", "one writer") :
        Cardinality({n \in Node : Has(d, "tridentvolumepublications", v, "on " \o n)}) > 1}

-----------------------------------------------------------------------------
(* Trident Protect                                                         *)

Runs(d, w) == With(d, "protect snapshots", w) \cup With(d, "protect backups", w)

\* RunByUID, BlockedLocks: the lease of an application's lock names the run that
\* holds it; when it is not among those listed, the lock is taken for stale.
Lease(d, a) == Has(d, "leases", a, "locked")
LeaseHolder(d, a) == Runs(d, "holds the lock of " \o a)

\* LockHolder: without the lease, an unfinished run of the lock's kind.
BusyRun(d, a) ==
    LET runs == IF Has(d, "protect backups", a, "waits for the backup lock")
                THEN With(d, "protect backups", "run of " \o a) ELSE With(d, "protect snapshots", "run of " \o a)
    IN {r \in runs : r \in Runs(d, "unfinished")}

LockOf(d, a) ==
    IF Lease(d, a)
    THEN IF LeaseHolder(d, a) = {} THEN "lock is stale: delete the lease" ELSE "run waits for another"
    ELSE IF BusyRun(d, a) = {} THEN "lock may be stale" ELSE "run waits for another"

-----------------------------------------------------------------------------
(* etcd's snapshot records                                                 *)

\* rke2Snapshots: the records of the custom resources, and of the ConfigMap those
\* that are not among them.  Each of the two may be the only one that was read.
RecordLists == {"snapshot records", "snapshot map"}
Recorded(d, n, w) == \E l \in RecordLists : Has(d, l, n, w)
AnyRecord(d, w) == \E l \in RecordLists : Some(d, l, w)
Records(d, w) == UNION {With(d, l, w) : l \in RecordLists}

-----------------------------------------------------------------------------
(* Upgrades                                                                *)

\* AttachUpgradeJobs: the newest job of a plan on a node, and what keeps its pod.
PlanJobs(d, p) == {n \in Node : Has(d, "jobs", p, "upgrades " \o n)}
JobProblem(d, p, n) ==
    IF Has(d, "jobs", p, "failed on " \o n) THEN "upgrade failed"
    ELSE IF ~Has(d, "jobs", p, "runs on " \o n) THEN "-"
    ELSE IF Has(d, "pods", p, "cannot pull on " \o n) THEN "upgrade cannot start"
    ELSE IF Has(d, "jobs", p, "old on " \o n) THEN "upgrade stuck" ELSE "-"

\* PlanNodes: a node that carries the hash of the plan's version is done.
Done(d, p) == {n \in Listed(d) : Has(d, "nodes", n, "done by " \o p)}
Pending(d, p) == {n \in Listed(d) : Has(d, "plans", p, "selects " \o n)} \ Done(d, p)

\* parseMachinePlan: the plan the planner wrote, the one the agent applied, the one it
\* failed on, and how often against how often it may.
PlanState(d, m) ==
    LET Is(w) == Has(d, "machine plans", m, w) IN
    IF ~Is("plan") \/ Is("applied is the plan") THEN "in sync"
    ELSE IF ~Is("failed on the plan") THEN "plan pending"
    ELSE IF Is("below the threshold") THEN "plan keeps failing" ELSE "plan given up"

=============================================================================
