------------------------------ MODULE CheckEtcd ------------------------------
(***************************************************************************)
(* checks.Evaluate, the part about etcd, its backups and the upgrades      *)
(* (evalEtcd of checks.go, etcd_s3.go, etcd_snapshot_cm.go, upgrade.go).   *)
(* The triage that evalEtcd asks first is module EtcdTriage.               *)
(*                                                                         *)
(* etcd is seen twice: by the probe of each node, and by etcdctl in one of *)
(* etcd's pods ("exec"); which of the two speaks depends on both.          *)
(***************************************************************************)
EXTENDS Drivers

\* IsEtcdNode: on rke2 and k3s the label is the whole answer.
Rke2(d) == Some(d, "nodes", "rke2")
EtcdNodes(d) ==
    LET labelled == With(d, "nodes", "etcd") IN
    IF labelled # {} THEN labelled ELSE IF Rke2(d) THEN {} ELSE With(d, "nodes", "server")
Asked(d) == IF d.ssh THEN d.probed["etcd"] ELSE {}      \* Input.Etcd, an answer or an error
Members(d) == With(d, "etcd", "exists")         \* the probes that answered

-----------------------------------------------------------------------------
(* evalEtcd                                                                *)

\* A cluster without an etcd of its own is not asked about one.  The kubeadm
\* configuration, which says that it is elsewhere, is a list that may not be read.
NoEtcd(d) == EtcdNodes(d) = {} /\ Some(d, "nodes", "k3s without etcd")
ExternalEtcd(d) == Some(d, "kubeadm-config", "external etcd")

\* The cluster by etcdctl in a pod: what it says stands for what the nodes' own
\* etcdctl says of alarms and leaders, which is carried forward there.
Exec(d) == d.exec = "ok"
ClusterView(d) ==
    IF ~Exec(d) THEN {}
    ELSE Of(d, "exec", {"endpoint unhealthy", "alarm", "learner", "mixed versions"})
             \cup When(/\ Some(d, "exec", "voter") /\ EtcdNodes(d) # {}
                       /\ Cardinality(With(d, "exec", "voter")) # Cardinality(EtcdNodes(d)),
                       <<"cluster", "members differ from nodes">>)

MemberViews(d) ==
    {<<n, "etcd probe failed">> : n \in Asked(d) \ d.ok["etcd"]}
        \cup Of(d, "etcd", {"no local etcd", "unhealthy", "no leader", "db near quota", "fragmented", "slow disk", "data dir filling"})
        \cup IF Exec(d) THEN {} ELSE Of(d, "etcd", {"alarm", "mixed versions"})
        \cup IF d.exec # "nil" THEN {} ELSE {<<n, "members differ from nodes">> :
                n \in {m \in Members(d) : /\ EtcdNodes(d) # {}
                                          /\ Has(d, "etcd", m, "lists members")
                                          /\ Cardinality({o \in Node : Has(d, "etcd", m, "lists " \o o)})
                                                # Cardinality(EtcdNodes(d))}}

\* Each view names the leader it knows of: they were taken at different moments.
Leaders(d) ==
    LET Known(l, o) == {n \in Node : Has(d, l, o, "leader is " \o n)}
        leaders == IF Exec(d) THEN UNION {Known("exec", n) : n \in Node}
                   ELSE UNION {Known("etcd", n) : n \in Members(d)}
    IN When(Cardinality(leaders) > 1, <<"cluster", "members disagree on the leader">>)

\* How etcd is backed up: files on a node, records of the API, a timer, a CronJob.
BackedUp(d) ==
    Some(d, "etcd", "snapshot file") \/ Some(d, "etcd", "backup timer")
        \/ AnyRecord(d, "exists") \/ Some(d, "cronjobs", "etcd snapshot")
Fresh(d) == Some(d, "etcd", "fresh file") \/ AnyRecord(d, "fresh")

Backups(d) ==
    IF Asked(d) = {} /\ ~d.ssh /\ ~Rke2(d) THEN {}
    ELSE IF Some(d, "etcd", "snapshots disabled") THEN {<<"backups", "snapshots disabled">>}
    ELSE IF ~BackedUp(d) THEN When(Asked(d) # {} \/ Rke2(d), <<"backups", "no backup mechanism">>)
    ELSE When(~Fresh(d) /\ (Some(d, "etcd", "snapshot file") \/ AnyRecord(d, "succeeded")),
              <<"backups", "latest snapshot is old">>)

-----------------------------------------------------------------------------
(* evalSnapshotConfigMap: the records against the ceiling of a ConfigMap    *)

\* The largest retention the servers' probes name, else rke2's default; "r" is the
\* lower of two retentions, "R" the default.
SnapshotMap(d) ==
    LET retention == IF Some(d, "probe", "retention R") THEN 2
                     ELSE IF Some(d, "probe", "retention r") THEN 1 ELSE 2
        Count(n) == IF Recorded(d, n, "more than R") THEN 3 ELSE IF Recorded(d, n, "more than r") THEN 2 ELSE 1
        holders == Records(d, "local")
        over == {n \in holders \cap EtcdNodes(d) : Count(n) > retention}
        gone == holders \ EtcdNodes(d)
    IN IF ~Some(d, "snapshot map", "exists") THEN {}
       ELSE When(over \cup gone # {}, <<"backups", "snapshot records pile up">>)
                \cup When(over \cup gone = {} /\ Some(d, "snapshot map", "nearly full"),
                          <<"backups", "retention too large for the map">>)

-----------------------------------------------------------------------------
(* S3ConfigFor, evalS3: every server uploads its own snapshots              *)

S3On(d) == With(d, "etcd", "S3 enabled")

\* A secret that was not read yet leaves the completeness open.
S3Complete(d, n) ==
    IF Has(d, "etcd", n, "S3 by secret")
    THEN "s3 secret" \notin d.read \/ Has(d, "s3 secret", "secret", "complete")
    ELSE Has(d, "etcd", n, "S3 bucket and keys")

\* An endpoint that does not answer is worse while no local snapshot record is recent.
S3Findings(d) ==
    LET on == S3On(d) IN
    IF on = {} THEN {}
    ELSE When(Members(d) \ on # {}, <<"backups", "S3 only on some servers">>)
             \cup When({w \in {"S3 to A", "S3 to B"} : Some(d, "etcd", w)} = {"S3 to A", "S3 to B"},
                       <<"backups", "different S3 destinations">>)
             \cup {<<n, "S3 not complete">> : n \in {m \in on : ~S3Complete(d, m)}}
             \cup When(AnyRecord(d, "exists") /\ ~AnyRecord(d, "S3"),
                       <<"backups", "nothing uploaded">>)
             \cup When(AnyRecord(d, "S3") /\ ~AnyRecord(d, "fresh S3"),
                       <<"backups", "uploads stopped">>)
             \cup {<<n, "upload failed">> : n \in Records(d, "upload failed")}
             \cup {<<n, IF AnyRecord(d, "fresh local") THEN "S3 unreachable"
                        ELSE "S3 unreachable and no recent backup">> : n \in on \cap With(d, "s3 checks", "unreachable")}

Etcd(d) ==
    IF NoEtcd(d) THEN {<<"datastore", "no etcd">>}
    ELSE IF ExternalEtcd(d) THEN {<<"datastore", "etcd is external">>}
    ELSE When(EtcdNodes(d) # {} /\ Cardinality(EtcdNodes(d)) % 2 = 0, <<"cluster", "even number of members">>)
             \cup ClusterView(d) \cup MemberViews(d) \cup Leaders(d) \cup SnapshotMap(d)
             \cup {<<n, "snapshot failed">> : n \in Records(d, "failed")}
             \cup Backups(d)
             \cup IF Asked(d) = {} /\ ~d.ssh /\ ~Rke2(d) THEN {} ELSE S3Findings(d)

-----------------------------------------------------------------------------
(* evalUpgrade                                                             *)

\* Minor versions: the kubelets', of the apiserver that answered, of a plan.
Minor == 30..34
KubeletOf(d, n) == {m \in Minor : Has(d, "nodes", n, "kubelet " \o ToString(m))}
Answers(d) == {m \in Minor : Some(d, "version", "answers " \o ToString(m))}
Server(d, n) == Has(d, "nodes", n, "server")

\* A kubelet ahead of the apiserver that answered is only wrong when it is ahead of
\* every server's kubelet too.
Skew(d) ==
    LET servers == UNION {KubeletOf(d, s) : s \in {x \in Listed(d) : Server(d, x)}}
        Ahead(n) == \E k \in KubeletOf(d, n), a \in Answers(d) : k > a
        Allowed(n) == Server(d, n) \/ \E k \in KubeletOf(d, n), s \in servers : k <= s
    IN {<<n, IF Allowed(n) THEN "kubelet newer: upgrade in progress" ELSE "kubelet newer than every server">> :
            n \in {x \in Listed(d) : Ahead(x)}}
           \cup {<<n, "kubelet too old">> :
                   n \in {x \in Listed(d) : \E k \in KubeletOf(d, x), a \in Answers(d) : a - k > 3}}

Target(d, p) == {m \in Minor : Has(d, "plans", p, "targets " \o ToString(m))}

PlanChecks(d) ==
    LET plans == With(d, "plans", "exists")
        Skips(p) == {n \in Pending(d, p) : \E t \in Target(d, p), k \in KubeletOf(d, n) : t - k > 1}
        Older(p) == {n \in Pending(d, p) : \E t \in Target(d, p), k \in KubeletOf(d, n) : t < k}
        Undone(p) == {n \in Done(d, p) : Target(d, p) \cap KubeletOf(d, n) = {}}
        Waits(p) == {n \in Pending(d, p) \ PlanJobs(d, p) : Target(d, p) \cap KubeletOf(d, n) = {}}
    IN Of(d, "plans", {"cannot resolve its version", "rejected"})
           \cup {<<p, IF \E n \in Skips(p) : Server(d, n) THEN "server skips a minor version"
                      ELSE "agent skips a minor version">> : p \in {q \in plans : Skips(q) # {}}}
           \cup {<<p, "downgrade">> : p \in {q \in plans : Older(q) # {}}}
           \cup {x \in plans \X {"upgrade failed", "upgrade cannot start", "upgrade stuck"} :
                    \E n \in PlanJobs(d, x[1]) : JobProblem(d, x[1], n) = x[2]}
           \cup {<<p, "marked upgraded but is not">> : p \in {q \in plans : Undone(q) # {}}}
           \cup {<<p, "no upgrade job">> :
                   p \in {q \in plans : Waits(q) # {} /\ ~Has(d, "plans", q, "applying") /\ Has(d, "plans", q, "old")}}
           \cup When(/\ \E p \in plans : Pending(d, p) # {}
                     /\ Some(d, "deployments", "upgrade controller not ready"),
                     <<"system-upgrade-controller", "not ready, nodes wait">>)

\* Rancher's provisioned clusters: the machines, and what the agent made of the plan
\* in the machine's secret (parseMachinePlan).
Machines(d) ==
    LET machines == With(d, "machines", "exists") IN
    Of(d, "provisioned", {"not ready"}) \cup Of(d, "control planes", {"control plane failed", "rollout"})
        \cup Of(d, "machines", {"machine failed", "machine behind"})
        \cup {<<m, PlanState(d, m)>> : m \in {x \in machines : PlanState(d, x) # "in sync"}}
        \cup {<<m, "probes fail">> : m \in machines \cap With(d, "machine plans", "probes fail")}
        \cup When(Some(d, "provisioned", "exists") /\ "machine plans" \in d.refused,
                  <<"rancher", "machine plans unknown">>)

Upgrade(d) == Skew(d) \cup PlanChecks(d) \cup Machines(d)

=============================================================================
