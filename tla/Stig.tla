-------------------------------- MODULE Stig --------------------------------
(***************************************************************************)
(* stig.Evaluate: the status of each hardening rule, from what was         *)
(* collected (package stig, with k8s/rancher.go and nodeinfo/psa.go).      *)
(*                                                                         *)
(* The data are those of module Checks.  A fact named by a rule says that  *)
(* what the rule reads of that object is as the rule asks; "wrong R" that  *)
(* it is not, and "file of R" that there is something to judge.  A result  *)
(* is <<rule, status>>; texts, targets and categories are left out.        *)
(***************************************************************************)
EXTENDS Checks

-----------------------------------------------------------------------------
(* From the nodes' statuses to the rule's                                  *)

\* The worst of the statuses that were found; when there is no other, "NA".
Worst(said) ==
    IF "Fail" \in said THEN "Fail"
    ELSE IF "Unknown" \in said THEN "Unknown"
    ELSE IF "Manual" \in said THEN "Manual"
    ELSE IF "Pass" \in said THEN "Pass" ELSE "NA"

\* evaluator.perNode, of what is said of each node: one that was not evaluated keeps the rule from passing.
PerNode(says) == IF DOMAIN says = {} THEN "Unknown" ELSE Worst({says[n] : n \in DOMAIN says})

\* As the rule asks, or it fails: the judgement of a flag, a key, a mode.
Judge(c) == IF c THEN "Pass" ELSE "Fail"

\* rke2Alias, byID: a row that follows others.  One of them is missing: not evaluated.
Row(rs, r) == {x[2] : x \in {y \in rs : y[1] = r}}
Alias(rs, rule, sources) ==
    <<rule, IF \E s \in sources : Row(rs, s) = {} THEN "Unknown" ELSE Worst(UNION {Row(rs, s) : s \in sources})>>

-----------------------------------------------------------------------------
(* The components' flags, by their mirror pods                             *)

\* ComponentArgs: the nodes a component's pod of which was listed.
Args(d, c) == With(d, "pods", c)
Flags(d, c, rules) == {<<r, PerNode([n \in Args(d, c) |-> Judge(Has(d, "pods", n, r))])>> : r \in rules}

APIServerFlags ==
    {"V-242390", "V-242382", "V-242378", "V-242418", "V-242402", "V-242461", "V-242464", "V-242463", "V-242462",
     "V-242436", "V-254800", "V-242438", "V-245543", "V-242389", "V-242400"}
ManagerFlags == {"V-242381", "V-242385", "V-242376", "V-242409"}
SchedulerFlags == {"V-242384", "V-242377"}
APIServerFlagsOfCIS == {"CIS-1.2.14", "CIS-1.2.15", "CIS-1.2.5", "CIS-1.2.21"}
ManagerFlagsOfCIS == {"CIS-1.3.5", "CIS-1.3.4"}
SchedulerFlagsOfCIS == {"CIS-1.4.1"}

\* encryptionAtRest: the flag proves nothing; the providers' order, and a secret
\* sampled from etcd, by any probe.
Encryption(d) ==
    LET Seen(w) == Some(d, "exec", w) \/ Some(d, "etcd", w) IN
    IF Seen("identity first") \/ Seen("secrets not encrypted") \/ Seen("sample in plaintext") THEN "Fail"
    ELSE IF Seen("sample encrypted") THEN "Pass" ELSE "Manual"

SecretsAtRest(d) ==
    <<"V-274882", PerNode([n \in Args(d, "kube-apiserver") |->
                          IF Has(d, "pods", n, "V-274882") THEN Encryption(d) ELSE "Fail"])>>

\* etcdRules: the generated configuration that the node's probe read, else the pod's
\* flags.  The configuration is searched for the key, whichever section it stands in.
EtcdRules(d) ==
    LET configs == With(d, "etcd", "etcd config")
        nodes == With(d, "pods", "etcd args") \cup configs
        Set(n, k, sections) == \E s \in sections : Has(d, "etcd", n, s \o " " \o k)
        Both == {"client", "peer"}
        Asked(n, s, k) == IF n \in configs THEN Set(n, k, Both) ELSE Has(d, "pods", n, s \o " " \o k)
        \* An absent boolean is false.
        Off(n, s) == IF n \in configs
                     THEN Set(n, "auto-tls false", Both) \/ ~Set(n, "auto-tls true", Both)
                     ELSE ~Has(d, "pods", n, s \o " auto-tls true")
    IN {<<"V-242423", PerNode([n \in nodes |-> Judge(Asked(n, "client", "cert-auth"))])>>,
        <<"V-242426", PerNode([n \in nodes |-> Judge(Asked(n, "peer", "cert-auth"))])>>,
        <<"V-242379", PerNode([n \in nodes |-> Judge(Off(n, "client"))])>>,
        <<"V-242380", PerNode([n \in nodes |-> Judge(Off(n, "peer"))])>>}

ControlPlaneRules(d) ==
    Flags(d, "kube-apiserver", APIServerFlags) \cup {SecretsAtRest(d)}
        \cup Flags(d, "kube-controller-manager", ManagerFlags) \cup Flags(d, "kube-scheduler", SchedulerFlags)
        \cup EtcdRules(d)

-----------------------------------------------------------------------------
(* The kubelets' running configuration (configz), and their flags          *)

KubeletNodes(d) == With(d, "configz", "answered")
KubeletKeys == {"V-242391", "V-242392", "V-242387", "V-245541", "V-242434", "V-242420"}
KubeletKeysOfCIS == {"CIS-4.2.6", "CIS-4.2.8", "CIS-4.2.12", "CIS-4.2.10"}
Keys(d, rules) == {<<r, PerNode([n \in KubeletNodes(d) |-> Judge(Has(d, "configz", n, r))])>> : r \in rules}

KubeletRules(d) ==
    LET flagged == With(d, "probe", "kubelet flags")
        Override(n) == IF Has(d, "probe", n, "rke2") THEN "NA" ELSE Judge(~Has(d, "probe", n, "hostname-override"))
    IN Keys(d, KubeletKeys)
           \cup {<<"V-242425", PerNode([n \in KubeletNodes(d) |->
                                       IF Has(d, "configz", n, "V-242425") THEN "Pass" ELSE "Manual"])>>}
           \cup When(flagged # {}, <<"V-242404", PerNode([n \in flagged |-> Override(n)])>>)

-----------------------------------------------------------------------------
(* The nodes' files and settings (nodeRules, cisNodeRules, rke2Rules)      *)

\* Nothing found: not applicable.  Something wrong: fails.
File(d, r, n) ==
    IF ~Has(d, "config", n, "file of " \o r) THEN "NA" ELSE Judge(~Has(d, "config", n, "wrong " \o r))
\* What was not read passes.
Unless(d, l, r, n) == Judge(~Has(d, l, n, "wrong " \o r))

NodeRules(d) ==
    LET OfNode(r, says) == <<r, PerNode(says)>>
        Each(r) == [n \in Hosts(d) |-> File(d, r, n)]
        Unset(r) == [n \in Hosts(d) |-> Unless(d, "config", r, n)]
    IN {OfNode(r, Each(r)) : r \in {"V-242408", "V-242466", "V-242467", "V-242456", "CIS-1.1.9"}}
           \cup {OfNode(r, Unset(r)) : r \in {"V-242460", "CIS-sysctl"}}
           \cup {OfNode("V-242445", [n \in Hosts(d) |-> IF Has(d, "probe", n, "control plane")
                                                        THEN File(d, "V-242445", n) ELSE "NA"]),
                 OfNode("CIS-swap", [n \in Hosts(d) |-> Judge(~Has(d, "probe", n, "swap on"))])}

\* On a cluster of another distribution these are left out.
RKE2NodeRules(d) ==
    LET nodes == {n \in Hosts(d) : Has(d, "probe", n, "rke2")}
        OfNode(r, says) == <<r, PerNode(says)>>
        EtcdUser(n) == IF ~Has(d, "probe", n, "control plane") THEN "NA" ELSE Judge(Has(d, "probe", n, "etcd user"))
        SELinuxOf(n) == IF Has(d, "probe", n, "SELinux enforcing") THEN "Pass"
                        ELSE IF Has(d, "probe", n, "SELinux permissive") THEN "Fail" ELSE "Manual"
    IN IF nodes = {} THEN {}
       ELSE {OfNode("V-254555", [n \in nodes |-> Judge(Has(d, "config", n, "profile cis"))]),
             OfNode("RKE2-etcd-user", [n \in nodes |-> EtcdUser(n)]),
             OfNode("V-254564", [n \in nodes |-> Unless(d, "config", "V-254564", n)]),
             OfNode("RKE2-selinux", [n \in nodes |-> SELinuxOf(n)])}

-----------------------------------------------------------------------------
(* The cluster                                                             *)

\* EffectivePSA: the admission file an apiserver names, among those the config tier
\* read on its node; else the only one there is.  <<node, file>>, or nothing.
PSAFile == {"A", "B"}
PSA(d) ==
    LET files == {x \in Hosts(d) \X PSAFile : Has(d, "config", x[1], "PSA file " \o x[2])}
        named == {x \in files : Has(d, "pods", x[1], "apiserver names " \o x[2])}
    IN IF named # {} THEN {CHOOSE x \in named : TRUE}
       ELSE IF Cardinality({x[2] : x \in files}) = 1 THEN {CHOOSE x \in files : TRUE} ELSE {}
PSANamed(d) == \E n \in Args(d, "kube-apiserver") : \E f \in PSAFile : Has(d, "pods", n, "apiserver names " \o f)
PSASays(d, w) == \E x \in PSA(d) : Has(d, "config", x[1], w \o " " \o x[2])

Namespaces(d) ==
    LET bare == {n \in With(d, "namespaces", "user namespace") : ~Has(d, "namespaces", n, "enforce label")}
        mild == PSASays(d, "restricted") \/ PSASays(d, "baseline")
    IN {<<"V-254800-ns",
          IF bare = {} THEN "Pass"
          ELSE IF PSASays(d, "external") THEN "Manual"
          ELSE IF PSA(d) # {} THEN Judge(mild)
          ELSE IF PSANamed(d) THEN "Manual" ELSE "Fail">>}
           \cup When(PSA(d) # {},
                     <<"V-254800-exempt", IF PSASays(d, "exempts a user namespace in") THEN "Fail"
                                          ELSE IF PSASays(d, "exempts users in") THEN "Manual" ELSE "Pass">>)

\* An object found decides; from a list that is not there nothing is found.
ClusterRules(d) ==
    LET Found(l, r, status) == <<r, IF Some(d, l, r \o " found") THEN status ELSE "Pass">> IN
    {Found("pods", "V-242383", "Fail"), Found("deployments", "V-242395", "Fail"), Found("pods", "V-242415", "Manual"),
     <<"V-242443", "Manual">>}
        \cup Namespaces(d)

CISClusterRules(d) ==
    LET Found(l, r, status) == <<r, IF Some(d, l, r \o " found") THEN status ELSE "Pass">>
        uncovered == With(d, "namespaces", "user namespace") \ With(d, "networkpolicies", "covers the namespace")
    IN {Found("clusterrolebindings", "CIS-5.1.1", "Manual"), Found("pods", "CIS-5.2.2", "Fail"),
        Found("pods", "CIS-5.2.3", "Fail"), Found("pods", "CIS-5.1.6", "Manual"),
        <<"CIS-5.3.2", IF uncovered # {} THEN "Manual" ELSE "Pass">>}

CISRules(d) ==
    Flags(d, "kube-apiserver", APIServerFlagsOfCIS) \cup Flags(d, "kube-controller-manager", ManagerFlagsOfCIS)
        \cup Flags(d, "kube-scheduler", SchedulerFlagsOfCIS) \cup Keys(d, KubeletKeysOfCIS) \cup CISClusterRules(d)

-----------------------------------------------------------------------------
(* The RKE2 STIG: rows that restate others, and rows of its own            *)

RKE2Aliases ==
    {<<"V-254554", {"V-242381"}>>, <<"V-254556", {"V-242385"}>>, <<"V-254557", {"V-242391"}>>,
     <<"V-254559", {"V-242387"}>>, <<"V-254561", {"V-242392"}>>, <<"V-254562", {"V-242390"}>>,
     <<"V-254563", {"V-242464"}>>, <<"V-254569", {"V-242434"}>>, <<"V-254572", {"V-242382"}>>,
     <<"V-254553", {"V-242378", "V-242418", "V-242376", "RKE2-cm-ciphers", "V-242377", "RKE2-sched-ciphers"}>>}

\* The node's rule about the profile is renamed, and joins the STIG's own row.
Renamed(rs) == {IF x[1] = "V-254555" THEN <<"RKE2-profile", x[2]>> ELSE x : x \in rs}
ProfileRow(rs) ==
    Alias(rs, "V-254555", {"V-242461", "RKE2-audit-log-mode"}
                              \cup IF Row(rs, "RKE2-profile") # {} THEN {"RKE2-profile"} ELSE {})

\* No file was read: because no node could be asked, or because there is none.
AdmissionDefaults(d) ==
    <<"V-254571",
      IF PSA(d) = {} /\ Hosts(d) = {} THEN "Unknown"
      ELSE IF PSA(d) = {} THEN IF PSANamed(d) THEN "Manual" ELSE "Fail"
      ELSE IF PSASays(d, "external") THEN "Manual" ELSE Judge(PSASays(d, "restricted"))>>

OneVersion(d) == <<"V-254574", Judge(~(Some(d, "pods", "runs image:1") /\ Some(d, "pods", "runs image:2")))>>

RKE2Flags(d) ==
    Flags(d, "kube-controller-manager", {"RKE2-cm-ciphers"}) \cup Flags(d, "kube-scheduler", {"RKE2-sched-ciphers"})
        \cup Flags(d, "kube-apiserver", {"RKE2-audit-log-mode"})

RKE2Own(d) ==
    LET Found(ls, r) == <<r, Judge(~\E l \in ls : Some(d, l, r \o " found"))>>
        Idle(n) == IF Has(d, "configz", n, "idle not a duration") THEN "Manual" ELSE Judge(Has(d, "configz", n, "V-254568"))
    IN {<<"V-254565", IF \E n \in Hosts(d) : Has(d, "probe", n, "rke2") THEN "Manual" ELSE "Unknown">>,
        <<"V-254566", IF Some(d, "pods", "insecure port") THEN "Fail" ELSE "Manual">>,
        Found({"pods", "cronjobs"}, "V-254567"), <<"V-254568", PerNode([n \in KubeletNodes(d) |-> Idle(n)])>>,
        Found({"pods", "deployments"}, "V-254570"), AdmissionDefaults(d), OneVersion(d),
        <<"V-254575", "Manual">>, <<"V-268321", "Manual">>}

RKE2Rules(d, evaluated) ==
    LET rows == Renamed(evaluated) \cup RKE2Flags(d)
        aliases == {Alias(rows, a[1], a[2]) : a \in RKE2Aliases}
    IN IF ~Some(d, "nodes", "rke2") THEN evaluated
       ELSE rows \cup aliases \cup {ProfileRow(rows)} \cup RKE2Own(d)

-----------------------------------------------------------------------------
(* The cluster that runs Rancher (rancherManagement, rancherRules)         *)

\* MgmtErr: what failed first.  A list that failed after it is an empty one.
ManagementCalls == <<"rancher ingress", "authconfigs", "globalroles", "globalrolebindings", "users">>
MgmtErr(d) == SelectSeq(ManagementCalls, LAMBDA c : c \notin d.read)

\* The new users' roles, and the local accounts, with who of them is an administrator.
LocalAccounts(d) ==
    LET local == With(d, "users", "local")
        roles == With(d, "globalroles", "default")
    IN {<<"V-252845", IF "globalroles" \notin d.read THEN "Unknown"
                      ELSE IF "user" \in roles \/ "user-base" \notin roles THEN "Fail"
                      ELSE IF roles # {"user-base"} THEN "Manual" ELSE "Pass">>,
        <<"V-252847", IF "users" \notin d.read THEN "Unknown"
                      ELSE Judge(/\ Cardinality(local) = 1
                                 /\ \A u \in local : /\ Has(d, "globalrolebindings", u, "admin")
                                                     /\ Has(d, "users", u, "enabled"))>>}

\* The way in: the ingress and the policy of Rancher's pods, then the release's values.
RancherAccess(d) ==
    {<<"V-252849", Judge(/\ Has(d, "rancher ingress", "rancher", "port 443")
                         /\ Has(d, "networkpolicies", "rancher", "444 only"))>>,
     <<"V-257292", IF ~Has(d, "helm charts", "rancher", "release") THEN "Unknown"
                   ELSE Judge(Has(d, "helm charts", "rancher", "privateCA and secret"))>>}

RancherRules(d) ==
    IF ~RunsRancher(d) THEN {}
    ELSE LocalAccounts(d) \cup RancherAccess(d)
             \cup {<<"V-252843", IF Some(d, "authconfigs", "enabled") THEN "Pass"
                                 ELSE IF MgmtErr(d) # <<>> /\ Head(MgmtErr(d)) = "authconfigs" THEN "Unknown" ELSE "Fail">>,
                   <<"V-252844", IF ~Has(d, "deployments", "rancher", "exists") THEN "Unknown"
                                 ELSE Judge(Has(d, "deployments", "rancher", "AUDIT_LEVEL 2"))>>,
                   <<"V-252846", "Manual">>}

=============================================================================
