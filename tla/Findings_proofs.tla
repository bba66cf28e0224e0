--------------------------- MODULE Findings_proofs ---------------------------
(***************************************************************************)
(* Theorems about Findings, for any scenes and benchmarks: its types; that *)
(* the rules of a node that could not be scanned do not pass by what the   *)
(* other nodes say; and that the checks which guess nothing claim nothing  *)
(* that was not so when it was read.                                       *)
(*                                                                         *)
(* The second follows the rows of the rules from the node to the report:   *)
(* the node is in the group of its release, or in the only one there is,   *)
(* or is reported as not scanned; in the group it is "Unknown" of every    *)
(* rule, and perNode does not pass a rule over that; and what the RKE2     *)
(* STIG renames and adds afterwards are rules of khealth's own.            *)
(*                                                                         *)
(* The third compares what is at hand with a whole world.  They agree on   *)
(* each list of the refresh, unless it was not read, and on each tier of a *)
(* node, each at a moment of its own; and a check of these reads either    *)
(* one tier of one node, or lists so that a missing one only takes away.   *)
(***************************************************************************)
EXTENDS Findings, TLAPS, FiniteSetTheorems

-----------------------------------------------------------------------------
(* The types *)

LEMMA FollowersAreLists ==
    ASSUME NEW missing \in SUBSET (Required \cup Optional), NEW refused
    PROVE  Unread(missing, refused) \subseteq Required \cup Optional
<1>1. \A f \in Follows : f[1] \in Optional
  <2>1. LonghornLists \cup ProtectLists \cup ManagementLists \subseteq Optional
    BY DEF LonghornLists, ProtectLists, ManagementLists, Optional
  <2>2. CephLists \cup ProvisionedLists \cup {"snapshots", "snapshot contents", "volume stats", "configz"} \subseteq Optional
    BY DEF CephLists, ProvisionedLists, Optional
  <2>3. \A f \in Follows : \/ f[1] \in LonghornLists \cup ProtectLists \cup ManagementLists
                          \/ f[1] \in CephLists \cup ProvisionedLists
                          \/ f[1] \in {"snapshots", "snapshot contents", "volume stats", "configz"}
    BY DEF Follows
  <2> QED BY <2>1, <2>2, <2>3
<1>2. TridentLists \subseteq Optional
  BY DEF TridentLists, Optional
<1> QED BY <1>1, <1>2 DEF Unread

LEMMA InitTyped == FindingsInit => TypeOK
<1> SUFFICES ASSUME FindingsInit PROVE TypeOK
  OBVIOUS
<1>1. scene \in DOMAIN Scenes /\ world \in DOMAIN Scenes[scene].worlds /\ world = 1
  BY ScenesAssumption DEF FindingsInit
<1> QED BY <1>1 DEF FindingsInit, TypeOK, Probes, Tiers

LEMMA SnapshotTyped == ASSUME TypeOK, SnapshotMsg PROVE TypeOK'
<1>1. scene' = scene /\ world' = world /\ UNCHANGED <<seen, lost, etcdctl>>
  BY DEF SnapshotMsg
<1>2. world \in Nat \ {0}
  BY ScenesAssumption DEF TypeOK
<1>3. PICK failed \in SUBSET Lists, denied \in SUBSET Lists, fresh \in SUBSET Kept : lists' = Refreshed(failed, denied, fresh)
  BY DEF SnapshotMsg
<1>4. Unread(failed, denied) \subseteq Required \cup Optional
  BY FollowersAreLists DEF Lists
<1>5. /\ lists'.at = world /\ lists'.refused = denied
      /\ lists'.missing \subseteq Required \cup Optional
      /\ lists'.kept \in [Kept -> 0..world]
  BY <1>2, <1>3, <1>4 DEF TypeOK, Refreshed
<1> QED BY <1>1, <1>2, <1>3, <1>5 DEF TypeOK, Lists

LEMMA NextTyped == ASSUME TypeOK, [Next]_findingVars PROVE TypeOK'
<1>0. world \in Nat \ {0} /\ Len(Scenes[scene].worlds) \in Nat /\ DOMAIN Scenes[scene].worlds = 1..Len(Scenes[scene].worlds)
  BY ScenesAssumption DEF TypeOK
<1>1. CASE Happen
  BY <1>0, <1>1 DEF Happen, TypeOK, Lists
<1>2. CASE SnapshotMsg
  BY <1>2, SnapshotTyped
<1>3. CASE EtcdExecMsg
  BY <1>0, <1>3 DEF EtcdExecMsg, TypeOK, Lists
<1>4. ASSUME NEW n \in Node, NodeMsg(n) \/ EtcdMsg(n) \/ ScanMsg(n) PROVE TypeOK'
  <2>1. UNCHANGED <<scene, world, lists, etcdctl>>
    BY <1>4 DEF NodeMsg, EtcdMsg, ScanMsg
  <2>2. lost' \subseteq lost \cup {<<"probe", n>>, <<"etcd", n>>, <<"stig", n>>}
    BY <1>4 DEF NodeMsg, EtcdMsg, ScanMsg
  <2>3. seen' \in [Probes -> [Node -> 0..world]]
    <3>1. seen \in [Probes -> [Node -> 0..world]] /\ world \in 0..world
      BY <1>0 DEF TypeOK
    <3>2. CASE NodeMsg(n)
      <4>1. seen' = seen \/ \E tiers : seen' = [p \in Probes |-> IF p \in tiers \cup {"probe"} THEN [seen[p] EXCEPT ![n] = world] ELSE seen[p]]
        BY <3>2 DEF NodeMsg
      <4> QED BY <3>1, <4>1
    <3>3. CASE EtcdMsg(n)
      BY <3>1, <3>3 DEF EtcdMsg
    <3>4. CASE ScanMsg(n)
      BY <3>1, <3>4 DEF ScanMsg
    <3> QED BY <1>4, <3>2, <3>3, <3>4
  <2> QED BY <2>1, <2>2, <2>3 DEF TypeOK, Lists
<1>5. CASE UNCHANGED findingVars
  BY <1>5 DEF findingVars, TypeOK, Lists
<1> QED BY <1>1, <1>2, <1>3, <1>4, <1>5 DEF Next

\* What is kept of a list or a probe is of a moment that has been (recompute's
\* input: snapshot, nodes, etcd answers and scans).
THEOREM FindingsTyped == Spec => []TypeOK
<1> QED BY InitTyped, NextTyped, PTL DEF Spec

-----------------------------------------------------------------------------
(* The rules that khealth has of its own, benchmark or not *)

OwnOfControlPlane == APIServerFlags \cup ManagerFlags \cup SchedulerFlags
                         \cup {"V-274882", "V-242423", "V-242426", "V-242379", "V-242380"}
OwnOfKubelet == KubeletKeys \cup {"V-242425", "V-242404"}
OwnOfNodes == {"V-242408", "V-242466", "V-242467", "V-242456", "CIS-1.1.9", "V-242445", "V-242460", "CIS-sysctl", "CIS-swap",
               "V-254555", "RKE2-etcd-user", "V-254564", "RKE2-selinux", "node"}
OwnOfCluster == {"V-242383", "V-242395", "V-242415", "V-242443", "V-254800-ns", "V-254800-exempt"}
OwnOfCIS == APIServerFlagsOfCIS \cup ManagerFlagsOfCIS \cup SchedulerFlagsOfCIS \cup KubeletKeysOfCIS
                \cup {"CIS-5.1.1", "CIS-5.2.2", "CIS-5.2.3", "CIS-5.1.6", "CIS-5.3.2"}
OwnOfRKE2 == {a[1] : a \in RKE2Aliases}
                 \cup {"RKE2-profile", "RKE2-cm-ciphers", "RKE2-sched-ciphers", "RKE2-audit-log-mode", "V-254555", "V-254565",
                       "V-254566", "V-254567", "V-254568", "V-254570", "V-254571", "V-254574", "V-254575", "V-268321"}
OwnOfRancher == {"V-252843", "V-252844", "V-252845", "V-252846", "V-252847", "V-252849", "V-257292"}
OwnOfOS == {"OS-" \o k : k \in OSKeys} \cup {"OS-scan"}

OwnRules == UNION {OwnOfControlPlane, OwnOfKubelet, OwnOfNodes, OwnOfCluster, OwnOfCIS, OwnOfRKE2, OwnOfRancher, OwnOfOS}

LEMMA First == \A a, b : <<a, b>>[1] = a
OBVIOUS

LEMMA FlagRows == \A d, c, rules : \A x \in Flags(d, c, rules) : x[1] \in rules
BY First, Zenon DEF Flags

LEMMA KeyRows == \A d, rules : \A x \in Keys(d, rules) : x[1] \in rules
BY First, Zenon DEF Keys

LEMMA ControlPlaneRows == \A d : \A x \in ControlPlaneRules(d) : x[1] \in OwnOfControlPlane
<1> TAKE d
<1>1. SecretsAtRest(d)[1] = "V-274882"
  BY First, Zenon DEF SecretsAtRest
<1>2. \A x \in EtcdRules(d) : x[1] \in {"V-242423", "V-242426", "V-242379", "V-242380"}
  BY First, Zenon DEF EtcdRules
<1> QED BY <1>1, <1>2, FlagRows, First, Zenon DEF ControlPlaneRules, OwnOfControlPlane

LEMMA KubeletRows == \A d : \A x \in KubeletRules(d) : x[1] \in OwnOfKubelet
BY KeyRows, First, Zenon DEF KubeletRules, When, OwnOfKubelet

LEMMA NodeRows == \A d : \A x \in NodeRules(d) \cup RKE2NodeRules(d) : x[1] \in OwnOfNodes
<1> TAKE d
<1>1. \A x \in NodeRules(d) : x[1] \in OwnOfNodes
  <2>1. \A x \in NodeRules(d) :
           \E s : \/ \E r \in {"V-242408", "V-242466", "V-242467", "V-242456", "CIS-1.1.9", "V-242460", "CIS-sysctl"} :
                         x = <<r, s>>
                  \/ x \in {<<"V-242445", s>>, <<"CIS-swap", s>>}
    BY Zenon DEF NodeRules
  <2> QED BY <2>1, First DEF OwnOfNodes
<1>2. \A x \in RKE2NodeRules(d) : x[1] \in OwnOfNodes
  <2>1. \A x \in RKE2NodeRules(d) :
           \E s : x \in {<<"V-254555", s>>, <<"RKE2-etcd-user", s>>, <<"V-254564", s>>, <<"RKE2-selinux", s>>}
    BY Zenon DEF RKE2NodeRules
  <2> QED BY <2>1, First DEF OwnOfNodes
<1> QED BY <1>1, <1>2

LEMMA ClusterRows == \A d : \A x \in ClusterRules(d) : x[1] \in OwnOfCluster
<1> TAKE d
<1>1. \A x \in Namespaces(d) : x[1] \in {"V-254800-ns", "V-254800-exempt"}
  BY First, Zenon DEF Namespaces, When
<1>2. \A x \in ClusterRules(d) :
         x \in Namespaces(d) \/ \E s : x \in {<<"V-242383", s>>, <<"V-242395", s>>, <<"V-242415", s>>, <<"V-242443", s>>}
  BY Zenon DEF ClusterRules
<1> QED BY <1>1, <1>2, First DEF OwnOfCluster

LEMMA CISRows == \A d : \A x \in CISRules(d) : x[1] \in OwnOfCIS
<1> TAKE d
<1>1. \A x \in CISClusterRules(d) : x[1] \in {"CIS-5.1.1", "CIS-5.2.2", "CIS-5.2.3", "CIS-5.1.6", "CIS-5.3.2"}
  <2>1. \A x \in CISClusterRules(d) :
           \E s : x \in {<<"CIS-5.1.1", s>>, <<"CIS-5.2.2", s>>, <<"CIS-5.2.3", s>>, <<"CIS-5.1.6", s>>, <<"CIS-5.3.2", s>>}
    BY Zenon DEF CISClusterRules
  <2> QED BY <2>1, First
<1> QED BY <1>1, FlagRows, KeyRows, First, Zenon DEF CISRules, OwnOfCIS

LEMMA RancherRows == \A d : \A x \in RancherRules(d) : x[1] \in OwnOfRancher
<1> TAKE d
<1>1. \A x \in LocalAccounts(d) : x[1] \in {"V-252845", "V-252847"}
  BY First, Zenon DEF LocalAccounts
<1>2. \A x \in RancherAccess(d) : x[1] \in {"V-252849", "V-257292"}
  BY First, Zenon DEF RancherAccess
<1>3. \A x \in RancherRules(d) : x \in LocalAccounts(d) \cup RancherAccess(d) \/ \E s : x \in {<<"V-252843", s>>, <<"V-252844", s>>, <<"V-252846", s>>}
  BY Zenon DEF RancherRules
<1> QED BY <1>1, <1>2, <1>3, First DEF OwnOfRancher

\* The RKE2 STIG takes the rows over; what it renames and adds is khealth's own.
LEMMA RKE2Rows ==
    \A d, rows : /\ \A x \in RKE2Rules(d, rows) : x \in rows \/ x[1] \in OwnOfRKE2
                 /\ \A x \in rows : x[1] # "V-254555" => x \in RKE2Rules(d, rows)
<1> TAKE d, rows
<1>1. \A x \in Renamed(rows) : x \in rows \/ x[1] = "RKE2-profile"
  BY DEF Renamed
<1>2. \A x \in rows : x[1] # "V-254555" => x \in Renamed(rows)
  BY DEF Renamed
<1>3. \A rs, r, sources : Alias(rs, r, sources)[1] = r
  BY First, Zenon DEF Alias
<1>4. \A rs : ProfileRow(rs)[1] = "V-254555"
  BY <1>3 DEF ProfileRow
<1>5. AdmissionDefaults(d)[1] = "V-254571" /\ OneVersion(d)[1] = "V-254574"
  BY First, Zenon DEF AdmissionDefaults, OneVersion
<1>6. \A x \in RKE2Own(d) : x[1] \in OwnOfRKE2
  <2>1. \A x \in RKE2Own(d) :
           \/ (\E s : x = <<"V-254565", s>>) \/ (\E s : x = <<"V-254566", s>>) \/ (\E s : x = <<"V-254567", s>>)
           \/ (\E s : x = <<"V-254568", s>>) \/ (\E s : x = <<"V-254570", s>>) \/ (\E s : x = <<"V-254575", s>>)
           \/ (\E s : x = <<"V-268321", s>>)
           \/ x = AdmissionDefaults(d) \/ x = OneVersion(d)
    BY ZenonT(30) DEF RKE2Own
  <2> QED BY <1>5, <2>1, First DEF OwnOfRKE2
<1>7. \A x \in RKE2Rules(d, rows) : x \in rows \/ x[1] \in OwnOfRKE2
  <2>1. \A x \in RKE2Flags(d) : x[1] \in OwnOfRKE2
    BY FlagRows DEF RKE2Flags, OwnOfRKE2
  <2>2. \A x \in Renamed(rows) : x \in rows \/ x[1] \in OwnOfRKE2
    BY <1>1 DEF OwnOfRKE2
  <2>3. \A rs, a : a \in RKE2Aliases => Alias(rs, a[1], a[2])[1] \in OwnOfRKE2
    <3>1. \A a \in RKE2Aliases : a[1] \in OwnOfRKE2
      BY SMT DEF OwnOfRKE2
    <3> QED BY <1>3, <3>1
  <2>4. \A rs : ProfileRow(rs)[1] \in OwnOfRKE2
    BY <1>4 DEF OwnOfRKE2
  <2> QED BY <1>6, <2>1, <2>2, <2>3, <2>4 DEF RKE2Rules
<1>8. \A x \in rows : x[1] # "V-254555" => x \in RKE2Rules(d, rows)
  BY <1>2, Zenon DEF RKE2Rules
<1> QED BY <1>7, <1>8

-----------------------------------------------------------------------------
(* What is reported of a node that could not be scanned                    *)

\* The rules of the OS go into the report as they are, and what else goes into it is
\* khealth's own.
LEMMA Reported ==
    \A d : /\ \A x \in StigResults(d) : x \in OSRules(d) \/ x[1] \in OwnRules
          /\ \A x \in OSRules(d) : x[1] # "V-254555" => x \in StigResults(d)
<1> TAKE d
<1> DEFINE nodes == IF Hosts(d) = {} THEN {<<"node", "Unknown">>} ELSE NodeRules(d) \cup RKE2NodeRules(d)
           evaluated == ControlPlaneRules(d) \cup KubeletRules(d) \cup CISRules(d) \cup nodes \cup OSRules(d)
<1>1. StigResults(d) = RKE2Rules(d, evaluated) \cup ClusterRules(d) \cup RancherRules(d)
  BY DEF StigResults
<1>2. \A x \in nodes : x[1] \in OwnOfNodes
  BY NodeRows, First DEF OwnOfNodes
<1> HIDE DEF nodes
<1>3. \A x \in evaluated : x \in OSRules(d) \/ x[1] \in OwnRules
  BY <1>2, ControlPlaneRows, KubeletRows, CISRows DEF OwnRules
<1>4. OSRules(d) \subseteq evaluated
  OBVIOUS
<1> HIDE DEF evaluated
<1>5. \A x \in RKE2Rules(d, evaluated) : x \in OSRules(d) \/ x[1] \in OwnRules
  BY <1>3, RKE2Rows DEF OwnRules
<1>6. \A x \in ClusterRules(d) \cup RancherRules(d) : x[1] \in OwnRules
  BY ClusterRows, RancherRows DEF OwnRules
<1>7. \A x \in OSRules(d) : x[1] # "V-254555" => x \in RKE2Rules(d, evaluated)
  BY <1>4, RKE2Rows
<1> QED BY <1>1, <1>5, <1>6, <1>7

\* perNode: one node that is not known keeps the rule from passing.
LEMMA UnknownKeeps == \A says : (\E n \in DOMAIN says : says[n] = "Unknown") => PerNode(says) # "Pass"
<1> TAKE says
<1> SUFFICES ASSUME NEW n \in DOMAIN says, says[n] = "Unknown" PROVE PerNode(says) # "Pass"
  OBVIOUS
<1>1. "Unknown" \in {says[m] : m \in DOMAIN says}
  OBVIOUS
<1> QED BY <1>1 DEF PerNode, Worst

\* A group that has a node that was not scanned passes no rule of its benchmark.
LEMMA GroupKept ==
    ASSUME NEW d, NEW nodes, NEW benchmark, NEW n \in nodes, n \in Unscanned(d), benchmark # {}
    PROVE  \A x \in OSResults(d, nodes, benchmark) : x[2] # "Pass"
<1>1. n \notin Scanned(d)
  BY DEF Scanned, Unscanned
<1> DEFINE Says(rule) == [m \in nodes |-> IfScanned(d, m, RuleOf(d, m, rule))]
<1>2. \A rule : Says(rule)[n] = "Unknown" /\ n \in DOMAIN Says(rule)
  BY <1>1, Zenon DEF IfScanned
<1>3. \A rule : PerNode(Says(rule)) # "Pass"
  <2> HIDE DEF Says
  <2> QED BY <1>2, UnknownKeeps
<1>4. \A x \in OSResults(d, nodes, benchmark) : \E rule : x = <<rule.id, PerNode(Says(rule))>> \/ x = <<rule.id, "Manual">>
  BY Zenon DEF OSResults
<1> HIDE DEF Says
<1> QED BY <1>3, <1>4

\* A row of a group is of a rule of its benchmark; the generic checks are khealth's own.
LEMMA GroupRules ==
    \A d, nodes, benchmark : \A x \in OSResults(d, nodes, benchmark) :
        \/ benchmark = {} /\ x[1] \in OwnOfOS
        \/ benchmark # {} /\ \E b \in benchmark : \E rule \in Benchmarks[b] : x[1] = rule.id
<1> TAKE d, nodes, benchmark
<1>1. CASE benchmark = {}
  <2> SUFFICES ASSUME NEW x \in OSResults(d, nodes, benchmark) PROVE x[1] \in OwnOfOS
    BY <1>1
  <2>1. PICK k \in OSKeys : \E s : x = <<"OS-" \o k, s>>
    BY <1>1, Zenon DEF OSResults
  <2>2. x[1] = "OS-" \o k
    BY <2>1, First
  <2>3. "OS-" \o k \in OwnOfOS
    BY Zenon DEF OwnOfOS
  <2> QED BY <2>2, <2>3
<1>2. CASE benchmark # {}
  <2> SUFFICES ASSUME NEW x \in OSResults(d, nodes, benchmark)
               PROVE  \E b \in benchmark : \E rule \in Benchmarks[b] : x[1] = rule.id
    BY <1>2
  <2>1. PICK rule \in UNION {Benchmarks[b] : b \in benchmark} : \E s : x = <<rule.id, s>>
    BY <1>2, Zenon DEF OSResults
  <2>2. PICK b \in benchmark : rule \in Benchmarks[b]
    BY <2>1
  <2> QED BY <2>1, <2>2, First
<1> QED BY <1>1, <1>2

\* A node that was not scanned is in a group, that of its release or the only one, or is
\* reported.
LEMMA GroupOfUnscanned ==
    ASSUME NEW d, NEW n \in Unscanned(d), <<"OS-scan", "Unknown">> \notin OSRules(d), NEW b \in DOMAIN Groups(d),
           Benchmark(d, n) = b \/ n \in LostNodes(d)
    PROVE  n \in Groups(d)[b]
<1> DEFINE grouped == (Scanned(d) \cup Unscanned(d)) \ LostNodes(d)
           used == {Benchmark(d, m) : m \in grouped}
           joins == Cardinality(used) = 1 /\ {} \notin used
           Of1(c) == {m \in grouped : Benchmark(d, m) = c}
<1>1. Groups(d) = [c \in used |-> Of1(c) \cup IF joins THEN LostNodes(d) ELSE {}]
  BY DEF Groups
<1>2. b \in used
  BY <1>1
<1>3. Groups(d)[b] = Of1(b) \cup IF joins THEN LostNodes(d) ELSE {}
  BY <1>1, <1>2
<1>4. CASE n \notin LostNodes(d)
  BY <1>3, <1>4
<1>5. CASE n \in LostNodes(d)
  <2>1. PICK c \in DOMAIN Groups(d) : LostNodes(d) \subseteq Groups(d)[c]
    <3>1. OSRules(d) = (UNION {OSResults(d, Groups(d)[o], o) : o \in DOMAIN Groups(d)})
                           \cup When(LostNodes(d) # {} /\ ~\E o \in DOMAIN Groups(d) : LostNodes(d) \subseteq Groups(d)[o],
                                    <<"OS-scan", "Unknown">>)
      BY DEF OSRules
    <3>2. ~(LostNodes(d) # {} /\ ~\E o \in DOMAIN Groups(d) : LostNodes(d) \subseteq Groups(d)[o])
      BY <3>1 DEF When
    <3> QED BY <1>5, <3>2
  <2>2. Groups(d)[c] = Of1(c) \cup IF joins THEN LostNodes(d) ELSE {}
    BY <1>1
  <2>3. joins
    BY <1>5, <2>1, <2>2
  <2> QED BY <1>3, <1>5, <2>3
<1> QED BY <1>4, <1>5

-----------------------------------------------------------------------------
(* No rule passes over a node that was not scanned                         *)

\* The probe's facts at hand are facts of the cluster, all of one moment.
LEMMA ProbeFacts ==
    ASSUME TypeOK, NEW n \in Node, NEW w
    PROVE  /\ Has(AtHand, "probe", n, w) => <<"probe", n, w>> \in Worlds[scene]
           /\ Has(AtHand, "probe", n, w) => /\ seen["probe"][n] \in DOMAIN Scenes[scene].worlds
                                            /\ <<"probe", n, w>> \in Scenes[scene].worlds[seen["probe"][n]]
           /\ \A v : /\ Has(AtHand, "probe", n, w)
                     /\ <<"probe", n, v>> \in Scenes[scene].worlds[seen["probe"][n]]
                     => Has(AtHand, "probe", n, v)
<1> DEFINE m == seen["probe"][n]
           fact(v) == <<"probe", n, v>>
<1>0. m \in 0..world /\ world \in DOMAIN Scenes[scene].worlds /\ scene \in DOMAIN Scenes
  BY DEF TypeOK, Probes
<1>1. m > 0 => m \in DOMAIN Scenes[scene].worlds
  BY <1>0, ScenesAssumption
<1>2. Moment("probe", n) = m
  BY DEF Moment, Probes, Kept
<1>3. \A v : Moment(fact(v)[1], fact(v)[2]) = m
  BY <1>2
<1>4. \A v : fact(v) \in AtHand.facts <=> fact(v) \in Worlds[scene] /\ m > 0 /\ fact(v) \in Scenes[scene].worlds[m]
  <2>1. AtHand.facts = {f \in Worlds[scene] : Moment(f[1], f[2]) > 0 /\ f \in Scenes[scene].worlds[Moment(f[1], f[2])]}
    BY DEF AtHand
  <2> HIDE DEF m, fact
  <2> QED BY <1>3, <2>1
<1>5. \A v : m > 0 /\ fact(v) \in Scenes[scene].worlds[m] => fact(v) \in Worlds[scene]
  <2>1. Worlds[scene] = UNION {Scenes[scene].worlds[i] : i \in DOMAIN Scenes[scene].worlds}
    BY <1>0 DEF Worlds
  <2> QED BY <1>1, <2>1
<1>6. \A v : Has(AtHand, "probe", n, v) <=> Answered(AtHand, "probe", n) /\ fact(v) \in AtHand.facts
  BY Zenon DEF Has
<1> HIDE DEF m, fact
<1>7. /\ Has(AtHand, "probe", n, w) => fact(w) \in Worlds[scene] /\ m \in DOMAIN Scenes[scene].worlds /\ fact(w) \in Scenes[scene].worlds[m]
      /\ \A v : Has(AtHand, "probe", n, w) /\ fact(v) \in Scenes[scene].worlds[m] => Has(AtHand, "probe", n, v)
  BY <1>1, <1>4, <1>5, <1>6
<1> QED BY <1>7 DEF m, fact

\* What is known of a node's release is the one it has.
LEMMA KnownRelease ==
    ASSUME TypeOK, NEW n \in Node
    PROVE  /\ Benchmark(AtHand, n) \subseteq ReleasesOf(scene, n)
           /\ Has(AtHand, "probe", n, "OS known") => Benchmark(AtHand, n) = ReleasesOf(scene, n)
<1>0. scene \in DOMAIN Scenes
  BY DEF TypeOK
<1>1. \A b \in DOMAIN Benchmarks : Has(AtHand, "probe", n, b) => b \in ReleasesOf(scene, n)
  BY ProbeFacts DEF ReleasesOf
<1>2. ASSUME Has(AtHand, "probe", n, "OS known"), NEW b \in ReleasesOf(scene, n)
      PROVE  b \in DOMAIN Benchmarks /\ Has(AtHand, "probe", n, b)
  <2>1. b \in DOMAIN Benchmarks
    BY DEF ReleasesOf
  <2>2. <<"probe", n, b>> \in Scenes[scene].worlds[seen["probe"][n]]
    BY <1>0, <1>2, ProbeFacts, BenchmarksAssumption
  <2> QED BY <1>2, <2>1, <2>2, ProbeFacts
<1> QED BY <1>1, <1>2 DEF Benchmark

\* The nodes of a group's release are known by any of its rules.
LEMMA GroupOfRule ==
    ASSUME TypeOK, NEW n \in Node, NEW m \in Node, NEW b \in Benchmark(AtHand, m), NEW rule \in Benchmarks[b],
           rule.id \in RulesOf(n), Has(AtHand, "probe", n, "OS known")
    PROVE  Benchmark(AtHand, m) = Benchmark(AtHand, n)
<1>0. scene \in DOMAIN Scenes
  BY DEF TypeOK
<1>1. PICK c \in ReleasesOf(scene, n) : \E q \in Benchmarks[c] : q.id = rule.id
  BY DEF RulesOf
<1>2. b \in ReleasesOf(scene, m)
  BY KnownRelease
<1>3. b \in DOMAIN Benchmarks /\ c \in DOMAIN Benchmarks
  BY <1>1, <1>2 DEF ReleasesOf
<1>4. b = c
  BY <1>1, <1>3, BenchmarksAssumption
<1>5. ReleasesOf(scene, n) = {b} /\ ReleasesOf(scene, m) = {b}
  BY <1>0, <1>1, <1>2, <1>4, BenchmarksAssumption
<1> QED BY <1>5, KnownRelease

\* No identifier of a benchmark's rule is one of khealth's own: of the five DISA tables
\* that the code embeds this is so.
ForeignRules == \A b \in DOMAIN Benchmarks : \A rule \in Benchmarks[b] : rule.id \notin OwnRules

LEMMA NotPassed == ASSUME TypeOK, ForeignRules PROVE UnscannedIsNotPassed
<1> SUFFICES ASSUME NEW n \in Unscanned(AtHand), <<"OS-scan", "Unknown">> \notin StigResults(AtHand), NEW r \in RulesOf(n)
             PROVE  <<r, "Pass">> \notin StigResults(AtHand)
  BY DEF UnscannedIsNotPassed, KeptFromPassing
<1>1. SUFFICES ASSUME <<r, "Pass">> \in StigResults(AtHand) PROVE FALSE
  OBVIOUS
<1>2. /\ <<"OS-scan", "Unknown">> \notin OSRules(AtHand)
      /\ r \notin OwnRules
      /\ <<r, "Pass">> \in OSRules(AtHand)
  <2>1. r \notin OwnRules
    <3>1. PICK rule \in UNION {Benchmarks[b] : b \in ReleasesOf(scene, n)} : r = rule.id
      BY Zenon DEF RulesOf
    <3>2. PICK b \in ReleasesOf(scene, n) : rule \in Benchmarks[b]
      BY <3>1
    <3> QED BY <3>1, <3>2 DEF ReleasesOf, ForeignRules
  <2> QED BY <1>1, <2>1, Reported, First DEF OwnRules, OwnOfRKE2
<1>3. PICK b \in DOMAIN Groups(AtHand) : <<r, "Pass">> \in OSResults(AtHand, Groups(AtHand)[b], b)
  <2>1. <<r, "Pass">> # <<"OS-scan", "Unknown">>
    OBVIOUS
  <2> QED BY <1>2, <2>1 DEF OSRules, When
<1>4. \A m \in Scanned(AtHand) \cup Unscanned(AtHand) : m \in Node
  BY DEF Scanned, Unscanned, AtHand, Probes
<1>5. PICK m \in (Scanned(AtHand) \cup Unscanned(AtHand)) \ LostNodes(AtHand) : b = Benchmark(AtHand, m)
  BY Zenon DEF Groups
<1>6. b # {} /\ \E c \in b : \E rule \in Benchmarks[c] : r = rule.id
  BY <1>2, <1>3, GroupRules, First DEF OwnRules
<1>7. Benchmark(AtHand, n) = b \/ n \in LostNodes(AtHand)
  <2>1. CASE n \notin LostNodes(AtHand)
    <3>1. Has(AtHand, "probe", n, "OS known")
      BY <2>1 DEF LostNodes
    <3> QED BY <1>4, <1>5, <1>6, <3>1, GroupOfRule
  <2> QED BY <2>1
<1>8. n \in Groups(AtHand)[b]
  BY <1>2, <1>7, GroupOfUnscanned
<1>9. \A x \in OSResults(AtHand, Groups(AtHand)[b], b) : x[2] # "Pass"
  BY <1>6, <1>8, GroupKept
<1> QED BY <1>3, <1>9

\* A node the scan of which failed keeps every rule of its release from passing, or is
\* reported as not scanned (osRules, perNode).
THEOREM UnscannedNeverPasses == ASSUME ForeignRules PROVE Spec => []UnscannedIsNotPassed
<1>1. TypeOK => UnscannedIsNotPassed
  BY NotPassed
<1> QED BY <1>1, FindingsTyped, PTL

-----------------------------------------------------------------------------
(* The checks that guess nothing                                           *)

\* The checks of the lists: what each reads is of one refresh, and a list that is
\* missing leaves something out.
ListChecks(d) ==
    UNION {Pods(d), Workloads(d), DefaultClass(d), RancherAgents(d), Helm(d), Events(d), SystemServices(d), APIServices(d),
           Certificates(d), Budgets(d), IngressPolicy(d), OneNode(d), Skew(d), Ceph(d)}

\* The checks of the hosts: what each says of a node is read by one tier of its probe.
HostChecks(d) ==
    UNION {Services(d), Journal(d), KernelLog(d), Reach(d), CSIHost(d), Noexec(d), Accounts(d), Provisioning(d)}

\* What these checks say is true, or was when it was read, whichever lists and hosts are
\* missing, and however old what is at hand is.
PlainAreGrounded == lists.at > 0 => ListChecks(AtHand) \cup HostChecks(AtHand) \subseteq BeenTrue

-----------------------------------------------------------------------------
(* Two data that agree                                                     *)

\* On what a source says of an object.
AgreeOn(d, e, l, o) ==
    /\ Answered(d, l, o) /\ Answered(e, l, o)
    /\ \A f : f[1] = l /\ f[2] = o => (f \in d.facts <=> f \in e.facts)

\* On what a list says, or the first has not read it.
AgreeOrSilent(d, e, l) ==
    \/ \A o : AgreeOn(d, e, l, o)
    \/ \A o : ~Answered(d, l, o)

LEMMA AgreedReads ==
    ASSUME NEW d, NEW e, NEW l, NEW o, AgreeOn(d, e, l, o)
    PROVE  /\ \A w : Has(d, l, o, w) <=> Has(e, l, o, w)
           /\ \A w : o \in With(d, l, w) <=> o \in With(e, l, w)
           /\ \A S, w : <<o, w>> \in Of(d, l, S) <=> <<o, w>> \in Of(e, l, S)
<1>1. \A w : Has(d, l, o, w) <=> Has(e, l, o, w)
  <2>1. \A w : <<l, o, w>>[1] = l /\ <<l, o, w>>[2] = o
    OBVIOUS
  <2> QED BY <2>1, Zenon DEF AgreeOn, Has
<1>2. ASSUME NEW w PROVE o \in With(d, l, w) <=> o \in With(e, l, w)
  <2>1. o \in With(d, l, w) <=> \E f \in d.facts : f[1] = l /\ f[2] = o /\ f[3] = w
    BY Zenon DEF With, AgreeOn
  <2>2. o \in With(e, l, w) <=> \E f \in e.facts : f[1] = l /\ f[2] = o /\ f[3] = w
    BY Zenon DEF With, AgreeOn
  <2> QED BY <2>1, <2>2, Zenon DEF AgreeOn
<1>3. ASSUME NEW S, NEW w PROVE <<o, w>> \in Of(d, l, S) <=> <<o, w>> \in Of(e, l, S)
  <2>1. \A a, b : <<a, b>> = <<o, w>> <=> a = o /\ b = w
    OBVIOUS
  <2>2. <<o, w>> \in Of(d, l, S) <=> \E f \in d.facts : f[1] = l /\ f[2] = o /\ f[3] = w /\ w \in S
    BY <2>1, Zenon DEF Of, AgreeOn
  <2>3. <<o, w>> \in Of(e, l, S) <=> \E f \in e.facts : f[1] = l /\ f[2] = o /\ f[3] = w /\ w \in S
    BY <2>1, Zenon DEF Of, AgreeOn
  <2> QED BY <2>2, <2>3, Zenon DEF AgreeOn
<1> QED BY <1>1, <1>2, <1>3

\* What is said of an object by a source, that source answered.
LEMMA SaidIsAnswered ==
    \A d, l, o : /\ \A w : Has(d, l, o, w) => Answered(d, l, o)
                 /\ \A w : o \in With(d, l, w) => Answered(d, l, o)
                 /\ \A S : \A x \in Of(d, l, S) : x = <<x[1], x[2]>> /\ Answered(d, l, x[1])
<1> TAKE d, l, o
<1>1. \A w : Has(d, l, o, w) => Answered(d, l, o)
  BY Zenon DEF Has
<1>2. \A w : o \in With(d, l, w) => Answered(d, l, o)
  BY Zenon DEF With
<1>3. ASSUME NEW S, NEW x \in Of(d, l, S) PROVE x = <<x[1], x[2]>> /\ Answered(d, l, x[1])
  <2>1. PICK f : x = <<f[2], f[3]>> /\ Answered(d, l, f[2])
    BY Zenon DEF Of
  <2> QED BY <2>1
<1> QED BY <1>1, <1>2, <1>3

\* Of a list the two agree on, or the first has not read.
LEMMA ListReads ==
    ASSUME NEW d, NEW e, NEW l, AgreeOrSilent(d, e, l)
    PROVE  \/ /\ \A w : With(d, l, w) = With(e, l, w) /\ (Some(d, l, w) <=> Some(e, l, w))
              /\ \A w, o : Has(d, l, o, w) <=> Has(e, l, o, w)
              /\ \A S : Of(d, l, S) = Of(e, l, S)
           \/ /\ \A w : With(d, l, w) = {} /\ ~Some(d, l, w)
              /\ \A w, o : ~Has(d, l, o, w)
              /\ \A S : Of(d, l, S) = {}
<1>1. CASE \A o : AgreeOn(d, e, l, o)
  <2>0. \A f : f[1] = l => (f \in d.facts <=> f \in e.facts)
    BY <1>1, Zenon DEF AgreeOn
  <2>1. \A w, o : Has(d, l, o, w) <=> Has(e, l, o, w)
    BY <1>1, AgreedReads
  <2>2. ASSUME NEW w PROVE With(d, l, w) = With(e, l, w)
    <3>1. {g \in d.facts : g[1] = l /\ g[3] = w /\ Answered(d, l, g[2])} = {g \in e.facts : g[1] = l /\ g[3] = w /\ Answered(e, l, g[2])}
      BY <1>1, <2>0 DEF AgreeOn
    <3> QED BY <3>1 DEF With
  <2>3. ASSUME NEW S PROVE Of(d, l, S) = Of(e, l, S)
    <3>1. {g \in d.facts : g[1] = l /\ g[3] \in S /\ Answered(d, l, g[2])} = {g \in e.facts : g[1] = l /\ g[3] \in S /\ Answered(e, l, g[2])}
      BY <1>1, <2>0 DEF AgreeOn
    <3> QED BY <3>1 DEF Of
  <2>4. ASSUME NEW w PROVE Some(d, l, w) <=> Some(e, l, w)
    BY <1>1, <2>0, Zenon DEF AgreeOn, Some
  <2> QED BY <2>1, <2>2, <2>3, <2>4
<1>2. CASE \A o : ~Answered(d, l, o)
  BY <1>2, Zenon DEF Has, With, Some, Of
<1> QED BY <1>1, <1>2 DEF AgreeOrSilent

-----------------------------------------------------------------------------
(* The checks of the hosts: what is said of a node, one tier of it says    *)

LEMMA ItselfReads ==
    ASSUME NEW d, NEW e, NEW l \in Tiers, NEW fs, NEW x \in OfItself(d, l, fs)
    PROVE  Answered(d, l, x[1]) /\ (AgreeOn(d, e, l, x[1]) => x \in OfItself(e, l, fs))
<1>1. PICK n \in Hosts(d), w \in fs : x = <<n, w>> /\ Has(d, l, n, w)
  BY DEF OfItself
<1>2. Answered(d, l, n)
  BY <1>1, SaidIsAnswered
<1>3. ASSUME AgreeOn(d, e, l, n) PROVE x \in OfItself(e, l, fs)
  <2>1. Has(e, l, n, w)
    BY <1>1, <1>3, AgreedReads
  <2>2. n \in Hosts(e)
    BY <1>3 DEF AgreeOn, Answered, Hosts, Tiers
  <2> QED BY <1>1, <2>1, <2>2 DEF OfItself
<1> QED BY <1>1, <1>2, <1>3

\* A plan that failed, and was applied since, is so in one and the same journal.
LEMMA JournalReads ==
    ASSUME NEW d, NEW e, NEW x \in Journal(d) \cup KernelLog(d)
    PROVE  Answered(d, "logs", x[1]) /\ (AgreeOn(d, e, "logs", x[1]) => x \in Journal(e) \cup KernelLog(e))
<1>1. ASSUME NEW S, x \in Of(d, "logs", S), \A y \in Of(e, "logs", S) : y \in Journal(e) \cup KernelLog(e)
      PROVE  Answered(d, "logs", x[1]) /\ (AgreeOn(d, e, "logs", x[1]) => x \in Journal(e) \cup KernelLog(e))
  <2>1. x = <<x[1], x[2]>> /\ Answered(d, "logs", x[1])
    BY <1>1, SaidIsAnswered
  <2> QED BY <1>1, <2>1, AgreedReads
<1>2. CASE x \in Of(d, "logs", {"error lines", "warning lines", "plan applied", "plan probes fail"})
  BY <1>1, <1>2 DEF Journal
<1>3. CASE x \in KernelLog(d)
  BY <1>1, <1>3 DEF KernelLog
<1>4. ASSUME NEW n \in With(d, "logs", "plan failed"),
             x = <<n, IF Has(d, "logs", n, "plan applied since") THEN "plan failed once" ELSE "plan failed">>
      PROVE  Answered(d, "logs", x[1]) /\ (AgreeOn(d, e, "logs", x[1]) => x \in Journal(e) \cup KernelLog(e))
  <2>1. x[1] = n /\ Answered(d, "logs", n)
    BY <1>4, SaidIsAnswered
  <2>2. ASSUME AgreeOn(d, e, "logs", n) PROVE x \in Journal(e)
    <3>1. n \in With(e, "logs", "plan failed") /\ (Has(d, "logs", n, "plan applied since") <=> Has(e, "logs", n, "plan applied since"))
      BY <2>2, AgreedReads
    <3> QED BY <1>4, <3>1 DEF Journal
  <2> QED BY <2>1, <2>2
<1> QED BY <1>2, <1>3, <1>4 DEF Journal

\* What one node's probe of the others gives: which of its tries fail together.
LEMMA ReachReads ==
    ASSUME NEW d, NEW e, NEW x \in Reach(d)
    PROVE  Answered(d, "config", x[1]) /\ (AgreeOn(d, e, "config", x[1]) => x \in Reach(e))
<1>1. CASE x \in OfItself(d, "config", {"network probe skipped"})
  BY <1>1, ItselfReads DEF Reach, Tiers
<1> DEFINE Fails(a, n, k) == Has(a, "config", n, k \o " fails")
           Works(a, n, k) == Has(a, "config", n, k \o " works")
           Rows(a, n) ==
               {y \in {<<n, IF Works(a, n, "ping") \/ ~Has(a, "config", n, "several peers") THEN "path to a node broken"
                            ELSE "overlay of the node broken">>} : Fails(a, n, "ping")}
               \cup {y \in {<<n, IF Works(a, n, "dns pod") \/ Fails(a, n, "ping") THEN "a CoreDNS pod is silent"
                                 ELSE "CoreDNS is silent">>} : Fails(a, n, "dns pod")}
               \cup {y \in {<<n, IF Works(a, n, "dns pod") THEN "service routing broken" ELSE "DNS service silent">>} :
                        /\ Fails(a, n, "dns service")
                        /\ Works(a, n, "dns pod") \/ ~Fails(a, n, "dns pod")}
               \cup {y \in {<<n, IF Works(a, n, "dns service") THEN "apiserver unreachable" ELSE "kubernetes service unreachable">>} :
                        Fails(a, n, "tcp")}
<1>2. ASSUME NEW n \in Hosts(d), x \in Rows(d, n)
      PROVE  Answered(d, "config", x[1]) /\ (AgreeOn(d, e, "config", x[1]) => x \in Reach(e))
  <2>1. x[1] = n
    <3>1. \E v : x = <<n, v>>
      BY <1>2, Zenon
    <3> QED BY <3>1, First
  <2>2. Answered(d, "config", n)
    <3>1. Fails(d, n, "ping") \/ Fails(d, n, "dns pod") \/ Fails(d, n, "dns service") \/ Fails(d, n, "tcp")
      BY <1>2
    <3> QED BY <3>1, SaidIsAnswered
  <2>3. ASSUME AgreeOn(d, e, "config", n) PROVE x \in Reach(e)
    <3>1. n \in Hosts(e)
      BY <2>3 DEF AgreeOn, Answered, Hosts, Tiers
    <3>2. \A w : Has(d, "config", n, w) <=> Has(e, "config", n, w)
      BY <2>3, AgreedReads
    <3>3. x \in Rows(e, n)
      BY <1>2, <3>2
    <3> QED BY <3>1, <3>3 DEF Reach
  <2> QED BY <2>1, <2>2, <2>3
<1>3. x \in OfItself(d, "config", {"network probe skipped"}) \/ \E n \in Hosts(d) : x \in Rows(d, n)
  BY DEF Reach
<1> QED BY <1>1, <1>2, <1>3

\* The rest reads the configuration of the node, and no more of it than one probe brings.
LEMMA ConfigReads ==
    ASSUME NEW d, NEW e, NEW x \in CSIHost(d) \cup Noexec(d) \cup Accounts(d) \cup Provisioning(d)
    PROVE  /\ Answered(d, "config", x[1])
           /\ AgreeOn(d, e, "config", x[1]) => x \in CSIHost(e) \cup Noexec(e) \cup Accounts(e) \cup Provisioning(e)
<1> DEFINE In(a, w) == With(a, "config", w)
<1>0. \A n, w : n \in In(d, w) => Answered(d, "config", n)
  BY SaidIsAnswered
<1>1. ASSUME NEW n, AgreeOn(d, e, "config", n)
      PROVE  \A w : (n \in In(d, w) <=> n \in In(e, w)) /\ (Has(d, "config", n, w) <=> Has(e, "config", n, w))
  BY <1>1, AgreedReads
<1>2. CASE x \in CSIHost(d)
  <2>1. PICK n : \/ x = <<n, "iscsid not running">> /\ n \in In(d, "longhorn") \ In(d, "iscsid")
                 \/ /\ x = <<n, "multipathd takes the volumes">>
                    /\ n \in (In(d, "longhorn") \cap In(d, "multipathd")) \ In(d, "multipath blacklist")
    BY <1>2, Zenon DEF CSIHost
  <2>2. x[1] = n /\ Answered(d, "config", n)
    BY <1>0, <2>1, First
  <2>3. ASSUME AgreeOn(d, e, "config", n) PROVE x \in CSIHost(e)
    BY <1>1, <2>1, <2>3, Zenon DEF CSIHost
  <2> QED BY <2>2, <2>3
<1>3. CASE x \in Noexec(d)
  BY <1>3, ItselfReads DEF Noexec, Tiers
<1>4. CASE x \in Accounts(d)
  <2> DEFINE Own == {"password expired", "password expires", "password must change", "account expired",
                     "provisioning password ages", "no etcd user", "etcd user differs", "etcd owner differs"}
             Entry(a, n) == IF Has(a, "config", n, "has a password") THEN "sudo asks for the password"
                            ELSE "sudo asks for a password it has not"
             Says(a, n) == \/ x = <<n, "account locked out">> /\ n \in In(a, "failed logins") \ In(a, "unlock time over")
                           \/ x = <<n, Entry(a, n)>> /\ n \in In(a, "provisioning sudo") \ In(a, "NOPASSWD")
  <2>1. CASE x \in OfItself(d, "config", Own)
    <3>1. \A a : OfItself(a, "config", Own) \subseteq Accounts(a)
      BY DEF Accounts
    <3> QED BY <2>1, <3>1, ItselfReads DEF Tiers
  <2>2. ASSUME NEW n, Says(d, n)
        PROVE  Answered(d, "config", x[1]) /\ (AgreeOn(d, e, "config", x[1]) => x \in Accounts(e))
    <3>1. x[1] = n /\ Answered(d, "config", n)
      BY <1>0, <2>2, First
    <3>2. ASSUME AgreeOn(d, e, "config", n) PROVE x \in Accounts(e)
      <4>1. Entry(d, n) = Entry(e, n)
        BY <1>1, <3>2
      <4>2. Says(e, n)
        BY <1>1, <2>2, <3>2, <4>1, Zenon
      <4> QED BY <4>2, Zenon DEF Accounts
    <3> QED BY <3>1, <3>2
  <2>3. x \in OfItself(d, "config", Own) \/ \E n : Says(d, n)
    BY <1>4, Zenon DEF Accounts
  <2> QED BY <2>1, <2>2, <2>3
<1>5. CASE x \in Provisioning(d)
  <2> DEFINE Own == {"cloud-init errors", "cloud-init units failed", "datasource excludes NoCloud"}
             Entry(a, n) == IF Has(a, "config", n, "seeded from CD-ROM") THEN "user data unreadable at next boot"
                            ELSE IF n \in In(a, "VMware") THEN "CD-ROM disabled on VMware" ELSE "CD-ROM disabled"
             Says(a, n) == \/ x = <<n, Entry(a, n)>> /\ n \in In(a, "CD-ROM disabled") \cap In(a, "cloud-init")
                           \/ x = <<n, "no VMware tools">> /\ n \in In(a, "VMware") \ In(a, "tools")
                           \/ x = <<n, "VMware tools not running">> /\ n \in (In(a, "VMware") \cap In(a, "tools")) \ In(a, "tools run")
  <2>1. CASE x \in OfItself(d, "config", Own)
    <3>1. \A a : OfItself(a, "config", Own) \subseteq Provisioning(a)
      BY DEF Provisioning
    <3> QED BY <2>1, <3>1, ItselfReads DEF Tiers
  <2>2. ASSUME NEW n, Says(d, n)
        PROVE  Answered(d, "config", x[1]) /\ (AgreeOn(d, e, "config", x[1]) => x \in Provisioning(e))
    <3>1. x[1] = n /\ Answered(d, "config", n)
      BY <1>0, <2>2, First
    <3>2. ASSUME AgreeOn(d, e, "config", n) PROVE x \in Provisioning(e)
      <4>1. Entry(d, n) = Entry(e, n)
        BY <1>1, <3>2
      <4>2. Says(e, n)
        BY <1>1, <2>2, <3>2, <4>1, Zenon
      <4> QED BY <4>2, Zenon DEF Provisioning
    <3> QED BY <3>1, <3>2
  <2>3. x \in OfItself(d, "config", Own) \/ \E n : Says(d, n)
    BY <1>5, Zenon DEF Provisioning
  <2> QED BY <2>1, <2>2, <2>3
<1> QED BY <1>2, <1>3, <1>4, <1>5

\* The two units of a node, and its role, are read by every probe.
LEMMA UnitReads ==
    ASSUME NEW d, NEW e, NEW x \in Services(d)
    PROVE  Answered(d, "probe", x[1]) /\ (AgreeOn(d, e, "probe", x[1]) => x \in Services(e))
<1> DEFINE In(a, w) == With(a, "probe", w)
           Says(a, n) == \/ /\ x = <<n, "server unit down">> /\ n \in Hosts(a) /\ n \in In(a, "control plane")
                            /\ n \notin In(a, "server unit runs") /\ n \notin In(a, "agent unit runs")
                         \/ /\ x = <<n, "agent unit down">> /\ n \in Hosts(a) /\ n \notin In(a, "control plane")
                            /\ n \notin In(a, "server unit runs") /\ n \notin In(a, "agent unit runs")
<1>1. \A a : x \in Services(a) <=> \E n : Says(a, n)
  BY Zenon DEF Services
<1>2. PICK n : Says(d, n)
  BY <1>1
<1>3. x[1] = n /\ n \in Hosts(d)
  BY <1>2, First
<1>4. Answered(d, "probe", n)
  BY <1>3 DEF Answered, Hosts, Tiers
<1>5. ASSUME AgreeOn(d, e, "probe", n) PROVE x \in Services(e)
  <2>1. \A w : n \in In(d, w) <=> n \in In(e, w)
    BY <1>5, AgreedReads
  <2>2. n \in Hosts(e)
    BY <1>5 DEF AgreeOn, Answered, Hosts, Tiers
  <2>3. Says(e, n)
    BY <1>2, <2>1, <2>2, Zenon
  <2> QED BY <1>1, <2>3, Zenon
<1> QED BY <1>3, <1>4, <1>5

-----------------------------------------------------------------------------
(* The checks of the lists                                                 *)

\* Of lists that are shown one by one.
LEMMA ShownReads ==
    ASSUME NEW d, NEW e,
           \A l \in {"deployments", "daemonsets", "statefulsets", "jobs", "cronjobs", "helm charts", "rancher", "apiservices",
                     "certificates"} : AgreeOrSilent(d, e, l)
    PROVE  UNION {Workloads(d), Helm(d), RancherAgents(d), APIServices(d), Certificates(d)}
               \subseteq UNION {Workloads(e), Helm(e), RancherAgents(e), APIServices(e), Certificates(e)}
<1>1. \A l \in {"deployments", "daemonsets", "statefulsets", "jobs", "cronjobs", "helm charts", "rancher", "apiservices",
                "certificates"} : /\ \A S : Of(d, l, S) \subseteq Of(e, l, S)
                                  /\ \A o, w : Has(d, l, o, w) => Has(e, l, o, w)
  <2> TAKE l \in {"deployments", "daemonsets", "statefulsets", "jobs", "cronjobs", "helm charts", "rancher", "apiservices",
                  "certificates"}
  <2>1. \/ (\A S : Of(d, l, S) = Of(e, l, S)) /\ \A o, w : Has(d, l, o, w) <=> Has(e, l, o, w)
        \/ (\A S : Of(d, l, S) = {}) /\ \A o, w : ~Has(d, l, o, w)
    BY ListReads
  <2> QED BY <2>1
<1>2. Workloads(d) \subseteq Workloads(e)
  BY <1>1 DEF Workloads
<1>3. Helm(d) \subseteq Helm(e)
  BY <1>1 DEF Helm
<1>4. RancherAgents(d) \subseteq RancherAgents(e)
  BY <1>1 DEF RancherAgents, Managed
<1>5. APIServices(d) \subseteq APIServices(e) /\ Certificates(d) \subseteq Certificates(e)
  BY <1>1 DEF APIServices, Certificates
<1> QED BY <1>2, <1>3, <1>4, <1>5

\* A pod's status is silenced by what its containers say, in the same list.
LEMMA PodReads == ASSUME NEW d, NEW e, AgreeOrSilent(d, e, "pods") PROVE Pods(d) \subseteq Pods(e)
<1>1. CASE /\ \A w : With(d, "pods", w) = With(e, "pods", w)
           /\ \A S : Of(d, "pods", S) = Of(e, "pods", S)
  <2>1. ContainerTrouble(d) = ContainerTrouble(e)
    <3>1. /\ With(d, "pods", "failed lately") = With(e, "pods", "failed lately")
          /\ With(d, "pods", "CrashLoopBackOff") = With(e, "pods", "CrashLoopBackOff")
          /\ Of(d, "pods", {"CrashLoopBackOff", "cannot pull", "cannot create"}) = Of(e, "pods", {"CrashLoopBackOff", "cannot pull", "cannot create"})
      BY <1>1
    <3> QED BY <3>1, Zenon DEF ContainerTrouble
  <2>2. Troubled(d) = Troubled(e)
    BY <2>1 DEF Troubled
  <2> QED BY <1>1, <2>1, <2>2 DEF Pods
<1>2. CASE /\ \A w : With(d, "pods", w) = {}
           /\ \A S : Of(d, "pods", S) = {}
  BY <1>2 DEF Pods, ContainerTrouble, Except
<1> QED BY <1>1, <1>2, ListReads

LEMMA ClassReads == ASSUME NEW d, NEW e, AgreeOrSilent(d, e, "storageclasses") PROVE DefaultClass(d) \subseteq DefaultClass(e)
<1>1. CASE \A w : With(d, "storageclasses", w) = With(e, "storageclasses", w)
  <2>1. /\ With(d, "storageclasses", "exists") = With(e, "storageclasses", "exists")
        /\ With(d, "storageclasses", "default") = With(e, "storageclasses", "default")
    BY <1>1
  <2>2. DefaultClass(d) = DefaultClass(e)
    BY <2>1, Zenon DEF DefaultClass
  <2> QED BY <2>2
<1>2. CASE \A w : With(d, "storageclasses", w) = {}
  <2>1. Cardinality({}) = 0
    BY FS_EmptySet
  <2>2. With(d, "storageclasses", "exists") = {} /\ {} \cap With(d, "storageclasses", "default") = {}
    BY <1>2
  <2>3. DefaultClass(d) = When({} # {} /\ {} = {}, <<"storageclasses", "no default">>)
                              \cup When(Cardinality({}) > 1, <<"storageclasses", "several defaults">>)
    BY <2>2, Zenon DEF DefaultClass
  <2>4. ~({} # {} /\ {} = {})
    OBVIOUS
  <2>5. ~(Cardinality({}) > 1)
    BY <2>1
  <2>6. \A f : When({} # {} /\ {} = {}, f) = {} /\ When(Cardinality({}) > 1, f) = {}
    BY <2>4, <2>5, Zenon DEF When
  <2>7. DefaultClass(d) = {} \cup {}
    BY <2>3, <2>6, Zenon
  <2> QED BY <2>7, Zenon
<1> QED BY <1>1, <1>2, ListReads

LEMMA BudgetReads == ASSUME NEW d, NEW e, AgreeOrSilent(d, e, "pdbs") PROVE Budgets(d) \subseteq Budgets(e)
<1>1. CASE \A w : With(d, "pdbs", w) = With(e, "pdbs", w)
  <2>1. /\ With(d, "pdbs", "allows none") = With(e, "pdbs", "allows none")
        /\ With(d, "pdbs", "of an operator") = With(e, "pdbs", "of an operator")
    BY <1>1
  <2>2. Budgets(d) = Budgets(e)
    BY <2>1, Zenon DEF Budgets
  <2> QED BY <2>2
<1>2. CASE \A w : With(d, "pdbs", w) = {}
  BY <1>2 DEF Budgets
<1> QED BY <1>1, <1>2, ListReads

\* Slices that were not read are not taken for none.
LEMMA ServiceReads ==
    ASSUME NEW d, NEW e, AgreeOrSilent(d, e, "services"), AgreeOrSilent(d, e, "endpointslices"),
           "endpointslices" \in d.read => "endpointslices" \in e.read
    PROVE  SystemServices(d) \subseteq SystemServices(e)
<1> SUFFICES ASSUME "endpointslices" \in d.read PROVE SystemServices(d) \subseteq SystemServices(e)
  BY DEF SystemServices
<1>1. \A o : AgreeOn(d, e, "endpointslices", o)
  BY DEF AgreeOrSilent, Answered, Tiers
<1>2. \A o, w : o \in With(d, "endpointslices", w) <=> o \in With(e, "endpointslices", w)
  BY <1>1, AgreedReads
<1>3. \A w : With(d, "services", w) \subseteq With(e, "services", w)
  <2>1. (\A w : With(d, "services", w) = With(e, "services", w)) \/ (\A w : With(d, "services", w) = {})
    BY ListReads
  <2> QED BY <2>1
<1> QED BY <1>2, <1>3 DEF SystemServices

\* A policy that is not known keeps nobody out.
LEMMA IngressReads ==
    ASSUME NEW d, NEW e, AgreeOrSilent(d, e, "ingresses"), AgreeOrSilent(d, e, "pods"), AgreeOrSilent(d, e, "networkpolicies")
    PROVE  IngressPolicy(d) \subseteq IngressPolicy(e)
<1>1. With(d, "ingresses", "exists") = With(e, "ingresses", "exists") \/ With(d, "ingresses", "exists") = {}
  BY ListReads
<1>2. Some(d, "pods", "ingress controller") => Some(e, "pods", "ingress controller")
  BY ListReads
<1>3. \/ \A o, w : Has(d, "networkpolicies", o, w) <=> Has(e, "networkpolicies", o, w)
      \/ \A o, w : ~Has(d, "networkpolicies", o, w)
  BY ListReads
<1> QED BY <1>1, <1>2, <1>3 DEF IngressPolicy

LEMMA OneNodeReads ==
    ASSUME NEW d, NEW e, AgreeOrSilent(d, e, "pods"), AgreeOrSilent(d, e, "nodes"), AgreeOrSilent(d, e, "deployments")
    PROVE  OneNode(d) \subseteq OneNode(e)
<1>0. Cardinality({}) = 0
  BY FS_EmptySet
<1> DEFINE on(a) == {n \in Node : Has(a, "pods", n, "add-on replica")}
           ready(a) == With(a, "nodes", "exists") \ With(a, "nodes", "not Ready")
<1>1. Cardinality(on(d)) = 1 => on(d) = on(e)
  <2>1. on(d) = on(e) \/ on(d) = {}
    <3>1. (\A o, w : Has(d, "pods", o, w) <=> Has(e, "pods", o, w)) \/ (\A o, w : ~Has(d, "pods", o, w))
      BY ListReads
    <3> QED BY <3>1
  <2>2. on(d) = {} => Cardinality(on(d)) = 0
    BY <1>0, Zenon
  <2> HIDE DEF on
  <2> QED BY <2>1, <2>2
<1>2. Cardinality(ready(d)) >= 2 => ready(d) = ready(e)
  <2>1. (\A w : With(d, "nodes", w) = With(e, "nodes", w)) \/ (\A w : With(d, "nodes", w) = {})
    BY ListReads
  <2>2. CASE \A w : With(d, "nodes", w) = With(e, "nodes", w)
    <3>1. /\ With(d, "nodes", "exists") = With(e, "nodes", "exists")
          /\ With(d, "nodes", "not Ready") = With(e, "nodes", "not Ready")
      BY <2>2
    <3> QED BY <3>1, Zenon
  <2>3. CASE \A w : With(d, "nodes", w) = {}
    <3>1. ready(d) = {}
      BY <2>3
    <3>2. Cardinality(ready(d)) = 0
      BY <1>0, <3>1, Zenon
    <3> HIDE DEF ready
    <3> QED BY <3>2
  <2> QED BY <2>1, <2>2, <2>3
<1>3. Has(d, "deployments", "add-on", "two available") => Has(e, "deployments", "add-on", "two available")
  BY ListReads
<1>4. \A a : OneNode(a) = When(/\ Cardinality(ready(a)) >= 2 /\ Has(a, "deployments", "add-on", "two available")
                               /\ Cardinality(on(a)) = 1, <<"add-on", "all replicas on one node">>)
  BY DEF OneNode, Listed
<1> HIDE DEF on, ready
<1> QED BY <1>1, <1>2, <1>3, <1>4 DEF When

\* What is bound to a node that is gone: the taint is in the list that says so.
LEMMA EventReads ==
    ASSUME NEW d, NEW e, \A l \in {"events", "pods", "nodes", "volumeattachments"} : AgreeOrSilent(d, e, l)
    PROVE  Events(d) \subseteq Events(e)
<1>1. \A l \in {"events", "pods"} : \A S : Of(d, l, S) \subseteq Of(e, l, S)
  <2> TAKE l \in {"events", "pods"}
  <2>1. (\A S : Of(d, l, S) = Of(e, l, S)) \/ (\A S : Of(d, l, S) = {})
    BY ListReads
  <2> QED BY <2>1
<1>2. \A l \in {"pods", "volumeattachments"} : \A o, w : Has(d, l, o, w) => Has(e, l, o, w)
  <2> TAKE l \in {"pods", "volumeattachments"}
  <2>1. (\A o, w : Has(d, l, o, w) <=> Has(e, l, o, w)) \/ (\A o, w : ~Has(d, l, o, w))
    BY ListReads
  <2> QED BY <2>1
<1>3. (\A w : With(d, "nodes", w) = With(e, "nodes", w)) \/ (\A w : With(d, "nodes", w) = {})
  BY ListReads
<1> DEFINE held(a) == {n \in Node : Has(a, "pods", n, "Terminating there")} \cup {n \in Node : Has(a, "volumeattachments", n, "attached")}
           gone(a) == (With(a, "nodes", "not Ready") \cap held(a)) \ With(a, "nodes", "out-of-service taint")
<1>4. gone(d) \subseteq gone(e)
  <2>1. held(d) \subseteq held(e)
    BY <1>2
  <2> HIDE DEF held
  <2> QED BY <1>3, <2>1
<1>5. \A a : Events(a) = Of(a, "events", {"image GC failed", "resolver trimmed", "out of pod IPs"})
                             \cup Of(a, "pods", {"eviction storm"}) \cup {<<n, "out of service">> : n \in gone(a)}
  BY DEF Events
<1> HIDE DEF gone
<1> QED BY <1>1, <1>4, <1>5

\* A kubelet is told from the apiserver that answered, in one refresh.
LEMMA SkewReads ==
    ASSUME NEW d, NEW e, AgreeOrSilent(d, e, "version"), AgreeOrSilent(d, e, "nodes")
    PROVE  Skew(d) \subseteq Skew(e)
<1> DEFINE Masters(a) == UNION {KubeletOf(a, s) : s \in {x \in Listed(a) : Server(a, x)}}
           Ahead(a, n) == \E k \in KubeletOf(a, n), v \in Answers(a) : k > v
           Old(a, n) == \E k \in KubeletOf(a, n), v \in Answers(a) : v - k > 3
           Entry(a, n) == IF Server(a, n) \/ \E k \in KubeletOf(a, n), s \in Masters(a) : k <= s
                          THEN "kubelet newer: upgrade in progress" ELSE "kubelet newer than every server"
           Says(a, x) == \E n \in Listed(a) : \/ Ahead(a, n) /\ x = <<n, Entry(a, n)>>
                                              \/ Old(a, n) /\ x = <<n, "kubelet too old">>
<1>1. \A a, x : x \in Skew(a) <=> Says(a, x)
  BY Zenon DEF Skew
<1>2. Answers(d) = Answers(e) \/ Answers(d) = {}
  <2>1. (\A w : Some(d, "version", w) <=> Some(e, "version", w)) \/ \A w : ~Some(d, "version", w)
    BY ListReads
  <2> QED BY <2>1 DEF Answers
<1>3. \/ /\ Listed(d) = Listed(e) /\ \A n : (Server(d, n) <=> Server(e, n)) /\ KubeletOf(d, n) = KubeletOf(e, n)
      \/ Listed(d) = {}
  <2>1. \/ (\A w : With(d, "nodes", w) = With(e, "nodes", w)) /\ \A w, o : Has(d, "nodes", o, w) <=> Has(e, "nodes", o, w)
        \/ \A w : With(d, "nodes", w) = {}
    BY ListReads
  <2> QED BY <2>1 DEF Listed, Server, KubeletOf
<1>4. CASE Answers(d) = {} \/ Listed(d) = {}
  <2>1. \A x : ~Says(d, x)
    BY <1>4
  <2> QED BY <1>1, <2>1
<1>5. CASE /\ Answers(d) = Answers(e)
           /\ Listed(d) = Listed(e) /\ \A n : (Server(d, n) <=> Server(e, n)) /\ KubeletOf(d, n) = KubeletOf(e, n)
  <2>1. Masters(d) = Masters(e)
    BY <1>5
  <2>2. \A n : Entry(d, n) = Entry(e, n) /\ (Ahead(d, n) <=> Ahead(e, n)) /\ (Old(d, n) <=> Old(e, n))
    <3> HIDE DEF Masters
    <3> QED BY <1>5, <2>1
  <2>3. \A x : Says(d, x) <=> Says(e, x)
    <3> HIDE DEF Entry, Ahead, Old
    <3>1. \A x : Says(d, x) <=> \E n \in Listed(e) : \/ Ahead(e, n) /\ x = <<n, Entry(e, n)>>
                                                     \/ Old(e, n) /\ x = <<n, "kubelet too old">>
      BY <1>5, <2>2
    <3> QED BY <3>1
  <2> HIDE DEF Says
  <2> QED BY <1>1, <2>3
<1> QED BY <1>2, <1>3, <1>4, <1>5

\* The driver is known by the list of the drivers, and the clusters by one of their own.
LEMMA CephReads ==
    ASSUME NEW d, NEW e, \A l \in {"csidrivers", "cephclusters", "ceph resources"} : AgreeOrSilent(d, e, l),
           "cephclusters" \in d.read => "cephclusters" \in e.read
    PROVE  Ceph(d) \subseteq Ceph(e)
<1> DEFINE Risk(a, c) == IF Has(a, "cephclusters", c, "data at risk") THEN "Ceph: data at risk" ELSE "HEALTH_WARN"
           Rows(a) == {<<c, Risk(a, c)>> : c \in With(a, "cephclusters", "HEALTH_WARN")}
           Rest(a) == Of(a, "cephclusters", {"HEALTH_ERR", "not reached", "operator fails", "nearly full"})
                          \cup Of(a, "ceph resources", {"not Ready"})
<1>1. SUFFICES ASSUME "ceph" \in Drivers(d), "cephclusters" \in d.read PROVE Ceph(d) \subseteq Ceph(e)
  BY DEF Ceph
<1>2. Ceph(d) = Rows(d) \cup Rest(d) /\ Ceph(e) = Rows(e) \cup Rest(e)
  <2>1. (\A w : With(d, "csidrivers", w) = With(e, "csidrivers", w)) \/ (\A w : With(d, "csidrivers", w) = {})
    BY ListReads
  <2>2. "ceph" \in Drivers(e)
    BY <1>1, <2>1 DEF Drivers
  <2> QED BY <1>1, <2>2 DEF Ceph
<1>3. Rest(d) \subseteq Rest(e)
  <2>1. \A l \in {"cephclusters", "ceph resources"} : \A S : Of(d, l, S) \subseteq Of(e, l, S)
    <3> TAKE l \in {"cephclusters", "ceph resources"}
    <3>1. (\A S : Of(d, l, S) = Of(e, l, S)) \/ (\A S : Of(d, l, S) = {})
      BY ListReads
    <3> QED BY <3>1
  <2> QED BY <2>1
<1>4. Rows(d) \subseteq Rows(e)
  <2>1. \/ /\ \A w : With(d, "cephclusters", w) = With(e, "cephclusters", w)
           /\ \A o, w : Has(d, "cephclusters", o, w) <=> Has(e, "cephclusters", o, w)
        \/ \A w : With(d, "cephclusters", w) = {}
    BY ListReads
  <2> QED BY <2>1
<1> HIDE DEF Rows, Rest
<1> QED BY <1>2, <1>3, <1>4

\* What the checks of the lists read.
ReadLists ==
    {"pods", "deployments", "daemonsets", "statefulsets", "jobs", "cronjobs", "storageclasses", "rancher", "helm charts",
     "events", "nodes", "volumeattachments", "services", "endpointslices", "apiservices", "certificates", "pdbs",
     "ingresses", "networkpolicies", "version", "csidrivers", "cephclusters", "ceph resources"}

\* A list that is missing only takes from what these checks say.
LEMMA ListChecksRead ==
    ASSUME NEW d, NEW e, \A l \in ReadLists : AgreeOrSilent(d, e, l), d.read \subseteq e.read
    PROVE  ListChecks(d) \subseteq ListChecks(e)
<1>1. UNION {Workloads(d), Helm(d), RancherAgents(d), APIServices(d), Certificates(d)}
          \subseteq UNION {Workloads(e), Helm(e), RancherAgents(e), APIServices(e), Certificates(e)}
  <2>1. \A l \in {"deployments", "daemonsets", "statefulsets", "jobs", "cronjobs", "helm charts", "rancher", "apiservices",
                  "certificates"} : AgreeOrSilent(d, e, l)
    BY DEF ReadLists
  <2> QED BY <2>1, ShownReads
<1>2. Pods(d) \subseteq Pods(e) /\ DefaultClass(d) \subseteq DefaultClass(e) /\ Budgets(d) \subseteq Budgets(e)
  <2>1. AgreeOrSilent(d, e, "pods") /\ AgreeOrSilent(d, e, "storageclasses") /\ AgreeOrSilent(d, e, "pdbs")
    BY DEF ReadLists
  <2> QED BY <2>1, PodReads, ClassReads, BudgetReads
<1>3. SystemServices(d) \subseteq SystemServices(e)
  <2>1. AgreeOrSilent(d, e, "services") /\ AgreeOrSilent(d, e, "endpointslices")
    BY DEF ReadLists
  <2> QED BY <2>1, ServiceReads
<1>4. IngressPolicy(d) \subseteq IngressPolicy(e) /\ OneNode(d) \subseteq OneNode(e)
  <2>1. /\ AgreeOrSilent(d, e, "ingresses") /\ AgreeOrSilent(d, e, "pods") /\ AgreeOrSilent(d, e, "networkpolicies")
        /\ AgreeOrSilent(d, e, "nodes") /\ AgreeOrSilent(d, e, "deployments")
    BY DEF ReadLists
  <2> QED BY <2>1, IngressReads, OneNodeReads
<1>5. Events(d) \subseteq Events(e)
  <2>1. \A l \in {"events", "pods", "nodes", "volumeattachments"} : AgreeOrSilent(d, e, l)
    BY DEF ReadLists
  <2> QED BY <2>1, EventReads
<1>6. Skew(d) \subseteq Skew(e) /\ Ceph(d) \subseteq Ceph(e)
  <2>1. /\ AgreeOrSilent(d, e, "version") /\ AgreeOrSilent(d, e, "nodes")
        /\ \A l \in {"csidrivers", "cephclusters", "ceph resources"} : AgreeOrSilent(d, e, l)
    BY DEF ReadLists
  <2> QED BY <2>1, SkewReads, CephReads
<1>7. \A a : ListChecks(a) = (UNION {Workloads(a), Helm(a), RancherAgents(a), APIServices(a), Certificates(a)})
                                 \cup UNION {Pods(a), DefaultClass(a), Events(a), SystemServices(a), Budgets(a),
                                             IngressPolicy(a), OneNode(a), Skew(a), Ceph(a)}
  BY Zenon DEF ListChecks
<1> QED BY <1>1, <1>2, <1>3, <1>4, <1>5, <1>6, <1>7

\* What a node's own tiers say of it goes with the node.
LEMMA HostChecksRead ==
    ASSUME NEW d, NEW x \in HostChecks(d)
    PROVE  \E l \in {"config", "logs", "probe"} : /\ Answered(d, l, x[1])
                                         /\ \A e : AgreeOn(d, e, l, x[1]) => x \in HostChecks(e)
<1>1. \A a : HostChecks(a) = (Journal(a) \cup KernelLog(a)) \cup Reach(a) \cup Services(a)
                                 \cup (CSIHost(a) \cup Noexec(a) \cup Accounts(a) \cup Provisioning(a))
  BY Zenon DEF HostChecks
<1>2. CASE x \in Journal(d) \cup KernelLog(d)
  <2>1. \A e : Answered(d, "logs", x[1]) /\ (AgreeOn(d, e, "logs", x[1]) => x \in Journal(e) \cup KernelLog(e))
    BY <1>2, JournalReads
  <2> QED BY <1>1, <2>1, Zenon
<1>3. CASE x \in Reach(d)
  <2>1. \A e : Answered(d, "config", x[1]) /\ (AgreeOn(d, e, "config", x[1]) => x \in Reach(e))
    BY <1>3, ReachReads
  <2> QED BY <1>1, <2>1, Zenon
<1>4. CASE x \in CSIHost(d) \cup Noexec(d) \cup Accounts(d) \cup Provisioning(d)
  <2>1. \A e : /\ Answered(d, "config", x[1])
               /\ AgreeOn(d, e, "config", x[1]) => x \in CSIHost(e) \cup Noexec(e) \cup Accounts(e) \cup Provisioning(e)
    BY <1>4, ConfigReads
  <2> QED BY <1>1, <2>1, Zenon
<1>5. CASE x \in Services(d)
  <2>1. \A e : Answered(d, "probe", x[1]) /\ (AgreeOn(d, e, "probe", x[1]) => x \in Services(e))
    BY <1>5, UnitReads
  <2> QED BY <1>1, <2>1, Zenon
<1> QED BY <1>1, <1>2, <1>3, <1>4, <1>5

-----------------------------------------------------------------------------
(* What is at hand is of moments that have been                            *)

\* What is known of a node was read over SSH, of a host that is asked (collectCmds).
AskedInv ==
    \A p \in Probes, n \in Node :
        seen[p][n] > 0 => /\ Scenes[scene].ssh
                          /\ n \in IF p \in {"etcd", "stig"} THEN HostsOf[scene][p] ELSE Scenes[scene].hosts

LEMMA AskedInit == FindingsInit => AskedInv
BY DEF FindingsInit, AskedInv

LEMMA AskedNext == ASSUME TypeOK, AskedInv, [Next]_findingVars PROVE AskedInv'
<1>0. scene' = scene /\ \A p \in Probes : seen[p] \in [Node -> 0..world]
  BY DEF TypeOK, Next, findingVars, Happen, SnapshotMsg, EtcdExecMsg, NodeMsg, EtcdMsg, ScanMsg
<1>1. CASE UNCHANGED seen
  BY <1>0, <1>1, Zenon DEF AskedInv
<1>2. ASSUME NEW n \in Node, NodeMsg(n), ~UNCHANGED seen PROVE AskedInv'
  <2>1. Scenes[scene].ssh /\ n \in Scenes[scene].hosts
    BY <1>2 DEF NodeMsg
  <2>2. PICK tiers \in SUBSET TiersOfScene :
           seen' = [p \in Probes |-> IF p \in tiers \cup {"probe"} THEN [seen[p] EXCEPT ![n] = world] ELSE seen[p]]
    BY <1>2 DEF NodeMsg
  <2>3. \A p \in Probes, m \in Node : seen'[p][m] = seen[p][m] \/ (m = n /\ p \notin {"etcd", "stig"})
    BY <1>0, <2>2 DEF TiersOfScene, Tiers
  <2> QED BY <1>0, <2>1, <2>3 DEF AskedInv
<1>3. ASSUME NEW n \in Node, NEW p \in {"etcd", "stig"}, Scenes[scene].ssh, n \in HostsOf[scene][p],
             seen' = [seen EXCEPT ![p][n] = world]
      PROVE  AskedInv'
  <2>1. \A q \in Probes, m \in Node : seen'[q][m] = seen[q][m] \/ (m = n /\ q = p)
    BY <1>0, <1>3 DEF TypeOK, Probes
  <2> QED BY <1>0, <1>3, <2>1 DEF AskedInv
<1>4. \/ UNCHANGED seen
      \/ \E n \in Node : \/ NodeMsg(n) /\ ~UNCHANGED seen
                         \/ \E p \in {"etcd", "stig"} : /\ Scenes[scene].ssh /\ n \in HostsOf[scene][p]
                                                        /\ seen' = [seen EXCEPT ![p][n] = world]
  BY DEF Next, findingVars, Happen, SnapshotMsg, EtcdExecMsg, EtcdMsg, ScanMsg
<1> QED BY <1>1, <1>2, <1>3, <1>4

\* Of each node that a probe's facts are known of (Findings' seen), a host that is asked.
THEOREM AskedOnly == Spec => []AskedInv
<1> QED BY AskedInit, AskedNext, FindingsTyped, PTL DEF Spec

\* A fact at hand is one of the world it was read in.
LEMMA FactsAtHand ==
    ASSUME TypeOK
    PROVE  \A f : LET m == Moment(f[1], f[2]) IN
                  m \in 1..world => (f \in AtHand.facts <=> f \in Whole(scene, m).facts)
<1>0. scene \in DOMAIN Scenes /\ DOMAIN Scenes[scene].worlds = 1..Len(Scenes[scene].worlds) /\ world \in 1..Len(Scenes[scene].worlds)
  BY ScenesAssumption DEF TypeOK
<1>1. \A m \in 1..world : m \in DOMAIN Scenes[scene].worlds /\ m > 0
  BY <1>0, ScenesAssumption
<1>2. \A m \in 1..world : Scenes[scene].worlds[m] \subseteq Worlds[scene]
  <2>1. Worlds[scene] = UNION {Scenes[scene].worlds[i] : i \in DOMAIN Scenes[scene].worlds}
    BY <1>0 DEF Worlds
  <2> QED BY <1>1, <2>1
<1>3. \A f : f \in AtHand.facts <=> f \in Worlds[scene] /\ Moment(f[1], f[2]) > 0 /\ f \in Scenes[scene].worlds[Moment(f[1], f[2])]
  BY DEF AtHand
<1>4. \A m : Whole(scene, m).facts = Scenes[scene].worlds[m]
  BY DEF Whole
<1> QED BY <1>1, <1>2, <1>3, <1>4

\* What a tier says of a node at hand it said in the world it was read in.
LEMMA HostMoment ==
    ASSUME TypeOK, AskedInv, NEW l \in {"config", "logs", "probe"}, NEW n, Answered(AtHand, l, n)
    PROVE  Moment(l, n) \in 1..world /\ AgreeOn(AtHand, Whole(scene, Moment(l, n)), l, n)
<1> DEFINE p == IF l = "logs" THEN "journal" ELSE l
           m == seen[p][n]
<1>0. p \in Probes \ {"etcd", "stig"} /\ Moment(l, n) = m
  <2>1. CASE l = "logs"
    <3>1. Moment("logs", n) = seen["journal"][n]
      BY DEF Moment, Probes, Tiers, Kept
    <3>2. p = "journal"
      BY <2>1
    <3> QED BY <2>1, <3>1, <3>2 DEF Probes, Tiers
  <2>2. CASE l \in {"config", "probe"}
    <3>1. Moment(l, n) = seen[l][n]
      BY <2>2 DEF Moment, Probes, Tiers, Kept
    <3>2. p = l
      BY <2>2
    <3> QED BY <2>2, <3>1, <3>2 DEF Probes, Tiers
  <2> QED BY <2>1, <2>2
<1>1. AtHand.ssh = Scenes[scene].ssh /\ \A q \in Probes : AtHand.ok[q] = {x \in Node : seen[q][x] > 0 /\ <<q, x>> \notin lost}
  BY DEF AtHand
<1>2. n \in Node /\ m > 0 /\ Scenes[scene].ssh
  BY <1>0, <1>1 DEF Answered, Tiers
<1>3. m \in 1..world
  BY <1>0, <1>2 DEF TypeOK
<1>4. n \in Scenes[scene].hosts
  BY <1>0, <1>2 DEF AskedInv
<1>5. Answered(Whole(scene, m), l, n)
  <2>1. Whole(scene, m).ssh = Scenes[scene].ssh
    BY DEF Whole
  <2>2. \A q \in Probes \ {"etcd", "stig"} : Whole(scene, m).ok[q] = Scenes[scene].hosts
    BY DEF Whole
  <2> HIDE DEF m
  <2>3. CASE l = "logs"
    BY <1>2, <1>4, <2>1, <2>2, <2>3 DEF Answered, Probes, Tiers
  <2>4. CASE l \in {"config", "probe"}
    BY <1>2, <1>4, <2>1, <2>2, <2>4 DEF Answered, Probes, Tiers
  <2> QED BY <2>3, <2>4
<1>6. \A f : f[1] = l /\ f[2] = n => (f \in AtHand.facts <=> f \in Whole(scene, m).facts)
  <2> HIDE DEF m
  <2> QED BY <1>0, <1>3, FactsAtHand
<1> HIDE DEF m
<1> QED BY <1>0, <1>3, <1>5, <1>6 DEF AgreeOn

\* A list of the refresh on the screen says what it said then, or was not read.
LEMMA ListMoment ==
    ASSUME TypeOK, lists.at > 0, NEW l \in ReadLists
    PROVE  AgreeOrSilent(AtHand, Whole(scene, lists.at), l)
<1>1. l \notin Kept \cup Probes \cup {"logs", "exec", "here"} /\ l \in Required \cup Optional
  <2>1. l \notin Kept
    BY DEF ReadLists, Kept
  <2>2. l \notin Probes \cup {"logs", "exec", "here"}
    BY DEF ReadLists, Probes, Tiers
  <2>3. \/ l \in Required
        \/ l \in {"volumeattachments", "rancher", "helm charts", "certificates", "endpointslices", "apiservices", "pdbs",
                  "cephclusters", "ceph resources"}
    BY DEF ReadLists, Required
  <2>4. {"volumeattachments", "rancher", "helm charts", "certificates", "endpointslices", "apiservices", "pdbs",
         "cephclusters", "ceph resources"} \subseteq Optional
    BY DEF Optional, ControlLists
  <2> QED BY <2>1, <2>2, <2>3, <2>4
<1>2. \A o : Moment(l, o) = lists.at
  BY <1>1 DEF Moment
<1>3. lists.at \in 1..world
  BY ScenesAssumption DEF TypeOK
<1>4. \A o : Answered(AtHand, l, o) <=> l \in AtHand.read
  BY <1>1 DEF Answered, Probes
<1>5. \A o : Answered(Whole(scene, lists.at), l, o)
  BY <1>1 DEF Answered, Probes, Whole
<1>6. \A o, f : f[1] = l /\ f[2] = o => (f \in AtHand.facts <=> f \in Whole(scene, lists.at).facts)
  BY <1>2, <1>3, FactsAtHand
<1> QED BY <1>4, <1>5, <1>6 DEF AgreeOrSilent, AgreeOn

-----------------------------------------------------------------------------
(* What the checks that guess nothing claim                                 *)

\* What a whole world has the checks say, was true.
LEMMA WholeIsTrue ==
    ASSUME TypeOK, NEW m \in 1..world
    PROVE  ListChecks(Whole(scene, m)) \cup HostChecks(Whole(scene, m)) \subseteq BeenTrue
<1>1. scene \in DOMAIN Scenes /\ m \in DOMAIN Scenes[scene].worlds
  BY ScenesAssumption DEF TypeOK
<1>2. Truth[scene][m] = ClaimsOf(Whole(scene, m))
  BY <1>1, Zenon DEF Truth
<1>3. \A d : ListChecks(d) \cup HostChecks(d) \subseteq Evaluate(d)
  <2> TAKE d
  <2>1. Skew(d) \subseteq Upgrade(d) /\ Ceph(d) \subseteq Storage(d)
    BY Zenon DEF Upgrade, Storage
  <2>2. UNION {SystemServices(d), APIServices(d), Certificates(d), Budgets(d), IngressPolicy(d), OneNode(d)} \subseteq Control(d)
    BY Zenon DEF Control
  <2>3. UNION {Pods(d), Workloads(d), DefaultClass(d), RancherAgents(d), Helm(d), Events(d), Control(d), Storage(d), Upgrade(d)}
            \subseteq Evaluate(d)
    BY DEF Evaluate
  <2>4. ListChecks(d) \subseteq Evaluate(d)
    BY <2>1, <2>2, <2>3 DEF ListChecks
  <2>5. HostChecks(d) \subseteq Evaluate(d)
    <3>1. Reach(d) \subseteq Network(d) /\ UNION {CSIHost(d), Noexec(d), Accounts(d), Provisioning(d)} \subseteq Preflight(d)
      BY DEF Network, Preflight
    <3>2. UNION {Services(d), Journal(d), KernelLog(d), Network(d), Preflight(d)} \subseteq Evaluate(d)
      BY DEF Evaluate
    <3> QED BY <3>1, <3>2 DEF HostChecks
  <2> QED BY <2>4, <2>5
<1>4. \A d : Evaluate(d) \subseteq ClaimsOf(d)
  BY Zenon DEF ClaimsOf
<1> QED BY <1>2, <1>3, <1>4, Zenon DEF BeenTrue

LEMMA PlainGrounded == ASSUME TypeOK, AskedInv PROVE PlainAreGrounded
<1> SUFFICES ASSUME lists.at > 0 PROVE ListChecks(AtHand) \cup HostChecks(AtHand) \subseteq BeenTrue
  BY DEF PlainAreGrounded
<1>1. ListChecks(AtHand) \subseteq BeenTrue
  <2>1. AtHand.read \subseteq Whole(scene, lists.at).read
    BY DEF AtHand, Whole
  <2>2. ListChecks(AtHand) \subseteq ListChecks(Whole(scene, lists.at))
    BY <2>1, ListMoment, ListChecksRead
  <2>3. lists.at \in 1..world
    BY ScenesAssumption DEF TypeOK
  <2> QED BY <2>2, <2>3, WholeIsTrue
<1>2. ASSUME NEW x \in HostChecks(AtHand) PROVE x \in BeenTrue
  <2>1. PICK l \in {"config", "logs", "probe"} : Answered(AtHand, l, x[1]) /\ \A e : AgreeOn(AtHand, e, l, x[1]) => x \in HostChecks(e)
    BY HostChecksRead
  <2>2. PICK m \in 1..world : x \in HostChecks(Whole(scene, m))
    BY <2>1, HostMoment
  <2> QED BY <2>2, WholeIsTrue
<1> QED BY <1>1, <1>2

\* What the checks of the lists, and of the hosts, that guess nothing say was true when it
\* was read, of any cluster (checks.Evaluate on what recompute has at hand).
THEOREM PlainChecksAreGrounded == Spec => []PlainAreGrounded
<1>1. TypeOK /\ AskedInv => PlainAreGrounded
  BY PlainGrounded
<1> QED BY <1>1, FindingsTyped, AskedOnly, PTL

=============================================================================
