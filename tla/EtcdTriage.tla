------------------------------ MODULE EtcdTriage ------------------------------
(***************************************************************************)
(* What khealth says of etcd (internal/checks/etcd_triage.go and the etcd  *)
(* part of Evaluate), from what it collected of it: the API's node list,   *)
(* the exec view (etcdctl in an etcd pod, through the API) and the SSH     *)
(* probes of the servers.                                                  *)
(*                                                                         *)
(* Servers break and come back, and elect leaders as Raft does, while the  *)
(* pieces of evidence are collected one by one and kept until the next of  *)
(* their kind: the exec view needs the API, an SSH probe carries over what *)
(* it left out.  The freshness of a log and of what is on disk is the last *)
(* election a server took part in.                                         *)
(*                                                                         *)
(* The probes of one cycle are taken as answering together, an unreached   *)
(* server among them.  The clusters are those that run etcd in static pods *)
(* (rke2, kubeadm): k3s' gRPC view, external etcd, raft lag, alarms,       *)
(* metrics, backups and the text of the steps are left out, and the causes *)
(* a journal can name are one.                                             *)
(***************************************************************************)
EXTENDS Naturals, Sequences, FiniteSets, SequencesExt, FiniteSetsExt

CONSTANTS
    Servers,     \* the servers, in the order of their names
    Memberships, \* etcd's members: voters and learners; some are no server's
    MaxChanges,  \* bound on the changes of the servers' state
    MaxTerm,     \* bound on the elections
    None

Node == ToSet(Servers)
Member == UNION {m.voters \cup m.learners : m \in Memberships}

VARIABLES
    members, \* the members of the cluster
    state,   \* how each server does
    elected, \* the leaders elected so far, by term
    led,     \* the last of them still leads
    log,     \* the elections a server's etcd has logged (and has the data of)
    came,    \* servers whose etcd came back from a crash within the hour
    changes, \* changes so far
    snap,    \* App.snap: None, or whether nodes were listed, the Ready ones, their etcd pods
    asking,  \* an exec probe is in flight
    exec,    \* App.etcdExec
    ssh,     \* App.etcd, App.nodes: None, or what the probes of the server brought
    current  \* the evidence collected since the servers last changed

worldVars == <<members, state, elected, led, log, came, changes>>
vars == <<worldVars, snap, asking, exec, ssh, current>>

\* cut: no peer reaches it; crashing: the container; stopped: the service.
State == {"serving", "cut", "crashing", "stopped", "off"}
\* The output of etcdctl member list, endpoint health and endpoint status.
View == [voters : SUBSET Member, learners : SUBSET Member, healthy : SUBSET Member]
\* crash, came: the etcd pods in CrashLoopBackOff, those restarted within the hour.
Snap == [up : BOOLEAN, ready : SUBSET Node, crash : SUBSET Node, came : SUBSET Node]
\* noEtcd: containers are listed, etcd is not among them; cause: the journal names one.
Probe == [ok : BOOLEAN, active : BOOLEAN, noEtcd : BOOLEAN, healthy : BOOLEAN, cause : BOOLEAN,
          view : View \cup {None}, log : SUBSET (1..MaxTerm)]

\* What the exec probe answered.
Exec == [ok : BOOLEAN, view : View \cup {None}]

Majority(S, of) == Cardinality(S) >= Cardinality(of) \div 2 + 1

\* The members that are no servers are fewer than would make a quorum.
ASSUME TriageAssumption ==
    /\ Servers \in Seq(Node) /\ IsInjective(Servers)
    /\ MaxChanges \in Nat /\ MaxTerm \in Nat \ {0}
    /\ \A m \in Memberships : /\ IsFiniteSet(m.voters) /\ m.voters \cap m.learners = {}
                              /\ Majority(Node \cap m.voters, m.voters)
    /\ None \notin Node /\ None \notin View /\ None \notin Snap /\ None \notin Exec /\ None \notin Probe

TypeOK ==
    /\ members \in Memberships /\ state \in [Node -> State]
    /\ elected \in Seq(Node) /\ Len(elected) <= MaxTerm /\ led \in BOOLEAN
    /\ log \in [Node -> SUBSET DOMAIN elected] /\ came \subseteq Node
    /\ changes \in 0..MaxChanges
    /\ snap \in Snap \cup {None} /\ asking \in BOOLEAN
    /\ exec \in Exec \cup {None}
    /\ ssh \in [Node -> Probe \cup {None}]
    /\ current \subseteq {"snap", "exec", "ssh"}

-----------------------------------------------------------------------------
(* The servers                                                             *)

At(st, s) == {n \in Node : st[n] = s}
Serving(st) == At(st, "serving") \cap (members.voters \cup members.learners)
Quorum(st) == Majority(Serving(st) \cap members.voters, members.voters)
Data(n) == Max({0} \cup log[n])
Leader == Last(elected)
Evidence == <<snap, asking, exec, ssh>>

Init ==
    /\ members \in Memberships
    /\ state = [n \in Node |-> "serving"]
    /\ \E n \in Node \cap members.voters : elected = <<n>>
    /\ led = TRUE /\ log = [n \in Node |-> IF n \in Serving(state) THEN {1} ELSE {}]
    /\ came = {} /\ changes = 0
    /\ snap = None /\ asking = FALSE /\ exec = None /\ ssh = [n \in Node |-> None]
    /\ current = {}

\* Servers fail together, of one reason: a power cut, a firewall, a full disk, a stopped service.
Break(S, s) ==
    /\ changes < MaxChanges /\ S # {} /\ S \subseteq At(state, "serving")
    /\ state' = [n \in Node |-> IF n \in S THEN s ELSE state[n]]
    /\ led' = (led /\ Leader \notin S /\ Quorum(state'))
    /\ changes' = changes + 1 /\ current' = {}
    /\ UNCHANGED <<members, elected, log, came, Evidence>>

\* One comes back, and follows the leader there is.
Return(n) ==
    /\ changes < MaxChanges /\ state[n] # "serving"
    /\ state' = [state EXCEPT ![n] = "serving"]
    /\ came' = IF state[n] = "crashing" THEN came \cup {n} ELSE came
    /\ log' = IF led /\ n \in Serving(state') THEN [log EXCEPT ![n] = @ \cup {Len(elected)}] ELSE log
    /\ changes' = changes + 1 /\ current' = {}
    /\ UNCHANGED <<members, elected, led, Evidence>>

\* A candidate is voted for by a majority whose data is not newer than its own.
Elect(n) ==
    /\ ~led /\ Len(elected) < MaxTerm
    /\ n \in Serving(state) \cap members.voters
    /\ Majority({m \in Serving(state) \cap members.voters : Data(m) <= Data(n)}, members.voters)
    /\ elected' = Append(elected, n) /\ led' = TRUE
    /\ log' = [m \in Node |-> IF m \in Serving(state) THEN log[m] \cup {Len(elected')} ELSE log[m]]
    /\ current' = {}
    /\ UNCHANGED <<members, state, came, changes, Evidence>>

-----------------------------------------------------------------------------
(* The evidence                                                            *)

\* What etcdctl shows while there is a leader: a learner's health is an error.
ViewNow == [voters |-> members.voters, learners |-> members.learners,
            healthy |-> Serving(state) \cap members.voters]

\* A snapshot: the nodes, if an apiserver answers; a node that failed stays Ready
\* for a while.  Its etcd pods are the exec probe's.
SnapshotMsg(up) ==
    /\ up => At(state, "serving") # {}
    /\ snap' = IF up
               THEN [up |-> TRUE, ready |-> Node \ (At(state, "off") \cup At(state, "stopped")),
                     crash |-> At(state, "crashing"), came |-> came]
               ELSE [up |-> FALSE, ready |-> {}, crash |-> {}, came |-> {}]
    /\ asking' = (asking \/ up)
    /\ current' = current \cup {"snap"}
    /\ UNCHANGED <<worldVars, exec, ssh>>

\* collectCmds: etcdctl over SSH is the fallback for the exec view.
WithEtcdctl == ~snap.up \/ exec = None \/ ~exec.ok

\* etcdExecMsg: member list is a linearizable read, without a leader it fails; so it
\* does when pods/exec is refused or times out.  The probes that left etcdctl to a
\* view that fails now are incomplete.
EtcdExecMsg ==
    /\ asking /\ asking' = FALSE
    /\ \/ led /\ exec' = [ok |-> TRUE, view |-> ViewNow]
       \/ exec' = [ok |-> FALSE, view |-> None]
    /\ current' = {"exec"} \cup (IF exec'.ok \/ exec = None \/ ~exec.ok THEN current ELSE current \ {"ssh"})
    /\ UNCHANGED <<worldVars, snap, ssh>>

Unreached == [ok |-> FALSE, active |-> FALSE, noEtcd |-> FALSE, healthy |-> FALSE, cause |-> FALSE,
              view |-> None, log |-> {}]

\* etcdMsg and nodeMsg of the servers S that can be reached, with Probe.Merge: what
\* etcdctl said is carried over while the exec view stands in for it.
SSHMsgs(S) ==
    LET well == IF led THEN Serving(state) ELSE {}
        prev(n) == IF ssh[n] = None THEN Unreached ELSE ssh[n]
    IN
    /\ snap # None
    /\ ssh' = [n \in Node |->
          IF n \notin S THEN Unreached
          ELSE [ok |-> TRUE, active |-> state[n] # "stopped", noEtcd |-> state[n] = "crashing",
                healthy |-> n \in well, cause |-> state[n] = "crashing",
                view |-> IF ~WithEtcdctl THEN prev(n).view ELSE IF n \in well THEN ViewNow ELSE None,
                log |-> log[n]]]
    /\ current' = current \cup {"ssh"}
    /\ UNCHANGED <<worldVars, snap, asking, exec>>

Next ==
    \/ \E S \in SUBSET Node, s \in State \ {"serving"} : Break(S, s)
    \/ \E n \in Node : Return(n) \/ Elect(n)
    \/ \E up \in BOOLEAN : SnapshotMsg(up)
    \/ EtcdExecMsg
    \/ \E S \in SUBSET (Node \ At(state, "off")) : SSHMsgs(S)

Spec == Init /\ [][Next]_vars

-----------------------------------------------------------------------------
(* The triage                                                              *)

ApiDown == ~snap.up
Answered(n) == ssh[n] # None /\ ssh[n].ok

\* The first of S in the order of the names.
FirstOf(S) == Servers[Min({i \in DOMAIN Servers : Servers[i] \in S})]

\* etcdMembershipSource: the exec view, else the first probe that has members.
Source ==
    IF exec # None /\ exec.ok THEN exec.view
    ELSE LET with == {n \in Node : Answered(n) /\ ssh[n].view # None}
         IN IF with = {} THEN None ELSE ssh[FirstOf(with)].view
Voters == IF Source = None THEN {} ELSE Source.voters
Learners == IF Source = None THEN {} ELSE Source.learners

\* One record per etcd node; with the API down, per probe that answered.
Recs == {n \in Node : snap.up \/ Answered(n)}
Matched(n) == n \in Voters \cup Learners

\* A member's endpoint health, else the /health of the node itself.
Known(n) == Matched(n) \/ Answered(n)
Healthy(n) == IF Matched(n) THEN n \in Source.healthy ELSE Answered(n) /\ ssh[n].healthy

\* etcdQuorumOf: what the members that vote are known to do.
Total == IF Source # None THEN Cardinality(Voters) ELSE Cardinality(Recs)
Up == Cardinality({n \in Recs \ Learners : Known(n) /\ Healthy(n)})
Down == Cardinality({n \in Recs \ Learners : Known(n) /\ ~Healthy(n)})
Need == Total \div 2 + 1

\* Mutant of Lost: a member nobody could check is down.
LostUnlessSeen == Total > 0 /\ Up < Need

\* Lost needs members known to be down, or an apiserver that is gone.
Lost ==
    /\ Total > 0 /\ Up < Need
    /\ ApiDown \/ (Total - Down < Need /\ \E n \in Recs : Known(n))

\* triageClusterDown is called.
ClusterDown == snap # None /\ (Lost \/ (Up = 0 /\ \E n \in Recs : Known(n)))

\* The last term a server led, by the logs of all of them.
LeaderTerm(n) ==
    Max({0} \cup {t \in 1..Len(elected) : elected[t] = n /\ \E r \in Recs : Answered(r) /\ t \in ssh[r].log})
Disk(n) == IF Answered(n) THEN Max({0} \cup ssh[n].log) ELSE 0

\* rankEtcdNodes: by the last term led, then by what is on disk.
Ahead(n, m) == LeaderTerm(n) > LeaderTerm(m) \/ (LeaderTerm(n) = LeaderTerm(m) /\ Disk(n) > Disk(m))
\* Mutant of Best: in the order of the names.
BestByName == Recs

\* Those that none is ahead of.
Best == {n \in Recs : ~\E m \in Recs : Ahead(m, n)}

\* The server to reset the cluster from, if any has a history.
Target ==
    LET first == FirstOf(Best)
    IN IF Best = {} \/ (LeaderTerm(first) = 0 /\ Disk(first) = 0) THEN None ELSE first

\* Members with no node behind them: the advice is etcdctl member remove.
StaleMembers == (Voters \cup Learners) \ {n \in Recs : Matched(n)}

Ready(n) == ApiDown \/ n \in snap.ready
ContainerDown(n) == n \in snap.crash \cup snap.came \/ (Answered(n) /\ ssh[n].noEtcd)
NotMember(n) == Source # None /\ ~Matched(n)
Unhealthy(n) == Known(n) /\ ~Healthy(n)

\* Mutant of One: a container that restarted is down, however its member does.
OneNeverRecovered(n) ==
    CASE n \notin Recs \/ n \in Learners -> "none"
      [] ~Ready(n) /\ ssh[n] # None /\ ~ssh[n].ok -> "offline"
      [] Answered(n) /\ ~ssh[n].active -> "service"
      [] Answered(n) /\ ContainerDown(n) -> "container"
      [] Unhealthy(n) \/ NotMember(n) -> IF Lost /\ ~(Answered(n) /\ ssh[n].cause) THEN "none" ELSE "member"
      [] ~Ready(n) -> "kubelet"
      [] OTHER -> "none"

\* triageOne: the finding on a server; "recovered" and "kubelet" are warnings.
One(n) ==
    LET problem == Unhealthy(n) \/ NotMember(n) \/ ~Ready(n) \/ ContainerDown(n)
        recovered == /\ Known(n) /\ Healthy(n) /\ Ready(n)
                     /\ snap.up /\ n \notin snap.crash
    IN CASE n \notin Recs \/ n \in Learners \/ ~problem -> "none"
         [] ~Ready(n) /\ ssh[n] # None /\ ~ssh[n].ok -> "offline"
         [] Answered(n) /\ ~ssh[n].active -> "service"
         [] Answered(n) /\ ContainerDown(n) -> IF recovered THEN "recovered" ELSE "container"
         [] Unhealthy(n) \/ NotMember(n) ->
                IF Lost /\ ~(Answered(n) /\ ssh[n].cause) THEN "none" ELSE "member"
         [] OTHER -> IF Ready(n) THEN "none" ELSE "kubelet"

\* What speaks for a server: the cluster's finding or its own.
Covered(n) == n \in Recs /\ (ClusterDown \/ One(n) # "none")

-----------------------------------------------------------------------------
(* Properties *)

\* All of the evidence is of the servers as they are.
UpToDate == current = {"snap", "exec", "ssh"}

\* Where no member list is known every server is taken for a voter: that makes
\* the quorum no larger than it is.
ServersVote == Cardinality(Node) \div 2 <= Cardinality(members.voters) \div 2

\* "etcd quorum lost" is said of a quorum that is lost: of the servers as they are,
\* and however few of them could be reached while the apiserver answers
\* (etcdQuorumOf, triageEtcd).  But for one case: without a member list a single
\* server seen down is enough to say it, when none of those that serve has answered.
LostIsTrue ==
    snap # None /\ snap.up /\ ClusterDown /\ (Source = None => ServersVote)
        /\ (exec # None => "exec" \in current) /\ ((\E n \in Node : ssh[n] # None) => "ssh" \in current)
    => ~led \/ (Source = None /\ (\E n \in Node : Answered(n)) /\ \A n \in Serving(state) : ~Answered(n))

\* The findings name the servers that are broken and no others (triageOne, covered).
BrokenAreCovered ==
    UpToDate /\ snap.up => \A n \in Node \cap members.voters :
        IF led /\ state[n] = "serving" THEN One(n) \in {"none", "recovered"} ELSE Known(n) => Covered(n)

\* An outage is said to be one once every server has answered, unless khealth
\* holds an exec view, and the server it would reset from has the newest data
\* there is (triageClusterDown, rankEtcdNodes).
OutageIsDiagnosed ==
    snap # None /\ ~snap.up /\ ~led /\ (exec # None => ~exec.ok) /\ "snap" \in current
        /\ "ssh" \in current /\ (\A n \in Node : Answered(n))
    => ClusterDown /\ Target # None /\ \A n \in Node : Data(n) <= Data(Target)

\* So is one that khealth has watched begin (docs/ETCD.md).
WatchedOutage ==
    snap # None /\ ~snap.up /\ ~Quorum(state) /\ "snap" \in current
        /\ "ssh" \in current /\ (\A n \in Node : Answered(n))
    => ClusterDown

\* A member is only called stale when no server runs it.
StaleIsStale == snap # None => StaleMembers \cap Node = {}

=============================================================================
