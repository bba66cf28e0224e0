-------------------------- MODULE EtcdTriage_proofs --------------------------
(***************************************************************************)
(* Theorems about the triage of etcd, for any servers and memberships, any *)
(* failures, returns and elections, and evidence of any age: a quorum said *)
(* to be lost is lost or none that serves was seen, the findings name the broken servers and no others, and the    *)
(* server a cluster is reset from has the newest data there is.            *)
(*                                                                         *)
(* The evidence fits the servers as long as they do not change (SnapFits,  *)
(* ExecFits, ProbesFit), and a leader has a quorum and has logged its own  *)
(* election (LedByQuorum, LeaderLogged).                                   *)
(***************************************************************************)
EXTENDS EtcdTriage, Integers, TLAPS, FiniteSetTheorems, WellFoundedInduction

LedByQuorum == led => Quorum(state)

LeaderLogged == elected # <<>> /\ Len(elected) \in log[Leader]

SnapFits ==
    "snap" \in current =>
        /\ snap # None
        /\ snap.up => /\ snap.ready = Node \ (At(state, "off") \cup At(state, "stopped"))
                      /\ snap.crash = At(state, "crashing")

ExecFits ==
    "exec" \in current => exec # None /\ (exec.ok => led /\ exec.view = ViewNow)

\* What a probe that answered says of its server.
SaysTruth(n) ==
    ssh[n].ok => /\ ssh[n].active = (state[n] # "stopped")
                 /\ ssh[n].healthy = (led /\ n \in Serving(state))
                 /\ ssh[n].log = log[n]

\* The members it knows are the present ones, or the exec view is preferred.
MembersFit(n) ==
    \/ exec # None /\ exec.ok
    \/ ssh[n].view = None
    \/ led /\ ssh[n].view = ViewNow

ProbesFit ==
    "ssh" \in current => \A n \in Node : ssh[n] # None /\ SaysTruth(n) /\ MembersFit(n)

TriageInv == TypeOK /\ LedByQuorum /\ LeaderLogged /\ SnapFits /\ ExecFits /\ ProbesFit

-----------------------------------------------------------------------------
(* The invariant *)

LEMMA NodeFinite == IsFiniteSet(Node)
<1>1. Servers \in [1..Len(Servers) -> Node] /\ Len(Servers) \in Nat
  BY TriageAssumption
<1>2. \A n \in Node : \E i \in 1..Len(Servers) : Servers[i] = n
  BY <1>1 DEF Node, ToSet
<1>3. Servers \in Surjection(1..Len(Servers), Node)
  BY <1>1, <1>2 DEF Surjection
<1> QED BY <1>1, <1>3, FS_Interval, FS_Surjection

\* More servers that serve are a quorum all the more.
LEMMA MoreServe ==
    ASSUME members \in Memberships, NEW S, NEW T, S \subseteq T, T \subseteq members.voters,
           Majority(S, members.voters)
    PROVE  Majority(T, members.voters)
<1>1. IsFiniteSet(members.voters)
  BY TriageAssumption
<1>2. IsFiniteSet(T) /\ IsFiniteSet(S) /\ Cardinality(S) <= Cardinality(T)
  BY <1>1, FS_Subset
<1>3. Cardinality(S) \in Nat /\ Cardinality(T) \in Nat /\ Cardinality(members.voters) \in Nat
  BY <1>1, <1>2, FS_CardinalityType
<1> QED BY <1>2, <1>3 DEF Majority

LEMMA ViewIsView == ASSUME members \in Memberships PROVE ViewNow \in View /\ ViewNow # None
<1>1. members.voters \subseteq Member /\ members.learners \subseteq Member
  BY DEF Member
<1>2. ViewNow \in View
  BY <1>1 DEF ViewNow, View
<1> QED BY <1>2, TriageAssumption

\* A server that leads, or led last, has logged its election.
LEMMA ElectedIs ==
    ASSUME TypeOK, LeaderLogged
    PROVE  Len(elected) \in 1..MaxTerm /\ Leader \in Node /\ Leader = elected[Len(elected)]
BY DEF TypeOK, LeaderLogged, Leader, Last

LEMMA TriageInit == Init => TriageInv
<1> SUFFICES ASSUME Init PROVE TriageInv
  OBVIOUS
<1>1. PICK l \in Node \cap members.voters : elected = <<l>>
  BY DEF Init
<1>2. Serving(state) = Node \cap (members.voters \cup members.learners)
  BY DEF Init, Serving, At
<1>3. TypeOK
  <2>1. elected \in Seq(Node) /\ Len(elected) = 1 /\ DOMAIN elected = {1}
    BY <1>1
  <2>2. state \in [Node -> State] /\ log \in [Node -> SUBSET DOMAIN elected]
    BY <2>1 DEF Init, State
  <2>3. changes \in 0..MaxChanges /\ Len(elected) <= MaxTerm
    BY <2>1, TriageAssumption DEF Init
  <2>4. /\ members \in Memberships /\ led \in BOOLEAN /\ came \subseteq Node
        /\ snap \in Snap \cup {None} /\ asking \in BOOLEAN /\ exec \in Exec \cup {None}
        /\ current \subseteq {"snap", "exec", "ssh"}
    BY DEF Init
  <2>5. ssh \in [Node -> Probe \cup {None}]
    BY DEF Init
  <2> QED BY <2>1, <2>2, <2>3, <2>4, <2>5 DEF TypeOK
<1>4. LedByQuorum
  <2>1. Serving(state) \cap members.voters = Node \cap members.voters
    BY <1>2
  <2> QED BY <2>1, TriageAssumption DEF LedByQuorum, Quorum, Init
<1>5. LeaderLogged
  BY <1>1, <1>2 DEF LeaderLogged, Leader, Last, Init
<1> QED BY <1>3, <1>4, <1>5 DEF TriageInv, SnapFits, ExecFits, ProbesFit, Init

-----------------------------------------------------------------------------
(* The servers change: the evidence is of before *)

LEMMA BreakInv ==
    ASSUME TriageInv, NEW S \in SUBSET Node, NEW s \in State \ {"serving"}, Break(S, s)
    PROVE  TriageInv'
<1>1. TypeOK'
  <2>1. changes' \in 0..MaxChanges
    BY TriageAssumption DEF Break, TriageInv, TypeOK
  <2>2. state' \in [Node -> State]
    BY DEF Break, TriageInv, TypeOK
  <2>3. led' \in BOOLEAN
    BY DEF Break
  <2>4. UNCHANGED <<members, elected, log, came, snap, asking, exec, ssh>> /\ current' = {}
    BY DEF Break, Evidence
  <2> QED BY <2>1, <2>2, <2>3, <2>4 DEF TriageInv, TypeOK
<1>2. LedByQuorum'
  BY DEF Break, LedByQuorum, Quorum, Serving, At, Majority
<1>3. LeaderLogged'
  BY DEF Break, TriageInv, LeaderLogged, Leader, Last
<1> QED BY <1>1, <1>2, <1>3 DEF Break, TriageInv, SnapFits, ExecFits, ProbesFit

LEMMA ReturnInv ==
    ASSUME TriageInv, NEW n \in Node, Return(n)
    PROVE  TriageInv'
<1>1. log' \in [Node -> SUBSET DOMAIN elected] /\ \A m \in Node : log[m] \subseteq log'[m]
  BY DEF Return, TriageInv, TypeOK, LeaderLogged
<1>2. TypeOK'
  <2>1. changes' \in 0..MaxChanges
    BY TriageAssumption DEF Return, TriageInv, TypeOK
  <2>2. state' \in [Node -> State] /\ came' \subseteq Node
    BY DEF Return, TriageInv, TypeOK, State
  <2>3. UNCHANGED <<members, elected, led, snap, asking, exec, ssh>> /\ current' = {}
    BY DEF Return, Evidence
  <2> QED BY <1>1, <2>1, <2>2, <2>3 DEF TriageInv, TypeOK
<1>3. LedByQuorum'
  <2> SUFFICES ASSUME led' PROVE Quorum(state)'
    BY DEF LedByQuorum
  <2>1. Serving(state) \cap members.voters \subseteq (Serving(state) \cap members.voters)'
    BY DEF Return, TriageInv, TypeOK, Serving, At
  <2>2. (Serving(state) \cap members.voters)' \subseteq members.voters /\ members' = members
    BY DEF Return
  <2>3. Majority(Serving(state) \cap members.voters, members.voters) /\ members \in Memberships
    BY DEF Return, TriageInv, LedByQuorum, Quorum, TypeOK
  <2> QED BY <2>1, <2>2, <2>3, MoreServe DEF Quorum
<1>4. LeaderLogged'
  <2>1. elected' = elected /\ Leader \in Node
    BY ElectedIs DEF Return, TriageInv
  <2> QED BY <1>1, <2>1 DEF TriageInv, LeaderLogged, Leader
<1> QED BY <1>2, <1>3, <1>4 DEF Return, TriageInv, SnapFits, ExecFits, ProbesFit

LEMMA ElectInv ==
    ASSUME TriageInv, NEW n \in Node, Elect(n)
    PROVE  TriageInv'
<1>1. /\ elected' \in Seq(Node) /\ Len(elected') = Len(elected) + 1 /\ elected'[Len(elected')] = n
      /\ DOMAIN elected' = 1..Len(elected') /\ DOMAIN elected = 1..Len(elected)
      /\ Len(elected') <= MaxTerm
  BY TriageAssumption DEF Elect, TriageInv, TypeOK
<1>2. log' \in [Node -> SUBSET DOMAIN elected']
  BY <1>1 DEF Elect, TriageInv, TypeOK
<1>3. TypeOK'
  BY <1>1, <1>2 DEF Elect, TriageInv, TypeOK, Evidence
<1>4. LedByQuorum'
  <2>1. /\ Majority(Serving(state) \cap members.voters, members.voters)
        /\ members' = members /\ state' = state
    <3> DEFINE behind == {m \in Serving(state) \cap members.voters : Data(m) <= Data(n)}
    <3>1. Majority(behind, members.voters) /\ behind \subseteq Serving(state) \cap members.voters
      BY DEF Elect
    <3>2. Serving(state) \cap members.voters \subseteq members.voters /\ members \in Memberships
      BY DEF TriageInv, TypeOK
    <3> HIDE DEF behind
    <3> QED BY <3>1, <3>2, MoreServe DEF Elect
  <2> QED BY <2>1 DEF LedByQuorum, Quorum, Serving, At
<1>5. LeaderLogged'
  <2>1. n \in Serving(state) /\ Len(elected') \in log'[n]
    BY DEF Elect
  <2> QED BY <1>1, <2>1 DEF LeaderLogged, Leader, Last
<1> QED BY <1>3, <1>4, <1>5 DEF Elect, TriageInv, SnapFits, ExecFits, ProbesFit

-----------------------------------------------------------------------------
(* The evidence is collected: it is of now *)

LEMMA SnapshotInv ==
    ASSUME TriageInv, NEW up \in BOOLEAN, SnapshotMsg(up)
    PROVE  TriageInv'
<1>1. UNCHANGED <<members, state, elected, led, log, came, changes, exec, ssh>>
  BY DEF SnapshotMsg, worldVars
<1>2. /\ snap' \in Snap
      /\ snap'.up = up
      /\ up => /\ snap'.ready = Node \ (At(state, "off") \cup At(state, "stopped"))
               /\ snap'.crash = At(state, "crashing")
  BY DEF SnapshotMsg, Snap, At, TriageInv, TypeOK
<1>3. snap' # None
  BY <1>2, TriageAssumption
<1>4. asking' \in BOOLEAN
  BY DEF SnapshotMsg
<1>5. current' = current \cup {"snap"}
  BY DEF SnapshotMsg
<1>6. TypeOK'
  BY <1>1, <1>2, <1>4, <1>5 DEF TriageInv, TypeOK
<1>7. LedByQuorum' /\ LeaderLogged'
  BY <1>1 DEF TriageInv, LedByQuorum, Quorum, Serving, At, LeaderLogged, Leader
<1>8. SnapFits'
  BY <1>1, <1>2, <1>3 DEF SnapFits, At
<1>9. ExecFits' /\ ProbesFit'
  BY <1>1, <1>5 DEF TriageInv, ExecFits, ProbesFit, SaysTruth, MembersFit, ViewNow, Serving, At
<1> QED BY <1>6, <1>7, <1>8, <1>9 DEF TriageInv

LEMMA ExecInv ==
    ASSUME TriageInv, EtcdExecMsg
    PROVE  TriageInv'
<1>1. UNCHANGED <<members, state, elected, led, log, came, changes, snap, ssh>>
  BY DEF EtcdExecMsg, worldVars
<1>2. \/ led /\ exec' = [ok |-> TRUE, view |-> ViewNow]
      \/ exec' = [ok |-> FALSE, view |-> None]
  BY DEF EtcdExecMsg
<1>3. exec' \in Exec
  <2>1. ViewNow \in View
    BY ViewIsView DEF TriageInv, TypeOK
  <2>2. CASE exec' = [ok |-> TRUE, view |-> ViewNow]
    BY <2>1, <2>2 DEF Exec
  <2>3. CASE exec' = [ok |-> FALSE, view |-> None]
    BY <2>3 DEF Exec
  <2> QED BY <1>2, <2>2, <2>3
<1>4. exec' # None
  BY <1>3, TriageAssumption
<1>5. /\ "snap" \in current' => "snap" \in current
      /\ "ssh" \in current' => "ssh" \in current /\ (exec'.ok \/ exec = None \/ ~exec.ok)
      /\ current' \subseteq current \cup {"exec"}
  BY DEF EtcdExecMsg
<1>6. TypeOK'
  BY <1>1, <1>3, <1>5 DEF EtcdExecMsg, TriageInv, TypeOK
<1>7. LedByQuorum' /\ LeaderLogged'
  BY <1>1 DEF TriageInv, LedByQuorum, Quorum, Serving, At, LeaderLogged, Leader
<1>8. SnapFits'
  BY <1>1, <1>5 DEF TriageInv, SnapFits, At
<1>9. ExecFits'
  BY <1>1, <1>2, <1>4 DEF ExecFits, ViewNow, Serving, At
<1>10. ProbesFit'
  <2> SUFFICES ASSUME "ssh" \in current', NEW n \in Node
               PROVE  ssh[n] # None /\ SaysTruth(n)' /\ MembersFit(n)'
    BY <1>1 DEF ProbesFit
  <2>1. ssh[n] # None /\ SaysTruth(n) /\ MembersFit(n)
    BY <1>5 DEF TriageInv, ProbesFit
  <2>2. SaysTruth(n)'
    BY <1>1, <2>1 DEF SaysTruth, Serving, At
  <2>3. MembersFit(n)'
    BY <1>1, <1>4, <1>5, <2>1 DEF MembersFit, ViewNow, Serving, At
  <2> QED BY <2>1, <2>2, <2>3
<1> QED BY <1>6, <1>7, <1>8, <1>9, <1>10 DEF TriageInv

LEMMA ProbesInv ==
    ASSUME TriageInv, NEW S \in SUBSET (Node \ At(state, "off")), SSHMsgs(S)
    PROVE  TriageInv'
<1>1. UNCHANGED <<members, state, elected, led, log, came, changes, snap, asking, exec>>
  BY DEF SSHMsgs, worldVars
<1> DEFINE well == IF led THEN Serving(state) ELSE {}
           before(n) == IF ssh[n] = None THEN Unreached ELSE ssh[n]
           view(n) == IF ~WithEtcdctl THEN before(n).view ELSE IF n \in well THEN ViewNow ELSE None
           probe(n) == IF n \notin S THEN Unreached
                       ELSE [ok |-> TRUE, active |-> state[n] # "stopped", noEtcd |-> state[n] = "crashing",
                             healthy |-> n \in well, cause |-> state[n] = "crashing",
                             view |-> view(n), log |-> log[n]]
<1>2. \A n \in Node : ssh'[n] = probe(n)
  BY DEF SSHMsgs
<1>3. Unreached \in Probe /\ Unreached.ok = FALSE /\ Unreached.view = None
  BY DEF Unreached, Probe
<1>4. \A n \in Node : before(n) \in Probe
  BY <1>3 DEF TriageInv, TypeOK
<1>5. \A n \in Node : view(n) \in View \cup {None}
  BY <1>4, ViewIsView DEF TriageInv, TypeOK, Probe
<1>6. \A n \in Node : log[n] \in SUBSET (1..MaxTerm)
  <2>1. DOMAIN elected \subseteq 1..MaxTerm
    BY TriageAssumption DEF TriageInv, TypeOK
  <2> QED BY <2>1 DEF TriageInv, TypeOK
<1>7. \A n \in Node : probe(n) \in Probe
  <2> TAKE n \in Node
  <2> HIDE DEF view, well
  <2> QED BY <1>3, <1>5, <1>6 DEF Probe
<1>8. ssh' = [n \in Node |-> probe(n)]
  BY DEF SSHMsgs
<1>9. current' = current \cup {"ssh"}
  BY DEF SSHMsgs
<1>10. TypeOK'
  <2> HIDE DEF probe
  <2>1. ssh' \in [Node -> Probe \cup {None}]
    BY <1>7, <1>8
  <2> QED BY <1>1, <1>9, <2>1 DEF TriageInv, TypeOK
<1>11. LedByQuorum' /\ LeaderLogged'
  BY <1>1 DEF TriageInv, LedByQuorum, Quorum, Serving, At, LeaderLogged, Leader
<1>12. SnapFits' /\ ExecFits'
  BY <1>1, <1>9 DEF TriageInv, SnapFits, ExecFits, At, ViewNow, Serving
<1>13. ASSUME NEW n \in Node PROVE ssh'[n] # None /\ SaysTruth(n)' /\ MembersFit(n)'
  <2>1. ssh'[n] # None
    <3> HIDE DEF probe
    <3> QED BY <1>2, <1>7, TriageAssumption
  <2>2. SaysTruth(n)'
    <3> HIDE DEF view
    <3>1. ssh'[n] = probe(n)
      BY <1>2
    <3>2. Serving(state)' = Serving(state)
      BY <1>1 DEF Serving, At
    <3> QED BY <1>1, <1>3, <3>1, <3>2 DEF SaysTruth
  <2>3. MembersFit(n)'
    <3>1. ssh'[n].view = IF n \in S THEN view(n) ELSE None
      <4>1. ssh'[n] = probe(n)
        BY <1>2
      <4>2. CASE n \in S
        <5> HIDE DEF view
        <5> QED BY <4>1, <4>2
      <4>3. CASE n \notin S
        BY <1>3, <4>1, <4>3
      <4> QED BY <4>2, <4>3
    <3>2. CASE ~WithEtcdctl
      BY <1>1, <3>2 DEF WithEtcdctl, MembersFit
    <3>3. CASE WithEtcdctl
      <4>1. ssh'[n].view = None \/ (led /\ ssh'[n].view = ViewNow)
        BY <3>1, <3>3
      <4>2. ViewNow' = ViewNow
        BY <1>1 DEF ViewNow, Serving, At
      <4> QED BY <1>1, <4>1, <4>2 DEF MembersFit
    <3> QED BY <3>2, <3>3
  <2> QED BY <2>1, <2>2, <2>3
<1>14. ProbesFit'
  BY <1>13 DEF ProbesFit
<1> QED BY <1>10, <1>11, <1>12, <1>14 DEF TriageInv

LEMMA TriageStep == ASSUME TriageInv, [Next]_vars PROVE TriageInv'
<1>1. CASE UNCHANGED vars
  BY <1>1 DEF vars, worldVars, TriageInv, TypeOK, LedByQuorum, LeaderLogged, SnapFits, ExecFits, ProbesFit,
     SaysTruth, MembersFit, Quorum, Serving, At, ViewNow, Leader
<1>2. CASE Next
  BY <1>2, BreakInv, ReturnInv, ElectInv, SnapshotInv, ExecInv, ProbesInv DEF Next
<1> QED BY <1>1, <1>2

\* The evidence of the servers as they are is true of them (etcdExecCmd, collectCmds,
\* Probe.Merge), whatever is carried over from what is older.
THEOREM TriageCorrect == Spec => []TriageInv
BY TriageInit, TriageStep, PTL DEF Spec

-----------------------------------------------------------------------------
(* Minima and maxima *)

LEMMA MinOfNat ==
    ASSUME NEW S \in SUBSET Nat, S # {}
    PROVE  Min(S) \in S /\ \A y \in S : Min(S) <= y
<1>1. PICK x \in S : \A y \in S : <<y, x>> \notin OpToRel(<, Nat)
  BY WFMin, NatLessThanWellFounded, Zenon
<1>2. \A y \in S : ~(y < x)
  BY <1>1, Zenon DEF OpToRel
<1>3. \A y \in S : x <= y
  BY <1>2
<1> QED BY <1>3 DEF Min

LEMMA MaxOfNat ==
    ASSUME NEW k \in Nat, NEW S \in SUBSET (0..k), S # {}
    PROVE  Max(S) \in S /\ \A y \in S : y <= Max(S)
<1> DEFINE bounds == {b \in Nat : \A y \in S : y <= b}
           b == Min(bounds)
<1>1. b \in bounds /\ \A c \in bounds : b <= c
  <2>1. k \in bounds /\ bounds \subseteq Nat
    OBVIOUS
  <2> HIDE DEF bounds
  <2> QED BY <2>1, MinOfNat
<1>2. b \in S
  <2> SUFFICES ASSUME b \notin S PROVE FALSE
    OBVIOUS
  <2> HIDE DEF b
  <2>1. PICK y \in S : TRUE
    OBVIOUS
  <2>2. b > 0 /\ b - 1 \in bounds
    BY <1>1, <2>1
  <2> QED BY <1>1, <2>2
<1> HIDE DEF b
<1>3. \A y \in S : b >= y
  BY <1>1
<1> QED BY <1>2, <1>3 DEF Max

LEMMA FirstIsOne == ASSUME NEW S \in SUBSET Node, S # {} PROVE FirstOf(S) \in S
<1> DEFINE places == {i \in DOMAIN Servers : Servers[i] \in S}
<1>1. places \in SUBSET Nat /\ places # {}
  BY TriageAssumption DEF Node, ToSet
<1> HIDE DEF places
<1>2. Min(places) \in places
  BY <1>1, MinOfNat
<1> QED BY <1>2 DEF FirstOf, places

-----------------------------------------------------------------------------
(* What is known of the members *)

\* Where no exec view is out of date, the members known are the present ones.
LEMMA SourceIs ==
    ASSUME TriageInv,
           exec # None /\ exec.ok => "exec" \in current,
           (\E n \in Node : ssh[n] # None) => "ssh" \in current
    PROVE  Source = None \/ (led /\ Source = ViewNow)
<1>1. CASE exec # None /\ exec.ok
  BY <1>1 DEF TriageInv, ExecFits, Source
<1>2. CASE ~(exec # None /\ exec.ok)
  <2> DEFINE with == {n \in Node : Answered(n) /\ ssh[n].view # None}
  <2>1. Source = IF with = {} THEN None ELSE ssh[FirstOf(with)].view
    BY <1>2 DEF Source
  <2>2. ASSUME with # {} PROVE led /\ ssh[FirstOf(with)].view = ViewNow
    <3>1. FirstOf(with) \in with
      <4>1. with \in SUBSET Node
        OBVIOUS
      <4> HIDE DEF with
      <4> QED BY <2>2, <4>1, FirstIsOne
    <3>2. PICK n \in with : n = FirstOf(with)
      BY <3>1
    <3>3. ssh[n] # None /\ ssh[n].view # None /\ n \in Node
      BY DEF Answered
    <3>4. MembersFit(n)
      BY <3>3 DEF TriageInv, ProbesFit
    <3> QED BY <1>2, <3>2, <3>3, <3>4 DEF MembersFit
  <2> HIDE DEF with
  <2> QED BY <2>1, <2>2
<1> QED BY <1>1, <1>2

\* What the members say of a voter that serves, and of one that does not.
LEMMA VoterIs ==
    ASSUME TriageInv, Source = ViewNow, NEW n \in Node \cap members.voters
    PROVE  Matched(n) /\ Known(n) /\ Source # None /\ n \notin Learners /\ (Healthy(n) <=> n \in Serving(state))
<1>1. Source # None
  BY ViewIsView DEF TriageInv, TypeOK
<1>2. Voters = members.voters /\ Learners = members.learners
  BY <1>1 DEF Voters, Learners, ViewNow
<1>3. n \notin members.learners
  BY TriageAssumption DEF TriageInv, TypeOK
<1>4. Matched(n)
  BY <1>2 DEF Matched
<1>5. Healthy(n) <=> n \in Serving(state)
  BY <1>4 DEF Healthy, ViewNow
<1> QED BY <1>1, <1>2, <1>3, <1>4, <1>5 DEF Known

-----------------------------------------------------------------------------
(* A quorum that is said to be lost *)

\* A quorum that is said to be lost is lost (etcdQuorumOf): members that nobody
\* could check do not count, and those that serve are a majority of the voters as
\* long as one leads.  Where the claim is false none of these was seen: by no member
\* list, which would show them healthy, and by no probe (triageEtcd, healthy == 0).
THEOREM QuorumIsLost == Spec => []LostIsTrue
<1>1. TriageInv => LostIsTrue
  <2> SUFFICES ASSUME TriageInv, snap # None, snap.up, ClusterDown, Source = None => ServersVote,
                      exec # None => "exec" \in current,
                      (\E n \in Node : ssh[n] # None) => "ssh" \in current,
                      led
               PROVE  /\ Source = None /\ \E n \in Node : Answered(n)
                      /\ \A n \in Serving(state) : ~Answered(n)
    BY DEF LostIsTrue
  <2> DEFINE serve == Serving(state) \cap members.voters
  <2>1. Majority(serve, members.voters)
    BY DEF TriageInv, LedByQuorum, Quorum
  <2>2. Recs = Node /\ ~ApiDown
    BY DEF Recs, ApiDown
  <2>4. serve \subseteq Node /\ IsFiniteSet(Node) /\ IsFiniteSet(members.voters)
    BY NodeFinite, TriageAssumption DEF TriageInv, TypeOK, Serving, At
  <2>5. Cardinality(members.voters) \in Nat /\ Cardinality(Node) \in Nat
    BY <2>4, FS_CardinalityType
  <2>6. CASE Source = ViewNow
    <3>1. Total = Cardinality(members.voters)
      BY <2>6, ViewIsView DEF TriageInv, TypeOK, Total, Voters, ViewNow
    <3> DEFINE seen == {n \in Recs \ Learners : Known(n) /\ Healthy(n)}
    <3>2. serve \subseteq seen
      BY <2>2, <2>4, <2>6, VoterIs
    <3>3. IsFiniteSet(seen)
      BY <2>2, <2>4, FS_Subset
    <3>4. Cardinality(serve) <= Cardinality(seen) /\ IsFiniteSet(serve)
      BY <3>2, <3>3, FS_Subset
    <3>5. Cardinality(serve) \in Nat /\ Cardinality(seen) \in Nat
      BY <3>3, <3>4, FS_CardinalityType
    <3>6. Up = Cardinality(seen)
      BY DEF Up
    <3>7. Up > 0 /\ Up >= Need
      <4> HIDE DEF seen, serve
      <4> QED BY <2>1, <2>5, <3>1, <3>4, <3>5, <3>6 DEF Majority, Need
    <3>8. Up \in Nat /\ Need \in Nat
      BY <2>5, <3>1, <3>5, <3>6 DEF Need
    <3> QED BY <3>7, <3>8 DEF ClusterDown, Lost
  <2>7. CASE Source = None /\ Lost
    <3>0. Total - Down < Need
      BY <2>2, <2>7 DEF Lost
    <3>1. Total = Cardinality(Node) /\ Learners = {} /\ Voters = {}
      BY <2>2, <2>7 DEF Total, Learners, Voters
    <3>2. \A n \in Node : Known(n) <=> Answered(n)
      BY <3>1 DEF Known, Matched
    <3>3. \A n \in Node : Answered(n) => "ssh" \in current
      BY DEF Answered
    <3>4. \A n \in Node : Answered(n) => (Healthy(n) <=> n \in Serving(state))
      BY <3>1, <3>3 DEF TriageInv, ProbesFit, SaysTruth, Healthy, Matched, Answered
    <3> DEFINE dead == {n \in Recs \ Learners : Known(n) /\ ~Healthy(n)}
    <3>5. dead \subseteq Node /\ serve \subseteq Node /\ dead \cap serve = {}
      BY <2>2, <2>4, <3>2, <3>4
    <3>6. IsFiniteSet(dead) /\ IsFiniteSet(serve)
      BY <2>4, <3>5, FS_Subset
    <3>7. Cardinality(dead \cup serve) = Cardinality(dead) + Cardinality(serve)
      <4>1. Cardinality(dead \cup serve) = Cardinality(dead) + Cardinality(serve) - Cardinality(dead \cap serve)
        BY <3>6, FS_Union
      <4>2. Cardinality(dead \cap serve) = 0
        BY <3>5, FS_EmptySet
      <4>3. Cardinality(dead) \in Nat /\ Cardinality(serve) \in Nat
        BY <3>6, FS_CardinalityType
      <4> HIDE DEF dead, serve
      <4> QED BY <4>1, <4>2, <4>3
    <3>8. Cardinality(dead \cup serve) <= Cardinality(Node)
      BY <2>4, <3>5, FS_Subset
    <3>9. Cardinality(dead) \in Nat /\ Cardinality(serve) \in Nat
      BY <3>6, FS_CardinalityType
    <3>10. Down = Cardinality(dead)
      BY DEF Down
    <3>11. Cardinality(Node) \div 2 <= Cardinality(members.voters) \div 2
      BY <2>7 DEF ServersVote
    <3>12. Cardinality(serve) >= Cardinality(members.voters) \div 2 + 1
      BY <2>1 DEF Majority
    <3>13. Cardinality(Node) - Cardinality(dead) < Cardinality(Node) \div 2 + 1
      BY <3>0, <3>1, <3>10 DEF Need
    <3> HIDE DEF dead, serve
    <3> QED BY <2>5, <3>7, <3>8, <3>9, <3>11, <3>12, <3>13
  <2>8. CASE Source = None /\ ~Lost
    <3>1. Up = 0 /\ Learners = {} /\ Voters = {}
      BY <2>8 DEF ClusterDown, Learners, Voters
    <3>0. \E m \in Node : Answered(m)
      BY <2>2, <2>8, <3>1 DEF ClusterDown, Known, Matched
    <3> SUFFICES ASSUME NEW n \in Serving(state), Answered(n) PROVE FALSE
      BY <2>8, <3>0
    <3>2. n \in Node /\ Known(n)
      BY DEF Serving, At, Known
    <3>3. Healthy(n)
      BY <3>1, <3>2 DEF TriageInv, ProbesFit, SaysTruth, Healthy, Matched, Answered
    <3> DEFINE seen == {m \in Recs \ Learners : Known(m) /\ Healthy(m)}
    <3>4. n \in seen /\ IsFiniteSet(seen)
      <4>1. seen \subseteq Node
        BY <2>2
      <4> QED BY <2>2, <2>4, <3>1, <3>2, <3>3, <4>1, FS_Subset
    <3>5. Cardinality(seen) # 0
      <4> HIDE DEF seen
      <4> QED BY <3>4, FS_EmptySet
    <3> QED BY <3>1, <3>5 DEF Up
  <2> QED BY <2>6, <2>7, <2>8, SourceIs
<1> QED BY <1>1, TriageCorrect, PTL

-----------------------------------------------------------------------------
(* The servers that are named *)

\* With evidence of the servers as they are, a voter that serves under a leader is
\* not called broken, and one that is broken is named or is part of an outage
\* (triageOne, triageEtcd).
THEOREM BrokenAreNamed == Spec => []BrokenAreCovered
<1>1. TriageInv => BrokenAreCovered
  <2> SUFFICES ASSUME TriageInv, UpToDate, snap.up, NEW n \in Node \cap members.voters
               PROVE  IF led /\ state[n] = "serving" THEN One(n) \in {"none", "recovered"}
                      ELSE Known(n) => Covered(n)
    BY DEF BrokenAreCovered
  <2>1. "snap" \in current /\ "exec" \in current /\ "ssh" \in current
    BY DEF UpToDate
  <2>2. /\ n \in Recs /\ snap # None
        /\ snap.ready = Node \ (At(state, "off") \cup At(state, "stopped"))
        /\ snap.crash = At(state, "crashing")
    BY <2>1 DEF Recs, TriageInv, SnapFits
  <2>4. ssh[n] # None /\ SaysTruth(n)
    BY <2>1 DEF TriageInv, ProbesFit
  <2>3. Source = None \/ (led /\ Source = ViewNow)
    BY <2>1, SourceIs
  <2>5. CASE led
    <3>1. /\ n \notin Learners /\ ~NotMember(n)
          /\ Known(n) => (Healthy(n) <=> state[n] = "serving")
      <4>1. n \in Serving(state) <=> state[n] = "serving"
        BY DEF Serving, At
      <4>2. CASE Source = ViewNow
        BY <4>1, <4>2, VoterIs DEF NotMember
      <4>3. CASE Source = None
        <5>1. Learners = {} /\ ~Matched(n)
          BY <4>3 DEF Matched, Voters, Learners
        <5> QED BY <2>4, <2>5, <4>1, <4>3, <5>1 DEF Known, Healthy, NotMember, Answered, SaysTruth
      <4> QED BY <2>3, <4>2, <4>3
    <3>2. CASE state[n] = "serving"
      <4>1. Ready(n) /\ n \notin snap.crash
        BY <2>2, <3>2 DEF Ready, At
      <4>2. Answered(n) => ssh[n].active
        BY <2>4, <3>2 DEF Answered, SaysTruth
      <4>3. ~Unhealthy(n) /\ ~NotMember(n)
        BY <3>1, <3>2 DEF Unhealthy
      <4>4. Answered(n) => Known(n) /\ Healthy(n)
        BY <3>1, <3>2 DEF Known
      <4>5. One(n) \in {"none", "recovered"}
        BY <2>2, <4>1, <4>2, <4>3, <4>4 DEF One
      <4> QED BY <2>5, <3>2, <4>5
    <3>3. CASE state[n] # "serving" /\ Known(n)
      <4>1. Unhealthy(n)
        BY <3>1, <3>3 DEF Unhealthy
      <4>2. One(n) = "none" => Lost
        BY <2>2, <3>1, <4>1 DEF One
      <4> QED BY <2>2, <2>5, <3>3, <4>2 DEF Covered, ClusterDown
    <3> QED BY <2>5, <3>2, <3>3
  <2>6. CASE ~led
    <3>1. Source = None
      BY <2>1, <2>6, SourceIs
    <3>2. Voters = {} /\ Learners = {}
      BY <3>1 DEF Voters, Learners
    <3>3. \A m \in Node : ~Healthy(m)
      BY <2>1, <2>6, <3>2 DEF Healthy, Matched, Answered, TriageInv, ProbesFit, SaysTruth
    <3>4. Up = 0
      <4>1. {m \in Recs \ Learners : Known(m) /\ Healthy(m)} = {}
        BY <3>3 DEF Recs
      <4> QED BY <4>1, FS_EmptySet DEF Up
    <3> QED BY <2>2, <2>6, <3>4 DEF Covered, ClusterDown
  <2> QED BY <2>5, <2>6
<1> QED BY <1>1, TriageCorrect, PTL

-----------------------------------------------------------------------------
(* An outage *)

\* Once every server has answered, an outage is said to be one, and the server to
\* reset from is the last leader, whose data is the newest (rankEtcdNodes): it has
\* logged its election, and nobody has a later one.
THEOREM NewestIsTarget == Spec => []OutageIsDiagnosed
<1>1. TriageInv => OutageIsDiagnosed
  <2> SUFFICES ASSUME TriageInv, snap # None, ~snap.up, ~led, exec # None => ~exec.ok,
                      "ssh" \in current, \A n \in Node : Answered(n)
               PROVE  ClusterDown /\ Target # None /\ \A n \in Node : Data(n) <= Data(Target)
    BY DEF OutageIsDiagnosed
  <2> DEFINE T == Len(elected)
             L == Leader
  <2>1. T \in Nat /\ T >= 1 /\ L \in Node /\ L = elected[T] /\ T \in log[L] /\ L # None
    BY ElectedIs, TriageAssumption DEF TriageInv, LeaderLogged
  <2>2. Recs = Node
    BY DEF Recs
  <2>3. \A n \in Node : ssh[n].ok /\ SaysTruth(n)
    BY DEF Answered, TriageInv, ProbesFit
  <2>4. \A n \in Node : ssh[n].log = log[n] /\ ~ssh[n].healthy
    BY <2>3 DEF SaysTruth
  <2>5. \A n \in Node : log[n] \subseteq 1..T
    BY DEF TriageInv, TypeOK
  <2>6. ClusterDown
    <3>1. Source = None
      BY SourceIs
    <3>2. \A n \in Node : ~Matched(n)
      BY <3>1 DEF Matched, Voters, Learners
    <3>3. {n \in Recs \ Learners : Known(n) /\ Healthy(n)} = {}
      BY <2>2, <2>4, <3>2 DEF Healthy
    <3>4. Up = 0
      BY <3>3, FS_EmptySet DEF Up
    <3>5. Known(L)
      BY <2>1 DEF Known
    <3> QED BY <2>1, <2>2, <3>4, <3>5 DEF ClusterDown
  <2> DEFINE terms(n) == {t \in 1..T : elected[t] = n /\ \E r \in Recs : Answered(r) /\ t \in ssh[r].log}
  <2>7. \A n \in Node : LeaderTerm(n) = Max({0} \cup terms(n))
    BY DEF LeaderTerm
  <2>8. \A n \in Node : ({0} \cup terms(n)) \in SUBSET (0..T)
    BY <2>1
  <2>9. \A n \in Node : /\ LeaderTerm(n) \in {0} \cup terms(n)
                        /\ \A t \in terms(n) : t <= LeaderTerm(n)
    <3> TAKE n \in Node
    <3> HIDE DEF terms
    <3> QED BY <2>1, <2>7, <2>8, MaxOfNat
  <2>10. T \in terms(L)
    BY <2>1, <2>2, <2>4
  <2>11. LeaderTerm(L) = T
    BY <2>1, <2>9, <2>10
  <2>12. \A n \in Node : n # L => LeaderTerm(n) \in 0..(T - 1)
    BY <2>1, <2>9
  <2>13. \A n \in Node : n # L => Ahead(L, n) /\ ~Ahead(n, L)
    BY <2>1, <2>11, <2>12 DEF Ahead
  <2>14. \A n \in Node : /\ Data(n) \in 0..T
                         /\ T \in log[n] => Data(n) = T
    <3> TAKE n \in Node
    <3>1. ({0} \cup log[n]) \in SUBSET (0..T)
      BY <2>1, <2>5
    <3>2. Data(n) \in {0} \cup log[n] /\ \A t \in log[n] : t <= Data(n)
      BY <2>1, <3>1, MaxOfNat DEF Data
    <3> QED BY <2>1, <3>1, <3>2
  <2>15. Disk(L) = Data(L)
    BY <2>1, <2>4 DEF Disk, Data
  <2>16. ~Ahead(L, L)
    BY <2>1, <2>11, <2>14, <2>15 DEF Ahead
  <2>17. Best = {L}
    BY <2>1, <2>2, <2>13, <2>16 DEF Best
  <2>18. FirstOf(Best) = L
    <3>1. Best \in SUBSET Node /\ Best # {}
      BY <2>1, <2>17
    <3>2. FirstOf(Best) \in Best
      BY <3>1, FirstIsOne
    <3> QED BY <2>17, <3>2
  <2>19. Target = L
    BY <2>1, <2>11, <2>17, <2>18 DEF Target
  <2>20. \A n \in Node : Data(n) <= Data(L)
    BY <2>1, <2>14
  <2> QED BY <2>1, <2>6, <2>19, <2>20
<1> QED BY <1>1, TriageCorrect, PTL
=============================================================================
