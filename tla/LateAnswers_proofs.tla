------------------------ MODULE LateAnswers_proofs ------------------------
(***************************************************************************)
(* The answers of ui.App that can be late, for any clusters, nodes, hosts, *)
(* viewers and commands in flight: no apiserver, no guarded side result    *)
(* and no log line of what the operator has left is ever kept.             *)
(*                                                                         *)
(* Each invariant is one about the messages on their way: a message whose  *)
(* guard still matches was asked of what is on show now, because whatever  *)
(* moves the cluster, the login or the container moves the guard too.      *)
(***************************************************************************)
EXTENDS LateAnswers, Integers, TLAPS

-----------------------------------------------------------------------------
(* ApiFailover: NoForeignClient is not inductive.  A switch to a host is   *)
(* safe because the attempt uses the kubeconfig of this cluster, which is  *)
(* known of an attempt only as long as seq has not moved (live), and a     *)
(* host of another cluster does not answer to that kubeconfig.             *)

\* What a live attempt would install is a client of this cluster.
Ours ==
    /\ NoForeignClient
    /\ \A i \in Slots : attempts[i] # Idle /\ attempts[i].live => attempts[i].of = cluster

IInv == TypeOK /\ Ours /\ TryingHasAttempt

\* Once seq has moved the attempts in flight are the same ones, none live.
LEMMA SupersededNotLive ==
    ASSUME NEW f \in [Slots -> Attempt \cup {Idle}]
    PROVE  /\ Superseded(f) \in [Slots -> Attempt \cup {Idle}]
           /\ \A i \in Slots : (Superseded(f)[i] = Idle) <=> (f[i] = Idle)
           /\ \A i \in Slots : Superseded(f)[i] # Idle => Superseded(f)[i].live = FALSE
<1> SUFFICES ASSUME NEW i \in Slots
             PROVE  /\ Superseded(f)[i] \in Attempt \cup {Idle}
                    /\ (Superseded(f)[i] = Idle) <=> (f[i] = Idle)
                    /\ Superseded(f)[i] # Idle => Superseded(f)[i].live = FALSE
  BY DEF Superseded
<1>1. CASE f[i] = Idle
  BY <1>1 DEF Superseded
<1>2. CASE f[i] # Idle
  <2>1. f[i] \in Attempt
    BY <1>2
  <2>2. /\ [f[i] EXCEPT !.live = FALSE] \in Attempt
        /\ [f[i] EXCEPT !.live = FALSE].live = FALSE
    BY <2>1 DEF Attempt
  <2>3. Superseded(f)[i] = [f[i] EXCEPT !.live = FALSE]
    BY <1>2 DEF Superseded
  <2> QED BY <1>2, <2>2, <2>3, IdleAssumption
<1> QED BY <1>1, <1>2

LEMMA InitInv == Init => IInv
  BY HostsAssumption DEF Init, IInv, TypeOK, Ours, NoForeignClient, TryingHasAttempt

\* apiFailoverCmd starts an attempt with this cluster's kubeconfig, or none.
LEMMA FailoverCmdInv ==
    ASSUME IInv, FailoverCmd, cluster' = cluster, peers' \subseteq Host, apiTried' \subseteq Host
    PROVE  /\ attempts' \in [Slots -> Attempt \cup {Idle}]
           /\ apiTrying' \in BOOLEAN
           /\ \A i \in Slots : attempts'[i] # Idle /\ attempts'[i].live => attempts'[i].of = cluster
           /\ TryingHasAttempt'
<1> USE DEF IInv
<1>1. CASE snap' = "down" /\ ~apiTrying /\ Candidates # {}
  <2> DEFINE a == [hosts |-> Candidates, of |-> context, live |-> TRUE]
  <2>1. PICK i \in Slots : attempts[i] = Idle /\ attempts' = [attempts EXCEPT ![i] = a]
    BY <1>1 DEF FailoverCmd
  <2>2. Candidates \in (SUBSET Host) \ {{}} /\ context \in Cluster
    BY <1>1 DEF Candidates, TypeOK
  <2>3. a \in Attempt /\ a # Idle /\ a.of = context
    <3>1. a \in Attempt
      BY <2>2 DEF Attempt
    <3> QED BY <3>1, IdleAssumption
  <2>4. context = cluster
    BY DEF Ours, NoForeignClient
  <2> HIDE DEF a
  <2>5. attempts' \in [Slots -> Attempt \cup {Idle}]
    BY <2>1, <2>3 DEF TypeOK
  <2>6. attempts'[i] = a /\ \A j \in Slots \ {i} : attempts'[j] = attempts[j]
    BY <2>1 DEF TypeOK
  <2>7. apiTrying' = TRUE
    BY <1>1 DEF FailoverCmd
  <2> QED BY <2>3, <2>4, <2>5, <2>6, <2>7 DEF Ours, TryingHasAttempt
<1>2. CASE ~(snap' = "down" /\ ~apiTrying /\ Candidates # {})
  BY <1>2 DEF FailoverCmd, TypeOK, Ours, TryingHasAttempt
<1> QED BY <1>1, <1>2

\* A snapshot or an etcd answer: what is known of the hosts, then the command.
LEMMA AnswerInv ==
    ASSUME IInv, FailoverCmd, UNCHANGED <<cluster, context, host, asked, sshHosts>>,
           peers' \subseteq Host, apiTried' \subseteq Host, refreshing' \in BOOLEAN,
           snap' \in {"nil", "ok", "down", "refused"}
    PROVE  IInv'
  BY FailoverCmdInv DEF IInv, TypeOK, Ours, NoForeignClient

\* A message of an attempt ends it and leaves the others as they are.
LEMMA FailoverMsgInv ==
    ASSUME IInv, NEW i \in Slots, FailoverMsg(i)
    PROVE  IInv'
<1> USE DEF IInv
<1>1. attempts[i] \in Attempt /\ attempts[i] # Idle
  BY DEF FailoverMsg, TypeOK
<1> DEFINE rest == [attempts EXCEPT ![i] = Idle]
<1>2. /\ rest \in [Slots -> Attempt \cup {Idle}]
      /\ \A j \in Slots : rest[j] # Idle => rest[j] = attempts[j]
  BY DEF TypeOK
<1>3. CASE FailoverFailed(i)
  <2>1. apiTried' \subseteq Host
    BY <1>1, <1>3 DEF FailoverFailed, TypeOK, Attempt
  <2>2. attempts' = rest
    BY <1>3 DEF FailoverFailed
  <2> QED BY <1>2, <1>3, <2>1, <2>2 DEF FailoverFailed, Ends, TypeOK, Ours, NoForeignClient, TryingHasAttempt
<1>4. ASSUME NEW h \in attempts[i].hosts, NEW tried \in Pings(attempts[i], h),
             FailoverSwitched(i, h, tried)
      PROVE  IInv'
  <2>1. h \in Host /\ tried \subseteq Host
    BY <1>1 DEF Pings, Attempt
  <2>2. attempts[i].of = cluster /\ (h \in HostsOf[cluster] \/ cluster \in Unverified)
    BY <1>1, <1>4 DEF FailoverSwitched, Ours, Answers
  <2>3. /\ host' = h /\ context' = cluster /\ apiTried' \subseteq Host /\ apiTrying' = FALSE
        /\ UNCHANGED <<cluster, snap, peers, sshHosts>>
    BY <1>4, <2>1, <2>2 DEF FailoverSwitched, Ends, TypeOK
  <2>4. NoForeignClient'
    BY <2>2, <2>3 DEF NoForeignClient
  <2>5. CASE refreshing
    <3>1. attempts' = rest /\ UNCHANGED <<refreshing, asked>>
      BY <1>4, <2>5 DEF FailoverSwitched
    <3> QED BY <1>2, <2>1, <2>3, <2>4, <3>1 DEF TypeOK, Ours, TryingHasAttempt
  <2>6. CASE ~refreshing
    <3>1. attempts' = Superseded(rest) /\ refreshing' = TRUE /\ asked' = h
      BY <1>4, <2>6 DEF FailoverSwitched
    <3>2. attempts' \in [Slots -> Attempt \cup {Idle}]
          /\ \A j \in Slots : attempts'[j] # Idle => attempts'[j].live = FALSE
      BY <1>2, <3>1, SupersededNotLive
    <3> QED BY <2>1, <2>3, <2>4, <3>1, <3>2 DEF TypeOK, Ours, TryingHasAttempt
  <2> QED BY <2>5, <2>6
<1>5. ASSUME NEW h \in attempts[i].hosts, FailoverDropped(i, h)
      PROVE  IInv'
  <2>1. attempts' = rest
    BY <1>5 DEF FailoverDropped
  <2> QED BY <1>2, <1>5, <2>1 DEF FailoverDropped, Ends, TypeOK, Ours, NoForeignClient, TryingHasAttempt
<1> QED BY <1>3, <1>4, <1>5 DEF FailoverMsg

\* A refresh supersedes every attempt in flight.
LEMMA RefreshCmdInv ==
    ASSUME TypeOK, NEW h \in Host, RefreshCmd(h)
    PROVE  /\ refreshing' \in BOOLEAN /\ asked' \in Host
           /\ attempts' \in [Slots -> Attempt \cup {Idle}]
           /\ \A i \in Slots : attempts'[i] # Idle => attempts'[i].live = FALSE
           /\ \A i \in Slots : (attempts'[i] = Idle) <=> (attempts[i] = Idle)
<1>1. attempts \in [Slots -> Attempt \cup {Idle}]
  BY DEF TypeOK
<1> QED BY <1>1, SupersededNotLive DEF RefreshCmd

LEMMA NextInv == IInv /\ [Next]_vars => IInv'
<1> SUFFICES ASSUME IInv, [Next]_vars PROVE IInv'
  OBVIOUS
<1> USE DEF IInv
<1>0. \A c \in Cluster : HostsOf[c] \subseteq Host
  BY HostsAssumption
<1>1. ASSUME NEW c \in Cluster, SnapshotOK(c) PROVE IInv'
  <2>1. peers' \subseteq Host
    BY <1>0, <1>1 DEF SnapshotOK, TypeOK
  <2> QED BY <1>1, <2>1, AnswerInv DEF SnapshotOK
<1>2. CASE SnapshotRefused \/ SnapshotDown
  BY <1>2, AnswerInv DEF SnapshotRefused, SnapshotDown, TypeOK
<1>3. CASE Refresh
  <2>1. host \in Host
    BY DEF TypeOK
  <2> QED BY <1>3, <2>1, RefreshCmdInv DEF Refresh, TypeOK, Ours, NoForeignClient, TryingHasAttempt
<1>4. ASSUME NEW c \in Cluster, EtcdMsg(c) PROVE IInv'
  <2>1. peers' \subseteq Host
    BY <1>0, <1>4 DEF EtcdMsg, TypeOK
  <2> QED BY <1>4, <2>1, AnswerInv DEF EtcdMsg, TypeOK
<1>5. CASE OverrideAddress
  BY <1>5 DEF OverrideAddress, TypeOK, Ours, NoForeignClient, TryingHasAttempt
<1>6. CASE \E i \in Slots : FailoverMsg(i)
  BY <1>6, FailoverMsgInv
<1>7. ASSUME NEW c \in Cluster, SwitchContext(c) PROVE IInv'
  <2>1. ServerOf[c] \in Host /\ ServerOf[c] \in HostsOf[c]
    BY HostsAssumption
  <2>2. sshHosts' \subseteq Host
    BY <1>0, <1>7 DEF SwitchContext, TypeOK
  <2> QED BY <1>7, <2>1, <2>2, RefreshCmdInv
          DEF SwitchContext, TypeOK, Ours, NoForeignClient, TryingHasAttempt
<1>8. CASE UNCHANGED vars
  BY <1>8 DEF vars, TypeOK, Ours, NoForeignClient, TryingHasAttempt
<1> QED BY <1>1, <1>2, <1>3, <1>4, <1>5, <1>6, <1>7, <1>8 DEF Next

\* The failover installs no client of another kubeconfig and, where the
\* certificates are checked, none of another cluster's apiserver, although the
\* addresses of ssh.hosts are tried too; and it is never left disabled
\* (apiFailoverCmd, apiFailoverMsg, switchContext).
THEOREM FailoverCorrect ==
    Spec => [](TypeOK /\ NoForeignClient /\ TryingHasAttempt)
<1>1. IInv => TypeOK /\ NoForeignClient /\ TryingHasAttempt
  BY DEF IInv, Ours
<1> QED BY <1>1, InitInv, NextInv, PTL DEF Spec

-----------------------------------------------------------------------------
(* SideResults *)

\* What an answer on its way may be: one whose gen or seq still matches was
\* asked of the cluster the app is attached to, and none is from the future.
CmdsAreOurs(B, g, s, c) ==
    \A m \in Side!BagToSet(B) :
        /\ m.kind \in {"exec", "s3check"} => m.guard \in Int /\ m.guard <= g /\ (m.guard = g => m.from = c)
        /\ m.kind = "crd" => m.guard \in Int /\ m.guard <= s /\ (m.guard = s => m.from = c)

SideInv ==
    /\ gen \in Int /\ seq \in Int
    /\ Side!IsABag(cmds)
    /\ DOMAIN s3Reach = Node
    /\ CmdsAreOurs(cmds, gen, seq, shown)
    /\ GuardedResultsAreOurs

\* A bag with one more copy of some elements holds no others.
LEMMA IssueAdds ==
  ASSUME NEW B, Side!IsABag(B), NEW S
  PROVE  Side!IsABag(Side!(+)(B, Side!SetToBag(S))) /\ Side!BagToSet(Side!(+)(B, Side!SetToBag(S))) = Side!BagToSet(B) \cup S
  BY DEF Side!IsABag, Side!BagToSet, Side!SetToBag, Side!(+)

\* A bag with one copy less holds nothing new.
LEMMA AnswerTakes ==
  ASSUME NEW B, Side!IsABag(B), NEW p \in Side!BagToSet(B)
  PROVE  Side!IsABag(Side!(-)(B, Side!SetToBag({p}))) /\ Side!BagToSet(Side!(-)(B, Side!SetToBag({p}))) \subseteq Side!BagToSet(B)
  <1> DEFINE C == [e \in Side!BagToSet(B) |-> IF e \in {p} THEN B[e] - 1 ELSE B[e]]
             T == Side!(-)(B, Side!SetToBag({p}))
  <1>1. \A e \in Side!BagToSet(B) : B[e] \in Nat /\ B[e] > 0
      BY DEF Side!IsABag, Side!BagToSet
  <1>2. T = [e \in {d \in Side!BagToSet(B) : C[d] > 0} |-> C[e]]
      BY DEF Side!SetToBag, Side!BagToSet, Side!(-)
  <1>3. \A d \in Side!BagToSet(B) : C[d] \in Nat
      BY <1>1
  <1> HIDE DEF C, T
  <1>4. Side!IsABag(T) /\ Side!BagToSet(T) \subseteq Side!BagToSet(B)
      BY <1>2, <1>3 DEF Side!IsABag, Side!BagToSet
  <1> QED BY <1>4 DEF T

\* New commands of the current guards asked here keep it.
LEMMA IssueKeeps ==
  ASSUME NEW B, Side!IsABag(B), NEW g \in Int, NEW s \in Int, NEW c, CmdsAreOurs(B, g, s, c), NEW S,
         \A m \in S : /\ m.kind \in {"exec", "s3check"} => m.guard = g /\ m.from = c
                      /\ m.kind = "crd" => m.guard = s /\ m.from = c
  PROVE  Side!IsABag(Side!(+)(B, Side!SetToBag(S))) /\ CmdsAreOurs(Side!(+)(B, Side!SetToBag(S)), g, s, c)
  BY IssueAdds DEF CmdsAreOurs

LEMMA AnsweredKeeps ==
  ASSUME NEW B, Side!IsABag(B), NEW p \in Side!BagToSet(B), NEW g, NEW s, NEW c, CmdsAreOurs(B, g, s, c)
  PROVE  Side!IsABag(Side!(-)(B, Side!SetToBag({p}))) /\ CmdsAreOurs(Side!(-)(B, Side!SetToBag({p})), g, s, c)
  BY AnswerTakes DEF CmdsAreOurs

\* seq only moves forward; gen and cluster are not the chain's.
LEMMA SeqMoves ==
  ASSUME seq \in Int, NEW B, NEW g, NEW c, CmdsAreOurs(B, g, seq, c),
         Side!RefreshUnlessRunning \/ (\E t \in ticks : Side!TickMsg(t)) \/ (\E f \in fetches : Side!SnapshotMsg(f))
         \/ UNCHANGED Side!chainVars
  PROVE  seq' \in Int /\ shown' = shown /\ (crdCounts' \in {None, shown'} => crdCounts' \in {None, shown})
         /\ CmdsAreOurs(B, g, seq', c)
  BY DEF Side!RefreshUnlessRunning, Side!TickMsg, Side!SnapshotMsg, Side!RefreshCmd, Side!chainVars, CmdsAreOurs

\* The command etcdExecCmd builds.
LEMMA ExecCmdHere == Side!EtcdExecCmd.kind = "exec" /\ Side!EtcdExecCmd.guard = gen /\ Side!EtcdExecCmd.from = shown
  BY DEF Side!EtcdExecCmd, Side!NewCmd

LEMMA OtherCmdsHere ==
  /\ Side!HelmCmd.kind = "helm" /\ Side!S3Cmd.kind = "s3"
  /\ Side!CRDCountCmd.kind = "crd" /\ Side!CRDCountCmd.guard = seq /\ Side!CRDCountCmd.from = shown
  /\ \A S, x : \A m \in Side!S3CheckCmds(S, x) : m.kind = "s3check" /\ m.guard = gen /\ m.from = shown
  BY DEF Side!HelmCmd, Side!S3Cmd, Side!CRDCountCmd, Side!S3CheckCmds, Side!NewCmd

\* Once the gen moved, and with the cluster the seq, the answers under way are
\* of an earlier one.
LEMMA GuardsMove ==
  ASSUME NEW B, NEW g \in Int, NEW s \in Int, NEW c, CmdsAreOurs(B, g, s, c),
         NEW s1 \in Int, NEW c1, s1 > s \/ (s1 = s /\ c1 = c)
  PROVE  CmdsAreOurs(B, g + 1, s1, c1)
  BY DEF CmdsAreOurs

LEMMA SideInitInv == Side!Init => SideInv
  <1> SUFFICES ASSUME Side!Init PROVE SideInv
      OBVIOUS
  <1>1. cmds = [e \in {} |-> 1] /\ Side!IsABag(cmds) /\ Side!BagToSet(cmds) = {}
      BY DEF Side!Init, Side!EmptyBag, Side!SetToBag, Side!IsABag, Side!BagToSet
  <1> QED BY <1>1 DEF Side!Init, Side!ChainInit, SideInv, CmdsAreOurs, GuardedResultsAreOurs, Side!GuardedResultsAreOurs

\* No step of the side results breaks the invariant.
LEMMA SideNextInv == SideInv /\ [Side!Next]_(Side!vars) => SideInv'
  <1> SUFFICES ASSUME SideInv, [Side!Next]_(Side!vars) PROVE SideInv'
      OBVIOUS
  <1> USE DEF SideInv, GuardedResultsAreOurs, Side!GuardedResultsAreOurs
  <1>1. CASE Side!Tick
    <2>1. UNCHANGED Side!sideVars /\ \E t \in ticks : Side!TickMsg(t)
        BY <1>1 DEF Side!Tick
    <2>2. seq' \in Int /\ shown' = shown /\ CmdsAreOurs(cmds, gen, seq', shown)
        BY <2>1, SeqMoves
    <2> QED BY <2>1, <2>2 DEF Side!sideVars
  <1>2. ASSUME NEW f \in fetches, NEW wants \in SUBSET {"helm", "exec", "crd"}, Side!Snapshot(f, wants)
        PROVE  SideInv'
    <2> DEFINE S == {c \in {Side!HelmCmd, Side!EtcdExecCmd, Side!CRDCountCmd} : c.kind \in wants}
    <2>1. /\ seq' = seq /\ shown' = shown /\ UNCHANGED <<gen, s3Reach, etcdExec>> /\ crdCounts' = None
          /\ cmds' = Side!(+)(cmds, Side!SetToBag(S))
        BY <1>2 DEF Side!Snapshot, Side!SnapshotMsg, Side!Issue
    <2>2. \A m \in S : /\ m.kind \in {"exec", "s3check"} => m.guard = gen /\ m.from = shown
                       /\ m.kind = "crd" => m.guard = seq /\ m.from = shown
        BY ExecCmdHere, OtherCmdsHere
    <2> HIDE DEF S
    <2> QED BY <2>1, <2>2, IssueKeeps
  <1>3. ASSUME NEW f \in fetches, Side!StaleSnapshot(f) PROVE SideInv'
      BY <1>3 DEF Side!StaleSnapshot, Side!SnapshotMsg, Side!sideVars
  <1>4. CASE Side!FullRefreshKey
    <2>1. UNCHANGED <<gen, s3Reach, etcdExec, crdCounts, cmds>> /\ Side!RefreshUnlessRunning
        BY <1>4 DEF Side!FullRefreshKey
    <2>2. seq' \in Int /\ shown' = shown /\ CmdsAreOurs(cmds, gen, seq', shown)
        BY <2>1, SeqMoves
    <2> QED BY <2>1, <2>2
  <1>5. CASE Side!ToggleSSH
      BY <1>5 DEF Side!ToggleSSH, Side!chainVars
  <1>6. CASE Side!OpenCRDs
    <2>1. /\ UNCHANGED <<seq, shown, gen, s3Reach, etcdExec, crdCounts>>
          /\ cmds' = Side!(+)(cmds, Side!SetToBag({Side!CRDCountCmd}))
        BY <1>6 DEF Side!OpenCRDs, Side!chainVars, Side!Issue
    <2> QED BY <2>1, OtherCmdsHere, IssueKeeps
  <1>7. CASE Side!OpenEtcd
    <2>1. /\ UNCHANGED <<seq, shown, gen, s3Reach, etcdExec, crdCounts>>
          /\ cmds' = Side!(+)(cmds, Side!SetToBag({Side!EtcdExecCmd}))
        BY <1>7 DEF Side!OpenEtcd, Side!chainVars, Side!Issue
    <2> QED BY <2>1, ExecCmdHere, IssueKeeps
  <1>8. ASSUME NEW n \in Node, Side!EtcdMsg(n) PROVE SideInv'
    <2>1. /\ UNCHANGED <<seq, shown, gen, s3Reach, etcdExec, crdCounts>>
          /\ \E S \in {{Side!S3Cmd}, Side!S3CheckCmds({n}, s3), {}} : cmds' = Side!(+)(cmds, Side!SetToBag(S))
        BY <1>8 DEF Side!EtcdMsg, Side!chainVars, Side!Issue
    <2>2. PICK S \in {{Side!S3Cmd}, Side!S3CheckCmds({n}, s3), {}} : cmds' = Side!(+)(cmds, Side!SetToBag(S))
        BY <2>1
    <2>3. \A m \in S : /\ m.kind \in {"exec", "s3check"} => m.guard = gen /\ m.from = shown
                       /\ m.kind = "crd" => m.guard = seq /\ m.from = shown
        BY <2>2, OtherCmdsHere
    <2> QED BY <2>1, <2>2, <2>3, IssueKeeps
  <1>9. ASSUME NEW m \in Side!BagToSet(cmds),
               \/ Side!HelmMsg(m) \/ Side!S3Msg(m) \/ Side!S3CheckMsg(m) \/ Side!CRDCountMsg(m)
               \/ \E ok \in BOOLEAN : Side!EtcdExecMsg(m, ok)
        PROVE  SideInv'
    <2> DEFINE T == Side!(-)(cmds, Side!SetToBag({m}))
    <2>1. Side!IsABag(T) /\ CmdsAreOurs(T, gen, seq, shown)
        BY AnsweredKeeps
    <2>2. Side!Answered(m) = T
        BY DEF Side!Answered
    <2> HIDE DEF T
    <2>3. CASE Side!HelmMsg(m)
        BY <2>1, <2>2, <2>3 DEF Side!HelmMsg, Side!chainVars
    <2>4. CASE Side!S3Msg(m)
      <3>1. /\ UNCHANGED <<seq, shown, gen, s3Reach, etcdExec, crdCounts>>
            /\ \E S \in {Side!S3CheckCmds(etcdKnown, m.from), {}} : cmds' = Side!(+)(T, Side!SetToBag(S))
          BY <2>2, <2>4 DEF Side!S3Msg, Side!chainVars
      <3>2. PICK S \in {Side!S3CheckCmds(etcdKnown, m.from), {}} : cmds' = Side!(+)(T, Side!SetToBag(S))
          BY <3>1
      <3>3. \A x \in S : /\ x.kind \in {"exec", "s3check"} => x.guard = gen /\ x.from = shown
                         /\ x.kind = "crd" => x.guard = seq /\ x.from = shown
          BY <3>2, OtherCmdsHere
      <3> QED BY <2>1, <3>1, <3>2, <3>3, IssueKeeps
    <2>5. CASE Side!S3CheckMsg(m)
      <3>1. m.guard = gen => m.from = shown
          BY <2>5 DEF Side!S3CheckMsg, CmdsAreOurs
      <3>2. /\ DOMAIN s3Reach' = Node
            /\ \A n \in Node : \/ s3Reach'[n] = s3Reach[n]
                               \/ m.guard = gen /\ s3Reach'[n].asked = m.from
          BY <2>5 DEF Side!S3CheckMsg, Side!CheckOf
      <3>3. UNCHANGED <<seq, shown, gen, etcdExec, crdCounts>> /\ cmds' = T
          BY <2>2, <2>5 DEF Side!S3CheckMsg, Side!chainVars
      <3> QED BY <2>1, <3>1, <3>2, <3>3
    <2>6. CASE Side!CRDCountMsg(m)
      <3>1. m.guard = seq => m.from = shown
          BY <2>6 DEF Side!CRDCountMsg, CmdsAreOurs
      <3> QED BY <2>1, <2>2, <2>6, <3>1 DEF Side!CRDCountMsg, Side!chainVars
    <2>7. ASSUME NEW ok \in BOOLEAN, Side!EtcdExecMsg(m, ok) PROVE SideInv'
      <3>1. m.guard = gen => m.from = shown
          BY <2>7 DEF Side!EtcdExecMsg, CmdsAreOurs
      <3>2. etcdExec' = etcdExec \/ (m.guard = gen /\ etcdExec'.from = m.from)
          BY <2>7 DEF Side!EtcdExecMsg
      <3>3. UNCHANGED <<seq, shown, gen, s3Reach, crdCounts>> /\ cmds' = T
          BY <2>2, <2>7 DEF Side!EtcdExecMsg, Side!chainVars
      <3> QED BY <2>1, <3>1, <3>2, <3>3
    <2> QED BY <1>9, <2>3, <2>4, <2>5, <2>6, <2>7
  <1>10. ASSUME NEW c \in Cluster, Side!SwitchContext(c) PROVE SideInv'
    <2>1. /\ gen' = gen + 1 /\ seq' = seq + 2 /\ shown' = c /\ cmds' = cmds
          /\ s3Reach' = [n \in Node |-> None] /\ etcdExec' = None /\ crdCounts' = None
        BY <1>10 DEF Side!SwitchContext, Side!SwitchChain, Side!RefreshCmd
    <2> QED BY <2>1, GuardsMove
  <1>11. CASE Side!ApplySSHConfig
    <2>1. /\ gen' = gen + 1 /\ UNCHANGED <<seq, shown, cmds, s3Reach, crdCounts>> /\ etcdExec' = None
        BY <1>11 DEF Side!ApplySSHConfig, Side!chainVars
    <2> QED BY <2>1, GuardsMove
  <1>12. CASE Side!Done
      BY <1>12 DEF Side!Done, Side!AtMaxSeq, Side!chainVars, Side!sideVars
  <1>13. CASE UNCHANGED Side!vars
      BY <1>13 DEF Side!vars, Side!chainVars, Side!sideVars
  <1> QED BY <1>1, <1>2, <1>3, <1>4, <1>5, <1>6, <1>7, <1>8, <1>9, <1>10, <1>11, <1>12, <1>13 DEF Side!Next

-----------------------------------------------------------------------------
(* PodLogs *)

\* A waitLogs command reads the channel of the stream whose seq it carries,
\* and so does its message.
LogsInv ==
    /\ logs # None => DOMAIN logs = {"id", "seq", "lines", "streaming"}
    /\ \A w \in LogView!BagToSet(waiters) : w.from.seq = w.seq
    /\ \A m \in LogView!BagToSet(msgs) : m.from.seq = m.seq
    /\ SwitchDropsLines

\* Adding x puts x into a bag and removing x puts nothing into it.
LEMMA BagOps ==
  ASSUME NEW B, NEW x
  PROVE  /\ LogView!BagToSet(LogView!(+)(B, LogView!SetToBag({x}))) = LogView!BagToSet(B) \cup {x}
         /\ LogView!BagToSet(LogView!(-)(B, LogView!SetToBag({x}))) \subseteq LogView!BagToSet(B)
  <1> DEFINE C == [e \in LogView!BagToSet(B) |-> IF e \in {x} THEN B[e] - 1 ELSE B[e]]
  <1>1. LogView!(-)(B, LogView!SetToBag({x})) = [e \in {d \in LogView!BagToSet(B) : C[d] > 0} |-> C[e]]
      BY DEF LogView!SetToBag, LogView!BagToSet, LogView!(-)
  <1> HIDE DEF C
  <1>2. LogView!BagToSet(LogView!(-)(B, LogView!SetToBag({x}))) \subseteq LogView!BagToSet(B)
      BY <1>1 DEF LogView!BagToSet
  <1> QED BY <1>2 DEF LogView!BagToSet, LogView!SetToBag, LogView!(+)

LEMMA LogsInitInv == LogView!Init => LogsInv
  BY DEF LogView!Init, LogsInv, LogView!EmptyBag, LogView!SetToBag, LogView!BagToSet,
         SwitchDropsLines, LogView!SwitchDropsLines

LEMMA StartKeeps ==
  ASSUME LogsInv, NEW v, v.lines = {}, DOMAIN v = {"id", "seq", "lines", "streaming"},
         LogView!StartLogStream(v)
  PROVE  LogsInv'
  <1> DEFINE w == [from |-> LogView!Current(v), seq |-> v.seq]
  <1>1. /\ logs' = v /\ msgs' = msgs
        /\ waiters' = LogView!(+)(waiters, LogView!SetToBag({w}))
      BY DEF LogView!StartLogStream
  <1>2. w.from.seq = w.seq
      BY DEF LogView!Current
  <1> HIDE DEF w
  <1>3. LogView!BagToSet(waiters') = LogView!BagToSet(waiters) \cup {w}
      BY <1>1, BagOps
  <1>4. /\ \A x \in LogView!BagToSet(waiters') : x.from.seq = x.seq
        /\ \A m \in LogView!BagToSet(msgs') : m.from.seq = m.seq
      BY <1>1, <1>2, <1>3 DEF LogsInv
  <1> QED BY <1>1, <1>4 DEF LogsInv, SwitchDropsLines, LogView!SwitchDropsLines

LEMMA LogsNextInv == LogsInv /\ [LogView!Next]_(LogView!vars) => LogsInv'
  <1> SUFFICES ASSUME LogsInv, [LogView!Next]_(LogView!vars) PROVE LogsInv'
      OBVIOUS
  <1> USE DEF LogsInv, SwitchDropsLines, LogView!SwitchDropsLines
  <1>1. CASE LogView!OpenPodLogs
    <2> DEFINE v == [id |-> opened + 1, seq |-> 1, lines |-> {}, streaming |-> TRUE]
    <2>1. LogView!StartLogStream(v)
        BY <1>1 DEF LogView!OpenPodLogs
    <2>2. v.lines = {} /\ DOMAIN v = {"id", "seq", "lines", "streaming"}
        OBVIOUS
    <2> HIDE DEF v
    <2> QED BY <2>1, <2>2, StartKeeps
  <1>2. CASE LogView!Restart
    <2> DEFINE v == [logs EXCEPT !.seq = @ + 1, !.lines = {}, !.streaming = TRUE]
    <2>1. LogView!StartLogStream(v) /\ logs # None
        BY <1>2 DEF LogView!Restart
    <2>2. v.lines = {} /\ DOMAIN v = {"id", "seq", "lines", "streaming"}
        BY <2>1
    <2> HIDE DEF v
    <2> QED BY <2>1, <2>2, StartKeeps
  <1>3. CASE LogView!ClosePodLogs
      BY <1>3 DEF LogView!ClosePodLogs
  <1>4. CASE LogView!Covered
      BY <1>4 DEF LogView!Covered
  <1>5. ASSUME NEW st \in LogView!Stream,
               LogView!ReadLines(st) \/ LogView!ReadDone(st) \/ LogView!ReadCancelled(st)
        PROVE  LogsInv'
      BY <1>5 DEF LogView!ReadLines, LogView!ReadDone, LogView!ReadCancelled
  <1>6. ASSUME NEW w \in LogView!BagToSet(waiters), LogView!WaitLogs(w) PROVE LogsInv'
    <2> DEFINE m == [seq |-> w.seq, from |-> w.from, chunk |-> Head(chan[w.from])]
    <2>1. /\ logs' = logs /\ waiters' = LogView!(-)(waiters, LogView!SetToBag({w}))
          /\ msgs' = LogView!(+)(msgs, LogView!SetToBag({m}))
        BY <1>6 DEF LogView!WaitLogs
    <2>2. m.from.seq = m.seq
        OBVIOUS
    <2> HIDE DEF m
    <2>3. /\ LogView!BagToSet(waiters') \subseteq LogView!BagToSet(waiters)
          /\ LogView!BagToSet(msgs') = LogView!BagToSet(msgs) \cup {m}
        BY <2>1, BagOps
    <2> QED BY <2>1, <2>2, <2>3
  <1>7. ASSUME NEW m \in LogView!BagToSet(msgs), LogView!HandleLogMsg(m) PROVE LogsInv'
    <2>1. msgs' = LogView!(-)(msgs, LogView!SetToBag({m}))
        BY <1>7 DEF LogView!HandleLogMsg, LogView!Received
    <2>2. CASE logs = None \/ m.seq # logs.seq
        BY <1>7, <2>1, <2>2, BagOps DEF LogView!HandleLogMsg
    <2>3. CASE logs # None /\ m.seq = logs.seq
      <3> DEFINE w == [from |-> LogView!Current(logs), seq |-> logs.seq]
      <3>1. waiters' = waiters \/ waiters' = LogView!(+)(waiters, LogView!SetToBag({w}))
          BY <1>7, <2>3 DEF LogView!HandleLogMsg
      <3>2. w.from.seq = w.seq
          BY DEF LogView!Current
      <3>3. logs' = [logs EXCEPT !.lines = IF m.chunk = "lines" THEN @ \cup {m.from} ELSE @,
                                 !.streaming = @ /\ m.chunk # "done"]
          BY <1>7, <2>3 DEF LogView!HandleLogMsg
      <3>4. DOMAIN logs' = DOMAIN logs /\ DOMAIN logs = {"id", "seq", "lines", "streaming"}
          BY <2>3, <3>3
      <3>5. logs'.seq = logs.seq /\ logs'.id = logs.id /\ logs'.lines \subseteq logs.lines \cup {m.from}
          BY <3>3, <3>4
      <3> HIDE DEF w
      <3>6. /\ LogView!BagToSet(waiters') \subseteq LogView!BagToSet(waiters) \cup {w}
            /\ LogView!BagToSet(msgs') \subseteq LogView!BagToSet(msgs)
        <4>1. LogView!BagToSet(msgs') \subseteq LogView!BagToSet(msgs)
            BY <2>1, BagOps
        <4>2. CASE waiters' = waiters
            BY <4>1, <4>2
        <4>3. CASE waiters' = LogView!(+)(waiters, LogView!SetToBag({w}))
            <5>1. LogView!BagToSet(waiters') = LogView!BagToSet(waiters) \cup {w}
                BY <4>3, BagOps
            <5> QED BY <4>1, <5>1
        <4> QED BY <3>1, <4>2, <4>3
      <3> QED BY <2>3, <3>2, <3>4, <3>5, <3>6
    <2> QED BY <2>2, <2>3
  <1>8. CASE UNCHANGED LogView!vars
      BY <1>8 DEF LogView!vars
  <1> QED BY <1>1, <1>2, <1>3, <1>4, <1>5, <1>6, <1>7, <1>8 DEF LogView!Next, LogView!Finished

-----------------------------------------------------------------------------
(* Their composition *)

LateInv == IInv /\ SideInv /\ LogsInv

LEMMA LateInitInv == LateInit => LateInv
  BY InitInv, SideInitInv, LogsInitInv DEF LateInit, LateInv

\* A step is one of the part looked at; the others keep their state.
LEMMA LateNextInv == LateInv /\ [LateNext]_lateVars => LateInv'
  <1> SUFFICES ASSUME LateInv, [LateNext]_lateVars PROVE LateInv'
      OBVIOUS
  <1>1. [Next]_vars
      BY DEF LateNext, FailoverNext, TabNext, LogsNext, SideNext, lateVars
  <1>2. [Side!Next]_(Side!vars)
      BY DEF LateNext, FailoverNext, TabNext, LogsNext, SideNext, lateVars, resultVars,
             Side!vars, Side!chainVars, Side!sideVars
  <1>3. [LogView!Next]_(LogView!vars)
      BY DEF LateNext, FailoverNext, TabNext, LogsNext, SideNext, lateVars, logVars, LogView!vars
  <1> QED BY <1>1, <1>2, <1>3, NextInv, SideNextInv, LogsNextInv DEF LateInv

\* No late answer is kept for another cluster than it was asked of: not a client
\* of the apiserver failover, not an etcd view, a node's S3 check or a CRD count.
THEOREM LateAnswersDropped == LateSpec => [](NoForeignClient /\ GuardedResultsAreOurs)
  <1>1. LateInv => NoForeignClient /\ GuardedResultsAreOurs
      BY DEF LateInv, IInv, Ours, SideInv
  <1> QED BY <1>1, LateInitInv, LateNextInv, PTL DEF LateSpec

\* No line of the container shown before is in the buffer of the log viewer
\* (the seq guard of handleLogMsg, the reset of startLogStream).
THEOREM LinesDropped == LateSpec => []SwitchDropsLines
  <1>1. LateInv => SwitchDropsLines
      BY DEF LateInv, LogsInv
  <1> QED BY <1>1, LateInitInv, LateNextInv, PTL DEF LateSpec
=============================================================================
