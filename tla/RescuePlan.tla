----------------------------- MODULE RescuePlan -----------------------------
(***************************************************************************)
(* The etcd rescue (internal/rescue/rescue.go and scripts/): the plan that *)
(* Preflight builds, the engine that runs it (Run, exec, poll), and what   *)
(* its scripts do to the servers.                                          *)
(*                                                                         *)
(* Steps run one after the other; each is a script over SSH, or a script   *)
(* polled until a condition holds.  Any step may fail: a script that dies  *)
(* half way, a poll that times out, or an SSH connection lost after the    *)
(* script had done its work.  Between and during the steps the servers     *)
(* move by themselves: etcd members join, a detached cluster-reset ends,   *)
(* and a rancher-system-agent that runs may start a stopped server.        *)
(*                                                                         *)
(* k3s takes the steps of rke2.  Setting modes and addresses, restarting   *)
(* the CNI agent and the final snapshot fail or pass and change nothing    *)
(* here ("tend").                                                          *)
(***************************************************************************)
EXTENDS Integers, Sequences, FiniteSets, SequencesExt

CONSTANTS
    Target,   \* the server the snapshot is restored on, or the rejoin's anchor
    Followers \* the other servers, in the order they are rejoined

FollowersAssumption ==
    /\ Followers \in Seq(ToSet(Followers))
    /\ IsInjective(Followers)
    /\ Target \notin ToSet(Followers)

Server == {Target} \cup ToSet(Followers)

VARIABLES
    plan,     \* what was chosen, and what Preflight found
    at,       \* the step Run is at, 0 before the first
    phase,    \* "next" between steps, "run", or the part of a step in progress
    attempt,  \* restoreVerified's attempt
    aborting, \* Plan.abort
    failed,   \* the step Run is at has failed
    ended,    \* Run has returned
    agentOff, \* Plan.agentOff
    noted,    \* the servers whose drop-in Plan.Notes names
    server,   \* a server: whether etcd and the apiserver run (on), what the etcd
              \* data dir holds, where it would join ("own" configuration, the
              \* "target", "none": server: "")
    agents,   \* the servers whose rancher-system-agent runs
    members,  \* the members of the etcd cluster the target is part of
    learners, \* those that are learners
    reset,    \* the cluster-reset running on the target: "no", "first", "second"
    exit,     \* what cluster-reset.exit and cluster-reset.log say
    orphans   \* the servers where an etcd on the old data has outlived the stop: its
              \* process keeps the files it has open, wherever they are moved

runVars == <<plan, at, phase, attempt, aborting, failed, ended, agentOff, noted>>
etcdVars == <<members, learners, reset, exit, orphans>>
nodeVars == <<server, agents, etcdVars>>
planVars == <<runVars, nodeVars>>

Data == {"old", "empty", "restored", "joined", "founded"}
PlanPhases == {"next", "run", "reset", "poll", "verify", "wipe",
           "alone", "stop2", "reset2", "poll2", "start2", "wait2"}

PlanTypeOK ==
    /\ plan \in [kind : {"rke2", "kubeadm"}, rejoin : BOOLEAN, others : Seq(ToSet(Followers)),
                 agents : SUBSET Server, agentNodes : Seq(Server), members : Nat]
    /\ at \in Nat
    /\ phase \in PlanPhases
    /\ attempt \in 1..2
    /\ aborting \in BOOLEAN /\ failed \in BOOLEAN /\ ended \in BOOLEAN
    /\ server \in [Server -> [on : BOOLEAN, data : Data, via : {"own", "target", "none"}]]
    /\ agents \subseteq Server /\ agentOff \subseteq Server /\ noted \subseteq Server
    /\ members \subseteq Server /\ learners \subseteq members /\ orphans \subseteq Server
    /\ reset \in {"no", "first", "second"}
    /\ exit \in {"none", "reset", "gaveUp"}

-----------------------------------------------------------------------------
(* The plan *)

Others == ToSet(plan.others)
Parts == {Target} \cup Others
RKE2 == plan.kind = "rke2"

\* touched: the servers whose service the rescue stops.
Touched == IF plan.rejoin THEN plan.others ELSE <<Target>> \o plan.others

\* A step, and a step that waits on n until the cluster has so many members,
\* those of peers among them.
Wait(op, n, want, peers) == [op |-> op, node |-> n, want |-> want, peers |-> peers]
Step(op, n) == Wait(op, n, 0, {})
Each(op, ns) == [i \in DOMAIN ns |-> Step(op, ns[i])]

\* The ways to leave elements of a sequence without duplicates out.
Subsequences(s) ==
    {t \in SeqOf(ToSet(s), Len(s)) :
        \A i, j \in DOMAIN t : i < j =>
            \E a, b \in DOMAIN s : a < b /\ s[a] = t[i] /\ s[b] = t[j]}

\* agentNodes: the touched servers with a running rancher-system-agent.
AgentNodes == plan.agentNodes

\* rejoinSteps: one server back into the cluster the target serves.
RejoinSteps(o, want) ==
    (IF RKE2 THEN <<Step("start", o), Wait("member", Target, want, {o}), Step("cleanup", o)>>
     ELSE <<Step("add", o), Step("patch", o), Step("start", o),
            Wait("promote", o, want, {o}), Wait("member", o, want, {})>>)
    \o <<Wait("member", Target, want, {})>>

\* Mutant of RejoinPlan: the stale member entry is left to the join.
RejoinWithoutRemove == LET o == plan.others[1] IN
    <<Step("stop", o), Step("backup", o)>>
    \o RejoinSteps(o, plan.members) \o <<Wait("member", Target, plan.members, {})>>

\* build for a rejoin.
RejoinPlan == LET o == plan.others[1] IN
    <<Step("stop", o), Step("backup", o)>>
    \o (IF RKE2 THEN <<Step("remove", o), Step("tend", o)>> ELSE <<>>)
    \o RejoinSteps(o, plan.members) \o <<Wait("member", Target, plan.members, {})>>

\* buildRKE2, buildKubeadm: the target alone; then every follower in turn.
TargetSteps ==
    IF RKE2 THEN <<Step("reset", Target), Step("tend", Target), Step("start", Target),
                   Wait("up", Target, 1, {}), Step("tend", Target)>>
    ELSE <<Step("restore", Target), Step("tend", Target), Step("start", Target),
           Wait("member", Target, 1, {}), Wait("member", Target, 1, {})>>
FollowerSteps ==
    LET k == Len(RejoinSteps(Target, 0))
        step(o) == RejoinSteps(plan.others[o], o + 1)
    IN [i \in 1..(k * Len(plan.others)) |-> step(1 + (i - 1) \div k)[1 + ((i - 1) % k)]]

\* Mutant of RestorePlan: a follower is stopped just before it is rejoined.
RestorePlanStopsLate ==
    <<Step("stop", Target), Step("backup", Target)>> \o TargetSteps
    \o Each("stop", plan.others) \o Each("backup", plan.others) \o FollowerSteps

\* build for a restore.
RestorePlan ==
    Each("stop", Append(plan.others, Target)) \o Each("backup", Touched)
    \o TargetSteps \o FollowerSteps
    \o (IF RKE2 THEN <<>> ELSE <<Step("tend", Target)>>)
    \o <<Wait("member", Target, 1 + Len(plan.others), {})>>
    \o (IF RKE2 THEN <<Step("cleanup", Target)>> ELSE <<>>)

\* Mutants of Steps: the agents keep running; they are started first thing
\* after the servers were.
StepsWithAgents == IF plan.rejoin THEN RejoinPlan ELSE RestorePlan
\* build: the agents are stopped first and started last.
Steps ==
    Each("agentStop", AgentNodes)
    \o (IF plan.rejoin THEN RejoinPlan ELSE RestorePlan)
    \o Each("agentStart", AgentNodes)
    \o (IF plan.rejoin THEN <<>> ELSE <<Step("tend", Target)>>)

Current == Steps[at]

\* The script that runs: the step's, or that of the part in progress.
Script == IF phase = "run" THEN Current.op ELSE phase

-----------------------------------------------------------------------------
(* The servers *)

\* A server that answers as a voting member.  A cluster-reset that runs holds
\* the target's data dir.
Serving(n) ==
    /\ server[n].on /\ server[n].data \notin {"empty", "founded"}
    /\ n \in members \ learners
    /\ n = Target => reset = "no"

Quorum == 2 * Cardinality({n \in members : Serving(n)}) > Cardinality(members \ learners)

\* Mutant of Ready: learners and members that are down count.
ReadyByCount(want, peers) == Cardinality(members) = want /\ peers \subseteq members

\* Status.Ready: so many members, none a learner, all of them healthy, and
\* those asked for by their peer address are among them.
Ready(want, peers) ==
    /\ Cardinality(members) = want
    /\ peers \subseteq members
    /\ learners = {}
    /\ \A n \in members : Serving(n)

-----------------------------------------------------------------------------
(* The scripts: what each needs, and does on server n when it runs to its end *)

AgentScript(n, running) ==
    /\ agents' = IF running THEN agents \cup {n} ELSE agents \ {n}
    /\ UNCHANGED <<server, etcdVars>>

\* stop.sh: the service is down and the etcd it left is told to end.  If one is
\* still listening half a minute later (of this run of the service or of one
\* before), the script warns, and reports that it has stopped the server.
StopScript(n) ==
    /\ server' = [server EXCEPT ![n].on = FALSE]
    /\ orphans' \in {orphans \ {n}} \cup (IF server[n].data = "old" THEN {orphans \cup {n}} ELSE {})
    /\ UNCHANGED <<agents, members, learners, reset, exit>>

\* backup.sh and wipe_again.sh: what is in the data dir goes to the rescue dir.
MoveAside(n) ==
    /\ server' = [server EXCEPT ![n].data = "empty"]
    /\ UNCHANGED <<agents, etcdVars>>

\* reset_rke2.sh starts the cluster-reset and returns; the one that restores
\* removes cluster-reset.exit first, the second one has files of its own.
ResetScript(which) ==
    /\ ~server[Target].on
    /\ reset' = which
    /\ exit' = IF which = "first" THEN "none" ELSE exit
    /\ UNCHANGED <<server, agents, members, learners, orphans>>

RestoreScript(n) ==
    /\ ~server[n].on
    /\ server' = [server EXCEPT ![n].data = "restored"]
    /\ members' = {n} /\ learners' = {}
    /\ UNCHANGED <<agents, reset, exit, orphans>>

\* start.sh: where the node joins, whatever its configuration says.
JoinsVia(n) == IF ~RKE2 THEN server[n].via ELSE IF n = Target THEN "none" ELSE "target"

\* start.sh: the drop-in is written, then a follower that still has member
\* data is refused, then the server is started.
DropIn(n) ==
    /\ server' = [server EXCEPT ![n].via = JoinsVia(n)]
    /\ UNCHANGED <<agents, etcdVars>>
StartScript(n) ==
    /\ RKE2 => n = Target \/ server[n].data = "empty"
    /\ server' = [server EXCEPT ![n].on = TRUE, ![n].via = JoinsVia(n)]
    /\ UNCHANGED <<agents, etcdVars>>

\* patch_manifest.sh: the kubeadm follower's manifest names the cluster to join.
PatchScript(n) ==
    /\ server' = [server EXCEPT ![n].via = "target"]
    /\ UNCHANGED <<agents, etcdVars>>

CleanupScript(n) ==
    /\ server' = [server EXCEPT ![n].via = "own"]
    /\ UNCHANGED <<agents, etcdVars>>

\* member_add.sh: a stale entry of n is removed, n is added as a learner.
AddScript(n) ==
    /\ Quorum
    /\ members' = members \cup {n} /\ learners' = learners \cup {n}
    /\ UNCHANGED <<server, agents, reset, exit, orphans>>

RemoveScript(n) ==
    /\ Quorum
    /\ members' = members \ {n} /\ learners' = learners \ {n}
    /\ UNCHANGED <<server, agents, reset, exit, orphans>>

\* What a wait or a check waits for.  poll.sh is given cluster-reset.exit and
\* cluster-reset.log for either reset.
Seen(check) ==
    CASE check \in {"poll", "poll2"} -> exit = "reset"
      [] check = "verify" -> server[Target].data = "restored"
      [] OTHER -> Ready(Current.want, Current.peers)
Checks == {"poll", "poll2", "verify", "member", "promote", "alone", "wait2"}

\* render and exec: the script of a step or a part of one.
Does(script, n) ==
    \/ script \in Checks /\ Seen(script) /\ UNCHANGED nodeVars
    \/ script = "tend" /\ UNCHANGED nodeVars
    \/ script = "agentStop" /\ AgentScript(n, FALSE)
    \/ script = "agentStart" /\ AgentScript(n, TRUE)
    \/ script \in {"stop", "stop2"} /\ StopScript(n)
    \/ script \in {"backup", "wipe"} /\ MoveAside(n)
    \/ script = "reset" /\ ResetScript("first")
    \/ script = "reset2" /\ ResetScript("second")
    \/ script = "restore" /\ RestoreScript(n)
    \/ script \in {"start", "start2"} /\ StartScript(n)
    \/ script = "cleanup" /\ CleanupScript(n)
    \/ script = "patch" /\ PatchScript(n)
    \/ script = "add" /\ AddScript(n)
    \/ script = "remove" /\ RemoveScript(n)

-----------------------------------------------------------------------------
(* Run *)

\* What was chosen in the overlay and passed Preflight: a follower that did
\* not is left out of a restore; a rejoin needs an anchor that has a quorum.
PlanInit ==
    /\ \E k \in {"rke2", "kubeadm"}, r \in BOOLEAN, os \in Subsequences(Followers),
          A \in SUBSET Server, M \in SUBSET Server, On \in SUBSET Server,
          as \in Subsequences(<<Target>> \o Followers) :
        /\ k = "kubeadm" => A = {}
        /\ members = M
        /\ server = [n \in Server |-> [on |-> n \in On, data |-> "old", via |-> "own"]]
        /\ agents = A
        /\ plan = [kind |-> k, rejoin |-> r, others |-> os, agents |-> A, agentNodes |-> as,
                   members |-> Cardinality(M)]
        /\ ToSet(as) = A \cap ToSet(Touched)
        /\ IF r THEN Len(os) = 1 /\ Server \ ToSet(os) \subseteq M \cap On ELSE M = Server
    /\ at = 0 /\ phase = "next" /\ attempt = 1
    /\ aborting = FALSE /\ failed = FALSE /\ ended = FALSE
    /\ agentOff = {} /\ noted = {}
    /\ learners = {} /\ reset = "no" /\ exit = "none" /\ orphans = {}

Begin ==
    /\ phase = "next" /\ ~ended
    /\ at < Len(Steps) /\ ~aborting
    /\ at' = at + 1
    /\ phase' = LET op == Steps[at + 1].op IN
                CASE op = "reset" -> "reset" [] op = "up" -> "alone" [] OTHER -> "run"
    /\ UNCHANGED <<plan, attempt, aborting, failed, ended, agentOff, noted, nodeVars>>

\* The part after the one that succeeded (restoreVerified, targetUp).
Following ==
    CASE phase = "reset" -> "poll"   [] phase = "poll" -> "verify" [] phase = "wipe" -> "reset"
      [] phase = "stop2" -> "reset2" [] phase = "reset2" -> "poll2"
      [] phase = "poll2" -> "start2" [] phase = "start2" -> "wait2"
      [] OTHER -> "next"

\* Mutant of StepDone: the drop-in is noted when it is removed.
StepDoneNotesLate ==
    /\ phase # "next" /\ ~ended
    /\ Does(Script, Current.node)
    /\ phase' = Following
    /\ agentOff' = CASE Script = "agentStop" -> agentOff \cup {Current.node}
                     [] Script = "agentStart" -> agentOff \ {Current.node} [] OTHER -> agentOff
    /\ noted' = IF Script = "cleanup" THEN noted \cup {Current.node} ELSE noted
    /\ UNCHANGED <<plan, at, attempt, aborting, failed, ended>>

\* A script reports its marker, or a wait sees what it waits for.
StepDone ==
    /\ phase # "next" /\ ~ended
    /\ Does(Script, Current.node)
    /\ phase' = Following
    /\ agentOff' = CASE Script = "agentStop" -> agentOff \cup {Current.node}
                     [] Script = "agentStart" -> agentOff \ {Current.node} [] OTHER -> agentOff
    /\ noted' = IF Script = "start" /\ RKE2 THEN noted \cup {Current.node} ELSE noted
    /\ UNCHANGED <<plan, at, attempt, aborting, failed, ended>>

\* restoreVerified: the data dir does not look replaced (it compares the
\* node's times with khealth's clock, so a replaced one may not either).
NotReplaced ==
    /\ phase = "verify" /\ ~ended /\ attempt = 1
    /\ phase' = "wipe" /\ attempt' = 2
    /\ UNCHANGED <<plan, at, aborting, failed, ended, agentOff, noted, nodeVars>>

\* waitTargetAlone: the old peers are still listed, or no leader in time; or
\* the etcd that answers is one that outlived the stop.
NotAlone ==
    /\ phase = "alone" /\ ~ended
    /\ Ready(1, {}) => Target \in orphans
    /\ phase' = "stop2"
    /\ UNCHANGED <<plan, at, attempt, aborting, failed, ended, agentOff, noted, nodeVars>>

\* A script dies, its answer is lost, or a wait times out: nothing was done,
\* or everything, or start.sh wrote the drop-in and then died.
StepFails ==
    /\ phase # "next" /\ ~ended
    /\ \/ UNCHANGED nodeVars
       \/ Does(Script, Current.node)
       \/ Script \in {"start", "start2"} /\ DropIn(Current.node)
    /\ failed' = TRUE /\ ended' = TRUE
    /\ UNCHANGED <<plan, at, phase, attempt, aborting, agentOff, noted>>

End ==
    /\ phase = "next" /\ ~ended
    /\ at = Len(Steps) \/ aborting
    /\ ended' = TRUE
    /\ UNCHANGED <<plan, at, phase, attempt, aborting, failed, agentOff, noted, nodeVars>>

\* The operator aborts: after the step in progress.
AbortPlan ==
    /\ ~aborting /\ ~ended
    /\ aborting' = TRUE
    /\ UNCHANGED <<plan, at, phase, attempt, failed, ended, agentOff, noted, nodeVars>>

-----------------------------------------------------------------------------
(* What the servers do by themselves *)

\* An empty server that is directed to the target joins there.  rke2 refuses
\* while the name is still a member.
Join(o) ==
    /\ server[o].on /\ server[o].data = "empty" /\ o # Target
    /\ server[o].via = "target" /\ Quorum /\ Serving(Target)
    /\ IF RKE2 THEN o \notin members ELSE o \in learners
    /\ server' = [server EXCEPT ![o].data = "joined"]
    /\ members' = members \cup {o}
    /\ UNCHANGED <<runVars, agents, learners, reset, exit, orphans>>

\* status.sh promotes a learner that has caught up, while the step waits.
Promote(o) ==
    /\ phase = "run" /\ ~ended /\ Current.op = "promote"
    /\ o \in learners /\ server[o].data = "joined" /\ Quorum
    /\ learners' = learners \ {o}
    /\ UNCHANGED <<runVars, server, agents, members, reset, exit, orphans>>

\* The detached cluster-reset ends: it resets the membership or gives up; the
\* one that restores may leave the data dir as it is, or list the old peers.
ResetEnds ==
    /\ reset # "no"
    /\ reset' = "no"
    /\ \E ok \in BOOLEAN, M \in {{Target}, Server}, d \in {"restored", "founded"} :
        /\ exit' = IF reset = "second" THEN exit ELSE IF ok THEN "reset" ELSE "gaveUp"
        /\ server' = [server EXCEPT ![Target].data = IF reset = "second" THEN @ ELSE d]
        /\ members' = IF ok THEN M ELSE members
    /\ UNCHANGED <<runVars, agents, learners, orphans>>

\* A rancher-system-agent that runs applies a plan: it starts the server.
AgentPlan(n) ==
    /\ n \in agents /\ ~server[n].on
    /\ server' = [server EXCEPT ![n].on = TRUE]
    /\ UNCHANGED <<runVars, agents, etcdVars>>

\* An etcd that outlived the stop ends, of itself or by somebody's hand.
OrphanEnds(n) ==
    /\ n \in orphans
    /\ orphans' = orphans \ {n}
    /\ UNCHANGED <<runVars, server, agents, members, learners, reset, exit>>

PlanNext ==
    \/ Begin \/ StepDone \/ NotReplaced \/ NotAlone \/ StepFails \/ End \/ AbortPlan
    \/ ResetEnds
    \/ \E n \in Server : Join(n) \/ Promote(n) \/ AgentPlan(n) \/ OrphanEnds(n)

PlanSpec == PlanInit /\ [][PlanNext]_planVars

\* Run does not stop; a member that can join or be promoted is, a reset ends.
\* Nothing is assumed of the operator, the agents and the failures.
PlanFairness ==
    /\ WF_planVars(Begin) /\ WF_planVars(StepDone) /\ WF_planVars(End)
    /\ WF_planVars(NotReplaced) /\ WF_planVars(NotAlone)
    /\ WF_planVars(ResetEnds)
    /\ \A n \in Server : WF_planVars(Join(n)) /\ WF_planVars(Promote(n))

FairPlanSpec == PlanSpec /\ PlanFairness

-----------------------------------------------------------------------------
(* Properties *)

\* The restore is a cutover: no server taking part serves the restored data
\* while another still has the old one to serve, and none serves the old data
\* again, but for an etcd a stop has warned of, until that one ends.  (A rejoin
\* restores nothing.)
MovedAside == ~plan.rejoin /\ \A n \in Parts : server[n].data # "old"
Warned == IF plan.rejoin THEN {} ELSE orphans \cap Parts
ServingOld == IF plan.rejoin THEN {}
              ELSE Warned \cup {n \in Parts : server[n].on /\ server[n].data = "old"}
ServingNew == IF plan.rejoin THEN {}
              ELSE {n \in Parts : server[n].on /\ server[n].data \in {"restored", "joined"}}
C == INSTANCE Cutover WITH old <- ServingOld, new <- ServingNew, cut <- MovedAside,
                          warned <- Warned
CutsOver == C!Spec

\* No server taking part founds a cluster of its own, whatever step fails or is
\* aborted: an emptied server only ever runs with its join directed (on its own
\* the cluster-init node, or a manifest with state=new, founds a cluster), the
\* target only on data that was seen to be the snapshot's.
NoNewCluster ==
    \A n \in Parts : server[n].on =>
        /\ server[n].data # "founded"
        /\ server[n].data = "empty" => server[n].via = "target"

\* A rancher-system-agent is started again only when every server is back and
\* no drop-in is left for its plan to fight with (startAgents).
AgentLast ==
    [][agents' \subseteq agents \/ \A n \in Parts : Serving(n) /\ server[n].via = "own"]_planVars

\* What a rescue leaves behind is in its notes, or on the server of the step
\* that failed: an agent it stopped, a drop-in it wrote.
LeftoversAreReported ==
    ended => \A n \in Parts :
        /\ n \in ToSet(AgentNodes) \ agents => n \in agentOff \/ (failed /\ n = Current.node)
        /\ RKE2 /\ server[n].via # "own" => n \in noted \/ (failed /\ n = Current.node)

\* A rescue that reports success has every server back as a member, the
\* drop-ins gone and the agents running.  Of a server where an etcd outlived the
\* stop nothing is said: whichever etcd has the port answers the last check.
SuccessMeansRestored ==
    ended /\ ~failed /\ ~aborting =>
        /\ \A n \in Parts \ orphans : Serving(n)
        /\ RKE2 => \A n \in Parts : server[n].via = "own"
        /\ agents = plan.agents /\ agentOff = {}

\* Nothing but a failing script, a cluster-reset that does not do its work, an
\* etcd that outlives its stop or the operator stops a rescue: no wait asks for
\* what never comes.  A rejoin counts on its server's entry being listed when
\* Preflight counted.
Completes ==
    [](~failed /\ orphans = {} /\ exit # "gaveUp" /\ attempt = 1 /\ phase # "stop2"
       /\ (plan.rejoin => plan.members = Cardinality(Server)))
    => <>ended

\* clusterReset returns when its reset has ended: the server is not started
\* while one runs on its data.
NoServerDuringReset == reset # "no" => ~server[Target].on

\* A wait for members sees them: once every server started so far serves, the
\* count it waits for is the count there is.
JoinedIsRecognized ==
    phase = "run" /\ ~ended /\ Current.op = "member" /\ learners = {}
        /\ (\A n \in members : Serving(n))
        /\ (\A i \in 1..at : Steps[i].op = "start" => Serving(Steps[i].node))
    => Cardinality(members) = Current.want
=============================================================================
