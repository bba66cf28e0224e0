# khealth: TLA+ models, TLC runs and TLAPS proofs

khealth is a terminal dashboard for RKE2, k3s and kubeadm clusters: it polls the
Kubernetes API, probes the nodes over SSH, evaluates checks and STIG rules on
what it finds and, on request, restores or rejoins etcd members. This directory
holds models of its concurrent and multi-step parts, written from the Go source
and the embedded shell scripts, the TLC runs over them and the proofs TLAPS
checks. `PROJECT.json` maps every modelled definition to its source lines.

The program is a Bubble Tea application. One goroutine owns `ui.App` and runs
`update` on one message at a time; everything slow (a list call, an SSH script,
an HTTP request) is a *command*, a closure run in a goroutine of its own whose
result comes back later as a message. Between the moment a command is built and
the moment its message is handled, anything may have happened: refreshes, other
answers, a context switch, new SSH settings. No lock protects against this; two
counters do. `seq` numbers one refresh, `gen` numbers one cluster and login, a
message carries the value it was asked under, and each handler decides whether
to compare it. Most hazards of the program are here. The rest are in the etcd
rescue, a script-by-script procedure over several servers that may fail anywhere
and leaves a cluster behind that has to be recoverable.

## Inventory

| Component | State it keeps | Operations | Hard behaviour | What makes it correct |
|---|---|---|---|---|
| Refresh chain (`ui/app.go`: `refreshCmd`, `snapshotMsg`, `tickMsg`) | `seq`, `refreshing`, `snap`, `client` | fetch, snapshot, tick, keys r and R, context switch | late snapshots, superseded ticks | refreshes neither stop nor double; nothing of another cluster is shown |
| SSH collection (`collectCmds`, `probeNodeNow`, `onEnter`, `perf.go`, `sshconfig.go`) | `gen`, `cycle`, `heavyNext`, `nodes`, `etcd`, `pending`, `etcdPend`, `skipUntil`, `sshDown`, `cfg.SSH` | probe, answer, backoff, switch SSH on or off, apply settings | probes straddle refreshes and switches; equal node names | no facts of another cluster or login; one session per node and kind; every pending mark is taken back |
| Tier scheduling (`nodeTiers`, `onEnter`, `scheduleRecompute`, `MergeTiers`, `MergeConfig`) | tab, ages and facts per node, recompute timer | choose tiers, carry facts over, recompute | a light answer after a heavy one, a probe cut off | ages are true, what a tab shows does not stay stale, findings follow the facts |
| Security scan (`secScan`, `startScan`, `handleStage`, `adoptSTIG`, `recompute`) | `scan`, `secScanned`, `stigDirty`, `recomputeTimer` | stages per node, adoption, coalesced evaluation | stages race probes, snapshots and switches | complete facts are adopted and never replaced by older ones; results are current; it ends |
| Apiserver failover (`apiFailoverCmd`, `apiFailoverMsg`) | `apiTrying`, `apiTried`, `apiOverride`, `client` | ping other control-plane hosts, replace the client | an attempt outlasts a refresh or a switch, a candidate may be another cluster's | the client is of the attached cluster; the failover is never disabled |
| Side results (`helmCmd`, `etcdExecCmd`, `s3Cmd`, `s3CheckCmd`, `crdCountCmd`) | `helmLatest`, `etcdExec`, `s3`, `s3Reach`, `crdCounts`, `crdCounting` | look up, exec, read secret, check, count | some answers carry `gen` or `seq`, some neither | nothing of another cluster is shown |
| Etcd triage (`checks/etcd_triage.go`) | none; reads evidence of several ages | sources, quorum, one finding per server, ranking | the evidence disagrees, or is missing | a lost quorum is lost; broken servers are named; the reset target has the newest data |
| Etcd rescue (`internal/rescue`, scripts) | the plan, the step, notes, `agentOff`; on the servers: services, data dirs, drop-ins, members | preflight, run, poll, retry, second reset, abort | any step fails before, in or after its effect; agents start servers | no second cluster; old and restored data never served together; leftovers are reported |
| Rescue overlay (`ui/rescue.go`) | view, phase, `seq`, address edits, event channel | pick, preflight, confirm, run, hide, close | answers of an abandoned view, a list that moves under the cursor | a running rescue is never lost; a plan is for the server chosen |
| Actions (`ui/actions.go`, `etcd/defrag.go`) | `pendingAct`, `actionRunning` | confirm, run, done | an action and a rescue at once | one member is down at a time |
| SSH runner (`sshrun`) | connections, dial locks, `dialFail`, semaphore, bastion | run, stream, dial, drop, close | concurrent callers on one host, dead connections, `Close` in flight | no connection is lost or doubled; a call ends when its dials do |
| Kubernetes client (`k8s.Fetch`, `Client`) | refused calls, Helm release cache | list calls of a snapshot | partial failure, cache age | an empty list means an outage only when it is one |
| Incidents (`ui/incidents.go`, `rca.Extract`) | what is not reached, the list, the open incident, contexts | rebuild, open, read a context | a context outlives the list it was asked from | the panes explain the incident they are of |
| Pod logs (`podlogs.go`) | view, stream, `seq`, channel | open, stream, switch, cover, close | chunks of a closed stream | lines are of the shown container |
| Bootstrap (`internal/bootstrap`) | kubeconfig files and their `.bak` | reuse, fetch, rank, write | a kill between two file operations, clusters that replace each other | no other cluster's file is touched unasked; a replaced one survives |
| Gather and headless run (`internal/gather`, `internal/headless`) | probes, pipes, manifest, bundle | probe, stream, unpack, pack | two goroutines per node, any of which may stop first | the manifest says what is missing; it ends |
| Health checks (`internal/checks`, `App.recompute`) | none; reads lists, probes, tiers and etcd answers of different moments | one function per subject, `checks.Evaluate` | lists that were not read, probes that failed, facts of two moments | a finding was true at some moment, or says that something is not known |
| STIG and CIS rules (`internal/stig`) | none; reads the same, and the OS scans | rules per cluster, per component, per release of an OS | an empty input that was not read, a node that was not scanned | a rule that fails has seen why; a node that was not scanned is never counted as passing |
| Root cause (`internal/rca`: `Extract`, `Analyze`, `Restarts`) | none; reads events, states, journals and boots of different moments | one timeline, the restarts of nodes, incidents, one rule per kind of cause | a node's restart explains away what its containers and units did, by facts of three sources | a cause or an incident was true, or its guess is known |
| Parsers, rendering, export | none | pure functions | thresholds, text formats | table tests cover them |

Interactions: `snapshotMsg` is the hub. It re-arms the chain (`tickCmd`) and in
the same step issues node probes, chart lookups, the etcd exec view, CRD counts
and a failover attempt. `etcdMsg` may start the failover and the S3 commands.
`nodeMsg` and a scan's last stage both call `adoptSTIG` and `scheduleRecompute`.
`switchContext` moves `seq` and `gen` and resets the state of every component;
`applySSHConfig` moves `gen` only. Every script of a probe, a scan stage or a
rescue goes through one SSH runner, which `switchContext` and `applySSHConfig`
close and replace. The rescue runs in its own goroutine and reaches the loop by
messages; its effects are on the servers.

## Modules

| Module | Models | Uses |
|---|---|---|
| `RefreshChain` | the chain of fetches and ticks | |
| `UpdateLoop` | SSH collection | extends `RefreshChain`, conjoins its part of each shared handler |
| `SideResults` | the other results of the loop | extends `RefreshChain` in the same way |
| `Checks` | the vocabulary of facts and gaps, and the checks of the cluster, its nodes and its workloads | |
| `CheckHosts`, `Drivers`, `CheckStorage`, `CheckEtcd` | the checks of hosts, network and preflight; of the storage drivers; of volumes and snapshots; of etcd, backups and upgrades | extend `Checks` |
| `Stig`, `StigOS` | the rules of the cluster and its components; those of an OS, and the statuses' order | extend `Checks`, `Stig` |
| `RootCause` | restarts of nodes, the incidents and the causes of a timeline | extends `CheckEtcd` |
| `Findings` | the cluster going on, the answers, `recompute`, `incRefresh` | extends `CheckHosts`, `CheckStorage`, `CheckEtcd`, `StigOS`, `RootCause` |
| `SecScan` | the scan and the evaluation of the rules | |
| `SSHRunner` | connections, slots, retries | |
| `Actions` | confirmation and run of an action, the defragmentation | |
| `RescueView` | the rescue overlay | extends `Actions`: they share the screen |
| `Cutover` | what a restore promises, abstractly | |
| `RescuePlan` | plan, engine and scripts of the rescue | instantiates `Cutover` under a refinement mapping |
| `Rescue` | overlay and plan | extends `RescueView` and `RescuePlan` |
| `ApiFailover`, `Incidents`, `PodLogs` | the failover, the Incidents tab, the log viewer | |
| `LateAnswers` | four kinds of answers that can be late | extends `ApiFailover`, instantiates the other two and `SideResults` |
| `Tiers`, `Fetch`, `Bootstrap`, `Bundle` | tier scheduling; the API client; the kubeconfig; the gather | |
| `Khealth` | what `main` starts | extends these four |
| `EtcdTriage` | the servers, the evidence of them and the triage | |
| `MC*` | the constants of the runs | the module they are named after |
| `UpdateLoop_proofs`, `SecScan_proofs`, `SSHRunner_proofs`, `Rescue_proofs`, `LateAnswers_proofs`, `Khealth_proofs`, `EtcdTriage_proofs`, `Findings_proofs` | theorems | the module they are named after, TLAPS |

A part of `ui.App` becomes a module with exactly the fields its handlers read
and write, and commands in flight become a set or bag of the messages they will
deliver. One action is one message handled, with all its calls: `Snapshot` of
`UpdateLoop` accepts the snapshot, forgets nodes that left, advances `cycle`
*and* runs `collectCmds`. Actions of the operator (keys) are always possible.
What a command reads is recorded in the message when the command is built (the
gen, the login, the cluster its address leads to, the store an S3 check is made
of), because the Go closure captures it then; what its handler reads is read when
the message is handled.

Three modules compose machines that share no state: `Rescue`, `LateAnswers` and
`Khealth`. Their variable `part` says which machine is looked at, the others
stand still at their beginning. This keeps their state space a sum and not a
product, and loses no behaviour, because no action of one machine reads or writes
a variable of another.

- **RefreshChain.** `fetches` and `ticks` hold the messages in flight.
  `RefreshCmd`, `SnapshotMsg`, `TickMsg`, `SwitchChain` are the functions and
  cases of these names. `RefreshUnlessRunning` is the guard of the keys, of a
  finished action and of a closed rescue. Timers cannot be cancelled, so the tick
  of a superseded seq stays armed and is dropped when it fires.
- **UpdateLoop.** `probes` is a bag, because `probeNodeNow` can start the same
  probe twice. Facts are reduced to where and as whom they were read. Both
  clusters use the same node names: that is the case in which a stale answer is
  hard to see. `NodeAddress` makes the override in `ssh.hosts` explicit.
- **Tiers.** The data of `UpdateLoop`'s answers: which tiers a probe carries, what
  it leaves to the one before, and how old each is in steps (fresh, older than
  the tier's cadence, older than `journal_background`, never). A probe may be cut
  off after any section, or within it.
- **SecScan.** A scan has a number of its own that stands for its start time
  (`MergeSTIG` compares times); an Info is reduced to the scan its facts are
  from. Snapshots and probe answers are taken at any moment, which includes every
  order `RefreshChain` and `UpdateLoop` produce.
- **SideResults.** One bag of commands, tagged with the guard the code gives each
  (`gen`, `seq`, none) and the cluster asked. An S3 check is of the store in
  `App.s3` at the moment it is built (`store`), which need not be the cluster's.
- **SSHRunner.** A step is what a goroutine does under `r.mu`, or one blocking
  call outside it; `DialBastion` is the exception the code makes, a dial under
  `r.mu`. A dial through the bastion may hang (`MayHang`). Connections are names that are used again. Connections break, loudly
  or silently, and deadlines pass at any moment.
- **Actions, RescueView.** `waiters` are the `waitRescue` commands, `engine` the
  goroutine and its channel. `chosen` is what the operator means, as against what
  the cursor points at after the list has been rebuilt. The phase "snap" stands
  for the snapshot list and the prompt for a path. That no event of an earlier
  rescue is on its way when the word "restore" has been typed is assumed
  (`waiters = {}` in `StartRescue`). `quit` tells q, which a running rescue holds
  back (`Quit`), from ctrl+c, which ends the program at any moment (`Interrupt`) and
  with it the goroutine of the engine: the plan is then a behaviour that stops
  where it is, its step cut off like one that fails.
- **RescuePlan.** `Steps` builds the sequence of `Plan.build` for rke2 (k3s takes
  the same steps), kubeadm, restore and rejoin; `Begin`, `StepDone`, `StepFails`,
  `NotReplaced`, `NotAlone`, `End` and `AbortPlan` are the engine. `Does` is what each
  script does to a server. `Join`, `Promote`, `ResetEnds`, `AgentPlan` are what
  servers do by themselves between and during steps. A failing step has had no
  effect, all of it, or, for `start.sh`, only the drop-in. `StopScript` may report
  ok with a warning, when something still listens on etcd's ports after 30 s:
  `orphans` are the servers on which the old etcd serves on, until it ends
  (`OrphanEnds`). `RemoveScript` removes the member; that the script also reports ok
  when there is none to remove (`member_remove.sh:16`) is the same step without effect.
- **Cutover.** Servers go from the old data to the restored data as one: old data
  is served, then none, then only restored data, but for the etcds a stop has warned
  of (`warned`). The mapping takes `cut` as "every part's old data is moved aside".
- **ApiFailover.** `seq` is only compared for equality and never goes back, so an
  attempt is `live` until seq moves. Apiservers come and go: a fetch and a ping end
  either way. The 8 s a ping may take are the attempt's being in flight across a
  refresh. Candidates are the peers known *and* the addresses of `ssh.hosts`, any of
  which may be another cluster's: a switch keeps them, an operator types them
  (`OverrideAddress`), and a node reached at one gives peers of that cluster
  (`EtcdMsg`). What keeps another cluster's apiserver out is its certificate
  (`Answers`), so a kubeconfig that verifies none (`Unverified`) is excepted from
  `NoForeignClient`.
- **Incidents.** The SSH failures stand for every kind of incident, because their
  source is state of the loop. A failure's place in `sshDown` is the order of the
  messages. `View` is the frame drawn after every message, which rebuilds the list.
- **PodLogs.** Lines are reduced to the stream they are from. Each stream has a
  reader and a channel; `waitLogs` takes one chunk for the seq it was made for.
- **Fetch.** A list's content is a version. A call answers, fails for once, or is
  refused, and the apiserver changes its mind. The release payloads are read
  after the lists, or served from the cache kept under the two fingerprints. Lists
  come from the watch cache of an apiserver (`listOpts`), so `stored` is what that
  cache holds and not what etcd does. When several apiservers share the
  address (`balanced`) each list may be from another cache, of any version so far
  (`Reads`); nothing is then said of the releases.
- **Bootstrap.** A file is its cluster, its endpoint and how much of its text is
  there: all, enough to parse, nothing (which parses, and has no CA), or a part
  that does not parse. Renaming, creating and filling are steps; a run can be
  killed before each, and a write cut short. A file that is used again may be
  rewritten where it is, for its SSH hint. `out` is `--bootstrap-out`, which names
  any of the khealth-*.yaml files. The API's going and coming and the rebuilding of
  the servers as another cluster are folded into each look at them: any cluster, any
  of its endpoints answering.
- **Bundle.** The script's output goes through a pipe in three parts, so that the
  unpacking can stop before the stream, or the stream before the unpacking.
- **Findings** and the modules it extends. A fact is `<<list, object, what>>`: what
  one list of the API, or one probe of one node, says of one object ("the pods list
  says of p1 that it is in CrashLoopBackOff"); a threshold of the code is such a
  *what*, on one side of it or the other. A *scene* is a cluster with a sequence
  of worlds, the sets of facts that are true one after the other. A check is an
  operator from what is at hand to the findings `<<subject, title>>`: `d.read` are
  the lists that were read, `d.ok` and `d.probed` the nodes whose probe answered or
  was tried, `d.facts` what all of them said. The actions are the answers: a
  refresh in which some lists fail (a failed one takes with it those the code asks
  after it, `Unread`; one that is kept between refreshes stays old), a probe with
  some of its tiers, an etcd answer, a scan. `AtHand` builds the input of
  `recompute` from them, so its facts are of several worlds and have holes; `Whole`
  is the same input for one world, with nothing missing. `Truth` is what the checks
  say of each world, and `ClaimsAreGrounded` compares: what khealth says of the
  holes and the mixture has been true of some whole world so far, or is one of the
  findings about a gap. Where the code does guess, `Guesses`, `RuleGuesses` and
  `Joined` name the finding *and* the list that has to be missing for it, so the
  invariant still refutes the same finding for another reason.
- **RootCause** has the incidents and the causes as facts of the same input, each an
  operator named as its function in `rules.go`. An entry of the timeline is a fact
  of the list or journal it comes from. That an entry lies in the first minutes of
  its node is a fact of the nodes' list ("exited as it came up"), that it lies in
  a restart a fact of the entry's object; the rest of `bootstrap` and `Covers`, namely
  which node an entry is of and whether that node is known and did restart, is
  computed from what is at hand, and `CauseGuesses` says what becomes of it when
  the nodes, the pods, the events or the probe are missing.
- **EtcdTriage.** Servers fail together in one of four ways, come back, elect.
  Each kind of evidence is as old as its last answer. The operators under "The
  triage" are the functions of `etcd_triage.go` of the same names. The probes of
  one cycle answer together.

## Runs

| Run | Question | Bounds |
|---|---|---|
| `loop_cycle` | Do the refreshes go on, are probes never stacked, marks taken back? | 1 cluster, 2 nodes (1 etcd, 1 with an `ssh.hosts` entry), 3 refreshes, backoff on, no address edits |
| `loop_switch` | Has the chain exactly one live message? Is a late answer of another cluster or login ever taken? | 2 clusters sharing a node name, 2 logins, 3 refreshes, 1 switch or reconnect, address edits, 2 stacked probes |
| `scan` | Are the scan's facts and results right, and does it end? | 2 nodes, 2 stages, 2 scans, 1 switch, 1 SSH change |
| `ssh_pool` | Is a connection ever lost or doubled? Do calls end? | 1 host behind a bastion, dials through which may hang, 2 callers (one streams), 3 connections, 2 slots |
| `rescue` | Is a running rescue ever lost, or for another server? Does every plan, with any failure and abort, leave a recoverable cluster? | overlay: 2 servers, 2 views, 3 events, a channel of 1, 2 members to defragment, ctrl+c at any moment; plan: target and 2 followers, every choice of followers, agents, members and running servers |
| `rescue_reset` (violation) | Is a server started during a cluster-reset? | the plan of `rescue` |
| `program` | Tiers: are ages and findings true? Client: is what is missing said, and is the cache current? Bootstrap: whose files are touched? Gather: is the manifest true, does it end? | 1 node, the tiers journal and config, 3 tabs; 1 required and 2 optional lists, of which the pods' and the payloads' calls are refused and granted while the others only time out, 2 versions of the release secrets, 1 apiserver or several; 2 clusters, 2 endpoints, 1 name of 2 numbers (as with `--bootstrap-name`), 3 runs, 1 kill or write cut short; 2 nodes to gather from |
| `late_answers` | Is a late answer ever taken for what it is not? | clusters of 2 and 1 servers, one of which has a kubeconfig without verification, any addresses in `ssh.hosts`, 2 attempts in flight; 2 nodes, 3 listings, 1 context being read; 2 viewers, 3 streams, a channel of 1; side results: 2 clusters, 3 refreshes, 1 switch, 1 command in flight when one is added by a tab or a probe |
| `incident_context` (violation) | Is a context that of its incident? | 2 nodes, 3 listings, 2 contexts being read |
| `triage` | Is a quorum that is said to be lost lost, are broken servers named, is the target the newest? | 3 servers (3 voters, or 2 and a learner), 2 changes, 2 elections |
| `triage_outage` (violation) | Is an outage khealth saw begin diagnosed? | 3 servers, 1 change, 1 election |
| `checks` | Does khealth say what was never true, or count what it has not seen as passing? | 51 scenes of 3 nodes with 1 or 2 worlds, 2 lists failing of themselves in one refresh, any subset of probes and tiers |

Why the bounds are enough. A stale message needs one refresh or switch to become
stale and one more to race: three refreshes let a message of the first outlive
two. One move of `gen` makes every answer asked before it foreign, and a second
cluster and login suffice to tell an answer apart. Two nodes let one finish, fail
or leave while the other has not; two stages have a first, a next and a last.
Tiers and bootstraps of different nodes and paths do not touch each other, so one
node and two paths suffice; three bootstraps are one that writes, one that is
killed over it and one that finds what is left. Two members are one that is down
for its defragmentation and one that must not be. Three connection names let one be
cached, one be given up on and one be dialed. A channel of one is full after one
event, which a channel of 64 is after 64. Three servers are the smallest cluster
that has a quorum without one of its members, and a target with followers in two
positions; two elections have a leader of the past and one of the present. A switch
takes two values of `seq`, so three let one be followed by a refresh. The scenes
are one per part of `checks.Evaluate` and of the rules, with facts on which each
branch turns, and a second world where the part relates facts that are not read
together; a check reads few lists, so a finding that needs three to fail at once
would have to be built on purpose. Where
there is symmetry (clusters, logins) the runs that check only safety use it; runs
with liveness do not.

`NoStackedProbes` is checked without address edits (`Moved = {}`) on purpose:
with them it does not hold, see Observations.

The properties, by run:

- `loop_cycle`: `NoStackedProbes`, `PendingClears`, `RefreshesForever`.
- `loop_switch`: `OneLiveMessage` (the snapshot of the current seq while
  refreshing, its tick otherwise, never both or none), `NothingForeign` (the snapshot and the
  facts of nodes and etcd are of the attached cluster and login).
- `scan`: `FactsFromHere`, `CompleteIsAdopted`, `ResultsAreCurrent`,
  `FactsNeverOlder`, `UndisturbedScanEnds`.
- `ssh_pool`: `PoolIsTidy` (no connection is open that neither the pool nor a caller
  has, and a host has one), `CallsEnd` (every call ends, if no dial through the
  bastion hangs for good).
- `rescue`: `RescueIsWatched` (a running rescue is on the view, somebody takes its
  events, and q does not quit over it), `TargetIsChosen`, `RescueEnds` (or ctrl+c
  does), `OneMemberDown`; `NoNewCluster`, `LeftoversAreReported`, `SuccessMeansRestored`, `CutsOver`
  (refinement of `Cutover`), `RescueCompletes`.
- `program`: `AgesAreHonest`, `WantedIsRefreshed`, `ShownOrScheduled`;
  `MissingIsReported`, `SecretReleasesAreCurrent`, `GrantsAreNoticed`;
  `OthersKept` (but for the file `--bootstrap-out` names), `CopyIsKept` (over all
  runs a path keeps its newest whole kubeconfig, itself or as `.bak`, but for the two
  writes that `WithoutCopy` names); `ManifestIsHonest`, `GathersEnd`.
- `late_answers`: `NoForeignClient` (the client is of the operator's context, and,
  unless that context verifies no certificates, talks to its cluster),
  `OpenedIsExplained`, `SwitchDropsLines`, `GuardedResultsAreOurs` (of whom they
  were asked for).
- `triage`: `LostIsTrue` (of every "etcd quorum lost", whichever disjunct of
  `triageEtcd` says it), `BrokenAreCovered`, `OutageIsDiagnosed`.
- `checks`: `ClaimsAreGrounded`, `UnscannedIsNotPassed`.

Some formulas are stated in the modules and checked by no run, because others
imply what matters of them (`PendingHasProbe`, `CountingEnds`,
`OneStream`, `OneOutput`, `NoRescueOverAction`, `BackoffBounded`,
`WantedHasStage`, `ProgressIsHonest`, `ListCatchesUp`,
`EndIsSeen`, and `TryingHasAttempt` and `AgentLast`, which are proved), or because the code does
not uphold them (`StaleIsStale`, `StartedIsChecked`, `ShownIsComplete`,
`PartIsReported`, `OnlyDeadIsClosed`, `ScanEnds`,
`UnguardedResultsAreOurs`, `JoinedIsRecognized`): see Observations, where each of the latter is named at
the behaviour that refutes it. TLC refutes it when it is checked with the
constants of the module's run.

### The runs that find a violation

1. `rescue_reset`: the second cluster-reset writes `cluster-reset-2.*`, but
   `clusterReset` polls the first one's log and exit file, which say "has been
   reset" already: the server is started while the reset runs.
2. `incident_context`: an incident's context is kept under its number. A list that
   is rebuilt between the request and the answer gives the number to another
   incident, whose panes then show the first one's cause and logs.
3. `triage_outage`: once the apiserver is down the exec view of the healthy cluster
   is neither renewed nor dropped, and is preferred to what the servers answer:
   no finding says that the quorum is lost.

## Fairness

Only what the runtime forces is fair. Each fetch runs under a 90 s context, each
SSH script and each stage under a timeout of its own, each ping under 8 s, a
context's calls under 20 s each: their commands return and their messages are
delivered. A `tea.Tick` timer fires. The fairness is per node where each node's
command is a goroutine of its own (`SecScan`, `UpdateLoop`, `Tiers`). Keys, the
operator's choices, context switches, apiservers going up and down, and failures
are never fair.

Strong fairness is used in three places. In `SSHRunner` a step that needs `r.mu`,
a host's lock or a slot is only enabled now and then; a Go mutex and a channel
serve whoever waits longest. A dial of a TCP address ends within `ssh.timeout`; a
dial through the bastion has no timeout, so nothing is assumed of it, and `CallsEnd`
has its ends as a hypothesis. In `Tiers` a node whose probe is repeated for ever is
answered in full once, in `Fetch` a call that the apiserver lets through and that
is repeated for ever answers once. Without these two nothing is ever collected,
whatever khealth does. In `RescueView` nothing more is taken from the engine and
the view once the program has been quit.

In `RescuePlan` the engine goes on, a detached reset ends, and an etcd member
that can join or be promoted is; agents, failures and the end of an etcd that outlived its
stop are not fair, and `RescueCompletes` is conditional on no step failing and no
such etcd. `Bundle` is one program that runs:
some step of it is taken whenever there is one. The compositions guard each
formula by the machine looked at. `CHECK_DEADLOCK FALSE` appears where the system
stops: a rescue ends, and so do a gather and a bootstrap.

## Proofs

TLAPS proves, for every value of the constants that meets the named assumptions:

| Theorem | Says | Argument |
|---|---|---|
| `UpdateLoop_proofs!ChainCorrect` | `ChainTypeOK`, `OneLiveMessage`, `NoForeignSnapshot` always | strengthened by: no message is of a seq to come, and a fetch of the current seq asks the current cluster; without these a message in flight could become current again, or a current snapshot be foreign |
| `UpdateLoop_proofs!NothingForeignShown` | `NothingForeign` always | the chain's invariant and `ProbesAreOurs`: no probe is of a gen to come, and one of the current gen was asked of the current cluster (or where `ssh.hosts` leads) as the current login, so the guard on gen is enough |
| `UpdateLoop_proofs!NeverStacked` | `NoStackedProbes`, while no address is edited in the picker (`Moved = {}`) | `MarksMatch`: a marked node has a probe of the current gen, and one whose address is not edited has exactly one when marked and none when not. With `probeNodeNow` it is false (see Observations), hence the hypothesis |
| `UpdateLoop_proofs!PendingCorrect`, `LoopTyped` | `PendingHasProbe`: a mark has the probe that will clear it; types | from `LoopInv`, with `CycleBehindSeq` |
| `LateAnswers_proofs!FailoverCorrect` | `TypeOK`, `NoForeignClient`, `TryingHasAttempt` always | strengthened by `Ours`: a *live* attempt is of the current context; the hosts it goes through may be anybody's, and only those the kubeconfig's authority vouches for answer |
| `LateAnswers_proofs!LateAnswersDropped` | `GuardedResultsAreOurs` always (which store an S3 check is of is not said, see Observations) | `CmdsAreOurs`: no command is of a gen or seq to come, and one whose guard still matches was asked of the present cluster. Stated of `LateSpec`, the composition |
| `LateAnswers_proofs!LinesDropped` | `SwitchDropsLines` | `LogsInv`: a `waitLogs` command and its message carry the seq of the stream they read |
| `SecScan_proofs!ScanCorrect` | `TypeOK`, `FactsFromHere`, `CompleteIsAdopted` always | strengthened by `WantUnfinished` (a node waited for is neither failed nor complete), `OldScanIsDeaf` (once gen has moved away from a running scan no stage in flight is of the current gen), `NoFutureStage`, `NoFutureFacts` |
| `SecScan_proofs!FactsOfOneGen`, `ResultsStayCurrent` | `FactsFromHere`; `ResultsAreCurrent` always | `ResultsFollow`: a change of the facts marks the results dirty with a recompute on its way, or evaluates the rules itself |
| `SecScan_proofs!FactsOnlyGetNewer` | `FactsNeverOlder` | from the same invariant: `NoFutureFacts` makes the scan adopted the newest |
| `SSHRunner_proofs!PoolStaysTidy` | `PoolIsTidy` always, any hosts, callers, connections and slots | `PoolInv`: who dials holds its host's lock and the pool has nothing for the host (`Dialing`), what the pool has is a connection to its host that is not closed (`Cached`), a connection about to be cached is known to nobody else (`Publishing`), and one given up is not in the pool (`Killing`) |
| `Rescue_proofs!NoLostRescue` | `RescueIsWatched` always, with ctrl+c at any moment | strengthened by `Counted` (plans and preflights are of views that were opened), `Pointed` (the cursor is in the list) and `Waiting` (who waits, waits for the view's seq or for an older one) |
| `Rescue_proofs!ChosenIsTarget` | `TargetIsChosen` | from the same invariant: while a node is picked and on the list, the cursor is on it |
| `Rescue_proofs!DefragOneAtATime` | `OneMemberDown` always | `DefragInv`: while members wait their turn nobody is down but the one at work |
| `Rescue_proofs!PlanIsLaid` | every plan is `Laid`: in order, complete, ending with a wait for everybody | `Laid` speaks of classes of steps and not of indices; it is put together part by part (`Cat`, `TargetLaid`, `FollowersLaid`), by arithmetic on the length of a follower's part |
| `Rescue_proofs!PlanCorrect` | `PlanInv` always | relates the servers, their data, their drop-ins, the agents and the members to the steps begun (`Begun`) and passed (`Past`) |
| `Rescue_proofs!NoClusterFounded`, `LeftoversAreNoted`, `SuccessIsWhole`, `AgentsComeLast` | `NoNewCluster`, `LeftoversAreReported`, `SuccessMeansRestored`; `AgentLast` | from `PlanInv` and `Laid`: what follows a step in the order of the plan has not happened, what precedes it has |
| `Rescue_proofs!RestoreCutsOver` | `CutsOver`: a restore implements `Cutover` | the initial states map to initial states; stopping, cutting and restarting are each one step of `Cutover`, all else a stutter; an etcd that outlives its stop is `warned` and only ends. `NothingNew` (no new data before the cut) follows from `PlanInv` |
| `Rescue_proofs!RescueIsSafe` | all of these of `RescueSpec`, the specification the run checks | the part that is not looked at stands still |
| `Khealth_proofs!SnapshotsAreHonest` | `MissingIsReported` always | strengthened by `Explained`: while the lists are read, a required call that is not open has answered or is an error, and with `OpenInLists` none is open later |
| `Khealth_proofs!ReleasesAreCurrent` | `SecretReleasesAreCurrent` always: of one apiserver, whose cache does not go back | strengthened by `Printed` (a fingerprint is between the version at the fetch's beginning and the present one, unless `balanced`), `CacheFits` (the cache is never older than the fingerprint it is kept under) and `RelsFit` |
| `Khealth_proofs!NothingStaysUnseen` | `ShownOrScheduled` always | inductive with the types alone: every action that changes facts recomputes or arms the timer |
| `Khealth_proofs!AgesAreKept` | `AgesAreHonest` | from the types: `Merge` takes the age of what a probe did not bring from the probe before |
| `Khealth_proofs!OthersAreKept` | `OthersKept` | strengthened by `Listed` (what a run read at its beginning stays true of every path until the run writes) and `Chosen` (a whole file at the path it writes is its own cluster's, or the path is `--bootstrap-out`'s) |
| `Khealth_proofs!CopiesAreKept` | `CopyIsKept` | from the same invariant, step by step (`Kept`): `Create` follows `Backup` or is the rewrite in place, `Fill` makes the successor whole, and what is cut short leaves the `.bak` |
| `Khealth_proofs!ManifestCorrect` | `ManifestIsHonest` always | strengthened by `Probed` (a target's probe runs or has a status), `Early`, `Gathered` (per node: what the pipe and its two goroutines can have reached given the script, and that the entry says so) and `Packed`: both goroutines cannot end well unless the script did |
| `Khealth_proofs!MachinesAreSafe` | the safety of tiers, fetches, bootstrap and gather of the composition's `Spec` | each machine does its own steps or stands still |
| `EtcdTriage_proofs!TriageCorrect` | `TriageInv` always | the evidence collected since the servers last changed is true of them (`SnapFits`, `ExecFits`, `ProbesFit`); a leader has a quorum (`LedByQuorum`) and has logged its election (`LeaderLogged`). `ProbesFit` has to allow for members carried over from an older probe, which is harmless only because the exec view is preferred then, and `EtcdExecMsg` that they are dropped when that view fails, as it also may with a leader |
| `EtcdTriage_proofs!QuorumIsLost` | `LostIsTrue` always | the voters that serve are among those seen healthy, or disjoint from those seen dead; counted against the majority a leader has. `clusterDown`'s second disjunct (some member seen, none healthy) needs that no serving server was seen: with a member list all of them are, without one those that answered |
| `EtcdTriage_proofs!BrokenAreNamed` | `BrokenAreCovered` always | with fresh evidence the members known are the present ones while there is a leader, and none without |
| `EtcdTriage_proofs!NewestIsTarget` | `OutageIsDiagnosed` always | the last leader has logged the last election, so it is ahead of every other server and has the newest data |
| `Findings_proofs!FindingsTyped` | `TypeOK` of `Findings` always | a list that is not asked for is one of the optional ones (`FollowersAreLists`), and moments only pass |
| `Findings_proofs!UnscannedNeverPasses` | `UnscannedIsNotPassed` always, if no rule id of a benchmark is one of khealth's own (`ForeignRules`) | the rows are followed from the node to the report. The node is in the group of its release, or in the only one there is, or reported (`GroupOfUnscanned`); a group with it passes no rule (`GroupKept`, `UnknownKeeps`); a rule of its release is in no other group (`GroupOfRule`); and what else the report has, and what the RKE2 STIG renames, is khealth's own (`Reported`, from one lemma per part of `Evaluate`) |
| `Findings_proofs!AskedOnly` | `AskedInv` always: what is known of a node was read over SSH, of a host that is asked | inductive with the types: each answer is of a node in the list its probe is sent to, and no host leaves it |
| `Findings_proofs!PlainChecksAreGrounded` | `PlainAreGrounded` always: what 22 checks that guess nothing say was true when it was read | two inputs are compared, what is at hand and a whole world. On a list of the refresh they agree, or it was not read (`ListMoment`); on a tier of a node they agree at the tier's own moment (`HostMoment`, with `AskedInv`). A check of a host reads one tier of it (`ItselfReads` to `UnitReads`); a check of the lists reads several so that a missing one only takes away what it says (`ShownReads` to `CephReads`): the negative tests (`not Ready`, `of an operator`, `ready` slices) are of the list that names the object, or of one whose absence is tested first |

Assumptions on the constants, named in the modules: placeholder values (`None`,
`Idle`, `NoCluster`, ...) are outside the sets they are added to; `MaxSeq` is
positive; each cluster's kubeconfig server is one of its hosts; there is a stage;
the release metadata lists are optional calls and the payloads' call is neither;
tabs need tiers; the SSH host is an endpoint; servers are finitely many, and a
rescue's followers are distinct and not its target (`FollowersAssumption`); etcd's
voters are finitely many, are no learners, and most of them are servers
(`TriageAssumption`); there is a slot and streams are callers (`RunnerAssumption`); a scene has
a world (`ScenesAssumption`); a rule id is of one benchmark, and a node of one release
(it is not upgraded to another one while khealth looks), which is known together with
its OS, as both are read from `/etc/os-release` (`BenchmarksAssumption`). `ForeignRules`, the hypothesis of `UnscannedNeverPasses`, and the first half of
`BenchmarksAssumption` hold of the five tables embedded in `internal/stig`, whose ids are
disjoint, and disjoint from those that the Kubernetes, RKE2, Rancher and CIS rules use. `Dialed` asks for a name that no connection has: names are
used again, and a model has finitely many. The bounds are arbitrary naturals, so the
proofs cover behaviours of every length, where the runs cover short ones.

Only model-checked: all liveness, which the prover does not do (`PendingClears`,
`RefreshesForever`, `UndisturbedScanEnds`, `CallsEnd`, `RescueEnds`,
`RescueCompletes`, `WantedIsRefreshed`, `GrantsAreNoticed`, `GathersEnd`,
`OpenedIsExplained`). Of the safety: `ClaimsAreGrounded` of
`Findings`, which quantifies over every finding, incident, cause and rule. For the
checks in `PlainAreGrounded` it is proved, of any scenes. For the others it is a
statement about the scenes only: their excuses (`Guesses`, `CauseGuesses`, `Joined`)
name a finding with the list it is silent about or the moments it joins, and a
cluster built on purpose may need one that no scene does. Looking for the checks that
could be proved showed eleven such pairs, which are now in `Guesses`, each with a scene
that needs it. TLC goes through the scenes that tell the excuses apart.
The violations of `rescue_reset`, `incident_context` and `triage_outage` are
counterexamples and need no proof.

## What the models leave out

Of modelled components: wording, layout, thresholds, the text of scripts and their
parsing, log lines; why a call failed, beyond whether it did. Of a fetch, the
kubelet proxies, the discovery and configz caches and the Longhorn engines carried
over from the snapshot before. Of the headless run, the scan stages; of a gather,
pod logs, scrubbing and opening a bundle again, and the run with SSH disabled. Of
the bootstrap, how a certificate orders the endpoints (any may be the first that
verifies), and the pass over the files one by one (they are verified at one
moment). Of the incidents, the journals and when an outage began; of the findings,
their history (`trackFindings`). Of the triage, k3s' gRPC view, external etcd,
raft lag, alarms, backups. In `RescuePlan`: Preflight's findings and warnings (the
plan starts from what passed), the sleep and retry pace of polls, file contents. A
wait that sees its condition may also time out just before, so a healthy cluster
can still end in a failed step; what follows from that is checked.

Of the checks: on which side of a threshold a number is (it is a fact), the numbers
in a finding, its level where it only words the same fact, and a few findings of
one line each: an SSH error of a node, checks of the rules that fail together, the
error list of the Helm releases, single metrics of etcd, Trident's multipath,
host services, orchestrator and force-detach, Longhorn's informational ones, an
upgrade in progress, system units other than the ones named. Of the rules: the
score, the checklist, fixes, the text of evidence, the wording of sshd's source;
a rule by a template is evaluated for one parameter per template, which stands for
the others. The output of a headless probe that was cut off. Of the causes: scores
and their order, wording, what an opened incident shows beside the incident (its
context, the ingress, the shape of its node), pod logs, and the entries that only
a bundle has. The list of incidents is a function of what is at hand; that it is
rebuilt only when its key moves is part of `Incidents`.

Not modelled: the parsers of probe output, rendering, themes, export. They keep no state, read one input and have the hazards of text
formats, which table tests reach; what they are given is modelled as facts.
Vendored and generated code, developer tools.

## Plan

What is left, in order:

1. Probes of one cycle that answer one by one in `EtcdTriage`, k3s' view.

## Observations

Things the code does that the models reproduce, or that were met while reading,
and that are not findings: no document, comment or test of the repository says
otherwise, no run isolates them, or another finding is close. Lines are of `src/`.

*Update loop*

- `probeNodeNow` (internal/ui/app.go:559) does not ask `skipProbe`
  (internal/ui/perf.go:115): an address edited in the rescue picker starts a
  second session of each kind on a node that has one running, and the answer of
  the first clears the pending mark of both. `loop_switch` contains this
  (`MaxStack`), `loop_cycle` excludes it.
- `switchContext` (internal/ui/app.go:2056) resets `cycle` but neither
  `skipUntil` nor `sshDown`: a node of the same name in the new cluster may skip
  its first cycles, and be shown as unreachable before it was tried.
- Without SSH hints of the new context the addresses in `ssh.hosts` are kept
  (internal/ui/app.go:2103), so a shared name is reached at its address in the
  previous cluster. `NothingForeign` excepts names with such an address.
- The clean-up after a snapshot walks `App.nodes` only
  (internal/ui/app.go:1280): an etcd answer of a node that left before its node
  answer stays; and a node's answer that is late brings back a node that left.
- A scan that runs while SSH settings are applied never ends: `applySSHConfig`
  moves `gen` and keeps the scan (internal/ui/sshconfig.go:282), the stages in
  flight are dropped, and Shift+S is refused for the rest of the session
  (`ScanEnds` of `SecScan`).
- The addresses of `ssh.hosts` that a switch keeps are candidates of the failover
  (internal/ui/app.go:865): another cluster's apiserver is pinged with this cluster's
  credentials, and becomes the client when the kubeconfig says
  insecure-skip-tls-verify. A node that is reached at such an address also gives
  that cluster's peers.
- A failover that outlasts a refresh has its answer dropped because `seq` moved,
  and with the fetches and pings timed badly the app never moves to the one
  apiserver that is up (compare docs/RESCUE.md:27).
- `helmMsg` and `s3Msg` carry no guard (internal/ui/app.go:1390): the previous
  cluster's chart versions and S3 secret are adopted after a context switch. So are
  the checks made of that secret, which carry the `gen` of the new cluster:
  they reach from its nodes to the store of the previous one
  (internal/ui/app.go:1052, `UnguardedResultsAreOurs` of `SideResults`).
- A forced collection (key R) is consumed for nodes that are skipped because a
  probe is running (internal/ui/app.go:489; docs/REFRESH.md:65), and in an
  outage by a cycle that has no targets.
- With SSH off `collectCmds` returns before it clears `heavyNext`: the
  encryption sample is read through the apiserver on every cycle
  (internal/ui/app.go:976; docs/REFRESH.md:21).
- The CRD counts are taken again on each entry of the tab
  (internal/ui/tabs_crds.go:24, compare :19).
- Hosts are pinged again when a failover's answer was superseded, because `tried`
  is recorded after the guard (internal/ui/app.go:1311, comment at :822). After a
  successful failover an etcd answer handled before the new snapshot still sees
  the old one and starts another attempt.

*Etcd rescue*

- When `start.sh` fails after it wrote the drop-in, or the connection is lost
  after `agent.sh` stopped an agent, the leftover is not in the notes
  (docs/RESCUE.md:120). `LeftoversAreReported` excepts the server of the failed
  step, which the error names.
- ctrl+c quits during a rescue without asking (internal/ui/app.go:1443, which the
  text at :1587 tells the operator): the step is cut off, nobody writes the notes.
- `stop.sh:52` only warns when something still listens on 2379/2380 and reports
  stopped=ok: the step is done, and an etcd on the old data may serve on after the
  cut (docs/RESCUE.md:55). `CutsOver` excepts the servers warned of.
- An abort after the last step reports "aborted" although every step was done.
- `verify_restore.sh` compares a node's file times with a start time taken from
  khealth's clock: with a skew of seconds a good restore looks not replaced and
  is wiped and tried again (`NotReplaced` is therefore possible for any data).
- A defragmentation or helm action can be confirmed while a rescue runs: only
  opening the rescue checks for a running action.
- A running rescue outlives a context switch or new SSH settings, which close
  the runner it uses.
- Each rescue view counts its messages from zero, so a preflight of a view that
  was left can be taken for one of the view opened next
  (internal/ui/rescue.go:707): a plan that was never checked can be confirmed, and
  a plan without steps reports that it is done (`StartedIsChecked` of `RescueView`).
- A rejoin retried after its member entry was removed counts one member too few
  and waits for it until the step times out (`JoinedIsRecognized` of `RescuePlan`).
- When the node under the cursor leaves the list, the cursor goes to the first row
  (`rescueRefresh`): a key pressed just then is for another server.
- A defragmentation keeps the leader of the moment it was asked for, and a second
  one can be confirmed while a member stopped by the first is still down.

*SSH runner* (internal/sshrun/runner.go)

- `dropDead` closes a connection that is alive and shared when the caller's own
  deadline has passed before its session opened, and a retry's `drop` closes the
  connection another caller has just made (:635): the scripts the others run on it
  end (`OnlyDeadIsClosed` of `SSHRunner`). A script that was cut off so may run twice.
- The bastion is dialed under `r.mu`: everyone waits for it, `Close` included. A
  bastion connection that died is never replaced.
- A host is dialed through the bastion without a timeout (:382), and the handshake's
  deadline does nothing on the bastion's channel: a host that does not
  answer there keeps the host's lock and a slot, and its callers with them, whose
  contexts are not looked at while they wait for either.
- A dial in flight when `Close` is called caches a connection nobody closes.
- A host that is silent holds its callers' slots until their deadlines.

*Tiers, client, gather, bootstrap*

- A tier whose section was cut off is taken for collected and fresh
  (`ShownIsComplete`, internal/nodeinfo/info.go:32).
- `helmReleases` drops the error of the configmaps' list
  (internal/k8s/helm.go:138) and the part is cached for the whole
  (`PartIsReported`).
- Lists come from watch caches (internal/k8s/client.go:257). Behind a load balancer
  the releases may be read from an older one than the fingerprint they are kept
  under is from, and stay until the set of releases changes again.
  `SecretReleasesAreCurrent` excepts this (`balanced`).
- R during a refresh forgets the refused calls, and one still in flight notes its
  refusal again.
- The sets of system and exempt namespaces are globals that a context switch does
  not clear.
- A replayed bundle is evaluated without the status of its probes, with SSH taken
  for enabled when it has nodes, so its findings may differ from the recorded ones
  (docs/GATHER.md:60). Errors of writing raw files and a failed etcd probe of the
  headless cycle are not in the manifest.
- `RememberSSH` rewrites a kubeconfig in place, without a `.bak`, after a bootstrap
  (internal/bootstrap/bootstrap.go:593, cmd/khealth/main.go:499) and after a context
  was chosen from the list, without a bootstrap (cmd/khealth/main.go:603, not modelled); killed in between it leaves a truncated file.
  And what a write that was cut off has left is renamed over the good `.bak` by the
  next run (internal/bootstrap/bootstrap.go:733). `CopyIsKept` excepts both.
- `--bootstrap-out` replaces the file it names whoever it belongs to, where
  docs/RUNNING.md:22 says another cluster's file is left alone; it is kept as `.bak`.
  `OthersKept` excepts it.
- A file that was truncated to nothing parses, has no CA, and so takes its name: the
  next bootstrap of the cluster is numbered.
- An outage of the API behind a virtual address makes the next bootstrap replace
  that address by the SSH host. Two bootstraps at once may write the same path.

*Incidents, findings, logs, triage*

- `switchContext` keeps `sshDown`, `apiDown` and the incidents
  (internal/ui/app.go:2053), and the list is only rebuilt when the number of
  failures moves: one node failing as another recovers leaves it.
- One failed probe resolves a node's findings (internal/checks/checks.go:236), and
  the next good one gives them a new first-seen time (internal/ui/findings.go:10).
  Findings that differ in digits only share a history.
- A log viewer counts its streams from zero: a chunk of the previous viewer can be
  taken (`SwitchDropsLines` speaks of one viewer). The command that waits for
  chunks of a container switched away from is never released, and a viewer that
  an action's output covers goes on streaming.
- Where no member list is known every server counts as a voter
  (`q.total`, internal/checks/etcd_triage.go:780). With an odd number of voters and a
  learner that asks for a larger quorum than etcd does, and a quorum can be called lost
  that is not: one voter that serves and that SSH does not reach, and a learner that
  answers and is down, before the exec view has answered. `ServersVote` excepts this
  from `LostIsTrue`; the proof needs it, and TLC finds the counterexample without it
  for the members `voters = {n1}`, `learners = {n2}`.
- "etcd quorum lost: 0/3 members healthy", with the advice to reset, is also
  said when no member is seen healthy and one was seen at all
  (internal/checks/etcd_triage.go:197, :368): without a member list a single server
  that SSH saw down is enough, while the two that were not reached serve and the
  apiserver answers. The comments at :175 and :825 and the test
  internal/checks/etcd_triage_test.go:391 want members nobody checked to be unknown
  and not down. `LostIsTrue` excepts exactly this: no member list, a server
  that answered, and none that answered and serves.
- With the API down the member of a server that does not answer is called stale,
  with the advice to remove it (`StaleIsStale`,
  compare internal/checks/etcd_triage_test.go:250). The ranking of the servers is
  of those that answer: when the last leader's does not, the target may not have
  the newest data, which is why `OutageIsDiagnosed` asks for every server.
- A view of the members that an SSH probe carried over stands in for an exec view
  that fails, until the next cycle. A running member that does not vote counts as
  healthy for the quorum. The rescue picker takes its leader from an exec view of
  any age (internal/ui/rescue.go:288).

*Root causes* (`CauseGuesses` and `Joined` of `Findings`)

- A node that rebooted is said to have had "its containers all stopped without the
  node rebooting" when the lists show it before its next probe, or when nothing on
  the timeline is older than its boot, as when the events were not listed
  (internal/rca/restarts.go:206-239).
- A container with three restarts or more, the last of them while its node came
  back from a boot a day ago, is told by no cause: `nodeRestarts` skips an old boot
  that ended nothing, and `crashLoop` leaves the container to it as settling.
- An entry whose node or pod is not listed is measured against the birth of the
  cluster: without the nodes' list, or the pods', what a joining node produced is
  an incident.

*Checks and rules* (the guesses of `Findings`)

- docs/STIG.md:152 says "`Unknown` when we could not read the input (RBAC). Never
  emit FAIL for missing data". Five rules do: V-252843 when the second of the
  management lists was refused (`MgmtErr` keeps the first failure only), V-252847
  without the global role bindings, V-252849 without the ingress or the network
  policies, V-254571 and V-254800-ns without the pods.
- A node whose base probe failed after its scan has an empty OS and is judged by
  the generic rules, of which two then fail (OS-auditd, OS-mac).
- `evalTemplated` makes Manual of a rule whose directory the scan did not sweep
  (`AUDITDIR`), where the other unread inputs are Unknown.
- V-242423 and V-242426 accept "client-cert-auth: true" from either section of
  the etcd configuration.
- docs/STIG.md:145 says of `perNode` "any Fail -> FAIL, any Manual -> MANUAL"; in the
  code Unknown comes before Manual.
- A lock of Trident Protect is called stale when its holder is not found, which is
  also so when the snapshots and backups were not read (compare "Stale means the
  lease names a holder that no longer exists").
- Findings that say "none" of a list that was not read: the pairs of `Guesses`.
