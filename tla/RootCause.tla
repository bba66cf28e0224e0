------------------------------ MODULE RootCause ------------------------------
(***************************************************************************)
(* What happened, and why: the incidents of the cluster and the causes      *)
(* that are offered for them (package rca), from the same facts as the      *)
(* findings.                                                               *)
(*                                                                         *)
(* The timeline is the events, what the snapshot's pods and nodes say of   *)
(* themselves, and the lines of the journals that a pattern knows (BuildLive). *)
(* A fact of it names an entry, or as many as its rule asks for.  Whether   *)
(* an entry falls in a node's first minutes is a fact of the node ("W as   *)
(* it came up"), and in a restart of it one of the entry's object ("W as    *)
(* its node came back").  Scores and wording are left out.                 *)
(***************************************************************************)
EXTENDS CheckEtcd

\* The node of an entry: its own, or of the pod, when that is listed.
Home(d, o) == IF o \in Node THEN {o} ELSE {n \in Node : Has(d, "pods", o, "on " \o n)}

\* ctx.bootstrap of one entry: in the first minutes of its node, and of the cluster
\* when the node is not known, or not listed.
Young(d, o, w) ==
    LET listed == Home(d, o) \cap Listed(d)
    IN IF listed # {} THEN \A n \in listed : Has(d, "nodes", n, w \o " as it came up")
       ELSE Listed(d) # {} /\ Has(d, "nodes", "cluster", w \o " as it came up")

\* The rules that skip what cleared by itself look at all of their entries.
Bootstrap(d, l, w) == With(d, l, w) # {} /\ \A o \in With(d, l, w) : Young(d, o, w)

\* Timeline.Containerized: a probe that fails keeps what the one before it said.
Containerized(d) ==
    {n \in Node : d.ssh /\ n \in d.ok["probe"] \cup d.ok["config"] /\ <<"probe", n, "in a container">> \in d.facts}

-----------------------------------------------------------------------------
(* Restarts of nodes                                                       *)

\* A boot: the kernel's first line, or the uptime of the probe when the timeline goes
\* back further than that.  A node's boot before it joined is none.
Boots(d) ==
    {n \in Node : /\ \/ Has(d, "logs", n, "kernel boots")
                     \/ /\ Has(d, "probe", n, "booted")
                        /\ \E l \in {"logs", "events", "pods", "nodes"} : Some(d, l, "before the boot of " \o n)
                  /\ ~Has(d, "nodes", n, "joined after its boot")}

\* lostEpisodes: containers of the node that were found gone, three or more together.
LostWith(d, n) == With(d, "pods", "lost with " \o n)

\* The episodes that are no boot's.
Stopped(d) ==
    {n \in Node : LostWith(d, n) # {} /\ (n \in Boots(d) => Has(d, "pods", n, "lost apart from the boot"))}

Restarted(d) == Boots(d) \cup Stopped(d)

\* Restart.Covers an entry of the object.
Back(d, o, w) ==
    LET covered == w \o " as its node came back"
    IN /\ \E l \in {"pods", "events", "logs", "nodes"} : Has(d, l, o, covered)
       /\ Home(d, o) \cap Restarted(d) # {}

\* Restarts: whether it was the node or its containers, as far as the probe can tell.
How(d, n) == IF n \in Hosts(d) THEN "containers stopped" ELSE "containers stopped, or rebooted"
Told(d) == {<<n, "rebooted">> : n \in Boots(d)} \cup {<<n, How(d, n)>> : n \in Stopped(d)}

\* Restart.Hung: a shutdown that was asked for, and never finished.
Shutdown(d, n) ==
    CASE ~Has(d, "logs", n, "shutdown requested") -> {}
      [] Has(d, "logs", n, "shutdown clean") \/ ~Has(d, "logs", n, "silent for minutes") -> {<<n, "planned">>}
      [] OTHER -> {<<n, "shutdown hung">>}

\* lostTo, and settling: a container that its node's restart ended, or that failed while
\* the node came back and runs now.
LostTo(d) == UNION {LostWith(d, n) : n \in Restarted(d)}
Settling(d) == {c \in With(d, "pods", "exited") \ With(d, "pods", "CrashLoopBackOff") : Back(d, c, "exited")}

\* nodeRestarts: one cause for all of the containers.  An old boot that ended nothing
\* has nothing to tell, of those either that failed while it came back.
NodeRestarts(d) ==
    LET old == {n \in Boots(d) : Has(d, "probe", n, "booted long ago") /\ LostWith(d, n) = {}
                                    /\ ~Has(d, "logs", n, "shutdown requested")}
    IN {f \in Told(d) : f[1] \notin old}
           \cup (UNION {Shutdown(d, n) : n \in Boots(d)})
           \cup {<<c, "ended by its node's restart">> : c \in LostTo(d)}
           \cup {<<c, "exited while its node came back">> :
                    c \in {s \in Settling(d) \ LostTo(d) : Home(d, s) \cap old = {}}}

-----------------------------------------------------------------------------
(* Analyze: the other rules                                                *)

\* A slow disk comes first, and what follows it is its effect.  Elections without one:
\* one member, and members that come up, elect by themselves.
EtcdLatency(d) ==
    LET leader == With(d, "logs", "leader changes")
        alone == Cardinality(EtcdNodes(d)) = 1 \/ Bootstrap(d, "logs", "leader changes")
        follows == {x \in Node \X {"lost leases after that", "lost its node lease after that"} : Has(d, "logs", x[1], x[2])}
                       \cup {<<n, "NotReady after that">> : n \in {m \in Node : Has(d, "events", m, "NotReady after that")}}
    IN IF Some(d, "logs", "slow fsyncs")
       THEN {<<"etcd", "disk latency">>} \cup follows \cup {<<n, "elections after slow fsyncs">> : n \in leader}
       ELSE IF leader = {} \/ alone THEN {} ELSE {<<"etcd", "repeated elections">>} \cup follows

DiskFull(d) ==
    {<<n, "disk full">> : n \in With(d, "logs", "disk full") \cup With(d, "nodes", "DiskPressure")
                                     \cup With(d, "logs", "evicts for disk") \cup With(d, "events", "evicts for disk")}

\* The kernel's log of a node in a container is its host's (ctx.onHost).
NodeOOM(d) == (With(d, "logs", "oom") \cup With(d, "events", "SystemOOM")) \ Containerized(d)
Memory(d) ==
    {<<c, "killed at its limit">> : c \in With(d, "pods", "OOMKilled")}
        \cup {<<n, "memory exhausted">> : n \in NodeOOM(d) \cup With(d, "nodes", "MemoryPressure")
                                                    \cup With(d, "events", "evicts for memory")}

\* By image.  The journal's lines name none: they count when nothing else does.
ImagePull(d) ==
    LET named == With(d, "events", "pull failed") \cup With(d, "pods", "cannot pull")
    IN {<<p, "image cannot be pulled">> : p \in named}
           \cup When(named = {} /\ Some(d, "logs", "pull failed"), <<"image", "cannot be pulled">>)

\* A container that was killed for want of memory is left to Memory, and one that its
\* node took along to NodeRestarts.
CrashLoop(d) ==
    LET restarting == With(d, "pods", "CrashLoopBackOff") \cup With(d, "pods", "exited three times")
        own == (restarting \ With(d, "pods", "OOMKilled")) \ (LostTo(d) \cup Settling(d))
        killed == With(d, "events", "liveness fails") \cap With(d, "pods", "exit 137")
    IN {<<c, IF c \in killed THEN "restarting: its probe fails" ELSE "restarting">> : c \in own}

LivenessKills(d) ==
    LET failing == {o \in With(d, "events", "liveness fails") : ~Young(d, o, "liveness fails")}
    IN {<<o, "liveness probe fails">> : o \in failing}
           \cup {<<o, "killed for its probe">> : o \in failing \cap With(d, "events", "liveness kills")}

NodeNotReady(d) ==
    LET not == With(d, "nodes", "not Ready") IN
    {<<n, "NotReady">> : n \in not} \cup {<<n, "logged before NotReady">> : n \in not \cap With(d, "logs", "warns before NotReady")}

\* Grouped by the scheduler's reasons, and by what refused the pod.
Reasons == {"no room", "taint not tolerated", "no node matches", "volume not bound"}
Scheduling(d) == {<<"pods cannot be scheduled", w>> : w \in {v \in Reasons : Some(d, "events", v) /\ ~Bootstrap(d, "events", v)}}
Refusals == {"violates PodSecurity", "exceeds the quota", "webhook failed", "create failed"}
Admission(d) == {<<"pods are refused", w>> : w \in {v \in Refusals : Some(d, "events", v)}}

SandboxAndVolumes(d) ==
    When(Some(d, "events", "sandbox failed") /\ ~Bootstrap(d, "events", "sandbox failed"), <<"sandboxes", "fail">>)
        \cup When(Some(d, "events", "mount failed") \/ Some(d, "logs", "mount failed"), <<"volumes", "fail to mount">>)

AccessDenied(d) == Of(d, "logs", {"fapolicyd denies", "SELinux denies"})

\* Errors of identity and trust that come again.
TrustAndJoin(d) == Of(d, "logs", {"token mismatch", "CA mismatch", "cluster ID mismatch", "etcd member missing", "clock skew",
                                  "port in use", "swap is on", "kernel defaults", "containerd down", "kubelet exits"})

\* A unit that restarts while its node comes back is part of that.
UnitRestarts(d) ==
    {<<n, "service restarting">> : n \in {m \in With(d, "logs", "unit restarts") : ~Back(d, m, "unit restarts")}}

Analyze(d) ==
    UNION {EtcdLatency(d), DiskFull(d), Memory(d), ImagePull(d), NodeRestarts(d), CrashLoop(d), LivenessKills(d), NodeNotReady(d),
           Scheduling(d), Admission(d), SandboxAndVolumes(d), AccessDenied(d), TrustAndJoin(d), UnitRestarts(d)}

-----------------------------------------------------------------------------
(* Extract: the incidents                                                  *)

\* bootstrapNoise and inRestart: what a node that comes up, or comes back, produces.
Remains(d, l, w) == {o \in With(d, l, w) : ~Young(d, o, w) /\ ~Back(d, o, w)}

\* The node of a SSH failure is one that the cluster lists, if it lists any.
SSHFailures(d) ==
    {n \in IF d.ssh THEN d.probed["probe"] \ d.ok["probe"] ELSE {} : Listed(d) = {} \/ n \in Listed(d)}

\* Of a workload: its pods' exits, evictions, probes, images, places, volumes, sandboxes.
OfWorkloads(d) ==
    {<<o, "OOM incident">> : o \in With(d, "pods", "OOMKilled")}
        \cup {<<o, "restart incident">> : o \in Remains(d, "pods", "exited")}
        \cup {<<o, "eviction incident">> : o \in With(d, "events", "evicted") \cup With(d, "pods", "Evicted")}
        \cup {<<o, "refused incident">> : o \in With(d, "events", "rejected")}
        \cup {<<o, "probe incident">> : o \in Remains(d, "events", "liveness kills")}
        \cup {<<o, "pull incident">> : o \in With(d, "events", "pull failed")}
        \cup {<<o, "schedule incident">> : o \in UNION {Remains(d, "events", w) : w \in Reasons}}
        \cup {<<o, "admission incident">> : o \in UNION {With(d, "events", w) : w \in Refusals}}
        \cup {<<o, "volume incident">> : o \in With(d, "events", "mount failed")}
        \cup {<<o, "sandbox incident">> : o \in Remains(d, "events", "sandbox failed")}

\* Of a node.  drained: a cordon, with the pods that stopped after it.
OfNodes(d) ==
    {<<n, "node-oom incident">> : n \in NodeOOM(d)}
        \cup {<<n, "notready incident">> : n \in Remains(d, "nodes", "not Ready") \cup Remains(d, "events", "NodeNotReady")}
        \cup {<<n, IF Has(d, "events", n, "pods stopped after that") THEN "drained incident" ELSE "cordoned incident">> :
                n \in {m \in With(d, "nodes", "cordoned") \cup With(d, "events", "NodeNotSchedulable") : ~Back(d, m, "cordoned")}}
        \cup {<<n, "pressure incident">> : n \in With(d, "nodes", "DiskPressure") \cup With(d, "nodes", "MemoryPressure")}
        \cup {<<n, "SSH incident">> : n \in SSHFailures(d)}
        \cup Told(d)

Extract(d) == OfWorkloads(d) \cup OfNodes(d)

=============================================================================
