----------------------------- MODULE LateAnswers -----------------------------
(***************************************************************************)
(* Answers of ui.App that can be late, each with a guard of its own: a     *)
(* failover's carries the seq of its refresh, a log chunk that of its      *)
(* viewer, an incident's context the number the incident had, and what is  *)
(* fetched beside the node probes the gen or the seq, or nothing.          *)
(*                                                                         *)
(* What waits for them are different fields of App, and a handler touches  *)
(* those of one of them only.  Their composition is therefore the one      *)
(* looked at, the others standing at their beginning.                      *)
(***************************************************************************)
EXTENDS ApiFailover, FiniteSets, Sequences, Bags

CONSTANTS
    Hosts, Listings, MaxAsked,             \* Incidents
    MaxViews, MaxStreams, MaxStarted, Cap, \* PodLogs
    Node, S3Cluster, NoCluster, MaxSeq, MaxGen, MaxCmds, \* SideResults
    None

VARIABLES
    part, \* the answer looked at
    listed, known, sshDown, apiDown, tabOpen, incList, builtOf, openInc, ctx, reading,
    logs, opened, visible, reader, chan, waiters, msgs,
    seq, fetching, shown, snapFrom, fetches, ticks, gen, sshOn, heavyNext, etcdKnown,
    helmLatest, s3, s3Reach, etcdExec, crdCounts, crdCounting, cmds

Tab == INSTANCE Incidents WITH snap <- listed, asked <- reading
LogView == INSTANCE PodLogs
Side == INSTANCE SideResults WITH refreshing <- fetching, cluster <- shown

ASSUME LateAnswersAssumption == Tab!IncidentsAssumption /\ LogView!LogsAssumption /\ Side!SideAssumption

tabVars == <<listed, known, sshDown, apiDown, tabOpen, incList, builtOf, openInc, ctx, reading>>
logVars == <<logs, opened, visible, reader, chan, waiters, msgs>>
resultVars == <<seq, fetching, shown, snapFrom, fetches, ticks, gen, sshOn, heavyNext, etcdKnown,
                helmLatest, s3, s3Reach, etcdExec, crdCounts, crdCounting, cmds>>
lateVars == <<part, vars, tabVars, logVars, resultVars>>

LateTypeOK ==
    /\ part \in {"failover", "incidents", "podlogs", "side"}
    /\ TypeOK /\ Tab!TypeOK /\ LogView!TypeOK /\ Side!TypeOK

\* What is not looked at has one beginning.  The clusters with S3 only
\* differ by name, so that any of them may be the first of the side results.
LateInit ==
    /\ part \in {"failover", "incidents", "podlogs", "side"}
    /\ Init /\ Tab!Init /\ LogView!Init /\ Side!Init
    /\ part # "failover" => sshHosts = {} /\ cluster = CHOOSE c \in Cluster : TRUE
    /\ shown = CHOOSE c \in S3Cluster : TRUE
    /\ part # "side" => sshOn

FailoverNext ==
    /\ part = "failover" /\ Next
    /\ UNCHANGED <<part, tabVars, logVars, resultVars>>

TabNext ==
    /\ part = "incidents" /\ Tab!Next
    /\ UNCHANGED <<part, vars, logVars, resultVars>>

LogsNext ==
    /\ part = "podlogs" /\ LogView!Next
    /\ UNCHANGED <<part, vars, tabVars, resultVars>>

SideNext ==
    /\ part = "side" /\ Side!Next
    /\ UNCHANGED <<part, vars, tabVars, logVars>>

LateNext == FailoverNext \/ TabNext \/ LogsNext \/ SideNext

\* Of the part that is looked at, what its module justifies.
LateFairness ==
    /\ WF_tabVars(part = "incidents" /\ Tab!Snapshots)
    /\ \A i \in Tab!Id, n \in Hosts :
          WF_tabVars(part = "incidents" /\ Tab!IncCtxMsg([id |-> i, node |-> n]))
    /\ \A s \in LogView!Stream, n \in 1..MaxStreams :
          WF_logVars(part = "podlogs" /\ LogView!WaitLogs([from |-> s, seq |-> n]))
    /\ \A m \in LogView!LogMsg : WF_logVars(part = "podlogs" /\ LogView!HandleLogMsg(m))

LateSpec == LateInit /\ [][LateNext]_lateVars /\ LateFairness

-----------------------------------------------------------------------------
\* Incidents: an incident that stays open gets its context (incRefresh, incCtxMsg).
OpenedIsExplained == Tab!OpenedIsExplained

\* SideResults: an etcd view, an S3 check or a CRD count asked of the previous cluster
\* is never shown for this one (etcdExecMsg, s3CheckMsg, crdCountMsg).
GuardedResultsAreOurs == Side!GuardedResultsAreOurs

\* PodLogs: no line of an earlier container is in the buffer (handleLogMsg).
SwitchDropsLines == LogView!SwitchDropsLines

=============================================================================
