---------------------------- MODULE ApiFailover ----------------------------
(***************************************************************************)
(* The apiserver failover of ui.App (internal/ui/app.go: apiFailoverCmd,   *)
(* apiFailoverMsg and the handlers that start it).                         *)
(*                                                                         *)
(* When a snapshot lists no nodes because the apiserver cannot be reached, *)
(* the apiservers of the other control-plane nodes are pinged, one after   *)
(* the other, up to 8 s each, in a goroutine.  Its answer carries the seq  *)
(* it was started under and is dropped once a refresh has moved seq.       *)
(* Which servers can be reached may change at any moment: a fetch and a    *)
(* ping end either way.                                                    *)
(*                                                                         *)
(* seq is only ever compared for equality with the current one and never   *)
(* goes back (RefreshChain), so an attempt is `live` until seq moves; a    *)
(* dropped snapshot or tick changes nothing and is left out.  That leaves  *)
(* the behaviours unbounded and the state space finite.                    *)
(*                                                                         *)
(* ssh.hosts is a source of candidates, and may hold addresses of another  *)
(* cluster: they come from a config file that names no cluster, from the   *)
(* rescue picker, and stay when a context without SSH hints is switched to.*)
(***************************************************************************)
EXTENDS Naturals

CONSTANTS
    Cluster,     \* the kubeconfig contexts
    Host,        \* control-plane hosts
    HostsOf,     \* cluster -> its control-plane hosts
    ServerOf,    \* cluster -> the host in its kubeconfig
    Unverified,  \* the clusters whose kubeconfig checks no server certificate
    Slots,       \* names for the attempts in flight; their number bounds them
    Idle         \* a slot without an attempt

ASSUME HostsAssumption ==
    /\ HostsOf \in [Cluster -> SUBSET Host]
    /\ ServerOf \in [Cluster -> Host]
    /\ \A c \in Cluster : ServerOf[c] \in HostsOf[c]
    /\ Unverified \subseteq Cluster

VARIABLES
    cluster,    \* the context the operator is in: the first one or that of switchContext
    context,    \* App.client.Context
    host,       \* App.client.Host: the kubeconfig's server or apiOverride
    snap,       \* App.snap: "nil", "ok" (lists nodes), "down" (unreachable) or "refused"
    refreshing, \* App.refreshing; otherwise the tick is armed
    asked,      \* the host the running fetch asks
    peers,      \* hosts known from the last node list or the etcd probes
    sshHosts,   \* the addresses in cfg.SSH.Hosts
    apiTrying,  \* App.apiTrying
    apiTried,   \* App.apiTried: hosts tried since the API was last seen
    attempts    \* the failover commands in flight, by slot

vars == <<cluster, context, host, snap, refreshing, asked, peers, sshHosts, apiTrying,
          apiTried, attempts>>

\* An attempt: the hosts it goes through (at least one), the context of the
\* client whose kubeconfig it uses, and whether seq has not moved since.
Attempt == [hosts : (SUBSET Host) \ {{}}, of : Cluster, live : BOOLEAN]

ASSUME IdleAssumption == Idle \notin Attempt

TypeOK ==
    /\ cluster \in Cluster
    /\ context \in Cluster
    /\ host \in Host
    /\ snap \in {"nil", "ok", "down", "refused"}
    /\ refreshing \in BOOLEAN
    /\ asked \in Host
    /\ peers \subseteq Host
    /\ sshHosts \subseteq Host
    /\ apiTrying \in BOOLEAN
    /\ apiTried \subseteq Host
    /\ attempts \in [Slots -> Attempt \cup {Idle}]

-----------------------------------------------------------------------------
\* seq moves: no attempt in flight is current any more.
Superseded(inFlight) ==
    [i \in Slots |-> IF inFlight[i] = Idle
                       THEN Idle
                       ELSE [inFlight[i] EXCEPT !.live = FALSE]]

\* refreshCmd against host h.
RefreshCmd(h) ==
    /\ refreshing' = TRUE
    /\ asked' = h
    /\ attempts' = Superseded(attempts)

\* apiFailoverCmd, called last by snapshotMsg and etcdMsg (hence the primes):
\* the known hosts and those of ssh.hosts but the current one and those
\* already tried.
Candidates == (peers' \cup sshHosts) \ ({host} \cup apiTried')

FailoverCmd ==
    IF snap' = "down" /\ ~apiTrying /\ Candidates # {}
    THEN /\ apiTrying' = TRUE
         /\ \E i \in Slots :
              /\ attempts[i] = Idle
              /\ i = CHOOSE free \in Slots : attempts[free] = Idle
              /\ attempts' = [attempts EXCEPT ![i] = [hosts |-> Candidates, of |-> context, live |-> TRUE]]
    ELSE UNCHANGED <<apiTrying, attempts>>

-----------------------------------------------------------------------------
Init ==
    /\ cluster \in Cluster
    /\ context = cluster
    /\ host = ServerOf[cluster]
    /\ snap = "nil"
    /\ refreshing = TRUE
    /\ asked = host
    /\ peers = {}
    /\ sshHosts \in SUBSET Host
    /\ apiTrying = FALSE
    /\ apiTried = {}
    /\ attempts = [i \in Slots |-> Idle]

\* snapshotMsg from an apiserver that lists the nodes of its cluster c:
\* knownNodes, apiTried = nil.
SnapshotOK(c) ==
    /\ refreshing
    /\ asked \in HostsOf[c]
    /\ refreshing' = FALSE
    /\ snap' = "ok"
    /\ peers' = peers \cup HostsOf[c]
    /\ apiTried' = {}
    /\ UNCHANGED <<cluster, context, host, asked, sshHosts>>
    /\ FailoverCmd

\* snapshotMsg from an apiserver that answers but does not list its nodes.
SnapshotRefused ==
    /\ refreshing
    /\ refreshing' = FALSE
    /\ snap' = "refused"
    /\ UNCHANGED <<cluster, context, host, asked, peers, sshHosts, apiTried>>
    /\ FailoverCmd

\* snapshotMsg of a fetch that could not reach its apiserver.
SnapshotDown ==
    /\ refreshing
    /\ refreshing' = FALSE
    /\ snap' = "down"
    /\ UNCHANGED <<cluster, context, host, asked, peers, sshHosts, apiTried>>
    /\ FailoverCmd

\* tickMsg, r, R: the next refresh.
Refresh ==
    /\ ~refreshing
    /\ RefreshCmd(host)
    /\ UNCHANGED <<cluster, context, host, snap, peers, sshHosts, apiTrying, apiTried>>

\* etcdMsg: the peers on a node's disk are apiserver candidates, tried at once.
\* A node with an address in ssh.hosts, now or when its probe started, is
\* probed there: it may be one of any cluster c.
EtcdMsg(c) ==
    /\ snap # "nil"
    /\ c = cluster \/ sshHosts # {}
    /\ peers' = peers \cup HostsOf[c]
    /\ UNCHANGED <<cluster, context, host, snap, refreshing, asked, sshHosts, apiTried>>
    /\ FailoverCmd

\* The rescue picker: an address is typed for a node, which may have had one.
OverrideAddress ==
    /\ \E h \in Host, had \in {{}} \cup {{s} : s \in sshHosts} :
          sshHosts' = (sshHosts \ had) \cup {h}
    /\ UNCHANGED <<cluster, context, host, snap, refreshing, asked, peers, apiTrying,
                   apiTried, attempts>>

\* Host h can answer a ping of attempt a: its certificate is of the authority
\* in the kubeconfig, or the kubeconfig asks for none.
Answers(a, h) == h \in HostsOf[a.of] \/ a.of \in Unverified

\* The hosts attempt a pings when it ends at host h; the order they come in is
\* left open.  Nothing is pinged after the first that answers.
Pings(a, h) == {t \in SUBSET a.hosts : h \in t}

\* apiFailoverMsg, whatever it brings: apiTrying is reset first.
Ends ==
    /\ apiTrying' = FALSE
    /\ UNCHANGED <<cluster, snap, peers, sshHosts>>

\* apiFailoverMsg without a client: every host was tried, none answered.  The
\* hosts are remembered only if seq has not moved.
FailoverFailed(i) ==
    /\ Ends
    /\ apiTried' = IF attempts[i].live THEN apiTried \cup attempts[i].hosts ELSE apiTried
    /\ attempts' = [attempts EXCEPT ![i] = Idle]
    /\ UNCHANGED <<context, host, refreshing, asked>>

\* Mutant of FailoverSwitched: the seq of the answer is not compared.
SwitchedAnySeq(i, h, tried) ==
    /\ Answers(attempts[i], h)
    /\ Ends
    /\ apiTried' = apiTried \cup tried
    /\ context' = attempts[i].of
    /\ host' = h
    /\ attempts' = [attempts EXCEPT ![i] = Idle]
    /\ UNCHANGED <<refreshing, asked>>

\* apiFailoverMsg with a client for h, of the current seq: it replaces the
\* client and the next refresh starts unless one is running.
FailoverSwitched(i, h, tried) ==
    /\ attempts[i].live
    /\ Answers(attempts[i], h)
    /\ Ends
    /\ apiTried' = apiTried \cup tried
    /\ context' = attempts[i].of
    /\ host' = h
    /\ LET rest == [attempts EXCEPT ![i] = Idle]
       IN IF refreshing
            THEN /\ attempts' = rest
                 /\ UNCHANGED <<refreshing, asked>>
            ELSE /\ attempts' = Superseded(rest)
                 /\ refreshing' = TRUE
                 /\ asked' = h

\* The same, of an earlier seq: dropped.
FailoverDropped(i, h) ==
    /\ ~attempts[i].live
    /\ Answers(attempts[i], h)
    /\ Ends
    /\ attempts' = [attempts EXCEPT ![i] = Idle]
    /\ UNCHANGED <<context, host, refreshing, asked, apiTried>>

FailoverMsg(i) ==
    /\ attempts[i] # Idle
    /\ \/ FailoverFailed(i)
       \/ \E h \in attempts[i].hosts :
             \/ \E tried \in Pings(attempts[i], h) : FailoverSwitched(i, h, tried)
             \/ FailoverDropped(i, h)

\* switchContext.  ssh.hosts is replaced only when SSH is on and the context
\* remembers how its nodes were reached: by the host it names, if any.
SwitchContext(c) ==
    /\ cluster' = c
    /\ context' = c
    /\ host' = ServerOf[c]
    /\ sshHosts' \in {sshHosts, {}} \cup {{h} : h \in HostsOf[c]}
    /\ snap' = "nil"
    /\ peers' = {}
    /\ apiTrying' = FALSE
    /\ apiTried' = {}
    /\ RefreshCmd(ServerOf[c])

Next ==
    \/ \E c \in Cluster : SnapshotOK(c)
    \/ SnapshotRefused
    \/ SnapshotDown
    \/ Refresh
    \/ \E c \in Cluster : EtcdMsg(c)
    \/ OverrideAddress
    \/ \E i \in Slots : FailoverMsg(i)
    \/ \E c \in Cluster : SwitchContext(c)

Spec == Init /\ [][Next]_vars

-----------------------------------------------------------------------------
\* The client has the kubeconfig context the operator is in, so that an attempt
\* started before a context switch never replaces the client of the new
\* cluster; and it talks to a control-plane host of that cluster although the
\* addresses in ssh.hosts are pinged as well, unless the kubeconfig checks no
\* certificate.
NoForeignClient ==
    /\ context = cluster
    /\ host \in HostsOf[cluster] \/ cluster \in Unverified

\* apiTrying is never left set with no attempt to reset it, which would
\* disable the failover for the rest of the session.
TryingHasAttempt == apiTrying => \E i \in Slots : attempts[i] # Idle
=============================================================================
