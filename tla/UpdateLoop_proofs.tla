------------------------- MODULE UpdateLoop_proofs -------------------------
(***************************************************************************)
(* Proofs about the refresh chain and the SSH collection of the update     *)
(* loop, for any clusters, nodes, logins and bounds.                       *)
(*                                                                         *)
(* ChainInv strengthens the chain's properties: no message is from the     *)
(* future, and a message of the current seq was asked of the current       *)
(* cluster.  LoopInv adds what a probe in flight may be: one of the        *)
(* current gen carries the login in use and the cluster its node is        *)
(* reached in, and stands for exactly one pending mark.                    *)
(***************************************************************************)
EXTENDS UpdateLoop, Integers, TLAPS

-----------------------------------------------------------------------------
\* No command in flight carries a seq the app has not reached.
NoFutureMessage ==
    /\ \A f \in fetches : f.seq <= seq
    /\ \A s \in ticks : s <= seq

\* The refresh in progress asks the cluster the app is attached to.
CurrentAsksHere == \A f \in fetches : Current(f) => f.from = cluster

ChainInv ==
    /\ ChainTypeOK
    /\ OneLiveMessage
    /\ NoForeignSnapshot
    /\ NoFutureMessage
    /\ CurrentAsksHere

\* The app starts with the one fetch that Init issues.
LEMMA ChainInitInv == ChainInit => ChainInv
  BY ClusterAssumption, MaxSeqAssumption
  DEF ChainInit, ChainInv, ChainTypeOK, OneLiveMessage, NoForeignSnapshot,
      NoFutureMessage, CurrentAsksHere, Current, Fetch

\* refreshCmd leaves one live message: the new fetch is the only command of
\* the new seq, because none in flight is from the future.
LEMMA RefreshCmdLive ==
  ASSUME ChainInv, NEW s \in Nat, s >= seq, NEW c \in Cluster, RefreshCmd(s, c),
         ticks' \subseteq ticks, cluster' = c, snapFrom' \in Cluster \cup {NoCluster}
  PROVE  ChainTypeOK' /\ OneLiveMessage' /\ NoFutureMessage' /\ CurrentAsksHere'
  <1> DEFINE new == [seq |-> s + 1, from |-> c]
  <1>1. seq \in 1..MaxSeq /\ s + 1 \in 1..MaxSeq /\ seq' = s + 1 /\ refreshing' = TRUE
      BY MaxSeqAssumption DEF ChainInv, ChainTypeOK, RefreshCmd
  <1>2. fetches' = fetches \cup {new}
      BY DEF RefreshCmd
  <1>3. new \in Fetch /\ new.seq = s + 1 /\ new.from = c
      BY <1>1 DEF Fetch
  <1>4. \A f \in fetches : f \in Fetch /\ f.seq \in Nat /\ f.seq < s + 1
      BY <1>1 DEF ChainInv, ChainTypeOK, NoFutureMessage, Fetch
  <1>5. \A t \in ticks' : t \in Nat /\ t < s + 1
      BY <1>1 DEF ChainInv, ChainTypeOK, NoFutureMessage
  <1>6. ChainTypeOK'
      BY <1>1, <1>2, <1>3 DEF ChainInv, ChainTypeOK
  <1>7. OneLiveMessage'
    <2>1. \E f \in fetches' : f.seq = seq'
        BY <1>1, <1>2, <1>3
    <2>2. seq' \notin ticks'
        BY <1>1, <1>5
    <2>3. \A f, g \in fetches' : f.seq = g.seq => f = g
        BY <1>2, <1>3, <1>4 DEF ChainInv, OneLiveMessage
    <2> QED BY <1>1, <2>1, <2>2, <2>3 DEF OneLiveMessage, Current
  <1>8. NoFutureMessage'
      BY <1>1, <1>2, <1>3, <1>4, <1>5 DEF NoFutureMessage
  <1>9. CurrentAsksHere'
      BY <1>1, <1>2, <1>3, <1>4 DEF CurrentAsksHere, Current
  <1> QED BY <1>6, <1>7, <1>8, <1>9

\* Every step of the chain keeps the invariant.
LEMMA ChainNextInv == ChainInv /\ [ChainNext]_chainVars => ChainInv'
  <1> SUFFICES ASSUME ChainInv, [ChainNext]_chainVars PROVE ChainInv'
      OBVIOUS
  <1> USE DEF ChainInv
  <1>0. seq \in Nat /\ cluster \in Cluster
      BY MaxSeqAssumption DEF ChainTypeOK
  <1>1. ASSUME UNCHANGED chainVars PROVE ChainInv'
      BY <1>1 DEF chainVars, ChainTypeOK, OneLiveMessage, NoForeignSnapshot,
                  NoFutureMessage, CurrentAsksHere, Current
  <1>2. CASE RefreshUnlessRunning
    <2>1. CASE ~refreshing /\ RefreshCmd(seq, cluster) /\ UNCHANGED <<cluster, snapFrom, ticks>>
        BY <1>0, <2>1, RefreshCmdLive DEF ChainTypeOK, NoForeignSnapshot
    <2> QED BY <1>1, <1>2, <2>1 DEF RefreshUnlessRunning
  <1>3. ASSUME NEW s \in ticks, TickMsg(s) PROVE ChainInv'
    <2>1. CASE s = seq /\ ~refreshing
        BY <1>0, <1>3, <2>1, RefreshCmdLive DEF TickMsg, ChainTypeOK, NoForeignSnapshot
    <2>2. CASE ~(s = seq /\ ~refreshing)
        BY <1>3, <2>2 DEF TickMsg, ChainTypeOK, OneLiveMessage, NoForeignSnapshot,
                          NoFutureMessage, CurrentAsksHere, Current
    <2> QED BY <2>1, <2>2
  <1>4. ASSUME NEW f \in fetches, SnapshotMsg(f) PROVE ChainInv'
    <2>1. CASE Current(f)
      <3>1. f.from = cluster /\ f.seq = seq /\ refreshing
          BY <2>1 DEF CurrentAsksHere, Current, OneLiveMessage
      <3>2. \A g \in fetches' : g \in fetches /\ g.seq # seq
          BY <1>4, <3>1 DEF SnapshotMsg, OneLiveMessage
      <3>3. /\ seq' = seq /\ cluster' = cluster /\ snapFrom' = cluster
            /\ refreshing' = FALSE /\ ticks' = ticks \cup {seq}
          BY <1>4, <2>1, <3>1 DEF SnapshotMsg
      <3> QED BY <1>0, <3>2, <3>3
          DEF ChainTypeOK, OneLiveMessage, NoForeignSnapshot, NoFutureMessage, CurrentAsksHere, Current
    <2>2. CASE ~Current(f)
        BY <1>4, <2>2 DEF SnapshotMsg, ChainTypeOK, OneLiveMessage, NoForeignSnapshot,
                          NoFutureMessage, CurrentAsksHere, Current
    <2> QED BY <2>1, <2>2
  <1>5. ASSUME NEW c \in Cluster, SwitchChain(c) PROVE ChainInv'
      BY <1>0, <1>5, RefreshCmdLive DEF SwitchChain, NoForeignSnapshot
  <1> QED BY <1>1, <1>2, <1>3, <1>4, <1>5 DEF ChainNext, AtMaxSeq

\* The refresh chain always has exactly one live message, shows only the
\* current cluster's snapshot and keeps its types, for every set of clusters
\* and every number of refreshes.
THEOREM ChainCorrect == ChainSpec => [](ChainTypeOK /\ OneLiveMessage /\ NoForeignSnapshot)
  <1>1. ChainInv => ChainTypeOK /\ OneLiveMessage /\ NoForeignSnapshot
      BY DEF ChainInv
  <1> QED BY <1>1, ChainInitInv, ChainNextInv, PTL DEF ChainSpec

-----------------------------------------------------------------------------
\* What adding one copy of each member of S does to a bag.
LEMMA BagAdds ==
  ASSUME NEW B, IsABag(B), NEW S
  PROVE  /\ IsABag(B (+) SetToBag(S))
         /\ BagToSet(B (+) SetToBag(S)) = BagToSet(B) \cup S
         /\ \A e \in BagToSet(B) \cup S :
               (B (+) SetToBag(S))[e] = (IF e \in BagToSet(B) THEN B[e] ELSE 0) + (IF e \in S THEN 1 ELSE 0)
  BY DEF IsABag, BagToSet, SetToBag, (+)

\* What taking one copy of p does to a bag.
LEMMA BagTakes ==
  ASSUME NEW B, IsABag(B), NEW p \in BagToSet(B)
  PROVE  /\ IsABag(B (-) SetToBag({p}))
         /\ BagToSet(B (-) SetToBag({p})) = IF B[p] = 1 THEN BagToSet(B) \ {p} ELSE BagToSet(B)
         /\ \A e \in BagToSet(B (-) SetToBag({p})) :
               (B (-) SetToBag({p}))[e] = IF e = p THEN B[e] - 1 ELSE B[e]
  <1> DEFINE C == [e \in BagToSet(B) |-> IF e \in {p} THEN B[e] - 1 ELSE B[e]]
             T == B (-) SetToBag({p})
  <1>1. \A e \in BagToSet(B) : B[e] \in Nat /\ B[e] > 0
      BY DEF IsABag, BagToSet
  <1>2. T = [e \in {d \in BagToSet(B) : C[d] > 0} |-> C[e]]
      BY DEF SetToBag, BagToSet, (-)
  <1>3. \A d \in BagToSet(B) : C[d] \in Nat /\ C[d] = IF d = p THEN B[d] - 1 ELSE B[d]
      BY <1>1
  <1> HIDE DEF C, T
  <1>4. BagToSet(T) = {d \in BagToSet(B) : C[d] > 0}
      BY <1>2 DEF BagToSet
  <1>5. \A d \in BagToSet(B) : C[d] > 0 <=> ~(d = p /\ B[p] = 1)
      BY <1>1, <1>3
  <1>6. IsABag(T)
      BY <1>2, <1>3 DEF IsABag
  <1>7. \A e \in BagToSet(T) : T[e] = C[e]
      BY <1>2, <1>4
  <1>8. BagToSet(T) = IF B[p] = 1 THEN BagToSet(B) \ {p} ELSE BagToSet(B)
      BY <1>4, <1>5
  <1>9. \A e \in BagToSet(T) : T[e] = IF e = p THEN B[e] - 1 ELSE B[e]
      BY <1>3, <1>4, <1>7
  <1> QED BY <1>6, <1>8, <1>9 DEF T

-----------------------------------------------------------------------------
\* The probes of one kind on node n in a bag B that carry the gen g.
Of(B, g, kind, n) == {p \in BagToSet(B) : p.kind = kind /\ p.node = n /\ p.gen = g}

\* No probe is of a gen to come, and one of the gen g reads as l, the cluster
\* c or wherever ssh.hosts leads.
ProbesAreOurs(B, g, l, c, hs) ==
    \A p \in BagToSet(B) :
        /\ p.gen <= g
        /\ p.gen = g => p.as = l /\ (p.from = c \/ hs[p.node] # None)

\* The marks M of one kind stand for the probes of the gen g: every marked
\* node has one, and a node whose address was never edited has exactly one
\* when it is marked and none when it is not.
MarksMatch(B, g, kind, M) ==
    /\ \A n \in M : Of(B, g, kind, n) # {}
    /\ \A n \in Node \ Moved :
          /\ n \notin M => Of(B, g, kind, n) = {}
          /\ \A p, q \in Of(B, g, kind, n) : p = q /\ B[p] = 1

\* The snapshots accepted are numbered by refreshes that ended.
CycleBehindSeq == cycle <= seq /\ (refreshing => cycle < seq)

\* All of that about a bag B of probes, with the marks pend and epend.
ProbesMatch(B, g, l, c, hs, pend, epend) ==
    /\ IsABag(B) /\ BagToSet(B) \subseteq Probe
    /\ pend \subseteq Node /\ epend \subseteq Node
    /\ ProbesAreOurs(B, g, l, c, hs)
    /\ MarksMatch(B, g, "node", pend)
    /\ MarksMatch(B, g, "etcd", epend)

LoopInv ==
    /\ TypeOK
    /\ ChainInv
    /\ CycleBehindSeq
    /\ NoForeignFacts
    /\ ProbesMatch(probes, gen, login, cluster, hosts, pending, etcdPend)

\* N holds the probes that one collection starts: one of each kind on the
\* nodes of S (node probes) and E (etcd probes), all of the gen g.
Starts(N, S, E, g, hs, c, l) ==
    /\ N \subseteq Probe
    /\ \A p \in N : /\ p.gen = g /\ p.as = l
                    /\ p.from = c \/ hs[p.node] # None
                    /\ p.kind = "node" => p.node \in S
                    /\ p.kind = "etcd" => p.node \in E
    /\ \A n \in S : \E p \in N : p.kind = "node" /\ p.node = n
    /\ \A n \in E : \E p \in N : p.kind = "etcd" /\ p.node = n
    /\ \A p, q \in N : p.kind = q.kind /\ p.node = q.node => p = q

\* The commands collectCmds builds are such.
LEMMA CommandsStart ==
  ASSUME NEW S \in SUBSET Node, NEW E \in SUBSET Node, NEW g \in 0..MaxGen,
         NEW hs \in [Node -> Cluster \cup {None}], NEW c \in Cluster, NEW l \in Login,
         NEW force \in BOOLEAN
  PROVE  Starts({NewProbe("node", n, g, NodeAddress(n, hs, c), l, force) : n \in S}
                \cup {NewProbe("etcd", n, g, NodeAddress(n, hs, c), l, force) : n \in E},
                S, E, g, hs, c, l)
  <1>1. \A n \in Node : NodeAddress(n, hs, c) \in Cluster /\ (NodeAddress(n, hs, c) = c \/ hs[n] # None)
      BY DEF NodeAddress
  <1>2. ASSUME NEW n \in Node, NEW kind \in {"node", "etcd"}
        PROVE  /\ NewProbe(kind, n, g, NodeAddress(n, hs, c), l, force) \in Probe
               /\ NewProbe(kind, n, g, NodeAddress(n, hs, c), l, force).kind = kind
               /\ NewProbe(kind, n, g, NodeAddress(n, hs, c), l, force).node = n
               /\ NewProbe(kind, n, g, NodeAddress(n, hs, c), l, force).gen = g
               /\ NewProbe(kind, n, g, NodeAddress(n, hs, c), l, force).as = l
               /\ NewProbe(kind, n, g, NodeAddress(n, hs, c), l, force).from = NodeAddress(n, hs, c)
      BY <1>1 DEF NewProbe, Probe
  <1> QED BY <1>1, <1>2 DEF Starts

\* Starting probes on S and E keeps what LoopInv says of the bag, when a node
\* of S or E that carries a mark already is one whose address was edited.
LEMMA LaunchKeeps ==
  ASSUME NEW B, NEW g \in Int, NEW hs, NEW c, NEW l, NEW pend, NEW epend,
         ProbesMatch(B, g, l, c, hs, pend, epend),
         NEW S \in SUBSET Node, NEW E \in SUBSET Node, NEW N, Starts(N, S, E, g, hs, c, l),
         (S \cup E) \cap (pend \cup epend) \subseteq Moved
  PROVE  ProbesMatch(B (+) SetToBag(N), g, l, c, hs, pend \cup S, epend \cup E)
  <1> USE DEF ProbesMatch
  <1> DEFINE T == B (+) SetToBag(N)
  <1>1. /\ IsABag(T)
        /\ BagToSet(T) = BagToSet(B) \cup N
        /\ \A e \in BagToSet(B) \cup N :
              T[e] = (IF e \in BagToSet(B) THEN B[e] ELSE 0) + (IF e \in N THEN 1 ELSE 0)
      BY BagAdds
  <1> HIDE DEF T
  <1> USE DEF Starts
  <1>3. ProbesAreOurs(T, g, l, c, hs)
      BY <1>1 DEF ProbesAreOurs
  <1>4. ASSUME NEW kind, NEW M \in SUBSET Node, NEW X \in SUBSET Node,
               MarksMatch(B, g, kind, M),
               \A p \in N : p.kind = kind => p.node \in X,
               \A n \in X : \E p \in N : p.kind = kind /\ p.node = n,
               X \cap M \subseteq Moved
        PROVE  MarksMatch(T, g, kind, M \cup X)
    <2>1. \A n \in M \cup X : Of(T, g, kind, n) # {}
        BY <1>1, <1>4 DEF MarksMatch, Of
    <2>2. ASSUME NEW n \in Node \ Moved, n \notin M \cup X PROVE Of(T, g, kind, n) = {}
        BY <1>1, <1>4, <2>2 DEF MarksMatch, Of
    <2>3. ASSUME NEW n \in Node \ Moved, NEW p \in Of(T, g, kind, n), NEW q \in Of(T, g, kind, n)
          PROVE  p = q /\ T[p] = 1
      <3>1. CASE n \in X
        <4>1. Of(B, g, kind, n) = {}
            BY <1>4, <3>1 DEF MarksMatch
        <4>2. p \in N /\ q \in N /\ p \notin BagToSet(B)
            BY <1>1, <4>1 DEF Of
        <4> QED BY <1>1, <4>2 DEF Of
      <3>2. CASE n \notin X
        <4>1. p \in Of(B, g, kind, n) /\ q \in Of(B, g, kind, n) /\ p \notin N
            BY <1>1, <1>4, <3>2 DEF Of
        <4>2. p = q /\ B[p] = 1
            BY <1>4, <4>1 DEF MarksMatch
        <4> QED BY <1>1, <4>1, <4>2 DEF Of
      <3> QED BY <3>1, <3>2
    <2> QED BY <2>1, <2>2, <2>3 DEF MarksMatch
  <1> QED BY <1>1, <1>3, <1>4 DEF T

\* Taking the answer of p keeps what LoopInv says of the bag; p's own mark may
\* go with it when p is of the current gen, and no mark has to otherwise.
LEMMA AnswerTakes ==
  ASSUME NEW B, IsABag(B), BagToSet(B) \subseteq Probe, NEW p \in BagToSet(B), NEW g, NEW l, NEW c, NEW hs,
         ProbesAreOurs(B, g, l, c, hs), NEW kind, NEW M, MarksMatch(B, g, kind, M)
  PROVE  /\ IsABag(B (-) SetToBag({p}))
         /\ BagToSet(B (-) SetToBag({p})) \subseteq Probe
         /\ ProbesAreOurs(B (-) SetToBag({p}), g, l, c, hs)
         /\ p.gen = g /\ p.kind = kind => MarksMatch(B (-) SetToBag({p}), g, kind, M \ {p.node})
         /\ ~(p.gen = g /\ p.kind = kind) => MarksMatch(B (-) SetToBag({p}), g, kind, M)
  <1> DEFINE T == B (-) SetToBag({p})
  <1>1. /\ IsABag(T)
        /\ BagToSet(T) = IF B[p] = 1 THEN BagToSet(B) \ {p} ELSE BagToSet(B)
        /\ \A e \in BagToSet(T) : T[e] = IF e = p THEN B[e] - 1 ELSE B[e]
      BY BagTakes
  <1> HIDE DEF T
  <1>2. BagToSet(T) \subseteq BagToSet(B) /\ \A e \in BagToSet(B) \ {p} : e \in BagToSet(T)
      BY <1>1
  <1>3. ProbesAreOurs(T, g, l, c, hs)
      BY <1>2 DEF ProbesAreOurs
  <1>4. ASSUME p.gen = g, p.kind = kind PROVE MarksMatch(T, g, kind, M \ {p.node})
    <2>1. \A n \in M \ {p.node} : Of(T, g, kind, n) # {}
        BY <1>2 DEF MarksMatch, Of
    <2>2. ASSUME NEW n \in Node \ Moved, n \notin M \ {p.node} PROVE Of(T, g, kind, n) = {}
      <3>1. CASE n = p.node
        <4>1. p \in Of(B, g, kind, n)
            BY <1>4, <3>1 DEF Of
        <4>2. B[p] = 1 /\ \A q \in Of(B, g, kind, n) : q = p
            BY <4>1 DEF MarksMatch
        <4> QED BY <1>1, <4>2 DEF Of
      <3>2. CASE n # p.node
          BY <1>2, <2>2, <3>2 DEF MarksMatch, Of
      <3> QED BY <3>1, <3>2
    <2>3. ASSUME NEW n \in Node \ Moved, NEW q \in Of(T, g, kind, n), NEW r \in Of(T, g, kind, n)
          PROVE  q = r /\ T[q] = 1
      <3>1. q \in Of(B, g, kind, n) /\ r \in Of(B, g, kind, n)
          BY <1>2 DEF Of
      <3>2. q = r /\ B[q] = 1
          BY <3>1 DEF MarksMatch
      <3>3. q # p
          BY <1>1, <3>2 DEF Of
      <3> QED BY <1>1, <3>2, <3>3 DEF Of
    <2> QED BY <2>1, <2>2, <2>3 DEF MarksMatch
  <1>5. ASSUME ~(p.gen = g /\ p.kind = kind) PROVE MarksMatch(T, g, kind, M)
    <2>1. \A n : Of(T, g, kind, n) = Of(B, g, kind, n)
        BY <1>2, <1>5 DEF Of
    <2>2. \A n : \A q \in Of(T, g, kind, n) : T[q] = B[q]
        BY <1>1, <1>5 DEF Of
    <2> QED BY <2>1, <2>2 DEF MarksMatch
  <1> QED BY <1>1, <1>2, <1>3, <1>4, <1>5 DEF T

\* Taking the answer p of the current gen keeps it when p's own mark goes too.
LEMMA AnswerKeeps ==
  ASSUME NEW B, NEW g, NEW l, NEW c, NEW hs, NEW pend, NEW epend,
         ProbesMatch(B, g, l, c, hs, pend, epend), NEW p \in BagToSet(B), p.gen = g
  PROVE  /\ p.kind = "node" => ProbesMatch(B (-) SetToBag({p}), g, l, c, hs, pend \ {p.node}, epend)
         /\ p.kind = "etcd" => ProbesMatch(B (-) SetToBag({p}), g, l, c, hs, pend, epend \ {p.node})
  <1> DEFINE T == B (-) SetToBag({p})
  <1>1. /\ IsABag(B) /\ BagToSet(B) \subseteq Probe
        /\ pend \subseteq Node /\ epend \subseteq Node
        /\ ProbesAreOurs(B, g, l, c, hs)
        /\ MarksMatch(B, g, "node", pend)
        /\ MarksMatch(B, g, "etcd", epend)
      BY DEF ProbesMatch
  <1>2. IsABag(T) /\ BagToSet(T) \subseteq Probe /\ ProbesAreOurs(T, g, l, c, hs)
      BY <1>1, AnswerTakes
  <1>3. /\ p.kind = "node" => MarksMatch(T, g, "node", pend \ {p.node})
        /\ p.kind # "node" => MarksMatch(T, g, "node", pend)
      BY <1>1, AnswerTakes
  <1>4. /\ p.kind = "etcd" => MarksMatch(T, g, "etcd", epend \ {p.node})
        /\ p.kind # "etcd" => MarksMatch(T, g, "etcd", epend)
      BY <1>1, AnswerTakes
  <1> HIDE DEF T
  <1>5. pend \ {p.node} \subseteq Node /\ epend \ {p.node} \subseteq Node
      BY <1>1
  <1>6. p.kind = "node" => ProbesMatch(T, g, l, c, hs, pend \ {p.node}, epend)
      BY <1>1, <1>2, <1>3, <1>4, <1>5 DEF ProbesMatch
  <1>7. p.kind = "etcd" => ProbesMatch(T, g, l, c, hs, pend, epend \ {p.node})
      BY <1>1, <1>2, <1>3, <1>4, <1>5 DEF ProbesMatch
  <1> QED BY <1>6, <1>7 DEF T

\* Dropping the answer p of an earlier gen keeps it and every mark.
LEMMA StaleKeeps ==
  ASSUME NEW B, NEW g, NEW l, NEW c, NEW hs, NEW pend, NEW epend,
         ProbesMatch(B, g, l, c, hs, pend, epend), NEW p \in BagToSet(B), p.gen # g
  PROVE  ProbesMatch(B (-) SetToBag({p}), g, l, c, hs, pend, epend)
  BY AnswerTakes DEF ProbesMatch

\* A new gen makes every probe in flight a stale one.
LEMMA NewGenKeeps ==
  ASSUME NEW B, NEW g \in 0..MaxGen, NEW l, NEW c, NEW hs, NEW pend, NEW epend,
         ProbesMatch(B, g, l, c, hs, pend, epend), NEW l1, NEW c1, NEW hs1
  PROVE  ProbesMatch(B, g + 1, l1, c1, hs1, {}, {})
  <1>1. \A p \in BagToSet(B) : p.gen \in Int /\ p.gen < g + 1
      BY BoundAssumption DEF Probe, ProbesAreOurs, ProbesMatch
  <1>2. \A kind : MarksMatch(B, g + 1, kind, {})
      BY <1>1 DEF MarksMatch, Of
  <1> QED BY <1>1, <1>2 DEF ProbesMatch, ProbesAreOurs

\* The targets of a collection are node names.
LEMMA TargetsAreNodes ==
  ASSUME NEW list \in SUBSET Node, NEW known \in SUBSET Node,
         NEW et \in [Node -> EtcdFacts \cup {None}], NEW hs
  PROVE  Only(SSHTargets(list, known, et, hs)) \in SUBSET Node
  <1>1. \A n \in Seen(et) : et[n].peers \in SUBSET Node
      BY DEF Seen, EtcdFacts
  <1>2. Seen(hs) \in SUBSET Node
      BY DEF Seen
  <1>3. SSHTargets(list, known, et, hs) \in SUBSET Node
      BY <1>1, <1>2 DEF SSHTargets
  <1> QED BY <1>3 DEF Only

\* collectCmds keeps it, whatever its caller assigned before.
LEMMA CollectKeeps ==
  ASSUME gen' \in 0..MaxGen, login' \in Login, cluster' \in Cluster,
         hosts' \in [Node -> Cluster \cup {None}], listing' \in SUBSET Node,
         knownNodes' \in SUBSET Node, etcd' \in [Node -> EtcdFacts \cup {None}],
         NEW pend, NEW epend, NEW heavy \in BOOLEAN,
         ProbesMatch(probes, gen', login', cluster', hosts', pend, epend),
         CollectCmds(pend, epend, heavy)
  PROVE  /\ ProbesMatch(probes', gen', login', cluster', hosts', pending', etcdPend')
         /\ heavyNext' \in BOOLEAN
  <1>1. CASE ~ssh'.enabled \/ ~ssh'.runner \/ snapFrom' = NoCluster
      BY <1>1 DEF CollectCmds
  <1>2. CASE ~(~ssh'.enabled \/ ~ssh'.runner \/ snapFrom' = NoCluster)
    <2> DEFINE S == Collected(pend, epend)
               E == EtcdCollected(S)
               N == {NewProbe("node", n, gen', NodeAddress(n, hosts', cluster'), login', heavy) : n \in S}
                    \cup {NewProbe("etcd", n, gen', NodeAddress(n, hosts', cluster'), login', heavy) : n \in E}
    <2>1. S \in SUBSET Node /\ (S \cup E) \cap (pend \cup epend) = {} /\ E \in SUBSET Node
      <3>1. Only(SSHTargets(listing', knownNodes', etcd', hosts')) \in SUBSET Node
          BY TargetsAreNodes
      <3> QED BY <3>1 DEF Collected, EtcdCollected, SkipProbe
    <2>2. /\ pending' = pend \cup S /\ etcdPend' = epend \cup E /\ heavyNext' = FALSE
          /\ probes' = probes (+) SetToBag(N)
          /\ Starts(N, S, E, gen', hosts', cluster', login')
        BY <1>2, <2>1, CommandsStart DEF CollectCmds
    <2> HIDE DEF S, E, N
    <2>3. (S \cup E) \cap (pend \cup epend) \subseteq Moved /\ gen' \in Int
        BY <2>1, BoundAssumption
    <2> QED BY <2>1, <2>2, <2>3, LaunchKeeps
  <1> QED BY <1>1, <1>2

-----------------------------------------------------------------------------
\* Every step of the update loop is a step of the chain or leaves it alone.
LEMMA LoopMovesChain == [Next]_vars => [ChainNext]_chainVars
  BY DEF Next, vars, ChainNext, Tick, RefreshKey, FullRefreshKey, Snapshot, StaleSnapshot,
         Deliver, NodeMsg, EtcdMsg, StaleAnswer, ToggleSSH, ApplySSHConfig, SwitchContext,
         OnEnter, OpenRescue, ProbeNodeNow, Done, RefreshUnlessRunning, AtMaxSeq

\* The state starts typed, with no fact read and no probe in flight.
LEMMA LoopInitInv == Init => LoopInv
  <1> SUFFICES ASSUME Init PROVE LoopInv
      OBVIOUS
  <1> USE NodeAssumption, NoneAssumption, BoundAssumption, MaxSeqAssumption DEF Init
  <1>1. ChainInv
      BY ChainInitInv
  <1>2. probes = [e \in {} |-> 1] /\ IsABag(probes) /\ BagToSet(probes) = {}
      BY DEF EmptyBag, SetToBag, IsABag, BagToSet
  <1>3. cluster \in Cluster /\ seq = 1
      BY DEF ChainInit
  <1>4. hosts \in [Node -> Cluster \cup {None}]
      BY <1>3 DEF FallbackHosts
  <1>5. nodes \in [Node -> Facts \cup {None}] /\ etcd \in [Node -> EtcdFacts \cup {None}]
        /\ sshDown \in [Node -> Cluster \cup {None}] /\ skipUntil \in [Node -> 0..(MaxSeq + 2)]
      BY DEF NoFacts
  <1>6. TypeOK
    <2>1. ssh \in [enabled : BOOLEAN, runner : BOOLEAN]
      <3>1. ssh = [enabled |-> TRUE, runner |-> TRUE] \/ ssh = [enabled |-> FALSE, runner |-> FALSE]
          OBVIOUS
      <3>2. /\ [enabled |-> TRUE, runner |-> TRUE] \in [enabled : BOOLEAN, runner : BOOLEAN]
            /\ [enabled |-> FALSE, runner |-> FALSE] \in [enabled : BOOLEAN, runner : BOOLEAN]
          OBVIOUS
      <3> HIDE DEF Init
      <3> QED BY <3>1, <3>2, Zenon
    <2>2. gen \in 0..MaxGen /\ cycle \in 0..MaxSeq
        OBVIOUS
    <2> QED BY <1>1, <1>2, <1>4, <1>5, <2>1, <2>2 DEF TypeOK, ChainInv
  <1>7. NoForeignFacts
      BY DEF NoForeignFacts, NoFacts
  <1>8. ProbesMatch(probes, gen, login, cluster, hosts, pending, etcdPend)
      BY <1>2 DEF ProbesMatch, ProbesAreOurs, MarksMatch, Of
  <1>9. CycleBehindSeq
      BY <1>3 DEF CycleBehindSeq
  <1> QED BY <1>1, <1>6, <1>7, <1>8, <1>9 DEF LoopInv

\* A chain action other than the context switch stays with the cluster.
LEMMA ChainStays ==
  ASSUME ChainTypeOK,
         RefreshUnlessRunning \/ (\E s \in ticks : TickMsg(s)) \/ UNCHANGED chainVars
           \/ \E f \in fetches : SnapshotMsg(f) /\ ~Current(f)
  PROVE  cluster' = cluster /\ (CycleBehindSeq /\ cycle' = cycle /\ cycle \in Nat => CycleBehindSeq')
  <1>1. seq \in Nat
      BY MaxSeqAssumption DEF ChainTypeOK
  <1> QED BY <1>1 DEF RefreshUnlessRunning, RefreshCmd, TickMsg, SnapshotMsg, chainVars, CycleBehindSeq

\* Every step keeps the invariant.
LEMMA LoopNextInv == LoopInv /\ [Next]_vars => LoopInv'
  <1> SUFFICES ASSUME LoopInv, [Next]_vars PROVE LoopInv'
      OBVIOUS
  <1> USE DEF LoopInv
  <1>0. ChainInv'
      BY LoopMovesChain, ChainNextInv
  <1>1. ChainTypeOK /\ ChainTypeOK'
      BY <1>0 DEF ChainInv
  <1>2. seq \in Nat /\ gen \in Nat /\ cycle \in Nat /\ MaxSeq \in Nat /\ MaxGen \in Nat /\ cluster \in Cluster
      BY <1>1, MaxSeqAssumption, BoundAssumption DEF TypeOK, ChainTypeOK
  <1>3. IsABag(probes) /\ BagToSet(probes) \subseteq Probe
      BY DEF TypeOK
  <1>4. ProbesMatch(probes, gen, login, cluster, hosts, pending, etcdPend)
      OBVIOUS
  <1>5. ASSUME cluster' = cluster, CycleBehindSeq', UNCHANGED sshVars PROVE LoopInv'
      BY <1>0, <1>1, <1>5 DEF sshVars, TypeOK, NoForeignFacts
  <1>6. CASE Tick
      BY <1>1, <1>2, <1>5, <1>6, ChainStays DEF Tick, sshVars
  <1>7. CASE RefreshKey
      BY <1>1, <1>2, <1>5, <1>7, ChainStays DEF RefreshKey, sshVars
  <1>8. CASE FullRefreshKey
      BY <1>0, <1>1, <1>2, <1>8, ChainStays DEF FullRefreshKey, TypeOK, NoForeignFacts
  <1>9. ASSUME NEW f \in fetches, NEW list \in SUBSET Node, Snapshot(f, list) PROVE LoopInv'
    <2>1. /\ refreshing /\ cluster' = cluster /\ seq' = seq /\ refreshing' = FALSE
          /\ cycle' = cycle + 1
        BY <1>1, <1>9 DEF Snapshot, SnapshotMsg, ChainInv, OneLiveMessage
    <2>2. CycleBehindSeq' /\ cycle' \in 0..MaxSeq
        BY <1>1, <1>2, <2>1 DEF CycleBehindSeq, ChainTypeOK
    <2>3. /\ nodes' \in [Node -> Facts \cup {None}] /\ etcd' \in [Node -> EtcdFacts \cup {None}]
          /\ sshDown' \in [Node -> Cluster \cup {None}]
        BY <1>9 DEF Snapshot, Forget, TypeOK
    <2>4. listing' \in SUBSET Node /\ knownNodes' \in SUBSET Node
        BY <1>9 DEF Snapshot, TypeOK
    <2>5. UNCHANGED <<gen, login, hosts, ssh, skipUntil>> /\ CollectCmds(pending, etcdPend, heavyNext)
        BY <1>9 DEF Snapshot
    <2>6. /\ ProbesMatch(probes', gen', login', cluster', hosts', pending', etcdPend')
          /\ heavyNext' \in BOOLEAN
        BY <1>2, <1>4, <2>1, <2>3, <2>4, <2>5, CollectKeeps DEF TypeOK
    <2>7. NoForeignFacts'
        BY <1>9, <2>1, <2>5 DEF NoForeignFacts, Snapshot, Forget
    <2>8. TypeOK'
        BY <1>1, <2>2, <2>3, <2>4, <2>5, <2>6 DEF TypeOK, ProbesMatch
    <2> QED BY <1>0, <2>2, <2>6, <2>7, <2>8
  <1>10. ASSUME NEW f \in fetches, StaleSnapshot(f) PROVE LoopInv'
      BY <1>1, <1>2, <1>5, <1>10, ChainStays DEF StaleSnapshot, sshVars
  <1>11. ASSUME NEW p \in BagToSet(probes), Deliver(p) PROVE LoopInv'
    <2>1. p \in Probe /\ p.node \in Node /\ p.from \in Cluster /\ p.as \in Login
        BY <1>3 DEF Probe
    <2>2. UNCHANGED chainVars
        BY <1>11 DEF Deliver, NodeMsg, EtcdMsg, StaleAnswer
    <2>3. cluster' = cluster /\ seq' = seq /\ refreshing' = refreshing
        BY <2>2 DEF chainVars
    <2>4. p.gen = gen => p.as = login /\ (p.from = cluster \/ hosts[p.node] # None)
        BY <1>4 DEF ProbesMatch, ProbesAreOurs
    <2>5. ASSUME NEW ok \in BOOLEAN, NEW slow \in BOOLEAN, NodeMsg(p, ok, slow) PROVE LoopInv'
      <3>1. /\ UNCHANGED <<gen, cycle, heavyNext, login, hosts, ssh, listing, knownNodes, etcd, etcdPend>>
            /\ p.gen = gen /\ p.kind = "node" /\ pending' = pending \ {p.node}
            /\ probes' = probes (-) SetToBag({p})
            /\ nodes' = [nodes EXCEPT ![p.node] = [from |-> p.from, as |-> p.as]]
          BY <2>5 DEF NodeMsg, Accepted, Answered
      <3>2. ProbesMatch(probes', gen', login', cluster', hosts', pending', etcdPend')
          BY <1>4, <2>3, <3>1, AnswerKeeps
      <3>3. nodes' \in [Node -> Facts \cup {None}] /\ sshDown' \in [Node -> Cluster \cup {None}]
          BY <2>1, <2>5 DEF NodeMsg, TypeOK, Facts
      <3>4. skipUntil' \in [Node -> 0..(MaxSeq + 2)]
        <4>1. skipUntil' \in {skipUntil, [skipUntil EXCEPT ![p.node] = cycle + 2]}
            BY <2>5 DEF NodeMsg, NoteProbeDuration
        <4>2. cycle + 2 \in 0..(MaxSeq + 2)
            BY <1>2 DEF TypeOK
        <4> QED BY <2>1, <4>1, <4>2 DEF TypeOK
      <3>5. TypeOK'
          BY <1>1, <3>1, <3>2, <3>3, <3>4 DEF TypeOK, ProbesMatch
      <3>6. NoForeignFacts'
          BY <2>1, <2>3, <2>4, <3>1 DEF NoForeignFacts, TypeOK
      <3> QED BY <1>0, <2>3, <3>1, <3>2, <3>5, <3>6 DEF CycleBehindSeq
    <2>6. ASSUME NEW peers \in SUBSET Node, NEW slow \in BOOLEAN, EtcdMsg(p, peers, slow) PROVE LoopInv'
      <3>1. /\ UNCHANGED <<gen, cycle, heavyNext, login, hosts, ssh, listing, knownNodes, nodes, pending, sshDown>>
            /\ p.gen = gen /\ p.kind = "etcd" /\ etcdPend' = etcdPend \ {p.node}
            /\ probes' = probes (-) SetToBag({p})
            /\ etcd' = [etcd EXCEPT ![p.node] = [from |-> p.from, as |-> p.as, peers |-> peers]]
          BY <2>6 DEF EtcdMsg, Accepted, Answered
      <3>2. ProbesMatch(probes', gen', login', cluster', hosts', pending', etcdPend')
          BY <1>4, <2>3, <3>1, AnswerKeeps
      <3>3. etcd' \in [Node -> EtcdFacts \cup {None}]
          BY <2>1, <3>1 DEF TypeOK, EtcdFacts
      <3>4. skipUntil' \in [Node -> 0..(MaxSeq + 2)]
        <4>1. skipUntil' \in {skipUntil, [skipUntil EXCEPT ![p.node] = cycle + 2]}
            BY <2>6 DEF EtcdMsg, NoteProbeDuration
        <4>2. cycle + 2 \in 0..(MaxSeq + 2)
            BY <1>2 DEF TypeOK
        <4> QED BY <2>1, <4>1, <4>2 DEF TypeOK
      <3>5. TypeOK'
          BY <1>1, <3>1, <3>2, <3>3, <3>4 DEF TypeOK, ProbesMatch
      <3>6. NoForeignFacts'
          BY <2>1, <2>3, <2>4, <3>1 DEF NoForeignFacts, TypeOK
      <3> QED BY <1>0, <2>3, <3>1, <3>2, <3>5, <3>6 DEF CycleBehindSeq
    <2>7. CASE StaleAnswer(p)
      <3>1. /\ UNCHANGED <<gen, cycle, heavyNext, login, hosts, ssh, listing, knownNodes,
                           nodes, etcd, pending, etcdPend, skipUntil, sshDown>>
            /\ p.gen # gen /\ probes' = probes (-) SetToBag({p})
          BY <2>7 DEF StaleAnswer, Accepted, Answered
      <3>2. ProbesMatch(probes', gen', login', cluster', hosts', pending', etcdPend')
          BY <1>4, <2>3, <3>1, StaleKeeps
      <3> QED BY <1>0, <1>1, <2>3, <3>1, <3>2 DEF TypeOK, ProbesMatch, NoForeignFacts, CycleBehindSeq
    <2> QED BY <1>11, <2>5, <2>6, <2>7, NodeAssumption DEF Deliver
  <1>12. CASE ToggleSSH
    <2>1. /\ UNCHANGED <<chainVars, gen, cycle, login, hosts, listing, knownNodes, nodes, etcd, skipUntil, sshDown>>
          /\ ssh' \in [enabled : BOOLEAN, runner : BOOLEAN]
        BY <1>12 DEF ToggleSSH, TypeOK
    <2>2. cluster' = cluster /\ seq' = seq /\ refreshing' = refreshing
        BY <2>1 DEF chainVars
    <2>3. /\ ProbesMatch(probes', gen', login', cluster', hosts', pending', etcdPend')
          /\ heavyNext' \in BOOLEAN
      <3>1. CASE CollectCmds(pending, etcdPend, TRUE)
          BY <1>2, <1>4, <2>1, <2>2, <3>1, CollectKeeps DEF TypeOK
      <3>2. CASE UNCHANGED <<pending, etcdPend, heavyNext, probes>>
          BY <1>4, <2>1, <2>2, <3>2 DEF TypeOK
      <3> QED BY <1>12, <3>1, <3>2 DEF ToggleSSH
    <2> QED BY <1>0, <1>1, <2>1, <2>2, <2>3 DEF TypeOK, ProbesMatch, NoForeignFacts, CycleBehindSeq
  <1>13. ASSUME NEW l \in Login, ApplySSHConfig(l) PROVE LoopInv'
    <2>1. /\ UNCHANGED <<chainVars, cycle, hosts, listing, knownNodes, skipUntil, sshDown>>
          /\ gen' = gen + 1 /\ gen < MaxGen /\ login' = l /\ nodes' = NoFacts /\ etcd' = NoFacts
          /\ ssh' = [enabled |-> TRUE, runner |-> TRUE]
          /\ CollectCmds({}, {}, TRUE)
        BY <1>13 DEF ApplySSHConfig
    <2>2. cluster' = cluster /\ seq' = seq /\ refreshing' = refreshing
        BY <2>1 DEF chainVars
    <2>3. gen \in 0..MaxGen /\ gen' \in 0..MaxGen
        BY <1>2, <2>1
    <2>4. ProbesMatch(probes, gen', login', cluster', hosts', {}, {})
        BY <1>4, <2>1, <2>3, NewGenKeeps
    <2>5. etcd' \in [Node -> EtcdFacts \cup {None}] /\ nodes' \in [Node -> Facts \cup {None}]
        BY <2>1 DEF NoFacts
    <2>6. /\ ProbesMatch(probes', gen', login', cluster', hosts', pending', etcdPend')
          /\ heavyNext' \in BOOLEAN
        BY <1>2, <2>1, <2>2, <2>3, <2>4, <2>5, CollectKeeps DEF TypeOK
    <2>7. TypeOK'
        BY <1>1, <2>1, <2>3, <2>5, <2>6 DEF TypeOK, ProbesMatch
    <2>8. NoForeignFacts'
        BY <2>1 DEF NoForeignFacts, NoFacts
    <2> QED BY <1>0, <2>1, <2>2, <2>6, <2>7, <2>8 DEF CycleBehindSeq
  <1>14. ASSUME NEW c \in Cluster, NEW hint \in Login \cup {None}, NEW runner \in BOOLEAN,
                SwitchContext(c, hint, runner)
         PROVE  LoopInv'
    <2>1. /\ UNCHANGED <<skipUntil, sshDown, probes>>
          /\ gen' = gen + 1 /\ gen < MaxGen /\ cycle' = 0 /\ heavyNext' = TRUE
          /\ login' \in Login /\ hosts' \in [Node -> Cluster \cup {None}]
          /\ ssh' = [enabled |-> runner, runner |-> runner]
          /\ listing' = {} /\ knownNodes' = {} /\ nodes' = NoFacts /\ etcd' = NoFacts
          /\ pending' = {} /\ etcdPend' = {}
        BY <1>14 DEF SwitchContext, TypeOK, FallbackHosts
    <2>2. CycleBehindSeq'
        BY <1>1, <1>2, <2>1 DEF CycleBehindSeq, ChainTypeOK
    <2>3. gen \in 0..MaxGen /\ gen' \in 0..MaxGen
        BY <1>2, <2>1
    <2>4. ProbesMatch(probes', gen', login', cluster', hosts', pending', etcdPend')
        BY <1>4, <2>1, <2>3, NewGenKeeps
    <2>5. etcd' \in [Node -> EtcdFacts \cup {None}] /\ nodes' \in [Node -> Facts \cup {None}]
        BY <2>1 DEF NoFacts
    <2>6. cycle' \in 0..MaxSeq /\ ssh' \in [enabled : BOOLEAN, runner : BOOLEAN]
        BY <1>2, <2>1
    <2>7. TypeOK'
        BY <1>1, <2>1, <2>3, <2>4, <2>5, <2>6 DEF TypeOK, ProbesMatch
    <2>8. NoForeignFacts'
        BY <2>1 DEF NoForeignFacts, NoFacts
    <2> QED BY <1>0, <2>2, <2>4, <2>7, <2>8
  <1>15. ASSUME NEW S \in SUBSET Node, OnEnter(S) PROVE LoopInv'
    <2> DEFINE N == {NewProbe("node", n, gen, NodeAddress(n, hosts, cluster), login, FALSE) : n \in S}
    <2>1. /\ UNCHANGED <<chainVars, gen, cycle, heavyNext, login, hosts, ssh, listing, knownNodes,
                         nodes, etcd, etcdPend, skipUntil, sshDown>>
          /\ pending' = pending \cup S /\ probes' = probes (+) SetToBag(N)
          /\ S \cap (pending \cup etcdPend) = {}
        BY <1>15 DEF OnEnter, SkipProbe
    <2>2. cluster' = cluster /\ seq' = seq /\ refreshing' = refreshing
        BY <2>1 DEF chainVars
    <2>3. Starts(N, S, {}, gen, hosts, cluster, login)
      <3>1. Starts(N \cup {NewProbe("etcd", n, gen, NodeAddress(n, hosts, cluster), login, FALSE) : n \in {}},
                   S, {}, gen, hosts, cluster, login)
        <4>1. gen \in 0..MaxGen /\ hosts \in [Node -> Cluster \cup {None}] /\ login \in Login
              /\ {} \in SUBSET Node
            BY DEF TypeOK
        <4>2. \A force \in BOOLEAN :
                Starts({NewProbe("node", m, gen, NodeAddress(m, hosts, cluster), login, force) : m \in S} \cup
                       {NewProbe("etcd", m, gen, NodeAddress(m, hosts, cluster), login, force) : m \in {}},
                       S, {}, gen, hosts, cluster, login)
            BY <1>2, <4>1, CommandsStart
        <4> QED BY <4>2, Zenon
      <3>2. N \cup {NewProbe("etcd", n, gen, NodeAddress(n, hosts, cluster), login, FALSE) : n \in {}} = N
          OBVIOUS
      <3> QED BY <3>1, <3>2
    <2> HIDE DEF N
    <2>4. ProbesMatch(probes', gen', login', cluster', hosts', pending', etcdPend')
      <3>1. (S \cup {}) \cap (pending \cup etcdPend) \subseteq Moved /\ etcdPend \cup {} = etcdPend /\ gen \in Int
          BY <1>2, <2>1
      <3>2. ProbesMatch(probes (+) SetToBag(N), gen, login, cluster, hosts, pending \cup S, etcdPend \cup {})
          BY <1>4, <2>3, <3>1, LaunchKeeps
      <3> QED BY <2>1, <2>2, <3>1, <3>2
    <2> QED BY <1>0, <1>1, <2>1, <2>2, <2>4 DEF TypeOK, ProbesMatch, NoForeignFacts, CycleBehindSeq
  <1>16. CASE OpenRescue
    <2>1. /\ UNCHANGED <<chainVars, gen, cycle, login, hosts, ssh, listing, knownNodes, nodes, etcd,
                         skipUntil, sshDown>>
          /\ CollectCmds(pending, etcdPend, heavyNext)
        BY <1>16 DEF OpenRescue
    <2>2. cluster' = cluster /\ seq' = seq /\ refreshing' = refreshing
        BY <2>1 DEF chainVars
    <2>3. /\ ProbesMatch(probes', gen', login', cluster', hosts', pending', etcdPend')
          /\ heavyNext' \in BOOLEAN
        BY <1>2, <1>4, <2>1, <2>2, CollectKeeps DEF TypeOK
    <2> QED BY <1>0, <1>1, <2>1, <2>2, <2>3 DEF TypeOK, ProbesMatch, NoForeignFacts, CycleBehindSeq
  <1>17. ASSUME NEW n \in Node, ProbeNodeNow(n) PROVE LoopInv'
    <2> DEFINE E == IF listing = {} \/ n \in EtcdNode THEN {n} ELSE {}
               N == {NewProbe("node", n, gen, cluster, login, FALSE)} \cup
                    {NewProbe("etcd", m, gen, cluster, login, FALSE) : m \in E}
    <2>1. /\ UNCHANGED <<chainVars, gen, cycle, heavyNext, login, ssh, listing, knownNodes,
                         nodes, etcd, skipUntil, sshDown>>
          /\ n \in Moved /\ hosts' = [hosts EXCEPT ![n] = cluster]
          /\ pending' = pending \cup {n} /\ etcdPend' = etcdPend \cup E
        BY <1>17 DEF ProbeNodeNow
    <2>2. probes' = probes (+) SetToBag(N)
        BY <1>17 DEF ProbeNodeNow
    <2>3. cluster' = cluster /\ seq' = seq /\ refreshing' = refreshing
        BY <2>1 DEF chainVars
    <2>4. hosts' \in [Node -> Cluster \cup {None}] /\ hosts'[n] = cluster /\ cluster # None
          /\ \A m \in Node : hosts[m] # None => hosts'[m] # None
        BY <1>2, <2>1, NoneAssumption DEF TypeOK
    <2>5. Starts(N, {n}, E, gen, hosts', cluster, login)
      <3>1. NodeAddress(n, hosts', cluster) = cluster
          BY <2>4 DEF NodeAddress
      <3>2. Starts({NewProbe("node", m, gen, NodeAddress(m, hosts', cluster), login, FALSE) : m \in {n}} \cup
                   {NewProbe("etcd", m, gen, NodeAddress(m, hosts', cluster), login, FALSE) : m \in E},
                   {n}, E, gen, hosts', cluster, login)
        <4>1. gen \in 0..MaxGen /\ login \in Login /\ {n} \in SUBSET Node /\ E \in SUBSET Node
            BY DEF TypeOK
        <4>2. \A force \in BOOLEAN :
                Starts({NewProbe("node", m, gen, NodeAddress(m, hosts', cluster), login, force) : m \in {n}} \cup
                       {NewProbe("etcd", m, gen, NodeAddress(m, hosts', cluster), login, force) : m \in E},
                       {n}, E, gen, hosts', cluster, login)
            BY <1>2, <2>4, <4>1, CommandsStart
        <4> QED BY <4>2, Zenon
      <3>3. {NewProbe("node", m, gen, NodeAddress(m, hosts', cluster), login, FALSE) : m \in {n}}
             = {NewProbe("node", n, gen, cluster, login, FALSE)}
          BY <3>1
      <3>4. {NewProbe("etcd", m, gen, NodeAddress(m, hosts', cluster), login, FALSE) : m \in E}
             = {NewProbe("etcd", m, gen, cluster, login, FALSE) : m \in E}
          BY <3>1
      <3> QED BY <3>2, <3>3, <3>4
    <2>6. {n} \in SUBSET Node /\ E \in SUBSET Node /\ ({n} \cup E) \cap (pending \cup etcdPend) \subseteq Moved
          /\ gen \in Int
        BY <1>2, <2>1
    <2> HIDE DEF N, E
    <2>7. ProbesMatch(probes, gen, login, cluster, hosts', pending, etcdPend)
        BY <1>3, <1>4, <2>4 DEF ProbesMatch, ProbesAreOurs, Probe
    <2>8. ProbesMatch(probes', gen', login', cluster', hosts', pending', etcdPend')
        BY <2>1, <2>2, <2>3, <2>5, <2>6, <2>7, LaunchKeeps
    <2>9. NoForeignFacts'
        BY <2>1, <2>3, <2>4 DEF NoForeignFacts
    <2> QED BY <1>0, <1>1, <2>1, <2>3, <2>4, <2>8, <2>9 DEF TypeOK, ProbesMatch, CycleBehindSeq
  <1>18. CASE Done
      BY <1>1, <1>2, <1>5, <1>18, ChainStays DEF Done, AtMaxSeq, sshVars
  <1>19. CASE UNCHANGED vars
      BY <1>1, <1>2, <1>5, <1>19, ChainStays DEF vars, sshVars
  <1> QED BY <1>6, <1>7, <1>8, <1>9, <1>10, <1>11, <1>12, <1>13, <1>14, <1>15, <1>16, <1>17, <1>18, <1>19
          DEF Next
\* Every fact and the snapshot shown are of this cluster and login, for any
\* clusters, nodes and logins and any order of answers.
THEOREM NothingForeignShown == Spec => []NothingForeign
  <1>1. LoopInv => NothingForeign
      BY DEF LoopInv, ChainInv, NothingForeign
  <1> QED BY <1>1, LoopInitInv, LoopNextInv, PTL DEF Spec

\* A pending mark always has its probe, so no node is skipped for good.
THEOREM PendingCorrect == Spec => []PendingHasProbe
  <1>1. LoopInv => PendingHasProbe
      BY DEF LoopInv, ProbesMatch, MarksMatch, Of, PendingHasProbe, Accepted
  <1> QED BY <1>1, LoopInitInv, LoopNextInv, PTL DEF Spec

\* As long as no address is edited in the rescue picker, no node ever has two
\* probes of one kind running for the current gen.
THEOREM NeverStacked ==
  ASSUME Moved = {}
  PROVE  Spec => []NoStackedProbes
  <1>1. LoopInv => NoStackedProbes
      BY DEF LoopInv, ProbesMatch, MarksMatch, Of, NoStackedProbes, Running, Accepted
  <1> QED BY <1>1, LoopInitInv, LoopNextInv, PTL DEF Spec

\* The types, and the chain's properties as part of the whole loop.
THEOREM LoopTyped == Spec => [](TypeOK /\ OneLiveMessage)
  <1>1. LoopInv => TypeOK /\ OneLiveMessage
      BY DEF LoopInv, ChainInv
  <1> QED BY <1>1, LoopInitInv, LoopNextInv, PTL DEF Spec
=============================================================================
