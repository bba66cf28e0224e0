---------------------------- MODULE Khealth_proofs ----------------------------
(***************************************************************************)
(* Theorems about the machines Khealth composes, each for any values of    *)
(* its own constants: the tiers of the probes, the fetches of the API      *)
(* client, the bootstrap and the gather; and about their composition.      *)
(***************************************************************************)
EXTENDS Khealth, TLAPS, WellFoundedInduction

-----------------------------------------------------------------------------
(***************************************************************************)
(* Tiers: the findings on the screen are those of the facts or a recompute *)
(* is scheduled, and the ages of a node's tiers are never forgotten.       *)
(*                                                                         *)
(* Both follow from the types alone: what a probe brings is merged with    *)
(* what is there, and the findings do not depend on ages.                  *)
(***************************************************************************)
\* An age of a tier may change in no other way (AgesAreHonest).
AgeStep(n, t) ==
    facts[n] # None /\ facts'[n] # None =>
        \/ facts'[n].age[t] = facts[n].age[t]
        \/ facts[n].age[t] < Old /\ facts'[n].age[t] = facts[n].age[t] + 1
        \/ facts'[n].age[t] = Fresh /\ t \in (IF collecting[n] = None THEN {} ELSE collecting[n])

\* Probes that start carry tiers.
LEMMA CollectType ==
    ASSUME TierTypeOK, NEW some, NEW force \in BOOLEAN, NEW offline \in BOOLEAN,
           CollectCmds(some, force, offline)
    PROVE  /\ collecting' \in [Nodes -> (SUBSET Tier) \cup {None}]
           /\ etcdPend' \in [Nodes -> BOOLEAN]
<1>1. \A n \in Nodes : NodeTiers(n, tab \cup Pinned, force) \in SUBSET Tier
  BY DEF NodeTiers
<1> QED BY <1>1 DEF CollectCmds, TierTypeOK

LEMMA EvaluateType == \A ns : Evaluate(ns) \subseteq Nodes \X {"ssh", "node"}
BY DEF Evaluate

\* A snapshot drops what left the cluster, and computes the findings itself.
LEMMA CycleInv ==
    ASSUME TierTypeOK, Cycle
    PROVE  TierTypeOK' /\ ShownOrScheduled' /\ \A n \in Nodes, t \in Tier : AgeStep(n, t)
<1> PICK nodes \in (SUBSET Nodes) \cup {None} : Snapshot(nodes)
  BY DEF Cycle
<1>1. facts' = [n \in Nodes |-> IF n \in knownNodes' \/ nodes = None THEN facts[n] ELSE None]
  BY DEF Snapshot
<1>2. facts' \in [Nodes -> Info \cup {None}]
  BY <1>1 DEF TierTypeOK
<1>3. CollectCmds(knownNodes', heavyNext, nodes = None) /\ heavyNext \in BOOLEAN
  BY DEF Snapshot, TierTypeOK
<1>4. collecting' \in [Nodes -> (SUBSET Tier) \cup {None}] /\ etcdPend' \in [Nodes -> BOOLEAN]
  BY <1>3, CollectType
<1>5. skip' \in [Nodes -> 0..2]
  BY DEF Snapshot, TierTypeOK
<1>6. knownNodes' \subseteq Nodes /\ heavyNext' \in BOOLEAN /\ tab' \in Tabs /\ timer' \in BOOLEAN
  BY DEF Snapshot, TierTypeOK
<1>7. shown' = Evaluate(facts')
  BY DEF Snapshot
<1>8. TierTypeOK'
  BY <1>2, <1>4, <1>5, <1>6, <1>7, EvaluateType DEF TierTypeOK
<1>9. \A n \in Nodes, t \in Tier : AgeStep(n, t)
  BY <1>1 DEF AgeStep
<1> QED BY <1>7, <1>8, <1>9 DEF ShownOrScheduled

\* A node's answer leaves the tiers it was not asked for alone.
LEMMA NodeMsgInv ==
    ASSUME TierTypeOK, NEW n \in Nodes, NEW err \in BOOLEAN, NEW ill \in BOOLEAN, NEW slow \in BOOLEAN,
           collecting[n] # None,
           NEW brought \in SUBSET collecting[n], NEW some \in SUBSET brought,
           NodeMsg(n, err, ill, brought, some, slow)
    PROVE  TierTypeOK' /\ ShownOrScheduled' /\ \A m \in Nodes, t \in Tier : AgeStep(m, t)
<1> DEFINE M == Merge(n, brought, some)
           new == [err |-> err, ill |-> ill, age |-> M.age, part |-> M.part]
<1>1. brought \in SUBSET Tier /\ some \in SUBSET Tier /\ collecting[n] \in SUBSET Tier
  BY DEF TierTypeOK
<1>2. /\ M.age \in [Tier -> Fresh..Never] /\ M.part \in SUBSET Tier
      /\ \A t \in Tier : M.age[t] = IF t \in brought THEN Fresh ELSE TierAge(n, t)
  <2>1. facts[n] # None => facts[n] \in Info
    BY DEF TierTypeOK
  <2>2. \A t \in Tier : TierAge(n, t) \in Fresh..Never
    BY <2>1 DEF TierAge, Info, Fresh, Never
  <2>3. facts[n] # None => facts[n].part \in SUBSET Tier
    BY <2>1 DEF Info
  <2> QED BY <1>1, <2>2, <2>3 DEF Merge, Fresh, Never
<1>3. new \in Info
  BY <1>2 DEF Info
<1>4. facts' = [facts EXCEPT ![n] = new]
  BY DEF NodeMsg
<1>5. facts' \in [Nodes -> Info \cup {None}]
  BY <1>3, <1>4 DEF TierTypeOK
<1>6. /\ collecting' \in [Nodes -> (SUBSET Tier) \cup {None}]
      /\ skip' \in [Nodes -> 0..2]
      /\ timer' = TRUE
      /\ UNCHANGED <<tab, heavyNext, knownNodes, etcdPend, shown>>
  BY DEF NodeMsg, TierTypeOK
<1>7. TierTypeOK'
  BY <1>5, <1>6 DEF TierTypeOK
<1>8. ASSUME NEW m \in Nodes, NEW t \in Tier PROVE AgeStep(m, t)
  <2>1. CASE m # n
    BY <2>1, <1>4 DEF AgeStep, TierTypeOK
  <2>2. CASE m = n
    <3>1. facts'[n].age[t] = IF t \in brought THEN Fresh ELSE TierAge(n, t)
      BY <1>2, <1>4 DEF TierTypeOK
    <3> QED BY <2>2, <3>1 DEF AgeStep, TierAge
  <2> QED BY <2>1, <2>2
<1> QED BY <1>6, <1>7, <1>8 DEF ShownOrScheduled

\* Growing older changes no finding.
LEMMA GrowsOldInv ==
    ASSUME TiersAssumption, TierTypeOK, ShownOrScheduled, NEW n \in Nodes, NEW t \in Tier, GrowsOld(n, t)
    PROVE  TierTypeOK' /\ ShownOrScheduled' /\ \A m \in Nodes, u \in Tier : AgeStep(m, u)
<1> DEFINE new == [facts[n] EXCEPT !.age[t] = @ + 1]
<1>1. facts[n] \in Info /\ facts[n].age \in [Tier -> Fresh..Never] /\ facts[n].age[t] < Old
  <2>1. facts[n] \in Info /\ facts[n].age[t] < (IF t = "journal" THEN Old ELSE Stale)
    BY DEF GrowsOld, TierTypeOK
  <2> QED BY <2>1 DEF Info, Fresh, Stale, Old, Never
<1>2. new.age = [facts[n].age EXCEPT ![t] = @ + 1] /\ new.err = facts[n].err /\ new.ill = facts[n].ill
  BY <1>1 DEF Info
<1>3. new \in Info
  BY <1>1 DEF Info, Fresh, Old, Never
<1>4. facts' = [facts EXCEPT ![n] = new] /\ UNCHANGED <<tab, heavyNext, knownNodes, collecting, etcdPend, skip, shown, timer>>
  BY DEF GrowsOld
<1>5. TierTypeOK'
  BY <1>3, <1>4 DEF TierTypeOK
<1>6. Evaluate(facts') = Evaluate(facts)
  <2>1. facts[n] # None /\ new # None
    BY <1>1, <1>3 DEF TiersAssumption
  <2>2. \A m \in Nodes : /\ (facts'[m] # None) <=> (facts[m] # None)
                         /\ facts[m] # None => facts'[m].err = facts[m].err /\ facts'[m].ill = facts[m].ill
    BY <1>2, <1>4, <2>1 DEF TierTypeOK
  <2> QED BY <2>2 DEF Evaluate
<1>7. ASSUME NEW m \in Nodes, NEW u \in Tier PROVE AgeStep(m, u)
  <2>1. CASE m # n
    BY <2>1, <1>4 DEF AgeStep, TierTypeOK
  <2>2. CASE m = n
    <3>1. facts'[n].age[u] = IF u = t THEN facts[n].age[u] + 1 ELSE facts[n].age[u]
      BY <1>1, <1>2, <1>4 DEF TierTypeOK
    <3> QED BY <1>1, <2>2, <3>1 DEF AgeStep
  <2> QED BY <2>1, <2>2
<1> QED BY <1>4, <1>5, <1>6, <1>7 DEF ShownOrScheduled

LEMMA TiersStep ==
    ASSUME TiersAssumption, TierTypeOK, ShownOrScheduled, [TierNext]_tierVars
    PROVE  TierTypeOK' /\ ShownOrScheduled' /\ \A n \in Nodes, t \in Tier : AgeStep(n, t)
<1>1. CASE Cycle
  BY <1>1, CycleInv
<1>2. CASE PressR
  BY <1>2 DEF PressR, TierTypeOK, ShownOrScheduled, AgeStep
<1>3. CASE \E need \in Tabs : OnEnter(need)
  <2> PICK need \in Tabs : OnEnter(need)
    BY <1>3
  <2>1. \A n \in Nodes : EntryTiers(n, need) \in SUBSET Tier
    BY DEF EntryTiers, NodeTiers
  <2>2. collecting' \in [Nodes -> (SUBSET Tier) \cup {None}]
    BY <2>1 DEF OnEnter, TierTypeOK
  <2> QED BY <2>2 DEF OnEnter, TierTypeOK, ShownOrScheduled, AgeStep
<1>4. ASSUME NEW n \in Nodes, Answered(n)
      PROVE  TierTypeOK' /\ ShownOrScheduled' /\ \A m \in Nodes, t \in Tier : AgeStep(m, t)
  <2>1. PICK ill \in BOOLEAN, slow \in BOOLEAN : NodeMsg(n, FALSE, ill, collecting[n], {}, slow)
    BY <1>4 DEF Answered
  <2>2. PICK brought \in SUBSET collecting[n] : brought = collecting[n]
    OBVIOUS
  <2>3. PICK some \in SUBSET brought : some = {}
    OBVIOUS
  <2>4. PICK err \in BOOLEAN : err = FALSE
    OBVIOUS
  <2>5. NodeMsg(n, err, ill, brought, some, slow) /\ collecting[n] # None
    BY <2>1, <2>2, <2>3, <2>4 DEF NodeMsg
  <2> QED BY <2>5, NodeMsgInv
<1>5. ASSUME NEW n \in Nodes, CutOff(n)
      PROVE  TierTypeOK' /\ ShownOrScheduled' /\ \A m \in Nodes, t \in Tier : AgeStep(m, t)
  <2> PICK brought \in SUBSET collecting[n] :
         \E some \in SUBSET brought, slow \in BOOLEAN : NodeMsg(n, TRUE, FALSE, brought, some, slow)
    BY <1>5 DEF CutOff
  <2> PICK some \in SUBSET brought, slow \in BOOLEAN : NodeMsg(n, TRUE, FALSE, brought, some, slow)
    OBVIOUS
  <2>1. collecting[n] # None
    BY DEF NodeMsg
  <2> QED BY <2>1, NodeMsgInv
<1>6. CASE \E n \in Nodes : EtcdMsg(n)
  BY <1>6 DEF EtcdMsg, TierTypeOK, ShownOrScheduled, AgeStep
<1>7. CASE RecomputeMsg
  BY <1>7, EvaluateType DEF RecomputeMsg, TierTypeOK, ShownOrScheduled, AgeStep
<1>8. CASE \E n \in Nodes, t \in Tier : GrowsOld(n, t)
  BY <1>8, GrowsOldInv
<1>9. CASE UNCHANGED tierVars
  BY <1>9 DEF tierVars, TierTypeOK, ShownOrScheduled, AgeStep, Evaluate
<1> QED BY <1>1, <1>2, <1>3, <1>4, <1>5, <1>6, <1>7, <1>8, <1>9 DEF TierNext

LEMMA TiersInit == ASSUME TiersAssumption, TierInit PROVE TierTypeOK /\ ShownOrScheduled
<1>1. tab \in Tabs /\ heavyNext \in BOOLEAN /\ timer \in BOOLEAN /\ knownNodes \subseteq Nodes
  BY DEF TierInit, TiersAssumption
<1>2. /\ facts \in [Nodes -> Info \cup {None}]
      /\ collecting \in [Nodes -> (SUBSET Tier) \cup {None}]
      /\ etcdPend \in [Nodes -> BOOLEAN] /\ skip \in [Nodes -> 0..2]
  BY DEF TierInit
<1>3. shown \subseteq Nodes \X {"ssh", "node"}
  BY DEF TierInit
<1>4. TierTypeOK
  BY <1>1, <1>2, <1>3 DEF TierTypeOK
<1>5. Evaluate(facts) = {}
  BY DEF TierInit, Evaluate
<1> QED BY <1>4, <1>5 DEF TierInit, ShownOrScheduled

\* The findings on the screen are those of the facts collected, or a recompute
\* is scheduled (scheduleRecompute, recomputeMsg).
THEOREM NothingStaysUnseen ==
    ASSUME TiersAssumption
    PROVE  TierSpec => [](TierTypeOK /\ ShownOrScheduled)
<1>1. TierInit => TierTypeOK /\ ShownOrScheduled
  BY TiersInit
<1>2. TierTypeOK /\ ShownOrScheduled /\ [TierNext]_tierVars => (TierTypeOK /\ ShownOrScheduled)'
  BY TiersStep
<1> QED BY <1>1, <1>2, PTL DEF TierSpec

\* The age of a tier stays, grows by a step or starts over with a probe that
\* was asked for the tier (MergeTiers, MergeConfig).
THEOREM AgesAreKept ==
    ASSUME TiersAssumption
    PROVE  TierSpec => AgesAreHonest
<1>1. TierInit => TierTypeOK /\ ShownOrScheduled
  BY TiersInit
<1>2. TierTypeOK /\ ShownOrScheduled /\ [TierNext]_tierVars => (TierTypeOK /\ ShownOrScheduled)'
  BY TiersStep
<1>3. TierTypeOK /\ ShownOrScheduled /\ [TierNext]_tierVars => \A n \in Nodes, t \in Tier : AgeStep(n, t)
  BY TiersStep
<1> QED BY <1>1, <1>2, <1>3, PTL DEF TierSpec, AgesAreHonest, AgeStep

-----------------------------------------------------------------------------
(***************************************************************************)
(* Fetch: a snapshot never passes off a missing list as an empty one, nor  *)
(* releases older than itself as current.                                  *)
(*                                                                         *)
(* Neither is inductive.  A required call that is still open explains      *)
(* itself (Explained); the releases are compared with the fetch's own      *)
(* metadata listing (Printed), the cache with the listing it was read      *)
(* under (CacheFits), since it serves fetches that begin later.  These     *)
(* hold of one apiserver's watch cache, which never goes back.             *)
(***************************************************************************)
\* A list is open, answered or among the errors; none is open after the lists.
Explained ==
    /\ phase = "lists" => Required \subseteq open \cup got \cup errors
    /\ phase # "lists" => Required \subseteq got \cup errors

\* Calls run only while the lists are read.
OpenInLists == open # {} => phase = "lists"

\* What the metadata showed lies between the fetch's beginning and now.
Printed ==
    ~balanced =>
        \A s \in Storage : /\ base[s] <= stored[s]
                           /\ print[s] # Unanswered => base[s] <= print[s] /\ print[s] <= stored[s]

\* Releases c are of the storage as listing p showed it, or later.
NotBefore(c, p) ==
    /\ c \in Content
    /\ ~balanced /\ p["secrets"] # Unanswered => c["secrets"] # Unanswered /\ c["secrets"] >= p["secrets"]

CacheFits == helmCache # Unanswered => NotBefore(helmCache, helmFP)

RelsFit ==
    /\ phase \in {"lists", "secrets"} => rels = Unanswered
    /\ phase = "configmaps" => NotBefore(rels, print)
    /\ phase = "done" /\ rels # Unanswered => NotBefore(rels, print)

FetchInv == FetchTypeOK /\ OpenInLists /\ Explained /\ Printed /\ CacheFits /\ RelsFit

LEMMA VersionIsNat ==
    ASSUME FetchAssumption
    PROVE  /\ Version \subseteq Nat
           /\ \A s \in Storage : 0..MaxVersion[s] \subseteq Version /\ 0 \in Version
           /\ Unanswered \notin Version
BY DEF FetchAssumption, Version, Storage

\* Whatever a list answers with is a version.
LEMMA ReadsAreVersions ==
    ASSUME FetchAssumption, FetchTypeOK, NEW s \in Storage
    PROVE  Reads(s) \subseteq Version
<1>1. stored[s] \in Version /\ Version \subseteq Nat /\ MaxVersion \in [Storage -> Nat]
  BY VersionIsNat DEF FetchTypeOK, FetchAssumption
<1>2. PICK r \in Storage : stored[s] \in 0..MaxVersion[r]
  BY <1>1 DEF Version
<1>3. 0..stored[s] \subseteq 0..MaxVersion[r] /\ 0..MaxVersion[r] \subseteq Version
  BY <1>1, <1>2, VersionIsNat
<1> QED BY <1>1, <1>3 DEF Reads

LEMMA FetchInitInv == ASSUME FetchAssumption PROVE FetchInit => FetchInv
<1> SUFFICES ASSUME FetchInit PROVE FetchInv
  OBVIOUS
<1>1. FetchTypeOK
  <2>1. Required \subseteq Call /\ stored \in [Storage -> Version]
    BY VersionIsNat DEF Call, FetchInit
  <2> QED BY <2>1 DEF FetchInit, FetchTypeOK, Content, Nothing
<1>2. Printed
  BY VersionIsNat DEF FetchInit, Printed, Nothing, Storage
<1> QED BY <1>1, <1>2 DEF FetchInit, FetchInv, OpenInLists, Explained, CacheFits, RelsFit

\* A step that leaves the fetch and its versions alone.
LEMMA AsideInv ==
    ASSUME FetchInv, denied' \subseteq Call, may' \subseteq Call,
           UNCHANGED <<balanced, stored, phase, open, got, errors, base, print, rels, helmFP, helmCache>>
    PROVE  FetchInv'
BY DEF FetchInv, FetchTypeOK, OpenInLists, Explained, Printed, CacheFits, RelsFit, NotBefore

LEMMA FetchBeginInv ==
    ASSUME FetchAssumption, FetchInv, BeginFetch
    PROVE  FetchInv'
<1>1. FetchTypeOK'
  BY DEF BeginFetch, FetchInv, FetchTypeOK, Call, Nothing, Content
<1>2. OpenInLists' /\ Explained'
  BY DEF BeginFetch, OpenInLists, Explained
<1>3. Printed'
  BY VersionIsNat DEF BeginFetch, FetchInv, FetchTypeOK, Printed, Nothing
<1>4. CacheFits' /\ RelsFit'
  BY DEF BeginFetch, FetchInv, CacheFits, RelsFit, NotBefore
<1> QED BY <1>1, <1>2, <1>3, <1>4 DEF FetchInv

\* An answer of a list leaves the fetch in its lists.
LEMMA AnswersInv ==
    ASSUME FetchAssumption, FetchInv, NEW c \in Call, Answers(c)
    PROVE  FetchInv'
<1>1. FetchTypeOK'
  <2>1. print' \in Content
    BY DEF Answers, FetchInv, FetchTypeOK, Content
  <2> QED BY <2>1 DEF Answers, FetchInv, FetchTypeOK
<1>2. OpenInLists' /\ Explained'
  BY DEF Answers, FetchInv, OpenInLists, Explained
<1>3. Printed'
  <2> SUFFICES ASSUME ~balanced, NEW s \in Storage
               PROVE  /\ base[s] <= stored[s]
                      /\ print'[s] # Unanswered => base[s] <= print'[s] /\ print'[s] <= stored[s]
    BY DEF Answers, Printed
  <2>1. print'[s] \in {print[s], stored[s]} /\ stored[s] \in Nat /\ base[s] <= stored[s]
    BY VersionIsNat DEF Answers, Reads, FetchInv, FetchTypeOK, Printed
  <2> QED BY <2>1 DEF FetchInv, Printed
<1>4. CacheFits'
  BY DEF Answers, FetchInv, CacheFits, NotBefore
<1>5. RelsFit'
  BY DEF Answers, FetchInv, OpenInLists, RelsFit
<1> QED BY <1>1, <1>2, <1>3, <1>4, <1>5 DEF FetchInv

LEMMA FailsInv ==
    ASSUME FetchInv, NEW c \in Call, Fails(c)
    PROVE  FetchInv'
<1>1. FetchTypeOK'
  BY DEF Fails, NoteDenied, FetchInv, FetchTypeOK
<1>2. OpenInLists' /\ Explained'
  BY DEF Fails, FetchInv, OpenInLists, Explained
<1>3. Printed'
  BY DEF Fails, FetchInv, Printed
<1>4. CacheFits' /\ RelsFit'
  BY DEF Fails, FetchInv, CacheFits, RelsFit, NotBefore
<1> QED BY <1>1, <1>2, <1>3, <1>4 DEF FetchInv

\* The cache is served only when it was read under the same listing.
LEMMA HelmInv ==
    ASSUME FetchInv, Helm
    PROVE  FetchInv'
<1>1. FetchTypeOK'
  BY DEF Helm, FetchInv, FetchTypeOK, Call
<1>2. OpenInLists' /\ Explained'
  BY DEF Helm, FetchInv, OpenInLists, Explained
<1>3. Printed' /\ CacheFits'
  BY DEF Helm, FetchInv, Printed, CacheFits, NotBefore
<1>4. RelsFit'
  <2>1. CASE CacheServes /\ phase' = "done" /\ rels' = helmCache
    BY <2>1 DEF Helm, CacheServes, FetchInv, CacheFits, RelsFit, NotBefore
  <2>2. CASE ~CacheServes /\ phase' \in {"done", "secrets"} /\ rels' = rels
    BY <2>2 DEF Helm, FetchInv, RelsFit
  <2> QED BY <2>1, <2>2 DEF Helm
<1> QED BY <1>1, <1>2, <1>3, <1>4 DEF FetchInv

\* The secrets are read after their metadata was listed.
LEMMA ReadSecretsInv ==
    ASSUME FetchAssumption, FetchInv, ReadSecrets
    PROVE  FetchInv'
<1>0. rels' \in Content \cup {Unanswered} /\ (phase' = "configmaps" => rels' \in Content)
  <2>1. Reads("secrets") \subseteq Version
    BY ReadsAreVersions DEF FetchInv, Storage
  <2> QED BY <2>1 DEF ReadSecrets, FetchInv, FetchTypeOK, Nothing, Content
<1>1. FetchTypeOK'
  BY <1>0 DEF ReadSecrets, NoteDenied, FetchInv, FetchTypeOK, Call
<1>2. OpenInLists' /\ Explained'
  BY DEF ReadSecrets, FetchInv, OpenInLists, Explained
<1>3. Printed' /\ CacheFits'
  BY DEF ReadSecrets, FetchInv, Printed, CacheFits, NotBefore
<1>4. RelsFit'
  <2>1. CASE phase' = "configmaps"
    <3>1. rels' \in Content
      BY <1>0, <2>1
    <3>2. CASE ~balanced
      <4>1. rels'["secrets"] = stored["secrets"] /\ stored["secrets"] # Unanswered
        BY <2>1, <3>2, VersionIsNat DEF ReadSecrets, Reads, FetchInv, FetchTypeOK, Nothing, Storage
      <4>2. print' = print /\ (print["secrets"] # Unanswered => stored["secrets"] >= print["secrets"])
        BY <3>2, VersionIsNat DEF ReadSecrets, FetchInv, FetchTypeOK, Printed, Storage, Content
      <4> QED BY <2>1, <3>1, <4>1, <4>2 DEF RelsFit, NotBefore
    <3>3. CASE balanced
      BY <2>1, <3>1, <3>3 DEF ReadSecrets, RelsFit, NotBefore
    <3> QED BY <3>2, <3>3
  <2>2. CASE phase = "secrets" /\ phase' = "done" /\ rels' = rels
    BY <2>2 DEF FetchInv, RelsFit
  <2> QED BY <2>1, <2>2 DEF ReadSecrets
<1> QED BY <1>1, <1>2, <1>3, <1>4 DEF FetchInv

\* The configmaps' part does not touch the secrets', and the cache is for this listing.
LEMMA ReadConfigMapsInv ==
    ASSUME FetchAssumption, FetchInv, ReadConfigMaps
    PROVE  FetchInv'
<1>0. NotBefore(rels, print)
  BY DEF ReadConfigMaps, FetchInv, RelsFit
<1>1. NotBefore(rels', print) /\ balanced' = balanced
  <2>0. balanced' = balanced
    BY DEF ReadConfigMaps
  <2> PICK cm \in Reads("configmaps") \cup {Unanswered} : rels' = [rels EXCEPT !["configmaps"] = cm]
    BY DEF ReadConfigMaps
  <2>1. cm \in Version \cup {Unanswered}
    BY ReadsAreVersions DEF FetchInv, Storage
  <2>2. rels' \in Content
    BY <1>0, <2>1 DEF NotBefore, Content
  <2>3. rels'["secrets"] = rels["secrets"]
    BY <1>0 DEF NotBefore, Content, Storage
  <2> QED BY <1>0, <2>0, <2>2, <2>3 DEF NotBefore
<1>2. FetchTypeOK'
  BY <1>1 DEF ReadConfigMaps, NotBefore, FetchInv, FetchTypeOK
<1>3. OpenInLists' /\ Explained'
  BY DEF ReadConfigMaps, FetchInv, OpenInLists, Explained
<1>4. Printed'
  BY DEF ReadConfigMaps, FetchInv, Printed
<1>5. CacheFits' /\ RelsFit'
  BY <1>1 DEF ReadConfigMaps, CacheFits, RelsFit, NotBefore
<1> QED BY <1>2, <1>3, <1>4, <1>5 DEF FetchInv

\* A storage only gets newer.
LEMMA HelmWritesInv ==
    ASSUME FetchAssumption, FetchInv, NEW s \in Storage, HelmWrites(s)
    PROVE  FetchInv'
<1>1. stored[s] \in Nat /\ MaxVersion[s] \in Nat
  BY VersionIsNat DEF FetchInv, FetchTypeOK, FetchAssumption
<1>2. stored[s] + 1 \in Version
  BY <1>1, VersionIsNat DEF HelmWrites
<1>3. FetchTypeOK'
  BY <1>2 DEF HelmWrites, FetchInv, FetchTypeOK
<1>4. Printed'
  <2> SUFFICES ASSUME NEW r \in Storage
               PROVE  ~balanced => /\ base[r] <= stored'[r]
                                   /\ print[r] # Unanswered => base[r] <= print[r] /\ print[r] <= stored'[r]
    BY DEF HelmWrites, Printed
  <2>1. stored'[r] \in Nat /\ stored[r] \in Nat /\ base[r] \in Nat /\ stored[r] <= stored'[r]
    BY VersionIsNat DEF HelmWrites, FetchInv, FetchTypeOK
  <2>2. print[r] # Unanswered => print[r] \in Nat
    BY VersionIsNat DEF FetchInv, FetchTypeOK, Content
  <2> QED BY <2>1, <2>2 DEF FetchInv, Printed
<1>5. OpenInLists' /\ Explained' /\ CacheFits' /\ RelsFit'
  BY DEF HelmWrites, FetchInv, OpenInLists, Explained, CacheFits, RelsFit, NotBefore
<1> QED BY <1>3, <1>4, <1>5 DEF FetchInv

LEMMA FetchNextInv == ASSUME FetchAssumption, FetchInv, [FetchNext]_fetchVars PROVE FetchInv'
<1>1. CASE BeginFetch
  BY <1>1, FetchBeginInv
<1>2. CASE \E c \in Call : Answers(c) \/ Fails(c)
  BY <1>2, AnswersInv, FailsInv
<1>3. CASE Helm
  BY <1>3, HelmInv
<1>4. CASE ReadSecrets
  BY <1>4, ReadSecretsInv
<1>5. CASE ReadConfigMaps
  BY <1>5, ReadConfigMapsInv
<1>6. CASE ResetDenied
  BY <1>6, AsideInv DEF ResetDenied, Forget, FetchInv, FetchTypeOK
<1>7. CASE \E c \in Call : Expire(c) \/ Permit(c)
  <2> PICK c \in Call : Expire(c) \/ Permit(c)
    BY <1>7
  <2>1. CASE Expire(c)
    BY <2>1, AsideInv DEF Expire, Forget, FetchInv, FetchTypeOK
  <2>2. CASE Permit(c)
    BY <2>2, AsideInv DEF Permit, FetchInv, FetchTypeOK
  <2> QED BY <2>1, <2>2
<1>8. CASE \E s \in Storage : HelmWrites(s)
  BY <1>8, HelmWritesInv
<1>9. CASE UNCHANGED fetchVars
  BY <1>9, AsideInv DEF fetchVars, FetchInv, FetchTypeOK
<1> QED BY <1>1, <1>2, <1>3, <1>4, <1>5, <1>6, <1>7, <1>8, <1>9 DEF FetchNext, FetchStep

\* What the checks and the Helm tab are shown follows from FetchInv.
LEMMA FetchInvProperties ==
    ASSUME FetchAssumption, FetchInv
    PROVE  FetchTypeOK /\ MissingIsReported /\ SecretReleasesAreCurrent
<1>1. FetchTypeOK /\ MissingIsReported
  BY DEF FetchInv, Explained, MissingIsReported, Delivered
<1>2. ASSUME ~balanced, Delivered, rels # Unanswered, print["secrets"] # Unanswered
      PROVE  rels["secrets"] >= base["secrets"]
  <2>1. rels \in Content /\ rels["secrets"] # Unanswered /\ rels["secrets"] >= print["secrets"]
    BY <1>2 DEF Delivered, FetchInv, RelsFit, NotBefore
  <2>2. rels["secrets"] \in Nat /\ print["secrets"] \in Nat /\ base["secrets"] \in Nat
    BY <1>2, <2>1, VersionIsNat DEF FetchInv, FetchTypeOK, Content, Storage
  <2>3. base["secrets"] <= print["secrets"]
    BY <1>2 DEF FetchInv, Printed, Storage
  <2> QED BY <2>1, <2>2, <2>3
<1> QED BY <1>1, <1>2 DEF SecretReleasesAreCurrent

\* In every snapshot delivered, a call of run that did not answer is among
\* the errors (snapshot.go, run and skipDenied).
THEOREM SnapshotsAreHonest ==
    ASSUME FetchAssumption
    PROVE  FetchSpec => [](FetchTypeOK /\ MissingIsReported)
<1>1. FetchInit => FetchInv
  BY FetchInitInv
<1>2. FetchInv /\ [FetchNext]_fetchVars => FetchInv'
  BY FetchNextInv
<1>3. FetchInv => FetchTypeOK /\ MissingIsReported
  BY FetchInvProperties
<1> QED BY <1>1, <1>2, <1>3, PTL DEF FetchSpec

\* From one apiserver's watch cache, Helm releases whose secrets' metadata was
\* listed are no older than what it showed when the fetch began, served from
\* helmCache or not (helm.go, helmReleases).
THEOREM ReleasesAreCurrent ==
    ASSUME FetchAssumption
    PROVE  FetchSpec => []SecretReleasesAreCurrent
<1>1. FetchInit => FetchInv
  BY FetchInitInv
<1>2. FetchInv /\ [FetchNext]_fetchVars => FetchInv'
  BY FetchNextInv
<1>3. FetchInv => SecretReleasesAreCurrent
  BY FetchInvProperties
<1> QED BY <1>1, <1>2, <1>3, PTL DEF FetchSpec

-----------------------------------------------------------------------------
(***************************************************************************)
(* Bootstrap: no other cluster's kubeconfig is touched unless it is named, *)
(* and one that is replaced stays as .bak, over the runs that fail.        *)
(*                                                                         *)
(* The run looks at the files once, at its beginning.  That this is enough *)
(* rests on Listed: until it writes, the list it read is the list of the   *)
(* files that parse, whole or not.                                         *)
(***************************************************************************)
\* The list of files is current until the run writes.
Listed ==
    step \in {"host", "fetch", "ca", "rank", "path", "backup", "rewrite"} =>
        listed = {p \in Path : Parses(p)}

\* What the run knows of the file it is going to write, at each step.
Chosen ==
    /\ step \in {"rank", "path"} /\ dest # NoFile => Parses(dest) /\ file[dest].ca = ca
    /\ step \in {"backup", "create", "fill", "rewrite"} => dest \in Path
    /\ step = "backup" /\ Intact(file, dest) => file[dest].ca = ca \/ dest = out
    /\ step \in {"ca", "rank", "path", "backup", "create", "fill", "rewrite"} => ca \in Clusters
    /\ step = "create" => file[dest] = NoFile
    /\ step = "rewrite" => Intact(file, dest) /\ file[dest].ca = ca /\ file[dest].host = host
    /\ step = "fill" => file[dest] \in File /\ file[dest].text = "empty"

BootInv == BootTypeOK /\ Listed /\ Chosen

\* What a step may do to the files (OthersKept, CopyIsKept).
Kept(p) ==
    /\ Intact(file, p) /\ file'[p] # file[p] =>
         file[p].ca = ca \/ (p = out /\ bak'[p] = file[p])
    /\ Copy(p) # NoFile /\ Copy(p)' # Copy(p) => Intact(file', p) \/ WithoutCopy(p)

LEMMA MinOfNat == ASSUME NEW S \in SUBSET Nat, S # {} PROVE Min(S) \in S
<1>1. PICK x \in S : \A y \in S : <<y, x>> \notin OpToRel(<, Nat)
  BY WFMin, NatLessThanWellFounded, Zenon
<1>2. \A y \in S : ~(y < x)
  BY <1>1, Zenon DEF OpToRel
<1>3. \A y \in S : x <= y
  BY <1>2
<1> QED BY <1>3 DEF Min

\* The end of a run forgets all it knew.
LEMMA EndInv ==
    ASSUME BootstrapAssumption, BootTypeOK, End,
           file' \in [Path -> File \cup {NoFile}], bak' \in [Path -> File \cup {NoFile}],
           runs' = runs, kills' \in 0..MaxKills
    PROVE  BootInv'
<1>1. SSHHost \in Host
  BY DEF BootstrapAssumption
<1>2. BootTypeOK'
  BY <1>1 DEF End, BootTypeOK
<1> QED BY <1>2 DEF End, BootInv, Listed, Chosen

LEMMA BootInitInv == ASSUME BootstrapAssumption, BootInit PROVE BootInv
<1>1. SSHHost \in Host /\ 0 \in 0..MaxRuns /\ 0 \in 0..MaxKills
  BY DEF BootstrapAssumption
<1>2. file \in [Path -> File \cup {NoFile}] /\ bak \in [Path -> File \cup {NoFile}]
  BY DEF BootInit
<1>3. BootTypeOK
  BY <1>1, <1>2 DEF BootInit, BootTypeOK
<1> QED BY <1>3 DEF BootInit, BootInv, Listed, Chosen

\* A step that leaves the files alone.
LEMMA LookInv ==
    ASSUME UNCHANGED <<file, bak>>
    PROVE  \A p \in Path : Kept(p)
BY DEF Kept, Copy, Intact

LEMMA BootBeginInv ==
    ASSUME BootstrapAssumption, BootInv, NEW f \in BOOLEAN, NEW o \in Path \cup {NoFile}, Begin(f, o)
    PROVE  BootInv'
<1>1. BootTypeOK'
  BY DEF Begin, Goto, At, BootInv, BootTypeOK, BootstrapAssumption
<1> QED BY <1>1 DEF Begin, Goto, At, BootInv, Listed, Chosen, Parses

\* A file that is used again connects, so it is whole and of the cluster it says.
LEMMA ReuseInv ==
    ASSUME BootstrapAssumption, BootInv, At("host") \/ At("ca"),
           NEW connect \in Verified, NEW ps, Reuse(ps \cap connect),
           UNCHANGED <<file, bak, runs, kills>>
    PROVE  BootInv'
<1>1. PICK p \in ps \cap connect :
        \/ End
        \/ /\ dest' = p /\ host' = file[p].host /\ ca' = file[p].ca
           /\ Goto("rewrite") /\ UNCHANGED <<fresh, out, listed, stale>>
  BY DEF Reuse
<1>2. p \in Path /\ Intact(file, p) /\ file[p] \in File
  BY DEF Verified, Intact, BootInv, BootTypeOK
<1>3. CASE End
  BY <1>3, EndInv DEF BootInv, BootTypeOK
<1>4. CASE ~End
  <2>1. /\ dest' = p /\ host' = file[p].host /\ ca' = file[p].ca
        /\ Goto("rewrite") /\ UNCHANGED <<fresh, out, listed, stale>>
    BY <1>1, <1>4
  <2>2. host' \in Host /\ ca' \in Clusters
    BY <1>2, <2>1 DEF File
  <2>3. BootTypeOK'
    BY <1>2, <2>1, <2>2 DEF Goto, BootInv, BootTypeOK
  <2>4. Listed'
    BY <2>1 DEF At, Goto, BootInv, Listed, Parses
  <2> QED BY <1>2, <2>1, <2>2, <2>3, <2>4 DEF Goto, BootInv, Chosen, Intact
<1> QED BY <1>3, <1>4

LEMMA ReuseByHostInv ==
    ASSUME BootstrapAssumption, BootInv, ReuseByHost
    PROVE  BootInv'
<1> DEFINE here == {p \in known : file[p].text # "empty" /\ file[p].host = SSHHost}
<1>1. PICK connect \in Verified :
        \/ Reuse(here \cap connect)
        \/ stale' = here /\ Goto("fetch") /\ UNCHANGED <<fresh, out, listed, ca, dest, host>>
  BY DEF ReuseByHost
<1>2. At("host") /\ UNCHANGED <<file, bak, runs, kills>>
  BY DEF ReuseByHost, Keeps
<1>3. CASE Reuse(here \cap connect)
  <2> HIDE DEF here
  <2> QED BY <1>2, <1>3, ReuseInv
<1>4. CASE stale' = here /\ Goto("fetch") /\ UNCHANGED <<fresh, out, listed, ca, dest, host>>
  <2>1. stale' \subseteq Path
    BY <1>4 DEF known, BootInv, BootTypeOK
  <2>2. BootTypeOK'
    BY <1>2, <1>4, <2>1 DEF Goto, BootInv, BootTypeOK
  <2> QED BY <1>2, <1>4, <2>2 DEF At, Goto, BootInv, Listed, Chosen, Parses
<1> QED BY <1>1, <1>3, <1>4

LEMMA FetchSourceInv ==
    ASSUME BootstrapAssumption, BootInv, FetchSource
    PROVE  BootInv'
<1>1. CASE End
  BY <1>1, EndInv DEF FetchSource, Keeps, BootInv, BootTypeOK
<1>2. CASE ~End
  <2>1. /\ Goto("ca") /\ ca' \in Clusters
        /\ UNCHANGED <<fresh, out, listed, stale, dest, host, file, bak, runs, kills>>
    BY <1>2 DEF FetchSource, Keeps
  <2>2. BootTypeOK'
    BY <2>1 DEF Goto, BootInv, BootTypeOK
  <2> QED BY <2>1, <2>2 DEF FetchSource, At, Goto, BootInv, Listed, Chosen, Parses
<1> QED BY <1>1, <1>2

LEMMA ReuseByCAInv ==
    ASSUME BootstrapAssumption, BootInv, ReuseByCA
    PROVE  BootInv'
<1>1. PICK connect \in Verified :
        \/ Reuse((Mine \ stale) \cap connect)
        \/ /\ stale' = stale \cup Mine /\ dest' \in Mine \cup {NoFile}
           /\ Goto("rank") /\ UNCHANGED <<fresh, out, listed, ca, host>>
  BY DEF ReuseByCA
<1>2. At("ca") /\ UNCHANGED <<file, bak, runs, kills>>
  BY DEF ReuseByCA, Keeps
<1>3. Mine \subseteq Path /\ \A p \in Mine : Parses(p) /\ file[p].ca = ca
  <2>1. listed = {p \in Path : Parses(p)}
    BY <1>2 DEF At, BootInv, Listed
  <2> QED BY <2>1 DEF Mine, OfCA, known
<1>4. CASE Reuse((Mine \ stale) \cap connect)
  BY <1>2, <1>4, ReuseInv
<1>5. CASE /\ stale' = stale \cup Mine /\ dest' \in Mine \cup {NoFile}
           /\ Goto("rank") /\ UNCHANGED <<fresh, out, listed, ca, host>>
  <2>1. BootTypeOK'
    BY <1>2, <1>3, <1>5 DEF Goto, BootInv, BootTypeOK
  <2> QED BY <1>2, <1>3, <1>5, <2>1 DEF At, Goto, BootInv, Listed, Chosen, Parses
<1> QED BY <1>1, <1>4, <1>5

LEMMA RankEndpointsInv ==
    ASSUME BootstrapAssumption, BootInv, RankEndpoints
    PROVE  BootInv'
<1>1. /\ host' \in Host /\ Goto("path") /\ At("rank")
      /\ UNCHANGED <<file, bak, fresh, out, listed, stale, ca, dest, runs, kills>>
  BY DEF RankEndpoints, Keeps
<1>2. BootTypeOK'
  BY <1>1 DEF Goto, BootInv, BootTypeOK
<1> QED BY <1>1, <1>2 DEF At, Goto, BootInv, Listed, Chosen, Parses

\* The path that was named, the one of the cluster's own file, or one that is free.
LEMMA ChoosePathInv ==
    ASSUME BootstrapAssumption, BootInv, ChoosePath
    PROVE  BootInv'
<1> DEFINE free == {i \in 1..MaxNumber : <<NameOf[host], i>> \notin Owned}
<1>1. /\ At("path") /\ Goto("backup")
      /\ \/ out # NoFile /\ dest' = out
         \/ dest # NoFile /\ dest' = dest
         \/ free # {} /\ dest' = <<NameOf[host], Min(free)>>
      /\ UNCHANGED <<file, bak, fresh, out, listed, stale, ca, host, runs, kills>>
  BY DEF ChoosePath, Keeps
<1>2. free # {} => Min(free) \in free
  <2>1. free \in SUBSET Nat
    BY DEF BootstrapAssumption
  <2> HIDE DEF free
  <2> QED BY <2>1, MinOfNat
<1>3. dest' \in Path /\ (Intact(file, dest') => file[dest'].ca = ca \/ dest' = out)
  <2>1. CASE out # NoFile /\ dest' = out
    BY <2>1 DEF BootInv, BootTypeOK
  <2>2. CASE dest # NoFile /\ dest' = dest
    BY <1>1, <2>2 DEF At, BootInv, BootTypeOK, Chosen
  <2>3. CASE free # {} /\ dest' = <<NameOf[host], Min(free)>>
    <3>1. host \in Host /\ listed = {p \in Path : Parses(p)}
      BY <1>1 DEF At, BootInv, BootTypeOK, Listed
    <3>2. dest' \in Path /\ dest' \notin Owned
      BY <1>2, <2>3, <3>1 DEF Path
    <3> QED BY <3>1, <3>2 DEF Owned, OfCA, Intact, Parses
  <2> QED BY <1>1, <2>1, <2>2, <2>3
<1>4. BootTypeOK'
  BY <1>1, <1>3 DEF Goto, BootInv, BootTypeOK
<1> HIDE DEF free
<1> QED BY <1>1, <1>3, <1>4 DEF At, Goto, BootInv, Listed, Chosen, Intact, Parses

LEMMA BackupInv ==
    ASSUME BootstrapAssumption, BootInv, Backup
    PROVE  BootInv' /\ \A p \in Path : Kept(p)
<1>1. /\ At("backup") /\ Goto("create") /\ dest \in Path /\ ca \in Clusters
      /\ UNCHANGED <<fresh, out, listed, stale, ca, dest, host, runs, kills>>
  BY DEF Backup, Keeps, At, BootInv, Chosen
<1>2. CASE file[dest] = NoFile
  <2>1. UNCHANGED <<file, bak>>
    BY <1>2 DEF Backup
  <2>2. BootTypeOK'
    BY <1>1, <2>1 DEF Goto, BootInv, BootTypeOK
  <2> QED BY <1>1, <1>2, <2>1, <2>2, LookInv DEF At, Goto, BootInv, Listed, Chosen
<1>3. CASE file[dest] # NoFile
  <2>1. bak' = [bak EXCEPT ![dest] = file[dest]] /\ file' = [file EXCEPT ![dest] = NoFile]
    BY <1>3 DEF Backup
  <2>2. BootTypeOK'
    BY <1>1, <2>1 DEF Goto, BootInv, BootTypeOK
  <2>3. file'[dest] = NoFile /\ bak'[dest] = file[dest]
    BY <1>1, <2>1 DEF BootInv, BootTypeOK
  <2>4. ASSUME NEW p \in Path PROVE Kept(p)
    <3>1. CASE p # dest
      BY <2>1, <3>1 DEF BootInv, BootTypeOK, Kept, Copy, Intact
    <3>2. CASE p = dest /\ Intact(file, dest)
      BY <1>1, <2>3, <3>2 DEF At, BootInv, Chosen, Kept, Copy, Intact
    <3>3. CASE p = dest /\ ~Intact(file, dest)
      BY <1>1, <1>3, <3>3 DEF Kept, WithoutCopy
    <3> QED BY <3>1, <3>2, <3>3
  <2> QED BY <1>1, <2>2, <2>3, <2>4 DEF At, Goto, BootInv, Listed, Chosen
<1> QED BY <1>2, <1>3

LEMMA CreateInv ==
    ASSUME BootstrapAssumption, BootInv, Create
    PROVE  BootInv' /\ \A p \in Path : Kept(p)
<1> DEFINE new == [ca |-> ca, host |-> host, text |-> "empty"]
<1>1. /\ step \in {"create", "rewrite"} /\ Goto("fill") /\ dest \in Path /\ ca \in Clusters
      /\ UNCHANGED <<bak, fresh, out, listed, stale, ca, dest, host, runs, kills>>
      /\ file' = [file EXCEPT ![dest] = new]
  BY DEF Create, Keeps, BootInv, Chosen
<1>2. new \in File
  BY <1>1 DEF File, BootInv, BootTypeOK
<1>3. file' \in [Path -> File \cup {NoFile}]
  BY <1>1, <1>2 DEF BootInv, BootTypeOK
<1>4. BootTypeOK'
  BY <1>1, <1>3 DEF Goto, BootInv, BootTypeOK
<1>5. file'[dest] = new
  BY <1>1 DEF BootInv, BootTypeOK
<1>6. ASSUME NEW p \in Path PROVE Kept(p)
  <2>1. CASE p = dest /\ step = "create"
    <3>1. file[p] = NoFile /\ ~Intact(file', p) /\ bak' = bak
      BY <1>1, <1>5, <2>1 DEF BootInv, Chosen, Intact
    <3> QED BY <3>1 DEF Kept, Copy, Intact
  <2>2. CASE p = dest /\ step = "rewrite"
    BY <2>2 DEF BootInv, Chosen, Kept, WithoutCopy, At
  <2>3. CASE p # dest
    BY <1>1, <2>3 DEF BootInv, BootTypeOK, Kept, Copy, Intact
  <2> QED BY <1>1, <2>1, <2>2, <2>3
<1>7. Chosen' /\ Listed'
  BY <1>1, <1>2, <1>5 DEF Goto, Chosen, Listed
<1> QED BY <1>4, <1>6, <1>7 DEF BootInv

\* The write ends, with all of the text or with some of it.
LEMMA WriteInv ==
    ASSUME BootstrapAssumption, BootInv, At("fill"), End, UNCHANGED <<bak, runs>>, kills' \in 0..MaxKills,
           NEW x \in {"whole", "cut", "empty", "garbage"}, file' = [file EXCEPT ![dest].text = x]
    PROVE  BootInv' /\ \A p \in Path : Kept(p)
<1>1. dest \in Path /\ file[dest] \in File /\ file[dest].text = "empty"
  BY DEF At, BootInv, Chosen
<1>2. [file[dest] EXCEPT !.text = x] \in File
  BY <1>1 DEF File
<1>3. file' \in [Path -> File \cup {NoFile}]
  BY <1>1, <1>2 DEF BootInv, BootTypeOK
<1>4. BootInv'
  BY <1>3, EndInv DEF BootInv, BootTypeOK
<1>5. ASSUME NEW p \in Path PROVE Kept(p)
  <2>1. CASE p = dest
    <3>1. ~Intact(file, p) /\ bak' = bak
      BY <1>1, <2>1 DEF Intact
    <3>2. CASE Intact(file', p)
      BY <3>1, <3>2 DEF Kept
    <3>3. CASE ~Intact(file', p)
      BY <3>1, <3>3 DEF Kept, Copy, Intact
    <3> QED BY <3>2, <3>3
  <2>2. CASE p # dest
    BY <1>1, <2>2 DEF BootInv, BootTypeOK, Kept, Copy, Intact
  <2> QED BY <2>1, <2>2
<1> QED BY <1>4, <1>5

LEMMA FillInv ==
    ASSUME BootstrapAssumption, BootInv, Fill \/ CutShort
    PROVE  BootInv' /\ \A p \in Path : Kept(p)
<1>1. CASE Fill
  BY <1>1, WriteInv DEF Fill, Keeps, BootInv, BootTypeOK
<1>2. CASE CutShort
  <2>1. PICK rest \in {"cut", "empty", "garbage"} : file' = [file EXCEPT ![dest].text = rest]
    BY <1>2 DEF CutShort
  <2>2. kills' \in 0..MaxKills
    BY <1>2 DEF CutShort, BootInv, BootTypeOK, BootstrapAssumption
  <2> QED BY <1>2, <2>1, <2>2, WriteInv DEF CutShort
<1> QED BY <1>1, <1>2

LEMMA KillInv ==
    ASSUME BootstrapAssumption, BootInv, Kill
    PROVE  BootInv' /\ UNCHANGED <<file, bak>>
<1>1. kills' \in 0..MaxKills
  BY DEF Kill, BootInv, BootTypeOK, BootstrapAssumption
<1> QED BY <1>1, EndInv DEF Kill, BootInv, BootTypeOK

LEMMA BootStepInv ==
    ASSUME BootstrapAssumption, BootInv, [BootNext]_bootVars
    PROVE  BootInv' /\ \A p \in Path : Kept(p)
<1>1. CASE \E f \in BOOLEAN, o \in Path \cup {NoFile} : Begin(f, o)
  BY <1>1, BootBeginInv, LookInv DEF Begin
<1>2. CASE ReuseByHost \/ FetchSource \/ ReuseByCA \/ RankEndpoints \/ ChoosePath
  <2>1. UNCHANGED <<file, bak>>
    BY <1>2 DEF ReuseByHost, FetchSource, ReuseByCA, RankEndpoints, ChoosePath, Keeps
  <2> QED BY <1>2, <2>1, LookInv, ReuseByHostInv, FetchSourceInv, ReuseByCAInv, RankEndpointsInv, ChoosePathInv
<1>3. CASE Backup \/ Create \/ Fill \/ CutShort
  BY <1>3, BackupInv, CreateInv, FillInv
<1>4. CASE Kill
  BY <1>4, KillInv, LookInv
<1>5. CASE UNCHANGED bootVars
  <2>1. BootInv'
    BY <1>5 DEF bootVars, BootInv, BootTypeOK, Listed, Chosen, Intact, Parses
  <2> QED BY <1>5, <2>1, LookInv DEF bootVars
<1> QED BY <1>1, <1>2, <1>3, <1>4, <1>5 DEF BootNext

\* A run touches no other cluster's kubeconfig (existingKubeconfigs, the
\* numbering of Run); one --bootstrap-out names is kept as .bak.
THEOREM OthersAreKept ==
    ASSUME BootstrapAssumption
    PROVE  BootSpec => OthersKept
<1>1. BootInit => BootInv
  BY BootInitInv
<1>2. BootInv /\ [BootNext]_bootVars => BootInv'
  BY BootStepInv
<1>3. BootInv /\ [BootNext]_bootVars =>
        \A p \in Path : Intact(file, p) /\ file'[p] # file[p] =>
          file[p].ca = ca \/ (p = out /\ bak'[p] = file[p])
  BY BootStepInv DEF Kept
<1> QED BY <1>1, <1>2, <1>3, PTL DEF BootSpec, OthersKept

\* What a run replaces stays, itself or as .bak, until a successor is whole,
\* over the runs that fail at it (writeFile), but where RememberSSH truncates
\* it or writeFile moves a remnant over it.
THEOREM CopiesAreKept ==
    ASSUME BootstrapAssumption
    PROVE  BootSpec => CopyIsKept
<1>1. BootInit => BootInv
  BY BootInitInv
<1>2. BootInv /\ [BootNext]_bootVars => BootInv'
  BY BootStepInv
<1>3. BootInv /\ [BootNext]_bootVars =>
        \A p \in Path : Copy(p) # NoFile /\ Copy(p)' # Copy(p) => Intact(file', p) \/ WithoutCopy(p)
  BY BootStepInv DEF Kept
<1> QED BY <1>1, <1>2, <1>3, PTL DEF BootSpec, CopyIsKept

-----------------------------------------------------------------------------
(***************************************************************************)
(* Bundle: the manifest says which node's logs are whole.                  *)
(*                                                                         *)
(* The manifest is only true because the two goroutines of a node (Stream  *)
(* and the reader) cannot both end well unless gather.sh did: a good       *)
(* script is read to its end, so its writer never meets a closed pipe;     *)
(* any other leaves one of the two with an error.                          *)
(***************************************************************************)

\* Before the logs are gathered nothing streams, and a target has its entry
\* once its node probe has ended.
Probed ==
    /\ stage \in {"fetch", "probe"} =>
         \A n \in Members : /\ stream[n] = "off" /\ unpack[n] = "off" /\ sent[n] = 0
                          /\ logs[n] \in {NoEntry, "not collected"}
    /\ stage = "probe" =>
         \A n \in targets : \/ <<n, "node">> \in probing
                            \/ status[<<n, "node">>] # NoEntry /\ logs[n] = "not collected"
    /\ stage \notin {"fetch", "probe"} => probing = {}

\* What the two goroutines of a node may have come to.
Paired(n) ==
    /\ stream[n] # "off" /\ unpack[n] # "off"
    /\ script[n] = "good" =>
         /\ stream[n] # "error" /\ unpack[n] # "error"
         /\ sent[n] >= 2 => unpack[n] # "reading"
         /\ stream[n] = "open" => unpack[n] # "ok"
         /\ stream[n] = "ok" => sent[n] = Parts
    /\ script[n] \in {"nothing", "garbage"} => unpack[n] \in {"reading", "error"}
    /\ script[n] = "breaks" => stream[n] # "ok"

\* The entry is made once, from how both have ended.
Recorded(n) ==
    /\ logs[n] \in {"not collected", "ok", "error"}
    /\ logs[n] = "ok" => stream[n] = "ok" /\ unpack[n] = "ok"
    /\ logs[n] = "error" => stream[n] = "error" \/ unpack[n] = "error"

Gathered ==
    stage \in {"collect", "pack", "done"} =>
        /\ \A n \in targets : /\ status[<<n, "node">>] # NoEntry
                              /\ n \notin gathers => logs[n] = "not collected"
        /\ \A n \in Members : IF n \in gathers THEN Paired(n) /\ Recorded(n) ELSE stream[n] = "off"

\* Nothing is gathered before.
Early == stage \in {"fetch", "probe"} => gathers = {}

Packed == stage \in {"pack", "done"} => \A n \in gathers : logs[n] \in {"ok", "error"}

BundleInv == BundleTypeOK /\ Early /\ Probed /\ Gathered /\ Packed

LEMMA BundleInitInv == ASSUME BundleInit PROVE BundleInv
<1>1. /\ status \in [Members \X Kind -> {NoEntry, "ok", "error"}]
      /\ script \in [Members -> Script] /\ sent \in [Members -> 0..Parts]
      /\ logs \in [Members -> {NoEntry, "not collected", "ok", "error"}]
  BY DEF BundleInit, Script, Parts
<1>2. /\ stream \in [Members -> {"off", "open", "ok", "error"}]
      /\ unpack \in [Members -> {"off", "reading", "draining", "ok", "error"}]
  BY DEF BundleInit
<1>3. BundleTypeOK
  BY <1>1, <1>2 DEF BundleInit, BundleTypeOK
<1>4. Early /\ Probed /\ Gathered /\ Packed
  BY DEF BundleInit, Early, Probed, Gathered, Packed
<1> QED BY <1>3, <1>4 DEF BundleInv

LEMMA Honest == BundleInv => ManifestIsHonest
<1> SUFFICES ASSUME BundleInv, stage \in {"pack", "done"}, NEW n \in targets
             PROVE  /\ status[<<n, "node">>] # NoEntry
                    /\ (logs[n] = "ok") <=> (n \in gathers /\ script[n] = "good")
                    /\ (logs[n] = "not collected") <=> (n \notin gathers)
  BY DEF ManifestIsHonest
<1>1. CASE n \notin gathers
  BY <1>1 DEF BundleInv, Gathered
<1>2. CASE n \in gathers
  <2>1. Paired(n) /\ Recorded(n) /\ status[<<n, "node">>] # NoEntry /\ logs[n] \in {"ok", "error"}
    BY <1>2 DEF BundleInv, BundleTypeOK, Gathered, Packed
  <2>2. script[n] \in Script
    BY <1>2 DEF BundleInv, BundleTypeOK
  <2> QED BY <1>2, <2>1, <2>2 DEF Paired, Recorded, Script
<1> QED BY <1>1, <1>2

\* One step of the pipe of node n that keeps the pair, and the entry true.
LEMMA PipeInv ==
    ASSUME BundleInv, NEW n \in Members, NEW s \in 0..Parts,
           NEW st \in {"open", "ok", "error"}, NEW u \in {"off", "reading", "draining", "ok", "error"},
           Pipe(n, s, st, u), stream[n] # "off",
           ASSUME Paired(n), Recorded(n), script[n] \in Script, sent[n] \in 0..Parts,
                  script'[n] = script[n], logs'[n] = logs[n],
                  sent'[n] = s, stream'[n] = st, unpack'[n] = u
           PROVE  Paired(n)' /\ Recorded(n)'
    PROVE  BundleInv'
<1>1. /\ UNCHANGED <<stage, reached, targets, gathers, probing, status, script, logs, dump, bundle>>
      /\ sent' = [sent EXCEPT ![n] = s] /\ stream' = [stream EXCEPT ![n] = st]
      /\ unpack' = [unpack EXCEPT ![n] = u]
  BY DEF Pipe
<1>2. BundleTypeOK'
  <2>1. /\ sent' \in [Members -> 0..Parts]
        /\ stream' \in [Members -> {"off", "open", "ok", "error"}]
        /\ unpack' \in [Members -> {"off", "reading", "draining", "ok", "error"}]
    BY <1>1 DEF BundleInv, BundleTypeOK
  <2> QED BY <1>1, <2>1 DEF BundleInv, BundleTypeOK
<1>3. stage \notin {"fetch", "probe"}
  BY DEF BundleInv, Probed
<1>4. Early' /\ Probed' /\ Packed'
  BY <1>1, <1>3 DEF BundleInv, Early, Probed, Packed
<1>5. Gathered'
  <2> SUFFICES ASSUME stage \in {"collect", "pack", "done"}, NEW m \in Members
               PROVE  IF m \in gathers THEN Paired(m)' /\ Recorded(m)' ELSE stream'[m] = "off"
    BY <1>1 DEF BundleInv, Gathered
  <2>1. CASE m # n
    <3>1. stream'[m] = stream[m] /\ unpack'[m] = unpack[m] /\ sent'[m] = sent[m]
      BY <1>1, <2>1 DEF BundleInv, BundleTypeOK
    <3> QED BY <1>1, <3>1 DEF BundleInv, Gathered, Paired, Recorded
  <2>2. CASE m = n
    <3>1. n \in gathers /\ Paired(n) /\ Recorded(n)
      BY DEF BundleInv, Gathered
    <3>2. script[n] \in Script /\ sent[n] \in 0..Parts
      BY DEF BundleInv, BundleTypeOK
    <3>3. sent'[n] = s /\ stream'[n] = st /\ unpack'[n] = u /\ script' = script /\ logs' = logs
      BY <1>1 DEF BundleInv, BundleTypeOK
    <3>4. Paired(n)' /\ Recorded(n)'
      BY <3>1, <3>2, <3>3
    <3> QED BY <2>2, <1>1, <3>1, <3>4
  <2> QED BY <2>1, <2>2
<1> QED BY <1>2, <1>4, <1>5 DEF BundleInv

LEMMA BundleNextInv == ASSUME BundleAssumption, BundleInv, [BundleNext]_bundleVars PROVE BundleInv'
<1>1. CASE FetchTargets
  <2>1. PICK api \in BOOLEAN, only \in {Members, Involved} :
           /\ stage = "fetch" /\ stage' = "probe" /\ reached' = api
           /\ targets' = only \cap (IF api THEN Members ELSE SSHHosts)
           /\ probing' = {p \in targets' \X Kind : p[2] = "etcd" => (~api \/ p[1] \in EtcdMembers)}
           /\ UNCHANGED <<gathers, status, script, sent, stream, unpack, logs, dump, bundle>>
    BY <1>1 DEF FetchTargets
  <2>2. targets' \subseteq Members
    BY <2>1 DEF BundleAssumption
  <2>3. probing' \subseteq Members \X Kind /\ \A n \in targets' : <<n, "node">> \in probing'
    BY <2>1, <2>2 DEF Kind
  <2>4. gathers = {}
    BY <2>1 DEF BundleInv, Early
  <2>5. BundleTypeOK'
    BY <2>1, <2>2, <2>3, <2>4 DEF BundleInv, BundleTypeOK
  <2>6. Early' /\ Probed' /\ Gathered' /\ Packed'
    BY <2>1, <2>3 DEF BundleInv, Early, Probed, Gathered, Packed
  <2> QED BY <2>5, <2>6 DEF BundleInv
<1>2. ASSUME NEW p \in Members \X Kind, NEW ok \in BOOLEAN, Raw(p, ok) PROVE BundleInv'
  <2>1. stage \in {"fetch", "probe"}
    BY <1>2 DEF Raw, BundleInv, BundleTypeOK, Probed
  <2>2. p[1] \in Members /\ p = <<p[1], p[2]>>
    OBVIOUS
  <2>3. BundleTypeOK'
    BY <1>2, <2>2 DEF Raw, BundleInv, BundleTypeOK
  <2>4. \A n \in Members : logs'[n] = IF n = p[1] THEN "not collected" ELSE logs[n]
    BY <1>2, <2>2 DEF Raw, BundleInv, BundleTypeOK
  <2>5. \A n \in Members : status'[<<n, "node">>] =
                            IF p = <<n, "node">> THEN (IF ok THEN "ok" ELSE "error") ELSE status[<<n, "node">>]
    BY <1>2 DEF Raw, BundleInv, BundleTypeOK, Kind
  <2>6. NoEntry \notin {"ok", "error"}
    BY DEF BundleAssumption
  <2>7. Probed'
    <3>1. \A n \in targets : <<n, "node">> \in probing' \/ <<n, "node">> = p \/ <<n, "node">> \notin probing
      BY <1>2 DEF Raw
    <3>2. UNCHANGED <<stage, targets, stream, unpack, sent>> /\ targets \subseteq Members
      BY <1>2 DEF Raw, BundleInv, BundleTypeOK
    <3>3. \A n \in Members : /\ stream'[n] = "off" /\ unpack'[n] = "off" /\ sent'[n] = 0
                           /\ logs'[n] \in {NoEntry, "not collected"}
      BY <2>1, <2>4, <3>2 DEF BundleInv, Probed
    <3>4. ASSUME stage = "probe", NEW n \in targets
          PROVE  <<n, "node">> \in probing' \/ (status'[<<n, "node">>] # NoEntry /\ logs'[n] = "not collected")
      <4>1. CASE <<n, "node">> = p
        BY <2>4, <2>5, <2>6, <3>2, <4>1
      <4>2. CASE <<n, "node">> # p
        BY <2>4, <2>5, <3>1, <3>2, <3>4, <4>2 DEF BundleInv, Probed
      <4> QED BY <4>1, <4>2
    <3> QED BY <2>1, <3>2, <3>3, <3>4 DEF Probed
  <2>8. Early' /\ Gathered' /\ Packed'
    BY <1>2, <2>1 DEF Raw, BundleInv, Early, Gathered, Packed
  <2> QED BY <2>3, <2>7, <2>8 DEF BundleInv
<1>3. ASSUME NEW w \in BOOLEAN, Collect(w) PROVE BundleInv'
  <2>1. CASE stage' = "failed"
    <3>1. /\ UNCHANGED <<probing, targets, gathers, script, stream, unpack, dump>>
          /\ UNCHANGED <<reached, status, sent, logs, bundle>>
      <4>1. ~(stage' = "collect")
        BY <2>1
      <4> QED BY <1>3, <4>1 DEF Collect
    <3>2. stage = "probe" /\ probing = {}
      BY <1>3 DEF Collect
    <3>3. BundleTypeOK'
      BY <2>1, <3>1 DEF BundleInv, BundleTypeOK
    <3>4. Early' /\ Probed' /\ Gathered' /\ Packed'
      BY <2>1, <3>1, <3>2 DEF Early, Probed, Gathered, Packed
    <3> QED BY <3>3, <3>4 DEF BundleInv
  <2>2. CASE stage' # "failed"
    <3>1. /\ stage' = "collect" /\ stage = "probe" /\ probing = {} /\ probing' = {}
          /\ gathers' \in {targets, targets \cap Involved}
          /\ dump' = reached
          /\ script' \in [Members -> Script]
          /\ stream' = [n \in Members |-> IF n \in gathers' THEN "open" ELSE "off"]
          /\ unpack' = [n \in Members |-> IF n \in gathers' THEN "reading" ELSE "off"]
          /\ UNCHANGED <<reached, targets, status, sent, logs, bundle>>
      BY <1>3, <2>2 DEF Collect
    <3>2. gathers' \subseteq targets
      BY <3>1
    <3>3. BundleTypeOK'
      BY <3>1, <3>2 DEF BundleInv, BundleTypeOK
    <3>4. \A n \in targets : status[<<n, "node">>] # NoEntry /\ logs[n] = "not collected"
      BY <3>1 DEF BundleInv, Probed
    <3>5. ASSUME NEW n \in Members
          PROVE  IF n \in gathers' THEN Paired(n)' /\ Recorded(n)' ELSE stream'[n] = "off"
      <4>1. sent'[n] = 0
        BY <3>1 DEF BundleInv, Probed
      <4>2. CASE n \in gathers'
        <5>1. stream'[n] = "open" /\ unpack'[n] = "reading" /\ logs'[n] = "not collected"
          BY <3>1, <3>2, <3>4, <4>2
        <5>2. Paired(n)'
          <6>1. ~(sent'[n] >= 2)
            BY <4>1
          <6> QED BY <5>1, <6>1 DEF Paired
        <5>3. Recorded(n)'
          BY <5>1 DEF Recorded
        <5> QED BY <4>2, <5>2, <5>3
      <4>3. CASE n \notin gathers'
        <5>1. stream'[n] = "off"
          BY <3>1, <4>3
        <5> QED BY <4>3, <5>1
      <4> QED BY <4>2, <4>3
    <3>6. Early' /\ Probed' /\ Gathered' /\ Packed'
      BY <3>1, <3>4, <3>5 DEF Early, Probed, Gathered, Packed
    <3> QED BY <3>3, <3>6 DEF BundleInv
  <2> QED BY <2>1, <2>2
<1>4. ASSUME NEW n \in Members, Write(n) PROVE BundleInv'
  <2>1. /\ stream[n] # "off" /\ sent[n] < Parts /\ unpack[n] \in {"reading", "draining"}
        /\ sent[n] \in 0..Parts /\ stream[n] \in {"off", "open", "ok", "error"}
        /\ unpack[n] \in {"off", "reading", "draining", "ok", "error"}
    BY <1>4 DEF Write, BundleInv, BundleTypeOK
  <2>2. PICK s \in 0..Parts : s = sent[n] + 1
    BY <1>4, <2>1 DEF Write, Parts
  <2>3. PICK st \in {"open", "ok", "error"} : st = "open"
    BY <1>4, <2>1 DEF Write
  <2>4. PICK u \in {"off", "reading", "draining", "ok", "error"} : u = (IF unpack[n] = "draining" \/ sent[n] = 0 THEN unpack[n]
                       ELSE IF script[n] = "garbage" THEN "error" ELSE "draining")
    BY <1>4, <2>1 DEF Write
  <2>5. Pipe(n, s, st, u)
    BY <1>4, <2>2, <2>3, <2>4 DEF Write
  <2>6. ASSUME Paired(n), Recorded(n), script[n] \in Script, sent[n] \in 0..Parts,
               script'[n] = script[n], logs'[n] = logs[n],
               sent'[n] = s, stream'[n] = st, unpack'[n] = u
        PROVE  Paired(n)' /\ Recorded(n)'
    <3>1. Recorded(n)'
      BY <1>4, <2>1, <2>3, <2>4, <2>6 DEF Write, Recorded
    <3>2. CASE script[n] = "good"
      BY <1>4, <2>1, <2>2, <2>3, <2>4, <2>6, <3>1, <3>2 DEF Write, Paired, Parts
    <3>3. CASE script[n] # "good"
      BY <1>4, <2>1, <2>2, <2>3, <2>4, <2>6, <3>1, <3>3 DEF Write, Paired, Script
    <3> QED BY <3>2, <3>3
  <2> QED BY <2>1, <2>5, <2>6, PipeInv
<1>5. ASSUME NEW n \in Members, WriteFails(n) PROVE BundleInv'
  <2>1. /\ stream[n] # "off"
        /\ sent[n] \in 0..Parts /\ stream[n] \in {"off", "open", "ok", "error"}
        /\ unpack[n] \in {"off", "reading", "draining", "ok", "error"}
    BY <1>5 DEF WriteFails, BundleInv, BundleTypeOK
  <2>2. PICK s \in 0..Parts : s = sent[n]
    BY <1>5, <2>1 DEF WriteFails, Parts
  <2>3. PICK st \in {"open", "ok", "error"} : st = "error"
    BY <1>5, <2>1 DEF WriteFails
  <2>4. PICK u \in {"off", "reading", "draining", "ok", "error"} : u = unpack[n]
    BY <1>5, <2>1 DEF WriteFails
  <2>5. Pipe(n, s, st, u)
    BY <1>5, <2>2, <2>3, <2>4 DEF WriteFails
  <2>6. ASSUME Paired(n), Recorded(n), script[n] \in Script, sent[n] \in 0..Parts,
               script'[n] = script[n], logs'[n] = logs[n],
               sent'[n] = s, stream'[n] = st, unpack'[n] = u
        PROVE  Paired(n)' /\ Recorded(n)'
    BY <1>5, <2>1, <2>2, <2>3, <2>4, <2>6 DEF WriteFails, Paired, Recorded, Parts, Script
  <2> QED BY <2>1, <2>5, <2>6, PipeInv
<1>6. ASSUME NEW n \in Members, StreamEnds(n) PROVE BundleInv'
  <2>1. /\ stream[n] # "off"
        /\ sent[n] \in 0..Parts /\ stream[n] \in {"off", "open", "ok", "error"}
        /\ unpack[n] \in {"off", "reading", "draining", "ok", "error"}
    BY <1>6 DEF StreamEnds, BundleInv, BundleTypeOK
  <2>2. PICK s \in 0..Parts : s = sent[n]
    BY <1>6, <2>1 DEF StreamEnds, Parts
  <2>3. PICK st \in {"open", "ok", "error"} : st = "ok"
    BY <1>6, <2>1 DEF StreamEnds
  <2>4. PICK u \in {"off", "reading", "draining", "ok", "error"} : u = unpack[n]
    BY <1>6, <2>1 DEF StreamEnds
  <2>5. Pipe(n, s, st, u)
    BY <1>6, <2>2, <2>3, <2>4 DEF StreamEnds
  <2>6. ASSUME Paired(n), Recorded(n), script[n] \in Script, sent[n] \in 0..Parts,
               script'[n] = script[n], logs'[n] = logs[n],
               sent'[n] = s, stream'[n] = st, unpack'[n] = u
        PROVE  Paired(n)' /\ Recorded(n)'
    BY <1>6, <2>1, <2>2, <2>3, <2>4, <2>6 DEF StreamEnds, Paired, Recorded, Parts, Script
  <2> QED BY <2>1, <2>5, <2>6, PipeInv
<1>7. ASSUME NEW n \in Members, StreamBreaks(n) PROVE BundleInv'
  <2>1. /\ stream[n] # "off"
        /\ sent[n] \in 0..Parts /\ stream[n] \in {"off", "open", "ok", "error"}
        /\ unpack[n] \in {"off", "reading", "draining", "ok", "error"}
    BY <1>7 DEF StreamBreaks, BundleInv, BundleTypeOK
  <2>2. PICK s \in 0..Parts : s = sent[n]
    BY <1>7, <2>1 DEF StreamBreaks, Parts
  <2>3. PICK st \in {"open", "ok", "error"} : st = "error"
    BY <1>7, <2>1 DEF StreamBreaks
  <2>4. PICK u \in {"off", "reading", "draining", "ok", "error"} : u = unpack[n]
    BY <1>7, <2>1 DEF StreamBreaks
  <2>5. Pipe(n, s, st, u)
    BY <1>7, <2>2, <2>3, <2>4 DEF StreamBreaks
  <2>6. ASSUME Paired(n), Recorded(n), script[n] \in Script, sent[n] \in 0..Parts,
               script'[n] = script[n], logs'[n] = logs[n],
               sent'[n] = s, stream'[n] = st, unpack'[n] = u
        PROVE  Paired(n)' /\ Recorded(n)'
    BY <1>7, <2>1, <2>2, <2>3, <2>4, <2>6 DEF StreamBreaks, Paired, Recorded, Parts, Script
  <2> QED BY <2>1, <2>5, <2>6, PipeInv
<1>8. ASSUME NEW n \in Members, ReaderEnds(n) PROVE BundleInv'
  <2>1. /\ stream[n] # "off"
        /\ sent[n] \in 0..Parts /\ stream[n] \in {"off", "open", "ok", "error"}
        /\ unpack[n] \in {"off", "reading", "draining", "ok", "error"}
    BY <1>8 DEF ReaderEnds, BundleInv, BundleTypeOK
  <2>2. PICK s \in 0..Parts : s = sent[n]
    BY <1>8, <2>1 DEF ReaderEnds, Parts
  <2>3. PICK st \in {"open", "ok", "error"} : st = stream[n]
    BY <1>8, <2>1 DEF ReaderEnds
  <2>4. PICK u \in {"off", "reading", "draining", "ok", "error"} : u = (IF unpack[n] = "draining" THEN "ok" ELSE "error")
    BY <1>8, <2>1 DEF ReaderEnds
  <2>5. Pipe(n, s, st, u)
    BY <1>8, <2>2, <2>3, <2>4 DEF ReaderEnds
  <2>6. ASSUME Paired(n), Recorded(n), script[n] \in Script, sent[n] \in 0..Parts,
               script'[n] = script[n], logs'[n] = logs[n],
               sent'[n] = s, stream'[n] = st, unpack'[n] = u
        PROVE  Paired(n)' /\ Recorded(n)'
    <3>1. Recorded(n)'
      BY <1>8, <2>1, <2>3, <2>4, <2>6 DEF ReaderEnds, Recorded
    <3>2. CASE script[n] = "good"
      BY <1>8, <2>1, <2>2, <2>3, <2>4, <2>6, <3>1, <3>2 DEF ReaderEnds, Paired, Parts
    <3>3. CASE script[n] # "good"
      BY <1>8, <2>1, <2>2, <2>3, <2>4, <2>6, <3>1, <3>3 DEF ReaderEnds, Paired, Script
    <3> QED BY <3>2, <3>3
  <2> QED BY <2>1, <2>5, <2>6, PipeInv
<1>9. ASSUME NEW n \in Members, Record(n) PROVE BundleInv'
  <2>1. \A m \in Members : logs'[m] = IF m # n THEN logs[m]
                                     ELSE IF stream[n] = "ok" /\ unpack[n] = "ok" THEN "ok" ELSE "error"
    BY <1>9 DEF Record, BundleInv, BundleTypeOK
  <2>2. BundleTypeOK'
    BY <1>9 DEF Record, BundleInv, BundleTypeOK
  <2>3. stage \notin {"fetch", "probe"}
    BY <1>9 DEF Record, BundleInv, Probed
  <2>4. Early' /\ Probed' /\ Packed'
    BY <1>9, <2>1, <2>3 DEF Record, BundleInv, BundleTypeOK, Early, Probed, Packed
  <2>5. Gathered'
    <3>1. /\ UNCHANGED <<stage, targets, gathers, status, script, sent, stream, unpack>>
          /\ stream[n] \in {"ok", "error"} /\ unpack[n] \in {"ok", "error"}
          /\ Gathered /\ targets \subseteq Members
      BY <1>9 DEF Record, BundleInv, BundleTypeOK
    <3>2. stage \in {"collect", "pack", "done"} => n \in gathers
      BY <3>1 DEF Gathered
    <3>3. \A m \in Members : Paired(m)' <=> Paired(m)
      BY <3>1 DEF Paired
    <3>4. \A m \in Members : Recorded(m) => Recorded(m)'
      BY <2>1, <3>1 DEF Recorded
    <3>5. Recorded(n)'
      BY <2>1, <3>1 DEF Recorded
    <3> QED BY <2>1, <3>1, <3>2, <3>3, <3>4, <3>5 DEF Gathered
  <2> QED BY <2>2, <2>4, <2>5 DEF BundleInv
<1>10. CASE DumpEnds \/ OpenOut \/ Pack \/ UNCHANGED bundleVars
  <2>1. UNCHANGED <<reached, targets, gathers, probing, status, script, sent, stream, unpack, logs>>
    BY <1>10 DEF DumpEnds, OpenOut, Pack, bundleVars
  <2>2. \/ stage' = stage
        \/ stage = "collect" /\ stage' = "pack" /\ \A n \in gathers : logs[n] \in {"ok", "error"}
        \/ stage = "pack" /\ stage' \in {"done", "failed"}
    BY <1>10 DEF DumpEnds, OpenOut, Pack, bundleVars
  <2>3. dump' \in BOOLEAN /\ bundle' \in {"none", "part", "whole"}
    BY <1>10 DEF DumpEnds, OpenOut, Pack, bundleVars, BundleInv, BundleTypeOK
  <2>4. stage' \in {"fetch", "probe", "collect", "pack", "done", "failed"}
    BY <2>2 DEF BundleInv, BundleTypeOK
  <2>5. BundleTypeOK'
    BY <2>1, <2>3, <2>4 DEF BundleInv, BundleTypeOK
  <2>6. Early' /\ Probed' /\ Gathered' /\ Packed'
    BY <2>1, <2>2 DEF BundleInv, Early, Probed, Gathered, Packed, Paired, Recorded
  <2> QED BY <2>5, <2>6 DEF BundleInv
<1> QED BY <1>1, <1>2, <1>3, <1>4, <1>5, <1>6, <1>7, <1>8, <1>9, <1>10 DEF BundleNext

\* The manifest has an entry for every node that was probed, and "ok" for
\* exactly the logs that are whole (gather.Run, collectNode, Raw).
THEOREM ManifestCorrect ==
    ASSUME BundleAssumption
    PROVE  BundleSpec => [](BundleTypeOK /\ ManifestIsHonest)
<1>1. BundleInv => BundleTypeOK /\ ManifestIsHonest
  BY Honest DEF BundleInv
<1>2. BundleInit => BundleInv
  BY BundleInitInv
<1>3. BundleInv /\ [BundleNext]_bundleVars => BundleInv'
  BY BundleNextInv
<1> QED BY <1>1, <1>2, <1>3, PTL DEF BundleSpec

-----------------------------------------------------------------------------
(* The composition *)

\* Each machine of Khealth does its own steps or stands still.
LEMMA Apart == Spec => TierSpec /\ FetchSpec /\ BootSpec /\ BundleSpec
<1>1. Init => TierInit /\ FetchInit /\ BootInit /\ BundleInit
  BY DEF Init
<1>2. [Next]_vars => [TierNext]_tierVars /\ [FetchNext]_fetchVars /\ [BootNext]_bootVars /\ [BundleNext]_bundleVars
  <2> USE DEF vars, tierVars, fetchVars, bootVars, bundleVars
  <2>1. TuiStep => [TierNext]_tierVars /\ [FetchNext]_fetchVars /\ [BootNext]_bootVars /\ [BundleNext]_bundleVars
    BY DEF TuiStep
  <2>2. ApiStep => [TierNext]_tierVars /\ [FetchNext]_fetchVars /\ [BootNext]_bootVars /\ [BundleNext]_bundleVars
    BY DEF ApiStep
  <2>3. BootStep => [TierNext]_tierVars /\ [FetchNext]_fetchVars /\ [BootNext]_bootVars /\ [BundleNext]_bundleVars
    BY DEF BootStep
  <2>4. GatherStep => [TierNext]_tierVars /\ [FetchNext]_fetchVars /\ [BootNext]_bootVars /\ [BundleNext]_bundleVars
    BY DEF GatherStep
  <2> QED BY <2>1, <2>2, <2>3, <2>4 DEF Next
<1> QED BY <1>1, <1>2, PTL DEF Spec, TierSpec, FetchSpec, BootSpec, BundleSpec

\* What is checked of the composition holds of it whatever the constants of its
\* machines are (main.go: a gather, a bootstrap and the TUI share no state).
THEOREM MachinesAreSafe ==
    Spec => /\ [](ShownOrScheduled /\ MissingIsReported /\ SecretReleasesAreCurrent /\ ManifestIsHonest)
            /\ AgesAreHonest /\ OthersKept /\ CopyIsKept
<1>1. TiersAssumption /\ FetchAssumption /\ BootstrapAssumption /\ BundleAssumption
  BY KhealthAssumption
<1> QED BY <1>1, Apart, NothingStaysUnseen, AgesAreKept, SnapshotsAreHonest, ReleasesAreCurrent,
           OthersAreKept, CopiesAreKept, ManifestCorrect, PTL
=============================================================================
