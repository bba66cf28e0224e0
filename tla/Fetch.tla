-------------------------------- MODULE Fetch --------------------------------
(***************************************************************************)
(* One API client over its snapshots (internal/k8s/snapshot.go Fetch, the  *)
(* refused calls and the Helm release cache of client.go and helm.go).     *)
(*                                                                         *)
(* A fetch starts one call per list, concurrently; a call the token was    *)
(* refused is remembered and left out until denied_ttl has passed or R     *)
(* forgets it.  When all calls have ended, the release payloads are read   *)
(* again only if the metadata lists show another set of release secrets    *)
(* and configmaps than the ones they were cached for.  Contents are        *)
(* versions.  A list is answered from the watch cache of the apiserver     *)
(* behind the address (resourceVersion=0), which may lag behind etcd but,  *)
(* for one apiserver, never goes back; the metadata and the payloads of a  *)
(* storage come from the same cache.  Behind a balanced address each       *)
(* answer is that of any apiserver, at any lag.  The kubelet proxies, the  *)
(* discovery cache and Longhorn's carried-over engines are left out; one   *)
(* fetch runs at a time (RefreshChain), each cluster has its own client.   *)
(***************************************************************************)
EXTENDS Naturals, FiniteSets

CONSTANTS
    Required,   \* calls started with run: their failure is reported
    Optional,   \* calls started with optional: their absence is not an error
    Shifting,   \* the calls the apiserver may refuse, and not refuse again
    MaxVersion, \* bound on the changes of each release storage
    Unanswered  \* no cache, no answer

Storage == {"secrets", "configmaps"}
\* The optional call that lists a storage's metadata.
Meta == [s \in Storage |-> IF s = "secrets" THEN "secrets-metadata" ELSE "configmaps-metadata"]
Releases == "helm-releases"
Call == Required \cup Optional \cup {Releases}

FetchAssumption == /\ Required \cap Optional = {} /\ Releases \notin Required \cup Optional
                   /\ {Meta[s] : s \in Storage} \subseteq Optional /\ Shifting \subseteq Call
                   /\ MaxVersion \in [Storage -> Nat] /\ Unanswered \notin Nat

VARIABLES
    may,     \* the calls the apiserver serves (others: 403, or 404 of an optional one)
    balanced,\* the address is that of several apiservers
    stored,  \* version of each release storage, in the most recent watch cache
    denied,  \* Client.denied: the calls it remembers, until denied_ttl has passed
    phase,   \* where the fetch is: "lists", "secrets", "configmaps", "done" (delivered, or none yet)
    open,    \* calls that have not ended
    got,     \* calls that answered in this fetch
    errors,  \* Snapshot.Errors, by call
    base,    \* stored when this fetch began (what the checks compare with)
    print,   \* helmFPs: the versions the metadata lists showed
    rels,    \* Snapshot.HelmReleases, while they are read and after
    helmFP,  \* Client.helmFP: the versions the cache is for
    helmCache \* Client.helmCache

fetchVars == <<may, balanced, stored, denied, phase, open, got, errors, base, print, rels, helmFP, helmCache>>

Version == UNION {0..MaxVersion[s] : s \in Storage}
\* Unanswered: the storage's list did not answer.
Content == [Storage -> Version \cup {Unanswered}]
Nothing == [s \in Storage |-> Unanswered]

FetchTypeOK ==
    /\ may \subseteq Call /\ balanced \in BOOLEAN
    /\ stored \in [Storage -> Version] /\ base \in [Storage -> Version]
    /\ denied \subseteq Call /\ open \subseteq Call /\ got \subseteq Call /\ errors \subseteq Call
    /\ phase \in {"lists", "secrets", "configmaps", "done"}
    /\ print \in Content /\ helmFP \in Content
    /\ rels \in Content \cup {Unanswered} /\ helmCache \in Content \cup {Unanswered}

FetchInit ==
    /\ may = Call /\ balanced \in BOOLEAN
    /\ stored = [s \in Storage |-> 0] /\ base = stored
    /\ denied = {} /\ phase = "done" /\ open = {} /\ got = {} /\ errors = Required
    /\ print = Nothing /\ rels = Unanswered /\ helmFP = Nothing /\ helmCache = Unanswered

\* The versions a list of s may answer with (listOpts): that of the one watch
\* cache, or of any.
Reads(s) == IF balanced THEN 0..stored[s] ELSE {stored[s]}

-----------------------------------------------------------------------------
(* Refused calls                                                           *)

\* NoteDenied of a call that answered with the error the apiserver has for it.
NoteDenied(c) == denied \cup ({c} \ may)

\* Entries of Client.denied go.
Forget(cs) ==
    /\ denied' = denied \ cs
    /\ UNCHANGED <<may, balanced, stored, phase, open, got, errors, base, print, rels, helmFP, helmCache>>

\* denied_ttl passes.
Expire(c) == c \in denied /\ Forget({c})

\* R forgets every refusal, in the middle of a fetch too.
ResetDenied == denied # {} /\ Forget(denied)

-----------------------------------------------------------------------------
(* One fetch                                                               *)

\* Mutant of BeginFetch: a refused call is skipped without a word.
BeginFetchSilently ==
    /\ phase = "done"
    /\ phase' = "lists"
    /\ open' = (Required \cup Optional) \ denied
    /\ errors' = {}
    /\ got' = {} /\ print' = Nothing /\ rels' = Unanswered /\ base' = stored
    /\ UNCHANGED <<may, balanced, stored, denied, helmFP, helmCache>>

\* Mutant of BeginFetch: the calls refused before are those of every fetch to come.
BeginFetchWithout ==
    /\ phase = "done"
    /\ phase' = "lists"
    /\ open' = (Required \cup Optional) \ (denied \cup errors)
    /\ errors' = Required \cap (denied \cup errors)
    /\ got' = {} /\ print' = Nothing /\ rels' = Unanswered /\ base' = stored
    /\ UNCHANGED <<may, balanced, stored, denied, helmFP, helmCache>>

\* The calls of run and of optional are started, but those refused before.
BeginFetch ==
    /\ phase = "done"
    /\ phase' = "lists"
    /\ open' = (Required \cup Optional) \ denied
    /\ errors' = Required \cap denied
    /\ got' = {} /\ print' = Nothing /\ rels' = Unanswered /\ base' = stored
    /\ UNCHANGED <<may, balanced, stored, denied, helmFP, helmCache>>

Answers(c) ==
    /\ c \in open \cap may
    /\ open' = open \ {c} /\ got' = got \cup {c}
    /\ \E v \in Version : /\ \A s \in Storage : c = Meta[s] => v \in Reads(s)
                         /\ print' = [s \in Storage |-> IF c = Meta[s] THEN v ELSE print[s]]
    /\ UNCHANGED <<may, balanced, stored, denied, phase, errors, base, rels, helmFP, helmCache>>

\* The call fails: refused or, for once, timed out.
Fails(c) ==
    /\ c \in open
    /\ open' = open \ {c}
    /\ errors' = errors \cup ({c} \cap Required)
    /\ denied' = NoteDenied(c)
    /\ UNCHANGED <<may, balanced, stored, phase, got, base, print, rels, helmFP, helmCache>>

\* Mutant of CacheServes: any cache will do.
CacheServesAny == helmCache # Unanswered

\* The metadata lists show what the cache was read for.
CacheServes == print # Nothing /\ print = helmFP

\* All calls have ended: the cache serves, the read was refused before, or it begins.
Helm ==
    /\ phase = "lists" /\ open = {}
    /\ \/ CacheServes /\ phase' = "done" /\ rels' = helmCache /\ UNCHANGED errors
       \/ ~CacheServes /\ Releases \in denied /\ phase' = "done" /\ errors' = errors \cup {Releases} /\ UNCHANGED rels
       \/ ~CacheServes /\ Releases \notin denied /\ phase' = "secrets" /\ UNCHANGED <<errors, rels>>
    /\ UNCHANGED <<may, balanced, stored, denied, open, got, base, print, helmFP, helmCache>>

\* helmReleases lists the secrets: their error is the error of the whole.
ReadSecrets ==
    /\ phase = "secrets"
    /\ \/ /\ Releases \in may
          /\ phase' = "configmaps"
          /\ \E v \in Reads("secrets") : rels' = [Nothing EXCEPT !["secrets"] = v]
          /\ UNCHANGED <<denied, errors>>
       \/ /\ phase' = "done" /\ denied' = NoteDenied(Releases) /\ errors' = errors \cup {Releases}
          /\ UNCHANGED rels
    /\ UNCHANGED <<may, balanced, stored, open, got, base, print, helmFP, helmCache>>

\* Then the configmaps: without their answer, the secrets' releases are taken for all.
ReadConfigMaps ==
    /\ phase = "configmaps" /\ phase' = "done"
    /\ \E cm \in Reads("configmaps") \cup {Unanswered} : rels' = [rels EXCEPT !["configmaps"] = cm]
    /\ helmFP' = print /\ helmCache' = rels'
    /\ UNCHANGED <<may, balanced, stored, denied, open, got, errors, base, print>>

-----------------------------------------------------------------------------
(* The cluster                                                             *)

\* A role is granted or taken away, an API type installed or removed.
Permit(c) ==
    /\ c \in Shifting
    /\ may' = IF c \in may THEN may \ {c} ELSE may \cup {c}
    /\ UNCHANGED <<balanced, stored, denied, phase, open, got, errors, base, print, rels, helmFP, helmCache>>

\* helm installs, upgrades or removes a release.
HelmWrites(s) ==
    /\ stored[s] < MaxVersion[s]
    /\ stored' = [stored EXCEPT ![s] = @ + 1]
    /\ UNCHANGED <<may, balanced, denied, phase, open, got, errors, base, print, rels, helmFP, helmCache>>

FetchStep ==
    \/ BeginFetch \/ Helm \/ ReadSecrets \/ ReadConfigMaps
    \/ \E c \in Call : Answers(c) \/ Fails(c)

FetchNext ==
    \/ FetchStep
    \/ ResetDenied
    \/ \E c \in Call : Expire(c) \/ Permit(c)
    \/ \E s \in Storage : HelmWrites(s)

FetchSpec == FetchInit /\ [][FetchNext]_fetchVars

\* Refreshes go on, calls end (the context's deadline), time passes, and a
\* call that is repeated answers once if the apiserver lets it.
FetchFairness ==
    /\ WF_fetchVars(FetchStep)
    /\ \A c \in Shifting : SF_fetchVars(Answers(c)) /\ WF_fetchVars(Expire(c))

FairFetchSpec == FetchSpec /\ FetchFairness

-----------------------------------------------------------------------------
Delivered == phase = "done"

\* A list that is missing from a snapshot is never taken for an empty
\* cluster: whatever call of run did not answer is among its errors, this
\* cycle and every cycle it is skipped in.
MissingIsReported == Delivered => Required \subseteq got \cup errors

\* Of one apiserver, the releases of a snapshot whose metadata lists saw the
\* release secrets are not older than what it showed when the fetch began: the
\* cache for a fingerprint (helmFP) never hides an upgrade.  (Not behind a
\* balanced address: payloads older than their fingerprint are cached with it.)
SecretReleasesAreCurrent ==
    ~balanced /\ Delivered /\ rels # Unanswered /\ print["secrets"] # Unanswered => rels["secrets"] >= base["secrets"]

\* "Individual failures are recorded in Errors": releases that were read
\* without an error hold those of both storages.
PartIsReported == Delivered /\ rels # Unanswered => \A s \in Storage : rels[s] # Unanswered

\* A refusal is not for ever: a call that stays allowed is made again.
GrantIsNoticed ==
    \A c \in Shifting \ {Releases} : c \in may ~> c \in got \/ c \notin may

=============================================================================
