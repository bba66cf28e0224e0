------------------------------- MODULE Bootstrap -------------------------------
(***************************************************************************)
(* --bootstrap: the kubeconfig of a cluster is read from one of its        *)
(* servers over SSH and kept as ~/.kube/khealth-<name>.yaml                *)
(* (internal/bootstrap/bootstrap.go).                                      *)
(*                                                                         *)
(* A file bootstrapped earlier is used again while it connects; one that   *)
(* does not is replaced; a name another cluster's file already has is      *)
(* numbered; --bootstrap-out names the file whoever it is of.  Meanwhile   *)
(* the API goes away and comes back and the servers are rebuilt as another *)
(* cluster: each look at them finds any cluster with any of them           *)
(* answering.  The process is killed, or a write is cut short.  A file is  *)
(* its cluster (the CA), the host it points at and how much of its text is *)
(* there.  The verifications of one pass over the files happen at one      *)
(* moment, so that of the ranked endpoints any may be the first to verify. *)
(* The SSH hints in the files are left out, their rewriting is not.        *)
(***************************************************************************)
EXTENDS Naturals, FiniteSetsExt

CONSTANTS
    Clusters,  \* the clusters the servers may be, by CA
    Host,      \* the endpoints Rank puts in order
    SSHHost,   \* the one the bootstrap logs in to
    NameOf,    \* ClusterName of an endpoint
    MaxNumber, \* bound on the numbers of a name
    MaxRuns,   \* bound on the runs
    MaxKills,  \* bound on the runs that are killed or cannot write
    NoFile

BootstrapAssumption == /\ SSHHost \in Host /\ DOMAIN NameOf = Host
                       /\ MaxNumber \in Nat /\ MaxRuns \in Nat /\ MaxKills \in Nat
                       /\ NoFile \notin Clusters

VARIABLES
    file,      \* the khealth-*.yaml files, by name and number
    bak,       \* their .bak copies
    step,      \* where the run is, "idle" when none is
    fresh,     \* Options.Fresh
    out,       \* Options.Out, NoFile when it is not given
    listed,    \* all: the files existingKubeconfigs could read
    stale,     \* the files found not to connect
    ca,        \* the CA of the kubeconfig fetched or used again, NoFile before
    dest,      \* the path to write, or to rewrite
    host,      \* the endpoint to write
    runs, kills

bootVars == <<file, bak, step, fresh, out, listed, stale, ca, dest, host, runs, kills>>

Path == {NameOf[e] : e \in Host} \X (1..MaxNumber)
\* Of the text that was to be written all is there, enough to parse with the CA,
\* nothing (which parses, without a CA), or a part that does not parse.
File == [ca : Clusters, host : Host, text : {"whole", "cut", "empty", "garbage"}]

BootTypeOK ==
    /\ file \in [Path -> File \cup {NoFile}] /\ bak \in [Path -> File \cup {NoFile}]
    /\ step \in {"idle", "host", "fetch", "ca", "rank", "path", "backup", "create", "fill", "rewrite"}
    /\ fresh \in BOOLEAN /\ out \in Path \cup {NoFile} /\ listed \subseteq Path /\ stale \subseteq Path
    /\ ca \in Clusters \cup {NoFile} /\ dest \in Path \cup {NoFile} /\ host \in Host
    /\ runs \in 0..MaxRuns /\ kills \in 0..MaxKills

BootInit ==
    /\ file = [p \in Path |-> NoFile] /\ bak = file
    /\ step = "idle" /\ fresh = FALSE /\ out = NoFile /\ listed = {} /\ stale = {}
    /\ ca = NoFile /\ dest = NoFile /\ host = SSHHost
    /\ runs = 0 /\ kills = 0

-----------------------------------------------------------------------------
Intact(f, p) == f[p] # NoFile /\ f[p].text = "whole"
Parses(p) == file[p] # NoFile /\ file[p].text # "garbage"

\* Verify, of all files at once: those that connect are of the cluster the
\* servers are, and their host answers.
Verified == {{p \in Path : Intact(file, p) /\ file[p].ca = c /\ file[p].host \in answering}
                : c \in Clusters, answering \in SUBSET Host}

known == IF fresh THEN {} ELSE listed

At(s) == step = s
Goto(s) == step' = s
Keeps(vs) == UNCHANGED <<runs, kills, vs>>
\* The run is over.
End == /\ step' = "idle" /\ fresh' = FALSE /\ out' = NoFile /\ listed' = {} /\ stale' = {}
       /\ dest' = NoFile /\ host' = SSHHost /\ ca' = NoFile

Begin(f, o) ==
    /\ At("idle") /\ runs < MaxRuns
    /\ runs' = runs + 1
    /\ fresh' = f /\ out' = o /\ listed' = {p \in Path : Parses(p)}
    /\ Goto("host")
    /\ UNCHANGED <<file, bak, stale, ca, dest, host, kills>>

\* A file that connects is used again.  Its SSH hint may be rewritten in place
\* (RememberSSH; doing it twice is like doing it once).
Reuse(ps) ==
    \E p \in ps : \/ End
                  \/ /\ dest' = p /\ host' = file[p].host /\ ca' = file[p].ca
                     /\ Goto("rewrite")
                     /\ UNCHANGED <<fresh, out, listed, stale>>

\* First by server host, without SSH.
ReuseByHost ==
    /\ At("host")
    /\ LET here == {p \in known : file[p].text # "empty" /\ file[p].host = SSHHost} IN
       \E connect \in Verified :
          \/ Reuse(here \cap connect)
          \/ /\ here \cap connect = {}
             /\ stale' = here
             /\ Goto("fetch")
             /\ UNCHANGED <<fresh, out, listed, ca, dest, host>>
    /\ Keeps(<<file, bak>>)

\* Fetch: the admin kubeconfig of the cluster the host is in, or an error.
FetchSource ==
    /\ At("fetch")
    /\ \/ ca' \in Clusters /\ Goto("ca") /\ UNCHANGED <<fresh, out, listed, stale, dest, host>>
       \/ End
    /\ Keeps(<<file, bak>>)

\* e.CA == ca, of a list of files.
OfCA(ps) == {p \in ps : file[p].text # "empty" /\ file[p].ca = ca}
Mine == OfCA(known)

\* Then by CA.
ReuseByCA ==
    /\ At("ca")
    /\ \E connect \in Verified :
          \/ Reuse((Mine \ stale) \cap connect)
          \/ /\ (Mine \ stale) \cap connect = {}
             /\ stale' = stale \cup Mine
             /\ \/ Mine = {} /\ dest' = NoFile
                \/ dest' \in Mine
             /\ Goto("rank")
             /\ UNCHANGED <<fresh, out, listed, ca, host>>
    /\ Keeps(<<file, bak>>)

\* The first endpoint that verifies, else the SSH host.
RankEndpoints ==
    /\ At("rank")
    /\ host' \in Host
    /\ Goto("path")
    /\ Keeps(<<file, bak, fresh, out, listed, stale, ca, dest>>)

\* Mutant of Owned: --bootstrap-fresh sees no files.
OwnedKnown == known \ OfCA(known)

\* The files that can belong to another cluster.
Owned == listed \ OfCA(listed)

\* --bootstrap-out as it is, else the cluster's own stale file, else a name
\* that is not taken.
ChoosePath ==
    /\ At("path")
    /\ LET free == {i \in 1..MaxNumber : <<NameOf[host], i>> \notin Owned} IN
       \/ out # NoFile /\ dest' = out
       \/ out = NoFile /\ dest # NoFile /\ dest' = dest
       \/ out = NoFile /\ dest = NoFile /\ free # {} /\ dest' = <<NameOf[host], Min(free)>>
    /\ Goto("backup")
    /\ Keeps(<<file, bak, fresh, out, listed, stale, ca, host>>)

\* Mutant of Backup: the file is written over.
BackupNothing ==
    /\ At("backup")
    /\ Goto("create")
    /\ Keeps(<<file, bak, fresh, out, listed, stale, ca, dest, host>>)

\* writeFile: what is there becomes the .bak,
Backup ==
    /\ At("backup")
    /\ IF file[dest] = NoFile THEN UNCHANGED <<file, bak>>
       ELSE bak' = [bak EXCEPT ![dest] = file[dest]] /\ file' = [file EXCEPT ![dest] = NoFile]
    /\ Goto("create")
    /\ Keeps(<<fresh, out, listed, stale, ca, dest, host>>)

\* the file is created, or (RememberSSH) truncated,
Create ==
    /\ step \in {"create", "rewrite"}
    /\ file' = [file EXCEPT ![dest] = [ca |-> ca, host |-> host, text |-> "empty"]]
    /\ Goto("fill")
    /\ Keeps(<<bak, fresh, out, listed, stale, ca, dest, host>>)

\* and filled.
Fill ==
    /\ At("fill")
    /\ file' = [file EXCEPT ![dest].text = "whole"]
    /\ End
    /\ Keeps(bak)

-----------------------------------------------------------------------------
\* The write is cut off: the disk is full, or the process is killed in it.
CutShort ==
    /\ At("fill") /\ kills < MaxKills
    /\ kills' = kills + 1
    /\ \E rest \in {"cut", "empty", "garbage"} : file' = [file EXCEPT ![dest].text = rest]
    /\ End
    /\ UNCHANGED <<bak, runs>>

Kill ==
    /\ step # "idle" /\ kills < MaxKills
    /\ kills' = kills + 1
    /\ End
    /\ UNCHANGED <<file, bak, runs>>

BootNext ==
    \/ \E f \in BOOLEAN, o \in Path \cup {NoFile} : Begin(f, o)
    \/ ReuseByHost \/ FetchSource \/ ReuseByCA \/ RankEndpoints \/ ChoosePath
    \/ Backup \/ Create \/ Fill
    \/ CutShort \/ Kill

BootSpec == BootInit /\ [][BootNext]_bootVars

-----------------------------------------------------------------------------
\* A run touches no other cluster's kubeconfig: a file that was written to
\* the end changes only in a run that holds the CA it is of, or under the path
\* --bootstrap-out gave (Run asks for no owner then), and that one is
\* kept as .bak.
OthersKept ==
    [][\A p \in Path : Intact(file, p) /\ file'[p] # file[p] =>
         file[p].ca = ca \/ (p = out /\ bak'[p] = file[p])]_bootVars

\* The newest kubeconfig a path still has, itself or as .bak.
Copy(p) == IF Intact(file, p) THEN file[p] ELSE IF Intact(bak, p) THEN bak[p] ELSE NoFile

\* What RememberSSH truncates where it is, and the remnant of a write cut
\* short that writeFile moves over the copy of an earlier run.
WithoutCopy(p) == p = dest /\ (At("rewrite") \/ (At("backup") /\ file[p] # NoFile /\ ~Intact(file, p)))

\* A kubeconfig stays, or its .bak does, until a successor is written to the
\* end, over as many runs as that takes, cut short or killed: but for the two
\* writes that keep no copy.
CopyIsKept ==
    [][\A p \in Path : Copy(p) # NoFile /\ Copy(p)' # Copy(p) => Intact(file', p) \/ WithoutCopy(p)]_bootVars

=============================================================================
