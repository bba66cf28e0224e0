-------------------------------- MODULE Bundle --------------------------------
(***************************************************************************)
(* khealth --gather: one headless cycle over every node, then the archives *)
(* of the nodes' logs, packed into one bundle (internal/headless,          *)
(* internal/gather).                                                       *)
(*                                                                         *)
(* The probes run side by side and leave their status in the manifest's    *)
(* entry of their node.  Then one goroutine per node streams gather.sh's   *)
(* output into a pipe (which holds nothing) while another unpacks it; the  *)
(* output is what precedes the archive, the archive, and the padding after *)
(* its end.  A node's script is good, ends before it packs, packs an       *)
(* archive that cannot be unpacked, or breaks off.  The API dump runs      *)
(* beside them.  Pod logs, scrubbing, the report and opening a bundle      *)
(* again are left out.                                                     *)
(***************************************************************************)
EXTENDS Naturals, FiniteSets

CONSTANTS
    Members,     \* nodes of the cluster, ssh.hosts among them
    SSHHosts,    \* the nodes ssh.hosts names
    EtcdMembers, \* the nodes the etcd probe runs on while the API answers
    Involved,    \* the nodes --gather-workload keeps (its own and the control plane)
    NoEntry

BundleAssumption == /\ SSHHosts \subseteq Members /\ EtcdMembers \subseteq Members /\ Involved \subseteq Members
                    /\ NoEntry \notin {"not collected", "ok", "error"}

VARIABLES
    stage,   \* "fetch", "probe", "collect", "pack", "done", "failed"
    reached, \* Manifest.APIReachable
    targets, \* the nodes to probe, and to gather from (the second list of Run)
    gathers,
    probing, \* the probes that run: node and kind
    status,  \* the manifest's status of each probe
    script,  \* how the node's gather.sh goes
    sent,    \* the parts of its output written into the pipe
    stream,  \* Stream: "off", "open", "ok", "error"
    unpack,  \* readNodeTar and what follows: "off", "reading", "draining", "ok", "error"
    logs,    \* NodeEntry.Logs
    dump,    \* the API dump is under way
    bundle   \* the file: "none", "part", "whole"

bundleVars == <<stage, reached, targets, gathers, probing, status, script, sent, stream, unpack, logs, dump, bundle>>

Kind == {"node", "etcd"}
Script == {"good", "nothing", "garbage", "breaks"}
Parts == 3 \* the output before the archive, the archive, the padding

BundleTypeOK ==
    /\ stage \in {"fetch", "probe", "collect", "pack", "done", "failed"}
    /\ reached \in BOOLEAN /\ dump \in BOOLEAN
    /\ targets \subseteq Members /\ gathers \subseteq targets
    /\ probing \subseteq Members \X Kind
    /\ status \in [Members \X Kind -> {NoEntry, "ok", "error"}]
    /\ script \in [Members -> Script] /\ sent \in [Members -> 0..Parts]
    /\ stream \in [Members -> {"off", "open", "ok", "error"}]
    /\ unpack \in [Members -> {"off", "reading", "draining", "ok", "error"}]
    /\ logs \in [Members -> {NoEntry, "not collected", "ok", "error"}]
    /\ bundle \in {"none", "part", "whole"}

BundleInit ==
    /\ stage = "fetch" /\ reached = FALSE /\ dump = FALSE /\ bundle = "none"
    /\ targets = {} /\ gathers = {} /\ probing = {}
    /\ status = [p \in Members \X Kind |-> NoEntry]
    /\ script = [n \in Members |-> "good"] /\ sent = [n \in Members |-> 0]
    /\ stream = [n \in Members |-> "off"] /\ unpack = stream
    /\ logs = [n \in Members |-> NoEntry]

-----------------------------------------------------------------------------
(* The headless cycle                                                      *)

\* The snapshot, and the probes of its nodes; without the API, those of
\* ssh.hosts, the etcd probe on every one.  only is ssh.nodes.
FetchTargets ==
    /\ stage = "fetch" /\ stage' = "probe"
    /\ \E api \in BOOLEAN, only \in {Members, Involved} :
          /\ reached' = api
          /\ targets' = only \cap (IF api THEN Members ELSE SSHHosts)
          /\ probing' = {p \in targets' \X Kind : p[2] = "etcd" => (~api \/ p[1] \in EtcdMembers)}
    /\ UNCHANGED <<gathers, status, script, sent, stream, unpack, logs, dump, bundle>>

\* A probe ends: Raw puts its output in the bundle and its status in the manifest's entry.
Raw(p, ok) ==
    /\ p \in probing
    /\ probing' = probing \ {p}
    /\ status' = [status EXCEPT ![p] = IF ok THEN "ok" ELSE "error"]
    /\ logs' = [logs EXCEPT ![p[1]] = "not collected"]
    /\ UNCHANGED <<stage, reached, targets, gathers, script, sent, stream, unpack, dump, bundle>>

\* All probes have ended and the findings are computed: the logs are next, of
\* every target or of the workload's (unless ssh-nodes chose the targets); a
\* workload that is not there, or that no API can tell of, ends the gather.
Collect(workload) ==
    /\ stage = "probe" /\ probing = {}
    /\ \/ /\ workload /\ stage' = "failed"
          /\ UNCHANGED <<gathers, script, stream, unpack, dump>>
       \/ /\ workload => reached
          /\ stage' = "collect"
          /\ gathers' \in IF workload THEN {targets, targets \cap Involved} ELSE {targets}
          /\ dump' = reached
          /\ script' \in {s \in [Members -> Script] : \A n \in Members \ gathers' : s[n] = "good"}
          /\ stream' = [n \in Members |-> IF n \in gathers' THEN "open" ELSE "off"]
          /\ unpack' = [n \in Members |-> IF n \in gathers' THEN "reading" ELSE "off"]
    /\ UNCHANGED <<reached, targets, probing, status, sent, logs, bundle>>

-----------------------------------------------------------------------------
(* One node's archive                                                      *)

Pipe(n, s, st, u) ==
    /\ sent' = [sent EXCEPT ![n] = s]
    /\ stream' = [stream EXCEPT ![n] = st]
    /\ unpack' = [unpack EXCEPT ![n] = u]
    /\ UNCHANGED <<stage, reached, targets, gathers, probing, status, script, logs, dump, bundle>>

\* Mutant of Write: the unpacking stops at the archive's end.
WriteUndrained(n) ==
    /\ stream[n] = "open" /\ unpack[n] \in {"reading", "draining"} /\ sent[n] < Parts
    /\ (script[n] = "nothing" => sent[n] = 0)
    /\ Pipe(n, sent[n] + 1, "open",
            IF unpack[n] = "draining" \/ sent[n] = 0 THEN unpack[n]
            ELSE IF script[n] = "garbage" THEN "error" ELSE "ok")

\* The next part goes through the pipe: the archive is unpacked, what comes
\* after it only read; an archive that cannot be closes the pipe.
Write(n) ==
    /\ stream[n] = "open" /\ unpack[n] \in {"reading", "draining"} /\ sent[n] < Parts
    /\ (script[n] = "nothing" => sent[n] = 0)
    /\ Pipe(n, sent[n] + 1, "open",
            IF unpack[n] = "draining" \/ sent[n] = 0 THEN unpack[n]
            ELSE IF script[n] = "garbage" THEN "error" ELSE "draining")

\* Nobody reads any more: the write fails, and with it the stream.
WriteFails(n) ==
    /\ stream[n] = "open" /\ unpack[n] \in {"ok", "error"} /\ sent[n] < Parts
    /\ Pipe(n, sent[n], "error", unpack[n])

\* The script ends: well when it has written everything it has.
StreamEnds(n) ==
    /\ stream[n] = "open"
    /\ sent[n] = (IF script[n] = "nothing" THEN 1 ELSE Parts)
    /\ script[n] # "breaks"
    /\ Pipe(n, sent[n], "ok", unpack[n])

\* The connection is lost, the 15 minutes are over, or the script exits in error.
StreamBreaks(n) ==
    /\ stream[n] = "open" /\ script[n] = "breaks"
    /\ Pipe(n, sent[n], "error", unpack[n])

\* Mutant of ReaderEnds: the pipe is closed only when the stream failed.
ReaderEndsOnError(n) ==
    /\ stream[n] = "error" /\ unpack[n] \in {"reading", "draining"}
    /\ Pipe(n, sent[n], stream[n], IF unpack[n] = "draining" THEN "ok" ELSE "error")

\* pw.CloseWithError: the reader sees the end.
ReaderEnds(n) ==
    /\ stream[n] \in {"ok", "error"} /\ unpack[n] \in {"reading", "draining"}
    /\ Pipe(n, sent[n], stream[n], IF unpack[n] = "draining" THEN "ok" ELSE "error")

\* The node's entry of the manifest, once both have ended.
Record(n) ==
    /\ stream[n] \in {"ok", "error"} /\ unpack[n] \in {"ok", "error"}
    /\ logs[n] \notin {"ok", "error"}
    /\ logs' = [logs EXCEPT ![n] = IF stream[n] = "ok" /\ unpack[n] = "ok" THEN "ok" ELSE "error"]
    /\ UNCHANGED <<stage, reached, targets, gathers, probing, status, script, sent, stream, unpack, dump, bundle>>

DumpEnds ==
    /\ dump
    /\ dump' = FALSE
    /\ UNCHANGED <<stage, reached, targets, gathers, probing, status, script, sent, stream, unpack, logs, bundle>>

-----------------------------------------------------------------------------
(* Packing                                                                 *)

\* wg.Wait, the manifest, and the file is opened.
OpenOut ==
    /\ stage = "collect" /\ ~dump /\ \A n \in gathers : logs[n] \in {"ok", "error"}
    /\ stage' = "pack" /\ bundle' = "part"
    /\ UNCHANGED <<reached, targets, gathers, probing, status, script, sent, stream, unpack, logs, dump>>

\* pack, or its error, which removes the file.
Pack ==
    /\ stage = "pack"
    /\ \/ stage' = "done" /\ bundle' = "whole"
       \/ stage' = "failed" /\ bundle' = "none"
    /\ UNCHANGED <<reached, targets, gathers, probing, status, script, sent, stream, unpack, logs, dump>>

BundleNext ==
    \/ FetchTargets
    \/ \E p \in Members \X Kind, ok \in BOOLEAN : Raw(p, ok)
    \/ \E w \in BOOLEAN : Collect(w)
    \/ \E n \in Members : Write(n) \/ WriteFails(n) \/ StreamEnds(n) \/ StreamBreaks(n) \/ ReaderEnds(n) \/ Record(n)
    \/ DumpEnds \/ OpenOut \/ Pack

BundleSpec == BundleInit /\ [][BundleNext]_bundleVars

\* Every call has a deadline and every goroutine runs.
BundleFairness == WF_bundleVars(BundleNext)

FairBundleSpec == BundleSpec /\ BundleFairness

-----------------------------------------------------------------------------
\* The manifest tells "no errors" from "no data": it has an entry for every
\* node that was probed, and its logs read "ok" for exactly the nodes whose
\* script ran well to its end, of those it was asked to gather from.
ManifestIsHonest ==
    stage \in {"pack", "done"} =>
        \A n \in targets : /\ status[<<n, "node">>] # NoEntry
                           /\ (logs[n] = "ok") <=> (n \in gathers /\ script[n] = "good")
                           /\ (logs[n] = "not collected") <=> (n \notin gathers)

\* A gather ends, with a bundle or with an error and no file.
GatherEnds == <>(<<stage, bundle>> \in {<<"done", "whole">>, <<"failed", "none">>})

=============================================================================
