------------------------------- MODULE Khealth -------------------------------
(***************************************************************************)
(* What cmd/khealth starts beside the refresh loop and its side results:   *)
(* main.go bootstraps a kubeconfig, gathers a bundle or opens the TUI, and *)
(* the last two read the cluster through one API client.                   *)
(*                                                                         *)
(* These machines share no state: Bootstrap hands a path over and is done, *)
(* a gather opens no screen, and Tiers sees of the client's fetches only   *)
(* whether they answer.  Their composition is therefore the one machine    *)
(* that is looked at, the others standing at their beginning.              *)
(***************************************************************************)
EXTENDS Tiers, Fetch, Bootstrap, Bundle

VARIABLE part \* the machine looked at

ASSUME KhealthAssumption == /\ TiersAssumption /\ FetchAssumption
                            /\ BootstrapAssumption /\ BundleAssumption

vars == <<part, tierVars, fetchVars, bootVars, bundleVars>>

TypeOK ==
    /\ part \in {"tui", "api", "bootstrap", "gather"}
    /\ TierTypeOK /\ FetchTypeOK /\ BootTypeOK /\ BundleTypeOK

Init ==
    /\ part \in {"tui", "api", "bootstrap", "gather"}
    /\ TierInit /\ FetchInit /\ BootInit /\ BundleInit

TuiStep == part = "tui" /\ TierNext /\ UNCHANGED <<part, fetchVars, bootVars, bundleVars>>
ApiStep == part = "api" /\ FetchNext /\ UNCHANGED <<part, tierVars, bootVars, bundleVars>>
BootStep == part = "bootstrap" /\ BootNext /\ UNCHANGED <<part, tierVars, fetchVars, bundleVars>>
GatherStep == part = "gather" /\ BundleNext /\ UNCHANGED <<part, tierVars, fetchVars, bootVars>>

Next == TuiStep \/ ApiStep \/ BootStep \/ GatherStep

Spec == Init /\ [][Next]_vars

\* Of the machine that is looked at, what its module justifies.
Fairness ==
    /\ WF_tierVars(part = "tui" /\ Cycle)
    /\ WF_tierVars(part = "tui" /\ RecomputeMsg)
    /\ \A n \in Nodes : /\ WF_tierVars(part = "tui" /\ (Answered(n) \/ CutOff(n)))
                        /\ SF_tierVars(part = "tui" /\ Answered(n))
                        /\ WF_tierVars(part = "tui" /\ EtcdMsg(n))
    /\ WF_fetchVars(part = "api" /\ FetchStep)
    /\ \A c \in Shifting : /\ SF_fetchVars(part = "api" /\ Answers(c))
                           /\ WF_fetchVars(part = "api" /\ Expire(c))
    /\ WF_bundleVars(part = "gather" /\ BundleNext)

FairSpec == Spec /\ Fairness

-----------------------------------------------------------------------------
\* A call the apiserver serves again is made again, while the client is what
\* is looked at (Client.Denied).
GrantsAreNoticed == part = "api" => GrantIsNoticed

\* A gather that is started ends, with a whole bundle or none (gather.Run).
GathersEnd == part = "gather" => GatherEnds

=============================================================================
