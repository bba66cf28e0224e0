------------------------------- MODULE Rescue -------------------------------
(***************************************************************************)
(* The etcd rescue as a whole: the overlay an operator works in            *)
(* (RescueView, with the actions it shares the screen with) and the plan   *)
(* its engine runs (RescuePlan).                                           *)
(*                                                                         *)
(* The overlay hands the engine a built plan and from then on only counts  *)
(* its events, the engine sees of the overlay only the abort: neither      *)
(* reads the other's state.  Their composition is therefore the one that   *)
(* is looked at, the other standing at its beginning.                      *)
(***************************************************************************)
EXTENDS RescueView, RescuePlan

VARIABLE part \* what is looked at

ASSUME RescueAssumption == FollowersAssumption

rescueVars == <<part, vars, planVars>>

RescueTypeOK == part \in {"view", "plan"} /\ TypeOK /\ PlanTypeOK

\* A plan that is not looked at has one beginning.
RescueInit ==
    /\ part \in {"view", "plan"}
    /\ Init /\ PlanInit
    /\ part = "view" => /\ plan.kind = "rke2" /\ ~plan.rejoin /\ Len(plan.others) = Len(Followers)
                        /\ agents = {} /\ \A n \in Server : server[n].on

ViewTurn == part = "view" /\ Next /\ UNCHANGED <<part, planVars>>

PlanTurn == part = "plan" /\ PlanNext /\ UNCHANGED <<part, vars>>

RescueNext == ViewTurn \/ PlanTurn

\* Of what is looked at, what its module justifies.
RescueFairness ==
    /\ WF_vars(part = "view" /\ quit = "no" /\ ActionSteps /\ UNCHANGED viewVars)
    /\ \A p \in Views : WF_vars(part = "view" /\ quit = "no" /\ Emit(p))
    /\ WF_vars(part = "view" /\ quit = "no" /\ \E w \in waiters : RescueMsg(w) \/ ClosedMsg(w))
    /\ WF_planVars(part = "plan" /\ Begin) /\ WF_planVars(part = "plan" /\ StepDone)
    /\ WF_planVars(part = "plan" /\ End)
    /\ WF_planVars(part = "plan" /\ NotReplaced) /\ WF_planVars(part = "plan" /\ NotAlone)
    /\ WF_planVars(part = "plan" /\ ResetEnds)
    /\ \A n \in Server :
          WF_planVars(part = "plan" /\ Join(n)) /\ WF_planVars(part = "plan" /\ Promote(n))

RescueSpec == RescueInit /\ [][RescueNext]_rescueVars /\ RescueFairness

-----------------------------------------------------------------------------
\* A rescue that nothing stops ends: no wait asks for what never comes (waitStatus).
RescueCompletes == part = "plan" => Completes

=============================================================================
