------------------------------ MODULE Actions ------------------------------
(***************************************************************************)
(* Mutating actions (internal/ui/actions.go), and the one that takes several *)
(* steps: the defragmentation of etcd (internal/etcd/defrag.go).          *)
(*                                                                         *)
(* A key asks for an action, y in the confirmation runs it in a goroutine  *)
(* of its own, its end is a message.  The defragmentation goes through the *)
(* members one at a time, in an order fixed when it was asked for.         *)
(* Which helm command runs and what it prints are left out.                *)
(***************************************************************************)
EXTENDS Naturals, Sequences, FiniteSets, SequencesExt

CONSTANTS
    Member, \* etcd members
    None    \* no action, nobody

ASSUME ActionsAssumption == IsFiniteSet(Member) /\ None \notin Member

VARIABLES
    overlay,       \* App.overlay
    pendingAct,    \* the kind of App.pendingAct
    actionRunning, \* App.actionRunning
    act            \* the action in flight

actionVars == <<overlay, pendingAct, actionRunning, act>>

\* left: the members still to do; at: the one being done; down: those that the
\* run has stopped and that do not serve yet.
Action == [kind : {"helm", "defrag"}, left : Seq(Member), at : Member \cup {None},
           down : SUBSET Member]

ActionsTypeOK ==
    /\ overlay \in {"none", "confirm", "revisions", "detail", "rescue"}
    /\ pendingAct \in {None, "helm", "defrag"}
    /\ actionRunning \in BOOLEAN
    /\ act \in Action \cup {None}

ActionsInit ==
    /\ overlay = "none"
    /\ pendingAct = None
    /\ actionRunning = FALSE
    /\ act = None

-----------------------------------------------------------------------------
(* Keys *)

\* u, B, t, D: the confirmation is shown.
AskAction(kind) ==
    /\ overlay = "none" /\ ~actionRunning
    /\ overlay' = "confirm"
    /\ pendingAct' = kind
    /\ UNCHANGED <<actionRunning, act>>

\* b: a revision is picked first.
AskRevision ==
    /\ overlay = "none" /\ ~actionRunning
    /\ overlay' = "revisions"
    /\ UNCHANGED <<pendingAct, actionRunning, act>>

PickRevision ==
    /\ overlay = "revisions"
    /\ overlay' = "confirm"
    /\ pendingAct' = "helm"
    /\ UNCHANGED <<actionRunning, act>>

\* Followers in the order of the member list (any), the leader of the etcd view
\* last.  Learners and members without an address are not touched.
DefragOrder(members, leader) ==
    SetToSeq(members \ {leader}) \o (IF leader \in members THEN <<leader>> ELSE <<>>)

\* y: the action runs.  The members and the leader are those of the moment the
\* confirmation was opened, which may be any by now.
ConfirmAction ==
    /\ overlay = "confirm"
    /\ \E S \in SUBSET Member, leader \in Member :
          act' = [kind |-> pendingAct, at |-> None, down |-> {},
                  left |-> IF pendingAct = "defrag" THEN DefragOrder(S, leader) ELSE <<>>]
    /\ overlay' = "none"
    /\ pendingAct' = None
    /\ actionRunning' = TRUE

CancelAction ==
    /\ overlay \in {"confirm", "revisions"}
    /\ overlay' = "none"
    /\ pendingAct' = IF overlay = "confirm" THEN None ELSE pendingAct
    /\ UNCHANGED <<actionRunning, act>>

CloseDetail ==
    /\ overlay = "detail"
    /\ overlay' = "none"
    /\ UNCHANGED <<pendingAct, actionRunning, act>>

-----------------------------------------------------------------------------
(* The action in its goroutine *)

\* etcdctl defrag on the next member, which serves nothing until it is through.
DefragNext ==
    /\ act # None /\ act.at = None /\ act.left # <<>>
    /\ act' = [act EXCEPT !.at = Head(act.left), !.left = Tail(act.left),
                          !.down = @ \cup {Head(act.left)}]
    /\ UNCHANGED <<overlay, pendingAct, actionRunning>>

\* The command succeeded and endpoint health says the member serves again.
DefragHealthy ==
    /\ act # None /\ act.at # None
    /\ act' = [act EXCEPT !.at = None, !.down = @ \ {act.at}]
    /\ UNCHANGED <<overlay, pendingAct, actionRunning>>

\* Mutant of DefragFails: the others are defragmented all the same.
DefragGoesOn ==
    /\ act # None /\ act.at # None
    /\ act' = [act EXCEPT !.at = None]
    /\ UNCHANGED <<overlay, pendingAct, actionRunning>>

\* The command failed, or five health checks did: the rest is left alone.
DefragFails ==
    /\ act # None /\ act.at # None
    /\ act' = [act EXCEPT !.at = None, !.left = <<>>]
    /\ UNCHANGED <<overlay, pendingAct, actionRunning>>

\* handleActionDone: the output is shown over whatever is on the screen.
ActionDone ==
    /\ act # None /\ act.at = None /\ act.left = <<>>
    /\ actionRunning' = FALSE
    /\ act' = None
    /\ overlay' = "detail"
    /\ UNCHANGED pendingAct

ActionKeys ==
    \/ \E kind \in {"helm", "defrag"} : AskAction(kind)
    \/ AskRevision \/ PickRevision \/ ConfirmAction \/ CancelAction \/ CloseDetail

ActionSteps == DefragNext \/ DefragHealthy \/ DefragFails \/ ActionDone

-----------------------------------------------------------------------------
\* A defragmentation has at most one member down (the promise of Defrag and of
\* the confirmation): it never goes on to the next one while a member it has
\* stopped does not serve.
OneMemberDown == act # None => Cardinality(act.down) <= 1
=============================================================================
