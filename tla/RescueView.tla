----------------------------- MODULE RescueView -----------------------------
(***************************************************************************)
(* The etcd rescue overlay (internal/ui/rescue.go) and the screen it shares *)
(* with the actions: from picking a node to the end of the rescue.         *)
(*                                                                         *)
(* The preflight and the rescue run in goroutines.  Their messages carry   *)
(* the view's own seq, which each new view counts from zero.  The engine   *)
(* hands its events to a channel of bounded capacity that is only read     *)
(* when the handler of one event asks for the next: a view that is lost    *)
(* stops the engine in the middle of its steps.                            *)
(*                                                                         *)
(* Left out: what the steps do (module RescuePlan), the probes that opening *)
(* the picker or an address starts (UpdateLoop) and the refresh at the end *)
(* (RefreshChain).  Phase "snap" is the list of snapshots and the prompt   *)
(* for a path that is not on it.                                           *)
(***************************************************************************)
EXTENDS Actions

CONSTANTS
    Node,     \* servers
    MaxViews, \* bound on the views opened
    Events,   \* events of a rescue, the last one being Done
    Cap       \* capacity of the event channel (64)

VARIABLES
    view,       \* App.rescue
    opened,     \* views opened so far
    preflights, \* preflights in flight
    built,      \* the plans whose own preflight has passed and built the steps
    engine,     \* the rescues started: events still to come, events in the channel
    waiters,    \* waitRescue commands in flight
    hosts,      \* the names that got an address in App.cfg.SSH.Hosts
    quit        \* the key that ended the program: "q", "ctrl+c"; "no" before

viewVars == <<view, opened, preflights, built, engine, waiters, hosts, quit>>
vars == <<actionVars, viewVars>>

Views == 1..MaxViews
States == {"healthy", "broken", "off"}
Picking == {"mode", "node", "addr"}
Phases == Picking \cup {"snap", "preflight", "confirm", "running", "done"}
Candidate == [name : Node, state : States]

\* plan: the node the plan is for; chosen: the node a key last put the cursor on
\* (what the operator means), None once it has left the list; seq: rescueView.seq.
View == [id : Views, phase : Phases, rejoin : BOOLEAN, nodes : Seq(Candidate), cur : Nat,
         chosen : Node \cup {None}, plan : Node \cup {None}, failed : BOOLEAN, seq : 0..2]

ASSUME ViewAssumption ==
    /\ IsFiniteSet(Node) /\ None \notin Node /\ None \notin View
    /\ MaxViews \in Nat /\ Events \in Nat \ {0} /\ Cap \in Nat \ {0}

TypeOK ==
    /\ ActionsTypeOK
    /\ view \in View \cup {None}
    /\ opened \in 0..MaxViews
    /\ preflights \subseteq Views
    /\ built \subseteq Views
    /\ DOMAIN engine \subseteq Views
    /\ \A p \in DOMAIN engine : engine[p] \in [left : 0..Events, buf : 0..Cap]
    /\ waiters \subseteq [plan : Views, seq : 0..2]
    /\ hosts \subseteq Node
    /\ quit \in {"no", "q", "ctrl+c"}

-----------------------------------------------------------------------------
In(phases) == view # None /\ view.phase \in phases
Selected == view.nodes[view.cur]
Names(nodes) == {nodes[i].name : i \in DOMAIN nodes}

\* rescueCandidates: what the probes say at this moment, best source first.
Rank(c) == CASE c.state = "healthy" -> 1 [] c.state = "broken" -> 2 [] c.state = "off" -> 3
CandidateLists ==
    {l \in SeqOf(Candidate, Cardinality(Node)) :
        /\ l # <<>>
        /\ \A i, j \in DOMAIN l : i < j => l[i].name # l[j].name /\ Rank(l[i]) <= Rank(l[j])}

Init ==
    /\ ActionsInit
    /\ view = None
    /\ opened = 0
    /\ preflights = {} /\ built = {} /\ waiters = {}
    /\ engine = << >>
    /\ hosts = {}
    /\ quit = "no"

\* A key of the overlay that only changes the view.
Key(phases, v) ==
    /\ overlay = "rescue" /\ In(phases)
    /\ view' = v
    /\ UNCHANGED <<actionVars, opened, preflights, built, engine, waiters, hosts, quit>>

Goto(phase) == [view EXCEPT !.phase = phase]

\* A key that gives the view up.
Leave ==
    /\ view' = None
    /\ overlay' = "none"
    /\ UNCHANGED <<pendingAct, actionRunning, act, opened, preflights, built, engine, waiters,
                   hosts, quit>>

-----------------------------------------------------------------------------
(* openRescue *)

\* X with a rescue under way.
ShowAgain ==
    /\ overlay = "none" /\ In({"running", "done", "preflight"})
    /\ overlay' = "rescue"
    /\ UNCHANGED <<pendingAct, actionRunning, act, viewVars>>

NewView(guard) ==
    /\ overlay = "none" /\ guard
    /\ opened < MaxViews
    /\ \E l \in CandidateLists :
          view' = [id |-> opened + 1, phase |-> "mode", rejoin |-> FALSE, nodes |-> l, cur |-> 1,
                   chosen |-> None, plan |-> None, failed |-> FALSE, seq |-> 0]
    /\ opened' = opened + 1
    /\ overlay' = "rescue"
    /\ UNCHANGED <<pendingAct, actionRunning, act, preflights, built, engine, waiters, hosts, quit>>

\* X otherwise.
OpenRescue == NewView(~actionRunning /\ ~In({"running", "done", "preflight"}))

-----------------------------------------------------------------------------
(* The picker *)

CancelMode == overlay = "rescue" /\ In({"mode"}) /\ Leave

\* Restore, or rejoin with the broken server preselected.
ChooseMode(rejoin) ==
    LET Broken == {i \in DOMAIN view.nodes : view.nodes[i].state = "broken"}
        cur == IF rejoin /\ Broken # {} THEN Min(Broken) ELSE 1
    IN Key({"mode"}, [view EXCEPT !.phase = "node", !.rejoin = rejoin, !.cur = cur,
                                  !.chosen = view.nodes[cur].name])

MoveCursor(i) ==
    /\ In({"node"}) /\ i \in DOMAIN view.nodes
    /\ Key({"node"}, [view EXCEPT !.cur = i, !.chosen = view.nodes[i].name])

AskAddress == In({"node"}) /\ Selected.state = "off" /\ Key({"node"}, Goto("addr"))

\* The address override of the session.
EnterAddress ==
    /\ overlay = "rescue" /\ In({"addr"})
    /\ view' = Goto("node")
    /\ hosts' = hosts \cup {Selected.name}
    /\ UNCHANGED <<actionVars, opened, preflights, built, engine, waiters, quit>>

ListSnapshots == In({"node"}) /\ ~view.rejoin /\ Selected.state # "off" /\ Key({"node"}, Goto("snap"))

Back ==
    \/ In({"addr", "snap"}) /\ Key({"addr", "snap"}, Goto("node"))
    \/ In({"node"}) /\ Key({"node"}, Goto("mode"))

\* Mutant of Refreshed: the cursor stays on its row.
SameRow(l) == [view EXCEPT !.nodes = l, !.cur = IF view.cur \in DOMAIN l THEN view.cur ELSE 1,
                           !.chosen = IF view.chosen \in Names(l) THEN @ ELSE None]

\* rescueRefresh: the cursor stays on its node; the first one if that is gone.
Refreshed(l) ==
    LET same == {i \in DOMAIN l : l[i].name = Selected.name}
    IN [view EXCEPT !.nodes = l, !.cur = IF same = {} THEN 1 ELSE Min(same),
                    !.chosen = IF view.chosen \in Names(l) THEN @ ELSE None]

\* An etcd probe has answered.
EtcdMsg ==
    /\ In(Picking)
    /\ \E l \in CandidateLists : view' = Refreshed(l)
    /\ UNCHANGED <<actionVars, opened, preflights, built, engine, waiters, hosts, quit>>

-----------------------------------------------------------------------------
(* Preflight and confirmation *)

\* A broken server rejoins through a healthy one; a restore has its snapshot.
Startable ==
    \/ /\ view.phase = "node" /\ view.rejoin /\ Selected.state = "broken"
       /\ \E i \in DOMAIN view.nodes : view.nodes[i].state = "healthy"
    \/ view.phase = "snap"

\* The list is not read any more.
StartRescuePreflight ==
    /\ overlay = "rescue" /\ In({"node", "snap"}) /\ Startable
    /\ view' = [view EXCEPT !.phase = "preflight", !.plan = Selected.name, !.seq = @ + 1]
    /\ preflights' = preflights \cup {view.id}
    /\ UNCHANGED <<actionVars, opened, built, engine, waiters, hosts, quit>>

CancelPreflight == overlay = "rescue" /\ In({"preflight"}) /\ Leave

\* The preflight of plan p ends and its message is handled.  It was the first
\* of its view, so its seq is 1.
RescuePreflightMsg(p, ok) ==
    /\ p \in preflights
    /\ preflights' = preflights \ {p}
    /\ built' = IF ok THEN built \cup {p} ELSE built
    /\ view' = IF In({"preflight"}) /\ view.seq = 1
               THEN [view EXCEPT !.phase = "confirm", !.failed = ~ok]
               ELSE view
    /\ UNCHANGED <<actionVars, opened, engine, waiters, hosts, quit>>

CancelConfirm == overlay = "rescue" /\ In({"confirm"}) /\ Leave

\* "restore" is typed: the engine runs the steps of the plan; a plan without
\* steps only says that it is done.  Typing the word takes longer than the
\* delivery of what an earlier rescue left behind.
StartRescue ==
    /\ overlay = "rescue" /\ In({"confirm"}) /\ ~view.failed
    /\ waiters = {}
    /\ view' = [view EXCEPT !.phase = "running", !.seq = @ + 1]
    /\ engine' = [p \in DOMAIN engine \cup {view.id} |->
                     IF p = view.id THEN [left |-> IF p \in built THEN Events ELSE 1, buf |-> 0]
                                    ELSE engine[p]]
    /\ waiters' = {[plan |-> view.id, seq |-> view.seq + 1]}
    /\ UNCHANGED <<actionVars, opened, preflights, built, hosts, quit>>

-----------------------------------------------------------------------------
(* The rescue *)

\* A step begins or ends, or the rescue does.
Emit(p) ==
    /\ p \in DOMAIN engine /\ engine[p].left > 0 /\ engine[p].buf < Cap
    /\ engine' = [engine EXCEPT ![p].left = @ - 1, ![p].buf = @ + 1]
    /\ UNCHANGED <<actionVars, view, opened, preflights, built, waiters, hosts, quit>>

\* Mutant of RescueMsg: an event that ends no step is the last one asked for.
RescueMsgOnce(w) ==
    LET e == engine[w.plan] IN
    /\ w \in waiters /\ e.buf > 0
    /\ engine' = [engine EXCEPT ![w.plan].buf = @ - 1]
    /\ waiters' = waiters \ {w}
    /\ view' = IF e.left = 0 /\ e.buf = 1 /\ view # None THEN Goto("done") ELSE view
    /\ overlay' = IF e.left = 0 /\ e.buf = 1 /\ view # None THEN "rescue" ELSE overlay
    /\ UNCHANGED <<pendingAct, actionRunning, act, opened, preflights, built, hosts, quit>>

\* An event is read from the channel and handled; Done brings the view back.
RescueMsg(w) ==
    LET e == engine[w.plan]
        ours == view # None /\ w.seq = view.seq
        last == e.left = 0 /\ e.buf = 1
    IN /\ w \in waiters /\ e.buf > 0
       /\ engine' = [engine EXCEPT ![w.plan].buf = @ - 1]
       /\ waiters' = (waiters \ {w}) \cup
                     (IF ours THEN {[plan |-> view.id, seq |-> view.seq]} ELSE {})
       /\ view' = IF ours /\ last THEN Goto("done") ELSE view
       /\ overlay' = IF ours /\ last THEN "rescue" ELSE overlay
       /\ UNCHANGED <<pendingAct, actionRunning, act, opened, preflights, built, hosts, quit>>

\* The channel is closed.
ClosedMsg(w) ==
    /\ w \in waiters /\ engine[w.plan] = [left |-> 0, buf |-> 0]
    /\ waiters' = waiters \ {w}
    /\ view' = IF In({"running"}) /\ w.seq = view.seq THEN Goto("done") ELSE view
    /\ UNCHANGED <<actionVars, opened, preflights, built, engine, hosts, quit>>

Hide ==
    /\ overlay = "rescue" /\ In({"running"})
    /\ overlay' = "none"
    /\ UNCHANGED <<pendingAct, actionRunning, act, viewVars>>

\* x: the steps after the one in progress are skipped, without events.
Abort ==
    /\ overlay = "rescue" /\ In({"running"}) /\ engine[view.id].left > 2
    /\ engine' = [engine EXCEPT ![view.id].left = 2]
    /\ UNCHANGED <<actionVars, view, opened, preflights, built, waiters, hosts, quit>>

CloseDone == overlay = "rescue" /\ In({"done"}) /\ Leave

\* Mutant of Quit: q quits.
QuitAnyway ==
    /\ overlay = "none"
    /\ quit' = "q"
    /\ UNCHANGED <<actionVars, view, opened, preflights, built, engine, waiters, hosts>>

\* q is refused while the view runs.
Quit ==
    /\ overlay = "none" /\ ~In({"running"})
    /\ quit' = "q"
    /\ UNCHANGED <<actionVars, view, opened, preflights, built, engine, waiters, hosts>>

\* ctrl+c ends the program whatever the screen shows, and with it the step in
\* progress of a rescue.
Interrupt ==
    /\ quit' = "ctrl+c"
    /\ UNCHANGED <<actionVars, view, opened, preflights, built, engine, waiters, hosts>>

-----------------------------------------------------------------------------
\* What goes on without the operator.
Background ==
    \/ ActionSteps /\ UNCHANGED viewVars
    \/ \E p \in Views : Emit(p) \/ \E ok \in BOOLEAN : RescuePreflightMsg(p, ok)
    \/ \E w \in waiters : RescueMsg(w) \/ ClosedMsg(w)

Keys ==
    \/ ActionKeys /\ UNCHANGED viewVars
    \/ ShowAgain \/ OpenRescue
    \/ CancelMode \/ AskAddress \/ EnterAddress \/ ListSnapshots \/ Back
    \/ \E rejoin \in BOOLEAN : ChooseMode(rejoin)
    \/ \E i \in 1..Cardinality(Node) : MoveCursor(i)
    \/ StartRescuePreflight \/ CancelPreflight \/ CancelConfirm \/ StartRescue
    \/ Hide \/ Abort \/ CloseDone
    \/ Quit \/ Interrupt

Next ==
    \/ quit = "no" /\ (Background \/ EtcdMsg \/ Keys)
    \/ quit # "no" /\ UNCHANGED vars

Spec == Init /\ [][Next]_vars

\* A step of the engine, an action and a preflight end under a timeout; the
\* messages of commands that have ended are delivered.  Keys are not fair.
Fairness ==
    /\ WF_vars(quit = "no" /\ ActionSteps /\ UNCHANGED viewVars)
    /\ \A p \in Views : WF_vars(quit = "no" /\ Emit(p))
    /\ WF_vars(quit = "no" /\ \E w \in waiters : RescueMsg(w) \/ ClosedMsg(w))

FairSpec == Spec /\ Fairness

-----------------------------------------------------------------------------
\* The rescues that have not said Done yet, or whose Done nobody has read.
Running == {p \in DOMAIN engine : engine[p] # [left |-> 0, buf |-> 0]}

\* A running rescue is never lost: it is the one the view shows, so that a
\* second one cannot be started, x reaches it, its events are waited for, and
\* of the keys that end the program only ctrl+c cuts it off: q refuses.
RescueIsWatched == \A p \in Running :
    /\ In({"running"}) /\ view.id = p
    /\ [plan |-> p, seq |-> view.seq] \in waiters
    /\ quit # "q"

\* No rescue starts while an action runs.
NoRescueOverAction ==
    [][engine' # engine /\ DOMAIN engine' # DOMAIN engine => ~actionRunning]_vars

\* The node an address is given to, and the one a plan is for, is the one the
\* operator put the cursor on, although probes reorder the list under it, as long
\* as that node stays on the list.
TargetIsChosen ==
    [][view # None /\ view.chosen # None =>
          /\ hosts' \subseteq hosts \cup {view.chosen}
          /\ StartRescuePreflight => view'.plan = view.chosen]_vars

\* A rescue that has been started ends, and the operator sees that it did, unless
\* ctrl+c ended the program first.
RescueEnds == In({"running"}) ~> (In({"done"}) \/ quit = "ctrl+c")

\* A rescue runs a plan that has passed its own preflight.  (The result of a
\* preflight that was left "is dropped".)
StartedIsChecked == DOMAIN engine \subseteq built
=============================================================================
