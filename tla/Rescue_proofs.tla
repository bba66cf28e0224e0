---------------------------- MODULE Rescue_proofs ----------------------------
(***************************************************************************)
(* Theorems about the etcd rescue: its overlay, the actions the screen is  *)
(* shared with, its plan, and the composition of the three.                *)
(***************************************************************************)
EXTENDS Rescue, TLAPS, FiniteSetTheorems, WellFoundedInduction

-----------------------------------------------------------------------------
(***************************************************************************)
(* The overlay, for any servers, numbers of views and events, and capacity *)
(* of the channel: a running rescue is the one on the screen, what is done *)
(* to a node is done to the one that was chosen, and of the actions the    *)
(* screen is shared with, a defragmentation has one member down at a time. *)
(*                                                                         *)
(* RescueIsWatched holds although a view's events outlive it, because the  *)
(* one way to a new view is through the end of the rescue (Waiting).       *)
(***************************************************************************)
\* The types of the view and the engines, as far as they are needed.
ViewTypeOK ==
    /\ view \in View \cup {None}
    /\ opened \in 0..MaxViews
    /\ DOMAIN engine \subseteq Views
    /\ engine = [p \in DOMAIN engine |-> engine[p]]
    /\ \A p \in DOMAIN engine : engine[p] \in [left : 0..Events, buf : 0..Cap]
    /\ waiters \subseteq [plan : DOMAIN engine, seq : 0..2]
    /\ quit \in {"no", "q", "ctrl+c"}

\* The view's counter moves with the preflight and with the start.
Counted ==
    view # None =>
        view.seq = CASE view.phase \in Picking \cup {"snap"} -> 0
                     [] view.phase \in {"preflight", "confirm"} -> 1
                     [] view.phase \in {"running", "done"} -> 2

\* The cursor is on a node, the one chosen if there is one.
Pointed ==
    view # None => /\ view.cur \in DOMAIN view.nodes
                   /\ view.chosen # None => Selected.name = view.chosen

\* What waits for events while a rescue runs waits for its events.
Waiting == In({"running"}) => \A w \in waiters : w = [plan |-> view.id, seq |-> view.seq]

IInv == ViewTypeOK /\ Counted /\ Pointed /\ Waiting /\ RescueIsWatched

\* What a step may do to nodes (TargetIsChosen).
Aimed ==
    view # None /\ view.chosen # None =>
        /\ hosts' \subseteq hosts \cup {view.chosen}
        /\ StartRescuePreflight => view'.plan = view.chosen

LEMMA MinOfNat == ASSUME NEW S \in SUBSET Nat, S # {} PROVE Min(S) \in S
<1>1. PICK x \in S : \A y \in S : <<y, x>> \notin OpToRel(<, Nat)
  BY WFMin, NatLessThanWellFounded, Zenon
<1>2. \A y \in S : ~(y < x)
  BY <1>1, Zenon DEF OpToRel
<1>3. \A y \in S : x <= y
  BY <1>2
<1> QED BY <1>3 DEF Min

LEMMA ListType == ASSUME NEW l \in CandidateLists PROVE l \in Seq(Candidate) /\ 1 \in DOMAIN l
<1>1. Cardinality(Node) \in Nat
  BY FS_CardinalityType, ViewAssumption
<1>2. l \in SeqOf(Candidate, Cardinality(Node)) /\ l # <<>>
  BY DEF CandidateLists
<1>3. PICK m \in 0..Cardinality(Node) : l \in [1..m -> Candidate]
  BY <1>2 DEF SeqOf
<1>4. l \in Seq(Candidate)
  BY <1>1, <1>3
<1> QED BY <1>2, <1>4

\* Nothing runs unless the view does.
LEMMA Idle == IInv /\ ~In({"running"}) => Running = {}
BY DEF IInv, RescueIsWatched

\* A step that only changes the view, and leaves no rescue running behind it.
LEMMA ViewOnly ==
    ASSUME IInv, ~In({"running"}), UNCHANGED <<engine, waiters, quit>>,
           opened' \in 0..MaxViews,
           view' \in View \cup {None}, Counted', Pointed', ~In({"running"})'
    PROVE  IInv'
<1>1. ViewTypeOK' /\ Waiting'
  BY DEF IInv, ViewTypeOK, Waiting
<1>2. Running' = {}
  BY Idle DEF Running
<1> QED BY <1>1, <1>2 DEF IInv, RescueIsWatched

\* The view is given up.
LEMMA LeaveInv ==
    ASSUME IInv, ~In({"running"}), Leave
    PROVE  IInv'
<1>1. view' = None /\ UNCHANGED <<opened, engine, waiters, quit>>
  BY DEF Leave
<1> QED BY <1>1, ViewOnly DEF IInv, ViewTypeOK, Counted, Pointed, In

LEMMA InitInv == Init => IInv
<1> SUFFICES ASSUME Init PROVE IInv
  OBVIOUS
<1>1. DOMAIN engine = {}
  BY DEF Init
<1>2. engine = [p \in DOMAIN engine |-> engine[p]]
  BY DEF Init
<1>3. ViewTypeOK
  <2>1. view = None /\ opened \in 0..MaxViews /\ quit = "no" /\ waiters = {}
    <3>1. view = None /\ opened = 0 /\ quit = "no" /\ waiters = {}
      BY DEF Init
    <3>2. 0 \in 0..MaxViews
      BY ViewAssumption
    <3> QED BY <3>1, <3>2
  <2>2. \A p \in DOMAIN engine : engine[p] \in [left : 0..Events, buf : 0..Cap]
    BY <1>1
  <2> QED BY <1>1, <1>2, <2>1, <2>2 DEF ViewTypeOK
<1> QED BY <1>1, <1>3 DEF Init, IInv, Counted, Pointed, Waiting, In, RescueIsWatched, Running

-----------------------------------------------------------------------------
(* Before the rescue                                                       *)

LEMMA OpenInv == ASSUME IInv, OpenRescue PROVE IInv'
<1>1. PICK l \in CandidateLists :
         view' = [id |-> opened + 1, phase |-> "mode", rejoin |-> FALSE, nodes |-> l, cur |-> 1,
                  chosen |-> None, plan |-> None, failed |-> FALSE, seq |-> 0]
  BY DEF OpenRescue, NewView
<1>2. /\ opened < MaxViews /\ opened' = opened + 1 /\ UNCHANGED <<engine, waiters, quit>>
      /\ ~In({"running"})
  BY DEF OpenRescue, NewView, In
<1>3. opened + 1 \in Views /\ opened + 1 \in 0..MaxViews
  BY <1>2, ViewAssumption DEF IInv, ViewTypeOK, Views
<1>4. view' \in View
  BY <1>1, <1>3, ListType DEF View, Phases, Picking
<1>5. Counted' /\ Pointed' /\ ~In({"running"})'
  BY <1>1, ListType DEF Counted, Pointed, Selected, In, Picking
<1> QED BY <1>2, <1>3, <1>4, <1>5, ViewOnly

\* A key that goes from one phase of the picker to another.
LEMMA GotoInv ==
    ASSUME IInv, NEW from \in SUBSET (Picking \cup {"snap"}), NEW to \in Picking \cup {"snap"},
           Key(from, Goto(to))
    PROVE  IInv'
<1>1. /\ view \in View /\ view.phase \in Picking \cup {"snap"} /\ view # None
      /\ view' = [view EXCEPT !.phase = to]
      /\ UNCHANGED <<opened, engine, waiters, quit>>
  BY DEF Key, In, Goto, IInv, ViewTypeOK
<1>2. view' \in View /\ view'.phase = to /\ view'.seq = view.seq /\ view'.cur = view.cur
      /\ view'.nodes = view.nodes /\ view'.chosen = view.chosen
  BY <1>1 DEF View, Phases
<1>3. view.seq = 0
  BY <1>1 DEF IInv, Counted, Picking
<1>4. Counted' /\ Pointed' /\ ~In({"running"})' /\ ~In({"running"})
  BY <1>1, <1>2, <1>3 DEF IInv, Counted, Pointed, Selected, In, Picking
<1> QED BY <1>1, <1>2, <1>4, ViewOnly DEF IInv, ViewTypeOK

\* A key that puts the cursor on a node.
LEMMA CursorInv ==
    ASSUME IInv, In({"mode", "node"}), NEW i \in DOMAIN view.nodes, NEW r \in BOOLEAN,
           view' = [view EXCEPT !.phase = "node", !.rejoin = r, !.cur = i, !.chosen = view.nodes[i].name],
           UNCHANGED <<opened, engine, waiters, quit>>
    PROVE  IInv'
<1>1. view \in View /\ view # None /\ view.phase \in {"mode", "node"}
  BY DEF In, IInv, ViewTypeOK
<1>2. view.nodes \in Seq(Candidate) /\ i \in Nat /\ view.nodes[i].name \in Node
  <2>1. view.nodes \in Seq(Candidate)
    BY <1>1 DEF View
  <2>2. i \in Nat /\ view.nodes[i] \in Candidate
    BY <2>1
  <2> QED BY <2>1, <2>2 DEF Candidate
<1>3. /\ view' \in View /\ view'.phase = "node" /\ view'.seq = view.seq /\ view'.cur = i
      /\ view'.nodes = view.nodes /\ view'.chosen = view.nodes[i].name
  BY <1>1, <1>2 DEF View, Phases, Picking
<1>4. view.seq = 0
  BY <1>1 DEF IInv, Counted, Picking
<1>5. Counted' /\ Pointed' /\ ~In({"running"})' /\ ~In({"running"})
  BY <1>1, <1>3, <1>4 DEF Counted, Pointed, Selected, In, Picking
<1> QED BY <1>3, <1>5, ViewOnly DEF IInv, ViewTypeOK

LEMMA ChooseModeInv == ASSUME IInv, NEW rejoin \in BOOLEAN, ChooseMode(rejoin) PROVE IInv'
<1> DEFINE Broken == {i \in DOMAIN view.nodes : view.nodes[i].state = "broken"}
           cur == IF rejoin /\ Broken # {} THEN Min(Broken) ELSE 1
<1>1. In({"mode"}) /\ view \in View
  BY DEF ChooseMode, Key, In, IInv, ViewTypeOK
<1>2. view.nodes \in Seq(Candidate) /\ view.cur \in DOMAIN view.nodes
  BY <1>1 DEF View, In, IInv, Pointed
<1>3. Broken # {} => Min(Broken) \in Broken
  <2>1. Broken \in SUBSET Nat
    BY <1>2
  <2> HIDE DEF Broken
  <2> QED BY <2>1, MinOfNat
<1>4. 1 \in DOMAIN view.nodes
  BY <1>2
<1>5. cur \in DOMAIN view.nodes
  BY <1>3, <1>4
<1>6. /\ view' = [view EXCEPT !.phase = "node", !.rejoin = rejoin, !.cur = cur,
                              !.chosen = view.nodes[cur].name]
      /\ UNCHANGED <<opened, engine, waiters, quit>>
  BY DEF ChooseMode, Key
<1> HIDE DEF cur
<1> QED BY <1>1, <1>5, <1>6, CursorInv DEF In

LEMMA MoveCursorInv == ASSUME IInv, NEW i \in Nat, MoveCursor(i) PROVE IInv'
<1>1. In({"node"}) /\ view \in View /\ i \in DOMAIN view.nodes
  BY DEF MoveCursor, In, IInv, ViewTypeOK
<1>2. view' = [view EXCEPT !.cur = i, !.chosen = view.nodes[i].name]
      /\ UNCHANGED <<opened, engine, waiters, quit>>
  BY DEF MoveCursor, Key
<1>3. view.rejoin \in BOOLEAN /\ view.phase = "node"
  BY <1>1 DEF View, In
<1>4. view' = [view EXCEPT !.phase = "node", !.rejoin = view.rejoin, !.cur = i,
                           !.chosen = view.nodes[i].name]
  BY <1>1, <1>2, <1>3 DEF View
<1> QED BY <1>1, <1>2, <1>3, <1>4, CursorInv DEF In

LEMMA EnterAddressInv == ASSUME IInv, EnterAddress PROVE IInv' /\ Aimed
<1>1. /\ view \in View /\ view.phase = "addr" /\ view # None
      /\ view' = [view EXCEPT !.phase = "node"] /\ hosts' = hosts \cup {Selected.name}
      /\ UNCHANGED <<opened, engine, waiters, quit>>
  BY DEF EnterAddress, In, Goto, IInv, ViewTypeOK
<1>2. view' \in View /\ view'.phase = "node" /\ view'.seq = view.seq /\ view'.cur = view.cur
      /\ view'.nodes = view.nodes /\ view'.chosen = view.chosen
  BY <1>1 DEF View, Phases, Picking
<1>3. Counted' /\ Pointed' /\ ~In({"running"})' /\ ~In({"running"})
  BY <1>1, <1>2 DEF IInv, Counted, Pointed, Selected, In, Picking
<1>4. IInv'
  BY <1>1, <1>2, <1>3, ViewOnly DEF IInv, ViewTypeOK
<1>5. Aimed
  BY <1>1 DEF IInv, Pointed, Aimed, StartRescuePreflight, In
<1> QED BY <1>4, <1>5

LEMMA EtcdMsgInv == ASSUME IInv, EtcdMsg PROVE IInv'
<1>1. PICK l \in CandidateLists : view' = Refreshed(l)
  BY DEF EtcdMsg
<1> DEFINE same == {i \in DOMAIN l : l[i].name = Selected.name}
           cur == IF same = {} THEN 1 ELSE Min(same)
           chosen == IF view.chosen \in Names(l) THEN view.chosen ELSE None
<1>2. view \in View /\ view # None /\ view.phase \in Picking /\ UNCHANGED <<opened, engine, waiters, quit>>
  BY DEF EtcdMsg, In, IInv, ViewTypeOK
<1>3. view' = [view EXCEPT !.nodes = l, !.cur = cur, !.chosen = chosen]
  BY <1>1 DEF Refreshed
<1>4. l \in Seq(Candidate) /\ 1 \in DOMAIN l
  BY ListType
<1>5. same # {} => Min(same) \in same
  <2>1. same \in SUBSET Nat
    BY <1>4
  <2> HIDE DEF same
  <2> QED BY <2>1, MinOfNat
<1>6. cur \in DOMAIN l /\ cur \in Nat
  BY <1>4, <1>5
<1>7. chosen # None => l[cur].name = chosen
  <2> SUFFICES ASSUME chosen # None PROVE l[cur].name = chosen
    OBVIOUS
  <2>1. chosen = view.chosen /\ view.chosen \in Names(l) /\ Selected.name = view.chosen
    BY <1>2 DEF IInv, Pointed
  <2>2. same # {}
    BY <2>1 DEF Names
  <2> QED BY <1>5, <2>1, <2>2
<1>8. chosen \in Node \cup {None}
  BY <1>2 DEF View
<1> HIDE DEF same, cur, chosen
<1>9. /\ view' \in View /\ view'.nodes = l /\ view'.cur = cur /\ view'.chosen = chosen
      /\ view'.phase = view.phase /\ view'.seq = view.seq
  BY <1>2, <1>3, <1>4, <1>6, <1>8 DEF View
<1>10. Counted' /\ Pointed' /\ ~In({"running"})' /\ ~In({"running"})
  BY <1>2, <1>6, <1>7, <1>9 DEF IInv, Counted, Pointed, Selected, In, Picking
<1> QED BY <1>2, <1>9, <1>10, ViewOnly DEF IInv, ViewTypeOK

LEMMA StartPreflightInv == ASSUME IInv, StartRescuePreflight PROVE IInv' /\ Aimed
<1>1. /\ view \in View /\ view.phase \in {"node", "snap"} /\ view # None
      /\ view' = [view EXCEPT !.phase = "preflight", !.plan = Selected.name, !.seq = @ + 1]
      /\ UNCHANGED <<opened, engine, waiters, quit, hosts>>
  BY DEF StartRescuePreflight, In, IInv, ViewTypeOK
<1>2. view.seq = 0
  BY <1>1 DEF IInv, Counted, Picking
<1>3. Selected.name \in Node
  <2>1. view.nodes \in Seq(Candidate) /\ view.cur \in DOMAIN view.nodes
    BY <1>1 DEF View, IInv, Pointed
  <2>2. Selected \in Candidate
    BY <2>1 DEF Selected
  <2> QED BY <2>2 DEF Candidate
<1>4. /\ view' \in View /\ view'.phase = "preflight" /\ view'.seq = 1 /\ view'.cur = view.cur
      /\ view'.nodes = view.nodes /\ view'.chosen = view.chosen /\ view'.plan = Selected.name
  <2>1. view' = [view EXCEPT !.phase = "preflight", !.plan = Selected.name, !.seq = 1]
    BY <1>1, <1>2
  <2>2. "preflight" \in Phases /\ 1 \in 0..2 /\ Selected.name \in Node \cup {None}
    BY <1>3 DEF Phases
  <2> QED BY <1>1, <2>1, <2>2 DEF View
<1>5. Counted' /\ Pointed' /\ ~In({"running"})' /\ ~In({"running"})
  BY <1>1, <1>4 DEF IInv, Counted, Pointed, Selected, In, Picking
<1>6. IInv'
  BY <1>1, <1>4, <1>5, ViewOnly DEF IInv, ViewTypeOK
<1> QED BY <1>1, <1>4, <1>6 DEF IInv, Pointed, Aimed

LEMMA PreflightMsgInv ==
    ASSUME IInv, NEW p \in Views, NEW ok \in BOOLEAN, RescuePreflightMsg(p, ok)
    PROVE  IInv'
<1>1. UNCHANGED <<opened, engine, waiters, quit>>
  BY DEF RescuePreflightMsg
<1>2. CASE In({"preflight"}) /\ view.seq = 1
  <2>1. view \in View /\ view # None /\ view.phase = "preflight"
        /\ view' = [view EXCEPT !.phase = "confirm", !.failed = ~ok]
    BY <1>2 DEF RescuePreflightMsg, In, IInv, ViewTypeOK
  <2>2. /\ view' \in View /\ view'.phase = "confirm" /\ view'.seq = view.seq /\ view'.cur = view.cur
        /\ view'.nodes = view.nodes /\ view'.chosen = view.chosen
    BY <2>1 DEF View, Phases
  <2>3. Counted' /\ Pointed' /\ ~In({"running"})' /\ ~In({"running"})
    BY <1>2, <2>1, <2>2 DEF IInv, Counted, Pointed, Selected, In, Picking
  <2> QED BY <1>1, <2>2, <2>3, ViewOnly DEF IInv, ViewTypeOK
<1>3. CASE ~(In({"preflight"}) /\ view.seq = 1)
  <2>1. view' = view
    BY <1>3 DEF RescuePreflightMsg
  <2> QED BY <1>1, <2>1 DEF IInv, ViewTypeOK, Counted, Pointed, Selected, Waiting, In, RescueIsWatched, Running
<1> QED BY <1>2, <1>3

-----------------------------------------------------------------------------
(* The rescue                                                              *)

LEMMA StartRescueInv == ASSUME IInv, quit = "no", StartRescue PROVE IInv'
<1> DEFINE new == [left |-> IF view.id \in built THEN Events ELSE 1, buf |-> 0]
<1>1. /\ view \in View /\ view.phase = "confirm" /\ view # None /\ waiters = {}
      /\ view' = [view EXCEPT !.phase = "running", !.seq = @ + 1]
      /\ engine' = [p \in DOMAIN engine \cup {view.id} |-> IF p = view.id THEN new ELSE engine[p]]
      /\ waiters' = {[plan |-> view.id, seq |-> view.seq + 1]}
      /\ UNCHANGED <<opened, quit>>
  BY DEF StartRescue, In, IInv, ViewTypeOK
<1>2. view.seq = 1 /\ view.id \in Views
  BY <1>1 DEF IInv, Counted, Picking, View
<1>3. /\ view' \in View /\ view'.phase = "running" /\ view'.seq = 2 /\ view'.cur = view.cur
      /\ view'.nodes = view.nodes /\ view'.chosen = view.chosen /\ view'.id = view.id
  <2>1. view' = [view EXCEPT !.phase = "running", !.seq = 2]
    BY <1>1, <1>2
  <2>2. "running" \in Phases /\ 2 \in 0..2
    BY DEF Phases
  <2> QED BY <1>1, <2>1, <2>2 DEF View
<1>4. new \in [left : 0..Events, buf : 0..Cap]
  BY ViewAssumption
<1> HIDE DEF new
<1>5. DOMAIN engine' = DOMAIN engine \cup {view.id}
      /\ \A p \in DOMAIN engine' : engine'[p] = IF p = view.id THEN new ELSE engine[p]
  BY <1>1
<1>6. engine' = [p \in DOMAIN engine' |-> engine'[p]]
  BY <1>1
<1>7. ViewTypeOK'
  BY <1>1, <1>2, <1>3, <1>4, <1>5, <1>6 DEF IInv, ViewTypeOK
<1>8. Counted' /\ Pointed' /\ Waiting'
  BY <1>1, <1>2, <1>3, ViewAssumption DEF IInv, Counted, Pointed, Selected, Waiting, In, Picking
<1>9. Running' \subseteq {view.id}
  <2>1. Running = {}
    BY <1>1, Idle DEF In
  <2> QED BY <1>5, <2>1 DEF Running
<1>10. In({"running"})'
  BY <1>3, ViewAssumption DEF In
<1> QED BY <1>1, <1>2, <1>3, <1>7, <1>8, <1>9, <1>10 DEF IInv, RescueIsWatched

\* The engine whose events somebody waits for, or that goes on, is the view's.
LEMMA EngineStep ==
    ASSUME IInv, NEW p \in DOMAIN engine, NEW e \in [left : 0..Events, buf : 0..Cap],
           p \in Running, engine' = [engine EXCEPT ![p] = e],
           UNCHANGED <<view, opened, waiters, quit>>
    PROVE  IInv'
<1>1. /\ DOMAIN engine' = DOMAIN engine /\ engine' = [q \in DOMAIN engine' |-> engine'[q]]
      /\ \A q \in DOMAIN engine : engine'[q] = IF q = p THEN e ELSE engine[q]
  BY DEF IInv, ViewTypeOK
<1>2. ViewTypeOK'
  BY <1>1 DEF IInv, ViewTypeOK
<1>3. Counted' /\ Pointed' /\ Waiting'
  BY DEF IInv, Counted, Pointed, Selected, Waiting, In
<1>4. Running' \subseteq Running
  BY <1>1 DEF Running
<1> QED BY <1>2, <1>3, <1>4 DEF IInv, RescueIsWatched, In

LEMMA EmitInv == ASSUME IInv, NEW p \in Views, Emit(p) PROVE IInv'
<1> DEFINE e == [engine[p] EXCEPT !.left = @ - 1, !.buf = @ + 1]
<1>1. /\ p \in DOMAIN engine /\ engine[p].left > 0 /\ engine[p].buf < Cap
      /\ engine' = [engine EXCEPT ![p] = e]
      /\ UNCHANGED <<view, opened, waiters, quit>>
  BY DEF Emit
<1>2. engine[p] \in [left : 0..Events, buf : 0..Cap]
  BY <1>1 DEF IInv, ViewTypeOK
<1>3. e \in [left : 0..Events, buf : 0..Cap]
  <2>1. engine[p].left - 1 \in 0..Events /\ engine[p].buf + 1 \in 0..Cap
    BY <1>1, <1>2, ViewAssumption
  <2> QED BY <1>2, <2>1
<1>4. p \in Running
  BY <1>1, <1>2 DEF Running
<1> HIDE DEF e
<1> QED BY <1>1, <1>3, <1>4, EngineStep

LEMMA AbortInv == ASSUME IInv, Abort PROVE IInv'
<1> DEFINE p == view.id
           e == [engine[p] EXCEPT !.left = 2]
<1>1. In({"running"}) /\ engine[p].left > 2 /\ engine' = [engine EXCEPT ![p] = e]
      /\ UNCHANGED <<view, opened, waiters, quit>>
  BY DEF Abort
<1>2. CASE p \in DOMAIN engine
  <2>1. engine[p] \in [left : 0..Events, buf : 0..Cap]
    BY <1>2 DEF IInv, ViewTypeOK
  <2>2. e \in [left : 0..Events, buf : 0..Cap]
    BY <1>1, <2>1, ViewAssumption
  <2>3. p \in Running
    BY <1>1, <1>2, <2>1 DEF Running
  <2> HIDE DEF e, p
  <2> QED BY <1>1, <1>2, <2>2, <2>3, EngineStep
<1>3. CASE p \notin DOMAIN engine
  <2>1. engine' = engine
    BY <1>1, <1>3 DEF IInv, ViewTypeOK
  <2> QED BY <1>1, <2>1 DEF IInv, ViewTypeOK, Counted, Pointed, Selected, Waiting, In, RescueIsWatched, Running
<1> QED BY <1>2, <1>3

LEMMA RescueMsgInv == ASSUME IInv, NEW w \in waiters, RescueMsg(w) PROVE IInv'
<1> DEFINE p == w.plan
           e == [engine[p] EXCEPT !.buf = @ - 1]
           last == engine[p].left = 0 /\ engine[p].buf = 1
<1>1. p \in DOMAIN engine /\ engine[p] \in [left : 0..Events, buf : 0..Cap] /\ engine[p].buf > 0
  BY DEF RescueMsg, IInv, ViewTypeOK
<1>2. p \in Running
  BY <1>1 DEF Running
<1>3. /\ view \in View /\ view # None /\ view.phase = "running" /\ view.id = p /\ quit # "q"
      /\ waiters = {w} /\ w = [plan |-> view.id, seq |-> view.seq]
  BY <1>2 DEF IInv, ViewTypeOK, Waiting, RescueIsWatched, In
<1>4. engine' = [engine EXCEPT ![p] = e] /\ waiters' = waiters /\ UNCHANGED <<opened, quit>>
  BY <1>3 DEF RescueMsg
<1>5. view' = IF last THEN Goto("done") ELSE view
  BY <1>3 DEF RescueMsg
<1>6. e \in [left : 0..Events, buf : 0..Cap]
  BY <1>1, ViewAssumption
<1>7. CASE ~last
  <2> HIDE DEF e, p
  <2> QED BY <1>1, <1>2, <1>4, <1>5, <1>6, <1>7, EngineStep
<1>8. CASE last
  <2>1. e = [left |-> 0, buf |-> 0]
    BY <1>1, <1>8
  <2>2. /\ DOMAIN engine' = DOMAIN engine /\ engine' = [q \in DOMAIN engine' |-> engine'[q]]
        /\ \A q \in DOMAIN engine : engine'[q] = IF q = p THEN e ELSE engine[q]
    BY <1>4 DEF IInv, ViewTypeOK
  <2>3. \A q \in DOMAIN engine : q # p => engine[q] = [left |-> 0, buf |-> 0]
    BY <1>3 DEF IInv, RescueIsWatched, Running
  <2>4. Running' = {}
    BY <2>1, <2>2, <2>3 DEF Running
  <2>5. /\ view' \in View /\ view'.phase = "done" /\ view'.seq = view.seq /\ view'.cur = view.cur
        /\ view'.nodes = view.nodes /\ view'.chosen = view.chosen
    BY <1>3, <1>5, <1>8 DEF Goto, View, Phases
  <2>6. ViewTypeOK'
    BY <1>1, <1>4, <1>6, <2>2, <2>5 DEF IInv, ViewTypeOK
  <2>7. Counted' /\ Pointed' /\ Waiting'
    BY <1>3, <2>5 DEF IInv, Counted, Pointed, Selected, Waiting, In, Picking
  <2> QED BY <2>4, <2>6, <2>7 DEF IInv, RescueIsWatched
<1> QED BY <1>7, <1>8

LEMMA ClosedMsgInv == ASSUME IInv, NEW w \in waiters, ClosedMsg(w) PROVE IInv'
<1>1. engine[w.plan] = [left |-> 0, buf |-> 0] /\ waiters' = waiters \ {w} /\ UNCHANGED <<opened, engine, quit>>
  BY DEF ClosedMsg
<1>2. CASE In({"running"})
  <2>1. /\ view \in View /\ view # None /\ view.phase = "running"
        /\ w.plan = view.id /\ w.seq = view.seq
    BY <1>2 DEF IInv, ViewTypeOK, Waiting, In
  <2>2. Running = {}
    BY <1>1, <2>1 DEF IInv, RescueIsWatched, Running
  <2>3. view' = [view EXCEPT !.phase = "done"]
    BY <1>2, <2>1 DEF ClosedMsg, Goto
  <2>4. /\ view' \in View /\ view'.phase = "done" /\ view'.seq = view.seq /\ view'.cur = view.cur
        /\ view'.nodes = view.nodes /\ view'.chosen = view.chosen
    BY <2>1, <2>3 DEF View, Phases
  <2>5. ViewTypeOK'
    BY <1>1, <2>4 DEF IInv, ViewTypeOK
  <2>6. Counted' /\ Pointed' /\ Waiting'
    BY <2>1, <2>4 DEF IInv, Counted, Pointed, Selected, Waiting, In, Picking
  <2>7. Running' = {}
    BY <1>1, <2>2 DEF Running
  <2> QED BY <2>5, <2>6, <2>7 DEF IInv, RescueIsWatched
<1>3. CASE ~In({"running"})
  <2>1. view' = view
    BY <1>3 DEF ClosedMsg
  <2>2. Running' = {}
    BY <1>1, <1>3, Idle DEF Running
  <2> QED BY <1>1, <1>3, <2>1, <2>2 DEF IInv, ViewTypeOK, Counted, Pointed, Selected, Waiting, In, RescueIsWatched
<1> QED BY <1>2, <1>3

LEMMA QuitInv == ASSUME IInv, Quit PROVE IInv'
<1>1. quit' = "q" /\ UNCHANGED <<view, opened, engine, waiters>> /\ ~In({"running"})
  BY DEF Quit
<1>2. Running' = {}
  BY <1>1, Idle DEF Running
<1> QED BY <1>1, <1>2 DEF IInv, ViewTypeOK, Counted, Pointed, Selected, Waiting, In, RescueIsWatched

\* ctrl+c ends the program, nothing else of the view changes.
LEMMA InterruptInv == ASSUME IInv, Interrupt PROVE IInv'
BY DEF Interrupt, IInv, ViewTypeOK, Counted, Pointed, Selected, Waiting, In, RescueIsWatched, Running

\* A step of the rest of the program.
LEMMA OtherInv == ASSUME IInv, UNCHANGED viewVars PROVE IInv'
BY DEF viewVars, IInv, ViewTypeOK, Counted, Pointed, Selected, Waiting, In, RescueIsWatched, Running

-----------------------------------------------------------------------------
LEMMA PickerInv ==
    ASSUME IInv, AskAddress \/ ListSnapshots \/ Back
    PROVE  IInv'
<1>1. PICK from \in SUBSET (Picking \cup {"snap"}), to \in Picking \cup {"snap"} : Key(from, Goto(to))
  BY DEF AskAddress, ListSnapshots, Back, Picking
<1> QED BY <1>1, GotoInv

LEMMA LeavesInv ==
    ASSUME IInv, CancelMode \/ CancelPreflight \/ CancelConfirm \/ CloseDone
    PROVE  IInv'
<1>1. ~In({"running"}) /\ Leave
  BY DEF CancelMode, CancelPreflight, CancelConfirm, CloseDone, In
<1> QED BY <1>1, LeaveInv

LEMMA KeysInv == ASSUME IInv, quit = "no", Keys PROVE IInv'
<1>1. CASE UNCHANGED viewVars
  BY <1>1, OtherInv
<1>2. CASE \E rejoin \in BOOLEAN : ChooseMode(rejoin)
  BY <1>2, ChooseModeInv
<1>3. CASE \E i \in 1..Cardinality(Node) : MoveCursor(i)
  <2>1. Cardinality(Node) \in Nat
    BY FS_CardinalityType, ViewAssumption
  <2> QED BY <1>3, <2>1, MoveCursorInv
<1>4. CASE AskAddress \/ ListSnapshots \/ Back
  BY <1>4, PickerInv
<1>5. CASE CancelMode \/ CancelPreflight \/ CancelConfirm \/ CloseDone
  BY <1>5, LeavesInv
<1>6. CASE OpenRescue \/ EnterAddress \/ StartRescuePreflight \/ StartRescue \/ Abort \/ Quit \/ Interrupt
  BY <1>6, InterruptInv, OpenInv, EnterAddressInv, StartPreflightInv, StartRescueInv, AbortInv, QuitInv
<1>7. CASE ShowAgain \/ Hide
  BY <1>7, OtherInv DEF ShowAgain, Hide
<1> QED BY <1>1, <1>2, <1>3, <1>4, <1>5, <1>6, <1>7 DEF Keys

LEMMA StepInv == ASSUME IInv, [Next]_vars PROVE IInv'
<1>1. CASE quit = "no" /\ Background
  <2>1. CASE UNCHANGED viewVars
    BY <2>1, OtherInv
  <2>2. CASE \E p \in Views : Emit(p) \/ \E ok \in BOOLEAN : RescuePreflightMsg(p, ok)
    BY <2>2, EmitInv, PreflightMsgInv
  <2>3. CASE \E w \in waiters : RescueMsg(w) \/ ClosedMsg(w)
    BY <2>3, RescueMsgInv, ClosedMsgInv
  <2> QED BY <1>1, <2>1, <2>2, <2>3 DEF Background
<1>2. CASE quit = "no" /\ EtcdMsg
  BY <1>2, EtcdMsgInv
<1>3. CASE quit = "no" /\ Keys
  BY <1>3, KeysInv
<1>4. CASE UNCHANGED vars
  BY <1>4, OtherInv DEF vars
<1> QED BY <1>1, <1>2, <1>3, <1>4 DEF Next

\* Addresses are only entered, and plans only made, on the node under the cursor.
LEMMA StepAimed == ASSUME IInv, [Next]_vars PROVE Aimed
<1>1. CASE StartRescuePreflight
  BY <1>1, StartPreflightInv
<1>2. CASE EnterAddress
  BY <1>2, EnterAddressInv
<1>3. CASE ~StartRescuePreflight /\ UNCHANGED hosts
  BY <1>3 DEF Aimed
<1>4. StartRescuePreflight \/ EnterAddress \/ UNCHANGED hosts
  BY DEF Next, Background, EtcdMsg, Keys, vars, viewVars, Emit, RescuePreflightMsg, RescueMsg, ClosedMsg,
         ShowAgain, OpenRescue, NewView, CancelMode, CancelPreflight, CancelConfirm, CloseDone, Leave,
         AskAddress, ListSnapshots, Back, ChooseMode, MoveCursor, Key, StartRescue, Hide, Abort, Quit, Interrupt
<1> QED BY <1>1, <1>2, <1>3, <1>4

\* A running rescue is on the screen and waited for: nothing leads to a second
\* one or to an engine nobody reads (handleRescueMsg, openRescue), and no key but
\* ctrl+c ends the program under it (handleKey).
THEOREM NoLostRescue == Spec => []RescueIsWatched
<1>1. IInv => RescueIsWatched
  BY DEF IInv
<1>2. Init => IInv
  BY InitInv
<1>3. IInv /\ [Next]_vars => IInv'
  BY StepInv
<1> QED BY <1>1, <1>2, <1>3, PTL DEF Spec

\* Addresses and plans are for the node that was chosen, however probes
\* reorder the list (rescueRefresh, startRescuePreflight).
THEOREM ChosenIsTarget == Spec => TargetIsChosen
<1>1. Init => IInv
  BY InitInv
<1>2. IInv /\ [Next]_vars => IInv'
  BY StepInv
<1>3. IInv /\ [Next]_vars =>
        (view # None /\ view.chosen # None =>
           /\ hosts' \subseteq hosts \cup {view.chosen}
           /\ StartRescuePreflight => view'.plan = view.chosen)
  BY StepAimed DEF Aimed
<1> QED BY <1>1, <1>2, <1>3, PTL DEF Spec, TargetIsChosen
-----------------------------------------------------------------------------
(* The defragmentation                                                     *)

\* Members wait their turn only while nobody is down but the one at work.
DefragInv ==
    act # None =>
        /\ act = [kind |-> act.kind, at |-> act.at, down |-> act.down, left |-> act.left]
        /\ act.left \in Seq(Member)
        /\ act.at = None /\ act.left # <<>> => act.down = {}
        /\ act.at # None => act.at \in Member /\ act.down = {act.at}
        /\ act.down = {} \/ \E m \in Member : act.down = {m}

LEMMA SetToSeqType ==
    ASSUME NEW S \in SUBSET Member
    PROVE  SetToSeq(S) \in Seq(Member)
<1>1. IsFiniteSet(S)
  BY FS_Subset, ActionsAssumption
<1>2. Cardinality(S) \in Nat /\ ExistsBijection(1..Cardinality(S), S)
  BY <1>1, FS_CardinalityType
<1>3. PICK f \in Bijection(1..Cardinality(S), S) : TRUE
  BY <1>2 DEF ExistsBijection
<1>4. f \in [1..Cardinality(S) -> S] /\ IsInjective(f)
  BY <1>3 DEF Bijection, Injection
<1>5. SetToSeq(S) \in [1..Cardinality(S) -> S]
  BY <1>4 DEF SetToSeq
<1> QED BY <1>2, <1>5

LEMMA ConfirmDefrag == ASSUME ConfirmAction PROVE DefragInv'
<1>1. PICK S \in SUBSET Member, leader \in Member :
         act' = [kind |-> pendingAct, at |-> None, down |-> {},
                 left |-> IF pendingAct = "defrag" THEN DefragOrder(S, leader) ELSE <<>>]
  BY DEF ConfirmAction
<1>2. DefragOrder(S, leader) \in Seq(Member)
  <2>1. SetToSeq(S \ {leader}) \in Seq(Member)
    BY SetToSeqType
  <2> QED BY <2>1 DEF DefragOrder
<1> QED BY <1>1, <1>2 DEF DefragInv

LEMMA DefragStep == ASSUME DefragInv, ActionSteps PROVE DefragInv'
<1>1. CASE DefragNext
  <2>1. act.left \in Seq(Member) /\ act.left # <<>> /\ act.at = None /\ act.down = {}
    BY <1>1 DEF DefragNext, DefragInv
  <2> DEFINE m == Head(act.left)
             rest == Tail(act.left)
  <2>2. m \in Member /\ rest \in Seq(Member)
    BY <2>1
  <2>3. act' = [kind |-> act.kind, at |-> m, down |-> {m}, left |-> rest]
    BY <1>1, <2>1 DEF DefragNext, DefragInv
  <2>4. m # None
    BY <2>2, ActionsAssumption
  <2> HIDE DEF m, rest
  <2> QED BY <2>2, <2>3, <2>4 DEF DefragInv
<1>2. CASE DefragHealthy
  <2>1. act.down = {act.at} /\ act.left \in Seq(Member)
    BY <1>2 DEF DefragHealthy, DefragInv
  <2>2. act' = [kind |-> act.kind, at |-> None, down |-> {}, left |-> act.left]
    BY <1>2, <2>1 DEF DefragHealthy, DefragInv
  <2> QED BY <2>1, <2>2 DEF DefragInv
<1>3. CASE DefragFails
  <2>1. act' = [kind |-> act.kind, at |-> None, down |-> act.down, left |-> <<>>]
    BY <1>3 DEF DefragFails, DefragInv
  <2>2. act # None
    BY <1>3 DEF DefragFails
  <2> QED BY <2>1, <2>2 DEF DefragInv
<1>4. CASE ActionDone
  BY <1>4 DEF ActionDone, DefragInv
<1> QED BY <1>1, <1>2, <1>3, <1>4 DEF ActionSteps

LEMMA DefragHolds == ASSUME DefragInv, [Next]_vars PROVE DefragInv'
<1>1. CASE UNCHANGED act
  BY <1>1 DEF DefragInv
<1>2. CASE ConfirmAction
  BY <1>2, ConfirmDefrag
<1>3. CASE ActionSteps
  BY <1>3, DefragStep
<1>4. UNCHANGED act \/ ConfirmAction \/ ActionSteps
  BY DEF Next, Background, EtcdMsg, Keys, ActionKeys, vars, actionVars, Emit, RescuePreflightMsg,
         RescueMsg, ClosedMsg, ShowAgain, OpenRescue, NewView, CancelMode, CancelPreflight,
         CancelConfirm, CloseDone, Leave, AskAddress, EnterAddress, ListSnapshots, Back, ChooseMode,
         MoveCursor, Key, StartRescuePreflight, StartRescue, Hide, Abort, Quit, Interrupt, AskAction,
         AskRevision, PickRevision, CancelAction, CloseDetail
<1> QED BY <1>1, <1>2, <1>3, <1>4

\* A defragmentation has at most one member down, for any members and any order
\* the view gives them: it goes on only when the one it stopped serves (Defrag).
THEOREM DefragOneAtATime == Spec => []OneMemberDown
<1>1. Init => DefragInv
  BY DEF Init, ActionsInit, DefragInv
<1>2. DefragInv /\ [Next]_vars => DefragInv'
  BY DefragHolds
<1>3. DefragInv => OneMemberDown
  <2> SUFFICES ASSUME DefragInv, act # None PROVE Cardinality(act.down) <= 1
    BY DEF OneMemberDown
  <2>1. act.down = {} \/ \E m \in Member : act.down = {m}
    BY DEF DefragInv
  <2>2. Cardinality(act.down) \in {0, 1}
    BY <2>1, FS_EmptySet, FS_Singleton
  <2> QED BY <2>2
<1> QED BY <1>1, <1>2, <1>3, PTL DEF Spec

-----------------------------------------------------------------------------
(***************************************************************************)
(* The plan, for any number of followers, any plan of either kind, and any *)
(* failures, losses, aborts and races with the servers: no cluster is      *)
(* founded by accident, what is left behind is reported, success means     *)
(* that everybody is back, the agents come last, and a restore implements  *)
(* Cutover.                                                                *)
(*                                                                         *)
(* None of them is inductive: all rest on how the plan is laid out.  Laid  *)
(* says this of a plan without its indices (the classes of steps come one  *)
(* after the other, every server is stopped, saved and started, a cleanup  *)
(* follows what it cleans up after, and the plan ends with waits for       *)
(* everybody) and PlanIsLaid proves it of every plan there is.  PlanInv    *)
(* then relates the servers, the agents and the members to which steps     *)
(* were begun (Begun) and which have succeeded (Past).                     *)
(***************************************************************************)
(* The plan as it is laid out *)

\* Where a step stands in a plan: the steps of one class come one after the
\* other, the classes in this order.  (A "tend" may stand anywhere.)
Class(s) ==
    CASE s.op = "agentStop" -> 1
      [] s.op = "stop" -> 2
      [] s.op = "backup" -> 3
      [] s.op \in {"reset", "restore", "remove"} -> 4
      [] s.op = "start" /\ s.node = Target -> 5
      [] s.op = "up" -> 6
      [] s.op = "agentStart" -> 8
      [] OTHER -> 7

Ops == {"agentStop", "stop", "backup", "reset", "restore", "remove", "tend", "start", "up",
        "member", "cleanup", "add", "patch", "promote", "agentStart"}

\* What a step of the plan may be.
PlanStep ==
    {s \in [op : Ops, node : Parts, want : Int, peers : SUBSET Others] :
        /\ s.op \in {"agentStop", "agentStart"} => s.node \in ToSet(AgentNodes)
        /\ s.op \in {"stop", "backup"} => s.node \in ToSet(Touched)
        /\ s.op \in {"reset", "restore", "up"} => s.node = Target /\ ~plan.rejoin
        /\ s.op = "start" /\ s.node = Target => ~plan.rejoin
        /\ s.op \in {"reset", "remove", "cleanup", "up"} => RKE2
        /\ s.op \in {"restore", "add", "patch", "promote"} => ~RKE2
        /\ s.op \in {"remove", "add", "patch"} => s.node # Target
        /\ s.op = "remove" => plan.rejoin}

\* Steps of op on n.
Is(s, op, n) == s.op = op /\ s.node = n

\* Waits for servers to be back, and what comes after the last of them and
\* leaves the servers as they are.
Waits == {"member", "promote"}
After == {"cleanup", "agentStart", "tend"}
IsLast(s, f) == f \in DOMAIN s /\ s[f].op = "member" /\ \A j \in DOMAIN s : j > f => s[j].op \in After

\* In a part of a plan the steps are in the order of their classes, from lo to
\* hi; a kubeadm follower's manifest is patched before the follower is started;
\* a follower's drop-in is removed when the follower is back, and after its start.
InOrder(s, lo, hi) ==
    /\ s \in Seq(PlanStep)
    /\ \A i \in DOMAIN s : s[i].op # "tend" => Class(s[i]) \in lo..hi
    /\ \A i, j \in DOMAIN s :
          i < j /\ s[i].op # "tend" /\ s[j].op # "tend" =>
              /\ Class(s[i]) <= Class(s[j])
              /\ Class(s[j]) \in 4..6 => Class(s[i]) < Class(s[j])
    /\ \A i \in DOMAIN s : s[i].op = "start" /\ s[i].node # Target /\ ~RKE2 =>
          \E j \in DOMAIN s : j < i /\ Is(s[j], "patch", s[i].node)
    /\ \A i \in DOMAIN s : s[i].op = "cleanup" /\ s[i].node # Target =>
          \E j \in DOMAIN s : j < i /\ s[j].op \in Waits /\ s[i].node \in s[j].peers
    /\ \A i \in DOMAIN s : s[i].op = "start" /\ s[i].node # Target /\ RKE2 =>
          \E j \in DOMAIN s : i < j /\ Is(s[j], "cleanup", s[i].node)

Has(s, op, n) == \E i \in DOMAIN s : Is(s[i], op, n)
AwaitsAll(s, f) == \A n \in Others : \E j \in DOMAIN s : j < f /\ s[j].op \in Waits /\ n \in s[j].peers
Awaits(s) == \A n \in Others : \E j \in DOMAIN s : s[j].op \in Waits /\ n \in s[j].peers
Ends(s) == \E f \in DOMAIN s : IsLast(s, f) /\ AwaitsAll(s, f)

\* A plan is in order, complete, and ends with a wait for everybody.
Laid ==
    /\ InOrder(Steps, 1, 8)
    /\ \A n \in ToSet(AgentNodes) : Has(Steps, "agentStop", n) /\ Has(Steps, "agentStart", n)
    /\ \A n \in ToSet(Touched) :
          Has(Steps, "stop", n) /\ Has(Steps, "backup", n) /\ Has(Steps, "start", n)
    /\ ~plan.rejoin => Has(Steps, IF RKE2 THEN "reset" ELSE "restore", Target)
    /\ ~plan.rejoin /\ RKE2 => Has(Steps, "cleanup", Target)
    /\ Ends(Steps)

-----------------------------------------------------------------------------
(* The invariant *)

\* What PlanInit chooses of a plan.
PlanOK ==
    /\ plan \in [kind : {"rke2", "kubeadm"}, rejoin : BOOLEAN, others : Seq(ToSet(Followers)),
                 agents : SUBSET Server, agentNodes : Seq(Server), members : Nat]
    /\ ToSet(AgentNodes) = plan.agents \cap ToSet(Touched)
    /\ plan.rejoin => Len(plan.others) = 1
    /\ ~RKE2 => plan.agents = {}

\* How many steps have succeeded; the steps of op on n that have, and that were begun.
Done == IF phase = "next" THEN at ELSE at - 1
Past(op, n) == \E i \in 1..Done : Is(Steps[i], op, n)
Begun(op, n) == \E i \in 1..at : Is(Steps[i], op, n)

\* Run: which parts belong to which step, and how it ends.
RunInv ==
    /\ at \in 0..Len(Steps)
    /\ phase \in PlanPhases
    /\ phase # "next" => at \in DOMAIN Steps
    /\ phase = "run" => Current.op \notin {"reset", "up"}
    /\ phase \in {"reset", "poll", "verify", "wipe"} => Current.op = "reset"
    /\ phase \in {"alone", "stop2", "reset2", "poll2", "start2", "wait2"} => Current.op = "up"
    /\ phase \in {"verify", "wipe"} => exit = "reset"
    /\ failed => ended /\ phase # "next"
    /\ ended /\ ~failed => phase = "next" /\ (at = Len(Steps) \/ aborting)

\* The agents: stopped by the first steps, started by the last ones.
AgentInv ==
    /\ agents \subseteq plan.agents
    /\ plan.agents \ ToSet(AgentNodes) \subseteq agents
    /\ agentOff \subseteq ToSet(AgentNodes)
    /\ \A n \in ToSet(AgentNodes) :
          /\ Past("agentStop", n) /\ ~Begun("agentStart", n) => n \notin agents
          /\ Past("agentStart", n) => n \in agents /\ n \notin agentOff
          /\ n \in agents \cup agentOff \/ (failed /\ n = Current.node)

\* A server that was stopped stays off until its start.
OffInv == \A n \in Parts : Past("stop", n) /\ ~Begun("start", n) => ~server[n].on

\* The data dirs; a follower that was waited for has joined.
DataInv ==
    /\ \A n \in Parts :
          /\ server[n].data # "old" => Begun("backup", n)
          /\ Past("backup", n) => server[n].data # "old"
          /\ server[n].data \in {"restored", "founded"} => Begun("reset", n) \/ Begun("restore", n)
          /\ server[n].data = "joined" => n # Target /\ Begun("start", n)
    /\ Past("reset", Target) \/ Past("restore", Target) => server[Target].data = "restored"
    /\ \A i \in 1..Done : Steps[i].op \in Waits =>
          \A n \in Steps[i].peers : server[n].data \notin {"empty", "founded"}

\* The cluster-reset on the target.
ResetInv ==
    /\ reset = "first" => Begun("reset", Target) /\ ~Past("reset", Target) /\ exit # "reset"
    /\ reset = "second" => Begun("up", Target)
    /\ Past("up", Target) => reset = "no"

\* Where the servers would join: an empty one that runs joins the target, and a
\* drop-in is noted and there from a start on until a cleanup after it.
ViaOf(n) ==
    /\ server[n].on /\ server[n].data = "empty" /\ n # Target => server[n].via = "target"
    /\ Past("patch", n) => server[n].via = "target"
    /\ RKE2 /\ Past("start", n) => n \in noted
    /\ RKE2 /\ server[n].via # "own" =>
          /\ n \in noted \/ (failed /\ n = Current.node)
          /\ \E i \in 1..at : Is(Steps[i], "start", n) /\ \A j \in i..Done : ~Is(Steps[j], "cleanup", n)
ViaInv == \A n \in Parts : ViaOf(n)

\* Who is a member, and serves.
MemberInv ==
    /\ Target \in members
    /\ RKE2 => learners = {}
    /\ \A i \in 1..Done : Steps[i].op \in Waits => Steps[i].peers \subseteq members
    /\ \A i \in 1..Done : IsLast(Steps, i) => \A n \in Parts : Serving(n)

PlanInv == PlanOK /\ PlanTypeOK /\ RunInv /\ AgentInv /\ OffInv /\ DataInv /\ ResetInv /\ ViaInv /\ MemberInv


-----------------------------------------------------------------------------
(* Every plan is laid out *)

\* The elements of two sequences one after the other.
LEMMA Cat ==
    ASSUME NEW S, NEW s \in Seq(S), NEW t \in Seq(S)
    PROVE  /\ s \o t \in Seq(S)
           /\ DOMAIN (s \o t) = 1..(Len(s) + Len(t))
           /\ \A i \in DOMAIN s : i \in DOMAIN (s \o t) /\ (s \o t)[i] = s[i]
           /\ \A i \in DOMAIN t : Len(s) + i \in DOMAIN (s \o t) /\ (s \o t)[Len(s) + i] = t[i]
           /\ \A i \in DOMAIN (s \o t) : i \in DOMAIN s \/ i - Len(s) \in DOMAIN t
OBVIOUS

\* Two parts in order are in order one after the other.
LEMMA CatInOrder ==
    ASSUME NEW s, NEW t, NEW a \in Nat, NEW b \in Nat, NEW c \in Nat, NEW d \in Nat,
           InOrder(s, a, b), InOrder(t, c, d), a <= c, b <= c, b <= d, b < c \/ 6 < c
    PROVE  InOrder(s \o t, a, d)
<1> DEFINE u == s \o t
<1>1. s \in Seq(PlanStep) /\ t \in Seq(PlanStep)
  BY DEF InOrder
<1>2. /\ u \in Seq(PlanStep)
      /\ \A i \in DOMAIN s : i \in DOMAIN u /\ u[i] = s[i]
      /\ \A i \in DOMAIN t : Len(s) + i \in DOMAIN u /\ u[Len(s) + i] = t[i]
      /\ \A i \in DOMAIN u : i \in DOMAIN s \/ i - Len(s) \in DOMAIN t
  BY <1>1, Cat
<1>3. DOMAIN s = 1..Len(s) /\ Len(s) \in Nat /\ DOMAIN t \subseteq Nat /\ DOMAIN u \subseteq Nat
      /\ DOMAIN t = 1..Len(t)
  BY <1>1, <1>2
<1> HIDE DEF u
<1>4. \A i \in DOMAIN u : \/ i \in DOMAIN s /\ u[i] = s[i]
                          \/ i - Len(s) \in DOMAIN t /\ u[i] = t[i - Len(s)] /\ i > Len(s)
  <2> TAKE i \in DOMAIN u
  <2>1. CASE i \in DOMAIN s
    BY <1>2, <2>1
  <2>2. CASE i - Len(s) \in DOMAIN t
    <3>1. i \in Int /\ Len(s) \in Int /\ 1 <= i - Len(s)
      BY <1>3, <2>2
    <3>2. Len(s) + (i - Len(s)) = i /\ i > Len(s)
      BY <3>1
    <3> QED BY <1>2, <2>2, <3>2
  <2> QED BY <1>2, <2>1, <2>2
<1>5. \A i \in DOMAIN u : u[i].op # "tend" => Class(u[i]) \in a..d
  BY <1>3, <1>4 DEF InOrder
<1>6. \A i, j \in DOMAIN u :
         i < j /\ u[i].op # "tend" /\ u[j].op # "tend" =>
             /\ Class(u[i]) <= Class(u[j])
             /\ Class(u[j]) \in 4..6 => Class(u[i]) < Class(u[j])
  <2> SUFFICES ASSUME NEW i \in DOMAIN u, NEW j \in DOMAIN u, i < j, u[i].op # "tend", u[j].op # "tend"
               PROVE  /\ Class(u[i]) <= Class(u[j])
                      /\ Class(u[j]) \in 4..6 => Class(u[i]) < Class(u[j])
    OBVIOUS
  <2>1. CASE i \in DOMAIN s /\ u[i] = s[i] /\ j \in DOMAIN s /\ u[j] = s[j]
    BY <2>1 DEF InOrder
  <2>2. CASE i \in DOMAIN s /\ u[i] = s[i] /\ j - Len(s) \in DOMAIN t /\ u[j] = t[j - Len(s)]
    <3>1. Class(s[i]) \in a..b /\ Class(t[j - Len(s)]) \in c..d
      BY <2>2 DEF InOrder
    <3> QED BY <2>2, <3>1
  <2>3. CASE i - Len(s) \in DOMAIN t /\ u[i] = t[i - Len(s)] /\ j - Len(s) \in DOMAIN t /\ u[j] = t[j - Len(s)]
    <3>1. i - Len(s) < j - Len(s)
      BY <1>3
    <3> QED BY <2>3, <3>1 DEF InOrder
  <2>4. ~(i > Len(s) /\ j \in DOMAIN s)
    BY <1>3
  <2> QED BY <1>4, <2>1, <2>2, <2>3, <2>4
<1>7. \A i \in DOMAIN u : u[i].op = "start" /\ u[i].node # Target /\ ~RKE2 =>
          \E j \in DOMAIN u : j < i /\ Is(u[j], "patch", u[i].node)
  <2> SUFFICES ASSUME NEW i \in DOMAIN u, u[i].op = "start", u[i].node # Target, ~RKE2
               PROVE  \E j \in DOMAIN u : j < i /\ Is(u[j], "patch", u[i].node)
    OBVIOUS
  <2>1. CASE i \in DOMAIN s /\ u[i] = s[i]
    BY <1>2, <2>1 DEF InOrder
  <2>2. CASE i - Len(s) \in DOMAIN t /\ u[i] = t[i - Len(s)]
    <3>1. PICK j \in DOMAIN t : j < i - Len(s) /\ Is(t[j], "patch", u[i].node)
      BY <2>2 DEF InOrder
    <3>2. Len(s) + j < i
      BY <1>3, <3>1
    <3> QED BY <1>2, <3>1, <3>2
  <2> QED BY <1>4, <2>1, <2>2
<1>8. \A i \in DOMAIN u : u[i].op = "cleanup" /\ u[i].node # Target =>
          \E j \in DOMAIN u : j < i /\ u[j].op \in Waits /\ u[i].node \in u[j].peers
  <2> SUFFICES ASSUME NEW i \in DOMAIN u, u[i].op = "cleanup", u[i].node # Target
               PROVE  \E j \in DOMAIN u : j < i /\ u[j].op \in Waits /\ u[i].node \in u[j].peers
    OBVIOUS
  <2>1. CASE i \in DOMAIN s /\ u[i] = s[i]
    BY <1>2, <2>1 DEF InOrder
  <2>2. CASE i - Len(s) \in DOMAIN t /\ u[i] = t[i - Len(s)]
    <3>1. PICK j \in DOMAIN t : j < i - Len(s) /\ t[j].op \in Waits /\ u[i].node \in t[j].peers
      BY <2>2 DEF InOrder
    <3>2. Len(s) + j < i
      BY <1>3, <3>1
    <3> QED BY <1>2, <3>1, <3>2
  <2> QED BY <1>4, <2>1, <2>2
<1>9. \A i \in DOMAIN u : u[i].op = "start" /\ u[i].node # Target /\ RKE2 =>
          \E j \in DOMAIN u : i < j /\ Is(u[j], "cleanup", u[i].node)
  <2> SUFFICES ASSUME NEW i \in DOMAIN u, u[i].op = "start", u[i].node # Target, RKE2
               PROVE  \E j \in DOMAIN u : i < j /\ Is(u[j], "cleanup", u[i].node)
    OBVIOUS
  <2>1. CASE i \in DOMAIN s /\ u[i] = s[i]
    BY <1>2, <2>1 DEF InOrder
  <2>2. CASE i - Len(s) \in DOMAIN t /\ u[i] = t[i - Len(s)]
    <3>1. PICK j \in DOMAIN t : i - Len(s) < j /\ Is(t[j], "cleanup", u[i].node)
      BY <2>2 DEF InOrder
    <3>2. i < Len(s) + j
      BY <1>3, <3>1
    <3> QED BY <1>2, <3>1, <3>2
  <2> QED BY <1>4, <2>1, <2>2
<1>10. InOrder(u, a, d)
  BY <1>2, <1>5, <1>6, <1>7, <1>8, <1>9 DEF InOrder
<1> QED BY <1>10 DEF u

\* What either part has, both have.
LEMMA CatHas ==
    ASSUME NEW s \in Seq(PlanStep), NEW t \in Seq(PlanStep), NEW op, NEW n, Has(s, op, n) \/ Has(t, op, n)
    PROVE  Has(s \o t, op, n)
<1>1. CASE Has(s, op, n)
  BY <1>1, Cat DEF Has
<1>2. CASE Has(t, op, n)
  <2>1. PICK i \in DOMAIN t : Is(t[i], op, n)
    BY <1>2 DEF Has
  <2>2. Len(s) + i \in DOMAIN (s \o t) /\ (s \o t)[Len(s) + i] = t[i]
    BY Cat
  <2> QED BY <2>1, <2>2 DEF Has
<1> QED BY <1>1, <1>2

\* The same step on several servers.
LEMMA EachInOrder ==
    ASSUME NEW op, NEW ns \in Seq(Server), NEW c \in Nat,
           op \notin {"start", "cleanup"}, c < 4 \/ 6 < c,
           \A n \in ToSet(ns) : Step(op, n) \in PlanStep /\ Class(Step(op, n)) = c
    PROVE  /\ InOrder(Each(op, ns), c, c)
           /\ \A n \in ToSet(ns) : Has(Each(op, ns), op, n)
<1> DEFINE s == Each(op, ns)
<1>1. DOMAIN s = 1..Len(ns) /\ \A i \in DOMAIN s : s[i] = Step(op, ns[i]) /\ ns[i] \in ToSet(ns)
  BY DEF Each, ToSet
<1>2. s \in Seq(PlanStep)
  <2>1. Len(ns) \in Nat /\ s = [i \in 1..Len(ns) |-> Step(op, ns[i])]
    BY DEF Each
  <2>2. \A i \in 1..Len(ns) : Step(op, ns[i]) \in PlanStep
    BY <1>1
  <2> QED BY <2>1, <2>2
<1>3. \A i \in DOMAIN s : Class(s[i]) = c /\ s[i].op = op
  BY <1>1 DEF Step, Wait
<1>4. InOrder(s, c, c)
  <2> HIDE DEF s
  <2>1. c <= c /\ c \in c..c /\ c \notin 4..6
    OBVIOUS
  <2>2. \A i \in DOMAIN s : s[i].op \notin {"start", "cleanup"} /\ Class(s[i]) = c
    BY <1>3
  <2> QED BY <1>2, <2>1, <2>2 DEF InOrder
<1>5. ASSUME NEW n \in ToSet(ns) PROVE Has(s, op, n)
  <2>1. PICK i \in DOMAIN ns : ns[i] = n
    BY DEF ToSet
  <2>2. i \in DOMAIN s /\ s[i] = Step(op, n)
    BY <1>1, <2>1
  <2> QED BY <2>2 DEF Has, Is, Step, Wait
<1> QED BY <1>4, <1>5

\* What makes a step one of a plan: for a wait, and for any other.
LEMMA StepType ==
    ASSUME NEW op \in Ops, NEW n \in Parts, NEW want \in Int, NEW peers \in SUBSET Others,
           op \in {"agentStop", "agentStart"} => n \in ToSet(AgentNodes),
           op \in {"stop", "backup"} => n \in ToSet(Touched),
           op \in {"reset", "restore", "up"} => n = Target /\ ~plan.rejoin,
           op = "start" /\ n = Target => ~plan.rejoin,
           op \in {"reset", "remove", "cleanup", "up"} => RKE2,
           op \in {"restore", "add", "patch", "promote"} => ~RKE2,
           op \in {"remove", "add", "patch"} => n # Target,
           op = "remove" => plan.rejoin
    PROVE  Wait(op, n, want, peers) \in PlanStep
BY DEF PlanStep, Wait

\* A step on a server.
LEMMA StepType0 ==
    ASSUME NEW op \in Ops, NEW n \in Parts,
           op \in {"agentStop", "agentStart"} => n \in ToSet(AgentNodes),
           op \in {"stop", "backup"} => n \in ToSet(Touched),
           op \in {"reset", "restore", "up"} => n = Target /\ ~plan.rejoin,
           op = "start" /\ n = Target => ~plan.rejoin,
           op \in {"reset", "remove", "cleanup", "up"} => RKE2,
           op \in {"restore", "add", "patch", "promote"} => ~RKE2,
           op \in {"remove", "add", "patch"} => n # Target,
           op = "remove" => plan.rejoin
    PROVE  Step(op, n) \in PlanStep
<1>1. 0 \in Int /\ {} \in SUBSET Others
  OBVIOUS
<1> QED BY <1>1, StepType DEF Step

\* A follower's way back, as long as the plan is the one it is for.
LEMMA PartsType ==
    ASSUME FollowersAssumption, PlanOK
    PROVE  /\ Others \subseteq Parts /\ Target \in Parts /\ Target \notin Others /\ Parts \subseteq Server
           /\ plan.others \in Seq(Others) /\ Touched \in Seq(Parts) /\ AgentNodes \in Seq(Server)
           /\ ToSet(Touched) = IF plan.rejoin THEN Others ELSE Parts
           /\ ToSet(AgentNodes) \subseteq ToSet(Touched)
<1>1. plan.others \in Seq(ToSet(Followers)) /\ AgentNodes \in Seq(Server)
  BY DEF PlanOK, AgentNodes
<1>2. plan.others \in Seq(Others) /\ Others \subseteq ToSet(Followers)
  BY <1>1 DEF Others, ToSet
<1>3. Others \subseteq Parts /\ Target \in Parts /\ Target \notin Others /\ Parts \subseteq Server
  BY <1>2 DEF Parts, Server, FollowersAssumption
<1>4. Touched \in Seq(Parts) /\ ToSet(Touched) = IF plan.rejoin THEN Others ELSE Parts
  <2>1. CASE plan.rejoin
    BY <1>2, <1>3, <2>1 DEF Touched, Others
  <2>2. CASE ~plan.rejoin
    <3>1. Touched = <<Target>> \o plan.others
      BY <2>2 DEF Touched
    <3>2. plan.others \in Seq(Parts) /\ <<Target>> \in Seq(Parts)
      BY <1>2, <1>3
    <3> DEFINE u == <<Target>> \o plan.others
    <3>3. /\ u \in Seq(Parts) /\ 1 \in DOMAIN u /\ u[1] = Target
          /\ \A i \in DOMAIN plan.others : 1 + i \in DOMAIN u /\ u[1 + i] = plan.others[i]
          /\ \A i \in DOMAIN u : i = 1 \/ (i - 1 \in DOMAIN plan.others /\ u[i] = plan.others[i - 1])
      <4> DEFINE t == <<Target>>
      <4>1. t \in Seq(Parts) /\ DOMAIN t = {1} /\ Len(t) = 1 /\ t[1] = Target
        BY <3>2
      <4> HIDE DEF t
      <4>2. /\ u \in Seq(Parts) /\ DOMAIN u \subseteq Nat
            /\ \A i \in DOMAIN t : i \in DOMAIN u /\ u[i] = t[i]
            /\ \A i \in DOMAIN plan.others : 1 + i \in DOMAIN u /\ u[1 + i] = plan.others[i]
            /\ \A i \in DOMAIN u : i \in DOMAIN t \/ i - 1 \in DOMAIN plan.others
        BY <3>2, <4>1, Cat DEF t
      <4> QED BY <4>1, <4>2
    <3>4. u \in Seq(Parts) /\ ToSet(u) = {Target} \cup ToSet(plan.others)
      <4> HIDE DEF u
      <4>1. \A i \in DOMAIN u : u[i] \in {Target} \cup ToSet(plan.others)
        BY <3>3 DEF ToSet
      <4>2. \A x \in {Target} \cup ToSet(plan.others) : \E i \in DOMAIN u : u[i] = x
        BY <3>3 DEF ToSet
      <4> QED BY <3>3, <4>1, <4>2 DEF ToSet
    <3> QED BY <2>2, <3>1, <3>4 DEF Parts, Others
  <2>3. plan.rejoin \in BOOLEAN
    BY DEF PlanOK
  <2> QED BY <2>1, <2>2, <2>3
<1>5. ToSet(AgentNodes) \subseteq ToSet(Touched)
  BY DEF PlanOK
<1> QED BY <1>1, <1>2, <1>3, <1>4, <1>5

\* The steps that bring a follower back, one by one.
LEMMA StepsOfRejoin ==
    ASSUME FollowersAssumption, PlanOK, NEW o \in Others, NEW want \in Int
    PROVE  /\ InOrder(RejoinSteps(o, want), 7, 7)
           /\ Len(RejoinSteps(o, want)) = IF RKE2 THEN 4 ELSE 6
           /\ Has(RejoinSteps(o, want), "start", o)
           /\ \E j \in DOMAIN RejoinSteps(o, want) :
                 RejoinSteps(o, want)[j].op \in Waits /\ o \in RejoinSteps(o, want)[j].peers
<1> DEFINE s == RejoinSteps(o, want)
<1>1. o \in Parts /\ o # Target /\ Target \in Parts /\ {o} \subseteq Others /\ {} \subseteq Others
  BY PartsType
<1>2. CASE RKE2
  <2> DEFINE a == Step("start", o)
             b == Wait("member", Target, want, {o})
             c == Step("cleanup", o)
             d == Wait("member", Target, want, {})
  <2>1. s = <<a, b, c>> \o <<d>>
    BY <1>2 DEF RejoinSteps
  <2>2. a \in PlanStep /\ b \in PlanStep /\ c \in PlanStep /\ d \in PlanStep
    <3> USE <1>1, <1>2 DEF Ops
    <3>1. a \in PlanStep
      BY StepType0
    <3>2. b \in PlanStep
      BY StepType
    <3>3. c \in PlanStep
      BY StepType0
    <3>4. d \in PlanStep
      BY StepType
    <3> QED BY <3>1, <3>2, <3>3, <3>4
  <2>3. Class(a) = 7 /\ Class(b) = 7 /\ Class(c) = 7 /\ Class(d) = 7
    BY <1>1 DEF Class, Step, Wait
  <2>4. a.op = "start" /\ a.node = o /\ b.op = "member" /\ b.peers = {o} /\ c.op = "cleanup" /\ c.node = o
        /\ d.op = "member"
    BY DEF Step, Wait
  <2> HIDE DEF a, b, c, d
  <2>5. /\ s \in Seq(PlanStep) /\ Len(s) = 4 /\ DOMAIN s = {1, 2, 3, 4}
        /\ s[1] = a /\ s[2] = b /\ s[3] = c /\ s[4] = d
    <3> HIDE DEF s
    <3> QED BY <2>1, <2>2
  <2> HIDE DEF s
  <2>6. InOrder(s, 7, 7)
    BY <1>1, <1>2, <2>3, <2>4, <2>5 DEF InOrder, Is, Waits
  <2>7. Has(s, "start", o) /\ \E j \in DOMAIN s : s[j].op \in Waits /\ o \in s[j].peers
    BY <2>4, <2>5 DEF Has, Is, Waits
  <2> QED BY <1>2, <2>5, <2>6, <2>7 DEF s
<1>3. CASE ~RKE2
  <2> DEFINE a == Step("add", o)
             b == Step("patch", o)
             c == Step("start", o)
             d == Wait("promote", o, want, {o})
             e == Wait("member", o, want, {})
             f == Wait("member", Target, want, {})
  <2>1. s = <<a, b, c, d, e>> \o <<f>>
    BY <1>3 DEF RejoinSteps
  <2>2. a \in PlanStep /\ b \in PlanStep /\ c \in PlanStep /\ d \in PlanStep /\ e \in PlanStep /\ f \in PlanStep
    <3> USE <1>1, <1>3 DEF Ops
    <3>1. a \in PlanStep
      BY StepType0
    <3>2. b \in PlanStep
      BY StepType0
    <3>3. c \in PlanStep
      BY StepType0
    <3>4. d \in PlanStep
      BY StepType
    <3>5. e \in PlanStep
      BY StepType
    <3>6. f \in PlanStep
      BY StepType
    <3> QED BY <3>1, <3>2, <3>3, <3>4, <3>5, <3>6
  <2>3. Class(a) = 7 /\ Class(b) = 7 /\ Class(c) = 7 /\ Class(d) = 7 /\ Class(e) = 7 /\ Class(f) = 7
    BY <1>1 DEF Class, Step, Wait
  <2>4. /\ a.op = "add" /\ b.op = "patch" /\ b.node = o /\ c.op = "start" /\ c.node = o
        /\ d.op = "promote" /\ d.peers = {o} /\ e.op = "member" /\ f.op = "member"
    BY DEF Step, Wait
  <2> HIDE DEF a, b, c, d, e, f
  <2>5. /\ s \in Seq(PlanStep) /\ Len(s) = 6 /\ DOMAIN s = {1, 2, 3, 4, 5, 6}
        /\ s[1] = a /\ s[2] = b /\ s[3] = c /\ s[4] = d /\ s[5] = e /\ s[6] = f
    <3> HIDE DEF s
    <3> QED BY <2>1, <2>2
  <2> HIDE DEF s
  <2>6. InOrder(s, 7, 7)
    BY <1>1, <1>3, <2>3, <2>4, <2>5 DEF InOrder, Is, Waits
  <2>7. Has(s, "start", o) /\ \E j \in DOMAIN s : s[j].op \in Waits /\ o \in s[j].peers
    BY <2>4, <2>5 DEF Has, Is, Waits
  <2> QED BY <1>3, <2>5, <2>6, <2>7 DEF s
<1> QED BY <1>2, <1>3

\* They are as many for every follower.
LEMMA LenOfRejoin ==
    ASSUME NEW o, NEW want
    PROVE  Len(RejoinSteps(o, want)) = IF RKE2 THEN 4 ELSE 6
<1>1. CASE RKE2
  <2> DEFINE a == Step("start", o)
             b == Wait("member", Target, want, {o})
             c == Step("cleanup", o)
             d == Wait("member", Target, want, {})
  <2>1. RejoinSteps(o, want) = <<a, b, c>> \o <<d>>
    BY <1>1 DEF RejoinSteps
  <2> HIDE DEF a, b, c, d
  <2> QED BY <1>1, <2>1
<1>2. CASE ~RKE2
  <2> DEFINE a == Step("add", o)
             b == Step("patch", o)
             c == Step("start", o)
             d == Wait("promote", o, want, {o})
             e == Wait("member", o, want, {})
             f == Wait("member", Target, want, {})
  <2>1. RejoinSteps(o, want) = <<a, b, c, d, e>> \o <<f>>
    BY <1>2 DEF RejoinSteps
  <2> HIDE DEF a, b, c, d, e, f
  <2> QED BY <1>2, <2>1
<1> QED BY <1>1, <1>2

\* Blocks of k steps one after the other: step i is step 1 + (i - 1) % k of block
\* 1 + (i - 1) \div k.
LEMMA Divide ==
    ASSUME NEW k \in {4, 6}, NEW m \in Nat, NEW i \in 1..(k * m)
    PROVE  /\ 1 + (i - 1) \div k \in 1..m /\ 1 + ((i - 1) % k) \in 1..k
           /\ i = k * ((i - 1) \div k) + (1 + ((i - 1) % k))
<1>1. CASE k = 4
  <2>1. i \in Int /\ 1 <= i /\ i <= 4 * m
    BY <1>1
  <2>2. (i - 1) \div 4 \in Int /\ (i - 1) % 4 \in 0..3 /\ i - 1 = 4 * ((i - 1) \div 4) + ((i - 1) % 4)
    BY <2>1
  <2> QED BY <1>1, <2>1, <2>2
<1>2. CASE k = 6
  <2>1. i \in Int /\ 1 <= i /\ i <= 6 * m
    BY <1>2
  <2>2. (i - 1) \div 6 \in Int /\ (i - 1) % 6 \in 0..5 /\ i - 1 = 6 * ((i - 1) \div 6) + ((i - 1) % 6)
    BY <2>1
  <2> QED BY <1>2, <2>1, <2>2
<1> QED BY <1>1, <1>2

\* Step j of block b is in the plan.
LEMMA Multiply ==
    ASSUME NEW k \in {4, 6}, NEW m \in Nat, NEW x \in 1..m, NEW r \in 1..k
    PROVE  /\ k * (x - 1) + r \in 1..(k * m) /\ k * (x - 1) \in Int
           /\ 1 + (k * (x - 1) + r - 1) \div k = x /\ 1 + ((k * (x - 1) + r - 1) % k) = r
<1>1. CASE k = 4
  <2>1. x \in Int /\ r \in Int /\ 1 <= r /\ r <= 4 /\ 1 <= x /\ x <= m
    BY <1>1
  <2> QED BY <1>1, <2>1
<1>2. CASE k = 6
  <2>1. x \in Int /\ r \in Int /\ 1 <= r /\ r <= 6 /\ 1 <= x /\ x <= m
    BY <1>2
  <2> QED BY <1>2, <2>1
<1> QED BY <1>1, <1>2

\* The followers, brought back one after the other.
LEMMA FollowersLaid ==
    ASSUME FollowersAssumption, PlanOK
    PROVE  /\ InOrder(FollowerSteps, 7, 7)
           /\ \A o \in Others :
                 /\ Has(FollowerSteps, "start", o)
                 /\ \E j \in DOMAIN FollowerSteps :
                       FollowerSteps[j].op \in Waits /\ o \in FollowerSteps[j].peers
<1> DEFINE k == IF RKE2 THEN 4 ELSE 6
           m == Len(plan.others)
           B(x) == RejoinSteps(plan.others[x], x + 1)
           u == FollowerSteps
<1>1. plan.others \in Seq(Others) /\ m \in Nat /\ k \in {4, 6} /\ DOMAIN plan.others = 1..m
  BY PartsType
<1>2. /\ u = [i \in 1..(k * m) |-> B(1 + (i - 1) \div k)[1 + ((i - 1) % k)]]
      /\ DOMAIN u = 1..(k * m)
  <2>1. Len(RejoinSteps(Target, 0)) = k
    BY LenOfRejoin
  <2> QED BY <2>1 DEF FollowerSteps
<1>3. ASSUME NEW x \in 1..m
      PROVE  /\ InOrder(B(x), 7, 7) /\ DOMAIN B(x) = 1..k
             /\ Has(B(x), "start", plan.others[x])
             /\ \E j \in DOMAIN B(x) : B(x)[j].op \in Waits /\ plan.others[x] \in B(x)[j].peers
  <2>1. plan.others[x] \in Others /\ x + 1 \in Int
    BY <1>1
  <2>2. Len(B(x)) = k
    BY LenOfRejoin
  <2>3. B(x) \in Seq(PlanStep)
    BY <2>1, StepsOfRejoin DEF InOrder
  <2> DEFINE o == plan.others[x]
             w == x + 1
  <2>4. /\ InOrder(RejoinSteps(o, w), 7, 7)
        /\ Has(RejoinSteps(o, w), "start", o)
        /\ \E j \in DOMAIN RejoinSteps(o, w) :
              RejoinSteps(o, w)[j].op \in Waits /\ o \in RejoinSteps(o, w)[j].peers
    <3>1. o \in Others /\ w \in Int
      BY <2>1
    <3> HIDE DEF o, w
    <3> QED BY <3>1, StepsOfRejoin
  <2>5. DOMAIN B(x) = 1..k
    <3> HIDE DEF B, k
    <3> QED BY <2>2, <2>3
  <2> QED BY <2>4, <2>5
<1> HIDE DEF k, m, B, u
<1>4. ASSUME NEW x \in 1..m, NEW r \in 1..k
      PROVE  k * (x - 1) + r \in DOMAIN u /\ u[k * (x - 1) + r] = B(x)[r]
  <2> DEFINE i == k * (x - 1) + r
  <2>1. i \in 1..(k * m) /\ 1 + (i - 1) \div k = x /\ 1 + ((i - 1) % k) = r
    BY <1>1, Multiply
  <2> HIDE DEF i
  <2>2. u[i] = B(1 + (i - 1) \div k)[1 + ((i - 1) % k)] /\ i \in DOMAIN u
    BY <1>2, <2>1
  <2>3. u[i] = B(x)[r]
    BY <2>1, <2>2
  <2> QED BY <2>2, <2>3 DEF i
<1>5. ASSUME NEW i \in DOMAIN u
      PROVE  \E x \in 1..m, r \in 1..k : i = k * (x - 1) + r /\ u[i] = B(x)[r]
  <2> DEFINE x == 1 + (i - 1) \div k
             r == 1 + ((i - 1) % k)
  <2>1. x \in 1..m /\ r \in 1..k /\ i = k * ((i - 1) \div k) + r
    BY <1>1, <1>2, Divide
  <2>2. (i - 1) \div k = x - 1
    BY <1>1, <1>2
  <2>3. u[i] = B(x)[r]
    BY <1>2
  <2> QED BY <2>1, <2>2, <2>3
<1>6. ASSUME NEW i \in DOMAIN u PROVE u[i] \in PlanStep
  <2>1. PICK x \in 1..m, r \in 1..k : u[i] = B(x)[r]
    BY <1>5
  <2>2. B(x) \in Seq(PlanStep) /\ r \in DOMAIN B(x)
    BY <1>3 DEF InOrder
  <2> QED BY <2>1, <2>2
<1>7. u \in Seq(PlanStep)
  <2>1. k * m \in Nat
    BY <1>1
  <2>2. u = [i \in 1..(k * m) |-> u[i]]
    BY <1>2
  <2> QED BY <1>2, <1>6, <2>1, <2>2
<1>8. \A i \in DOMAIN u : u[i].op # "tend" => Class(u[i]) = 7
  <2> SUFFICES ASSUME NEW i \in DOMAIN u, u[i].op # "tend" PROVE Class(u[i]) = 7
    OBVIOUS
  <2>1. PICK x \in 1..m, r \in 1..k : i = k * (x - 1) + r /\ u[i] = B(x)[r]
    BY <1>5
  <2>2. Class(B(x)[r]) \in 7..7
    BY <1>3, <2>1 DEF InOrder
  <2> QED BY <2>1, <2>2
<1>9. ASSUME NEW x \in 1..m, NEW r \in 1..k, NEW q \in 1..k, r < q
      PROVE  k * (x - 1) + r < k * (x - 1) + q
  <2>1. k * (x - 1) \in Int /\ r \in Int /\ q \in Int
    BY <1>1, Multiply
  <2> QED BY <1>9, <2>1
<1>10. ASSUME NEW i \in DOMAIN u, u[i].op = "start", u[i].node # Target, ~RKE2
       PROVE  \E j \in DOMAIN u : j < i /\ Is(u[j], "patch", u[i].node)
  <2>1. PICK x \in 1..m, r \in 1..k : i = k * (x - 1) + r /\ u[i] = B(x)[r]
    BY <1>5
  <2>2. PICK q \in 1..k : q < r /\ Is(B(x)[q], "patch", u[i].node)
    BY <1>3, <1>10, <2>1 DEF InOrder
  <2> QED BY <1>4, <1>9, <2>1, <2>2
<1>11. ASSUME NEW i \in DOMAIN u, u[i].op = "cleanup", u[i].node # Target
       PROVE  \E j \in DOMAIN u : j < i /\ u[j].op \in Waits /\ u[i].node \in u[j].peers
  <2>1. PICK x \in 1..m, r \in 1..k : i = k * (x - 1) + r /\ u[i] = B(x)[r]
    BY <1>5
  <2>2. PICK q \in 1..k : q < r /\ B(x)[q].op \in Waits /\ u[i].node \in B(x)[q].peers
    BY <1>3, <1>11, <2>1 DEF InOrder
  <2>3. k * (x - 1) + q \in DOMAIN u /\ u[k * (x - 1) + q] = B(x)[q] /\ k * (x - 1) + q < i
    BY <1>4, <1>9, <2>1, <2>2
  <2> QED BY <2>2, <2>3
<1>12. ASSUME NEW i \in DOMAIN u, u[i].op = "start", u[i].node # Target, RKE2
       PROVE  \E j \in DOMAIN u : i < j /\ Is(u[j], "cleanup", u[i].node)
  <2>1. PICK x \in 1..m, r \in 1..k : i = k * (x - 1) + r /\ u[i] = B(x)[r]
    BY <1>5
  <2>2. PICK q \in 1..k : r < q /\ Is(B(x)[q], "cleanup", u[i].node)
    BY <1>3, <1>12, <2>1 DEF InOrder
  <2>3. k * (x - 1) + q \in DOMAIN u /\ u[k * (x - 1) + q] = B(x)[q] /\ i < k * (x - 1) + q
    BY <1>4, <1>9, <2>1, <2>2
  <2> QED BY <2>2, <2>3
<1>13. InOrder(u, 7, 7)
  <2>1. \A i \in DOMAIN u : u[i].op # "tend" => Class(u[i]) \in 7..7
    BY <1>8
  <2>2. \A i, j \in DOMAIN u :
          i < j /\ u[i].op # "tend" /\ u[j].op # "tend" =>
              Class(u[i]) <= Class(u[j]) /\ Class(u[j]) \notin 4..6
    BY <1>8
  <2> QED BY <1>7, <2>1, <2>2, <1>10, <1>11, <1>12 DEF InOrder
<1>14. ASSUME NEW o \in Others
       PROVE  /\ Has(u, "start", o)
              /\ \E j \in DOMAIN u : u[j].op \in Waits /\ o \in u[j].peers
  <2>1. PICK x \in 1..m : plan.others[x] = o
    BY <1>1 DEF Others, ToSet
  <2>2. PICK r \in 1..k : Is(B(x)[r], "start", o)
    BY <1>3, <2>1 DEF Has
  <2>3. PICK q \in 1..k : B(x)[q].op \in Waits /\ o \in B(x)[q].peers
    BY <1>3, <2>1
  <2>4. Has(u, "start", o)
    BY <1>4, <2>2 DEF Has
  <2>5. k * (x - 1) + q \in DOMAIN u /\ u[k * (x - 1) + q] = B(x)[q]
    BY <1>4
  <2> QED BY <2>3, <2>4, <2>5
<1> QED BY <1>13, <1>14 DEF u

\* A part of one step.
LEMMA One ==
    ASSUME NEW c \in Nat, NEW x \in PlanStep, x.op = "tend" \/ Class(x) = c,
           x.op \in {"start", "cleanup"} => x.node = Target
    PROVE  InOrder(<<x>>, c, c) /\ Has(<<x>>, x.op, x.node)
<1> DEFINE s == <<x>>
<1>1. s \in Seq(PlanStep) /\ DOMAIN s = {1} /\ s[1] = x
  OBVIOUS
<1> HIDE DEF s
<1>2. InOrder(s, c, c)
  BY <1>1 DEF InOrder
<1>3. Has(s, x.op, x.node)
  BY <1>1 DEF Has, Is
<1> QED BY <1>2, <1>3 DEF s

\* A part of no steps.
LEMMA Nothing == ASSUME NEW a, NEW b PROVE InOrder(<<>>, a, b)
<1> DEFINE s == <<>>
<1>1. s \in Seq(PlanStep) /\ DOMAIN s = {}
  OBVIOUS
<1> HIDE DEF s
<1>2. InOrder(s, a, b)
  BY <1>1 DEF InOrder
<1> QED BY <1>2 DEF s

\* The target, on its own.
LEMMA TargetLaid ==
    ASSUME FollowersAssumption, PlanOK, ~plan.rejoin
    PROVE  /\ InOrder(TargetSteps, 4, 7)
           /\ Has(TargetSteps, IF RKE2 THEN "reset" ELSE "restore", Target)
           /\ Has(TargetSteps, "start", Target)
<1> DEFINE s == TargetSteps
<1>1. Target \in Parts /\ {} \subseteq Others /\ 1 \in Int
  BY PartsType
<1>2. CASE RKE2
  <2> DEFINE a == Step("reset", Target)
             b == Step("tend", Target)
             c == Step("start", Target)
             d == Wait("up", Target, 1, {})
  <2>1. s = <<a, b, c, d, b>>
    BY <1>2 DEF TargetSteps
  <2>2. a \in PlanStep /\ b \in PlanStep /\ c \in PlanStep /\ d \in PlanStep
    <3> USE <1>1, <1>2 DEF Ops
    <3>1. a \in PlanStep
      BY StepType0
    <3>2. b \in PlanStep
      BY StepType0
    <3>3. c \in PlanStep
      BY StepType0
    <3>4. d \in PlanStep
      BY StepType
    <3> QED BY <3>1, <3>2, <3>3, <3>4
  <2>3. Class(a) = 4 /\ Class(c) = 5 /\ Class(d) = 6
    BY DEF Class, Step, Wait
  <2>4. /\ a.op = "reset" /\ a.node = Target /\ b.op = "tend" /\ c.op = "start" /\ c.node = Target
        /\ d.op = "up"
    BY DEF Step, Wait
  <2> HIDE DEF a, b, c, d
  <2>5. /\ s \in Seq(PlanStep) /\ DOMAIN s = {1, 2, 3, 4, 5}
        /\ s[1] = a /\ s[2] = b /\ s[3] = c /\ s[4] = d /\ s[5] = b
    <3> HIDE DEF s
    <3> QED BY <2>1, <2>2
  <2> HIDE DEF s
  <2>6. /\ \A i \in DOMAIN s : s[i].op # "tend" => Class(s[i]) \in 4..7
        /\ \A i, j \in DOMAIN s :
              i < j /\ s[i].op # "tend" /\ s[j].op # "tend" =>
                  /\ Class(s[i]) <= Class(s[j])
                  /\ Class(s[j]) \in 4..6 => Class(s[i]) < Class(s[j])
    BY <2>3, <2>4, <2>5
  <2>7. InOrder(s, 4, 7)
    BY <2>4, <2>5, <2>6 DEF InOrder
  <2>8. Has(s, "reset", Target) /\ Has(s, "start", Target)
    BY <2>4, <2>5 DEF Has, Is
  <2> QED BY <1>2, <2>7, <2>8 DEF s
<1>3. CASE ~RKE2
  <2> DEFINE a == Step("restore", Target)
             b == Step("tend", Target)
             c == Step("start", Target)
             d == Wait("member", Target, 1, {})
  <2>1. s = <<a, b, c, d, d>>
    BY <1>3 DEF TargetSteps
  <2>2. a \in PlanStep /\ b \in PlanStep /\ c \in PlanStep /\ d \in PlanStep
    <3> USE <1>1, <1>3 DEF Ops
    <3>1. a \in PlanStep
      BY StepType0
    <3>2. b \in PlanStep
      BY StepType0
    <3>3. c \in PlanStep
      BY StepType0
    <3>4. d \in PlanStep
      BY StepType
    <3> QED BY <3>1, <3>2, <3>3, <3>4
  <2>3. Class(a) = 4 /\ Class(c) = 5 /\ Class(d) = 7
    BY DEF Class, Step, Wait
  <2>4. /\ a.op = "restore" /\ a.node = Target /\ b.op = "tend" /\ c.op = "start" /\ c.node = Target
        /\ d.op = "member"
    BY DEF Step, Wait
  <2> HIDE DEF a, b, c, d
  <2>5. /\ s \in Seq(PlanStep) /\ DOMAIN s = {1, 2, 3, 4, 5}
        /\ s[1] = a /\ s[2] = b /\ s[3] = c /\ s[4] = d /\ s[5] = d
    <3> HIDE DEF s
    <3> QED BY <2>1, <2>2
  <2> HIDE DEF s
  <2>6. /\ \A i \in DOMAIN s : s[i].op # "tend" => Class(s[i]) \in 4..7
        /\ \A i, j \in DOMAIN s :
              i < j /\ s[i].op # "tend" /\ s[j].op # "tend" =>
                  /\ Class(s[i]) <= Class(s[j])
                  /\ Class(s[j]) \in 4..6 => Class(s[i]) < Class(s[j])
    BY <2>3, <2>4, <2>5
  <2>7. InOrder(s, 4, 7)
    BY <2>4, <2>5, <2>6 DEF InOrder
  <2>8. Has(s, "restore", Target) /\ Has(s, "start", Target)
    BY <2>4, <2>5 DEF Has, Is
  <2> QED BY <1>3, <2>7, <2>8 DEF s
<1> QED BY <1>2, <1>3

\* What either part waits for, both wait for.
LEMMA CatAwaits ==
    ASSUME NEW s \in Seq(PlanStep), NEW t \in Seq(PlanStep), Awaits(s) \/ Awaits(t)
    PROVE  Awaits(s \o t)
<1> DEFINE u == s \o t
<1>1. /\ \A i \in DOMAIN s : i \in DOMAIN u /\ u[i] = s[i]
      /\ \A i \in DOMAIN t : Len(s) + i \in DOMAIN u /\ u[Len(s) + i] = t[i]
  BY Cat
<1> HIDE DEF u
<1>2. CASE Awaits(s)
  BY <1>1, <1>2 DEF Awaits, u
<1>3. CASE Awaits(t)
  <2>1. ASSUME NEW n \in Others PROVE \E j \in DOMAIN u : u[j].op \in Waits /\ n \in u[j].peers
    <3>1. PICK j \in DOMAIN t : t[j].op \in Waits /\ n \in t[j].peers
      BY <1>3 DEF Awaits
    <3> QED BY <1>1, <3>1
  <2> QED BY <2>1 DEF Awaits, u
<1> QED BY <1>2, <1>3

\* A wait after all the others were waited for.
LEMMA EndsHere ==
    ASSUME NEW s \in Seq(PlanStep), NEW x \in PlanStep, x.op = "member", Awaits(s)
    PROVE  Ends(s \o <<x>>)
<1> DEFINE t == <<x>>
           u == s \o t
           f == Len(s) + 1
<1>1. t \in Seq(PlanStep) /\ DOMAIN t = {1} /\ t[1] = x
  OBVIOUS
<1> HIDE DEF t
<1>2. /\ \A i \in DOMAIN s : i \in DOMAIN u /\ u[i] = s[i]
      /\ f \in DOMAIN u /\ u[f] = x
      /\ \A i \in DOMAIN u : i \in DOMAIN s \/ i - Len(s) \in DOMAIN t
  BY <1>1, Cat
<1>3. DOMAIN s = 1..Len(s) /\ Len(s) \in Nat /\ DOMAIN u \subseteq Int
  BY <1>1
<1> HIDE DEF u
<1>4. \A j \in DOMAIN u : j <= f
  BY <1>1, <1>2, <1>3
<1>5. IsLast(u, f)
  BY <1>2, <1>3, <1>4 DEF IsLast
<1>6. ASSUME NEW n \in Others PROVE \E j \in DOMAIN u : j < f /\ u[j].op \in Waits /\ n \in u[j].peers
  <2>1. PICK j \in DOMAIN s : s[j].op \in Waits /\ n \in s[j].peers
    BY DEF Awaits
  <2>2. j < f
    BY <1>3
  <2> QED BY <1>2, <2>1, <2>2
<1>7. AwaitsAll(u, f)
  BY <1>6 DEF AwaitsAll
<1> QED BY <1>2, <1>5, <1>7 DEF Ends, t, u

\* It does so too when only what leaves the servers as they are follows.
LEMMA EndsBefore ==
    ASSUME NEW s \in Seq(PlanStep), NEW t \in Seq(PlanStep), Ends(s),
           \A i \in DOMAIN t : t[i].op \in After
    PROVE  Ends(s \o t)
<1> DEFINE u == s \o t
<1>1. PICK f \in DOMAIN s : IsLast(s, f) /\ AwaitsAll(s, f)
  BY DEF Ends
<1>2. /\ \A i \in DOMAIN s : i \in DOMAIN u /\ u[i] = s[i]
      /\ \A i \in DOMAIN t : Len(s) + i \in DOMAIN u /\ u[Len(s) + i] = t[i]
      /\ \A i \in DOMAIN u : i \in DOMAIN s \/ i - Len(s) \in DOMAIN t
  BY Cat
<1>3. DOMAIN u \subseteq Int /\ Len(s) \in Nat
  BY Cat
<1> HIDE DEF u
<1>4. ASSUME NEW j \in DOMAIN u, j > f PROVE u[j].op \in After
  <2>1. CASE j \in DOMAIN s
    BY <1>1, <1>2, <1>4, <2>1 DEF IsLast
  <2>2. CASE j - Len(s) \in DOMAIN t
    <3>1. Len(s) + (j - Len(s)) = j
      BY <1>3
    <3> QED BY <1>2, <2>2, <3>1
  <2> QED BY <1>2, <2>1, <2>2
<1>5. IsLast(u, f)
  BY <1>1, <1>2, <1>4 DEF IsLast
<1>6. AwaitsAll(u, f)
  BY <1>1, <1>2 DEF AwaitsAll
<1> QED BY <1>1, <1>2, <1>5, <1>6 DEF Ends, u

\* A plan that ends with a wait for everybody does so whatever comes before it.
LEMMA EndsAfter ==
    ASSUME NEW s \in Seq(PlanStep), NEW t \in Seq(PlanStep), Ends(t)
    PROVE  Ends(s \o t)
<1> DEFINE u == s \o t
           l == Len(s)
<1>1. PICK f \in DOMAIN t : IsLast(t, f) /\ AwaitsAll(t, f)
  BY DEF Ends
<1>2. /\ \A i \in DOMAIN s : i \in DOMAIN u /\ u[i] = s[i]
      /\ \A i \in DOMAIN t : l + i \in DOMAIN u /\ u[l + i] = t[i]
      /\ \A i \in DOMAIN u : i \in DOMAIN s \/ i - l \in DOMAIN t
  BY Cat
<1>3. DOMAIN u \subseteq Int /\ l \in Nat /\ DOMAIN s = 1..l /\ DOMAIN t \subseteq Nat \ {0}
  BY Cat
<1> HIDE DEF u, l
<1>4. ASSUME NEW j \in DOMAIN u, j > l + f PROVE u[j].op \in After
  <2>1. j - l \in DOMAIN t /\ j - l > f /\ l + (j - l) = j
    BY <1>1, <1>2, <1>3, <1>4
  <2> QED BY <1>1, <1>2, <2>1 DEF IsLast
<1>5. IsLast(u, l + f)
  BY <1>1, <1>2, <1>4 DEF IsLast
<1>6. ASSUME NEW n \in Others PROVE \E j \in DOMAIN u : j < l + f /\ u[j].op \in Waits /\ n \in u[j].peers
  <2>1. PICK j \in DOMAIN t : j < f /\ t[j].op \in Waits /\ n \in t[j].peers
    BY <1>1 DEF AwaitsAll
  <2>2. l + j < l + f
    BY <1>1, <1>3, <2>1
  <2> QED BY <1>2, <2>1, <2>2
<1>7. AwaitsAll(u, l + f)
  BY <1>6 DEF AwaitsAll
<1> QED BY <1>1, <1>2, <1>5, <1>7 DEF Ends, u

\* A restore, up to the agents.
LEMMA RestoreLaid ==
    ASSUME FollowersAssumption, PlanOK, ~plan.rejoin
    PROVE  /\ InOrder(RestorePlan, 2, 7)
           /\ \A n \in ToSet(Touched) :
                 Has(RestorePlan, "stop", n) /\ Has(RestorePlan, "backup", n) /\ Has(RestorePlan, "start", n)
           /\ Has(RestorePlan, IF RKE2 THEN "reset" ELSE "restore", Target)
           /\ RKE2 => Has(RestorePlan, "cleanup", Target)
           /\ Ends(RestorePlan)
<1> DEFINE a == Each("stop", Append(plan.others, Target))
           b == Each("backup", Touched)
           t == TargetSteps
           f == FollowerSteps
           x == IF RKE2 THEN <<>> ELSE <<Step("tend", Target)>>
           w == Wait("member", Target, 1 + Len(plan.others), {})
           y == IF RKE2 THEN <<Step("cleanup", Target)>> ELSE <<>>
           R == IF RKE2 THEN "reset" ELSE "restore"
<1>1. RestorePlan = a \o b \o t \o f \o x \o <<w>> \o y
  BY DEF RestorePlan
<1>2. /\ Others \subseteq Parts /\ Target \in Parts /\ Parts \subseteq Server
      /\ plan.others \in Seq(Others) /\ Touched \in Seq(Parts) /\ ToSet(Touched) = Parts
      /\ Len(plan.others) \in Nat
  BY PartsType
<1>3. InOrder(a, 2, 2) /\ \A n \in Parts : Has(a, "stop", n)
  <2> DEFINE ns == Append(plan.others, Target)
  <2>1. plan.others \in Seq(Parts)
    BY <1>2
  <2>2. ns \in Seq(Parts) /\ ToSet(ns) = Parts
    <3>1. DOMAIN ns = 1..(Len(plan.others) + 1) /\ ns[Len(plan.others) + 1] = Target
          /\ \A i \in 1..Len(plan.others) : ns[i] = plan.others[i]
      BY <2>1
    <3>2. ns \in Seq(Parts)
      BY <2>1, <1>2
    <3> HIDE DEF ns
    <3>3. \A n \in Parts : \E i \in DOMAIN ns : ns[i] = n
      <4> SUFFICES ASSUME NEW n \in Parts PROVE \E i \in DOMAIN ns : ns[i] = n
        OBVIOUS
      <4>1. CASE n = Target
        BY <1>2, <3>1, <4>1
      <4>2. CASE n \in Others
        <5>1. PICK i \in DOMAIN plan.others : plan.others[i] = n
          BY <4>2 DEF Others, ToSet
        <5>2. i \in 1..Len(plan.others) /\ i \in DOMAIN ns
          BY <1>2, <3>1
        <5> QED BY <3>1, <5>1, <5>2
      <4> QED BY <4>1, <4>2 DEF Parts
    <3>4. \A i \in DOMAIN ns : ns[i] \in Parts
      BY <3>2
    <3> QED BY <3>2, <3>3, <3>4 DEF ToSet
  <2>3. ns \in Seq(Server)
    BY <1>2, <2>2
  <2> HIDE DEF ns
  <2>4. \A n \in ToSet(ns) : Step("stop", n) \in PlanStep /\ Class(Step("stop", n)) = 2
    <3> SUFFICES ASSUME NEW n \in ToSet(ns)
                 PROVE  Step("stop", n) \in PlanStep /\ Class(Step("stop", n)) = 2
      OBVIOUS
    <3>1. Step("stop", n) \in PlanStep
      BY <1>2, <2>2, StepType0 DEF Ops
    <3> QED BY <3>1 DEF Class, Step, Wait
  <2>5. InOrder(Each("stop", ns), 2, 2) /\ \A n \in ToSet(ns) : Has(Each("stop", ns), "stop", n)
    BY <2>3, <2>4, EachInOrder
  <2> QED BY <2>2, <2>5 DEF ns
<1>4. InOrder(b, 3, 3) /\ \A n \in Parts : Has(b, "backup", n)
  <2>1. Touched \in Seq(Server)
    BY <1>2
  <2>2. \A n \in ToSet(Touched) : Step("backup", n) \in PlanStep /\ Class(Step("backup", n)) = 3
    <3> SUFFICES ASSUME NEW n \in ToSet(Touched)
                 PROVE  Step("backup", n) \in PlanStep /\ Class(Step("backup", n)) = 3
      OBVIOUS
    <3>1. Step("backup", n) \in PlanStep
      BY <1>2, StepType0 DEF Ops
    <3> QED BY <3>1 DEF Class, Step, Wait
  <2>3. InOrder(b, 3, 3) /\ \A n \in ToSet(Touched) : Has(b, "backup", n)
    BY <2>1, <2>2, EachInOrder
  <2> QED BY <1>2, <2>3
<1>5. InOrder(t, 4, 7) /\ Has(t, R, Target) /\ Has(t, "start", Target)
  BY TargetLaid
<1>6. InOrder(f, 7, 7) /\ (\A n \in Others : Has(f, "start", n)) /\ Awaits(f)
  BY FollowersLaid DEF Awaits
<1>7. InOrder(x, 7, 7)
  <2>1. CASE RKE2
    BY <2>1, Nothing
  <2>2. CASE ~RKE2
    <3>1. Step("tend", Target) \in PlanStep /\ Step("tend", Target).op = "tend"
      BY <1>2, StepType0 DEF Ops, Step, Wait
    <3> QED BY <2>2, <3>1, One
  <2> QED BY <2>1, <2>2
<1>8. w \in PlanStep /\ w.op = "member" /\ InOrder(<<w>>, 7, 7)
  <2>1. w \in PlanStep
    BY <1>2, StepType DEF Ops
  <2>2. w.op = "member" /\ Class(w) = 7
    BY DEF Class, Wait
  <2> HIDE DEF w
  <2> QED BY <2>1, <2>2, One
<1>9. InOrder(y, 7, 7) /\ (RKE2 => Has(y, "cleanup", Target)) /\ \A i \in DOMAIN y : y[i].op \in After
  <2>1. CASE RKE2
    <3> DEFINE z == Step("cleanup", Target)
    <3>1. z \in PlanStep
      BY <1>2, <2>1, StepType0 DEF Ops
    <3>2. z.op = "cleanup" /\ z.node = Target /\ Class(z) = 7
      BY DEF Class, Step, Wait
    <3>3. y = <<z>>
      BY <2>1
    <3> HIDE DEF z
    <3>4. InOrder(<<z>>, 7, 7) /\ Has(<<z>>, "cleanup", Target)
      BY <3>1, <3>2, One
    <3>5. \A i \in DOMAIN <<z>> : <<z>>[i].op \in After
      BY <3>2 DEF After
    <3> HIDE DEF y
    <3> QED BY <3>3, <3>4, <3>5
  <2>2. CASE ~RKE2
    <3>1. y = <<>> /\ DOMAIN y = {}
      BY <2>2
    <3> QED BY <2>2, <3>1, Nothing
  <2> QED BY <2>1, <2>2
<1> HIDE DEF a, b, t, f, x, w, y, R
<1>10. /\ InOrder(a \o b, 2, 3)
       /\ \A n \in Parts : Has(a \o b, "stop", n) /\ Has(a \o b, "backup", n)
  <2>1. InOrder(a \o b, 2, 3)
    BY <1>3, <1>4, CatInOrder
  <2>2. a \in Seq(PlanStep) /\ b \in Seq(PlanStep)
    BY <1>3, <1>4 DEF InOrder
  <2>3. \A n \in Parts : Has(a \o b, "stop", n) /\ Has(a \o b, "backup", n)
    BY <1>3, <1>4, <2>2, CatHas
  <2> QED BY <2>1, <2>3
<1>11. /\ InOrder(a \o b \o t, 2, 7)
       /\ \A n \in Parts : Has(a \o b \o t, "stop", n) /\ Has(a \o b \o t, "backup", n)
       /\ Has(a \o b \o t, R, Target) /\ Has(a \o b \o t, "start", Target)
  <2> DEFINE s == a \o b
  <2> HIDE DEF s
  <2>1. InOrder(s, 2, 3) /\ s \in Seq(PlanStep) /\ t \in Seq(PlanStep)
    BY <1>5, <1>10 DEF s, InOrder
  <2>2. InOrder(s \o t, 2, 7)
    BY <2>1, <1>5, CatInOrder
  <2>3. \A n \in Parts : Has(s, "stop", n) /\ Has(s, "backup", n)
    BY <1>10 DEF s
  <2>4. \A n \in Parts : Has(s \o t, "stop", n) /\ Has(s \o t, "backup", n)
    BY <2>1, <2>3, CatHas
  <2>5. Has(s \o t, R, Target) /\ Has(s \o t, "start", Target)
    BY <1>5, <2>1, CatHas
  <2> QED BY <2>2, <2>4, <2>5 DEF s
<1>12. /\ InOrder(a \o b \o t \o f, 2, 7)
       /\ \A n \in Parts : Has(a \o b \o t \o f, "stop", n) /\ Has(a \o b \o t \o f, "backup", n)
       /\ Has(a \o b \o t \o f, R, Target) /\ \A n \in Parts : Has(a \o b \o t \o f, "start", n)
       /\ Awaits(a \o b \o t \o f)
  <2> DEFINE s == a \o b \o t
  <2> HIDE DEF s
  <2>1. InOrder(s, 2, 7) /\ s \in Seq(PlanStep) /\ f \in Seq(PlanStep)
    BY <1>6, <1>11 DEF s, InOrder
  <2>2. InOrder(s \o f, 2, 7)
    BY <2>1, <1>6, CatInOrder
  <2>3. (\A n \in Parts : Has(s, "stop", n) /\ Has(s, "backup", n)) /\ Has(s, R, Target) /\ Has(s, "start", Target)
    BY <1>11 DEF s
  <2>4. \A n \in Parts : Has(s \o f, "stop", n) /\ Has(s \o f, "backup", n)
    BY <2>1, <2>3, CatHas
  <2>5. Has(s \o f, R, Target)
    BY <2>1, <2>3, CatHas
  <2>6. ASSUME NEW n \in Parts PROVE Has(s \o f, "start", n)
    BY <1>6, <2>1, <2>3, CatHas DEF Parts
  <2>7. Awaits(s \o f)
    BY <1>6, <2>1, CatAwaits
  <2> QED BY <2>2, <2>4, <2>5, <2>6, <2>7 DEF s
<1> DEFINE p == a \o b \o t \o f
<1> HIDE DEF p
<1>13. /\ InOrder(p, 2, 7) /\ p \in Seq(PlanStep) /\ Has(p, R, Target) /\ Awaits(p)
       /\ \A n \in Parts : Has(p, "stop", n) /\ Has(p, "backup", n) /\ Has(p, "start", n)
  BY <1>12 DEF p, InOrder
<1>14. x \in Seq(PlanStep) /\ <<w>> \in Seq(PlanStep) /\ y \in Seq(PlanStep)
  BY <1>7, <1>8, <1>9 DEF InOrder
<1> DEFINE q == p \o x
<1> HIDE DEF q
<1>15. /\ InOrder(q, 2, 7) /\ q \in Seq(PlanStep) /\ Has(q, R, Target) /\ Awaits(q)
       /\ \A n \in Parts : Has(q, "stop", n) /\ Has(q, "backup", n) /\ Has(q, "start", n)
  <2>1. InOrder(q, 2, 7)
    BY <1>7, <1>13, CatInOrder DEF q
  <2>2. Has(q, R, Target) /\ Awaits(q)
    BY <1>13, <1>14, CatHas, CatAwaits DEF q
  <2>3. ASSUME NEW n \in Parts PROVE Has(q, "stop", n) /\ Has(q, "backup", n) /\ Has(q, "start", n)
    BY <1>13, <1>14, CatHas DEF q
  <2> QED BY <2>1, <2>2, <2>3 DEF InOrder
<1> DEFINE r == q \o <<w>>
<1> HIDE DEF r
<1>16. /\ InOrder(r, 2, 7) /\ r \in Seq(PlanStep) /\ Has(r, R, Target) /\ Ends(r)
       /\ \A n \in Parts : Has(r, "stop", n) /\ Has(r, "backup", n) /\ Has(r, "start", n)
  <2>1. InOrder(r, 2, 7)
    BY <1>8, <1>15, CatInOrder DEF r
  <2>2. Has(r, R, Target)
    BY <1>14, <1>15, CatHas DEF r
  <2>3. Ends(r)
    BY <1>8, <1>15, EndsHere DEF r
  <2>4. ASSUME NEW n \in Parts PROVE Has(r, "stop", n) /\ Has(r, "backup", n) /\ Has(r, "start", n)
    BY <1>14, <1>15, CatHas DEF r
  <2> QED BY <2>1, <2>2, <2>3, <2>4 DEF InOrder
<1>17. RestorePlan = r \o y
  BY <1>1 DEF p, q, r
<1>18. InOrder(RestorePlan, 2, 7)
  BY <1>9, <1>16, <1>17, CatInOrder
<1>19. Has(RestorePlan, R, Target) /\ (RKE2 => Has(RestorePlan, "cleanup", Target))
  BY <1>9, <1>14, <1>16, <1>17, CatHas
<1>20. Ends(RestorePlan)
  BY <1>9, <1>14, <1>16, <1>17, EndsBefore
<1>21. ASSUME NEW n \in Parts
       PROVE  Has(RestorePlan, "stop", n) /\ Has(RestorePlan, "backup", n) /\ Has(RestorePlan, "start", n)
  BY <1>14, <1>16, <1>17, CatHas
<1> QED BY <1>2, <1>18, <1>19, <1>20, <1>21 DEF R

\* A rejoin, up to the agents.
LEMMA RejoinLaid ==
    ASSUME FollowersAssumption, PlanOK, plan.rejoin
    PROVE  /\ InOrder(RejoinPlan, 2, 7)
           /\ \A n \in ToSet(Touched) :
                 Has(RejoinPlan, "stop", n) /\ Has(RejoinPlan, "backup", n) /\ Has(RejoinPlan, "start", n)
           /\ Ends(RejoinPlan)
<1> DEFINE o == plan.others[1]
           a == <<Step("stop", o), Step("backup", o)>>
           b == IF RKE2 THEN <<Step("remove", o), Step("tend", o)>> ELSE <<>>
           c == RejoinSteps(o, plan.members)
           w == Wait("member", Target, plan.members, {})
<1>1. RejoinPlan = a \o b \o c \o <<w>>
  BY DEF RejoinPlan
<1>2. /\ o \in Others /\ Others = {o} /\ o \in Parts /\ o # Target /\ Target \in Parts /\ ToSet(Touched) = {o}
      /\ plan.members \in Int
  <2>1. plan.others \in Seq(Others) /\ Len(plan.others) = 1
    BY PartsType DEF PlanOK
  <2>2. DOMAIN plan.others = {1}
    BY <2>1
  <2>3. Others = {o}
    BY <2>2 DEF Others, ToSet
  <2>4. plan.members \in Int
    BY DEF PlanOK
  <2> QED BY <2>3, <2>4, PartsType
<1>3. InOrder(a, 2, 3) /\ Has(a, "stop", o) /\ Has(a, "backup", o)
  <2> DEFINE x == Step("stop", o)
             y == Step("backup", o)
  <2>1. x \in PlanStep /\ y \in PlanStep
    <3>1. x \in PlanStep
      BY <1>2, StepType0 DEF Ops
    <3>2. y \in PlanStep
      BY <1>2, StepType0 DEF Ops
    <3> QED BY <3>1, <3>2
  <2>2. x.op = "stop" /\ x.node = o /\ y.op = "backup" /\ y.node = o /\ Class(x) = 2 /\ Class(y) = 3
    BY DEF Class, Step, Wait
  <2>3. a = <<x, y>>
    OBVIOUS
  <2> HIDE DEF x, y, a
  <2>4. a \in Seq(PlanStep) /\ DOMAIN a = {1, 2} /\ a[1] = x /\ a[2] = y
    BY <2>1, <2>3
  <2> QED BY <2>2, <2>4 DEF InOrder, Has, Is
<1>4. InOrder(b, 4, 4)
  <2>1. CASE RKE2
    <3> DEFINE x == Step("remove", o)
               y == Step("tend", o)
    <3>1. x \in PlanStep /\ y \in PlanStep
      <4>1. x \in PlanStep
        BY <1>2, <2>1, StepType0 DEF Ops
      <4>2. y \in PlanStep
        BY <1>2, StepType0 DEF Ops
      <4> QED BY <4>1, <4>2
    <3>2. x.op = "remove" /\ y.op = "tend" /\ Class(x) = 4
      BY DEF Class, Step, Wait
    <3>3. b = <<x, y>>
      BY <2>1
    <3> HIDE DEF x, y, b
    <3>4. b \in Seq(PlanStep) /\ DOMAIN b = {1, 2} /\ b[1] = x /\ b[2] = y
      BY <3>1, <3>3
    <3> QED BY <3>2, <3>4 DEF InOrder
  <2>2. CASE ~RKE2
    BY <2>2, Nothing
  <2> QED BY <2>1, <2>2
<1>5. InOrder(c, 7, 7) /\ Has(c, "start", o) /\ Awaits(c)
  <2> DEFINE m == plan.members
  <2> HIDE DEF o, m
  <2>1. m \in Int
    BY <1>2 DEF m
  <2>2. /\ InOrder(RejoinSteps(o, m), 7, 7) /\ Has(RejoinSteps(o, m), "start", o)
        /\ \E j \in DOMAIN RejoinSteps(o, m) :
              RejoinSteps(o, m)[j].op \in Waits /\ o \in RejoinSteps(o, m)[j].peers
    BY <1>2, <2>1, StepsOfRejoin
  <2> HIDE DEF c
  <2>3. Awaits(c)
    BY <1>2, <2>2 DEF Awaits, c, m
  <2> QED BY <2>2, <2>3 DEF c, m
<1>6. w \in PlanStep /\ w.op = "member" /\ InOrder(<<w>>, 7, 7)
  <2>1. w \in PlanStep
    BY <1>2, StepType DEF Ops
  <2>2. w.op = "member" /\ Class(w) = 7
    BY DEF Class, Wait
  <2> HIDE DEF w
  <2> QED BY <2>1, <2>2, One
<1> HIDE DEF o, a, b, c, w
<1>7. a \in Seq(PlanStep) /\ b \in Seq(PlanStep) /\ c \in Seq(PlanStep) /\ <<w>> \in Seq(PlanStep)
  BY <1>3, <1>4, <1>5, <1>6 DEF InOrder
<1> DEFINE p == a \o b
<1> HIDE DEF p
<1>8. InOrder(p, 2, 4) /\ p \in Seq(PlanStep) /\ Has(p, "stop", o) /\ Has(p, "backup", o)
  <2>1. InOrder(p, 2, 4)
    BY <1>3, <1>4, CatInOrder DEF p
  <2>2. Has(p, "stop", o) /\ Has(p, "backup", o)
    BY <1>3, <1>7, CatHas DEF p
  <2> QED BY <2>1, <2>2 DEF InOrder
<1> DEFINE q == p \o c
<1> HIDE DEF q
<1>9. /\ InOrder(q, 2, 7) /\ q \in Seq(PlanStep) /\ Awaits(q)
      /\ Has(q, "stop", o) /\ Has(q, "backup", o) /\ Has(q, "start", o)
  <2>1. InOrder(q, 2, 7)
    BY <1>5, <1>8, CatInOrder DEF q
  <2>2. Has(q, "stop", o) /\ Has(q, "backup", o) /\ Has(q, "start", o)
    BY <1>5, <1>7, <1>8, CatHas DEF q
  <2>3. Awaits(q)
    BY <1>5, <1>7, <1>8, CatAwaits DEF q
  <2> QED BY <2>1, <2>2, <2>3 DEF InOrder
<1>10. RejoinPlan = q \o <<w>>
  BY <1>1 DEF p, q
<1>11. InOrder(RejoinPlan, 2, 7)
  BY <1>6, <1>9, <1>10, CatInOrder
<1>12. Has(RejoinPlan, "stop", o) /\ Has(RejoinPlan, "backup", o) /\ Has(RejoinPlan, "start", o)
  BY <1>7, <1>9, <1>10, CatHas
<1>13. Ends(RejoinPlan)
  BY <1>6, <1>9, <1>10, EndsHere
<1> QED BY <1>2, <1>11, <1>12, <1>13

\* The plan that Preflight builds is in order, whoever takes part.
LEMMA PlanIsLaid == ASSUME FollowersAssumption, PlanOK PROVE Laid
<1> DEFINE a == Each("agentStop", AgentNodes)
           p == IF plan.rejoin THEN RejoinPlan ELSE RestorePlan
           e == Each("agentStart", AgentNodes)
           x == IF plan.rejoin THEN <<>> ELSE <<Step("tend", Target)>>
           R == IF RKE2 THEN "reset" ELSE "restore"
<1>1. Steps = a \o p \o e \o x
  BY DEF Steps
<1>2. AgentNodes \in Seq(Server) /\ ToSet(AgentNodes) \subseteq Parts /\ Target \in Parts
  BY PartsType
<1>3. InOrder(a, 1, 1) /\ \A n \in ToSet(AgentNodes) : Has(a, "agentStop", n)
  <2>1. \A n \in ToSet(AgentNodes) : Step("agentStop", n) \in PlanStep /\ Class(Step("agentStop", n)) = 1
    <3> SUFFICES ASSUME NEW n \in ToSet(AgentNodes)
                 PROVE  Step("agentStop", n) \in PlanStep /\ Class(Step("agentStop", n)) = 1
      OBVIOUS
    <3>1. Step("agentStop", n) \in PlanStep
      BY <1>2, StepType0 DEF Ops
    <3> QED BY <3>1 DEF Class, Step, Wait
  <2> QED BY <1>2, <2>1, EachInOrder
<1>4. InOrder(e, 8, 8) /\ \A n \in ToSet(AgentNodes) : Has(e, "agentStart", n)
  <2>1. \A n \in ToSet(AgentNodes) : Step("agentStart", n) \in PlanStep /\ Class(Step("agentStart", n)) = 8
    <3> SUFFICES ASSUME NEW n \in ToSet(AgentNodes)
                 PROVE  Step("agentStart", n) \in PlanStep /\ Class(Step("agentStart", n)) = 8
      OBVIOUS
    <3>1. Step("agentStart", n) \in PlanStep
      BY <1>2, StepType0 DEF Ops
    <3> QED BY <3>1 DEF Class, Step, Wait
  <2> QED BY <1>2, <2>1, EachInOrder
<1>5. \A i \in DOMAIN e : e[i].op \in After
  BY DEF Each, Step, Wait, After
<1>6. /\ InOrder(p, 2, 7) /\ Ends(p)
      /\ \A n \in ToSet(Touched) : Has(p, "stop", n) /\ Has(p, "backup", n) /\ Has(p, "start", n)
      /\ ~plan.rejoin => Has(p, R, Target) /\ (RKE2 => Has(p, "cleanup", Target))
  <2>1. CASE plan.rejoin
    BY <2>1, RejoinLaid
  <2>2. CASE ~plan.rejoin
    BY <2>2, RestoreLaid
  <2> QED BY <2>1, <2>2
<1>7. InOrder(x, 8, 8) /\ \A i \in DOMAIN x : x[i].op \in After
  <2>1. CASE plan.rejoin
    <3>1. x = <<>> /\ DOMAIN x = {}
      BY <2>1
    <3> QED BY <3>1, Nothing
  <2>2. CASE ~plan.rejoin
    <3> DEFINE y == Step("tend", Target)
    <3>1. y \in PlanStep /\ y.op = "tend"
      BY <1>2, StepType0 DEF Ops, Step, Wait
    <3>2. x = <<y>>
      BY <2>2
    <3> HIDE DEF y, x
    <3>3. InOrder(<<y>>, 8, 8) /\ \A i \in DOMAIN <<y>> : <<y>>[i].op \in After
      BY <3>1, One DEF After
    <3> QED BY <3>2, <3>3
  <2> QED BY <2>1, <2>2
<1> HIDE DEF a, p, e, x, R
<1>8. a \in Seq(PlanStep) /\ p \in Seq(PlanStep) /\ e \in Seq(PlanStep) /\ x \in Seq(PlanStep)
  BY <1>3, <1>4, <1>6, <1>7 DEF InOrder
<1> DEFINE q == a \o p
<1> HIDE DEF q
<1>9. /\ InOrder(q, 1, 7) /\ q \in Seq(PlanStep) /\ Ends(q)
      /\ \A n \in ToSet(AgentNodes) : Has(q, "agentStop", n)
      /\ \A n \in ToSet(Touched) : Has(q, "stop", n) /\ Has(q, "backup", n) /\ Has(q, "start", n)
      /\ ~plan.rejoin => Has(q, R, Target) /\ (RKE2 => Has(q, "cleanup", Target))
  <2>1. InOrder(q, 1, 7)
    BY <1>3, <1>6, CatInOrder DEF q
  <2>2. Ends(q)
    BY <1>6, <1>8, EndsAfter DEF q
  <2>3. \A n \in ToSet(AgentNodes) : Has(q, "agentStop", n)
    BY <1>3, <1>8, CatHas DEF q
  <2>4. \A n \in ToSet(Touched) : Has(q, "stop", n) /\ Has(q, "backup", n) /\ Has(q, "start", n)
    BY <1>6, <1>8, CatHas DEF q
  <2>5. ~plan.rejoin => Has(q, R, Target) /\ (RKE2 => Has(q, "cleanup", Target))
    BY <1>6, <1>8, CatHas DEF q
  <2> QED BY <2>1, <2>2, <2>3, <2>4, <2>5 DEF InOrder
<1> DEFINE r == q \o e
<1> HIDE DEF r
<1>10. /\ InOrder(r, 1, 8) /\ r \in Seq(PlanStep) /\ Ends(r)
       /\ \A n \in ToSet(AgentNodes) : Has(r, "agentStop", n) /\ Has(r, "agentStart", n)
       /\ \A n \in ToSet(Touched) : Has(r, "stop", n) /\ Has(r, "backup", n) /\ Has(r, "start", n)
       /\ ~plan.rejoin => Has(r, R, Target) /\ (RKE2 => Has(r, "cleanup", Target))
  <2>1. InOrder(r, 1, 8)
    BY <1>4, <1>9, CatInOrder DEF r
  <2>2. Ends(r)
    BY <1>5, <1>8, <1>9, EndsBefore DEF r
  <2>3. \A n \in ToSet(AgentNodes) : Has(r, "agentStop", n) /\ Has(r, "agentStart", n)
    BY <1>4, <1>8, <1>9, CatHas DEF r
  <2>4. \A n \in ToSet(Touched) : Has(r, "stop", n) /\ Has(r, "backup", n) /\ Has(r, "start", n)
    BY <1>8, <1>9, CatHas DEF r
  <2>5. ~plan.rejoin => Has(r, R, Target) /\ (RKE2 => Has(r, "cleanup", Target))
    BY <1>8, <1>9, CatHas DEF r
  <2> QED BY <2>1, <2>2, <2>3, <2>4, <2>5 DEF InOrder
<1>11. Steps = r \o x
  BY <1>1 DEF q, r
<1>12. InOrder(Steps, 1, 8)
  BY <1>7, <1>10, <1>11, CatInOrder
<1>13. Ends(Steps)
  BY <1>7, <1>8, <1>10, <1>11, EndsBefore
<1>14. \A n \in ToSet(AgentNodes) : Has(Steps, "agentStop", n) /\ Has(Steps, "agentStart", n)
  BY <1>8, <1>10, <1>11, CatHas
<1>15. \A n \in ToSet(Touched) : Has(Steps, "stop", n) /\ Has(Steps, "backup", n) /\ Has(Steps, "start", n)
  BY <1>8, <1>10, <1>11, CatHas
<1>16. ~plan.rejoin => Has(Steps, R, Target) /\ (RKE2 => Has(Steps, "cleanup", Target))
  BY <1>8, <1>10, <1>11, CatHas
<1> QED BY <1>12, <1>13, <1>14, <1>15, <1>16 DEF Laid, R

-----------------------------------------------------------------------------
(* What a plan in order says of the steps before the one Run is at *)

\* What a step of a plan in order is.
LEMMA StepOf ==
    ASSUME Laid, NEW i \in DOMAIN Steps
    PROVE  /\ Steps[i] \in PlanStep
           /\ Steps[i].op \in Ops /\ Steps[i].node \in Parts /\ Steps[i].peers \subseteq Others
           /\ DOMAIN Steps = 1..Len(Steps) /\ Len(Steps) \in Nat
           /\ Steps[i].op # "tend" => Class(Steps[i]) \in 1..8
<1>1. Steps \in Seq(PlanStep) /\ (Steps[i].op # "tend" => Class(Steps[i]) \in 1..8)
  BY DEF Laid, InOrder
<1>2. Steps[i] \in PlanStep /\ DOMAIN Steps = 1..Len(Steps) /\ Len(Steps) \in Nat
  BY <1>1
<1>3. Steps[i].op \in Ops /\ Steps[i].node \in Parts /\ Steps[i].peers \subseteq Others
  BY <1>2 DEF PlanStep
<1> QED BY <1>1, <1>2, <1>3

\* The class of a step is that of its op and its node.
LEMMA ClassIs ==
    ASSUME NEW s, NEW op, NEW n, Is(s, op, n)
    PROVE  Class(s) = Class(Step(op, n))
BY DEF Is, Class, Step, Wait

\* The classes give the order; those of 4 to 6 stand for one step.
LEMMA Order ==
    ASSUME Laid, NEW i \in DOMAIN Steps, NEW j \in DOMAIN Steps,
           Steps[i].op # "tend", Steps[j].op # "tend"
    PROVE  /\ Class(Steps[i]) < Class(Steps[j]) => i < j
           /\ Class(Steps[i]) = Class(Steps[j]) /\ Class(Steps[i]) \in 4..6 => i = j
<1>1. /\ i \in Int /\ j \in Int /\ Class(Steps[i]) \in 1..8 /\ Class(Steps[j]) \in 1..8
  BY StepOf
<1>2. \A a, b \in DOMAIN Steps :
         a < b /\ Steps[a].op # "tend" /\ Steps[b].op # "tend" =>
             /\ Class(Steps[a]) <= Class(Steps[b])
             /\ Class(Steps[b]) \in 4..6 => Class(Steps[a]) < Class(Steps[b])
  BY DEF Laid, InOrder
<1>3. i < j \/ i = j \/ j < i
  BY <1>1
<1> QED BY <1>1, <1>2, <1>3

\* What is begun comes after what has a lower class, and that has succeeded.
LEMMA Before ==
    ASSUME Laid, RunInv, NEW i \in 1..at, Steps[i].op # "tend",
           NEW op, NEW n, op # "tend", Has(Steps, op, n), Class(Step(op, n)) < Class(Steps[i])
    PROVE  Past(op, n) /\ \E k \in 1..Done : k < i /\ Is(Steps[k], op, n)
<1>1. PICK k \in DOMAIN Steps : Is(Steps[k], op, n)
  BY DEF Has
<1>2. i \in DOMAIN Steps /\ at \in Nat /\ DOMAIN Steps = 1..Len(Steps)
  BY <1>1, StepOf DEF RunInv
<1>3. k < i /\ 1 <= k
  BY <1>1, <1>2, ClassIs, Order DEF Is
<1>4. k \in 1..Done
  BY <1>2, <1>3 DEF Done
<1> QED BY <1>1, <1>3, <1>4 DEF Past

\* What has succeeded, or was begun before the step Run is at, has no higher class.
LEMMA NotYet ==
    ASSUME Laid, RunInv, phase # "next", Current.op # "tend",
           NEW i \in 1..at, Steps[i].op # "tend"
    PROVE  /\ Class(Steps[i]) <= Class(Current)
           /\ Class(Steps[i]) = Class(Current) /\ Class(Current) \in 4..6 => i = at
<1>1. at \in DOMAIN Steps /\ i \in DOMAIN Steps /\ i <= at /\ at \in Nat /\ i \in Nat
  <2>1. at \in DOMAIN Steps /\ at \in 0..Len(Steps)
    BY DEF RunInv
  <2> QED BY <2>1, StepOf
<1>2. Class(Steps[i]) \in 1..8 /\ Class(Current) \in 1..8
  BY <1>1, StepOf DEF Current
<1>3. ~(Class(Current) < Class(Steps[i]))
  <2>1. Class(Steps[at]) < Class(Steps[i]) => at < i
    BY <1>1, Order DEF Current
  <2> QED BY <1>1, <2>1 DEF Current
<1> QED BY <1>1, <1>2, <1>3, Order DEF Current

\* The steps that have succeeded are begun, all of them or all but the one Run is at.
LEMMA DoneIs ==
    ASSUME Laid, RunInv
    PROVE  /\ Done \in Int /\ at \in Nat /\ Done <= at /\ at - 1 <= Done
           /\ 1..Done \subseteq 1..at /\ 1..at \subseteq DOMAIN Steps
           /\ phase # "next" => Done = at - 1 /\ at \in 1..at /\ at \notin 1..Done
           /\ phase = "next" => Done = at
<1>1. at \in 0..Len(Steps) /\ (phase # "next" => at \in DOMAIN Steps)
  BY DEF RunInv
<1>2. Steps \in Seq(PlanStep)
  BY DEF Laid, InOrder
<1>3. Len(Steps) \in Nat /\ DOMAIN Steps = 1..Len(Steps)
  BY <1>2
<1> QED BY <1>1, <1>3 DEF Done

\* The order of a rescue: the agents are stopped, the servers stopped, their data
\* moved aside, the snapshot restored, the target started and seen up, the
\* followers brought back, the agents started.
LEMMA Chain ==
    ASSUME FollowersAssumption, PlanOK, Laid, RunInv
    PROVE  /\ \A n : Past("stop", n) => n \in ToSet(Touched) /\ \A m \in ToSet(AgentNodes) : Past("agentStop", m)
           /\ \A n : Begun("backup", n) => n \in ToSet(Touched) /\ Past("stop", n)
           /\ \A n : Begun("reset", n) \/ Begun("restore", n) =>
                 n = Target /\ ~plan.rejoin /\ Past("backup", n)
           /\ \A n : Begun("reset", n) => RKE2
           /\ \A n : Begun("restore", n) => ~RKE2
           /\ Begun("start", Target) => ~plan.rejoin /\ (Past("reset", Target) \/ Past("restore", Target))
           /\ \A n : Begun("up", n) => n = Target /\ RKE2 /\ Past("start", Target) /\ Past("reset", Target)
           /\ \A n : Begun("agentStart", n) =>
                 /\ \A m \in ToSet(Touched) : Past("start", m)
                 /\ \A m \in Others : \E i \in 1..Done : Steps[i].op \in Waits /\ m \in Steps[i].peers
                 /\ \E f \in 1..Done : IsLast(Steps, f) /\ AwaitsAll(Steps, f)
           /\ \A i \in 1..at : Steps[i].op \in Waits /\ ~plan.rejoin /\ RKE2 => Past("reset", Target)
<1>1. /\ Target \in Parts /\ Target \notin Others
      /\ ToSet(Touched) = IF plan.rejoin THEN Others ELSE Parts
      /\ ToSet(AgentNodes) \subseteq ToSet(Touched)
  BY PartsType
<1>2. 1..Done \subseteq 1..at /\ 1..at \subseteq DOMAIN Steps /\ Done \in Int /\ at \in Nat /\ at - 1 <= Done
  BY DoneIs
<1>3. \A i \in 1..at : Steps[i] \in PlanStep
  BY <1>2, StepOf
<1>4. /\ \A n \in ToSet(AgentNodes) : Has(Steps, "agentStop", n) /\ Has(Steps, "agentStart", n)
      /\ \A n \in ToSet(Touched) :
            Has(Steps, "stop", n) /\ Has(Steps, "backup", n) /\ Has(Steps, "start", n)
      /\ ~plan.rejoin => Has(Steps, IF RKE2 THEN "reset" ELSE "restore", Target)
      /\ Ends(Steps)
  BY DEF Laid
<1>5. \A s, n : /\ Is(s, "agentStop", n) => Class(s) = 1
                /\ Is(s, "stop", n) => Class(s) = 2
                /\ Is(s, "backup", n) => Class(s) = 3
                /\ Is(s, "reset", n) \/ Is(s, "restore", n) => Class(s) = 4
                /\ Is(s, "start", Target) => Class(s) = 5
                /\ Is(s, "start", n) => Class(s) <= 7
                /\ Is(s, "up", n) => Class(s) = 6
                /\ Is(s, "agentStart", n) => Class(s) = 8
                /\ s.op \in Waits => Class(s) = 7
  BY DEF Is, Class, Waits
<1>6. \A op, n : Is(Step(op, n), op, n)
  BY DEF Is, Step, Wait
<1>7. ASSUME NEW n, Past("stop", n)
      PROVE  n \in ToSet(Touched) /\ \A m \in ToSet(AgentNodes) : Past("agentStop", m)
  <2>1. PICK i \in 1..Done : Is(Steps[i], "stop", n)
    BY <1>7 DEF Past
  <2>2. n \in ToSet(Touched)
    BY <1>2, <1>3, <2>1 DEF PlanStep, Is
  <2>3. ASSUME NEW m \in ToSet(AgentNodes) PROVE Past("agentStop", m)
    <3>1. Class(Step("agentStop", m)) < Class(Steps[i]) /\ Steps[i].op # "tend"
      BY <1>5, <1>6, <2>1 DEF Is
    <3> QED BY <1>2, <1>4, <3>1, Before
  <2> QED BY <2>2, <2>3
<1>8. ASSUME NEW n, Begun("backup", n) PROVE n \in ToSet(Touched) /\ Past("stop", n)
  <2>1. PICK i \in 1..at : Is(Steps[i], "backup", n)
    BY <1>8 DEF Begun
  <2>2. n \in ToSet(Touched)
    BY <1>3, <2>1 DEF PlanStep, Is
  <2>3. Class(Step("stop", n)) < Class(Steps[i]) /\ Steps[i].op # "tend"
    BY <1>5, <1>6, <2>1 DEF Is
  <2> QED BY <1>4, <2>2, <2>3, Before
<1>9. ASSUME NEW n, Begun("reset", n) \/ Begun("restore", n)
      PROVE  n = Target /\ ~plan.rejoin /\ Past("backup", n)
  <2>1. PICK i \in 1..at : Is(Steps[i], "reset", n) \/ Is(Steps[i], "restore", n)
    BY <1>9 DEF Begun
  <2>2. n = Target /\ ~plan.rejoin
    BY <1>3, <2>1 DEF PlanStep, Is
  <2>3. Class(Step("backup", n)) < Class(Steps[i]) /\ Steps[i].op # "tend"
    BY <1>5, <1>6, <2>1 DEF Is
  <2> QED BY <1>1, <1>4, <2>2, <2>3, Before
<1>10. ASSUME NEW n, Begun("reset", n) PROVE RKE2
  BY <1>3, <1>10 DEF PlanStep, Is, Begun
<1>11. ASSUME NEW n, Begun("restore", n) PROVE ~RKE2
  BY <1>3, <1>11 DEF PlanStep, Is, Begun
<1>12. ASSUME Begun("start", Target)
       PROVE  ~plan.rejoin /\ (Past("reset", Target) \/ Past("restore", Target))
  <2>1. PICK i \in 1..at : Is(Steps[i], "start", Target)
    BY <1>12 DEF Begun
  <2>2. ~plan.rejoin
    BY <1>3, <2>1 DEF PlanStep, Is
  <2> DEFINE R == IF RKE2 THEN "reset" ELSE "restore"
  <2>3. Class(Step(R, Target)) < Class(Steps[i]) /\ Steps[i].op # "tend" /\ R # "tend"
    BY <1>5, <1>6, <2>1 DEF Is
  <2>4. Past(R, Target)
    BY <1>4, <2>2, <2>3, Before
  <2> QED BY <2>2, <2>4
<1>13. ASSUME NEW n, Begun("up", n)
       PROVE  n = Target /\ RKE2 /\ Past("start", Target) /\ Past("reset", Target)
  <2>1. PICK i \in 1..at : Is(Steps[i], "up", n)
    BY <1>13 DEF Begun
  <2>2. n = Target /\ RKE2 /\ ~plan.rejoin
    BY <1>3, <2>1 DEF PlanStep, Is
  <2>3. /\ Class(Step("start", Target)) < Class(Steps[i]) /\ Class(Step("reset", Target)) < Class(Steps[i])
        /\ Steps[i].op # "tend"
    BY <1>5, <1>6, <2>1 DEF Is
  <2>4. Past("start", Target)
    BY <1>1, <1>4, <2>2, <2>3, Before
  <2>5. Past("reset", Target)
    BY <1>1, <1>4, <2>2, <2>3, Before
  <2> QED BY <2>2, <2>4, <2>5
<1>14. ASSUME NEW n, Begun("agentStart", n)
       PROVE  /\ \A m \in ToSet(Touched) : Past("start", m)
              /\ \A m \in Others : \E i \in 1..Done : Steps[i].op \in Waits /\ m \in Steps[i].peers
              /\ \E f \in 1..Done : IsLast(Steps, f) /\ AwaitsAll(Steps, f)
  <2>1. PICK i \in 1..at : Is(Steps[i], "agentStart", n)
    BY <1>14 DEF Begun
  <2>2. Class(Steps[i]) = 8 /\ Steps[i].op # "tend" /\ i \in DOMAIN Steps
    BY <1>2, <1>5, <2>1 DEF Is
  <2>3. ASSUME NEW m \in ToSet(Touched) PROVE Past("start", m)
    <3>1. Class(Step("start", m)) < Class(Steps[i])
      BY <1>5, <1>6, <2>2 DEF Class, Step, Wait
    <3> QED BY <1>4, <2>2, <3>1, Before
  <2>4. PICK f \in DOMAIN Steps : IsLast(Steps, f) /\ AwaitsAll(Steps, f)
    BY <1>4 DEF Ends
  <2>5. f \in 1..Done
    <3>1. Class(Steps[f]) = 7 /\ Steps[f].op # "tend"
      BY <1>5, <2>4 DEF IsLast, Waits
    <3>2. f < i
      BY <2>2, <3>1, Order
    <3>3. f \in Int /\ 1 <= f
      BY StepOf
    <3> QED BY <1>2, <3>2, <3>3
  <2>6. ASSUME NEW m \in Others PROVE \E j \in 1..Done : Steps[j].op \in Waits /\ m \in Steps[j].peers
    <3>1. PICK j \in DOMAIN Steps : j < f /\ Steps[j].op \in Waits /\ m \in Steps[j].peers
      BY <2>4 DEF AwaitsAll
    <3>2. j \in Int /\ 1 <= j
      BY StepOf
    <3>3. j \in 1..Done
      BY <1>2, <2>5, <3>1, <3>2
    <3> QED BY <3>1, <3>3
  <2> QED BY <2>3, <2>4, <2>5, <2>6
<1>15. ASSUME NEW i \in 1..at, Steps[i].op \in Waits, ~plan.rejoin, RKE2 PROVE Past("reset", Target)
  <2>1. Class(Step("reset", Target)) < Class(Steps[i]) /\ Steps[i].op # "tend"
    BY <1>5, <1>6, <1>15 DEF Waits
  <2> QED BY <1>4, <1>15, <2>1, Before
<1> QED BY <1>7, <1>8, <1>9, <1>10, <1>11, <1>12, <1>13, <1>14, <1>15

-----------------------------------------------------------------------------
(* What a step changes *)

\* The plan is what was chosen, nothing else.
LEMMA Same ==
    ASSUME plan' = plan
    PROVE  /\ Steps' = Steps /\ Parts' = Parts /\ Others' = Others /\ AgentNodes' = AgentNodes
           /\ RKE2' = RKE2 /\ (PlanOK => PlanOK')
<1>1. Parts' = Parts /\ Others' = Others /\ AgentNodes' = AgentNodes /\ RKE2' = RKE2 /\ Touched' = Touched
  BY DEF Parts, Others, AgentNodes, RKE2, Touched
<1>2. \A o, want : RejoinSteps(o, want)' = RejoinSteps(o, want)
  BY <1>1 DEF RejoinSteps
<1>3. FollowerSteps' = FollowerSteps
  BY <1>1 DEF FollowerSteps, RejoinSteps
<1>4. TargetSteps' = TargetSteps
  BY <1>1 DEF TargetSteps
<1>5. RestorePlan' = RestorePlan
  BY <1>1, <1>3, <1>4 DEF RestorePlan, Each
<1>6. RejoinPlan' = RejoinPlan
  BY <1>1 DEF RejoinPlan, RejoinSteps
<1>7. Steps' = Steps
  BY <1>1, <1>5, <1>6 DEF Steps, Each
<1>8. PlanOK => PlanOK'
  BY <1>1 DEF PlanOK
<1> QED BY <1>1, <1>7, <1>8

\* The other servers are as they were.
Elsewhere(n) == \A m \in Server : m # n => server'[m] = server[m]

\* What script s changes when it runs to its end on n.
Changed(s, n) ==
    /\ agents' = IF s = "agentStop" THEN agents \ {n}
                 ELSE IF s = "agentStart" THEN agents \cup {n} ELSE agents
    /\ members' = IF s = "restore" THEN {n} ELSE IF s = "add" THEN members \cup {n}
                  ELSE IF s = "remove" THEN members \ {n} ELSE members
    /\ learners' = IF s = "restore" THEN {} ELSE IF s = "add" THEN learners \cup {n}
                   ELSE IF s = "remove" THEN learners \ {n} ELSE learners
    /\ reset' = IF s = "reset" THEN "first" ELSE IF s = "reset2" THEN "second" ELSE reset
    /\ exit' = IF s = "reset" THEN "none" ELSE exit
    /\ orphans' \subseteq orphans \cup {n}
    /\ s \notin {"stop", "stop2"} => orphans' = orphans
    /\ server[n].data # "old" => orphans' \subseteq orphans
    /\ server' \in [Server -> [on : BOOLEAN, data : Data, via : {"own", "target", "none"}]]
    /\ Elsewhere(n)
    /\ server'[n].on = IF s \in {"stop", "stop2"} THEN FALSE
                       ELSE IF s \in {"start", "start2"} THEN TRUE ELSE server[n].on
    /\ server'[n].data = IF s \in {"backup", "wipe"} THEN "empty"
                         ELSE IF s = "restore" THEN "restored" ELSE server[n].data
    /\ server'[n].via = IF s \in {"start", "start2"} THEN JoinsVia(n)
                        ELSE IF s = "patch" THEN "target"
                        ELSE IF s = "cleanup" THEN "own" ELSE server[n].via
    /\ s \in Checks => Seen(s)

\* Every script changes that and nothing else.
LEMMA Effects ==
    ASSUME PlanTypeOK, NEW s, NEW n \in Server, Does(s, n)
    PROVE  Changed(s, n)
<1>0. server \in [Server -> [on : BOOLEAN, data : Data, via : {"own", "target", "none"}]]
  BY DEF PlanTypeOK
<1>a. JoinsVia(n) \in {"own", "target", "none"} /\ {"old", "empty", "restored"} \subseteq Data
  BY <1>0 DEF JoinsVia, Data
<1>1. CASE s \in Checks /\ Seen(s) /\ UNCHANGED nodeVars
  BY <1>0, <1>a, <1>1 DEF nodeVars, etcdVars, Checks, Elsewhere, Changed
<1>2. CASE s = "tend" /\ UNCHANGED nodeVars
  BY <1>0, <1>a, <1>2 DEF nodeVars, etcdVars, Checks, Elsewhere, Changed
<1>3. CASE s = "agentStop" /\ AgentScript(n, FALSE)
  BY <1>0, <1>a, <1>3 DEF AgentScript, etcdVars, Checks, Elsewhere, Changed
<1>4. CASE s = "agentStart" /\ AgentScript(n, TRUE)
  BY <1>0, <1>a, <1>4 DEF AgentScript, etcdVars, Checks, Elsewhere, Changed
<1>5. CASE s \in {"stop", "stop2"} /\ StopScript(n)
  BY <1>0, <1>a, <1>5 DEF StopScript, etcdVars, Checks, Elsewhere, Changed
<1>6. CASE s \in {"backup", "wipe"} /\ MoveAside(n)
  BY <1>0, <1>a, <1>6 DEF MoveAside, etcdVars, Checks, Elsewhere, Changed
<1>7. CASE s = "reset" /\ ResetScript("first")
  BY <1>0, <1>a, <1>7 DEF ResetScript, Checks, Elsewhere, Changed
<1>8. CASE s = "reset2" /\ ResetScript("second")
  BY <1>0, <1>a, <1>8 DEF ResetScript, Checks, Elsewhere, Changed
<1>9. CASE s = "restore" /\ RestoreScript(n)
  BY <1>0, <1>a, <1>9 DEF RestoreScript, Checks, Elsewhere, Changed
<1>10. CASE s \in {"start", "start2"} /\ StartScript(n)
  BY <1>0, <1>a, <1>10 DEF StartScript, etcdVars, Checks, Elsewhere, Changed
<1>11. CASE s = "cleanup" /\ CleanupScript(n)
  BY <1>0, <1>a, <1>11 DEF CleanupScript, etcdVars, Checks, Elsewhere, Changed
<1>12. CASE s = "patch" /\ PatchScript(n)
  BY <1>0, <1>a, <1>12 DEF PatchScript, etcdVars, Checks, Elsewhere, Changed
<1>13. CASE s = "add" /\ AddScript(n)
  BY <1>0, <1>a, <1>13 DEF AddScript, Checks, Elsewhere, Changed
<1>14. CASE s = "remove" /\ RemoveScript(n)
  BY <1>0, <1>a, <1>14 DEF RemoveScript, Checks, Elsewhere, Changed
<1> QED BY <1>1, <1>2, <1>3, <1>4, <1>5, <1>6, <1>7, <1>8, <1>9, <1>10, <1>11, <1>12, <1>13, <1>14 DEF Does

\* Which script runs in which step.
LEMMA ScriptIs ==
    ASSUME Laid, RunInv, phase # "next"
    PROVE  /\ Current \in PlanStep /\ Current.node \in Parts /\ Current = Steps[at] /\ at \in 1..at
           /\ Script \in {"reset", "poll", "verify", "wipe"} => Current.op = "reset" /\ phase = Script
           /\ Script \in {"alone", "stop2", "reset2", "poll2", "start2", "wait2"} =>
                 Current.op = "up" /\ phase = Script
           /\ Script \notin {"reset", "poll", "verify", "wipe",
                             "alone", "stop2", "reset2", "poll2", "start2", "wait2"} =>
                 Current.op = Script /\ phase = "run" /\ Script \in Ops \ {"reset", "up"}
           /\ Following = "next" => phase \in {"run", "verify", "alone", "wait2"}
           /\ phase \in {"run", "verify", "alone", "wait2"} => Following = "next"
<1>1. at \in DOMAIN Steps /\ phase \in PlanPhases \ {"next"}
  BY DEF RunInv
<1>2. Current \in PlanStep /\ Current.node \in Parts /\ Current.op \in Ops /\ Current = Steps[at] /\ at \in 1..at
  BY <1>1, StepOf DEF Current
<1>3. phase = "run" => Current.op = Script /\ Script \in Ops \ {"reset", "up"}
  BY <1>2 DEF Script, RunInv
<1>4. phase # "run" => phase = Script
  BY DEF Script
<1>5. /\ phase \in {"reset", "poll", "verify", "wipe"} => Current.op = "reset"
      /\ phase \in {"alone", "stop2", "reset2", "poll2", "start2", "wait2"} => Current.op = "up"
  BY DEF RunInv
<1>6. Following = "next" <=> phase \in {"run", "verify", "alone", "wait2"}
  BY <1>1 DEF Following, PlanPhases
<1>7. Script \in Ops \ {"reset", "up"} =>
        Script \notin {"reset", "poll", "verify", "wipe", "alone", "stop2", "reset2", "poll2", "start2", "wait2"}
  BY DEF Ops
<1> QED BY <1>1, <1>2, <1>3, <1>4, <1>5, <1>6, <1>7 DEF PlanPhases

\* A step leaves the servers alone (but for an etcd of old that ends), or is the script of the step Run is at run to
\* its end, or a drop-in written by a start that failed, or the servers' own.
Quiet ==
    /\ UNCHANGED <<server, agents, members, learners, reset, exit, agentOff, noted>>
    /\ orphans' \subseteq orphans
    /\ Done' = Done /\ at' \in Nat /\ at <= at'
    /\ failed => failed' /\ Current' = Current
Runs ==
    /\ phase # "next" /\ ~ended /\ ~failed
    /\ Does(Script, Current.node)
    /\ at' = at /\ Current' = Current
    /\ \/ /\ ~failed'
          /\ Done' = IF phase \in {"run", "verify", "alone", "wait2"} THEN at ELSE Done
          /\ agentOff' = CASE Script = "agentStop" -> agentOff \cup {Current.node}
                           [] Script = "agentStart" -> agentOff \ {Current.node} [] OTHER -> agentOff
          /\ noted' = IF Script = "start" /\ RKE2 THEN noted \cup {Current.node} ELSE noted
       \/ failed' /\ Done' = Done /\ UNCHANGED <<agentOff, noted>>
Drops ==
    /\ phase # "next" /\ ~ended /\ ~failed
    /\ Script \in {"start", "start2"} /\ DropIn(Current.node)
    /\ at' = at /\ Current' = Current
    /\ failed' /\ Done' = Done /\ UNCHANGED <<agentOff, noted>>
World ==
    /\ ResetEnds \/ \E n \in Server : Join(n) \/ Promote(n) \/ AgentPlan(n)
    /\ UNCHANGED runVars /\ Done' = Done /\ at' = at /\ Current' = Current

\* Every step of a rescue is of one of the four kinds.
LEMMA Kinds ==
    ASSUME Laid, PlanTypeOK, RunInv, [PlanNext]_planVars
    PROVE  plan' = plan /\ Steps' = Steps /\ (Quiet \/ Runs \/ Drops \/ World)
<1>1. plan' = plan
  BY DEF PlanNext, planVars, runVars, Begin, StepDone, NotReplaced, NotAlone, StepFails, End, AbortPlan,
         ResetEnds, Join, Promote, AgentPlan, OrphanEnds
<1>2. Steps' = Steps /\ RKE2' = RKE2
  BY <1>1, Same
<1>3. ended \in BOOLEAN /\ failed \in BOOLEAN /\ (failed => ended /\ phase # "next") /\ at \in Nat
  BY DEF PlanTypeOK, RunInv
<1>4. ASSUME UNCHANGED <<at, phase>> PROVE Done' = Done /\ Current' = Current
  BY <1>2, <1>4 DEF Done, Current
<1>5. CASE Begin
  <2>1. at' = at + 1 /\ phase = "next" /\ ~ended /\ phase' # "next"
    BY <1>5 DEF Begin
  <2>2. Done' = Done /\ ~failed
    BY <1>3, <2>1 DEF Done
  <2>3. /\ UNCHANGED <<server, agents, members, learners, reset, exit, agentOff, noted>>
        /\ orphans' \subseteq orphans
    BY <1>5 DEF Begin, nodeVars, etcdVars
  <2> QED BY <1>1, <1>2, <1>3, <2>1, <2>2, <2>3 DEF Quiet
<1>6. CASE StepDone
  <2>1. phase # "next" /\ ~ended /\ Does(Script, Current.node) /\ at' = at /\ failed' = failed /\ phase' = Following
    BY <1>6 DEF StepDone
  <2>2. ~failed /\ ~failed' /\ Current' = Current
    BY <1>2, <1>3, <2>1 DEF Current
  <2>3. Done' = IF phase \in {"run", "verify", "alone", "wait2"} THEN at ELSE Done
    BY <1>3, <2>1, ScriptIs DEF Done
  <2>4. /\ agentOff' = CASE Script = "agentStop" -> agentOff \cup {Current.node}
                         [] Script = "agentStart" -> agentOff \ {Current.node} [] OTHER -> agentOff
        /\ noted' = IF Script = "start" /\ RKE2 THEN noted \cup {Current.node} ELSE noted
    BY <1>6 DEF StepDone
  <2> QED BY <1>1, <1>2, <2>1, <2>2, <2>3, <2>4 DEF Runs
<1>7. CASE NotReplaced \/ NotAlone
  <2>1. /\ at' = at /\ failed' = failed
        /\ UNCHANGED <<server, agents, members, learners, reset, exit, agentOff, noted>>
        /\ orphans' \subseteq orphans
        /\ phase # "next" /\ phase' # "next" /\ ~ended
    BY <1>7 DEF NotReplaced, NotAlone, nodeVars, etcdVars
  <2>2. Done' = Done /\ ~failed
    BY <1>3, <2>1 DEF Done
  <2> QED BY <1>1, <1>2, <1>3, <2>1, <2>2 DEF Quiet
<1>8. CASE StepFails
  <2>1. /\ phase # "next" /\ ~ended /\ failed' /\ UNCHANGED <<plan, at, phase, agentOff, noted>>
        /\ \/ UNCHANGED nodeVars
           \/ Does(Script, Current.node)
           \/ Script \in {"start", "start2"} /\ DropIn(Current.node)
    BY <1>8 DEF StepFails
  <2>2. Done' = Done /\ Current' = Current /\ ~failed
    BY <1>3, <1>4, <2>1
  <2>3. CASE UNCHANGED nodeVars
    <3>1. UNCHANGED <<server, agents, members, learners, reset, exit>> /\ orphans' \subseteq orphans
      BY <2>3 DEF nodeVars, etcdVars
    <3> QED BY <1>1, <1>2, <1>3, <2>1, <2>2, <3>1 DEF Quiet
  <2>4. CASE Does(Script, Current.node)
    BY <1>1, <1>2, <2>1, <2>2, <2>4 DEF Runs
  <2>5. CASE Script \in {"start", "start2"} /\ DropIn(Current.node)
    BY <1>1, <1>2, <2>1, <2>2, <2>5 DEF Drops
  <2> QED BY <2>1, <2>3, <2>4, <2>5
<1>9. CASE End \/ AbortPlan \/ UNCHANGED planVars
  <2>1. /\ UNCHANGED <<at, phase, failed, server, agents, members, learners, reset, exit, agentOff, noted>>
        /\ orphans' \subseteq orphans
    BY <1>9 DEF End, AbortPlan, planVars, runVars, nodeVars, etcdVars
  <2>2. Done' = Done /\ Current' = Current
    BY <1>4, <2>1
  <2> QED BY <1>1, <1>2, <1>3, <2>1, <2>2 DEF Quiet
<1>10. CASE ResetEnds \/ \E n \in Server : Join(n) \/ Promote(n) \/ AgentPlan(n)
  <2>1. UNCHANGED runVars
    BY <1>10 DEF ResetEnds, Join, Promote, AgentPlan
  <2>2. Done' = Done /\ Current' = Current /\ at' = at
    BY <1>4, <2>1 DEF runVars
  <2> QED BY <1>1, <1>2, <1>10, <2>1, <2>2 DEF World
<1>11. CASE \E n \in Server : OrphanEnds(n)
  <2>1. /\ UNCHANGED <<at, phase, failed, server, agents, members, learners, reset, exit, agentOff, noted>>
        /\ orphans' \subseteq orphans
    BY <1>11 DEF OrphanEnds, runVars
  <2>2. Done' = Done /\ Current' = Current
    BY <1>4, <2>1
  <2> QED BY <1>1, <1>2, <1>3, <2>1, <2>2 DEF Quiet
<1> QED BY <1>5, <1>6, <1>7, <1>8, <1>9, <1>10, <1>11 DEF PlanNext

-----------------------------------------------------------------------------
(* The invariant holds of every step *)

\* How Run goes on: its parts, its end, and what a failed reset leaves.
LEMMA RunStep ==
    ASSUME FollowersAssumption, PlanInv, Laid, [PlanNext]_planVars
    PROVE  RunInv'
<1> USE DEF PlanInv
<1>1. plan' = plan /\ Steps' = Steps
  BY Kinds
<1>2. /\ at \in 0..Len(Steps) /\ DOMAIN Steps = 1..Len(Steps) /\ Len(Steps) \in Nat /\ at \in Nat
  <2>1. Steps \in Seq(PlanStep)
    BY DEF Laid, InOrder
  <2> QED BY <2>1 DEF RunInv
<1>3. UNCHANGED <<at, phase, failed, ended, exit, aborting>> => RunInv'
  BY <1>1 DEF RunInv, Current
<1>4. CASE Begin
  <2>1. /\ phase = "next" /\ ~ended /\ at < Len(Steps) /\ at' = at + 1
        /\ failed' = failed /\ ended' = ended /\ aborting' = aborting /\ exit' = exit
        /\ phase' = LET op == Steps[at + 1].op IN
                    CASE op = "reset" -> "reset" [] op = "up" -> "alone" [] OTHER -> "run"
    BY <1>4 DEF Begin, nodeVars, etcdVars
  <2>2. at' \in DOMAIN Steps /\ at' \in 0..Len(Steps) /\ ~failed
    BY <1>2, <2>1 DEF RunInv
  <2>3. /\ phase' \in {"reset", "alone", "run"}
        /\ phase' = "reset" => Steps[at'].op = "reset"
        /\ phase' = "alone" => Steps[at'].op = "up"
        /\ phase' = "run" => Steps[at'].op \notin {"reset", "up"}
    BY <2>1
  <2> QED BY <1>1, <2>1, <2>2, <2>3 DEF RunInv, Current, PlanPhases
<1>5. CASE StepDone
  <2>1. /\ phase # "next" /\ ~ended /\ Does(Script, Current.node) /\ phase' = Following
        /\ at' = at /\ failed' = failed /\ ended' = ended /\ aborting' = aborting
    BY <1>5 DEF StepDone
  <2>2. exit' = IF Script = "reset" THEN "none" ELSE exit
    BY <2>1, ScriptIs, Effects, PartsType DEF Changed
  <2>3. phase \in {"poll"} => exit = "reset"
    BY <2>1, ScriptIs, Effects, PartsType DEF Changed, Script, Checks, Seen
  <2>4. CASE phase = "run"
    BY <1>1, <1>2, <2>1, <2>4 DEF RunInv, Current, PlanPhases, Following
  <2>5. CASE phase \in {"reset", "poll", "verify", "wipe"}
    BY <1>1, <1>2, <2>1, <2>2, <2>3, <2>5 DEF RunInv, Current, PlanPhases, Following, Script
  <2>6. CASE phase \in {"alone", "stop2", "reset2", "poll2", "start2", "wait2"}
    BY <1>1, <1>2, <2>1, <2>2, <2>6 DEF RunInv, Current, PlanPhases, Following, Script
  <2> QED BY <2>1, <2>4, <2>5, <2>6 DEF RunInv, PlanPhases
<1>6. CASE NotReplaced
  BY <1>1, <1>6 DEF RunInv, NotReplaced, Current, PlanPhases, nodeVars, etcdVars
<1>7. CASE NotAlone
  BY <1>1, <1>7 DEF RunInv, NotAlone, Current, PlanPhases, nodeVars, etcdVars
<1>8. CASE StepFails
  <2>1. /\ phase # "next" /\ ~ended /\ failed' /\ ended' /\ UNCHANGED <<at, phase, aborting>>
        /\ \/ UNCHANGED nodeVars
           \/ Does(Script, Current.node)
           \/ Script \in {"start", "start2"} /\ DropIn(Current.node)
    BY <1>8 DEF StepFails
  <2>2. phase \in {"verify", "wipe"} => exit' = exit
    <3>1. CASE UNCHANGED nodeVars
      BY <3>1 DEF nodeVars, etcdVars
    <3>2. CASE Does(Script, Current.node)
      <4>1. exit' = IF Script = "reset" THEN "none" ELSE exit
        BY <2>1, <3>2, ScriptIs, Effects, PartsType DEF Changed
      <4> QED BY <4>1 DEF Script
    <3>3. CASE Script \in {"start", "start2"} /\ DropIn(Current.node)
      BY <3>3 DEF DropIn, etcdVars
    <3> QED BY <2>1, <3>1, <3>2, <3>3
  <2> QED BY <1>1, <2>1, <2>2 DEF RunInv, Current, PlanPhases
<1>9. CASE End
  BY <1>1, <1>9 DEF RunInv, End, Current, nodeVars, etcdVars
<1>10. CASE AbortPlan
  BY <1>1, <1>10 DEF RunInv, AbortPlan, Current, nodeVars, etcdVars
<1>11. CASE ResetEnds
  <2>1. reset # "no" /\ UNCHANGED runVars /\ (exit' = exit \/ reset # "second")
    BY <1>11 DEF ResetEnds
  <2>2. reset \in {"first", "second"}
    BY <2>1 DEF PlanTypeOK
  <2>3. phase \in {"verify", "wipe"} => exit' = exit
    BY <2>1, <2>2 DEF RunInv, ResetInv
  <2> QED BY <1>1, <2>1, <2>3 DEF RunInv, runVars, Current
<1>12. ASSUME NEW n \in Server, Join(n) \/ Promote(n) \/ AgentPlan(n) \/ OrphanEnds(n) PROVE RunInv'
  <2>1. UNCHANGED runVars /\ exit' = exit
    BY <1>12 DEF Join, Promote, AgentPlan, OrphanEnds, etcdVars
  <2> QED BY <1>3, <2>1 DEF runVars
<1>13. CASE UNCHANGED planVars
  BY <1>3, <1>13 DEF planVars, runVars, nodeVars, etcdVars
<1> QED BY <1>4, <1>5, <1>6, <1>7, <1>8, <1>9, <1>10, <1>11, <1>12, <1>13 DEF PlanNext

\* What keeps the agents as they are between the first steps and the last ones.
LEMMA AgentStep ==
    ASSUME FollowersAssumption, PlanInv, Laid, [PlanNext]_planVars
    PROVE  AgentInv'
<1> USE DEF PlanInv
<1>1. plan' = plan /\ Steps' = Steps /\ AgentNodes' = AgentNodes /\ (Quiet \/ Runs \/ Drops \/ World)
  BY Kinds, Same
<1>2. /\ Done \in Int /\ at \in Nat /\ Done <= at /\ at - 1 <= Done /\ 1..Done \subseteq 1..at
      /\ phase # "next" => Done = at - 1 /\ at \in 1..at
  BY DoneIs
<1>3. ASSUME Done' = Done, at' \in Nat, at <= at', UNCHANGED <<agents, agentOff>>,
             failed => failed' /\ Current' = Current
      PROVE  AgentInv'
  <2>1. \A op, n : /\ Past(op, n)' <=> Past(op, n)
                   /\ Begun(op, n) => Begun(op, n)'
    BY <1>1, <1>2, <1>3 DEF Past, Begun
  <2> QED BY <1>1, <1>3, <2>1 DEF AgentInv
<1>4. CASE Quiet
  BY <1>3, <1>4 DEF Quiet, nodeVars
<1>5. CASE Drops
  BY <1>2, <1>3, <1>5 DEF Drops, DropIn
<1>6. CASE World
  BY <1>2, <1>3, <1>6 DEF World, ResetEnds, Join, Promote, AgentPlan, runVars
<1>7. CASE Runs
  <2> DEFINE c == Current.node
  <2>1. /\ Steps[at] = Current /\ Current \in PlanStep /\ c \in Server /\ Does(Script, c)
        /\ at' = at /\ Current' = Current /\ phase # "next" /\ at \in 1..at /\ ~failed
    BY <1>2, <1>7, ScriptIs, PartsType DEF Runs
  <2>2. agents' = IF Script = "agentStop" THEN agents \ {c}
                  ELSE IF Script = "agentStart" THEN agents \cup {c} ELSE agents
    BY <2>1, Effects DEF Changed
  <2>3. /\ Script = "agentStop" => Current.op = "agentStop" /\ phase = "run"
        /\ Script = "agentStart" => Current.op = "agentStart" /\ phase = "run"
    BY <2>1, ScriptIs
  <2>4. Script \in {"agentStop", "agentStart"} => c \in ToSet(AgentNodes) /\ c \in plan.agents
    BY <2>1, <2>3 DEF PlanStep, PlanOK
  <2>5. Done' \in Int /\ Done <= Done' /\ Done' <= at
    BY <1>2, <1>7 DEF Runs
  <2>6. \A op, n : Begun(op, n)' <=> Begun(op, n)
    BY <1>1, <2>1 DEF Begun
  <2>7. \A op, n : Past(op, n)' <=> Past(op, n) \/ (Done' = at /\ Is(Current, op, n))
    BY <1>1, <1>2, <2>1, <2>5 DEF Past
  <2>8. CASE Script = "agentStop"
    <3>1. agents' = agents \ {c} /\ c \in ToSet(AgentNodes) /\ Current.op = "agentStop"
      BY <2>2, <2>3, <2>4, <2>8
    <3>2. \A n : ~Begun("agentStart", n)
      <4>1. Class(Current) = 1 /\ Current.op # "tend"
        BY <3>1 DEF Class
      <4>2. \A i \in 1..at : Steps[i].op # "tend" => Class(Steps[i]) <= 1
        BY <2>1, <4>1, NotYet
      <4>3. \A s, n : Is(s, "agentStart", n) => Class(s) = 8 /\ s.op # "tend"
        BY DEF Is, Class
      <4> QED BY <4>2, <4>3 DEF Begun
    <3>3. \A n : ~Past("agentStart", n)'
      <4>1. \A n : ~Is(Current, "agentStart", n)
        BY <3>1 DEF Is
      <4>2. \A n : Past("agentStart", n) => Begun("agentStart", n)
        BY <1>2 DEF Past, Begun
      <4> QED BY <2>7, <3>2, <4>1, <4>2
    <3>4. \A n : Past("agentStop", n)' => Past("agentStop", n) \/ n = c
      BY <2>7 DEF Is
    <3>5. \/ ~failed' /\ agentOff' = agentOff \cup {c}
          \/ failed' /\ agentOff' = agentOff
      BY <1>7, <2>8 DEF Runs
    <3> QED BY <1>1, <2>1, <2>6, <3>1, <3>2, <3>3, <3>4, <3>5 DEF AgentInv
  <2>9. CASE Script = "agentStart"
    <3>1. agents' = agents \cup {c} /\ c \in ToSet(AgentNodes) /\ c \in plan.agents /\ Current.op = "agentStart"
      BY <2>2, <2>3, <2>4, <2>9
    <3>2. Begun("agentStart", c)
      BY <2>1, <3>1 DEF Begun, Is
    <3>3. /\ \A n : Past("agentStart", n)' => Past("agentStart", n) \/ (n = c /\ Done' = at)
          /\ \A n : Past("agentStop", n)' => Past("agentStop", n)
      BY <2>7, <3>1 DEF Is
    <3>4. \/ ~failed' /\ agentOff' = agentOff \ {c}
          \/ failed' /\ agentOff' = agentOff /\ Done' = Done
      BY <1>7, <2>9 DEF Runs
    <3>5. Done # at
      BY <1>2, <2>1
    <3> QED BY <1>1, <2>1, <2>6, <3>1, <3>2, <3>3, <3>4, <3>5 DEF AgentInv
  <2>10. CASE Script \notin {"agentStop", "agentStart"}
    <3>1. agents' = agents /\ agentOff' = agentOff
      BY <1>7, <2>2, <2>10 DEF Runs
    <3>2. Current.op \notin {"agentStop", "agentStart"}
      BY <2>1, <2>10, ScriptIs
    <3>3. \A n : /\ Past("agentStart", n)' <=> Past("agentStart", n)
                 /\ Past("agentStop", n)' <=> Past("agentStop", n)
      BY <2>7, <3>2 DEF Is
    <3> QED BY <1>1, <2>1, <2>6, <3>1, <3>3 DEF AgentInv
  <2> QED BY <2>8, <2>9, <2>10
<1> QED BY <1>1, <1>4, <1>5, <1>6, <1>7

\* What has succeeded and what was begun, when no script runs to its end.
LEMMA Kept ==
    ASSUME FollowersAssumption, PlanInv, Laid, [PlanNext]_planVars, Quiet \/ Drops \/ World
    PROVE  /\ Done' = Done /\ at' \in Nat /\ at <= at'
           /\ \A op, n : Past(op, n)' <=> Past(op, n)
           /\ \A op, n : Begun(op, n) => Begun(op, n)'
           /\ Drops \/ World => \A op, n : Begun(op, n)' <=> Begun(op, n)
<1>1. Steps' = Steps
  BY Kinds DEF PlanInv
<1>2. at \in Nat
  BY DoneIs DEF PlanInv
<1>3. Done' = Done /\ at' \in Nat /\ at <= at' /\ (Drops \/ World => at' = at)
  BY <1>2 DEF Quiet, Drops, World
<1> QED BY <1>1, <1>2, <1>3 DEF Past, Begun

\* What has succeeded and what was begun, when the script of a step does.
LEMMA Ran ==
    ASSUME FollowersAssumption, PlanInv, Laid, [PlanNext]_planVars, Runs
    PROVE  /\ Current = Steps[at] /\ Current \in PlanStep /\ Current.node \in Parts /\ Current.node \in Server
           /\ at \in 1..at /\ at' = at /\ phase # "next" /\ Current' = Current /\ ~failed
           /\ Done' \in Int /\ Done <= Done' /\ Done' <= at /\ Done' \in {Done, at}
           /\ Done' = at => phase \in {"run", "verify", "alone", "wait2"}
           /\ \A op, n : Begun(op, n)' <=> Begun(op, n)
           /\ \A op, n : Past(op, n)' <=> Past(op, n) \/ (Done' = at /\ Is(Current, op, n))
           /\ \A i \in 1..Done' : i \in 1..Done \/ (Done' = at /\ i = at)
           /\ Begun(Current.op, Current.node)
           /\ PlanTypeOK /\ Does(Script, Current.node)
<1> USE DEF PlanInv
<1>1. Steps' = Steps
  BY Kinds
<1>2. /\ Done \in Int /\ at \in Nat /\ Done = at - 1 /\ at \in 1..at /\ 1..Done \subseteq 1..at
      /\ phase # "next" /\ at' = at /\ Current' = Current /\ ~failed /\ Does(Script, Current.node)
      /\ Current = Steps[at] /\ Current \in PlanStep /\ Current.node \in Parts
  BY DoneIs, ScriptIs DEF Runs
<1>3. Current.node \in Server
  BY <1>2, PartsType
<1>4. Done' \in {Done, at} /\ (Done' = at => phase \in {"run", "verify", "alone", "wait2"})
  BY <1>2 DEF Runs
<1>5. \A op, n : Begun(op, n)' <=> Begun(op, n)
  BY <1>1, <1>2 DEF Begun
<1>6. \A i \in 1..Done' : i \in 1..Done \/ (Done' = at /\ i = at)
  BY <1>2, <1>4
<1>7. \A op, n : Past(op, n)' <=> Past(op, n) \/ (Done' = at /\ Is(Current, op, n))
  BY <1>1, <1>2, <1>4 DEF Past
<1>8. Begun(Current.op, Current.node)
  BY <1>2 DEF Begun, Is
<1> QED BY <1>2, <1>3, <1>4, <1>5, <1>6, <1>7, <1>8

\* A server that was stopped has no agent running until the agents are started.
LEMMA NoAgent ==
    ASSUME FollowersAssumption, PlanInv, Laid, NEW n \in agents, Past("stop", n)
    PROVE  \E m : Begun("agentStart", m)
<1> USE DEF PlanInv
<1>1. n \in plan.agents /\ n \in ToSet(Touched)
  BY Chain DEF AgentInv
<1>2. n \in ToSet(AgentNodes)
  BY <1>1 DEF PlanOK
<1>3. Past("agentStop", n)
  BY <1>2, Chain
<1> QED BY <1>2, <1>3 DEF AgentInv

\* A stopped server is started by its start only: no agent runs that would.
LEMMA OffStep ==
    ASSUME FollowersAssumption, PlanInv, Laid, [PlanNext]_planVars
    PROVE  OffInv'
<1> USE DEF PlanInv
<1>1. plan' = plan /\ Parts' = Parts /\ (Quiet \/ Runs \/ Drops \/ World) /\ Parts \subseteq Server
  BY Kinds, Same, PartsType
<1>2. server \in [Server -> [on : BOOLEAN, data : Data, via : {"own", "target", "none"}]]
  BY DEF PlanTypeOK
<1>3. ASSUME Quiet \/ Drops \/ World, \A n \in Parts : server'[n].on => server[n].on
      PROVE  OffInv'
  BY <1>1, <1>3, Kept DEF OffInv
<1>4. CASE Quiet
  BY <1>3, <1>4 DEF Quiet, nodeVars
<1>5. CASE Drops
  <2>1. \A n \in Parts : server'[n].on => server[n].on
    BY <1>1, <1>2, <1>5 DEF Drops, DropIn
  <2> QED BY <1>3, <1>5, <2>1
<1>6. CASE World
  <2>1. CASE ResetEnds
    <3>1. \A n \in Parts : server'[n].on => server[n].on
      BY <1>1, <1>2, <2>1 DEF ResetEnds
    <3> QED BY <1>3, <1>6, <3>1
  <2>2. ASSUME NEW m \in Server, Join(m) \/ Promote(m) PROVE OffInv'
    <3>1. \A n \in Parts : server'[n].on => server[n].on
      BY <1>1, <1>2, <2>2 DEF Join, Promote
    <3> QED BY <1>3, <1>6, <3>1
  <2>3. ASSUME NEW m \in Server, AgentPlan(m) PROVE OffInv'
    <3> SUFFICES ASSUME NEW n \in Parts, Past("stop", n), ~Begun("start", n)
                 PROVE  ~server'[n].on
      BY <1>1, <1>6, Kept DEF OffInv
    <3>1. ~server[n].on
      BY DEF OffInv
    <3>2. CASE n = m
      <4>1. n \in agents
        BY <2>3, <3>2 DEF AgentPlan
      <4>2. PICK k : Begun("agentStart", k)
        BY <4>1, NoAgent
      <4>3. n \in ToSet(Touched) /\ Past("start", n)
        BY <4>2, Chain
      <4> QED BY <4>3, DoneIs DEF Past, Begun
    <3>3. CASE n # m
      BY <1>1, <1>2, <2>3, <3>1, <3>3 DEF AgentPlan
    <3> QED BY <3>2, <3>3
  <2> QED BY <1>6, <2>1, <2>2, <2>3 DEF World
<1>7. CASE Runs
  <2> DEFINE c == Current.node
  <2> SUFFICES ASSUME NEW n \in Parts, Past("stop", n)', ~Begun("start", n)
               PROVE  ~server'[n].on
    BY <1>1, <1>7, Ran DEF OffInv
  <2>1. c \in Server /\ Does(Script, c) /\ phase # "next" /\ Current \in PlanStep
    BY <1>7, Ran
  <2>2. /\ \A m \in Server : m # c => server'[m] = server[m]
        /\ server'[c].on = IF Script \in {"stop", "stop2"} THEN FALSE
                           ELSE IF Script \in {"start", "start2"} THEN TRUE ELSE server[c].on
    <3>1. PlanTypeOK
      OBVIOUS
    <3> HIDE DEF c
    <3>2. \A m \in Server : m # c => server'[m] = server[m]
      <4>1. Elsewhere(c)
        BY <2>1, <3>1, Effects DEF Changed
      <4> QED BY <4>1 DEF Elsewhere
    <3>3. server'[c].on = IF Script \in {"stop", "stop2"} THEN FALSE
                         ELSE IF Script \in {"start", "start2"} THEN TRUE ELSE server[c].on
      BY <2>1, <3>1, Effects DEF Changed
    <3> QED BY <3>2, <3>3
  <2>3. Past("stop", n) \/ Is(Current, "stop", n)
    BY <1>7, Ran
  <2>4. CASE Is(Current, "stop", n)
    <3>1. Script = "stop" /\ n = c
      BY <2>1, <2>4, ScriptIs DEF Is
    <3> QED BY <2>2, <3>1
  <2>5. CASE Past("stop", n)
    <3>1. ~server[n].on
      BY <2>5 DEF OffInv
    <3>2. ~(Script \in {"start", "start2"} /\ n = c)
      <4>1. ASSUME Script = "start", n = c PROVE FALSE
        <5>1. Current.op = "start"
          BY <2>1, <4>1, ScriptIs
        <5> QED BY <1>7, <4>1, <5>1, Ran
      <4>2. ASSUME Script = "start2", n = c PROVE FALSE
        <5>1. Current.op = "up"
          BY <2>1, <4>2, ScriptIs
        <5>2. Begun("up", n)
          BY <1>7, <4>2, <5>1, Ran
        <5>3. n = Target /\ Past("start", Target)
          BY <5>2, Chain
        <5> QED BY <5>3, DoneIs DEF Past, Begun
      <4> QED BY <4>1, <4>2
    <3> QED BY <1>1, <2>2, <3>1, <3>2
  <2> QED BY <2>3, <2>4, <2>5
<1> QED BY <1>1, <1>4, <1>5, <1>6, <1>7

\* There is one reset and one up.
LEMMA Once ==
    ASSUME FollowersAssumption, PlanInv, Laid, phase # "next",
           NEW op \in {"reset", "up"}, NEW n, Current.op = op
    PROVE  ~Past(op, n)
<1> USE DEF PlanInv
<1> SUFFICES ASSUME NEW i \in 1..Done, Is(Steps[i], op, n) PROVE FALSE
  BY DEF Past
<1>1. Class(Current) \in 4..6 /\ Current.op # "tend"
  BY DEF Class
<1>2. Class(Steps[i]) = Class(Current) /\ Steps[i].op # "tend"
  BY DEF Class, Is
<1>3. i \in 1..at /\ at \notin 1..Done
  BY DoneIs
<1> QED BY <1>1, <1>2, <1>3, NotYet

\* A cluster-reset runs in its own part of the plan.
LEMMA ResetStep ==
    ASSUME FollowersAssumption, PlanInv, Laid, [PlanNext]_planVars
    PROVE  ResetInv'
<1> USE DEF PlanInv
<1>1. plan' = plan /\ (Quiet \/ Runs \/ Drops \/ World)
  BY Kinds
<1>2. ASSUME Quiet \/ Drops \/ World,
             (reset' = reset /\ exit' = exit) \/ reset' = "no"
      PROVE  ResetInv'
  BY <1>1, <1>2, Kept DEF ResetInv
<1>3. CASE Quiet
  BY <1>2, <1>3 DEF Quiet, nodeVars, etcdVars
<1>4. CASE Drops
  BY <1>2, <1>4 DEF Drops, DropIn, etcdVars
<1>5. CASE World
  <2>1. (reset' = reset /\ exit' = exit) \/ reset' = "no"
    BY <1>5 DEF World, ResetEnds, Join, Promote, AgentPlan, etcdVars
  <2> QED BY <1>2, <1>5, <2>1
<1>6. CASE Runs
  <2> DEFINE c == Current.node
  <2>1. /\ c \in Server /\ Does(Script, c) /\ phase # "next" /\ Current \in PlanStep
        /\ Current = Steps[at] /\ at \in 1..at /\ Begun(Current.op, c)
        /\ \A op, n : Begun(op, n)' <=> Begun(op, n)
        /\ \A op, n : Past(op, n)' <=> Past(op, n) \/ (Done' = at /\ Is(Current, op, n))
        /\ Done' = at => phase \in {"run", "verify", "alone", "wait2"}
    BY <1>6, Ran
  <2>2. /\ reset' = IF Script = "reset" THEN "first" ELSE IF Script = "reset2" THEN "second" ELSE reset
        /\ exit' = IF Script = "reset" THEN "none" ELSE exit
        /\ Script \in Checks => Seen(Script)
    BY <2>1, Effects DEF Changed
  <2>4. ASSUME reset' = "first"
        PROVE  Begun("reset", Target) /\ ~Past("reset", Target)' /\ exit' # "reset"
    <3>1. CASE Script = "reset"
      <4>1. Current.op = "reset" /\ phase = "reset"
        BY <2>1, <3>1, ScriptIs
      <4>2. c = Target
        BY <2>1, <4>1 DEF PlanStep
      <4> QED BY <2>1, <2>2, Once, <3>1, <4>1, <4>2
    <3>2. CASE Script # "reset"
      <4>1. reset = "first" /\ exit' = exit
        BY <2>2, <2>4, <3>2
      <4>2. Begun("reset", Target) /\ ~Past("reset", Target) /\ exit # "reset"
        BY <4>1 DEF ResetInv
      <4>3. ~(Done' = at /\ Current.op = "reset")
        <5> SUFFICES ASSUME Done' = at, Current.op = "reset" PROVE FALSE
          OBVIOUS
        <5>1. phase = "verify"
          BY <2>1, ScriptIs DEF RunInv
        <5> QED BY <4>2, <5>1 DEF RunInv
      <4> QED BY <2>1, <4>1, <4>2, <4>3 DEF Is
    <3> QED BY <3>1, <3>2
  <2>5. ASSUME reset' = "second" PROVE Begun("up", Target)
    <3>1. CASE Script = "reset2"
      <4>1. Current.op = "up"
        BY <2>1, <3>1, ScriptIs
      <4>2. c = Target
        BY <2>1, <4>1 DEF PlanStep
      <4> QED BY <2>1, <4>1, <4>2
    <3>2. CASE Script # "reset2"
      BY <2>2, <2>5, <3>2 DEF ResetInv
    <3> QED BY <3>1, <3>2
  <2>6. ASSUME Past("up", Target)' PROVE reset' = "no"
    <3>1. CASE Past("up", Target)
      <4>1. reset = "no"
        BY <3>1 DEF ResetInv
      <4>2. Script # "reset2"
        BY <2>1, Once, <3>1, ScriptIs
      <4>3. Script # "reset"
        <5> SUFFICES ASSUME Script = "reset" PROVE FALSE
          OBVIOUS
        <5>1. Current.op = "reset"
          BY <2>1, ScriptIs
        <5>2. Begun("up", Target)
          BY <3>1, DoneIs DEF Past, Begun
        <5>3. Past("reset", Target)
          BY <5>2, Chain
        <5> QED BY <2>1, Once, <5>1, <5>3
      <4> QED BY <2>2, <4>1, <4>2, <4>3
    <3>2. CASE Done' = at /\ Is(Current, "up", Target)
      <4>1. phase \in {"alone", "wait2"} /\ Script = phase
        BY <2>1, <3>2, ScriptIs DEF Is, RunInv
      <4>2. Ready(Current.want, Current.peers)
        BY <2>2, <4>1 DEF Checks, Seen
      <4>3. Serving(Target)
        BY <4>2 DEF Ready, MemberInv
      <4>4. reset = "no"
        BY <4>3 DEF Serving
      <4> QED BY <2>2, <4>1, <4>4
    <3> QED BY <2>1, <2>6, <3>1, <3>2
  <2> QED BY <2>1, <2>4, <2>5, <2>6 DEF ResetInv
<1> QED BY <1>1, <1>3, <1>4, <1>5, <1>6

\* A wait that has succeeded saw the members it waited for.
LEMMA WaitSeen ==
    ASSUME FollowersAssumption, PlanInv, Laid, [PlanNext]_planVars, Runs, Current.op \in Waits
    PROVE  Ready(Current.want, Current.peers) /\ Script = Current.op
<1>1. Script = Current.op
  BY ScriptIs DEF PlanInv, Waits, Runs
<1>2. Script \in Checks => Seen(Script)
  BY Ran, Effects DEF Changed
<1> QED BY <1>1, <1>2 DEF Seen, Checks, Waits

\* What a wait has seen.
LEMMA ReadyMeans ==
    ASSUME NEW want, NEW peers, Ready(want, peers)
    PROVE  /\ peers \subseteq members /\ learners = {}
           /\ \A n \in members : Serving(n)
           /\ \A n \in peers : server[n].data \notin {"empty", "founded"}
BY DEF Ready, Serving

\* How the data dirs go from old to empty to restored or joined.
LEMMA DataStep ==
    ASSUME FollowersAssumption, PlanInv, Laid, [PlanNext]_planVars
    PROVE  DataInv'
<1> USE DEF PlanInv
<1>1. /\ plan' = plan /\ Steps' = Steps /\ Parts' = Parts /\ (Quiet \/ Runs \/ Drops \/ World)
      /\ Parts \subseteq Server /\ Target \in Parts /\ Target \notin Others /\ Others \subseteq Parts
  BY Kinds, Same, PartsType
<1>2. server \in [Server -> [on : BOOLEAN, data : Data, via : {"own", "target", "none"}]]
  BY DEF PlanTypeOK
<1>3. 1..Done \subseteq 1..at /\ 1..at \subseteq DOMAIN Steps
  BY DoneIs
<1>4. \A op, n : Past(op, n) => Begun(op, n)
  BY <1>3 DEF Past, Begun
<1>5. \A i \in 1..at : Steps[i].peers \subseteq Others
  BY <1>3, StepOf
<1>6. ASSUME Quiet \/ Drops \/ World, \A n \in Parts : server'[n].data = server[n].data
      PROVE  DataInv'
  <2>1. Done' = Done /\ \A i \in 1..Done : Steps[i].peers \subseteq Parts
    BY <1>1, <1>3, <1>5, <1>6, Kept
  <2> QED BY <1>1, <1>6, <2>1, Kept DEF DataInv
<1>7. CASE Quiet
  BY <1>6, <1>7 DEF Quiet, nodeVars
<1>8. CASE Drops
  <2>1. \A n \in Parts : server'[n].data = server[n].data
    BY <1>1, <1>2, <1>8 DEF Drops, DropIn
  <2> QED BY <1>6, <1>8, <2>1
<1>9. CASE World
  <2>0. Done' = Done /\ (\A op, n : Past(op, n)' <=> Past(op, n)) /\ (\A op, n : Begun(op, n)' <=> Begun(op, n))
    BY <1>9, Kept
  <2>1. CASE ResetEnds
    <3>1. CASE reset = "second"
      <4>1. \A n \in Parts : server'[n].data = server[n].data
        BY <1>1, <1>2, <2>1, <3>1 DEF ResetEnds
      <4> QED BY <1>6, <1>9, <4>1
    <3>2. CASE reset = "first"
      <4>1. server'[Target].data \in {"restored", "founded"} /\ \A n \in Parts : n # Target => server'[n] = server[n]
        BY <1>1, <1>2, <2>1, <3>2 DEF ResetEnds
      <4>2. Begun("reset", Target) /\ ~Past("reset", Target)
        BY <3>2 DEF ResetInv
      <4>3. Begun("backup", Target) /\ ~Past("restore", Target)
        BY <1>4, <4>2, Chain
      <4>4. \A i \in 1..Done : Steps[i].op \in Waits =>
               \A n \in Steps[i].peers : server'[n].data \notin {"empty", "founded"}
        BY <1>1, <1>3, <1>5, <4>1 DEF DataInv
      <4> QED BY <1>1, <2>0, <4>1, <4>2, <4>3, <4>4 DEF DataInv
    <3> QED BY <2>1, <3>1, <3>2 DEF ResetEnds, PlanTypeOK
  <2>2. ASSUME NEW m \in Server, Promote(m) \/ AgentPlan(m) PROVE DataInv'
    <3>1. \A n \in Parts : server'[n].data = server[n].data
      BY <1>1, <1>2, <2>2 DEF Promote, AgentPlan
    <3> QED BY <1>6, <1>9, <3>1
  <2>3. ASSUME NEW m \in Server, Join(m) PROVE DataInv'
    <3>1. /\ server[m].on /\ server[m].data = "empty" /\ m # Target /\ server'[m].data = "joined"
          /\ \A n \in Parts : n # m => server'[n] = server[n]
      BY <1>1, <1>2, <2>3 DEF Join
    <3>2. m \in Parts => Begun("backup", m) /\ Begun("start", m)
      <4> SUFFICES ASSUME m \in Parts PROVE Begun("backup", m) /\ Begun("start", m)
        OBVIOUS
      <4>1. Begun("backup", m)
        BY <3>1 DEF DataInv
      <4>2. Past("stop", m)
        BY <4>1, Chain
      <4> QED BY <3>1, <4>1, <4>2 DEF OffInv
    <3>3. \A n \in Parts :
          /\ server'[n].data # "old" => Begun("backup", n)
          /\ Past("backup", n) => server'[n].data # "old"
          /\ server'[n].data \in {"restored", "founded"} => Begun("reset", n) \/ Begun("restore", n)
          /\ server'[n].data = "joined" => n # Target /\ Begun("start", n)
      BY <3>1, <3>2 DEF DataInv
    <3>4. Past("reset", Target) \/ Past("restore", Target) => server'[Target].data = "restored"
      BY <1>1, <3>1 DEF DataInv
    <3>5. \A i \in 1..Done : Steps[i].op \in Waits =>
             \A n \in Steps[i].peers : server'[n].data \notin {"empty", "founded"}
      BY <1>1, <1>3, <1>5, <3>1 DEF DataInv
    <3> QED BY <1>1, <2>0, <3>3, <3>4, <3>5 DEF DataInv
  <2> QED BY <1>9, <2>1, <2>2, <2>3 DEF World
<1>10. CASE Runs
  <2> DEFINE c == Current.node
  <2>1. /\ c \in Server /\ c \in Parts /\ Does(Script, c) /\ phase # "next" /\ Current \in PlanStep
        /\ Current = Steps[at] /\ at \in 1..at /\ Begun(Current.op, c) /\ PlanTypeOK
        /\ Done' \in {Done, at} /\ (Done' = at => phase \in {"run", "verify", "alone", "wait2"})
    BY <1>10, Ran
  <2>2. /\ \A op, n : Begun(op, n)' <=> Begun(op, n)
        /\ \A op, n : Past(op, n)' <=> Past(op, n) \/ (Done' = at /\ Is(Current, op, n))
        /\ \A i \in 1..Done' : i \in 1..Done \/ (Done' = at /\ i = at)
    BY <1>10, Ran
  <2>3. server'[c].data = IF Script \in {"backup", "wipe"} THEN "empty"
                          ELSE IF Script = "restore" THEN "restored" ELSE server[c].data
    <3>1. Changed(Script, c)
      BY <2>1, Effects
    <3> QED BY <3>1 DEF Changed
  <2>4. Elsewhere(c)
    BY <2>1, Effects DEF Changed
  <2>5. \A n \in Parts : n # c => server'[n] = server[n]
    BY <1>1, <2>4 DEF Elsewhere
  <2> HIDE DEF c
  <2>6. CASE Script = "backup"
    <3>1. Current.op = "backup" /\ server'[c].data = "empty"
      BY <2>1, <2>3, <2>6, ScriptIs
    <3>2. \A i \in 1..at : Steps[i].op # "tend" => Class(Steps[i]) <= 3
      <4>1. Class(Current) = 3
        BY <3>1 DEF Class
      <4> QED BY <2>1, <3>1, <4>1, NotYet
    <3>3. \A n : ~Begun("reset", n) /\ ~Begun("restore", n)
      BY <3>2 DEF Begun, Is, Class
    <3>4. \A i \in 1..at : Steps[i].op \notin Waits
      BY <3>2 DEF Waits, Class
    <3>5. \A i \in 1..Done' : Steps[i].op \notin Waits
      BY <1>3, <2>2, <2>1, <3>4
    <3>6. ~Past("reset", Target)' /\ ~Past("restore", Target)'
      BY <1>4, <2>2, <3>1, <3>3 DEF Is
    <3>7. \A n : Past("backup", n)' => Past("backup", n) \/ n = c
      BY <2>2 DEF Is, c
    <3>8. Begun("backup", c)
      BY <2>1, <3>1
    <3>9. \A n \in Parts :
          /\ server'[n].data # "old" => Begun("backup", n)'
          /\ Past("backup", n)' => server'[n].data # "old"
          /\ server'[n].data \in {"restored", "founded"} => Begun("reset", n)' \/ Begun("restore", n)'
          /\ server'[n].data = "joined" => n # Target /\ Begun("start", n)'
      BY <2>2, <2>5, <3>1, <3>7, <3>8 DEF DataInv
    <3> QED BY <1>1, <3>5, <3>6, <3>9 DEF DataInv
  <2>7. CASE Script = "wipe"
    <3>1. Current.op = "reset" /\ server'[c].data = "empty" /\ phase = "wipe"
      BY <2>1, <2>3, <2>7, ScriptIs
    <3>2. Begun("reset", c) /\ Done' = Done
      BY <2>1, <3>1, DoneIs
    <3>3. c = Target /\ Past("backup", Target) /\ RKE2 /\ ~Past("restore", Target)
      BY <1>4, <3>2, Chain
    <3>4. ~Past("reset", Target)
      BY <2>1, <3>1, Once
    <3>5. \A op, n : Past(op, n)' <=> Past(op, n)
      BY <2>1, <2>2, <3>2, DoneIs
    <3>6. \A n \in Parts :
          /\ server'[n].data # "old" => Begun("backup", n)'
          /\ Past("backup", n)' => server'[n].data # "old"
          /\ server'[n].data \in {"restored", "founded"} => Begun("reset", n)' \/ Begun("restore", n)'
          /\ server'[n].data = "joined" => n # Target /\ Begun("start", n)'
      BY <1>4, <2>2, <2>5, <3>1, <3>3, <3>5 DEF DataInv
    <3>7. \A i \in 1..Done : Steps[i].op \in Waits =>
             \A n \in Steps[i].peers : server'[n].data \notin {"empty", "founded"}
      BY <1>1, <1>3, <1>5, <2>5, <3>3 DEF DataInv
    <3> QED BY <1>1, <3>2, <3>3, <3>4, <3>5, <3>6, <3>7 DEF DataInv
  <2>8. CASE Script = "restore"
    <3>1. Current.op = "restore" /\ server'[c].data = "restored"
      BY <2>1, <2>3, <2>8, ScriptIs
    <3>2. Begun("restore", c)
      BY <2>1, <3>1
    <3>3. c = Target /\ Past("backup", Target)
      BY <3>2, Chain
    <3>4. \A n : Past("backup", n)' => Past("backup", n)
      BY <2>2, <3>1 DEF Is
    <3>5. \A n \in Parts :
          /\ server'[n].data # "old" => Begun("backup", n)'
          /\ Past("backup", n)' => server'[n].data # "old"
          /\ server'[n].data \in {"restored", "founded"} => Begun("reset", n)' \/ Begun("restore", n)'
          /\ server'[n].data = "joined" => n # Target /\ Begun("start", n)'
      BY <1>4, <2>2, <2>5, <3>1, <3>2, <3>3, <3>4 DEF DataInv
    <3>6. \A i \in 1..Done' : Steps[i].op \in Waits => i \in 1..Done
      BY <2>1, <2>2, <3>1 DEF Waits
    <3>7. \A i \in 1..Done' : Steps[i].op \in Waits =>
             \A n \in Steps[i].peers : server'[n].data \notin {"empty", "founded"}
      BY <1>1, <1>3, <1>5, <2>5, <3>3, <3>6 DEF DataInv
    <3> QED BY <1>1, <3>1, <3>3, <3>5, <3>7 DEF DataInv
  <2>9. CASE Script \notin {"backup", "wipe", "restore"}
    <3>1. \A n \in Parts : server'[n].data = server[n].data
      BY <2>3, <2>5, <2>9
    <3>2. Current.op \notin {"backup", "restore"}
      BY <2>1, <2>9, ScriptIs
    <3>3. \A n : Past("backup", n)' => Past("backup", n)
      BY <2>2, <3>2 DEF Is
    <3>4. ASSUME Past("reset", Target)' \/ Past("restore", Target)' PROVE server[Target].data = "restored"
      <4>1. CASE Past("reset", Target) \/ Past("restore", Target)
        BY <4>1 DEF DataInv
      <4>2. CASE Done' = at /\ Current.op = "reset"
        <5>1. phase = "verify" /\ Script = "verify"
          BY <2>1, <4>2, ScriptIs DEF RunInv, Script
        <5> QED BY <2>1, <5>1, Effects DEF Changed, Checks, Seen
      <4> QED BY <2>2, <3>2, <3>4, <4>1, <4>2 DEF Is
    <3>5. ASSUME NEW i \in 1..Done', Steps[i].op \in Waits, NEW n \in Steps[i].peers
          PROVE  server'[n].data \notin {"empty", "founded"}
      <4>1. n \in Parts
        BY <1>1, <1>3, <1>5, <2>1, <2>2
      <4>2. server[n].data \notin {"empty", "founded"}
        <5>1. CASE i \in 1..Done
          BY <3>5, <5>1 DEF DataInv
        <5>2. CASE i = at
          <6>1. Ready(Current.want, Current.peers)
            BY <1>10, <2>1, <3>5, <5>2, WaitSeen
          <6> QED BY <2>1, <3>5, <5>2, <6>1, ReadyMeans
        <5> QED BY <2>2, <5>1, <5>2
      <4> QED BY <3>1, <4>1, <4>2
    <3>6. \A n \in Parts :
          /\ server'[n].data # "old" => Begun("backup", n)'
          /\ Past("backup", n)' => server'[n].data # "old"
          /\ server'[n].data \in {"restored", "founded"} => Begun("reset", n)' \/ Begun("restore", n)'
          /\ server'[n].data = "joined" => n # Target /\ Begun("start", n)'
      BY <2>2, <3>1, <3>3 DEF DataInv
    <3> QED BY <1>1, <3>1, <3>4, <3>5, <3>6 DEF DataInv
  <2> QED BY <2>6, <2>7, <2>8, <2>9
<1> QED BY <1>1, <1>7, <1>8, <1>9, <1>10

\* Where a server would join, and what its drop-in says.
LEMMA ViaStep ==
    ASSUME FollowersAssumption, PlanInv, Laid, [PlanNext]_planVars
    PROVE  ViaInv'
<1> USE DEF PlanInv
<1>1. /\ plan' = plan /\ Steps' = Steps /\ Parts' = Parts /\ RKE2' = RKE2
      /\ (Quiet \/ Runs \/ Drops \/ World)
      /\ Parts \subseteq Server /\ Target \in Parts /\ Parts = {Target} \cup Others
  BY Kinds, Same, PartsType DEF Parts
<1>2. server \in [Server -> [on : BOOLEAN, data : Data, via : {"own", "target", "none"}]]
  BY DEF PlanTypeOK
<1>3. /\ Done \in Int /\ at \in Nat /\ Done <= at /\ at - 1 <= Done /\ 1..Done \subseteq 1..at
      /\ 1..at \subseteq DOMAIN Steps /\ (phase # "next" => Done = at - 1 /\ at \in 1..at)
  BY DoneIs
<1>4. \A op, n : Past(op, n) => Begun(op, n)
  BY <1>3 DEF Past, Begun
\* What does not touch n.
<1>5. ASSUME NEW n \in Parts, Quiet \/ Drops \/ World,
             server'[n].via = server[n].via,
             server'[n].on /\ server'[n].data = "empty" /\ n # Target =>
                 (server[n].on /\ server[n].data = "empty") \/ server[n].via = "target"
      PROVE  ViaOf(n)'
  <2>1. /\ Done' = Done /\ at' \in Nat /\ at <= at' /\ (Past("patch", n)' <=> Past("patch", n))
        /\ (Past("start", n)' <=> Past("start", n))
    BY <1>5, Kept
  <2>2. noted' = noted /\ (failed => failed' /\ Current' = Current)
    BY <1>5 DEF Quiet, Drops, World, runVars
  <2>3. ViaOf(n)
    BY DEF ViaInv
  <2>4. /\ server'[n].on /\ server'[n].data = "empty" /\ n # Target => server'[n].via = "target"
        /\ Past("patch", n)' => server'[n].via = "target"
        /\ RKE2' /\ Past("start", n)' => n \in noted'
    BY <1>1, <1>5, <2>1, <2>2, <2>3 DEF ViaOf
  <2>5. ASSUME RKE2, server'[n].via # "own"
        PROVE  /\ n \in noted' \/ (failed' /\ n = Current'.node)
               /\ \E i \in 1..at' : Is(Steps'[i], "start", n) /\ \A j \in i..Done' : ~Is(Steps'[j], "cleanup", n)
    <3>1. PICK i \in 1..at : Is(Steps[i], "start", n) /\ \A j \in i..Done : ~Is(Steps[j], "cleanup", n)
      BY <1>5, <2>3, <2>5 DEF ViaOf
    <3>2. i \in 1..at'
      BY <1>3, <2>1
    <3>3. n \in noted' \/ (failed' /\ n = Current'.node)
      BY <1>5, <2>2, <2>3, <2>5 DEF ViaOf
    <3> QED BY <1>1, <2>1, <3>1, <3>2, <3>3
  <2> QED BY <1>1, <2>4, <2>5 DEF ViaOf
\* The start of the target stays the last of it while "up" is the step Run is at.
<1>6. ASSUME phase # "next", Current.op = "up"
      PROVE  \E i \in 1..at : Is(Steps[i], "start", Target) /\ \A j \in i..Done : ~Is(Steps[j], "cleanup", Target)
  <2>1. Begun("up", Current.node)
    BY <1>3, <1>6, ScriptIs DEF Begun, Is
  <2>2. PICK i \in 1..Done : Is(Steps[i], "start", Target)
    BY <2>1, Chain DEF Past
  <2>3. Class(Current) = 6 /\ Current.op # "tend"
    BY <1>6 DEF Class
  <2>4. ASSUME NEW j \in i..Done PROVE ~Is(Steps[j], "cleanup", Target)
    <3>1. j \in 1..at
      BY <1>3, <2>2
    <3>2. Steps[j].op = "cleanup" => Class(Steps[j]) = 7
      BY DEF Class
    <3> QED BY <1>6, <2>3, <3>1, <3>2, NotYet DEF Is
  <2> QED BY <1>3, <2>2, <2>4
<1>7. CASE Quiet
  BY <1>1, <1>5, <1>7 DEF Quiet, nodeVars, ViaInv
<1>8. CASE Drops
  <2>0. PICK c : c = Current.node
    OBVIOUS
  <2>1. /\ Current \in PlanStep /\ c \in Parts /\ Current = Steps[at] /\ at \in 1..at /\ phase # "next"
        /\ Script \in {"start", "start2"} /\ server' = [server EXCEPT ![c].via = JoinsVia(c)]
        /\ at' = at /\ Done' = Done /\ Current' = Current /\ failed' /\ noted' = noted /\ Current.node = c
    BY <1>8, <2>0, ScriptIs DEF Drops, DropIn
  <2>2. \A n \in Parts : n # c => server'[n] = server[n]
    BY <1>1, <1>2, <2>1
  <2>3. /\ server'[c].via = JoinsVia(c) /\ server'[c].on = server[c].on /\ server'[c].data = server[c].data
    BY <1>1, <1>2, <2>1
  <2>4. ViaOf(c)
    BY <2>1 DEF ViaInv
  <2>5. (Past("patch", c)' <=> Past("patch", c)) /\ (Past("start", c)' <=> Past("start", c))
    BY <1>8, Kept
  <2>6. /\ server'[c].on /\ server'[c].data = "empty" /\ c # Target => server'[c].via = "target"
        /\ Past("patch", c)' => server'[c].via = "target"
        /\ RKE2' /\ Past("start", c)' => c \in noted'
    <3>1. Past("patch", c) => ~RKE2
      BY <1>3, StepOf DEF Past, Is, PlanStep
    <3> QED BY <1>1, <2>1, <2>3, <2>4, <2>5, <3>1 DEF ViaOf, JoinsVia
  <2>7. \E i \in 1..at : Is(Steps[i], "start", c) /\ \A j \in i..Done : ~Is(Steps[j], "cleanup", c)
    <3>1. CASE Script = "start"
      <4>1. Is(Steps[at], "start", c)
        BY <2>1, <3>1, ScriptIs DEF Is
      <4>2. at..Done = {}
        BY <1>3, <2>1
      <4> QED BY <2>1, <4>1, <4>2
    <3>2. CASE Script = "start2"
      <4>1. Current.op = "up" /\ c = Target
        BY <2>1, <3>2, ScriptIs DEF PlanStep
      <4> QED BY <1>6, <2>1, <4>1
    <3> QED BY <2>1, <3>1, <3>2
  <2>8. ViaOf(c)'
    BY <1>1, <2>1, <2>6, <2>7 DEF ViaOf
  <2> QED BY <1>1, <1>5, <1>8, <2>2, <2>8 DEF ViaInv
<1>9. CASE World
  <2>1. CASE ResetEnds
    <3>1. \A n \in Parts : server'[n].via = server[n].via /\ (n # Target => server'[n] = server[n])
      BY <1>1, <1>2, <2>1 DEF ResetEnds
    <3> QED BY <1>1, <1>5, <1>9, <3>1 DEF ViaInv
  <2>2. ASSUME NEW m \in Server, Join(m) \/ Promote(m) PROVE ViaInv'
    <3>1. \A n \in Parts : server'[n].via = server[n].via /\ server'[n].on = server[n].on
                           /\ (server'[n].data = "empty" => server[n].data = "empty")
      BY <1>1, <1>2, <2>2 DEF Join, Promote
    <3> QED BY <1>1, <1>5, <1>9, <3>1 DEF ViaInv
  <2>3. ASSUME NEW m \in Server, AgentPlan(m) PROVE ViaInv'
    <3>1. /\ m \in agents
          /\ \A n \in Parts : server'[n].via = server[n].via /\ server'[n].data = server[n].data
                              /\ (n # m => server'[n].on = server[n].on)
      BY <1>1, <1>2, <2>3 DEF AgentPlan
    <3>2. m \in Parts /\ m # Target => server[m].data # "empty"
      <4> SUFFICES ASSUME m \in Parts, m # Target, server[m].data = "empty" PROVE FALSE
        OBVIOUS
      <4>1. Begun("backup", m)
        BY DEF DataInv
      <4>2. Past("stop", m)
        BY <4>1, Chain
      <4>3. PICK k : Begun("agentStart", k)
        BY <3>1, <4>2, NoAgent
      <4>4. m \in Others
        BY <1>1
      <4>5. PICK i \in 1..Done : Steps[i].op \in Waits /\ m \in Steps[i].peers
        BY <4>3, <4>4, Chain
      <4> QED BY <4>5 DEF DataInv
    <3> QED BY <1>1, <1>5, <1>9, <3>1, <3>2 DEF ViaInv
  <2> QED BY <1>9, <2>1, <2>2, <2>3 DEF World
<1>10. CASE Runs
  <2>0. PICK c : c = Current.node
    OBVIOUS
  <2>1. /\ c \in Server /\ c \in Parts /\ Does(Script, c) /\ phase # "next" /\ Current \in PlanStep
        /\ Current = Steps[at] /\ at \in 1..at /\ Begun(Current.op, c) /\ PlanTypeOK /\ at' = at
        /\ Done' \in {Done, at} /\ (Done' = at => phase \in {"run", "verify", "alone", "wait2"})
        /\ Done = at - 1 /\ Current' = Current /\ ~failed /\ Current.node = c
    BY <1>3, <1>10, <2>0, Ran
  <2>2. /\ \A op, n : Past(op, n)' <=> Past(op, n) \/ (Done' = at /\ Is(Current, op, n))
        /\ \A i \in 1..Done' : i \in 1..Done \/ (Done' = at /\ i = at)
    BY <1>10, Ran
  <2>3. /\ noted \subseteq noted'
        /\ RKE2 /\ Script = "start" => c \in noted' \/ failed'
        /\ Done' = at => ~failed'
    BY <1>10, <2>0, <2>1 DEF Runs
  <2>3a. Changed(Script, c)
    BY <2>1, Effects
  <2>4. /\ Elsewhere(c)
        /\ server'[c].on = IF Script \in {"stop", "stop2"} THEN FALSE
                           ELSE IF Script \in {"start", "start2"} THEN TRUE ELSE server[c].on
        /\ server'[c].data = IF Script \in {"backup", "wipe"} THEN "empty"
                             ELSE IF Script = "restore" THEN "restored" ELSE server[c].data
        /\ server'[c].via = IF Script \in {"start", "start2"} THEN JoinsVia(c)
                            ELSE IF Script = "patch" THEN "target"
                            ELSE IF Script = "cleanup" THEN "own" ELSE server[c].via
    BY <2>3a DEF Changed
  <2>5. \A n \in Parts : n # c => server'[n] = server[n]
    BY <1>1, <2>4 DEF Elsewhere
  \* A start that counts still does, unless this step is a cleanup of the server.
  <2>6. ASSUME NEW n, NEW i \in 1..at, ~Is(Current, "cleanup", n),
               \A j \in i..Done : ~Is(Steps[j], "cleanup", n)
        PROVE  \A j \in i..Done' : ~Is(Steps'[j], "cleanup", n)
    <3>1. \A j \in i..Done' : j \in i..Done \/ j = at
      BY <1>3, <2>1
    <3> QED BY <1>1, <2>1, <2>6, <3>1
  <2>7. ASSUME NEW n \in Parts, n # c PROVE ViaOf(n)'
    <3>1. ViaOf(n) /\ server'[n] = server[n] /\ \A op : ~Is(Current, op, n)
      BY <2>1, <2>5, <2>7 DEF ViaInv, Is
    <3>2. (Past("patch", n)' <=> Past("patch", n)) /\ (Past("start", n)' <=> Past("start", n))
      BY <2>2, <3>1
    <3>3. RKE2 /\ server[n].via # "own" => n \in noted'
      BY <2>1, <2>3, <3>1 DEF ViaOf
    <3>4. RKE2 /\ server[n].via # "own" =>
             \E i \in 1..at' : Is(Steps'[i], "start", n) /\ \A j \in i..Done' : ~Is(Steps'[j], "cleanup", n)
      BY <1>1, <2>1, <2>6, <3>1 DEF ViaOf
    <3> QED BY <1>1, <2>3, <3>1, <3>2, <3>3, <3>4 DEF ViaOf
  <2>8. ViaOf(c)
    BY <2>1 DEF ViaInv
  <2>9. ViaOf(c)'
    <3>1. CASE Script = "start"
      <4>1. Is(Current, "start", c) /\ server'[c].via = JoinsVia(c) /\ server'[c].data = server[c].data
        BY <2>1, <2>4, <3>1, ScriptIs DEF Is
      <4>2. ~RKE2 /\ c # Target => Past("patch", c)
        <5> SUFFICES ASSUME ~RKE2, c # Target PROVE Past("patch", c)
          OBVIOUS
        <5>1. PICK j \in DOMAIN Steps : j < at /\ Is(Steps[j], "patch", c)
          BY <1>3, <2>1, <4>1 DEF Laid, InOrder, Is
        <5>2. j \in 1..Done
          BY <2>1, <5>1, StepOf
        <5> QED BY <5>1, <5>2 DEF Past
      <4>3. Past("patch", c) => ~RKE2
        BY <1>3, StepOf DEF Past, Is, PlanStep
      <4>4. Past("patch", c)' <=> Past("patch", c)
        BY <2>2, <4>1 DEF Is
      <4>5. /\ server'[c].on /\ server'[c].data = "empty" /\ c # Target => server'[c].via = "target"
            /\ Past("patch", c)' => server'[c].via = "target"
        BY <2>8, <4>1, <4>2, <4>3, <4>4 DEF ViaOf, JoinsVia
      <4>6. RKE2 /\ Past("start", c)' => c \in noted'
        BY <2>2, <2>3, <2>8, <3>1 DEF ViaOf
      <4>7. RKE2 => c \in noted' \/ (failed' /\ c = Current'.node)
        BY <2>1, <2>3, <3>1
      <4>8. Is(Steps'[at], "start", c) /\ \A j \in at..Done' : ~Is(Steps'[j], "cleanup", c)
        <5>1. \A j \in at..Done' : j = at
          BY <1>3, <2>1
        <5> QED BY <1>1, <2>1, <4>1, <5>1 DEF Is
      <4> QED BY <1>1, <2>1, <4>5, <4>6, <4>7, <4>8 DEF ViaOf
    <3>2. CASE Script = "start2"
      <4>1. Current.op = "up" /\ c = Target /\ phase = "start2"
        BY <2>1, <3>2, ScriptIs DEF PlanStep
      <4>2. (Past("patch", c)' <=> Past("patch", c)) /\ (Past("start", c)' <=> Past("start", c)) /\ Done' = Done
        BY <2>1, <2>2, <4>1 DEF Is
      <4>3. Begun("up", c)
        BY <2>1, <4>1
      <4>4. Past("start", c) /\ RKE2
        BY <4>1, <4>3, Chain
      <4>5. ~Past("patch", c)
        BY <1>3, <4>4, StepOf DEF Past, Is, PlanStep
      <4>6. c \in noted'
        BY <2>3, <2>8, <4>4 DEF ViaOf
      <4>7. \E i \in 1..at' : Is(Steps'[i], "start", c) /\ \A j \in i..Done' : ~Is(Steps'[j], "cleanup", c)
        BY <1>1, <1>6, <2>1, <4>1, <4>2
      <4> QED BY <4>1, <4>2, <4>5, <4>6, <4>7 DEF ViaOf
    <3>3. CASE Script = "patch"
      <4>1. Current.op = "patch"
        BY <2>1, <3>3, ScriptIs
      <4>2. ~RKE2
        BY <2>1, <4>1 DEF PlanStep
      <4> QED BY <1>1, <2>4, <3>3, <4>2 DEF ViaOf
    <3>4. CASE Script = "cleanup"
      <4>1. Current.op = "cleanup"
        BY <2>1, <3>4, ScriptIs
      <4>2. RKE2
        BY <2>1, <4>1 DEF PlanStep
      <4>3. ~Past("patch", c)
        BY <1>3, <4>2, StepOf DEF Past, Is, PlanStep
      <4>4. (Past("patch", c)' <=> Past("patch", c)) /\ (Past("start", c)' <=> Past("start", c))
        BY <2>2, <4>1 DEF Is
      <4>5. c # Target => server[c].data # "empty"
        <5> SUFFICES ASSUME c # Target PROVE server[c].data # "empty"
          OBVIOUS
        <5>1. PICK j \in DOMAIN Steps : j < at /\ Steps[j].op \in Waits /\ c \in Steps[j].peers
          BY <1>3, <2>1, <4>1 DEF Laid, InOrder
        <5>2. j \in 1..Done
          BY <2>1, <5>1, StepOf
        <5> QED BY <5>1, <5>2 DEF DataInv
      <4>6. server'[c].via = "own" /\ server'[c].data = server[c].data
        BY <2>4, <3>4
      <4>7. Past("start", c) => c \in noted'
        BY <2>3, <2>8, <4>2 DEF ViaOf
      <4> QED BY <4>3, <4>4, <4>5, <4>6, <4>7 DEF ViaOf
    <3>5. CASE Script \notin {"start", "start2", "patch", "cleanup"}
      <4>1. Current.op \notin {"start", "patch", "cleanup"}
        BY <2>1, <3>5, ScriptIs
      <4>2. (Past("patch", c)' <=> Past("patch", c)) /\ (Past("start", c)' <=> Past("start", c))
        BY <2>2, <4>1 DEF Is
      <4>3. server'[c].via = server[c].via /\ (server'[c].on => server[c].on)
        BY <2>4, <3>5
      <4>4. server'[c].on /\ server'[c].data = "empty" /\ c # Target => server[c].data = "empty"
        <5>1. CASE Script = "backup"
          <6>1. Current.op = "backup" /\ Class(Current) = 3
            BY <2>1, <5>1, ScriptIs DEF Class
          <6>2. Past("stop", c)
            BY <2>1, <6>1, Chain
          <6>3. ~Begun("start", c)
            <7> SUFFICES ASSUME NEW i \in 1..at, Is(Steps[i], "start", c) PROVE FALSE
              BY DEF Begun
            <7>1. Class(Steps[i]) \in {5, 7} /\ Steps[i].op # "tend"
              BY DEF Class, Is
            <7> QED BY <2>1, <6>1, <7>1, NotYet
          <6>4. ~server[c].on
            BY <2>1, <6>2, <6>3 DEF OffInv
          <6> QED BY <4>3, <6>4
        <5>2. CASE Script = "wipe"
          <6>1. Current.op = "reset"
            BY <2>1, <5>2, ScriptIs
          <6> QED BY <2>1, <6>1 DEF PlanStep
        <5>3. CASE Script \notin {"backup", "wipe"}
          BY <2>4, <5>3
        <5> QED BY <5>1, <5>2, <5>3
      <4>5. RKE2 /\ server[c].via # "own" => c \in noted'
        BY <2>1, <2>3, <2>8 DEF ViaOf
      <4>6. RKE2 /\ server[c].via # "own" =>
               \E i \in 1..at' : Is(Steps'[i], "start", c) /\ \A j \in i..Done' : ~Is(Steps'[j], "cleanup", c)
        <5>1. ~Is(Current, "cleanup", c)
          BY <4>1 DEF Is
        <5> QED BY <1>1, <2>1, <2>6, <2>8, <5>1 DEF ViaOf
      <4> QED BY <1>1, <2>3, <2>8, <4>2, <4>3, <4>4, <4>5, <4>6 DEF ViaOf
    <3> QED BY <3>1, <3>2, <3>3, <3>4, <3>5
  <2> QED BY <1>1, <2>7, <2>9 DEF ViaInv
<1> QED BY <1>1, <1>7, <1>8, <1>9, <1>10

\* Who is a member, and that everybody serves after the last wait.
LEMMA MemberStep ==
    ASSUME FollowersAssumption, PlanInv, Laid, [PlanNext]_planVars
    PROVE  MemberInv'
<1> USE DEF PlanInv
<1>1. /\ plan' = plan /\ Steps' = Steps /\ Parts' = Parts /\ RKE2' = RKE2
      /\ (Quiet \/ Runs \/ Drops \/ World)
      /\ Parts \subseteq Server /\ Target \in Parts /\ Parts = {Target} \cup Others
  BY Kinds, Same, PartsType DEF Parts
<1>2. server \in [Server -> [on : BOOLEAN, data : Data, via : {"own", "target", "none"}]]
  BY DEF PlanTypeOK
<1>3. /\ Done \in Int /\ at \in Nat /\ Done <= at /\ at - 1 <= Done /\ 1..Done \subseteq 1..at
      /\ 1..at \subseteq DOMAIN Steps /\ (phase # "next" => Done = at - 1 /\ at \in 1..at)
  BY DoneIs
<1>4. ASSUME NEW i \in 1..Done, IsLast(Steps, i) PROVE Steps[i].op \in Waits
  BY <1>4 DEF IsLast, Waits
\* What takes no member and no server away.
<1>5. ASSUME Done' = Done, members \subseteq members', learners' \subseteq learners, reset' = reset,
             \A n \in Parts : Serving(n) =>
                 /\ server[n].on => server'[n].on
                 /\ server'[n].data = server[n].data
      PROVE  MemberInv'
  <2>1. \A n \in Parts : Serving(n) => Serving(n)'
    BY <1>5 DEF Serving
  <2> QED BY <1>1, <1>5, <2>1 DEF MemberInv, IsLast
<1>6. CASE Quiet
  BY <1>5, <1>6 DEF Quiet, nodeVars, etcdVars
<1>7. CASE Drops
  <2>1. \A n \in Parts : server'[n].on = server[n].on /\ server'[n].data = server[n].data
    BY <1>1, <1>2, <1>7 DEF Drops, DropIn
  <2> QED BY <1>5, <1>7, <2>1 DEF Drops, DropIn, etcdVars
<1>8. CASE World
  <2>0. Done' = Done
    BY <1>8 DEF World
  <2>1. CASE ResetEnds
    <3>1. reset # "no" /\ reset \in {"first", "second"}
      BY <2>1 DEF ResetEnds, PlanTypeOK
    <3>2. RKE2 /\ ~plan.rejoin
      <4>1. Begun("reset", Target) \/ Begun("up", Target)
        BY <3>1 DEF ResetInv
      <4>2. Begun("up", Target) => Begun("reset", Target)
        BY <1>3, Chain DEF Past, Begun
      <4> QED BY <4>1, <4>2, Chain
    <3>3. \A i \in 1..Done : Steps[i].op \notin Waits
      <4> SUFFICES ASSUME NEW i \in 1..Done, Steps[i].op \in Waits PROVE FALSE
        OBVIOUS
      <4>1. Past("reset", Target)
        BY <1>3, <3>2, Chain
      <4>2. reset = "second" /\ Begun("up", Target)
        BY <3>1, <4>1 DEF ResetInv
      <4>3. PICK k \in 1..at : Is(Steps[k], "up", Target)
        BY <4>2 DEF Begun
      <4>4. Class(Steps[k]) = 6 /\ Class(Steps[i]) = 7 /\ Steps[k].op # "tend" /\ Steps[i].op # "tend"
        BY <4>3 DEF Class, Is, Waits
      <4>5. k < i
        BY <1>3, <4>4, Order
      <4>6. Past("up", Target)
        BY <1>3, <4>3, <4>5 DEF Past
      <4> QED BY <3>1, <4>6 DEF ResetInv
    <3>4. Target \in members' /\ learners' = learners
      BY <2>1 DEF ResetEnds, MemberInv, Server
    <3> QED BY <1>1, <1>4, <2>0, <3>3, <3>4 DEF MemberInv, IsLast
  <2>2. ASSUME NEW m \in Server, Join(m) PROVE MemberInv'
    <3>1. /\ server[m].data = "empty" /\ members \subseteq members' /\ learners' = learners /\ reset' = reset
          /\ \A n \in Parts : n # m => server'[n] = server[n]
      BY <1>1, <1>2, <2>2 DEF Join
    <3> QED BY <1>5, <2>0, <3>1 DEF Serving
  <2>3. ASSUME NEW m \in Server, Promote(m) PROVE MemberInv'
    BY <1>5, <2>0, <2>3 DEF Promote
  <2>4. ASSUME NEW m \in Server, AgentPlan(m) PROVE MemberInv'
    <3>1. \A n \in Parts : (server[n].on => server'[n].on) /\ server'[n].data = server[n].data
      BY <1>1, <1>2, <2>4 DEF AgentPlan
    <3> QED BY <1>5, <2>0, <2>4, <3>1 DEF AgentPlan, etcdVars
  <2> QED BY <1>8, <2>1, <2>2, <2>3, <2>4 DEF World
<1>9. CASE Runs
  <2>0. PICK c : c = Current.node
    OBVIOUS
  <2>1. /\ c \in Server /\ c \in Parts /\ Does(Script, c) /\ phase # "next" /\ Current \in PlanStep
        /\ Current = Steps[at] /\ at \in 1..at /\ PlanTypeOK /\ Current.node = c
        /\ Done' \in {Done, at} /\ (Done' = at => phase \in {"run", "verify", "alone", "wait2"})
    BY <1>9, <2>0, Ran
  <2>2. \A i \in 1..Done' : i \in 1..Done \/ (Done' = at /\ i = at)
    BY <1>9, Ran
  <2>3. Changed(Script, c)
    BY <2>1, Effects
  <2>4. /\ members' = IF Script = "restore" THEN {c} ELSE IF Script = "add" THEN members \cup {c}
                      ELSE IF Script = "remove" THEN members \ {c} ELSE members
        /\ learners' = IF Script = "restore" THEN {} ELSE IF Script = "add" THEN learners \cup {c}
                       ELSE IF Script = "remove" THEN learners \ {c} ELSE learners
    BY <2>3 DEF Changed
  <2>5. /\ Script = "restore" => c = Target /\ Current.op = "restore"
        /\ Script = "remove" => c # Target /\ Current.op = "remove"
        /\ Script = "add" => ~RKE2
    <3>1. Script \in {"restore", "remove", "add"} => Current.op = Script
      BY <2>1, ScriptIs
    <3> QED BY <2>1, <3>1 DEF PlanStep
  <2>6. Target \in members' /\ (RKE2' => learners' = {})
    BY <1>1, <2>4, <2>5 DEF MemberInv
  \* No wait has passed before the members are made anew.
  <2>7. ASSUME NEW i \in 1..Done, Steps[i].op \in Waits PROVE Script \notin {"restore", "remove"}
    <3> SUFFICES ASSUME Script \in {"restore", "remove"} PROVE FALSE
      OBVIOUS
    <3>1. Class(Current) = 4 /\ Current.op # "tend"
      BY <2>5 DEF Class
    <3>2. Class(Steps[i]) = 7 /\ Steps[i].op # "tend"
      BY <2>7 DEF Class, Waits
    <3> QED BY <1>3, <2>1, <3>1, <3>2, NotYet
  <2>8. ASSUME NEW i \in 1..Done', Steps[i].op \in Waits PROVE Steps[i].peers \subseteq members'
    <3>1. CASE i \in 1..Done
      <4>1. Steps[i].peers \subseteq members
        BY <2>8, <3>1 DEF MemberInv
      <4> QED BY <2>4, <2>7, <2>8, <3>1, <4>1
    <3>2. CASE i = at
      <4>1. Ready(Current.want, Current.peers) /\ Script = Current.op
        BY <1>9, <2>1, <2>8, <3>2, WaitSeen
      <4>2. Current.peers \subseteq members /\ members' = members
        BY <2>1, <2>4, <2>8, <3>2, <4>1, ReadyMeans DEF Waits
      <4> QED BY <2>1, <3>2, <4>2
    <3> QED BY <2>2, <3>1, <3>2
  \* After the last wait nothing happens to the servers.
  <2>9. ASSUME Script \in After \cup {"member"}, NEW n \in Parts, Serving(n) PROVE Serving(n)'
    <3>1. members' = members /\ learners' = learners /\ reset' = reset
      BY <2>3, <2>9 DEF Changed, After
    <3>2. server'[n].on = server[n].on /\ server'[n].data = server[n].data
      <4>1. CASE n = c
        BY <2>3, <2>9, <4>1 DEF Changed, After
      <4>2. CASE n # c
        BY <1>1, <2>3, <4>2 DEF Changed, Elsewhere
      <4> QED BY <4>1, <4>2
    <3> QED BY <2>9, <3>1, <3>2 DEF Serving
  <2>10. ASSUME NEW i \in 1..Done', IsLast(Steps, i), NEW n \in Parts PROVE Serving(n)'
    <3>1. CASE i \in 1..Done
      <4>1. Serving(n)
        BY <2>10, <3>1 DEF MemberInv
      <4>2. i < at /\ at \in DOMAIN Steps
        BY <1>3, <2>1, <3>1
      <4>3. Current.op \in After
        BY <2>1, <2>10, <4>2 DEF IsLast
      <4>4. Script = Current.op
        BY <2>1, <4>3, ScriptIs DEF After
      <4> QED BY <2>9, <4>1, <4>3, <4>4
    <3>2. CASE i = at
      <4>1. Current.op = "member"
        BY <2>1, <2>10, <3>2 DEF IsLast
      <4>2. Ready(Current.want, Current.peers) /\ Script = Current.op
        BY <1>9, <4>1, WaitSeen DEF Waits
      <4>3. PICK f \in DOMAIN Steps : IsLast(Steps, f) /\ AwaitsAll(Steps, f)
        BY DEF Laid, Ends
      <4>4. f = at
        <5>1. at \in DOMAIN Steps /\ IsLast(Steps, at) /\ f \in Int
          BY <1>3, <2>1, <2>10, <3>2, StepOf
        <5>2. ~(f < at) /\ ~(at < f)
          BY <4>1, <4>3, <5>1 DEF IsLast, After
        <5> QED BY <1>3, <5>1, <5>2
      <4>5. n \in members
        <5>1. CASE n = Target
          BY <5>1 DEF MemberInv
        <5>2. CASE n \in Others
          <6>1. PICK j \in DOMAIN Steps : j < at /\ Steps[j].op \in Waits /\ n \in Steps[j].peers
            BY <4>3, <4>4, <5>2 DEF AwaitsAll
          <6>2. j \in 1..Done
            BY <1>3, <2>1, <6>1, StepOf
          <6> QED BY <6>1, <6>2 DEF MemberInv
        <5> QED BY <1>1, <5>1, <5>2
      <4>6. Serving(n)
        BY <4>2, <4>5, ReadyMeans
      <4> QED BY <2>9, <4>1, <4>2, <4>6
    <3> QED BY <2>2, <3>1, <3>2
  <2> QED BY <1>1, <2>6, <2>8, <2>10 DEF MemberInv, IsLast
<1> QED BY <1>1, <1>6, <1>7, <1>8, <1>9

\* The types, of every step.
LEMMA TypeStep ==
    ASSUME FollowersAssumption, PlanInv, Laid, [PlanNext]_planVars
    PROVE  PlanTypeOK'
<1> USE DEF PlanInv
<1>1. /\ plan' = plan /\ (Quiet \/ Runs \/ Drops \/ World) /\ Parts \subseteq Server
      /\ ToSet(AgentNodes) \subseteq Server /\ AgentNodes' = AgentNodes /\ Target \in Server
  BY Kinds, Same, PartsType
<1>2. at' \in Nat /\ phase' \in PlanPhases
  BY RunStep DEF RunInv
<1>3. agents' \subseteq Server /\ agentOff' \subseteq Server
  BY <1>1, AgentStep DEF AgentInv, PlanOK
<1>4. attempt' \in 1..2 /\ aborting' \in BOOLEAN /\ failed' \in BOOLEAN /\ ended' \in BOOLEAN
  <2> DEFINE A == attempt \in 1..2 /\ aborting \in BOOLEAN /\ failed \in BOOLEAN /\ ended \in BOOLEAN
  <2>1. A
    BY DEF PlanTypeOK
  <2>2. CASE Begin
    BY <2>1, <2>2 DEF Begin
  <2>3. CASE StepDone
    BY <2>1, <2>3 DEF StepDone
  <2>4. CASE NotReplaced
    BY <2>1, <2>4 DEF NotReplaced
  <2>5. CASE NotAlone
    BY <2>1, <2>5 DEF NotAlone
  <2>6. CASE StepFails
    BY <2>1, <2>6 DEF StepFails
  <2>7. CASE End
    BY <2>1, <2>7 DEF End
  <2>8. CASE AbortPlan
    BY <2>1, <2>8 DEF AbortPlan
  <2>9. CASE UNCHANGED runVars
    BY <2>1, <2>9 DEF runVars
  <2>10. CASE ResetEnds \/ \E n \in Server : Join(n) \/ Promote(n) \/ AgentPlan(n) \/ OrphanEnds(n)
    BY <2>9, <2>10 DEF ResetEnds, Join, Promote, AgentPlan, OrphanEnds
  <2>11. CASE UNCHANGED planVars
    BY <2>9, <2>11 DEF planVars
  <2> QED BY <2>2, <2>3, <2>4, <2>5, <2>6, <2>7, <2>8, <2>10, <2>11 DEF PlanNext
<1>5. CASE UNCHANGED <<server, agents, members, learners, reset, exit, noted>> /\ orphans' \subseteq orphans
  BY <1>1, <1>2, <1>3, <1>4, <1>5 DEF PlanTypeOK
<1>6. CASE Quiet
  BY <1>5, <1>6 DEF Quiet
<1>7. CASE Drops
  <2>1. Current.node \in Server /\ JoinsVia(Current.node) \in {"own", "target", "none"}
    BY <1>1, <1>7, ScriptIs DEF Drops, JoinsVia, PlanTypeOK
  <2>2. server' \in [Server -> [on : BOOLEAN, data : Data, via : {"own", "target", "none"}]]
    BY <1>7, <2>1 DEF Drops, DropIn, PlanTypeOK
  <2>3. UNCHANGED <<members, learners, reset, exit, orphans, noted>>
    BY <1>7 DEF Drops, DropIn, etcdVars
  <2> QED BY <1>1, <1>2, <1>3, <1>4, <2>2, <2>3 DEF PlanTypeOK
<1>8. CASE World
  <2>0. noted' = noted
    BY <1>8 DEF World, runVars
  <2>1. CASE ResetEnds
    <3>1. learners = {}
      <4>1. Begun("reset", Target) \/ Begun("up", Target)
        BY <2>1 DEF ResetEnds, ResetInv, PlanTypeOK
      <4>2. RKE2
        BY <4>1, Chain
      <4> QED BY <4>2 DEF MemberInv
    <3>2. /\ members' \subseteq Server /\ learners' = {} /\ orphans' \subseteq Server
          /\ reset' = "no" /\ exit' \in {"none", "reset", "gaveUp"}
      BY <1>1, <2>1, <3>1 DEF ResetEnds, PlanTypeOK
    <3>3. server' \in [Server -> [on : BOOLEAN, data : Data, via : {"own", "target", "none"}]]
      <4>1. PICK d \in Data : server' = [server EXCEPT ![Target].data = d]
        <5>1. /\ server[Target].data \in Data /\ {"restored", "founded"} \subseteq Data
          BY <1>1 DEF PlanTypeOK, Data
        <5> QED BY <2>1, <5>1 DEF ResetEnds
      <4> QED BY <1>1, <4>1 DEF PlanTypeOK
    <3> QED BY <1>1, <1>2, <1>3, <1>4, <2>0, <3>2, <3>3 DEF PlanTypeOK
  <2>2. ASSUME NEW m \in Server, Join(m) PROVE PlanTypeOK'
    <3>1. server' \in [Server -> [on : BOOLEAN, data : Data, via : {"own", "target", "none"}]]
      BY <2>2 DEF Join, PlanTypeOK, Data
    <3> QED BY <1>1, <1>2, <1>3, <1>4, <2>0, <2>2, <3>1 DEF Join, PlanTypeOK
  <2>3. ASSUME NEW m \in Server, Promote(m) PROVE PlanTypeOK'
    BY <1>1, <1>2, <1>3, <1>4, <2>0, <2>3 DEF Promote, PlanTypeOK
  <2>4. ASSUME NEW m \in Server, AgentPlan(m) PROVE PlanTypeOK'
    <3>1. server' \in [Server -> [on : BOOLEAN, data : Data, via : {"own", "target", "none"}]]
      BY <2>4 DEF AgentPlan, PlanTypeOK
    <3> QED BY <1>1, <1>2, <1>3, <1>4, <2>0, <2>4, <3>1 DEF AgentPlan, PlanTypeOK, etcdVars
  <2> QED BY <1>8, <2>1, <2>2, <2>3, <2>4 DEF World
<1>9. CASE Runs
  <2>0. PICK c : c = Current.node
    OBVIOUS
  <2>1. c \in Server /\ Does(Script, c) /\ PlanTypeOK /\ Current.node = c
    BY <1>9, <2>0, Ran
  <2>2. Changed(Script, c)
    BY <2>1, Effects
  <2>3. noted' \subseteq Server
    BY <1>9, <2>1 DEF Runs, PlanTypeOK
  <2>4. /\ members' \subseteq Server /\ learners' \subseteq members'
        /\ reset' \in {"no", "first", "second"} /\ exit' \in {"none", "reset", "gaveUp"}
        /\ orphans' \subseteq Server
    BY <2>1, <2>2 DEF Changed, PlanTypeOK
  <2>5. server' \in [Server -> [on : BOOLEAN, data : Data, via : {"own", "target", "none"}]]
    BY <2>2 DEF Changed
  <2> QED BY <1>1, <1>2, <1>3, <1>4, <2>3, <2>4, <2>5 DEF PlanTypeOK
<1> QED BY <1>1, <1>6, <1>7, <1>8, <1>9

-----------------------------------------------------------------------------
(* The invariant of a rescue *)

\* A rescue that has not begun.
LEMMA PlanBegins ==
    ASSUME FollowersAssumption, PlanInit
    PROVE  PlanInv
<1> DEFINE F == ToSet(Followers)
<1>1. /\ Followers \in Seq(F) /\ F \subseteq Server /\ Server = {Target} \cup F
      /\ Target \notin F /\ Target \in Server
  BY DEF FollowersAssumption, Server
<1>2. PICK k \in {"rke2", "kubeadm"}, r \in BOOLEAN, os \in Subsequences(Followers),
           A \in SUBSET Server, M \in SUBSET Server, On \in SUBSET Server,
           as \in Subsequences(<<Target>> \o Followers) :
        /\ k = "kubeadm" => A = {}
        /\ members = M
        /\ server = [n \in Server |-> [on |-> n \in On, data |-> "old", via |-> "own"]]
        /\ agents = A
        /\ plan = [kind |-> k, rejoin |-> r, others |-> os, agents |-> A, agentNodes |-> as,
                   members |-> Cardinality(M)]
        /\ ToSet(as) = A \cap ToSet(Touched)
        /\ IF r THEN Len(os) = 1 /\ Server \ ToSet(os) \subseteq M \cap On ELSE M = Server
  BY Zenon DEF PlanInit
<1>3. /\ at = 0 /\ phase = "next" /\ attempt = 1
      /\ aborting = FALSE /\ failed = FALSE /\ ended = FALSE
      /\ agentOff = {} /\ noted = {}
      /\ learners = {} /\ reset = "no" /\ exit = "none"
  BY DEF PlanInit
<1> HIDE DEF F
<1>4. IsFiniteSet(Server)
  <2>1. IsFiniteSet(1..Len(Followers)) /\ DOMAIN Followers = 1..Len(Followers)
    BY <1>1, FS_Interval
  <2>2. F = {Followers[i] : i \in DOMAIN Followers}
    BY DEF F, ToSet
  <2>3. Followers \in Surjection(DOMAIN Followers, F)
    BY <1>1, <2>1, <2>2 DEF Surjection
  <2>4. IsFiniteSet(F)
    BY <2>1, <2>3, FS_Surjection
  <2> QED BY <1>1, <2>4, FS_AddElement
<1>5. Cardinality(M) \in Nat
  BY <1>4, FS_Subset, FS_CardinalityType
<1>6. ASSUME NEW s, NEW t \in Subsequences(s) PROVE t \in Seq(ToSet(s))
  BY <1>6 DEF Subsequences, SeqOf
<1>7. os \in Seq(F)
  BY <1>6 DEF F
<1>8. as \in Seq(Server)
  <2>1. ToSet(<<Target>> \o Followers) = Server
    <3>1. <<Target>> \in Seq(Server) /\ Followers \in Seq(Server)
      BY <1>1
    <3>2. /\ DOMAIN (<<Target>> \o Followers) = 1..(1 + Len(Followers))
          /\ (<<Target>> \o Followers)[1] = Target
          /\ \A i \in DOMAIN Followers : (<<Target>> \o Followers)[1 + i] = Followers[i]
          /\ \A i \in 2..(1 + Len(Followers)) : (<<Target>> \o Followers)[i] = Followers[i - 1]
      BY <3>1
    <3>3. DOMAIN Followers = 1..Len(Followers) /\ Len(Followers) \in Nat
      BY <1>1
    <3>4. \A i \in DOMAIN Followers : 1 + i \in 1..(1 + Len(Followers))
      BY <3>3
    <3>5. \A i \in 1..(1 + Len(Followers)) : i = 1 \/ (i \in 2..(1 + Len(Followers)) /\ i - 1 \in DOMAIN Followers)
      BY <3>3
    <3>6. \A x : x \in ToSet(<<Target>> \o Followers) <=>
                    \E i \in 1..(1 + Len(Followers)) : x = (<<Target>> \o Followers)[i]
      BY <3>2 DEF ToSet
    <3>7. \A x : x \in F <=> \E i \in DOMAIN Followers : x = Followers[i]
      BY DEF ToSet, F
    <3>8. \A x : x \in ToSet(<<Target>> \o Followers) => x = Target \/ x \in F
      BY <3>2, <3>5, <3>6, <3>7
    <3>9. 1 \in 1..(1 + Len(Followers))
      BY <3>3
    <3>10. \A x : x = Target \/ x \in F => x \in ToSet(<<Target>> \o Followers)
      BY <3>2, <3>4, <3>6, <3>7, <3>9
    <3> QED BY <1>1, <3>8, <3>10
  <2> QED BY <1>6, <2>1
<1>9. PlanOK
  <2>1. plan.rejoin = r /\ plan.others = os /\ plan.agents = A /\ AgentNodes = as
    BY <1>2 DEF AgentNodes
  <2>2. plan \in [kind : {"rke2", "kubeadm"}, rejoin : BOOLEAN, others : Seq(F),
                  agents : SUBSET Server, agentNodes : Seq(Server), members : Nat]
    BY <1>2, <1>5, <1>7, <1>8
  <2>3. ~RKE2 => plan.agents = {}
    BY <1>2, <2>1, <2>2 DEF RKE2
  <2> QED BY <1>2, <2>1, <2>2, <2>3 DEF PlanOK, F
<1>10. Parts \subseteq Server /\ Target \in members
  <2>1. Target \in members
    <3>1. CASE ~r
      BY <1>1, <1>2, <3>1
    <3>2. CASE r
      <4>1. Target \notin ToSet(os)
        BY <1>1, <1>7 DEF ToSet
      <4> QED BY <1>1, <1>2, <3>2, <4>1
    <3> QED BY <3>1, <3>2
  <2> QED BY <1>9, <2>1, PartsType
<1>11. PlanTypeOK
  <2>1. server \in [Server -> [on : BOOLEAN, data : Data, via : {"own", "target", "none"}]]
    <3>1. \A n \in Server : [on |-> n \in On, data |-> "old", via |-> "own"]
                               \in [on : BOOLEAN, data : Data, via : {"own", "target", "none"}]
      BY DEF Data
    <3> QED BY <1>2, <3>1
  <2>2. agents \subseteq Server /\ members \subseteq Server /\ orphans \subseteq Server
    BY <1>2 DEF PlanInit
  <2>3. plan \in [kind : {"rke2", "kubeadm"}, rejoin : BOOLEAN, others : Seq(ToSet(Followers)),
                  agents : SUBSET Server, agentNodes : Seq(Server), members : Nat]
    BY <1>9 DEF PlanOK
  <2>4. at \in Nat /\ phase \in PlanPhases /\ attempt \in 1..2
    BY <1>3 DEF PlanPhases
  <2> QED BY <1>3, <2>1, <2>2, <2>3, <2>4 DEF PlanTypeOK
<1>12. Laid
  BY <1>9, PlanIsLaid
<1>13. Done = 0 /\ \A op, n : ~Past(op, n) /\ ~Begun(op, n)
  BY <1>3 DEF Done, Past, Begun
<1>14. RunInv
  <2>1. Len(Steps) \in Nat
    BY <1>12 DEF Laid, InOrder
  <2> QED BY <1>3, <2>1 DEF RunInv, PlanPhases
<1>15. AgentInv
  BY <1>2, <1>3, <1>9, <1>13 DEF AgentInv, PlanOK
<1>16. \A n \in Parts : server[n].data = "old" /\ server[n].via = "own"
  BY <1>2, <1>10
<1>17. OffInv /\ DataInv /\ ResetInv /\ ViaInv
  BY <1>3, <1>13, <1>16 DEF OffInv, DataInv, ResetInv, ViaInv, ViaOf
<1>18. MemberInv
  BY <1>3, <1>10, <1>13 DEF MemberInv
<1> QED BY <1>9, <1>11, <1>14, <1>15, <1>17, <1>18 DEF PlanInv

\* Every step keeps the invariant.
LEMMA PlanStepKeeps ==
    ASSUME FollowersAssumption, PlanInv, [PlanNext]_planVars
    PROVE  PlanInv'
<1>1. Laid
  BY PlanIsLaid DEF PlanInv
<1>2. PlanOK'
  BY <1>1, Kinds, Same DEF PlanInv
<1> QED BY <1>1, <1>2, TypeStep, RunStep, AgentStep, OffStep, DataStep, ResetStep, ViaStep, MemberStep DEF PlanInv

\* The inductive invariant: the run, the agents, the servers, their data and
\* the members of the cluster follow the steps of the plan.
THEOREM PlanCorrect == ASSUME FollowersAssumption PROVE PlanSpec => []PlanInv
<1>1. PlanInit => PlanInv
  BY PlanBegins
<1>2. PlanInv /\ [PlanNext]_planVars => PlanInv'
  BY PlanStepKeeps
<1> QED BY <1>1, <1>2, PTL DEF PlanSpec

-----------------------------------------------------------------------------
(* What follows of a rescue *)

\* What has succeeded was begun.
LEMMA PastIsBegun ==
    ASSUME Laid, RunInv, NEW op, NEW n, Past(op, n)
    PROVE  Begun(op, n)
BY DoneIs DEF Past, Begun

\* A server whose data dir was touched stays off until its start; the target
\* is not started before its data is the snapshot's.
LEMMA EmptiedIsOff ==
    ASSUME FollowersAssumption, PlanInv, Laid, NEW n \in Parts, server[n].on, server[n].data # "old"
    PROVE  /\ Begun("start", n)
           /\ n = Target => server[n].data = "restored"
<1>1. Begun("backup", n)
  BY DEF PlanInv, DataInv
<1>2. Begun("start", n)
  BY <1>1, Chain DEF PlanInv, OffInv
<1>3. n = Target => server[n].data = "restored"
  BY <1>2, Chain DEF PlanInv, DataInv
<1> QED BY <1>2, <1>3

\* The plan stops every server before it empties any, and starts one only when
\* its data is the snapshot's or its join is directed: whatever step fails, is
\* aborted or is answered late, no server founds a cluster of its own.
THEOREM NoClusterFounded == ASSUME FollowersAssumption PROVE PlanSpec => []NoNewCluster
<1>1. PlanInv => NoNewCluster
  <2> SUFFICES ASSUME PlanInv, NEW n \in Parts, server[n].on
               PROVE  /\ server[n].data # "founded"
                      /\ server[n].data = "empty" => server[n].via = "target"
    BY DEF NoNewCluster
  <2>1. Laid
    BY PlanIsLaid DEF PlanInv
  <2>2. n = Target => server[n].data \in {"old", "restored"}
    BY <2>1, EmptiedIsOff
  <2>3. server[n].data = "founded" => n = Target
    BY <2>1, Chain DEF PlanInv, DataInv
  <2>4. server[n].data = "empty" => server[n].via = "target"
    BY <2>2 DEF PlanInv, ViaInv, ViaOf
  <2> QED BY <2>2, <2>3, <2>4
<1> QED BY <1>1, PlanCorrect, PTL

\* Run returns on its first failure or abort; what it has not undone by then, an
\* agent stopped or a drop-in written, its notes name, or it is on the server
\* of the failed step.
THEOREM LeftoversAreNoted == ASSUME FollowersAssumption PROVE PlanSpec => []LeftoversAreReported
<1>1. PlanInv => LeftoversAreReported
  <2> SUFFICES ASSUME PlanInv, NEW n \in Parts
               PROVE  /\ n \in ToSet(AgentNodes) \ agents => n \in agentOff \/ (failed /\ n = Current.node)
                      /\ RKE2 /\ server[n].via # "own" => n \in noted \/ (failed /\ n = Current.node)
    BY DEF LeftoversAreReported
  <2>1. n \in ToSet(AgentNodes) \ agents => n \in agentOff \/ (failed /\ n = Current.node)
    BY DEF PlanInv, AgentInv
  <2>2. RKE2 /\ server[n].via # "own" => n \in noted \/ (failed /\ n = Current.node)
    BY DEF PlanInv, ViaInv, ViaOf
  <2> QED BY <2>1, <2>2
<1> QED BY <1>1, PlanCorrect, PTL

\* Once what a plan has of waits and cleanups is done, everybody is back.
LEMMA AllBack ==
    ASSUME FollowersAssumption, PlanInv, Laid, NEW k \in Nat, k <= Done,
           \A i \in DOMAIN Steps : i <= k \/ Steps[i].op \in {"agentStart", "tend"}
    PROVE  /\ \A n \in Parts : Serving(n)
           /\ RKE2 => \A n \in Parts : server[n].via = "own"
<1>1. /\ Done \in Int /\ at \in Nat /\ Done <= at /\ 1..Done \subseteq 1..at /\ 1..at \subseteq DOMAIN Steps
  BY DoneIs DEF PlanInv
<1>2. \A i \in DOMAIN Steps : i \in Int /\ 1 <= i
  BY StepOf
<1>3. ASSUME NEW n \in Parts PROVE Serving(n)
  <2>1. PICK f \in DOMAIN Steps : IsLast(Steps, f)
    BY DEF Laid, Ends
  <2>2. f \in 1..Done
    BY <1>1, <1>2, <2>1 DEF IsLast
  <2> QED BY <2>1, <2>2 DEF PlanInv, MemberInv
<1>4. ASSUME RKE2, NEW n \in Parts, server[n].via # "own" PROVE FALSE
  <2>1. PICK i \in 1..at : Is(Steps[i], "start", n) /\ \A j \in i..Done : ~Is(Steps[j], "cleanup", n)
    BY <1>4 DEF PlanInv, ViaInv, ViaOf
  <2>2. i \in DOMAIN Steps /\ Steps[i] \in PlanStep
    BY <1>1, <2>1, StepOf
  <2>3. \E j \in DOMAIN Steps : i < j /\ Is(Steps[j], "cleanup", n)
    <3>1. CASE n # Target
      BY <1>4, <2>1, <2>2, <3>1 DEF Laid, InOrder, Is
    <3>2. CASE n = Target
      <4>1. ~plan.rejoin
        BY <2>1, <2>2, <3>2 DEF PlanStep, Is
      <4>2. PICK j \in DOMAIN Steps : Is(Steps[j], "cleanup", Target)
        BY <1>4, <4>1 DEF Laid, Has
      <4>3. /\ Class(Steps[i]) = 5 /\ Class(Steps[j]) = 7
            /\ Steps[i].op # "tend" /\ Steps[j].op # "tend"
        BY <2>1, <3>2, <4>2 DEF Class, Is
      <4> QED BY <2>2, <3>2, <4>2, <4>3, Order
    <3> QED BY <3>1, <3>2
  <2>4. PICK j \in DOMAIN Steps : i < j /\ Is(Steps[j], "cleanup", n)
    BY <2>3
  <2>5. j <= k
    BY <2>4 DEF Is
  <2>6. j \in i..Done
    BY <1>1, <1>2, <2>2, <2>4, <2>5
  <2> QED BY <2>1, <2>4, <2>6
<1> QED BY <1>3, <1>4

\* A rescue that returns with neither a failure nor an abort has passed every
\* wait of its plan: all servers are members that serve, no drop-in is left,
\* and the agents that ran run again.
THEOREM SuccessIsWhole == ASSUME FollowersAssumption PROVE PlanSpec => []SuccessMeansRestored
<1>1. PlanInv => SuccessMeansRestored
  <2> SUFFICES ASSUME PlanInv, ended, ~failed, ~aborting
               PROVE  /\ \A n \in Parts : Serving(n)
                      /\ RKE2 => \A n \in Parts : server[n].via = "own"
                      /\ agents = plan.agents /\ agentOff = {}
    BY DEF SuccessMeansRestored
  <2>1. Laid
    BY PlanIsLaid DEF PlanInv
  <2>2. at = Len(Steps) /\ Done = at
    BY DEF PlanInv, RunInv, Done
  <2>3. DOMAIN Steps = 1..at /\ at \in Nat
    <3>1. Steps \in Seq(PlanStep)
      BY <2>1 DEF Laid, InOrder
    <3> QED BY <2>2, <3>1
  <2>4. /\ \A n \in Parts : Serving(n)
        /\ RKE2 => \A n \in Parts : server[n].via = "own"
    <3>1. \A i \in DOMAIN Steps : i <= at
      BY <2>3
    <3> QED BY <2>1, <2>2, <2>3, <3>1, AllBack
  <2>5. \A n \in ToSet(AgentNodes) : Past("agentStart", n)
    BY <2>1, <2>2, <2>3 DEF Laid, Has, Past
  <2>6. agents = plan.agents /\ agentOff = {}
    BY <2>5 DEF PlanInv, AgentInv
  <2> QED BY <2>4, <2>6
<1> QED BY <1>1, PlanCorrect, PTL

\* startAgents is a step after the last wait and the last cleanup.
THEOREM AgentsComeLast == ASSUME FollowersAssumption PROVE PlanSpec => AgentLast
<1>1. PlanInv /\ [PlanNext]_planVars =>
        [agents' \subseteq agents \/ \A n \in Parts : Serving(n) /\ server[n].via = "own"]_planVars
  <2> SUFFICES ASSUME PlanInv, [PlanNext]_planVars, ~(agents' \subseteq agents)
               PROVE  \A n \in Parts : Serving(n) /\ server[n].via = "own"
    OBVIOUS
  <2>1. Laid
    BY PlanIsLaid DEF PlanInv
  <2>2. Quiet \/ Runs \/ Drops \/ World
    BY <2>1, Kinds DEF PlanInv
  <2>3. Runs
    BY <2>2 DEF Quiet, Drops, DropIn, World, ResetEnds, Join, Promote, AgentPlan, nodeVars
  <2>4. PICK c : c = Current.node
    OBVIOUS
  <2>5. c \in Server /\ Does(Script, c) /\ Current = Steps[at] /\ Current \in PlanStep /\ phase # "next"
    BY <2>1, <2>3, <2>4, Ran
  <2>6. Script = "agentStart"
    <3>1. Changed(Script, c)
      BY <2>5, Effects DEF PlanInv
    <3> QED BY <3>1 DEF Changed
  <2>7. Current.op = "agentStart"
    BY <2>1, <2>5, <2>6, ScriptIs DEF PlanInv
  <2>8. RKE2
    BY <2>5, <2>7 DEF PlanStep, PlanInv, PlanOK
  <2>9. /\ Done \in Int /\ at \in Nat /\ Done = at - 1 /\ at \in 1..at /\ 1..at \subseteq DOMAIN Steps
    BY <2>1, <2>5, DoneIs DEF PlanInv
  <2>10. \A i \in DOMAIN Steps : i <= Done \/ Steps[i].op \in {"agentStart", "tend"}
    <3> SUFFICES ASSUME NEW i \in DOMAIN Steps, Steps[i].op \notin {"agentStart", "tend"} PROVE i <= Done
      OBVIOUS
    <3>1. Class(Steps[i]) < 8
      BY StepOf, <2>1 DEF Class
    <3>2. Class(Steps[at]) = 8 /\ Steps[at].op # "tend"
      BY <2>5, <2>7 DEF Class
    <3>3. i < at /\ i \in Int
      BY <2>1, <2>9, <3>1, <3>2, Order, StepOf
    <3> QED BY <2>9, <3>3
  <2>11. Done \in Nat
    BY <2>9
  <2> QED BY <2>1, <2>8, <2>9, <2>10, <2>11, AllBack
<1> QED BY <1>1, PlanCorrect, PTL DEF PlanSpec, AgentLast

-----------------------------------------------------------------------------
(* A restore is a cutover *)

\* Until the old data is moved aside on every server nobody serves new data:
\* the backups come before the restore and the starts.
LEMMA NewIsAfter ==
    ASSUME FollowersAssumption, PlanInv, Laid, ~plan.rejoin,
           NEW n \in Parts, server[n].data \in {"restored", "joined"}
    PROVE  MovedAside
<1>1. \E i \in 1..at : Is(Steps[i], "reset", n) \/ Is(Steps[i], "restore", n) \/ Is(Steps[i], "start", n)
  <2>1. Begun("reset", n) \/ Begun("restore", n) \/ Begun("start", n)
    BY DEF PlanInv, DataInv
  <2> QED BY <2>1 DEF Begun
<1>2. PICK i \in 1..at : Is(Steps[i], "reset", n) \/ Is(Steps[i], "restore", n) \/ Is(Steps[i], "start", n)
  BY <1>1
<1>3. ASSUME NEW m \in Parts PROVE server[m].data # "old"
  <2>1. m \in ToSet(Touched)
    BY PartsType DEF PlanInv
  <2>2. Class(Step("backup", m)) < Class(Steps[i]) /\ Steps[i].op # "tend"
    BY <1>2 DEF Is, Class, Step, Wait
  <2>3. Past("backup", m)
    BY <2>1, <2>2, Before DEF Laid, PlanInv
  <2> QED BY <2>3 DEF PlanInv, DataInv
<1> QED BY <1>3 DEF MovedAside

NothingNew == ~MovedAside => ServingNew = {}

\* The invariant says so of every server.
LEMMA NothingNewHolds == ASSUME FollowersAssumption, PlanInv PROVE NothingNew
<1>1. Laid
  BY PlanIsLaid DEF PlanInv
<1> QED BY <1>1, NewIsAfter DEF NothingNew, ServingNew

\* The old data of a server only ever goes, with its backup, when the server is
\* stopped and nothing new was begun.
LEMMA Goes ==
    ASSUME FollowersAssumption, PlanInv, Laid, [PlanNext]_planVars, NEW n \in Parts, ~plan.rejoin
    PROVE  /\ server'[n].data = "old" => server[n].data = "old"
           /\ server[n].data = "old" /\ server'[n].data # "old" =>
                 /\ ~server[n].on /\ server'[n].data = "empty" /\ orphans' = orphans
                 /\ \A m \in Parts : m # n => server'[m].data = server[m].data /\ server'[m].on = server[m].on
<1> USE DEF PlanInv
<1>1. /\ Quiet \/ Runs \/ Drops \/ World
      /\ Parts \subseteq Server /\ n \in Server /\ Target \in Server
      /\ server \in [Server -> [on : BOOLEAN, data : Data, via : {"own", "target", "none"}]]
  BY Kinds, PartsType DEF PlanTypeOK
<1>2. CASE Quiet
  BY <1>2 DEF Quiet, nodeVars
<1>3. CASE Drops
  BY <1>1, <1>3 DEF Drops, DropIn
<1>4. CASE World
  <2>1. CASE ResetEnds
    <3>1. Begun("reset", Target) \/ Begun("up", Target)
      BY <2>1 DEF ResetEnds, ResetInv, PlanTypeOK
    <3>2. Past("backup", Target)
      <4>1. Begun("up", Target) => Begun("reset", Target)
        BY Chain, PastIsBegun
      <4> QED BY <3>1, <4>1, Chain
    <3>3. server[Target].data # "old" /\ Target \in Parts
      BY <3>2, PartsType DEF DataInv
    <3>4. /\ \A m \in Server : m # Target => server'[m] = server[m]
          /\ server'[Target].data \in {server[Target].data, "restored", "founded"}
      BY <1>1, <2>1 DEF ResetEnds
    <3> QED BY <1>1, <3>3, <3>4
  <2>2. CASE \E m \in Server : Join(m) \/ Promote(m) \/ AgentPlan(m)
    <3>1. PICK m \in Server : Join(m) \/ Promote(m) \/ AgentPlan(m)
      BY <2>2
    <3>2. server'[n].data = server[n].data \/ (server[n].data = "empty" /\ server'[n].data = "joined")
      BY <1>1, <3>1 DEF Join, Promote, AgentPlan
    <3> QED BY <3>2
  <2> QED BY <1>4, <2>1, <2>2 DEF World
<1>5. CASE Runs
  <2>1. PICK c : c = Current.node
    OBVIOUS
  <2>2. /\ c \in Server /\ c \in Parts /\ Does(Script, c) /\ Current = Steps[at] /\ at \in 1..at
        /\ Current \in PlanStep /\ phase # "next" /\ Current.node = c
    BY <1>5, <2>1, Ran
  <2>3. Changed(Script, c)
    BY <2>2, Effects
  <2>4. /\ \A m \in Server : m # c => server'[m] = server[m]
        /\ server'[c].data = IF Script \in {"backup", "wipe"} THEN "empty"
                             ELSE IF Script = "restore" THEN "restored" ELSE server[c].data
    BY <2>3 DEF Changed, Elsewhere
  <2>5. server'[n].data = "old" => server[n].data = "old"
    BY <1>1, <2>4
  <2>6. ASSUME server[n].data = "old", server'[n].data # "old"
        PROVE  /\ ~server[n].on /\ server'[n].data = "empty" /\ orphans' = orphans
               /\ \A m \in Parts : m # n => server'[m].data = server[m].data /\ server'[m].on = server[m].on
    <3>1. n = c /\ Script \in {"backup", "wipe", "restore"}
      BY <1>1, <2>4, <2>6
    <3>2. Script \notin {"wipe", "restore"}
      <4> SUFFICES ASSUME Script \in {"wipe", "restore"} PROVE FALSE
        OBVIOUS
      <4>1. Current.op \in {"reset", "restore"}
        BY <2>2, ScriptIs
      <4>2. Begun("reset", c) \/ Begun("restore", c)
        BY <2>2, <4>1 DEF Begun, Is
      <4>3. Past("backup", c)
        BY <4>2, Chain
      <4> QED BY <2>2, <2>6, <3>1, <4>3 DEF DataInv
    <3>3. Current.op = "backup"
      BY <2>2, <3>1, <3>2, ScriptIs
    <3>4. Past("stop", n)
      <4>1. Begun("backup", n)
        BY <2>2, <3>1, <3>3 DEF Begun, Is
      <4> QED BY <4>1, Chain
    <3>5. ~Begun("start", n)
      <4> SUFFICES ASSUME NEW i \in 1..at, Is(Steps[i], "start", n) PROVE FALSE
        BY DEF Begun
      <4>1. Class(Steps[i]) \in {5, 7} /\ Steps[i].op # "tend"
        BY DEF Class, Is
      <4>2. Class(Current) = 3 /\ Current.op # "tend"
        BY <3>3 DEF Class
      <4> QED BY <2>2, <4>1, <4>2, NotYet
    <3>6. orphans' = orphans
      BY <2>3, <3>1 DEF Changed
    <3> QED BY <1>1, <2>4, <3>1, <3>2, <3>4, <3>5, <3>6 DEF OffInv
  <2> QED BY <2>5, <2>6
<1> QED BY <1>1, <1>2, <1>3, <1>4, <1>5

\* Only an etcd on the old data outlives a stop.
LEMMA Outlives ==
    ASSUME FollowersAssumption, PlanInv, Laid, [PlanNext]_planVars, NEW n \in orphans', n \notin orphans
    PROVE  server[n].data = "old"
<1>1. Quiet \/ Runs \/ Drops \/ World
  BY Kinds DEF PlanInv
<1>2. CASE Quiet
  BY <1>2 DEF Quiet
<1>3. CASE Drops
  BY <1>3 DEF Drops, DropIn, etcdVars
<1>4. CASE World
  BY <1>4 DEF World, ResetEnds, Join, Promote, AgentPlan, etcdVars
<1>5. CASE Runs
  <2>1. PICK c : c = Current.node
    OBVIOUS
  <2>2. c \in Server /\ Does(Script, c)
    BY <1>5, <2>1, Ran
  <2>3. Changed(Script, c)
    BY <2>2, Effects DEF PlanInv
  <2>4. orphans' \subseteq orphans \cup {c} /\ (server[c].data # "old" => orphans' \subseteq orphans)
    BY <2>3 DEF Changed
  <2> QED BY <2>4
<1> QED BY <1>1, <1>2, <1>3, <1>4, <1>5

\* A restore takes the servers from the old data to the snapshot's as one: it
\* implements Cutover.
THEOREM RestoreCutsOver == ASSUME FollowersAssumption PROVE PlanSpec => CutsOver
<1>1. PlanInit => C!Init
  <2> SUFFICES ASSUME PlanInit PROVE C!Init
    OBVIOUS
  <2>1. \A n \in Server : server[n].data = "old"
    BY DEF PlanInit
  <2>2. Parts \subseteq Server /\ Target \in Parts
    BY PlanBegins, PartsType DEF PlanInv
  <2>3. orphans = {}
    BY DEF PlanInit
  <2> QED BY <2>1, <2>2, <2>3 DEF C!Init, ServingOld, ServingNew, MovedAside, Warned
<1>2. PlanInv => NothingNew
  BY NothingNewHolds
<1>3. PlanInv /\ NothingNew /\ NothingNew' /\ [PlanNext]_planVars
        => [C!Next]_<<ServingOld, ServingNew, Warned, MovedAside>>
  <2> SUFFICES ASSUME PlanInv, NothingNew, NothingNew', [PlanNext]_planVars
               PROVE  C!Next \/ UNCHANGED <<ServingOld, ServingNew, Warned, MovedAside>>
    OBVIOUS
  <2>1. Laid
    BY PlanIsLaid DEF PlanInv
  <2>2. plan' = plan /\ Parts' = Parts /\ Parts \subseteq Server /\ Target \in Parts
    BY <2>1, Kinds, Same, PartsType DEF PlanInv
  <2>3. CASE plan.rejoin
    BY <2>2, <2>3 DEF ServingOld, ServingNew, MovedAside, Warned
  <2>4. CASE ~plan.rejoin
    <3>1. ServingOld' \subseteq Server /\ ServingNew' \subseteq Server /\ Warned' \subseteq ServingOld'
      BY <2>2, <2>4 DEF ServingOld, ServingNew, Warned
    <3>2. /\ MovedAside => ServingOld = Warned
          /\ MovedAside' => ServingOld' = Warned'
      BY <2>4 DEF ServingOld, MovedAside, Warned
    <3>3. MovedAside => MovedAside'
      BY <2>1, <2>2, <2>4, Goes DEF MovedAside
    <3>4. MovedAside \in BOOLEAN /\ MovedAside' \in BOOLEAN
      BY DEF MovedAside
    <3>5. CASE ~MovedAside /\ ~MovedAside'
      <4>1. ServingNew = {} /\ ServingNew' = {}
        BY <3>5 DEF NothingNew
      <4>2. C!Before
        BY <3>1, <3>4, <3>5, <4>1 DEF C!Before
      <4> QED BY <4>2 DEF C!Next
    <3>6. CASE MovedAside
      <4>1. Warned' \subseteq Warned
        <5> SUFFICES ASSUME NEW n \in Parts, n \in orphans', n \notin orphans PROVE FALSE
          BY <2>2, <2>4 DEF Warned
        <5>1. server[n].data = "old"
          BY <2>1, Outlives
        <5> QED BY <3>6, <5>1 DEF MovedAside
      <4>2. C!After
        BY <3>1, <3>2, <3>3, <3>4, <3>6, <4>1 DEF C!After
      <4> QED BY <4>2 DEF C!Next
    <3>7. CASE ~MovedAside /\ MovedAside'
      <4>1. PICK n \in Parts : server[n].data = "old" /\ server'[n].data # "old"
        BY <2>2, <2>4, <3>7 DEF MovedAside
      <4>2. /\ ~server[n].on /\ server'[n].data = "empty" /\ orphans' = orphans
            /\ \A m \in Parts : m # n => server'[m].data = server[m].data /\ server'[m].on = server[m].on
        BY <2>1, <2>4, <4>1, Goes
      <4>3. ServingOld = Warned /\ Warned' = Warned
        BY <2>2, <2>4, <3>7, <4>2 DEF ServingOld, MovedAside, Warned
      <4>4. ServingNew = {}
        BY <3>7 DEF NothingNew
      <4>5. ServingNew' = {}
        BY <2>2, <2>4, <4>2, <4>4 DEF ServingNew
      <4>6. C!Cut
        BY <3>2, <3>4, <3>7, <4>3, <4>4, <4>5 DEF C!Cut
      <4> QED BY <4>6 DEF C!Next
    <3> QED BY <3>4, <3>5, <3>6, <3>7
  <2> QED BY <2>3, <2>4
<1> QED BY <1>1, <1>2, <1>3, PlanCorrect, PTL DEF PlanSpec, CutsOver, C!Spec

-----------------------------------------------------------------------------
(* The composition *)

\* The part that is not looked at stands still.
LEMMA OneTurnAtATime == RescueSpec => Spec /\ PlanSpec
<1>1. RescueInit => Init /\ PlanInit
  BY DEF RescueInit
<1>2. [RescueNext]_rescueVars => [Next]_vars /\ [PlanNext]_planVars
  BY DEF RescueNext, ViewTurn, PlanTurn, rescueVars
<1> QED BY <1>1, <1>2, PTL DEF RescueSpec, Spec, PlanSpec

\* The safety that is checked of a rescue holds whatever its constants are: of the
\* overlay (handleRescueKey, handleRescueMsg) and of the engine's plan (Run).
THEOREM RescueIsSafe ==
    RescueSpec => /\ [](OneMemberDown /\ RescueIsWatched)
                  /\ [](NoNewCluster /\ LeftoversAreReported /\ SuccessMeansRestored)
                  /\ TargetIsChosen /\ CutsOver
<1>1. FollowersAssumption
  BY RescueAssumption
<1> QED BY <1>1, OneTurnAtATime, DefragOneAtATime, NoLostRescue, ChosenIsTarget, NoClusterFounded,
           LeftoversAreNoted, SuccessIsWhole, RestoreCutsOver, PTL
=============================================================================
