-------------------------- MODULE SSHRunner_proofs --------------------------
(***************************************************************************)
(* A theorem about the SSH runner, for any hosts, callers, connections and *)
(* slots, with and without a bastion: whatever calls, breaks, deadlines    *)
(* and a Close meet, a host has one connection, and no connection is lost. *)
(*                                                                         *)
(* The property is not inductive: that a dial displaces no connection      *)
(* rests on the host's lock (Dialing); that a connection is closed by the  *)
(* one that may, on nobody else knowing the one that is being published    *)
(* (Publishing) and on the one that is given up not being cached (Killing).*)
(***************************************************************************)
EXTENDS SSHRunner, TLAPS, FiniteSetTheorems

\* What the invariant needs of the types.
Types ==
    /\ pc \in [Caller -> Steps]
    /\ call \in [Caller -> Call]
    /\ clients \in [Host -> Conn \cup {None}]
    /\ holder \in [Host -> Caller \cup {None}]
    /\ conn \in [Conn -> Link]
    /\ memo \subseteq Host /\ become \subseteq Host
    /\ bastion \in {"none", "up", "dead"}
    /\ closed \in BOOLEAN

\* A caller that uses a connection has one, to its host.
Uses == \A c \in Caller :
    /\ pc[c] \in {"publish", "open", "detect", "run", "kill"} => call[c].conn # None
    /\ call[c].conn # None => conn[call[c].conn].host = host(c)

\* The one that dials holds the host's lock, and the host has no connection.
Dialing == \A c \in Caller : pc[c] \in {"jump", "bdial", "dial", "publish"} =>
    holder[host(c)] = c /\ clients[host(c)] = None

\* A cached connection is one to its host, and not closed.
Cached == \A h \in Host : clients[h] # None =>
    conn[clients[h]].host = h /\ conn[clients[h]].state # "closed"

\* Nobody else knows the connection that is about to be cached.
Publishing == \A c \in Caller : pc[c] = "publish" =>
    /\ conn[call[c].conn].state # "closed"
    /\ \A d \in Caller : d # c => call[d].conn # call[c].conn

\* A connection that was given up is not cached.
Killing == \A c \in Caller : pc[c] = "kill" => \A h \in Host : clients[h] # call[c].conn

PoolInv == Types /\ Uses /\ Dialing /\ Cached /\ Publishing /\ Killing /\ NoOrphan

-----------------------------------------------------------------------------
(* Kinds of steps *)

\* A step of c that leaves the connections and the other callers alone.
Alone(c) ==
    /\ \A d \in Caller : d # c => pc'[d] = pc[d] /\ call'[d] = call[d]
    /\ pc' \in [Caller -> Steps] /\ call' \in [Caller -> Call]
    /\ UNCHANGED <<clients, conn, closed>>
    /\ memo' \subseteq Host /\ become' \subseteq Host /\ bastion' \in {"none", "up", "dead"}

\* c goes on with the connection and the lock it has, or has not.
GoesOn(c) ==
    /\ Alone(c)
    /\ call'[c].conn = call[c].conn /\ call'[c].host = call[c].host
    /\ UNCHANGED holder
    /\ \/ pc'[c] = pc[c]
       \/ pc[c] = "slot" /\ pc'[c] = "lock"
       \/ pc[c] \in {"jump", "bdial"} /\ pc'[c] \in {"bdial", "dial"}
       \/ pc[c] \in {"open", "detect"} /\ pc'[c] \in {"detect", "run"}

\* c ends its try without a connection, and gives the lock back if it has it.
Leaves(c) ==
    /\ Alone(c)
    /\ pc[c] \notin {"publish", "kill"} /\ pc'[c] \in {"idle", "retry"}
    /\ call'[c].conn = None /\ call'[c].host = call[c].host
    /\ \/ UNCHANGED holder
       \/ pc[c] \in {"bdial", "dial"} /\ holder' = [holder EXCEPT ![host(c)] = None]

\* A new call to a host has the type of a call.
LEMMA NewCallType == ASSUME NEW h \in Host PROVE NewCall(h) \in Call
BY DEF NewCall, Call

\* What Return and Fails do to the caller.
LEMMA FailsIs ==
    ASSUME Types, NEW c \in Caller, Return(c) \/ \E broken \in BOOLEAN : Fails(c, broken)
    PROVE  /\ \A d \in Caller : d # c => pc'[d] = pc[d] /\ call'[d] = call[d]
           /\ pc' \in [Caller -> Steps] /\ call' \in [Caller -> Call]
           /\ pc'[c] \in {"idle", "retry"}
           /\ call'[c].conn = None /\ call'[c].host = call[c].host
<1>1. /\ pc \in [Caller -> Steps] /\ call \in [Caller -> Call] /\ call[c] \in Call /\ host(c) \in Host
      /\ {"idle", "retry"} \subseteq Steps
  BY DEF Types, Call, host, Steps
<1>2. CASE Return(c)
  <2>1. call' = [call EXCEPT ![c] = NewCall(host(c))] /\ pc' = [pc EXCEPT ![c] = "idle"]
    BY <1>2 DEF Return, Goto
  <2>2. NewCall(host(c)) \in Call /\ NewCall(host(c)).conn = None /\ NewCall(host(c)).host = host(c)
    BY <1>1, NewCallType DEF NewCall
  <2> QED BY <1>1, <2>1, <2>2 DEF host
<1>3. CASE /\ Goto(c, "retry")
           /\ call' = [call EXCEPT ![c].conn = None,
                                   ![c].out = IF c \in Streams THEN @ ELSE {}]
  <2>1. PICK o \in SUBSET {1, 2} : call' = [call EXCEPT ![c].conn = None, ![c].out = o]
    <3>1. call[c].out \in SUBSET {1, 2} /\ {} \in SUBSET {1, 2}
      BY <1>1 DEF Call
    <3>2. (IF c \in Streams THEN call[c].out ELSE {}) \in SUBSET {1, 2}
      BY <3>1
    <3> QED BY <1>3, <3>2
  <2>2. [call[c] EXCEPT !.conn = None, !.out = o] \in Call
    BY <1>1, <2>1 DEF Call
  <2>3. call'[c] = [call[c] EXCEPT !.conn = None, !.out = o] /\ \A d \in Caller : d # c => call'[d] = call[d]
    BY <1>1, <2>1
  <2>4. call'[c].conn = None /\ call'[c].host = call[c].host
    BY <1>1, <2>3 DEF Call
  <2>5. call' \in [Caller -> Call]
    BY <1>1, <2>1, <2>2
  <2>6. pc' \in [Caller -> Steps] /\ pc'[c] = "retry" /\ \A d \in Caller : d # c => pc'[d] = pc[d]
    BY <1>1, <1>3 DEF Goto
  <2> QED BY <2>3, <2>4, <2>5, <2>6
<1> QED BY <1>2, <1>3 DEF Fails

\* What a caller does with what it has keeps the invariant.
LEMMA GoesOnKeeps ==
    ASSUME PoolInv, NEW c \in Caller, GoesOn(c)
    PROVE  PoolInv'
<1> USE DEF PoolInv, GoesOn, Alone, host
<1>1. Types'
  BY DEF Types
<1>2. \A d \in Caller : call'[d].conn = call[d].conn /\ call'[d].host = call[d].host
  OBVIOUS
<1>3. Uses'
  BY <1>2 DEF Uses
<1>4. Dialing'
  BY <1>2 DEF Dialing
<1>5. Cached'
  BY DEF Cached
<1>6. Publishing'
  BY <1>2 DEF Publishing
<1>7. Killing'
  BY <1>2 DEF Killing
<1>8. NoOrphan'
  BY <1>2 DEF NoOrphan
<1> QED BY <1>1, <1>3, <1>4, <1>5, <1>6, <1>7, <1>8

\* So does the end of a try.
LEMMA LeavesKeeps ==
    ASSUME PoolInv, NEW c \in Caller, Leaves(c)
    PROVE  PoolInv'
<1> USE DEF PoolInv, Leaves, Alone, host
<1>0. call[c].host \in Host
  BY DEF Types, Call
<1>1. Types'
  BY <1>0 DEF Types
<1>2. \A d \in Caller : /\ call'[d].host = call[d].host
                        /\ call'[d].conn = call[d].conn \/ call'[d].conn = None
                        /\ pc'[d] \notin {"idle", "retry"} => d # c
  OBVIOUS
<1>3. Uses'
  BY <1>2 DEF Uses
<1>4. Dialing'
  <2> SUFFICES ASSUME NEW d \in Caller, pc'[d] \in {"jump", "bdial", "dial", "publish"}
               PROVE  holder'[call[d].host] = d /\ clients[call[d].host] = None
    BY <1>2 DEF Dialing
  <2>1. d # c /\ holder[call[d].host] = d /\ clients[call[d].host] = None
    BY DEF Dialing
  <2>2. call[d].host \in Host /\ holder \in [Host -> Caller \cup {None}]
    BY DEF Types, Call
  <2>3. CASE UNCHANGED holder
    BY <2>1, <2>3
  <2>4. CASE pc[c] \in {"bdial", "dial"} /\ holder' = [holder EXCEPT ![call[c].host] = None]
    <3>1. holder[call[c].host] = c
      BY <2>4 DEF Dialing
    <3> QED BY <2>1, <2>2, <2>4, <3>1
  <2> QED BY <2>1, <2>3, <2>4
<1>5. Cached'
  BY DEF Cached
<1>6. Publishing'
  <2> SUFFICES ASSUME NEW d \in Caller, pc'[d] = "publish"
               PROVE  /\ conn[call[d].conn].state # "closed"
                      /\ \A e \in Caller : e # d => call'[e].conn # call[d].conn
    BY <1>2 DEF Publishing
  <2>1. pc[d] = "publish" /\ call[d].conn # None
    BY <1>2 DEF Uses
  <2> QED BY <1>2, <2>1 DEF Publishing
<1>7. Killing'
  BY <1>2 DEF Killing
<1>8. NoOrphan'
  BY <1>2 DEF NoOrphan
<1> QED BY <1>1, <1>3, <1>4, <1>5, <1>6, <1>7, <1>8

-----------------------------------------------------------------------------
(* The steps *)

\* A new runner has no connection.
LEMMA PoolInit == Init => PoolInv
<1> SUFFICES ASSUME Init PROVE PoolInv
  OBVIOUS
<1>1. /\ pc = [c \in Caller |-> "idle"] /\ call \in [Caller -> {NewCall(h) : h \in Host}]
      /\ clients = [h \in Host |-> None] /\ holder = [h \in Host |-> None]
      /\ memo = {} /\ become = {} /\ bastion = "none" /\ closed = FALSE
      /\ conn \in [Conn -> {[host |-> h, state |-> "closed"] : h \in Host}]
  BY DEF Init
<1>2. \A c \in Caller : call[c] \in Call /\ call[c].conn = None
  <2> SUFFICES ASSUME NEW c \in Caller PROVE call[c] \in Call /\ call[c].conn = None
    OBVIOUS
  <2>1. PICK h \in Host : call[c] = NewCall(h)
    BY <1>1
  <2> QED BY <2>1, NewCallType DEF NewCall
<1>3. \A k \in Conn : conn[k] \in Link /\ conn[k].state = "closed"
  BY <1>1 DEF Link
<1>4. Types
  BY <1>1, <1>2, <1>3 DEF Types, Steps
<1>5. Uses /\ Dialing /\ Cached /\ Publishing /\ Killing /\ NoOrphan
  BY <1>1, <1>2, <1>3 DEF Uses, Dialing, Cached, Publishing, Killing, NoOrphan
<1> QED BY <1>4, <1>5 DEF PoolInv

\* The steps of a caller that leave the connections alone.
LEMMA CallerSteps ==
    ASSUME PoolInv, NEW c \in Caller,
           \/ Deadline(c) \/ Writes(c) \/ TakeSlot(c) \/ Jump(c) \/ DialBastion(c)
           \/ Open(c) \/ Detect(c) \/ NoSlot(c) \/ DialFails(c) \/ Broken(c)
           \/ \E refused \in BOOLEAN : Ends(c, refused)
    PROVE  PoolInv'
<1>1. Types /\ host(c) \in Host /\ call[c] \in Call /\ call \in [Caller -> Call] /\ pc \in [Caller -> Steps]
  BY DEF PoolInv, Types, Call, host
<1>2. ASSUME GoesOn(c) \/ Leaves(c) PROVE PoolInv'
  BY <1>2, GoesOnKeeps, LeavesKeeps
<1>3. CASE Deadline(c) \/ Writes(c)
  <2>1. PICK e \in BOOLEAN, o \in SUBSET {1, 2} : call' = [call EXCEPT ![c].expired = e, ![c].out = o]
    <3>1. call[c] = [host |-> call[c].host, try |-> call[c].try, conn |-> call[c].conn,
                     expired |-> call[c].expired, out |-> call[c].out]
          /\ call[c].out \in SUBSET {1, 2} /\ call[c].try \in 1..2 /\ call[c].expired \in BOOLEAN
      BY <1>1 DEF Call
    <3>2. CASE Deadline(c)
      <4>1. call' = [call EXCEPT ![c].expired = TRUE, ![c].out = call[c].out]
        <5>1. [call[c] EXCEPT !.expired = TRUE] = [call[c] EXCEPT !.expired = TRUE, !.out = call[c].out]
          BY <3>1
        <5>2. call' = [call EXCEPT ![c] = [call[c] EXCEPT !.expired = TRUE]]
          BY <3>2 DEF Deadline
        <5>3. call' = [call EXCEPT ![c] = [call[c] EXCEPT !.expired = TRUE, !.out = call[c].out]]
          BY <5>1, <5>2
        <5> QED BY <1>1, <5>3
      <4> QED BY <3>1, <4>1
    <3>3. CASE Writes(c)
      <4>1. call[c].out \cup {call[c].try} \in SUBSET {1, 2}
        BY <3>1
      <4>2. call' = [call EXCEPT ![c].expired = call[c].expired, ![c].out = call[c].out \cup {call[c].try}]
        BY <1>1, <3>1, <3>3 DEF Writes
      <4> QED BY <3>1, <4>1, <4>2
    <3> QED BY <1>3, <3>2, <3>3
  <2>2. /\ call' \in [Caller -> Call] /\ call'[c].conn = call[c].conn /\ call'[c].host = call[c].host
        /\ \A d \in Caller : d # c => call'[d] = call[d]
    BY <1>1, <2>1 DEF Call
  <2>3. UNCHANGED <<pc, clients, holder, memo, become, bastion, conn, closed>>
    BY <1>3 DEF Deadline, Writes
  <2> QED BY <1>1, <1>2, <2>2, <2>3 DEF GoesOn, Alone, Types
<1>4. CASE TakeSlot(c)
  BY <1>1, <1>2, <1>4 DEF TakeSlot, Goto, GoesOn, Alone, Types, Steps
<1>5. CASE Jump(c)
  BY <1>1, <1>2, <1>5 DEF Jump, Goto, GoesOn, Alone, Types, Steps
<1>6. CASE DialBastion(c)
  BY <1>1, <1>2, <1>6 DEF DialBastion, Goto, GoesOn, Alone, Types, Steps
<1>7. CASE Open(c)
  BY <1>1, <1>2, <1>7 DEF Open, Goto, GoesOn, Alone, Types, Steps
<1>8. CASE Detect(c)
  BY <1>1, <1>2, <1>8 DEF Detect, Goto, GoesOn, Alone, Types, Steps
<1>9. ASSUME Return(c) \/ \E broken \in BOOLEAN : Fails(c, broken),
             pc[c] \notin {"publish", "kill"}, UNCHANGED <<clients, conn, closed, bastion>>,
             memo' \subseteq Host, become' \subseteq Host,
             \/ UNCHANGED holder
             \/ pc[c] \in {"bdial", "dial"} /\ holder' = [holder EXCEPT ![host(c)] = None]
      PROVE  PoolInv'
  <2>1. Leaves(c)
    BY <1>1, <1>9, FailsIs DEF Leaves, Alone, Types
  <2> QED BY <1>2, <2>1
<1>10. CASE NoSlot(c)
  BY <1>1, <1>9, <1>10 DEF NoSlot, Types
<1>11. CASE DialFails(c)
  BY <1>1, <1>9, <1>11 DEF DialFails, Types
<1>12. CASE Broken(c)
  <2>1. \E broken \in BOOLEAN : Fails(c, broken)
    BY <1>12 DEF Broken
  <2> QED BY <1>1, <1>9, <1>12, <2>1 DEF Broken, Types
<1>13. CASE \E refused \in BOOLEAN : Ends(c, refused)
  BY <1>1, <1>9, <1>13 DEF Ends, Types
<1> QED BY <1>3, <1>4, <1>5, <1>6, <1>7, <1>8, <1>10, <1>11, <1>12, <1>13

\* The other steps change the lock, the cache or a connection.
LEMMA BeginKeeps == ASSUME PoolInv, NEW c \in Caller, NEW h \in Host, Begin(c, h) PROVE PoolInv'
<1>1. /\ pc[c] = "idle" /\ pc' = [pc EXCEPT ![c] = "slot"] /\ call' = [call EXCEPT ![c] = NewCall(h)]
      /\ UNCHANGED <<clients, holder, memo, become, bastion, conn, closed>>
  BY DEF Begin, Goto
<1>2. pc \in [Caller -> Steps] /\ call \in [Caller -> Call] /\ NewCall(h) \in Call /\ NewCall(h).conn = None
  BY NewCallType DEF PoolInv, Types, NewCall
<1>3. /\ pc' \in [Caller -> Steps] /\ call' \in [Caller -> Call] /\ pc'[c] = "slot" /\ call'[c].conn = None
      /\ \A d \in Caller : d # c => pc'[d] = pc[d] /\ call'[d] = call[d]
  BY <1>1, <1>2 DEF Steps
<1>4. \A d \in Caller : pc'[d] \notin {"slot"} => d # c
  BY <1>3
<1>5. Types' /\ Uses' /\ Cached'
  BY <1>1, <1>3 DEF PoolInv, Types, Uses, Cached, host
<1>6. Dialing' /\ Killing'
  BY <1>1, <1>3, <1>4 DEF PoolInv, Dialing, Killing, host
<1>7. Publishing'
  <2> SUFFICES ASSUME NEW d \in Caller, pc'[d] = "publish"
               PROVE  /\ conn[call[d].conn].state # "closed"
                      /\ \A e \in Caller : e # d => call'[e].conn # call[d].conn
    BY <1>1, <1>3, <1>4 DEF Publishing
  <2>1. d # c /\ pc[d] = "publish" /\ call[d].conn # None
    BY <1>3, <1>4 DEF PoolInv, Uses
  <2> QED BY <1>3, <2>1 DEF PoolInv, Publishing
<1>8. NoOrphan'
  BY <1>1, <1>3 DEF PoolInv, NoOrphan
<1> QED BY <1>5, <1>6, <1>7, <1>8 DEF PoolInv

\* The callers go on, but those that let go of a connection of K.
Stays(K) ==
    /\ UNCHANGED holder
    /\ \A d \in Caller :
          /\ call'[d].host = call[d].host
          /\ call'[d].conn = call[d].conn \/ (call'[d].conn = None /\ pc'[d] = "idle")
          /\ pc'[d] \in {"jump", "bdial", "dial", "publish", "open", "detect", "run", "kill"} => pc'[d] = pc[d]
          /\ pc[d] \in {"publish", "kill"} => pc'[d] = pc[d] \/ call[d].conn \in K

\* Connections are closed, and no longer cached.
LEMMA ClosesKeeps ==
    ASSUME PoolInv, NEW K,
           conn' = [k \in Conn |-> IF k \in K THEN [conn[k] EXCEPT !.state = "closed"] ELSE conn[k]],
           clients' \in [Host -> Conn \cup {None}],
           \A h \in Host : clients'[h] = None \/ clients'[h] = clients[h],
           \A h \in Host : clients[h] \in K => clients'[h] = None,
           \A h \in Host : clients[h] # None => clients[h] \in K \/ clients'[h] = clients[h],
           \A c \in Caller : pc[c] = "publish" => call[c].conn \notin K
    PROVE  /\ conn' \in [Conn -> Link] /\ \A k \in Conn : conn'[k].host = conn[k].host
           /\ Stays(K) => Uses' /\ Dialing' /\ Cached' /\ Publishing' /\ Killing' /\ NoOrphan'
<1> USE DEF PoolInv
<1>1. conn \in [Conn -> Link] /\ clients \in [Host -> Conn \cup {None}] /\ call \in [Caller -> Call]
      /\ None \notin Conn
  BY RunnerAssumption DEF Types
<1>2. \A k \in Conn : /\ conn'[k] \in Link /\ conn'[k].host = conn[k].host
                      /\ k \in K => conn'[k].state = "closed"
                      /\ k \notin K => conn'[k].state = conn[k].state
  BY <1>1 DEF Link
<1>3. conn' \in [Conn -> Link]
  BY <1>2
<1>4. ASSUME Stays(K)
      PROVE  Uses' /\ Dialing' /\ Cached' /\ Publishing' /\ Killing' /\ NoOrphan'
  <2>1. \A c \in Caller : call[c].conn # None => call[c].conn \in Conn
    BY <1>1 DEF Call
  <2>2. \A c \in Caller : call[c].host \in Host
    BY <1>1 DEF Call
  <2>3. /\ UNCHANGED holder
        /\ \A d \in Caller :
              /\ call'[d].host = call[d].host
              /\ call'[d].conn = call[d].conn \/ (call'[d].conn = None /\ pc'[d] = "idle")
              /\ pc'[d] \in {"jump", "bdial", "dial", "publish", "open", "detect", "run", "kill"} => pc'[d] = pc[d]
              /\ pc[d] \in {"publish", "kill"} => pc'[d] = pc[d] \/ call[d].conn \in K
    BY <1>4 DEF Stays
  <2>4. Uses'
    BY <1>2, <2>1, <2>3 DEF Uses, host
  <2>5. Dialing'
    BY <2>2, <2>3 DEF Dialing, host
  <2>6. Cached'
    BY <1>1, <1>2 DEF Cached
  <2>7. Publishing'
    <3> SUFFICES ASSUME NEW d \in Caller, pc'[d] = "publish"
                 PROVE  /\ conn'[call'[d].conn].state # "closed"
                        /\ \A e \in Caller : e # d => call'[e].conn # call'[d].conn
      BY DEF Publishing
    <3>1. pc[d] = "publish" /\ call'[d].conn = call[d].conn /\ call[d].conn \in Conn /\ call[d].conn # None
      BY <2>1, <2>3 DEF Uses
    <3> QED BY <1>2, <2>3, <3>1 DEF Publishing
  <2>8. Killing'
    <3> SUFFICES ASSUME NEW d \in Caller, pc'[d] = "kill", NEW h \in Host, clients'[h] = call'[d].conn
                 PROVE  FALSE
      BY DEF Killing
    <3>1. pc[d] = "kill" /\ call'[d].conn = call[d].conn /\ call[d].conn # None
      BY <2>3 DEF Uses
    <3> QED BY <3>1 DEF Killing
  <2>9. NoOrphan'
    <3> SUFFICES ASSUME NEW k \in Conn, conn'[k].state # "closed"
                 PROVE  \/ clients'[conn[k].host] = k
                        \/ \E c \in Caller : call'[c].conn = k /\ pc'[c] \in {"publish", "kill"}
      BY <1>2 DEF NoOrphan
    <3>1. k \notin K /\ conn[k].state # "closed" /\ conn[k].host \in Host
      BY <1>1, <1>2 DEF Link
    <3>2. CASE clients[conn[k].host] = k
      BY <1>1, <3>1, <3>2
    <3>3. CASE \E c \in Caller : call[c].conn = k /\ pc[c] \in {"publish", "kill"}
      <4>1. PICK c \in Caller : call[c].conn = k /\ pc[c] \in {"publish", "kill"}
        BY <3>3
      <4>2. pc'[c] = pc[c] /\ call'[c].conn = k
        BY <2>3, <3>1, <4>1
      <4> QED BY <4>1, <4>2
    <3> QED BY <3>1, <3>2, <3>3 DEF NoOrphan
  <2> QED BY <2>4, <2>5, <2>6, <2>7, <2>8, <2>9
<1> QED BY <1>2, <1>3, <1>4

\* Close closes what is cached.
LEMMA CloseKeeps == ASSUME PoolInv, Close PROVE PoolInv'
<1> DEFINE K == {clients[h] : h \in Host} \ {None}
<1>1. /\ clients' = [h \in Host |-> None] /\ closed' = TRUE /\ bastion' = "none"
      /\ conn' = [k \in Conn |-> IF k \in {clients[h] : h \in Host}
                                 THEN [conn[k] EXCEPT !.state = "closed"] ELSE conn[k]]
      /\ UNCHANGED <<pc, call, holder, memo, become>>
  BY DEF Close
<1>2. clients \in [Host -> Conn \cup {None}] /\ None \notin Conn /\ call \in [Caller -> Call]
  BY RunnerAssumption DEF PoolInv, Types
<1>3. conn' = [k \in Conn |-> IF k \in K THEN [conn[k] EXCEPT !.state = "closed"] ELSE conn[k]]
  BY <1>1, <1>2
<1>4. \A c \in Caller : pc[c] = "publish" => call[c].conn \notin K
  <2> SUFFICES ASSUME NEW c \in Caller, pc[c] = "publish", NEW h \in Host, clients[h] = call[c].conn, clients[h] # None
               PROVE  FALSE
    OBVIOUS
  <2>1. conn[clients[h]].host = h /\ h = host(c)
    BY DEF PoolInv, Cached, Uses
  <2> QED BY <2>1 DEF PoolInv, Dialing
<1>5. \A h \in Host : clients'[h] = None
  BY <1>1
<1>6. \A h \in Host : clients[h] # None => clients[h] \in K
  OBVIOUS
<1>7. clients' \in [Host -> Conn \cup {None}]
  BY <1>1
<1> HIDE DEF K
<1>8. /\ conn' \in [Conn -> Link]
      /\ Uses' /\ Dialing' /\ Cached' /\ Publishing' /\ Killing' /\ NoOrphan'
  <2>1. Stays(K)
    BY <1>1 DEF Stays
  <2> QED BY <1>3, <1>4, <1>5, <1>6, <1>7, <2>1, ClosesKeeps
<1>9. Types'
  BY <1>1, <1>7, <1>8 DEF PoolInv, Types
<1> QED BY <1>8, <1>9 DEF PoolInv

\* A connection that breaks is not closed.
LEMMA BreaksKeeps ==
    ASSUME PoolInv, NEW k \in Conn, NEW how \in {"reset", "silent"}, Breaks(k, how)
    PROVE  PoolInv'
<1>1. /\ conn[k].state = "up" /\ conn' = [conn EXCEPT ![k].state = how]
      /\ UNCHANGED <<pc, call, clients, holder, memo, become, bastion, closed>>
  BY DEF Breaks
<1>2. conn \in [Conn -> Link] /\ clients \in [Host -> Conn \cup {None}] /\ call \in [Caller -> Call]
  BY DEF PoolInv, Types
<1>3. /\ conn' \in [Conn -> Link]
      /\ \A l \in Conn : conn'[l].host = conn[l].host /\ (conn'[l].state = "closed" <=> conn[l].state = "closed")
  BY <1>1, <1>2 DEF Link
<1>4. \A c \in Caller : call[c].conn # None => call[c].conn \in Conn
  BY <1>2 DEF Call
<1>5. Types' /\ Uses' /\ Dialing' /\ Killing'
  BY <1>1, <1>3, <1>4 DEF PoolInv, Types, Uses, Dialing, Killing, host
<1>6. Cached' /\ NoOrphan'
  BY <1>1, <1>2, <1>3 DEF PoolInv, Cached, NoOrphan
<1>7. Publishing'
  BY <1>1, <1>3, <1>4 DEF PoolInv, Publishing, Uses
<1> QED BY <1>5, <1>6, <1>7 DEF PoolInv

\* A connection that was given up is closed by those that gave it up.
LEMMA KillKeeps == ASSUME PoolInv, NEW c \in Caller, Kill(c) PROVE PoolInv'
<1> DEFINE k == call[c].conn
           K == {k}
<1>1. /\ pc[c] = "kill" /\ conn' = [conn EXCEPT ![k].state = "closed"]
      /\ pc' = [pc EXCEPT ![c] = "idle"] /\ call' = [call EXCEPT ![c] = NewCall(host(c))]
      /\ UNCHANGED <<clients, holder, memo, become, bastion, closed>>
  BY DEF Kill, Return, Goto
<1>2. /\ conn \in [Conn -> Link] /\ clients \in [Host -> Conn \cup {None}] /\ None \notin Conn
      /\ call \in [Caller -> Call] /\ pc \in [Caller -> Steps] /\ call[c].host \in Host
  BY RunnerAssumption DEF PoolInv, Types, Call
<1>3. k \in Conn
  BY <1>1, <1>2 DEF PoolInv, Uses, Call
<1>4. NewCall(host(c)) \in Call /\ NewCall(host(c)).conn = None /\ NewCall(host(c)).host = call[c].host
  BY <1>2, NewCallType DEF NewCall, host
<1>5. /\ call' \in [Caller -> Call] /\ pc' \in [Caller -> Steps] /\ pc'[c] = "idle"
      /\ call'[c].conn = None /\ call'[c].host = call[c].host
      /\ \A d \in Caller : d # c => pc'[d] = pc[d] /\ call'[d] = call[d]
  BY <1>1, <1>2, <1>4 DEF Steps
<1>6. conn' = [l \in Conn |-> IF l \in K THEN [conn[l] EXCEPT !.state = "closed"] ELSE conn[l]]
  BY <1>1, <1>2, <1>3
<1>7. Stays(K)
  BY <1>1, <1>5 DEF Stays
<1>8. \A h \in Host : clients[h] \notin K
  BY <1>1 DEF PoolInv, Killing
<1>9. \A d \in Caller : pc[d] = "publish" => call[d].conn \notin K
  BY <1>1 DEF PoolInv, Publishing
<1> HIDE DEF K
<1>10. /\ conn' \in [Conn -> Link]
       /\ Uses' /\ Dialing' /\ Cached' /\ Publishing' /\ Killing' /\ NoOrphan'
  BY <1>1, <1>2, <1>6, <1>7, <1>8, <1>9, ClosesKeeps
<1>11. Types'
  BY <1>1, <1>5, <1>10 DEF PoolInv, Types
<1> QED BY <1>10, <1>11 DEF PoolInv

\* A broken call closes what its host has cached.
LEMMA DropKeeps == ASSUME PoolInv, NEW c \in Caller, Drop(c) PROVE PoolInv'
<1> DEFINE k == clients[host(c)]
           K == {k} \ {None}
<1>1. /\ pc[c] = "retry" /\ clients' = [clients EXCEPT ![host(c)] = None]
      /\ become' = become \ {host(c)}
      /\ conn' = [l \in Conn |-> IF l = k THEN [conn[l] EXCEPT !.state = "closed"] ELSE conn[l]]
      /\ pc' = [pc EXCEPT ![c] = "lock"] /\ call' = [call EXCEPT ![c].try = 2]
      /\ UNCHANGED <<holder, memo, bastion, closed>>
  BY DEF Drop, Goto
<1>2. /\ conn \in [Conn -> Link] /\ clients \in [Host -> Conn \cup {None}] /\ None \notin Conn
      /\ call \in [Caller -> Call] /\ pc \in [Caller -> Steps] /\ host(c) \in Host
  BY RunnerAssumption DEF PoolInv, Types, Call, host
<1>3. /\ call' \in [Caller -> Call] /\ pc' \in [Caller -> Steps] /\ pc'[c] = "lock"
      /\ call'[c].conn = call[c].conn /\ call'[c].host = call[c].host
      /\ \A d \in Caller : d # c => pc'[d] = pc[d] /\ call'[d] = call[d]
  BY <1>1, <1>2 DEF Steps, Call
<1>4. conn' = [l \in Conn |-> IF l \in K THEN [conn[l] EXCEPT !.state = "closed"] ELSE conn[l]]
  BY <1>1, <1>2
<1>5. Stays(K)
  BY <1>1, <1>3 DEF Stays
<1>6. \A d \in Caller : pc[d] = "publish" => call[d].conn \notin K
  <2> SUFFICES ASSUME NEW d \in Caller, pc[d] = "publish", call[d].conn = k, k # None PROVE FALSE
    OBVIOUS
  <2>1. conn[k].host = host(c) /\ conn[k].host = host(d)
    BY <1>2 DEF PoolInv, Cached, Uses
  <2> QED BY <2>1 DEF PoolInv, Dialing
<1>7. /\ clients' \in [Host -> Conn \cup {None}]
      /\ \A h \in Host : clients'[h] = IF h = host(c) THEN None ELSE clients[h]
  BY <1>1, <1>2
<1>8. /\ \A h \in Host : clients'[h] = None \/ clients'[h] = clients[h]
      /\ \A h \in Host : clients[h] # None => clients[h] \in K \/ clients'[h] = clients[h]
  BY <1>7
<1>9. \A h \in Host : clients[h] \in K => clients'[h] = None
  <2> SUFFICES ASSUME NEW h \in Host, clients[h] = k, k # None PROVE h = host(c)
    BY <1>7
  <2> QED BY <1>2 DEF PoolInv, Cached
<1> HIDE DEF K
<1>10. /\ conn' \in [Conn -> Link]
       /\ Uses' /\ Dialing' /\ Cached' /\ Publishing' /\ Killing' /\ NoOrphan'
  BY <1>4, <1>5, <1>6, <1>7, <1>8, <1>9, ClosesKeeps
<1>11. Types'
  BY <1>1, <1>3, <1>7, <1>10 DEF PoolInv, Types
<1> QED BY <1>10, <1>11 DEF PoolInv

\* The cached connection is used: the one that publishes has none cached.
LEMMA LockKeeps == ASSUME PoolInv, NEW c \in Caller, Lock(c) PROVE PoolInv'
<1>1. /\ pc[c] = "lock" /\ holder[host(c)] = None
      /\ UNCHANGED <<clients, memo, become, bastion, conn, closed>>
  BY DEF Lock
<1>2. /\ conn \in [Conn -> Link] /\ clients \in [Host -> Conn \cup {None}] /\ None \notin Conn \cup Caller
      /\ holder \in [Host -> Caller \cup {None}]
      /\ call \in [Caller -> Call] /\ pc \in [Caller -> Steps] /\ host(c) \in Host
  BY RunnerAssumption DEF PoolInv, Types, Call, host
<1>3. CASE UNCHANGED holder /\ \E broken \in BOOLEAN : Fails(c, broken)
  <2>1. /\ \A d \in Caller : d # c => pc'[d] = pc[d] /\ call'[d] = call[d]
        /\ pc' \in [Caller -> Steps] /\ call' \in [Caller -> Call]
        /\ pc'[c] \in {"idle", "retry"}
        /\ call'[c].conn = None /\ call'[c].host = call[c].host
    BY <1>3, FailsIs DEF PoolInv
  <2>2. Leaves(c)
    BY <1>1, <1>3, <2>1 DEF Leaves, Alone, PoolInv, Types
  <2> QED BY <2>2, LeavesKeeps
<1>4. CASE clients[host(c)] # None /\ Use(c, clients[host(c)]) /\ Goto(c, "open") /\ UNCHANGED holder
  <2> DEFINE k == clients[host(c)]
  <2>1. k \in Conn /\ conn[k].host = host(c) /\ conn[k].state # "closed"
    BY <1>2, <1>4 DEF PoolInv, Cached
  <2>2. /\ call' = [call EXCEPT ![c].conn = k] /\ pc' = [pc EXCEPT ![c] = "open"]
    BY <1>4 DEF Use, Goto
  <2>3. /\ call' \in [Caller -> Call] /\ pc' \in [Caller -> Steps] /\ pc'[c] = "open"
        /\ call'[c].conn = k /\ call'[c].host = call[c].host
        /\ \A d \in Caller : d # c => pc'[d] = pc[d] /\ call'[d] = call[d]
    BY <1>2, <2>1, <2>2 DEF Steps, Call
  <2> HIDE DEF k
  <2>4. \A d \in Caller : pc'[d] # "open" => d # c
    BY <2>3
  <2>5. Types' /\ Uses' /\ Cached'
    BY <1>1, <1>2, <1>4, <2>1, <2>3 DEF PoolInv, Types, Uses, Cached, host
  <2>6. Dialing' /\ Killing'
    BY <1>1, <1>4, <2>3, <2>4 DEF PoolInv, Dialing, Killing, host
  <2>7. Publishing'
    <3> SUFFICES ASSUME NEW d \in Caller, pc'[d] = "publish"
                 PROVE  /\ conn[call[d].conn].state # "closed"
                        /\ \A e \in Caller : e # d => call'[e].conn # call[d].conn
      BY <1>1, <2>3, <2>4 DEF Publishing
    <3>1. d # c /\ pc[d] = "publish"
      BY <2>3, <2>4
    <3>2. call[d].conn # k
      <4>1. conn[call[d].conn].host = host(d) /\ clients[host(d)] = None
        BY <3>1 DEF PoolInv, Uses, Dialing
      <4> QED BY <1>4, <2>1, <4>1
    <3> QED BY <2>3, <3>1, <3>2 DEF PoolInv, Publishing
  <2>8. NoOrphan'
    BY <1>1, <2>3, <2>4 DEF PoolInv, NoOrphan
  <2> QED BY <2>5, <2>6, <2>7, <2>8 DEF PoolInv
<1>5. CASE /\ clients[host(c)] = None /\ Goto(c, "jump") /\ UNCHANGED call
           /\ holder' = [holder EXCEPT ![host(c)] = c]
  <2>1. /\ pc' \in [Caller -> Steps] /\ pc'[c] = "jump"
        /\ \A d \in Caller : d # c => pc'[d] = pc[d]
    BY <1>2, <1>5 DEF Steps, Goto
  <2>2. \A d \in Caller : pc'[d] # "jump" => d # c
    BY <2>1
  <2>3. holder' \in [Host -> Caller \cup {None}]
        /\ \A h \in Host : holder'[h] = IF h = host(c) THEN c ELSE holder[h]
    BY <1>2, <1>5
  <2>4. Types'
    BY <1>1, <1>5, <2>1, <2>3 DEF PoolInv, Types
  <2>5. Dialing'
    <3> SUFFICES ASSUME NEW d \in Caller, pc'[d] \in {"jump", "bdial", "dial", "publish"}
                 PROVE  holder'[host(d)] = d /\ clients[host(d)] = None
      BY <1>1, <1>5 DEF Dialing, host
    <3>1. CASE d = c
      BY <1>2, <1>5, <2>3, <3>1
    <3>2. CASE d # c
      <4>1. holder[host(d)] = d /\ clients[host(d)] = None /\ host(d) \in Host
        BY <1>2, <2>1, <3>2 DEF PoolInv, Dialing, Call, host
      <4> QED BY <1>1, <1>2, <2>3, <4>1
    <3> QED BY <3>1, <3>2
  <2>6. Uses' /\ Cached' /\ Publishing' /\ Killing'
    BY <1>1, <1>5, <2>1, <2>2 DEF PoolInv, Uses, Cached, Publishing, Killing, host
  <2>7. NoOrphan'
    BY <1>1, <1>5, <2>1 DEF PoolInv, NoOrphan
  <2> QED BY <2>4, <2>5, <2>6, <2>7 DEF PoolInv
<1> QED BY <1>3, <1>4, <1>5 DEF Lock

\* A new connection gets a name that nobody uses.
LEMMA DialedKeeps == ASSUME PoolInv, NEW c \in Caller, Dialed(c) PROVE PoolInv'
<1>1. PICK k \in Conn : k = NewConn /\ Free(k)
  <2>1. \E k \in Conn : Free(k)
    BY DEF Dialed
  <2> QED BY <2>1 DEF NewConn
<1>2. /\ pc[c] = "dial" /\ conn' = [conn EXCEPT ![k] = [host |-> host(c), state |-> "up"]]
      /\ call' = [call EXCEPT ![c].conn = k] /\ pc' = [pc EXCEPT ![c] = "publish"]
      /\ UNCHANGED <<clients, holder, memo, become, bastion, closed>>
  BY <1>1 DEF Dialed, Use, Goto
<1>3. /\ conn \in [Conn -> Link] /\ clients \in [Host -> Conn \cup {None}] /\ None \notin Conn
      /\ call \in [Caller -> Call] /\ pc \in [Caller -> Steps] /\ host(c) \in Host /\ k # None
  BY RunnerAssumption DEF PoolInv, Types, Call, host
<1>4. conn[k].state = "closed" /\ (\A d \in Caller : call[d].conn # k) /\ \A h \in Host : clients[h] # k
  BY <1>1, <1>3 DEF Free, PoolInv, Cached
<1>5. /\ call' \in [Caller -> Call] /\ pc' \in [Caller -> Steps] /\ pc'[c] = "publish"
      /\ call'[c].conn = k /\ call'[c].host = call[c].host
      /\ \A d \in Caller : d # c => pc'[d] = pc[d] /\ call'[d] = call[d]
  BY <1>2, <1>3 DEF Steps, Call
<1>6. /\ conn' \in [Conn -> Link] /\ conn'[k].host = host(c) /\ conn'[k].state # "closed"
      /\ \A l \in Conn : l # k => conn'[l] = conn[l]
  BY <1>2, <1>3 DEF Link
<1>7. \A d \in Caller : call[d].conn # None => call[d].conn \in Conn
  BY <1>3 DEF Call
<1>8. Types'
  BY <1>2, <1>5, <1>6 DEF PoolInv, Types
<1>9. Uses'
  <2> SUFFICES ASSUME NEW d \in Caller
               PROVE  /\ pc'[d] \in {"publish", "open", "detect", "run", "kill"} => call'[d].conn # None
                      /\ call'[d].conn # None => conn'[call'[d].conn].host = call'[d].host
    BY DEF Uses, host
  <2>1. CASE d = c
    BY <1>3, <1>5, <1>6, <2>1 DEF host
  <2>2. CASE d # c
    BY <1>4, <1>5, <1>6, <1>7, <2>2 DEF PoolInv, Uses, host
  <2> QED BY <2>1, <2>2
<1>10. Dialing'
  <2> SUFFICES ASSUME NEW d \in Caller, pc'[d] \in {"jump", "bdial", "dial", "publish"}
               PROVE  holder[call'[d].host] = d /\ clients[call'[d].host] = None
    BY <1>2 DEF Dialing, host
  <2>1. pc[d] \in {"jump", "bdial", "dial", "publish"} /\ call'[d].host = call[d].host
    BY <1>2, <1>5
  <2> QED BY <2>1 DEF PoolInv, Dialing, host
<1>11. Cached'
  BY <1>2, <1>3, <1>4, <1>6 DEF PoolInv, Cached
<1>12. Publishing'
  <2> SUFFICES ASSUME NEW d \in Caller, pc'[d] = "publish"
               PROVE  /\ conn'[call'[d].conn].state # "closed"
                      /\ \A e \in Caller : e # d => call'[e].conn # call'[d].conn
    BY DEF Publishing
  <2>1. CASE d = c
    BY <1>4, <1>5, <1>6, <2>1
  <2>2. CASE d # c
    <3>1. pc[d] = "publish" /\ call'[d] = call[d] /\ call[d].conn \in Conn /\ call[d].conn # k
      BY <1>4, <1>5, <1>7, <2>2 DEF PoolInv, Uses
    <3> QED BY <1>5, <1>6, <3>1 DEF PoolInv, Publishing
  <2> QED BY <2>1, <2>2
<1>13. Killing'
  BY <1>2, <1>4, <1>5 DEF PoolInv, Killing
<1>14. NoOrphan'
  <2> SUFFICES ASSUME NEW l \in Conn, conn'[l].state # "closed"
               PROVE  \/ clients[conn'[l].host] = l
                      \/ \E d \in Caller : call'[d].conn = l /\ pc'[d] \in {"publish", "kill"}
    BY <1>2 DEF NoOrphan
  <2>1. CASE l = k
    BY <1>5, <2>1
  <2>2. CASE l # k
    <3>1. conn'[l] = conn[l]
      BY <1>6, <2>2
    <3>2. \/ clients[conn[l].host] = l
          \/ \E d \in Caller : call[d].conn = l /\ pc[d] \in {"publish", "kill"}
      BY <3>1 DEF PoolInv, NoOrphan
    <3> QED BY <1>2, <1>5, <3>1, <3>2
  <2> QED BY <2>1, <2>2
<1> QED BY <1>8, <1>9, <1>10, <1>11, <1>12, <1>13, <1>14 DEF PoolInv

\* The new connection is cached, where none is.
LEMMA PublishKeeps == ASSUME PoolInv, NEW c \in Caller, Publish(c) PROVE PoolInv'
<1> DEFINE k == call[c].conn
           h == call[c].host
<1>1. /\ pc[c] = "publish" /\ clients' = [clients EXCEPT ![h] = k] /\ holder' = [holder EXCEPT ![h] = None]
      /\ pc' = [pc EXCEPT ![c] = "open"]
      /\ UNCHANGED <<call, memo, become, bastion, conn, closed>>
  BY DEF Publish, Goto, host
<1>2. /\ conn \in [Conn -> Link] /\ clients \in [Host -> Conn \cup {None}] /\ None \notin Conn
      /\ holder \in [Host -> Caller \cup {None}]
      /\ call \in [Caller -> Call] /\ pc \in [Caller -> Steps] /\ h \in Host
  BY RunnerAssumption DEF PoolInv, Types, Call
<1>3. /\ k \in Conn /\ conn[k].host = h /\ conn[k].state # "closed"
      /\ \A d \in Caller : d # c => call[d].conn # k
      /\ clients[h] = None /\ holder[h] = c
  BY <1>1, <1>2 DEF PoolInv, Uses, Publishing, Dialing, Call, host
<1> HIDE DEF k, h
<1>4. /\ clients' \in [Host -> Conn \cup {None}] /\ holder' \in [Host -> Caller \cup {None}]
      /\ \A g \in Host : clients'[g] = IF g = h THEN k ELSE clients[g]
      /\ \A g \in Host : holder'[g] = IF g = h THEN None ELSE holder[g]
      /\ pc' \in [Caller -> Steps] /\ pc'[c] = "open" /\ \A d \in Caller : d # c => pc'[d] = pc[d]
  BY <1>1, <1>2, <1>3 DEF Steps
<1>5. \A d \in Caller : pc'[d] # "open" => d # c
  BY <1>4
<1>6. Types'
  BY <1>1, <1>4 DEF PoolInv, Types
<1>7. Uses'
  BY <1>1, <1>4 DEF PoolInv, Uses, host
<1>8. Dialing'
  <2> SUFFICES ASSUME NEW d \in Caller, pc'[d] \in {"jump", "bdial", "dial", "publish"}
               PROVE  holder'[call[d].host] = d /\ clients'[call[d].host] = None
    BY <1>1 DEF Dialing, host
  <2>1. d # c /\ holder[call[d].host] = d /\ clients[call[d].host] = None /\ call[d].host \in Host
    BY <1>2, <1>4, <1>5 DEF PoolInv, Dialing, Call, host
  <2> QED BY <1>3, <1>4, <2>1
<1>9. Cached'
  BY <1>1, <1>2, <1>3, <1>4 DEF PoolInv, Cached
<1>10. Publishing'
  BY <1>1, <1>4, <1>5 DEF PoolInv, Publishing
<1>11. Killing'
  BY <1>1, <1>3, <1>4, <1>5 DEF PoolInv, Killing
<1>12. NoOrphan'
  <2> SUFFICES ASSUME NEW l \in Conn, conn[l].state # "closed"
               PROVE  \/ clients'[conn[l].host] = l
                      \/ \E d \in Caller : call[d].conn = l /\ pc'[d] \in {"publish", "kill"}
    BY <1>1 DEF NoOrphan
  <2>1. conn[l].host \in Host
    BY <1>2 DEF Link
  <2>2. CASE l = k
    BY <1>3, <1>4, <2>1, <2>2
  <2>3. CASE l # k /\ clients[conn[l].host] = l
    BY <1>2, <1>3, <1>4, <2>1, <2>3
  <2>4. CASE l # k /\ \E d \in Caller : call[d].conn = l /\ pc[d] \in {"publish", "kill"}
    BY <1>4, <2>4 DEF k
  <2> QED BY <2>2, <2>3, <2>4 DEF PoolInv, NoOrphan
<1> QED BY <1>6, <1>7, <1>8, <1>9, <1>10, <1>11, <1>12 DEF PoolInv

\* A connection is given up: it is no longer cached, and will be closed.
LEMMA DropDeadKeeps == ASSUME PoolInv, NEW c \in Caller, DropDead(c) PROVE PoolInv'
<1> DEFINE k == call[c].conn
           h == call[c].host
<1>1. /\ pc[c] \in {"open", "detect", "run"} /\ pc' = [pc EXCEPT ![c] = "kill"]
      /\ clients' = IF clients[h] = k THEN [clients EXCEPT ![h] = None] ELSE clients
      /\ become' \subseteq become
      /\ UNCHANGED <<call, holder, memo, bastion, conn, closed>>
  BY DEF DropDead, Goto, host
<1>2. /\ conn \in [Conn -> Link] /\ clients \in [Host -> Conn \cup {None}] /\ None \notin Conn
      /\ call \in [Caller -> Call] /\ pc \in [Caller -> Steps] /\ h \in Host
  BY RunnerAssumption DEF PoolInv, Types, Call
<1>3. k \in Conn /\ conn[k].host = h
  BY <1>1, <1>2 DEF PoolInv, Uses, Call, host
<1> HIDE DEF k, h
<1>4. /\ clients' \in [Host -> Conn \cup {None}]
      /\ \A g \in Host : clients'[g] = IF g = h /\ clients[h] = k THEN None ELSE clients[g]
      /\ pc' \in [Caller -> Steps] /\ pc'[c] = "kill" /\ \A d \in Caller : d # c => pc'[d] = pc[d]
  BY <1>1, <1>2 DEF Steps
<1>5. \A d \in Caller : pc'[d] # "kill" => d # c
  BY <1>4
<1>6. Types' /\ Uses'
  <2>1. Types'
    BY <1>1, <1>4 DEF PoolInv, Types
  <2>2. Uses'
    BY <1>1, <1>4 DEF PoolInv, Uses, host
  <2> QED BY <2>1, <2>2
<1>7. Dialing' /\ Cached'
  <2>1. \A d \in Caller : call[d].host \in Host
    BY <1>2 DEF Call
  <2> QED BY <1>1, <1>4, <1>5, <2>1 DEF PoolInv, Dialing, Cached, host
<1>8. Publishing'
  BY <1>1, <1>4, <1>5 DEF PoolInv, Publishing
<1>9. Killing'
  <2> SUFFICES ASSUME NEW d \in Caller, pc'[d] = "kill", NEW g \in Host, clients'[g] = call[d].conn PROVE FALSE
    BY <1>1 DEF Killing
  <2>0. call[d].conn # None
    BY <1>1, <1>4 DEF PoolInv, Uses
  <2>1. clients[g] = call[d].conn /\ ~(g = h /\ clients[h] = k)
    BY <1>4, <2>0
  <2>2. CASE d = c
    <3>1. conn[k].host = g
      BY <2>0, <2>1, <2>2 DEF PoolInv, Cached, k
    <3> QED BY <1>3, <2>1, <2>2, <3>1 DEF k
  <2>3. CASE d # c
    BY <1>4, <2>1, <2>3 DEF PoolInv, Killing
  <2> QED BY <2>2, <2>3
<1>10. NoOrphan'
  <2> SUFFICES ASSUME NEW l \in Conn, conn[l].state # "closed"
               PROVE  \/ clients'[conn[l].host] = l
                      \/ \E d \in Caller : call[d].conn = l /\ pc'[d] \in {"publish", "kill"}
    BY <1>1 DEF NoOrphan
  <2>1. conn[l].host \in Host
    BY <1>2 DEF Link
  <2>2. CASE l = k
    BY <1>4, <2>2 DEF k
  <2>3. CASE l # k /\ clients[conn[l].host] = l
    BY <1>4, <2>1, <2>3
  <2>4. CASE l # k /\ \E d \in Caller : call[d].conn = l /\ pc[d] \in {"publish", "kill"}
    BY <1>4, <2>4 DEF k
  <2> QED BY <2>2, <2>3, <2>4 DEF PoolInv, NoOrphan
<1> QED BY <1>6, <1>7, <1>8, <1>9, <1>10 DEF PoolInv

\* Every step keeps the invariant.
LEMMA StepKeeps == ASSUME PoolInv, [Next]_vars PROVE PoolInv'
<1>1. ASSUME NEW c \in Caller,
             \/ \E h \in Host : Begin(c, h)
             \/ Deadline(c) \/ Writes(c) \/ Lock(c) \/ Step(c)
      PROVE  PoolInv'
  BY <1>1, BeginKeeps, CallerSteps, LockKeeps, DropKeeps, DialedKeeps, PublishKeeps, DropDeadKeeps,
     KillKeeps DEF Step
<1>2. ASSUME UNCHANGED <<pc, call, clients, holder, conn, closed>>,
             memo' \subseteq Host, become' \subseteq Host, bastion' \in {"none", "up", "dead"}
      PROVE  PoolInv'
  BY <1>2 DEF PoolInv, Types, Uses, Dialing, Cached, Publishing, Killing, NoOrphan, host
<1>3. ASSUME NEW h \in Host, Forgive(h) PROVE PoolInv'
  BY <1>2, <1>3 DEF Forgive, PoolInv, Types
<1>4. ASSUME NEW k \in Conn, NEW how \in {"reset", "silent"}, Breaks(k, how) PROVE PoolInv'
  BY <1>4, BreaksKeeps
<1>5. CASE BastionBreaks
  BY <1>2, <1>5 DEF BastionBreaks, PoolInv, Types
<1>6. CASE Close
  BY <1>6, CloseKeeps
<1>7. CASE Finished \/ UNCHANGED vars
  BY <1>2, <1>7 DEF Finished, vars, PoolInv, Types
<1> QED BY <1>1, <1>3, <1>4, <1>5, <1>6, <1>7 DEF Next

\* A host has a cached connection, or one that is about to be cached, or one
\* that is being dialed.
LEMMA OneAtMost == ASSUME PoolInv PROVE OneConnection
<1> USE DEF PoolInv
<1> SUFFICES ASSUME NEW h \in Host
             PROVE  LET givenUp == {call[c].conn : c \in {d \in Caller : pc[d] = "kill"}}
                        open == {k \in Conn \ givenUp : conn[k].host = h /\ conn[k].state # "closed"}
                        dialing == {c \in Caller : host(c) = h /\ pc[c] \in {"jump", "bdial", "dial"}}
                    IN Cardinality(open) + Cardinality(dialing) <= 1
  BY DEF OneConnection
<1> DEFINE givenUp == {call[c].conn : c \in {d \in Caller : pc[d] = "kill"}}
           open == {k \in Conn \ givenUp : conn[k].host = h /\ conn[k].state # "closed"}
           dialing == {c \in Caller : host(c) = h /\ pc[c] \in {"jump", "bdial", "dial"}}
<1>1. \A k \in open : \/ clients[h] = k
                      \/ \E c \in Caller : call[c].conn = k /\ pc[c] = "publish" /\ host(c) = h
  <2> SUFFICES ASSUME NEW k \in open, clients[h] # k
               PROVE  \E c \in Caller : call[c].conn = k /\ pc[c] = "publish" /\ host(c) = h
    OBVIOUS
  <2>1. PICK c \in Caller : call[c].conn = k /\ pc[c] \in {"publish", "kill"}
    BY DEF NoOrphan
  <2>2. pc[c] = "publish" /\ call[c].conn # None
    BY <2>1 DEF Uses
  <2> QED BY <2>1, <2>2 DEF Uses
<1>2. \A c \in Caller : pc[c] \in {"jump", "bdial", "dial", "publish"} /\ host(c) = h =>
         holder[h] = c /\ clients[h] = None
  BY DEF Dialing
<1>3. None \notin open
  BY RunnerAssumption
<1> HIDE DEF open
<1>4. CASE dialing = {}
  <2>1. Cardinality(dialing) = 0
    BY <1>4, FS_EmptySet
  <2>2. \E x : open \subseteq {x}
    <3>1. CASE clients[h] # None
      BY <1>1, <1>2, <3>1
    <3>2. CASE clients[h] = None
      <4>1. \A k \in open : \E c \in Caller : call[c].conn = k /\ holder[h] = c
        BY <1>1, <1>2, <1>3, <3>2
      <4>2. open \subseteq {call[holder[h]].conn}
        BY <4>1
      <4> QED BY <4>2
    <3> QED BY <3>1, <3>2
  <2>3. Cardinality(open) \in Nat /\ Cardinality(open) <= 1
    <3>1. PICK x : open \subseteq {x}
      BY <2>2
    <3>2. IsFiniteSet({x}) /\ Cardinality({x}) = 1
      BY FS_Singleton
    <3> QED BY <3>1, <3>2, FS_Subset, FS_CardinalityType
  <2> QED BY <2>1, <2>3 DEF open
<1>5. CASE dialing # {}
  <2>1. PICK c \in dialing : TRUE
    BY <1>5
  <2>2. holder[h] = c /\ clients[h] = None /\ c \in Caller /\ pc[c] # "publish"
    BY <1>2, <2>1
  <2>3. dialing = {c}
    BY <1>2, <2>1, <2>2
  <2>4. open = {}
    BY <1>1, <1>2, <1>3, <2>2
  <2>5. Cardinality(open) = 0 /\ Cardinality(dialing) = 1
    BY <2>3, <2>4, FS_EmptySet, FS_Singleton
  <2> QED BY <2>5 DEF open
<1> QED BY <1>4, <1>5

\* The inductive invariant: who holds a host's lock, which connections are
\* cached, and who is to cache or close the others.
THEOREM PoolCorrect == Spec => []PoolInv
<1>1. Init => PoolInv
  BY PoolInit
<1>2. PoolInv /\ [Next]_vars => PoolInv'
  BY StepKeeps
<1> QED BY <1>1, <1>2, PTL DEF Spec

\* The types of the runner's maps and calls.
THEOREM RunnerTyped == Spec => []TypeOK
<1>1. PoolInv => TypeOK
  BY DEF PoolInv, Types, Uses, TypeOK
<1> QED BY <1>1, PoolCorrect, PTL

\* client, drop, dropDead and Close together: a host never has two connections,
\* and none that is open is forgotten.
THEOREM PoolStaysTidy == Spec => []PoolIsTidy
<1>1. PoolInv => PoolIsTidy
  BY OneAtMost DEF PoolInv, PoolIsTidy
<1> QED BY <1>1, PoolCorrect, PTL
=============================================================================
