----------------------------- MODULE SSHRunner -----------------------------
(***************************************************************************)
(* The SSH runner (internal/sshrun/runner.go, become.go): one connection   *)
(* per host, shared by every script that runs there.                       *)
(*                                                                         *)
(* A call (Run, Stream) takes one of the slots, gets the host's connection *)
(* (dialing it under the host's lock when there is none), opens a session, *)
(* finds out once how to become root, and runs its script.  A call whose   *)
(* connection turns out broken drops it and tries once more; one whose     *)
(* deadline passes on a silent connection closes it.  Connections break    *)
(* (reset) or stop answering (silent) at any moment, and the owner may     *)
(* close the runner while calls are under way.                             *)
(*                                                                         *)
(* r.mu guards the maps: a section under it is one step, except that       *)
(* bastionClient dials with r.mu held and stops everyone who needs it.     *)
(***************************************************************************)
EXTENDS Naturals, FiniteSets, FiniteSetsExt

CONSTANTS
    Host,    \* addresses
    Caller,  \* goroutines that run scripts
    Streams, \* the ones that copy the output as it arrives (Stream)
    Conn,    \* names for connections; one that is closed and not held is free
    None,    \* no connection, nobody
    Slots,   \* cfg.Concurrency
    Bastion  \* cfg.Bastion is set

ASSUME RunnerAssumption ==
    /\ Streams \subseteq Caller
    /\ None \notin Conn \cup Caller \cup Host
    /\ Slots \in Nat \ {0}
    /\ Bastion \in BOOLEAN

VARIABLES
    pc,      \* where a caller is
    call,    \* its call
    clients, \* Runner.clients
    holder,  \* who holds the host's lock in Runner.dialing
    memo,    \* the hosts whose Runner.dialFail is younger than dialFailMemo
    become,  \* the hosts in Runner.become
    bastion, \* Runner.bastion
    conn,    \* the connections
    closed   \* Close was called

vars == <<pc, call, clients, holder, memo, become, bastion, conn, closed>>

\* out: the tries whose output reached the caller's writer.
Call == [host : Host, try : 1..2, conn : Conn \cup {None},
         expired : BOOLEAN, out : SUBSET {1, 2}]
Link == [host : Host, state : {"closed", "up", "reset", "silent"}]
Steps == {"idle", "slot", "lock", "jump", "bdial", "dial", "publish", "open", "detect",
          "run", "kill", "retry"}

TypeOK ==
    /\ pc \in [Caller -> Steps]
    /\ call \in [Caller -> Call]
    /\ clients \in [Host -> Conn \cup {None}]
    /\ holder \in [Host -> Caller \cup {None}]
    /\ memo \subseteq Host /\ become \subseteq Host
    /\ bastion \in {"none", "up", "dead"}
    /\ conn \in [Conn -> Link]
    /\ closed \in BOOLEAN
    /\ \A c \in Caller : pc[c] \in {"open", "detect", "run", "kill", "publish"} => call[c].conn # None

-----------------------------------------------------------------------------
host(c) == call[c].host
Link_(c) == conn[call[c].conn]

\* r.mu can be taken: nobody dials the bastion under it.
MuFree == \A c \in Caller : pc[c] # "bdial"

SlotsTaken == Cardinality({c \in Caller : pc[c] \notin {"idle", "slot"}})

Goto(c, step) == pc' = [pc EXCEPT ![c] = step]

NewCall(h) == [host |-> h, try |-> 1, conn |-> None, expired |-> FALSE, out |-> {}]

\* The call returns; the slot is given back (defer).
Return(c) ==
    /\ Goto(c, "idle")
    /\ call' = [call EXCEPT ![c] = NewCall(host(c))]

\* The connection a dial makes: a name nobody uses.
Free(k) == conn[k].state = "closed" /\ \A c \in Caller : call[c].conn # k
NewConn == CHOOSE k \in Conn : Free(k)

Init ==
    /\ pc = [c \in Caller |-> "idle"]
    /\ call \in [Caller -> {NewCall(h) : h \in Host}]
    /\ \A c, d \in Caller : host(c) = host(d)
    /\ clients = [h \in Host |-> None]
    /\ holder = [h \in Host |-> None]
    /\ memo = {} /\ become = {}
    /\ bastion = "none"
    /\ conn \in [Conn -> {[host |-> h, state |-> "closed"] : h \in Host}]
    /\ \A k, l \in Conn : conn[k].host = conn[l].host
    /\ closed = FALSE

-----------------------------------------------------------------------------
(* Run and Stream *)

Begin(c, h) ==
    /\ pc[c] = "idle" /\ ~closed
    /\ Goto(c, "slot")
    /\ call' = [call EXCEPT ![c] = NewCall(h)]
    /\ UNCHANGED <<clients, holder, memo, become, bastion, conn, closed>>

\* The context's deadline passes.
Deadline(c) ==
    /\ pc[c] # "idle" /\ ~call[c].expired
    /\ call' = [call EXCEPT ![c].expired = TRUE]
    /\ UNCHANGED <<pc, clients, holder, memo, become, bastion, conn, closed>>

TakeSlot(c) ==
    /\ pc[c] = "slot"
    /\ SlotsTaken < Slots
    /\ Goto(c, "lock")
    /\ UNCHANGED <<call, clients, holder, memo, become, bastion, conn, closed>>

\* The deadline passes before a slot is free.
NoSlot(c) ==
    /\ pc[c] = "slot" /\ call[c].expired
    /\ Return(c)
    /\ UNCHANGED <<clients, holder, memo, become, bastion, conn, closed>>

\* isConnErr: tried again once; a stream only if nothing was written.
Retries(c) == call[c].try = 1 /\ (c \in Streams => call[c].out = {})

\* runOnce ended with an error.  A Run forgets what the first try wrote.
Fails(c, broken) ==
    IF broken /\ Retries(c)
    THEN /\ Goto(c, "retry")
         /\ call' = [call EXCEPT ![c].conn = None,
                                 ![c].out = IF c \in Streams THEN @ ELSE {}]
    ELSE Return(c)

\* drop: whatever connection the host has is closed.
Drop(c) ==
    /\ pc[c] = "retry" /\ MuFree
    /\ clients' = [clients EXCEPT ![host(c)] = None]
    /\ become' = become \ {host(c)}
    /\ conn' = [k \in Conn |-> IF k = clients[host(c)] THEN [conn[k] EXCEPT !.state = "closed"]
                                                       ELSE conn[k]]
    /\ Goto(c, "lock")
    /\ call' = [call EXCEPT ![c].try = 2]
    /\ UNCHANGED <<holder, memo, bastion, closed>>

-----------------------------------------------------------------------------
(* client *)

Use(c, k) == call' = [call EXCEPT ![c].conn = k]

\* Mutant of Lock: the cache is not looked at again under the host's lock.
LockAndDial(c) ==
    /\ pc[c] = "lock" /\ MuFree
    /\ holder[host(c)] = None
    /\ Goto(c, "jump")
    /\ holder' = [holder EXCEPT ![host(c)] = c]
    /\ UNCHANGED <<call, clients, memo, become, bastion, conn, closed>>

\* The host's lock is taken: the cached connection, the error of a dial that
\* failed just now, or a dial of its own.
Lock(c) ==
    /\ pc[c] = "lock" /\ MuFree
    /\ holder[host(c)] = None
    /\ \/ /\ clients[host(c)] # None
          /\ Use(c, clients[host(c)])
          /\ Goto(c, "open")
          /\ UNCHANGED holder
       \/ /\ clients[host(c)] = None /\ host(c) \in memo
          /\ \E broken \in BOOLEAN : Fails(c, broken)
          /\ UNCHANGED holder
       \/ /\ clients[host(c)] = None /\ host(c) \notin memo
          /\ Goto(c, "jump")
          /\ holder' = [holder EXCEPT ![host(c)] = c]
          /\ UNCHANGED call
    /\ UNCHANGED <<clients, memo, become, bastion, conn, closed>>

\* dial through the bastion: its connection is there, or is dialed under r.mu.
Jump(c) ==
    /\ pc[c] = "jump" /\ MuFree
    /\ Goto(c, IF Bastion /\ bastion = "none" THEN "bdial" ELSE "dial")
    /\ UNCHANGED <<call, clients, holder, memo, become, bastion, conn, closed>>

DialBastion(c) ==
    /\ pc[c] = "bdial"
    /\ bastion' = "up"
    /\ Goto(c, "dial")
    /\ UNCHANGED <<call, clients, holder, memo, become, conn, closed>>

\* The handshake is through.
Dialed(c) ==
    /\ pc[c] = "dial"
    /\ Bastion => bastion = "up"
    /\ \E k \in Conn : Free(k)
    /\ conn' = [conn EXCEPT ![NewConn] = [host |-> host(c), state |-> "up"]]
    /\ Use(c, NewConn)
    /\ Goto(c, "publish")
    /\ UNCHANGED <<clients, holder, memo, become, bastion, closed>>

Publish(c) ==
    /\ pc[c] = "publish" /\ MuFree
    /\ clients' = [clients EXCEPT ![host(c)] = call[c].conn]
    /\ holder' = [holder EXCEPT ![host(c)] = None]
    /\ Goto(c, "open")
    /\ UNCHANGED <<call, memo, become, bastion, conn, closed>>

\* Mutant of DialFails: the host's lock is kept.
DialFailsLocked(c) ==
    /\ pc[c] \in {"dial", "bdial"}
    /\ pc[c] = "dial" => MuFree
    /\ memo' = memo \cup {host(c)}
    /\ \E broken \in BOOLEAN : Fails(c, broken)
    /\ UNCHANGED <<clients, holder, become, bastion, conn, closed>>

\* The host or the bastion cannot be reached or refuses: remembered.
DialFails(c) ==
    /\ pc[c] \in {"dial", "bdial"}
    /\ pc[c] = "dial" => MuFree
    /\ memo' = memo \cup {host(c)}
    /\ holder' = [holder EXCEPT ![host(c)] = None]
    /\ \E broken \in BOOLEAN : Fails(c, broken)
    /\ UNCHANGED <<clients, become, bastion, conn, closed>>

-----------------------------------------------------------------------------
(* runOnce, with newSession, wait and detectBecome *)

\* newSession or wait gave up on a connection that did not answer by the
\* deadline.  A deadline that has passed when the session is asked for looks
\* the same.
Gone(c) == call[c].expired /\ (Link_(c).state = "silent" \/ pc[c] \in {"open", "detect"})

\* dropDead: forgotten under r.mu, then closed.
DropDead(c) ==
    /\ pc[c] \in {"open", "detect", "run"} /\ Gone(c) /\ MuFree
    /\ IF clients[host(c)] = call[c].conn
         THEN /\ clients' = [clients EXCEPT ![host(c)] = None]
              /\ become' = become \ {host(c)}
         ELSE UNCHANGED <<clients, become>>
    /\ Goto(c, "kill")
    /\ UNCHANGED <<call, holder, memo, bastion, conn, closed>>

Kill(c) ==
    /\ pc[c] = "kill"
    /\ conn' = [conn EXCEPT ![call[c].conn].state = "closed"]
    /\ Return(c)
    /\ UNCHANGED <<clients, holder, memo, become, bastion, closed>>

\* The session is open; how to become root is known, or found out first.
Open(c) ==
    /\ pc[c] = "open" /\ Link_(c).state = "up" /\ MuFree
    /\ Goto(c, IF host(c) \in become THEN "run" ELSE "detect")
    /\ UNCHANGED <<call, clients, holder, memo, become, bastion, conn, closed>>

Detect(c) ==
    /\ pc[c] = "detect" /\ Link_(c).state = "up" /\ MuFree
    /\ become' = become \cup {host(c)}
    /\ Goto(c, "run")
    /\ UNCHANGED <<call, clients, holder, memo, bastion, conn, closed>>

\* The script's output reaches the caller's writer.
Writes(c) ==
    /\ pc[c] = "run" /\ Link_(c).state = "up"
    /\ call' = [call EXCEPT ![c].out = @ \cup {call[c].try}]
    /\ UNCHANGED <<pc, clients, holder, memo, become, bastion, conn, closed>>

\* The connection was reset, or closed under the session; the error says so
\* or (a command without an exit status) does not.
Broken(c) ==
    /\ pc[c] \in {"open", "detect", "run"} /\ Link_(c).state \in {"reset", "closed"}
    /\ \E says \in (IF pc[c] = "open" THEN {TRUE} ELSE BOOLEAN) : Fails(c, says)
    /\ UNCHANGED <<clients, holder, memo, become, bastion, conn, closed>>

\* The script ends, well or not, or is killed at the deadline; nobody to
\* become root with ends the call; a refused password is probed again.
Ends(c, refused) ==
    /\ pc[c] \in {"detect", "run"} /\ Link_(c).state = "up" /\ MuFree
    /\ become' = IF refused THEN become \ {host(c)} ELSE become
    /\ Return(c)
    /\ UNCHANGED <<clients, holder, memo, bastion, conn, closed>>

-----------------------------------------------------------------------------
(* The rest of the world *)

\* dialFailMemo is over.
Forgive(h) ==
    /\ h \in memo
    /\ memo' = memo \ {h}
    /\ UNCHANGED <<pc, call, clients, holder, become, bastion, conn, closed>>

Breaks(k, how) ==
    /\ conn[k].state = "up"
    /\ conn' = [conn EXCEPT ![k].state = how]
    /\ UNCHANGED <<pc, call, clients, holder, memo, become, bastion, closed>>

BastionBreaks ==
    /\ bastion = "up"
    /\ bastion' = "dead"
    /\ UNCHANGED <<pc, call, clients, holder, memo, become, conn, closed>>

\* Close: a context switch or new SSH settings replace the runner.
Close ==
    /\ ~closed /\ MuFree
    /\ closed' = TRUE
    /\ clients' = [h \in Host |-> None]
    /\ conn' = [k \in Conn |-> IF k \in {clients[h] : h \in Host}
                               THEN [conn[k] EXCEPT !.state = "closed"] ELSE conn[k]]
    /\ bastion' = "none"
    /\ UNCHANGED <<pc, call, holder, memo, become>>

Finished == closed /\ (\A c \in Caller : pc[c] = "idle") /\ UNCHANGED vars

Step(c) ==
    \/ TakeSlot(c) \/ NoSlot(c) \/ Drop(c)
    \/ Jump(c) \/ DialBastion(c) \/ Dialed(c) \/ Publish(c) \/ DialFails(c)
    \/ DropDead(c) \/ Kill(c) \/ Open(c) \/ Detect(c) \/ Broken(c)
    \/ \E refused \in BOOLEAN : Ends(c, refused)

Next ==
    \/ \E c \in Caller :
          \/ \E h \in Host : Begin(c, h)
          \/ Deadline(c) \/ Writes(c) \/ Lock(c) \/ Step(c)
    \/ \E h \in Host : Forgive(h)
    \/ \E k \in Conn, how \in {"reset", "silent"} : Breaks(k, how)
    \/ BastionBreaks
    \/ Close
    \/ Finished

Spec == Init /\ [][Next]_vars

\* The dial of a host through the bastion has no timeout (Client.Dial takes none,
\* and the channel it returns refuses a deadline).
MayHang(c) == Bastion /\ pc[c] = "dial"

\* Deadlines pass, dials of a TCP address (the host's, or the bastion's) end
\* within ssh.timeout and a goroutine that can go on does.  The steps that take
\* r.mu, a host's lock or a slot are only enabled now and then; a Go mutex and a
\* channel serve the one that waits longest, hence strong fairness.  Nothing makes
\* a silent connection answer or end (the kernel gives up after minutes), so
\* nothing is assumed of it, nor of a dial through a bastion.
Fairness ==
    \A c \in Caller :
        WF_vars(Deadline(c)) /\ SF_vars(Lock(c)) /\ SF_vars(~MayHang(c) /\ Step(c))

FairSpec == Spec /\ Fairness

-----------------------------------------------------------------------------
\* No connection is lost: one that is open is the host's cached one, or the
\* caller that dialed or gave up on it is about to cache or close it.
NoOrphan == \A k \in Conn :
    \/ conn[k].state = "closed"
    \/ clients[conn[k].host] = k
    \/ \E c \in Caller : call[c].conn = k /\ pc[c] \in {"publish", "kill"}

\* A host has one connection, counting the one being dialed: however many
\* scripts start together, it sees one TCP connection (one being given up on
\* aside).
OneConnection == \A h \in Host :
    LET givenUp == {call[c].conn : c \in {d \in Caller : pc[d] = "kill"}}
        open == {k \in Conn \ givenUp : conn[k].host = h /\ conn[k].state # "closed"}
        dialing == {c \in Caller : host(c) = h /\ pc[c] \in {"jump", "bdial", "dial"}}
    IN Cardinality(open) + Cardinality(dialing) <= 1

\* Whatever calls, breaks and deadlines meet, a host's connections are one and known
\* (client, drop, dropDead).
PoolIsTidy == NoOrphan /\ OneConnection

\* A writer never receives the output of two tries.
OneOutput == \A c \in Caller : Cardinality(call[c].out) <= 1

\* Every call returns after its deadline, whatever the hosts do, as long as no
\* dial through the bastion hangs.  (One that does keeps its host's lock and its
\* slot for ever, and those who wait for them do not look at their contexts.)
CallsEnd ==
    (\A d \in Caller : []<>~MayHang(d)) => \A c \in Caller : pc[c] # "idle" ~> pc[c] = "idle"

\* Only a connection that is dead is closed, unless the owner closes the
\* runner: no call ends the scripts others run on a connection that works.
OnlyDeadIsClosed ==
    [][\A k \in Conn : conn[k].state = "up" /\ conn'[k].state = "closed" => closed']_vars
=============================================================================
