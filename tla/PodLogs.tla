------------------------------- MODULE PodLogs -------------------------------
(***************************************************************************)
(* The pod log viewer (internal/ui/podlogs.go): one log stream at a time,  *)
(* read chunk by chunk.                                                    *)
(*                                                                         *)
(* startLogStream cancels the stream before it and starts a goroutine that *)
(* reads the apiserver and writes chunks to a channel; waitLogs takes one  *)
(* chunk from the channel of the stream it was made for and delivers it    *)
(* with the seq it was made for, which a new viewer counts from zero.      *)
(* Lines are reduced to the stream they come from.  Search, wrapping,      *)
(* scrolling and the render cache are left out.                            *)
(***************************************************************************)
EXTENDS Naturals, Sequences, FiniteSets, Bags

CONSTANTS
    MaxViews,   \* bound on the viewers opened
    MaxStreams, \* bound on the streams of one viewer
    MaxStarted, \* bound on the streams of all viewers
    Cap,        \* capacity of a chunk channel (64)
    None        \* no viewer

LogsAssumption == /\ MaxViews \in Nat /\ MaxStreams \in Nat /\ MaxStarted \in Nat
                  /\ Cap \in Nat \ {0} /\ None \notin Nat

VARIABLES
    logs,    \* App.logs
    opened,  \* viewers opened so far
    visible, \* the viewer is on the screen: App.overlay is ovPodLogs
    reader,  \* the goroutines that read the apiserver, by stream
    chan,    \* chunks in the channel of each stream
    waiters, \* waitLogs commands: the stream whose channel they read, and a seq
    msgs     \* logMsgs on their way to the loop

vars == <<logs, opened, visible, reader, chan, waiters, msgs>>

\* A stream of the apiserver: the viewer that opened it and the seq it had.
Stream == [view : 1..MaxViews, seq : 1..MaxStreams]
Chunk == {"lines", "done"}
LogMsg == [seq : 1..MaxStreams, from : Stream, chunk : Chunk]

\* lines: the streams the lines in the buffer come from.
Viewer == [id : 1..MaxViews, seq : 1..MaxStreams, lines : SUBSET Stream, streaming : BOOLEAN]

TypeOK ==
    /\ logs \in Viewer \cup {None}
    /\ opened \in 0..MaxViews
    /\ visible \in BOOLEAN
    /\ reader \in [Stream -> {"none", "open", "cancelled", "ended"}]
    /\ \A s \in Stream : chan[s] \in Seq(Chunk) /\ Len(chan[s]) <= Cap
    /\ IsABag(waiters) /\ BagToSet(waiters) \subseteq [from : Stream, seq : 1..MaxStreams]
    /\ IsABag(msgs) /\ BagToSet(msgs) \subseteq LogMsg

-----------------------------------------------------------------------------
Current(v) == [view |-> v.id, seq |-> v.seq]
Shown(s) == logs # None /\ s = Current(logs)
Room == Cardinality({s \in Stream : reader[s] # "none"}) < MaxStarted

Init ==
    /\ logs = None
    /\ opened = 0
    /\ visible = FALSE
    /\ reader = [s \in Stream |-> "none"]
    /\ chan = [s \in Stream |-> <<>>]
    /\ waiters = EmptyBag /\ msgs = EmptyBag

\* The stream on show is cancelled.
Cancelled == [s \in Stream |-> IF Shown(s) /\ reader[s] = "open" THEN "cancelled" ELSE reader[s]]

\* startLogStream, with the cancel of closePodLogs when the viewer is new.
StartLogStream(v) ==
    /\ logs' = v
    /\ reader' = [Cancelled EXCEPT ![Current(v)] = "open"]
    /\ waiters' = waiters (+) SetToBag({[from |-> Current(v), seq |-> v.seq]})
    /\ UNCHANGED <<chan, msgs>>

\* openPodLogs: l on a pod, or { and } in the viewer.
OpenPodLogs ==
    /\ opened < MaxViews /\ Room
    /\ StartLogStream([id |-> opened + 1, seq |-> 1, lines |-> {}, streaming |-> TRUE])
    /\ opened' = opened + 1
    /\ visible' = TRUE

\* ] [ p f r: another container, the previous one, following, once more.
Restart ==
    /\ visible /\ logs # None /\ logs.seq < MaxStreams /\ Room
    /\ StartLogStream([logs EXCEPT !.seq = @ + 1, !.lines = {}, !.streaming = TRUE])
    /\ UNCHANGED <<opened, visible>>

\* esc, a context switch, or { and } to a pod that is gone.
ClosePodLogs ==
    /\ logs # None
    /\ logs' = None
    /\ reader' = Cancelled
    /\ visible' = FALSE
    /\ UNCHANGED <<opened, chan, waiters, msgs>>

\* The output of an action or the end of a rescue takes the screen.
Covered ==
    /\ visible
    /\ visible' = FALSE
    /\ UNCHANGED <<logs, opened, reader, chan, waiters, msgs>>

-----------------------------------------------------------------------------
(* The goroutine that reads a stream *)

Write(s, chunk) ==
    /\ reader[s] \in {"open", "cancelled"}
    /\ Len(chan[s]) < Cap
    /\ chan' = [chan EXCEPT ![s] = Append(@, chunk)]

\* A cancelled one may take a line that was ready.
ReadLines(s) ==
    /\ Write(s, "lines")
    /\ UNCHANGED <<logs, opened, visible, reader, waiters, msgs>>

\* The stream ends or fails.
ReadDone(s) ==
    /\ Write(s, "done")
    /\ reader' = [reader EXCEPT ![s] = "ended"]
    /\ UNCHANGED <<logs, opened, visible, waiters, msgs>>

\* A cancelled one returns; its channel is not closed.
ReadCancelled(s) ==
    /\ reader[s] = "cancelled"
    /\ reader' = [reader EXCEPT ![s] = "ended"]
    /\ UNCHANGED <<logs, opened, visible, chan, waiters, msgs>>

-----------------------------------------------------------------------------
\* waitLogs returns.
WaitLogs(w) ==
    /\ BagIn(w, waiters) /\ chan[w.from] # <<>>
    /\ chan' = [chan EXCEPT ![w.from] = Tail(@)]
    /\ waiters' = waiters (-) SetToBag({w})
    /\ msgs' = msgs (+) SetToBag({[seq |-> w.seq, from |-> w.from, chunk |-> Head(chan[w.from])]})
    /\ UNCHANGED <<logs, opened, visible, reader>>

Received(m) ==
    /\ BagIn(m, msgs)
    /\ msgs' = msgs (-) SetToBag({m})
    /\ UNCHANGED <<opened, visible, reader, chan>>

\* Mutant of HandleLogMsg: any chunk is taken.
HandleAnyMsg(m) ==
    /\ Received(m)
    /\ IF logs = None
       THEN UNCHANGED <<logs, waiters>>
       ELSE /\ logs' = [logs EXCEPT !.lines = IF m.chunk = "lines" THEN @ \cup {m.from} ELSE @,
                                    !.streaming = @ /\ m.chunk # "done"]
            /\ waiters' = IF m.chunk = "done" THEN waiters
                          ELSE waiters (+) SetToBag({[from |-> Current(logs), seq |-> logs.seq]})

\* A chunk of the seq on show is taken and the next one asked for.
HandleLogMsg(m) ==
    /\ Received(m)
    /\ IF logs = None \/ m.seq # logs.seq
       THEN UNCHANGED <<logs, waiters>>
       ELSE /\ logs' = [logs EXCEPT !.lines = IF m.chunk = "lines" THEN @ \cup {m.from} ELSE @,
                                    !.streaming = @ /\ m.chunk # "done"]
            /\ waiters' = IF m.chunk = "done" THEN waiters
                          ELSE waiters (+) SetToBag({[from |-> Current(logs), seq |-> logs.seq]})

\* The bound on viewers is reached.
Finished == (opened = MaxViews \/ ~Room) /\ logs = None /\ UNCHANGED vars

Next ==
    \/ Finished
    \/ OpenPodLogs \/ Restart \/ ClosePodLogs \/ Covered
    \/ \E s \in Stream : ReadLines(s) \/ ReadDone(s) \/ ReadCancelled(s)
    \/ \E w \in BagToSet(waiters) : WaitLogs(w)
    \/ \E m \in BagToSet(msgs) : HandleLogMsg(m)

Spec == Init /\ [][Next]_vars

\* A command whose channel has a chunk returns, and its message is handled.
Fairness ==
    /\ \A s \in Stream, n \in 1..MaxStreams : WF_vars(WaitLogs([from |-> s, seq |-> n]))
    /\ \A m \in LogMsg : WF_vars(HandleLogMsg(m))

FairSpec == Spec /\ Fairness

-----------------------------------------------------------------------------
\* One log is streamed from the apiserver at a time, that of the viewer, and
\* none once it is closed.
OneStream == \A s \in Stream : reader[s] = "open" => Shown(s)

\* Within a viewer, no line of an earlier container or reload is in the buffer.
SwitchDropsLines == logs # None =>
    \A s \in logs.lines : s.view = logs.id => s.seq = logs.seq

\* The end of the stream on show is seen.
EndIsSeen == \A s \in Stream :
    Shown(s) /\ reader[s] = "ended" ~> (~Shown(s) \/ ~logs.streaming)
=============================================================================
