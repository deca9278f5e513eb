------------------------------ MODULE AlertFeed ------------------------------
(***************************************************************************)
(* ConnectionManager: the WebSocket feed of new alerts.                    *)
(*                                                                         *)
(* broadcast appends an alert to a buffer. One flush task, created by the  *)
(* first connection the process ever accepts, wakes every two seconds,     *)
(* takes the whole buffer and sends it as one batch to a snapshot of the   *)
(* connections, one awaited send after another. Connections come and go    *)
(* between those sends.                                                    *)
(*                                                                         *)
(* _buffer_lock guards sections with no other await in them, so each is    *)
(* one step. The list of connections is a set: the order of the sends is   *)
(* left open. A browser that reconnects is a new connection. log and       *)
(* received record what was broadcast and what each browser was sent.      *)
(***************************************************************************)
EXTENDS Naturals, Sequences

CONSTANTS
    Alerts,      \* ids of alerts, each broadcast at most once
    Conns,       \* connections
    MaxCrashes   \* bound: restarts of the process

ASSUME CrashBound == MaxCrashes \in Nat

VARIABLES
    link,                \* browser's end: "new", "open" or "gone"
    active_connections,  \* server's list
    alert_buffer,        \* alerts waiting for the next flush
    flush,               \* the flush task: "none", "sleep" or "send"
    batch,               \* what a flush is sending
    sending,             \* the connections it has still to send to
    log,                 \* every alert broadcast, in order
    received,            \* what each browser was sent
    crashes

feedVars == <<link, active_connections, alert_buffer, flush, batch, sending,
              log, received, crashes>>

-----------------------------------------------------------------------------

Logged == {log[k] : k \in 1 .. Len(log)}

FeedTypeOK ==
    /\ link \in [Conns -> {"new", "open", "gone"}]
    /\ active_connections \in SUBSET Conns
    /\ alert_buffer \in Seq(Alerts)
    /\ flush \in {"none", "sleep", "send"}
    /\ batch \in Seq(Alerts)
    /\ sending \in SUBSET Conns
    /\ log \in Seq(Alerts)
    /\ received \in [Conns -> Seq(Alerts)]
    /\ crashes \in 0 .. MaxCrashes

FeedInit ==
    /\ link = [c \in Conns |-> "new"]
    /\ active_connections = {}
    /\ alert_buffer = <<>>
    /\ flush = "none"
    /\ batch = <<>>
    /\ sending = {}
    /\ log = <<>>
    /\ received = [c \in Conns |-> <<>>]
    /\ crashes = 0

\* connect: the first one ever starts the flush task.
Connect(c) ==
    /\ link[c] = "new"
    /\ link' = [link EXCEPT ![c] = "open"]
    /\ active_connections' = active_connections \union {c}
    /\ flush' = IF flush = "none" THEN "sleep" ELSE flush
    /\ UNCHANGED <<alert_buffer, batch, sending, log, received, crashes>>

\* The browser leaves; the server does not know yet.
Leave(c) ==
    /\ link[c] = "open"
    /\ link' = [link EXCEPT ![c] = "gone"]
    /\ UNCHANGED <<active_connections, alert_buffer, flush, batch, sending,
                   log, received, crashes>>

\* The receive loop of the endpoint ends, or a send outside the flush fails.
Disconnect(c) ==
    /\ link[c] = "gone"
    /\ c \in active_connections
    /\ active_connections' = active_connections \ {c}
    /\ UNCHANGED <<link, alert_buffer, flush, batch, sending, log, received,
                   crashes>>

\* Mutant: the message is buffered, not the alert in it.
BroadcastWhole(a) ==
    /\ a \notin Logged
    /\ alert_buffer' = Append(alert_buffer, <<a>>)
    /\ log' = Append(log, a)
    /\ UNCHANGED <<link, active_connections, flush, batch, sending, received,
                   crashes>>

\* broadcast of a "new_alert" message.
Broadcast(a) ==
    /\ a \notin Logged
    /\ alert_buffer' = Append(alert_buffer, a)
    /\ log' = Append(log, a)
    /\ UNCHANGED <<link, active_connections, flush, batch, sending, received,
                   crashes>>

\* Mutant: the buffer is copied and not cleared.
FlushKeepsBuffer ==
    /\ flush = "sleep"
    /\ alert_buffer # <<>>
    /\ active_connections # {}
    /\ flush' = "send"
    /\ batch' = alert_buffer
    /\ sending' = active_connections
    /\ UNCHANGED <<link, active_connections, alert_buffer, log, received,
                   crashes>>

\* The flush task wakes: it takes the buffer, and drops it if nobody listens.
Flush ==
    /\ flush = "sleep"
    /\ alert_buffer # <<>>
    /\ alert_buffer' = <<>>
    /\ IF active_connections = {}
       THEN UNCHANGED <<flush, batch, sending>>
       ELSE /\ flush' = "send"
            /\ batch' = alert_buffer
            /\ sending' = active_connections
    /\ UNCHANGED <<link, active_connections, log, received, crashes>>

\* Mutant: the list is emptied when a send fails.
SendDropsAll(c) ==
    /\ flush = "send"
    /\ c \in sending
    /\ IF link[c] = "open"
       THEN /\ received' = [received EXCEPT ![c] = @ \o batch]
            /\ UNCHANGED active_connections
       ELSE /\ active_connections' = {}
            /\ UNCHANGED received
    /\ sending' = sending \ {c}
    /\ IF sending = {c}
       THEN flush' = "sleep" /\ batch' = <<>>
       ELSE UNCHANGED <<flush, batch>>
    /\ UNCHANGED <<link, alert_buffer, log, crashes>>

\* Mutant: the buffer is cleared after the sends, not before them.
SendClearsBuffer(c) ==
    /\ flush = "send"
    /\ c \in sending
    /\ link[c] = "open"
    /\ received' = [received EXCEPT ![c] = @ \o batch]
    /\ sending' = sending \ {c}
    /\ IF sending = {c}
       THEN flush' = "sleep" /\ batch' = <<>> /\ alert_buffer' = <<>>
       ELSE UNCHANGED <<flush, batch, alert_buffer>>
    /\ UNCHANGED <<link, active_connections, log, crashes>>

\* Mutant: the first send that fails ends the flush.
SendStopsAtFailure(c) ==
    /\ flush = "send"
    /\ c \in sending
    /\ IF link[c] = "open"
       THEN received' = [received EXCEPT ![c] = @ \o batch]
       ELSE UNCHANGED received
    /\ active_connections' = IF link[c] = "open" THEN active_connections
                             ELSE active_connections \ {c}
    /\ sending' = IF link[c] = "open" THEN sending \ {c} ELSE {}
    /\ IF sending' = {}
       THEN flush' = "sleep" /\ batch' = <<>>
       ELSE UNCHANGED <<flush, batch>>
    /\ UNCHANGED <<link, alert_buffer, log, crashes>>

\* One awaited send of the batch. It reaches a browser that is there; to one
\* that is gone it fails, and the connection is dropped, or is lost unnoticed.
Send(c) ==
    /\ flush = "send"
    /\ c \in sending
    /\ \/ /\ link[c] = "open"
          /\ received' = [received EXCEPT ![c] = @ \o batch]
          /\ UNCHANGED active_connections
       \/ /\ link[c] = "gone"
          /\ active_connections' \in {active_connections,
                                      active_connections \ {c}}
          /\ UNCHANGED received
    /\ sending' = sending \ {c}
    /\ IF sending = {c}
       THEN flush' = "sleep" /\ batch' = <<>>
       ELSE UNCHANGED <<flush, batch>>
    /\ UNCHANGED <<link, alert_buffer, log, crashes>>

\* The process dies and starts again: sockets, buffer and task are lost.
Crash ==
    /\ crashes < MaxCrashes
    /\ crashes' = crashes + 1
    /\ link' = [c \in Conns |-> IF link[c] = "open" THEN "gone" ELSE link[c]]
    /\ active_connections' = {}
    /\ alert_buffer' = <<>>
    /\ flush' = "none"
    /\ batch' = <<>>
    /\ sending' = {}
    /\ UNCHANGED <<log, received>>

\* What the feed does by itself; Broadcast and Crash are others' steps too.
FeedStep == (\E c \in Conns : Connect(c) \/ Leave(c) \/ Disconnect(c) \/ Send(c))
                \/ Flush

FeedNext == FeedStep \/ (\E a \in Alerts : Broadcast(a)) \/ Crash

\* The flush task's timer fires and a send it awaits returns or raises. A
\* browser need not connect or leave; nothing need be broadcast.
FeedFairness ==
    /\ WF_feedVars(Flush)
    /\ \A c \in Conns : WF_feedVars(Send(c))

FeedSpec == FeedInit /\ [][FeedNext]_feedVars

FairFeedSpec == FeedSpec /\ FeedFairness

-----------------------------------------------------------------------------
(* Properties *)

\* The feed implements the log: each browser is sent an unbroken stretch of
\* it, in order and without repeats, whoever joins or leaves during a flush.
Abstract == INSTANCE AlertLog
              WITH log <- log, received <- received,
                   Alerts <- Alerts, Conns <- Conns

FeedImplementsLog == Abstract!Spec

\* Two browsers never disagree about the order of two alerts, and one that
\* was sent both of two alerts was sent all that lie between them.
ReceivedIsStretch == \A c \in Conns : Abstract!IsStretch(received[c], log)

\* An alert is never lost on a connection that is up when it is broadcast:
\* it arrives, unless the browser leaves or the process dies.
EveryListenerIsSent ==
    \A c \in Conns, a \in Alerts :
        (link[c] = "open" /\ a \in {alert_buffer[k] : k \in 1 .. Len(alert_buffer)})
            ~> (link[c] = "gone"
                \/ a \in {received[c][k] : k \in 1 .. Len(received[c])})

\* A socket that is open is served: the list, or the flush in progress, never
\* forgets a browser that is there.
OpenIsServed == \A c \in Conns : link[c] = "open" => c \in active_connections

=============================================================================
