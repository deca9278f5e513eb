---------------------------- MODULE AlertFeedProofs ----------------------------
(***************************************************************************)
(* Proofs about AlertFeed, for any alerts, connections and restarts.        *)
(*                                                                          *)
(* A browser's stretch has to be known by its end: it ends where the batch  *)
(* under way begins, if that is still to be sent to it, and otherwise where *)
(* the buffer begins. The buffer is the end of the log.                     *)
(***************************************************************************)
EXTENDS AlertFeed, TLAPS

\* t lies in the log s, and ends with its n-th alert.
EndsAt(t, s, n) ==
    /\ Len(t) <= n /\ n <= Len(s)
    /\ \A k \in 1 .. Len(t) : t[k] = s[(n - Len(t)) + k]

\* The alerts of the log before the buffer, which were taken out of it.
Start == Len(log) - Len(alert_buffer)

BufferIsTail == EndsAt(alert_buffer, log, Len(log))

BatchBeforeBuffer == flush = "send" => EndsAt(batch, log, Start) /\ Len(batch) > 0

\* What each browser that is there has been sent, by its end.
Owed(c) == flush = "send" /\ c \in sending
SentUpTo ==
    \A c \in Conns : link[c] = "open" =>
        EndsAt(received[c], log, IF Owed(c) THEN Start - Len(batch) ELSE Start)

\* A connection that is not made has nothing and is nowhere.
NewIsNowhere ==
    \A c \in Conns : link[c] = "new" =>
        received[c] = <<>> /\ c \notin sending /\ c \notin active_connections

FeedInv ==
    /\ FeedTypeOK
    /\ OpenIsServed
    /\ BufferIsTail
    /\ BatchBeforeBuffer
    /\ SentUpTo
    /\ NewIsNowhere
    /\ ReceivedIsStretch

-----------------------------------------------------------------------------
(* Stretches *)

\* A stretch known by its end is one.
LEMMA EndIsStretch ==
    ASSUME NEW t \in Seq(Alerts), NEW s \in Seq(Alerts), NEW n \in Nat, EndsAt(t, s, n)
    PROVE  Abstract!IsStretch(t, s)
<1> DEFINE i == n - Len(t)
<1>1. i \in 0 .. Len(s) /\ i + Len(t) <= Len(s)
  BY DEF EndsAt
<1>2. \A k \in 1 .. Len(t) : t[k] = s[i + k]
  BY DEF EndsAt
<1> QED BY <1>1, <1>2 DEF Abstract!IsStretch

\* The log grows at its end, so stretches stay where they are.
LEMMA StretchStays ==
    ASSUME NEW t \in Seq(Alerts), NEW s \in Seq(Alerts), NEW a \in Alerts
    PROVE  /\ \A n \in Nat : EndsAt(t, s, n) => EndsAt(t, Append(s, a), n)
           /\ Abstract!IsStretch(t, s) => Abstract!IsStretch(t, Append(s, a))
<1>1. \A k \in 1 .. Len(s) : Append(s, a)[k] = s[k]
  OBVIOUS
<1>2. Len(Append(s, a)) = Len(s) + 1
  OBVIOUS
<1>3. \A n \in Nat : EndsAt(t, s, n) => EndsAt(t, Append(s, a), n)
  BY <1>1, <1>2 DEF EndsAt
<1>4. ASSUME Abstract!IsStretch(t, s)
      PROVE  Abstract!IsStretch(t, Append(s, a))
  <2>1. PICK i \in 0 .. Len(s) : /\ i + Len(t) <= Len(s)
                                /\ \A k \in 1 .. Len(t) : t[k] = s[i + k]
    BY <1>4 DEF Abstract!IsStretch
  <2>2. i \in 0 .. Len(Append(s, a)) /\ i + Len(t) <= Len(Append(s, a))
    BY <1>2, <2>1
  <2>3. \A k \in 1 .. Len(t) : t[k] = Append(s, a)[i + k]
    BY <1>1, <2>1
  <2> QED BY <2>2, <2>3 DEF Abstract!IsStretch
<1> QED BY <1>3, <1>4

\* What follows a stretch prolongs it.
LEMMA StretchesJoin ==
    ASSUME NEW t \in Seq(Alerts), NEW u \in Seq(Alerts), NEW s \in Seq(Alerts),
           NEW n \in Nat, EndsAt(u, s, n), EndsAt(t, s, n - Len(u))
    PROVE  EndsAt(t \o u, s, n)
<1>1. Len(t \o u) = Len(t) + Len(u)
  OBVIOUS
<1>2. ASSUME NEW k \in 1 .. Len(t \o u)
      PROVE  (t \o u)[k] = s[(n - Len(t \o u)) + k]
  <2>1. CASE k <= Len(t)
    <3>1. (t \o u)[k] = t[k]
      BY <2>1
    <3>2. k \in 1 .. Len(t)
      BY <1>1, <2>1
    <3>3. t[k] = s[((n - Len(u)) - Len(t)) + k]
      BY <3>2 DEF EndsAt
    <3>4. ((n - Len(u)) - Len(t)) + k = (n - Len(t \o u)) + k
      BY <1>1
    <3> QED BY <3>1, <3>3, <3>4
  <2>2. CASE k > Len(t)
    <3>1. (t \o u)[k] = u[k - Len(t)] /\ k - Len(t) \in 1 .. Len(u)
      BY <1>1, <2>2
    <3>2. u[k - Len(t)] = s[(n - Len(u)) + (k - Len(t))]
      BY <3>1 DEF EndsAt
    <3>3. (n - Len(u)) + (k - Len(t)) = (n - Len(t \o u)) + k
      BY <1>1
    <3> QED BY <3>1, <3>2, <3>3
  <2> QED BY <2>1, <2>2
<1>3. Len(t \o u) <= n /\ n <= Len(s)
  BY <1>1 DEF EndsAt
<1> QED BY <1>2, <1>3 DEF EndsAt

LEMMA EmptyEnds ==
    ASSUME NEW s \in Seq(Alerts), NEW n \in 0 .. Len(s)
    PROVE  EndsAt(<<>>, s, n)
BY DEF EndsAt

-----------------------------------------------------------------------------
(* The steps of the feed *)

LEMMA FeedTypeInit == FeedInit => FeedTypeOK
BY CrashBound DEF FeedInit, FeedTypeOK

LEMMA FeedTypeStep == FeedTypeOK /\ [FeedNext]_feedVars => FeedTypeOK'
<1> SUFFICES ASSUME FeedTypeOK, [FeedNext]_feedVars
             PROVE  FeedTypeOK'
  OBVIOUS
<1> USE CrashBound DEF FeedTypeOK
<1>1. ASSUME NEW c \in Conns, Connect(c) PROVE FeedTypeOK'
  BY <1>1 DEF Connect
<1>2. ASSUME NEW c \in Conns, Leave(c) PROVE FeedTypeOK'
  BY <1>2 DEF Leave
<1>3. ASSUME NEW c \in Conns, Disconnect(c) PROVE FeedTypeOK'
  BY <1>3 DEF Disconnect
<1>4. ASSUME NEW c \in Conns, Send(c) PROVE FeedTypeOK'
  <2>1. received[c] \o batch \in Seq(Alerts)
    OBVIOUS
  <2>2. \/ received' = [received EXCEPT ![c] = received[c] \o batch]
        \/ received' = received
    BY <1>4 DEF Send
  <2>3. received' \in [Conns -> Seq(Alerts)]
    BY <2>1, <2>2
  <2>4. active_connections' \in SUBSET Conns /\ sending' \in SUBSET Conns
    BY <1>4 DEF Send
  <2>5. \/ flush' = "sleep" /\ batch' = <<>>
        \/ flush' = flush /\ batch' = batch
    BY <1>4 DEF Send
  <2>6. flush' \in {"none", "sleep", "send"} /\ batch' \in Seq(Alerts)
    <3>1. <<>> \in Seq(Alerts)
      OBVIOUS
    <3>2. flush' \in {"none", "sleep", "send"}
      BY <2>5
    <3>3. batch' \in Seq(Alerts)
      BY <2>5, <3>1
    <3> QED BY <3>2, <3>3
  <2>7. UNCHANGED <<link, alert_buffer, log, crashes>>
    BY <1>4 DEF Send
  <2> QED BY <2>3, <2>4, <2>6, <2>7
<1>5. ASSUME Flush PROVE FeedTypeOK'
  BY <1>5 DEF Flush
<1>6. ASSUME NEW a \in Alerts, Broadcast(a) PROVE FeedTypeOK'
  BY <1>6 DEF Broadcast
<1>7. ASSUME Crash PROVE FeedTypeOK'
  BY <1>7 DEF Crash
<1>8. CASE UNCHANGED feedVars
  BY <1>8 DEF feedVars
<1> QED BY <1>1, <1>2, <1>3, <1>4, <1>5, <1>6, <1>7, <1>8 DEF FeedNext, FeedStep

\* Every reachable state of the feed is well typed: AlertFeed's TypeOK, for
\* ConnectionManager's list and buffer (websocket.py).
THEOREM FeedTypeCorrect == FeedSpec => []FeedTypeOK
<1>1. FeedInit => FeedTypeOK
  BY FeedTypeInit
<1>2. FeedTypeOK /\ [FeedNext]_feedVars => FeedTypeOK'
  BY FeedTypeStep
<1> QED BY <1>1, <1>2, PTL DEF FeedSpec

-----------------------------------------------------------------------------
(* The inductive invariant *)

LEMMA StartRange ==
    ASSUME FeedTypeOK, BufferIsTail
    PROVE  Start \in 0 .. Len(log)
<1>1. Len(log) \in Nat /\ Len(alert_buffer) \in Nat
  BY DEF FeedTypeOK
<1>2. Len(alert_buffer) <= Len(log)
  BY DEF BufferIsTail, EndsAt
<1> QED BY <1>1, <1>2 DEF Start

LEMMA FeedInvInit == FeedInit => FeedInv
<1> SUFFICES ASSUME FeedInit PROVE FeedInv
  OBVIOUS
<1>1. FeedTypeOK
  BY FeedTypeInit
<1>2. OpenIsServed /\ BatchBeforeBuffer /\ SentUpTo /\ NewIsNowhere
  BY DEF FeedInit, OpenIsServed, BatchBeforeBuffer, SentUpTo, NewIsNowhere
<1>3. EndsAt(<<>>, <<>>, 0)
  BY DEF EndsAt
<1>4. BufferIsTail
  BY <1>3 DEF FeedInit, BufferIsTail
<1>5. Abstract!IsStretch(<<>>, <<>>)
  BY DEF Abstract!IsStretch
<1>6. ReceivedIsStretch
  BY <1>5 DEF FeedInit, ReceivedIsStretch
<1> QED BY <1>1, <1>2, <1>4, <1>6 DEF FeedInv

\* A step that leaves the log, the buffer and what was sent as they are, and
\* does not open a connection, end a flush or begin one.
LEMMA ConnectionsStep ==
    ASSUME FeedInv, FeedTypeOK', NEW c \in Conns, Connect(c) \/ Leave(c) \/ Disconnect(c)
    PROVE  FeedInv'
<1> USE DEF FeedInv
<1>1. UNCHANGED <<alert_buffer, batch, sending, log, received>> /\ Start' = Start
  BY DEF Connect, Leave, Disconnect, Start
<1>2. (flush = "send") <=> (flush' = "send")
  BY DEF Connect, Leave, Disconnect
<1>3. BufferIsTail' /\ BatchBeforeBuffer' /\ ReceivedIsStretch'
  BY <1>1, <1>2 DEF BufferIsTail, BatchBeforeBuffer, ReceivedIsStretch
<1>4. \A d \in Conns : link'[d] = "new" => link[d] = "new" /\ d # c
  BY DEF Connect, Leave, Disconnect, FeedTypeOK, NewIsNowhere
<1>5. NewIsNowhere'
  <2> SUFFICES ASSUME NEW d \in Conns, link'[d] = "new"
               PROVE  received'[d] = <<>> /\ d \notin sending' /\ d \notin active_connections'
    BY DEF NewIsNowhere
  <2>1. d # c /\ received[d] = <<>> /\ d \notin sending /\ d \notin active_connections
    BY <1>4 DEF NewIsNowhere
  <2>2. active_connections' \subseteq active_connections \union {c}
    BY DEF Connect, Leave, Disconnect
  <2> QED BY <1>1, <2>1, <2>2
<1>6. OpenIsServed'
  BY DEF Connect, Leave, Disconnect, OpenIsServed, FeedTypeOK
<1>7. SentUpTo'
  <2> SUFFICES ASSUME NEW d \in Conns, link'[d] = "open"
               PROVE  EndsAt(received'[d], log', IF Owed(d)' THEN Start' - Len(batch') ELSE Start')
    BY DEF SentUpTo
  <2>1. Owed(d)' <=> Owed(d)
    BY <1>1, <1>2 DEF Owed
  <2>2. CASE link[d] = "open"
    BY <1>1, <2>1, <2>2 DEF SentUpTo
  <2>3. CASE link[d] # "open"
    <3>1. link[d] = "new"
      BY <2>3 DEF Connect, Leave, Disconnect, FeedTypeOK
    <3>2. received[d] = <<>> /\ ~Owed(d)
      BY <3>1 DEF NewIsNowhere, Owed
    <3>3. EndsAt(<<>>, log, Start)
      BY StartRange, EmptyEnds DEF FeedTypeOK
    <3> QED BY <1>1, <2>1, <3>2, <3>3
  <2> QED BY <2>2, <2>3
<1> QED BY <1>3, <1>5, <1>6, <1>7

LEMMA BroadcastStep ==
    ASSUME FeedInv, FeedTypeOK', NEW a \in Alerts, Broadcast(a)
    PROVE  FeedInv'
<1> USE DEF FeedInv
<1>1. /\ UNCHANGED <<link, active_connections, flush, batch, sending, received>>
      /\ log' = Append(log, a) /\ alert_buffer' = Append(alert_buffer, a)
  BY DEF Broadcast
<1>2. log \in Seq(Alerts) /\ alert_buffer \in Seq(Alerts) /\ batch \in Seq(Alerts)
  BY DEF FeedTypeOK
<1>3. Len(log') = Len(log) + 1 /\ Len(alert_buffer') = Len(alert_buffer) + 1
  BY <1>1, <1>2
<1>4. Start' = Start
  BY <1>2, <1>3 DEF Start
<1>5. Start \in Nat
  BY StartRange
<1>6. OpenIsServed' /\ NewIsNowhere'
  BY <1>1 DEF OpenIsServed, NewIsNowhere
<1>7. BufferIsTail'
  <2>1. ASSUME NEW k \in 1 .. Len(alert_buffer')
        PROVE  alert_buffer'[k] = log'[(Len(log') - Len(alert_buffer')) + k]
    <3>1. CASE k = Len(alert_buffer')
      BY <1>1, <1>2, <1>3, <3>1
    <3>2. CASE k # Len(alert_buffer')
      <4>1. k \in 1 .. Len(alert_buffer)
        BY <1>2, <1>3, <3>2
      <4>2. alert_buffer'[k] = alert_buffer[k]
        BY <1>1, <1>2, <4>1
      <4>3. alert_buffer[k] = log[Start + k]
        BY <4>1 DEF BufferIsTail, EndsAt, Start
      <4>4. Start + k \in 1 .. Len(log)
        BY <1>2, <1>5, <4>1 DEF Start
      <4>5. log'[Start + k] = log[Start + k]
        BY <1>1, <1>2, <4>4
      <4> QED BY <1>2, <1>3, <4>2, <4>3, <4>5 DEF Start
    <3> QED BY <3>1, <3>2
  <2>2. Len(alert_buffer') <= Len(log')
    BY <1>2, <1>3 DEF BufferIsTail, EndsAt
  <2> QED BY <1>2, <1>3, <2>1, <2>2 DEF BufferIsTail, EndsAt
<1>8. BatchBeforeBuffer'
  BY <1>1, <1>2, <1>4, <1>5, StretchStays DEF BatchBeforeBuffer
<1>9. SentUpTo'
  <2> SUFFICES ASSUME NEW d \in Conns, link'[d] = "open"
               PROVE  EndsAt(received'[d], log', IF Owed(d)' THEN Start' - Len(batch') ELSE Start')
    BY DEF SentUpTo
  <2> DEFINE n == IF Owed(d) THEN Start - Len(batch) ELSE Start
  <2>1. EndsAt(received[d], log, n)
    BY <1>1 DEF SentUpTo
  <2>2. n \in Nat
    <3>1. Owed(d) => Len(batch) <= Start
      BY DEF BatchBeforeBuffer, EndsAt, Owed
    <3> QED BY <1>2, <1>5, <3>1
  <2>3. received[d] \in Seq(Alerts)
    BY DEF FeedTypeOK
  <2> HIDE DEF n
  <2>4. EndsAt(received[d], Append(log, a), n)
    BY <1>2, <2>1, <2>2, <2>3, StretchStays
  <2>5. n = IF Owed(d)' THEN Start' - Len(batch') ELSE Start'
    BY <1>1, <1>4 DEF n, Owed
  <2> QED BY <1>1, <2>4, <2>5
<1>10. ReceivedIsStretch'
  <2> SUFFICES ASSUME NEW d \in Conns
               PROVE  Abstract!IsStretch(received'[d], log')
    BY DEF ReceivedIsStretch
  <2>1. received[d] \in Seq(Alerts) /\ Abstract!IsStretch(received[d], log)
    BY DEF FeedTypeOK, ReceivedIsStretch
  <2> QED BY <1>1, <1>2, <2>1, StretchStays
<1> QED BY <1>6, <1>7, <1>8, <1>9, <1>10

LEMMA FlushStep ==
    ASSUME FeedInv, FeedTypeOK', Flush
    PROVE  FeedInv'
<1> USE DEF FeedInv
<1>1. /\ UNCHANGED <<link, active_connections, log, received>>
      /\ flush = "sleep" /\ alert_buffer # <<>> /\ alert_buffer' = <<>>
  BY DEF Flush
<1>2. log \in Seq(Alerts) /\ alert_buffer \in Seq(Alerts) /\ Len(log) \in Nat
  BY DEF FeedTypeOK
<1>3. Start' = Len(log)
  BY <1>1, <1>2 DEF Start
<1>4. BufferIsTail'
  BY <1>1, <1>2, EmptyEnds DEF BufferIsTail
<1>5. OpenIsServed' /\ ReceivedIsStretch'
  BY <1>1 DEF OpenIsServed, ReceivedIsStretch
<1>6. CASE active_connections = {}
  <2>1. flush' = "sleep" /\ UNCHANGED <<batch, sending>>
    BY <1>1, <1>6 DEF Flush
  <2>2. \A c \in Conns : link'[c] # "open"
    BY <1>1, <1>6 DEF OpenIsServed
  <2>3. BatchBeforeBuffer' /\ SentUpTo' /\ NewIsNowhere'
    BY <1>1, <2>1, <2>2 DEF BatchBeforeBuffer, SentUpTo, NewIsNowhere
  <2> QED BY <1>4, <1>5, <2>3
<1>7. CASE active_connections # {}
  <2>1. flush' = "send" /\ batch' = alert_buffer /\ sending' = active_connections
    BY <1>1, <1>7 DEF Flush
  <2>2. EndsAt(alert_buffer, log, Len(log)) /\ Len(alert_buffer) > 0
    BY <1>1, <1>2 DEF BufferIsTail
  <2>3. BatchBeforeBuffer'
    BY <1>1, <1>3, <2>1, <2>2 DEF BatchBeforeBuffer
  <2>4. NewIsNowhere'
    BY <1>1, <2>1 DEF NewIsNowhere
  <2>5. ASSUME NEW c \in Conns, link'[c] = "open"
        PROVE  EndsAt(received'[c], log', IF Owed(c)' THEN Start' - Len(batch') ELSE Start')
    <3>1. Owed(c)'
      BY <1>1, <2>1, <2>5 DEF Owed, OpenIsServed
    <3>2. ~Owed(c)
      BY <1>1 DEF Owed
    <3>3. EndsAt(received[c], log, Start)
      BY <1>1, <2>5, <3>2 DEF SentUpTo
    <3>4. Start' - Len(batch') = Start
      BY <1>3, <2>1 DEF Start
    <3> QED BY <1>1, <3>1, <3>3, <3>4
  <2> QED BY <1>4, <1>5, <2>3, <2>4, <2>5 DEF SentUpTo
<1> QED BY <1>6, <1>7

\* What an open connection has after its send: the batch too.
LEMMA SentEndsAtStart ==
    ASSUME FeedInv, NEW c \in Conns, flush = "send", c \in sending, link[c] = "open"
    PROVE  /\ EndsAt(received[c] \o batch, log, Start)
           /\ Abstract!IsStretch(received[c] \o batch, log)
<1> USE DEF FeedInv
<1>1. /\ received[c] \in Seq(Alerts) /\ batch \in Seq(Alerts) /\ log \in Seq(Alerts)
      /\ received[c] \o batch \in Seq(Alerts)
  BY DEF FeedTypeOK
<1>2. Start \in Nat
  BY StartRange
<1>3. EndsAt(received[c], log, Start - Len(batch))
  BY DEF SentUpTo, Owed
<1>4. EndsAt(batch, log, Start)
  BY DEF BatchBeforeBuffer
<1>5. EndsAt(received[c] \o batch, log, Start)
  BY <1>1, <1>2, <1>3, <1>4, StretchesJoin
<1> QED BY <1>1, <1>2, <1>5, EndIsStretch

LEMMA SendStep ==
    ASSUME FeedInv, FeedTypeOK', NEW c \in Conns, Send(c)
    PROVE  FeedInv'
<1> USE DEF FeedInv
<1>1. /\ UNCHANGED <<link, alert_buffer, log>> /\ Start' = Start
      /\ flush = "send" /\ c \in sending /\ sending' = sending \ {c}
  BY DEF Send, Start
<1>2. \/ link[c] = "open" /\ received' = [received EXCEPT ![c] = received[c] \o batch]
                          /\ active_connections' = active_connections
      \/ link[c] = "gone" /\ received' = received
                          /\ active_connections' \in {active_connections, active_connections \ {c}}
  BY DEF Send
<1>3. received \in [Conns -> Seq(Alerts)]
  BY DEF FeedTypeOK
<1>4. \A d \in Conns : d # c => received'[d] = received[d]
  BY <1>2, <1>3
<1>5. link[c] = "open" => received'[c] = received[c] \o batch
  BY <1>2, <1>3
<1>6. link[c] # "open" => received'[c] = received[c]
  BY <1>2
<1>7. \/ flush' = "sleep" /\ sending = {c}
      \/ flush' = flush /\ batch' = batch
  BY DEF Send
<1>8. BufferIsTail' /\ BatchBeforeBuffer'
  BY <1>1, <1>7 DEF BufferIsTail, BatchBeforeBuffer
<1>9. OpenIsServed'
  BY <1>1, <1>2 DEF OpenIsServed
<1>10. NewIsNowhere'
  <2> SUFFICES ASSUME NEW d \in Conns, link'[d] = "new"
               PROVE  received'[d] = <<>> /\ d \notin sending' /\ d \notin active_connections'
    BY DEF NewIsNowhere
  <2>1. received[d] = <<>> /\ d \notin sending /\ d \notin active_connections
    BY <1>1 DEF NewIsNowhere
  <2>2. d # c /\ active_connections' \subseteq active_connections
    BY <1>1, <1>2, <2>1
  <2> QED BY <1>1, <1>4, <2>1, <2>2
<1>11. SentUpTo'
  <2> SUFFICES ASSUME NEW d \in Conns, link'[d] = "open"
               PROVE  EndsAt(received'[d], log', IF Owed(d)' THEN Start' - Len(batch') ELSE Start')
    BY DEF SentUpTo
  <2>1. CASE d = c
    <3>1. ~Owed(d)'
      BY <1>1, <2>1 DEF Owed
    <3> QED BY <1>1, <1>5, <2>1, <3>1, SentEndsAtStart
  <2>2. CASE d # c
    <3>1. EndsAt(received[d], log, IF Owed(d) THEN Start - Len(batch) ELSE Start)
      BY <1>1 DEF SentUpTo
    <3>2. Owed(d)' <=> Owed(d)
      BY <1>1, <1>7, <2>2 DEF Owed
    <3>3. Owed(d)' => batch' = batch
      BY <1>7 DEF Owed
    <3> QED BY <1>1, <1>4, <2>2, <3>1, <3>2, <3>3
  <2> QED BY <2>1, <2>2
<1>12. ReceivedIsStretch'
  <2> SUFFICES ASSUME NEW d \in Conns
               PROVE  Abstract!IsStretch(received'[d], log')
    BY DEF ReceivedIsStretch
  <2>1. Abstract!IsStretch(received[d], log)
    BY DEF ReceivedIsStretch
  <2>2. CASE d = c /\ link[c] = "open"
    BY <1>1, <1>5, <2>2, SentEndsAtStart
  <2>3. CASE ~(d = c /\ link[c] = "open")
    BY <1>1, <1>4, <1>6, <2>1, <2>3
  <2> QED BY <2>2, <2>3
<1> QED BY <1>8, <1>9, <1>10, <1>11, <1>12

LEMMA CrashStep ==
    ASSUME FeedInv, FeedTypeOK', Crash
    PROVE  FeedInv'
<1> USE DEF FeedInv
<1>1. /\ alert_buffer' = <<>> /\ flush' = "none" /\ sending' = {} /\ active_connections' = {}
      /\ UNCHANGED <<log, received>>
  BY DEF Crash
<1>2. \A c \in Conns : link'[c] # "open" /\ (link'[c] = "new" => link[c] = "new")
  BY DEF Crash, FeedTypeOK
<1>3. log \in Seq(Alerts) /\ Len(log) \in 0 .. Len(log)
  BY DEF FeedTypeOK
<1>4. BufferIsTail'
  BY <1>1, <1>3, EmptyEnds DEF BufferIsTail
<1>5. OpenIsServed' /\ SentUpTo'
  BY <1>2 DEF OpenIsServed, SentUpTo
<1>6. BatchBeforeBuffer' /\ ReceivedIsStretch'
  BY <1>1 DEF BatchBeforeBuffer, ReceivedIsStretch
<1>7. NewIsNowhere'
  BY <1>1, <1>2 DEF NewIsNowhere
<1> QED BY <1>4, <1>5, <1>6, <1>7

LEMMA FeedInvStep == FeedInv /\ [FeedNext]_feedVars => FeedInv'
<1> SUFFICES ASSUME FeedInv, [FeedNext]_feedVars PROVE FeedInv'
  OBVIOUS
<1>1. FeedTypeOK'
  BY FeedTypeStep DEF FeedInv
<1>2. ASSUME NEW c \in Conns, Connect(c) \/ Leave(c) \/ Disconnect(c) PROVE FeedInv'
  BY <1>1, <1>2, ConnectionsStep
<1>3. ASSUME NEW c \in Conns, Send(c) PROVE FeedInv'
  BY <1>1, <1>3, SendStep
<1>4. ASSUME Flush PROVE FeedInv'
  BY <1>1, <1>4, FlushStep
<1>5. ASSUME NEW a \in Alerts, Broadcast(a) PROVE FeedInv'
  BY <1>1, <1>5, BroadcastStep
<1>6. ASSUME Crash PROVE FeedInv'
  BY <1>1, <1>6, CrashStep
<1>7. CASE UNCHANGED feedVars
  BY <1>7 DEF feedVars, FeedInv, FeedTypeOK, OpenIsServed, BufferIsTail, BatchBeforeBuffer,
              SentUpTo, NewIsNowhere, ReceivedIsStretch, Owed, Start
<1> QED BY <1>2, <1>3, <1>4, <1>5, <1>6, <1>7 DEF FeedNext, FeedStep

LEMMA FeedInvAlways == FeedSpec => []FeedInv
<1>1. FeedInit => FeedInv
  BY FeedInvInit
<1>2. FeedInv /\ [FeedNext]_feedVars => FeedInv'
  BY FeedInvStep
<1> QED BY <1>1, <1>2, PTL DEF FeedSpec

-----------------------------------------------------------------------------
(* Theorems *)

\* What a browser was sent is an unbroken stretch of the alerts broadcast,
\* whoever connects, leaves or fails during a flush, and whenever the process
\* dies: ReceivedIsStretch, for broadcast and the flush task of websocket.py.
THEOREM BrowsersGetStretches == FeedSpec => []ReceivedIsStretch
<1>1. FeedInv => ReceivedIsStretch
  BY DEF FeedInv
<1> QED BY <1>1, FeedInvAlways, PTL

\* No connection that is up is missing from the server's list: OpenIsServed, for
\* connect, disconnect and the sends that drop a connection.
THEOREM NobodyForgotten == FeedSpec => []OpenIsServed
<1>1. FeedInv => OpenIsServed
  BY DEF FeedInv
<1> QED BY <1>1, FeedInvAlways, PTL

\* A step of the feed is one of the log, or leaves it as it is.
LEMMA StepRefines ==
    FeedInv /\ [FeedNext]_feedVars => [Abstract!Next]_<<log, received>>
<1> SUFFICES ASSUME FeedInv, [FeedNext]_feedVars
             PROVE  Abstract!Next \/ UNCHANGED <<log, received>>
  OBVIOUS
<1>1. ASSUME NEW c \in Conns, Send(c), link[c] = "open" PROVE Abstract!Next
  <2>1. flush = "send" /\ c \in sending /\ log' = log
        /\ received' = [received EXCEPT ![c] = received[c] \o batch]
    BY <1>1 DEF Send
  <2>2. received \in [Conns -> Seq(Alerts)] /\ batch \in Seq(Alerts) /\ Len(batch) > 0
    BY <2>1 DEF FeedInv, FeedTypeOK, BatchBeforeBuffer
  <2>3. received'[c] = received[c] \o batch /\ received[c] \in Seq(Alerts)
    BY <2>1, <2>2
  <2>4. Len(received'[c]) > Len(received[c])
    BY <2>2, <2>3
  <2>5. Abstract!IsPrefixOf(received[c], received'[c])
    BY <2>2, <2>3 DEF Abstract!IsPrefixOf
  <2>6. Abstract!IsStretch(received'[c], log)
    BY <1>1, <2>1, <2>3, SentEndsAtStart
  <2>7. \A d \in Conns \ {c} : received'[d] = received[d]
    BY <2>1, <2>2
  <2>8. Abstract!Extend(c)
    BY <2>1, <2>4, <2>5, <2>6, <2>7 DEF Abstract!Extend
  <2> QED BY <2>8 DEF Abstract!Next
<1>2. ASSUME NEW a \in Alerts, Broadcast(a) PROVE Abstract!Next
  <2>1. /\ \A k \in 1 .. Len(log) : log[k] # a
        /\ log' = Append(log, a) /\ received' = received
    BY <1>2 DEF Broadcast, Logged
  <2>2. Abstract!Append1(a)
    BY <2>1 DEF Abstract!Append1
  <2> QED BY <2>2 DEF Abstract!Next
<1>3. ASSUME NEW c \in Conns, Connect(c) \/ Leave(c) \/ Disconnect(c)
                               \/ (Send(c) /\ link[c] # "open")
      PROVE  UNCHANGED <<log, received>>
  BY <1>3 DEF Connect, Leave, Disconnect, Send
<1>4. ASSUME Flush \/ Crash PROVE UNCHANGED <<log, received>>
  BY <1>4 DEF Flush, Crash
<1>5. CASE UNCHANGED feedVars
  BY <1>5 DEF feedVars
<1> QED BY <1>1, <1>2, <1>3, <1>4, <1>5 DEF FeedNext, FeedStep

\* The connection manager implements the log: every behaviour of buffer, flush
\* task and connections is one of AlertLog.
THEOREM FeedRefinesLog == FeedSpec => FeedImplementsLog
<1>1. FeedInit => Abstract!Init
  BY DEF FeedInit, Abstract!Init
<1>2. FeedInv /\ [FeedNext]_feedVars => [Abstract!Next]_<<log, received>>
  BY StepRefines
<1> QED BY <1>1, <1>2, FeedInvAlways, PTL DEF FeedSpec, FeedImplementsLog, Abstract!Spec

=============================================================================
