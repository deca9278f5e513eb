---------------------------- MODULE OperationsProofs ----------------------------
(***************************************************************************)
(* Theorems about what keeps the system in operation: webhooks, health      *)
(* checks, scheduled reports, migrations and the deadlines of alerts, for   *)
(* any webhooks, requests, components, schedules and alerts, any finite     *)
(* number of dispatches and any lengths of the times.                       *)
(***************************************************************************)
EXTENDS Webhooks, Health, Reports, Migrations, Deadlines,
        FiniteSetTheorems, WellFoundedInduction, TLAPS


-----------------------------------------------------------------------------
(* Webhooks *)

Config == [active : BOOLEAN, min_level : {0, 2}, success_count : Nat, failure_count : Nat]
Outcomes == {"success_count", "failure_count"}

WebhooksTypeOK ==
    /\ webhooks \in [WebhookIds -> Config \union {NotThere, Gone}]
    /\ answered \in [Dispatches -> [WebhookIds -> Outcomes \union {"none"}]]
    /\ ended \in [Dispatches -> SUBSET WebhookIds]
    /\ DOMAIN phase = Dispatches
    /\ DOMAIN sending = Dispatches

\* A dispatch sends to webhooks that were there, and ends sends that it began;
\* an outcome is that of a send that ended, and is gone once it is counted or
\* lost.
SendIsKnown(d, w) ==
    /\ w \in DOMAIN sending[d] => webhooks[w] # NotThere
    /\ w \in ended[d] => w \in DOMAIN sending[d]
    /\ phase[d] = "new" => w \notin ended[d]
    /\ answered[d][w] # "none" => w \in ended[d] /\ <<d, w>> \notin lost
    /\ <<d, w>> \in lost => w \in ended[d]

SendsAreKnown == \A d \in Dispatches, w \in WebhookIds : SendIsKnown(d, w)

\* The dispatches whose sends to a webhook are in its counts.
InCounts(d, w) == w \in ended[d] /\ answered[d][w] = "none" /\ <<d, w>> \notin lost
CountedSends(w) == {d \in Dispatches : InCounts(d, w)}

Sum(c) == c.success_count + c.failure_count

WebhooksInv == WebhooksTypeOK /\ SendsAreKnown /\ CountsAddUp

-----------------------------------------------------------------------------
(* Webhooks and their counts *)

LEMMA ConfigIsThere ==
    /\ \A c \in Config : c # NotThere /\ c # Gone
    /\ NotThere # Gone
BY DEF Config, NotThere, Gone

LEMMA RegisteredAre ==
    ASSUME WebhooksTypeOK PROVE Registered = {w \in WebhookIds : webhooks[w] \in Config}
BY ConfigIsThere DEF WebhooksTypeOK, Registered

LEMMA CountsAre ==
    CountsAddUp <=> \A w \in Registered : Sum(webhooks[w]) = Cardinality(CountedSends(w))
BY DEF CountsAddUp, Sum, CountedSends, InCounts

\* A partial update has no field that counts.
LEMMA UpdateKeepsCounts ==
    ASSUME NEW c \in Config, NEW u \in Updates
    PROVE  LET n == [f \in DOMAIN c |-> IF f \in DOMAIN u THEN u[f] ELSE c[f]]
           IN  n \in Config /\ Sum(n) = Sum(c)
<1> DEFINE n == [f \in DOMAIN c |-> IF f \in DOMAIN u THEN u[f] ELSE c[f]]
<1>1. DOMAIN c = {"active", "min_level", "success_count", "failure_count"}
  BY DEF Config
<1>2. \/ DOMAIN u = {"active"} /\ u["active"] \in BOOLEAN
      \/ DOMAIN u = {"min_level"} /\ u["min_level"] \in {0, 2}
  BY DEF Updates
<1>3. /\ n["success_count"] = c["success_count"]
      /\ n["failure_count"] = c["failure_count"]
  BY <1>1, <1>2
<1>4. n["active"] \in BOOLEAN /\ n["min_level"] \in {0, 2}
  BY <1>1, <1>2 DEF Config
<1>5. n = [active |-> n["active"], min_level |-> n["min_level"],
           success_count |-> n["success_count"], failure_count |-> n["failure_count"]]
  BY <1>1
<1>6. n \in Config
  BY <1>3, <1>4, <1>5 DEF Config
<1>7. Sum(n) = Sum(c)
  BY <1>3 DEF Sum
<1> QED BY <1>6, <1>7

\* The counts still add up after a step that changes neither what is counted nor
\* the counts of the webhooks that remain.
LEMMA SameCounts ==
    ASSUME WebhooksInv, WebhooksTypeOK',
           \A d \in Dispatches, w \in WebhookIds : InCounts(d, w)' = InCounts(d, w),
           \A w \in Registered' : w \in Registered /\ Sum(webhooks'[w]) = Sum(webhooks[w])
    PROVE  CountsAddUp'
<1>1. \A w \in Registered' : CountedSends(w)' = CountedSends(w)
  BY DEF CountedSends, Registered
<1>2. CountsAddUp' <=> \A w \in Registered' : Sum(webhooks'[w]) = Cardinality(CountedSends(w)')
  BY DEF CountsAddUp, Sum, CountedSends, InCounts
<1> QED BY <1>1, <1>2, CountsAre DEF WebhooksInv

-----------------------------------------------------------------------------
(* The steps *)

LEMMA WebhooksStart == WebhooksInit => WebhooksInv
<1> SUFFICES ASSUME WebhooksInit PROVE WebhooksInv
  OBVIOUS
<1>1. WebhooksTypeOK
  BY DEF WebhooksInit, WebhooksTypeOK
<1>2. SendsAreKnown
  BY DEF WebhooksInit, SendsAreKnown, SendIsKnown
<1>3. CountsAddUp
  BY DEF WebhooksInit, CountsAddUp, Registered
<1> QED BY <1>1, <1>2, <1>3 DEF WebhooksInv

LEMMA RegisterStep ==
    ASSUME WebhooksInv, NEW v \in WebhookIds, RegisterWebhook(v) PROVE WebhooksInv'
<1> PICK m \in {0, 2} : webhooks' = [webhooks EXCEPT ![v] = New(m)]
  BY DEF RegisterWebhook
<1>1. New(m) \in Config /\ Sum(New(m)) = 0
  BY DEF New, Config, Sum
<1>2. webhooks[v] = NotThere /\ UNCHANGED <<sending, answered, phase, ended, lost>>
  BY DEF RegisterWebhook
<1>3. WebhooksTypeOK'
  BY <1>1, <1>2 DEF WebhooksInv, WebhooksTypeOK
<1>4. SendsAreKnown'
  BY <1>1, <1>2, ConfigIsThere DEF WebhooksInv, WebhooksTypeOK, SendsAreKnown, SendIsKnown
<1>5. CountedSends(v) = {}
  BY <1>2 DEF CountedSends, InCounts, WebhooksInv, SendsAreKnown, SendIsKnown
<1>6. \A w \in WebhookIds : CountedSends(w)' = CountedSends(w)
  BY <1>2 DEF CountedSends, InCounts
<1>7. \A w \in Registered' : Sum(webhooks'[w]) = Cardinality(CountedSends(w)')
  <2> SUFFICES ASSUME NEW w \in Registered' PROVE Sum(webhooks'[w]) = Cardinality(CountedSends(w))
    BY <1>6 DEF Registered
  <2>1. CASE w = v
    BY <1>1, <1>5, <2>1, FS_EmptySet DEF WebhooksInv, WebhooksTypeOK
  <2>2. CASE w # v
    BY <2>2, CountsAre DEF WebhooksInv, WebhooksTypeOK, Registered
  <2> QED BY <2>1, <2>2
<1>8. CountsAddUp'
  BY <1>7 DEF CountsAddUp, Sum, CountedSends, InCounts
<1> QED BY <1>3, <1>4, <1>8 DEF WebhooksInv

LEMMA UpdateStep ==
    ASSUME WebhooksInv, NEW v \in WebhookIds, UpdateWebhook(v) PROVE WebhooksInv'
<1> DEFINE c == webhooks[v]
<1>1. c \in Config
  BY RegisteredAre DEF UpdateWebhook, WebhooksInv
<1> PICK u \in Updates :
      webhooks' = [webhooks EXCEPT ![v] =
                      [f \in DOMAIN @ |-> IF f \in DOMAIN u THEN u[f] ELSE @[f]]]
  BY DEF UpdateWebhook
<1> DEFINE n == [f \in DOMAIN c |-> IF f \in DOMAIN u THEN u[f] ELSE c[f]]
<1>2. webhooks' = [webhooks EXCEPT ![v] = n]
  OBVIOUS
<1>3. n \in Config /\ Sum(n) = Sum(c)
  BY <1>1, UpdateKeepsCounts
<1> HIDE DEF n
<1>4. UNCHANGED <<sending, answered, phase, ended, lost>>
  BY DEF UpdateWebhook
<1>5. WebhooksTypeOK'
  BY <1>2, <1>3, <1>4 DEF WebhooksInv, WebhooksTypeOK
<1>6. SendsAreKnown'
  BY <1>2, <1>3, <1>4, ConfigIsThere DEF WebhooksInv, WebhooksTypeOK, SendsAreKnown, SendIsKnown
<1>7. \A w \in Registered' : w \in Registered /\ Sum(webhooks'[w]) = Sum(webhooks[w])
  BY <1>1, <1>2, <1>3, ConfigIsThere DEF WebhooksInv, WebhooksTypeOK, Registered
<1>8. CountsAddUp'
  BY <1>4, <1>5, <1>7, SameCounts DEF InCounts
<1> QED BY <1>5, <1>6, <1>8 DEF WebhooksInv

LEMMA DeleteStep ==
    ASSUME WebhooksInv, NEW v \in WebhookIds, DeleteWebhook(v) PROVE WebhooksInv'
<1>1. /\ webhooks' = [webhooks EXCEPT ![v] = Gone]
      /\ UNCHANGED <<sending, answered, phase, ended, lost>>
  BY DEF DeleteWebhook
<1>2. WebhooksTypeOK'
  BY <1>1 DEF WebhooksInv, WebhooksTypeOK
<1>3. SendsAreKnown'
  BY <1>1, ConfigIsThere DEF WebhooksInv, WebhooksTypeOK, SendsAreKnown, SendIsKnown
<1>4. \A w \in Registered' : w \in Registered /\ webhooks'[w] = webhooks[w]
  BY <1>1 DEF WebhooksInv, WebhooksTypeOK, Registered
<1>5. CountsAddUp'
  BY <1>1, <1>2, <1>4, SameCounts DEF InCounts
<1> QED BY <1>2, <1>3, <1>5 DEF WebhooksInv

LEMMA DispatchStep ==
    ASSUME WebhooksInv, NEW b \in Dispatches, Dispatch(b) PROVE WebhooksInv'
<1>1. /\ phase[b] = "new"
      /\ phase' = [phase EXCEPT ![b] = "sending"]
      /\ UNCHANGED <<webhooks, answered, ended, lost>>
  BY DEF Dispatch
<1>2. /\ DOMAIN sending' = Dispatches
      /\ \A d \in Dispatches : d # b => sending'[d] = sending[d]
      /\ DOMAIN sending'[b] \subseteq Registered \/ sending'[b] = sending[b]
  BY DEF Dispatch, WebhooksInv, WebhooksTypeOK
<1>3. WebhooksTypeOK'
  BY <1>1, <1>2 DEF WebhooksInv, WebhooksTypeOK
<1>4. SendsAreKnown'
  BY <1>1, <1>2 DEF WebhooksInv, WebhooksTypeOK, SendsAreKnown, SendIsKnown, Registered
<1>5. CountsAddUp'
  BY <1>1, <1>3, SameCounts DEF InCounts, Registered
<1> QED BY <1>3, <1>4, <1>5 DEF WebhooksInv

\* A send that ends is not counted yet, and was not before.
LEMMA SendEndsStep ==
    ASSUME WebhooksInv, NEW b \in Dispatches, NEW v \in WebhookIds, NEW outcome \in Outcomes,
           SendEnds(b, v, outcome)
    PROVE  WebhooksInv'
<1>1. /\ phase[b] = "sending" /\ v \in DOMAIN sending[b] /\ v \notin ended[b]
      /\ answered' = [answered EXCEPT ![b][v] = outcome]
      /\ ended' = [ended EXCEPT ![b] = @ \union {v}]
      /\ UNCHANGED <<webhooks, sending, phase, lost>>
  BY DEF SendEnds
<1>2. WebhooksTypeOK'
  BY <1>1 DEF WebhooksInv, WebhooksTypeOK
<1>3. outcome # "none"
  BY DEF Outcomes
<1>4. \A d \in Dispatches, w \in WebhookIds :
          /\ answered'[d][w] = IF d = b /\ w = v THEN outcome ELSE answered[d][w]
          /\ w \in ended'[d] <=> w \in ended[d] \/ (d = b /\ w = v)
  BY <1>1 DEF WebhooksInv, WebhooksTypeOK
<1>5. SendsAreKnown'
  <2> SUFFICES ASSUME NEW d \in Dispatches, NEW w \in WebhookIds PROVE SendIsKnown(d, w)'
    BY DEF SendsAreKnown
  <2>1. SendIsKnown(d, w)
    BY DEF WebhooksInv, SendsAreKnown
  <2> QED BY <1>1, <1>4, <2>1 DEF SendIsKnown
<1>6. \A d \in Dispatches, w \in WebhookIds : InCounts(d, w)' = InCounts(d, w)
  BY <1>1, <1>3, <1>4 DEF InCounts
<1>7. CountsAddUp'
  BY <1>1, <1>2, <1>6, SameCounts DEF Registered
<1> QED BY <1>2, <1>5, <1>7 DEF WebhooksInv

\* Counting a send adds it to the counted ones of its webhook, and one to the
\* counts of the webhook, if it is still there.
LEMMA CountSendStep ==
    ASSUME WebhooksInv, NEW b \in Dispatches, NEW v \in WebhookIds, CountSend(b, v)
    PROVE  WebhooksInv'
<1> DEFINE o == answered[b][v]
<1>1. /\ o \in Outcomes
      /\ answered' = [answered EXCEPT ![b][v] = "none"]
      /\ UNCHANGED <<sending, phase, ended>>
  BY DEF CountSend, WebhooksInv, WebhooksTypeOK
<1>2. v \in ended[b] /\ <<b, v>> \notin lost
  BY DEF CountSend, WebhooksInv, SendsAreKnown, SendIsKnown
<1>3. \A d \in Dispatches, w \in WebhookIds :
          answered'[d][w] = IF d = b /\ w = v THEN "none" ELSE answered[d][w]
  BY <1>1 DEF WebhooksInv, WebhooksTypeOK
<1>4. \/ /\ webhooks' = IF v \in Registered THEN Counted(b, v) ELSE webhooks
         /\ UNCHANGED lost
      \/ /\ lost' = lost \union {<<b, v>>}
         /\ UNCHANGED webhooks
  BY DEF CountSend
<1>5. answered' \in [Dispatches -> [WebhookIds -> Outcomes \union {"none"}]]
  BY <1>1 DEF WebhooksInv, WebhooksTypeOK
<1>6. CASE UNCHANGED webhooks /\ lost' = lost \union {<<b, v>>}
  <2>1. WebhooksTypeOK'
    BY <1>1, <1>5, <1>6 DEF WebhooksInv, WebhooksTypeOK
  <2>2. SendsAreKnown'
    <3> SUFFICES ASSUME NEW d \in Dispatches, NEW w \in WebhookIds PROVE SendIsKnown(d, w)'
      BY DEF SendsAreKnown
    <3>1. SendIsKnown(d, w)
      BY DEF WebhooksInv, SendsAreKnown
    <3>2. <<d, w>> \in lost' <=> <<d, w>> \in lost \/ (d = b /\ w = v)
      BY <1>6
    <3> QED BY <1>1, <1>2, <1>3, <1>6, <3>1, <3>2 DEF SendIsKnown
  <2>3. \A d \in Dispatches, w \in WebhookIds : InCounts(d, w)' = InCounts(d, w)
    <3> SUFFICES ASSUME NEW d \in Dispatches, NEW w \in WebhookIds
                 PROVE  InCounts(d, w)' = InCounts(d, w)
      OBVIOUS
    <3>1. <<d, w>> \in lost' <=> <<d, w>> \in lost \/ (d = b /\ w = v)
      BY <1>6
    <3>2. d = b /\ w = v => answered[d][w] # "none"
      BY <1>1 DEF Outcomes
    <3> QED BY <1>1, <1>3, <3>1, <3>2 DEF InCounts
  <2>4. CountsAddUp'
    BY <1>6, <2>1, <2>3, SameCounts DEF Registered
  <2> QED BY <2>1, <2>2, <2>4 DEF WebhooksInv
<1>7. ASSUME UNCHANGED lost, webhooks' \in [WebhookIds -> Config \union {NotThere, Gone}],
             \A w \in WebhookIds : webhooks'[w] = NotThere <=> webhooks[w] = NotThere
      PROVE  WebhooksTypeOK' /\ SendsAreKnown'
  <2>1. WebhooksTypeOK'
    BY <1>1, <1>5, <1>7 DEF WebhooksInv, WebhooksTypeOK
  <2>2. SendsAreKnown'
    <3> SUFFICES ASSUME NEW d \in Dispatches, NEW w \in WebhookIds PROVE SendIsKnown(d, w)'
      BY DEF SendsAreKnown
    <3>1. SendIsKnown(d, w)
      BY DEF WebhooksInv, SendsAreKnown
    <3> QED BY <1>1, <1>3, <1>7, <3>1 DEF SendIsKnown
  <2> QED BY <2>1, <2>2
<1>8. CASE UNCHANGED lost /\ webhooks' = IF v \in Registered THEN Counted(b, v) ELSE webhooks
  <2>1. \A w \in WebhookIds : w # v => CountedSends(w)' = CountedSends(w)
    BY <1>1, <1>3, <1>8 DEF CountedSends, InCounts
  <2>2. CASE v \notin Registered
    <3>1. UNCHANGED webhooks
      BY <1>8, <2>2
    <3>2. WebhooksTypeOK' /\ SendsAreKnown'
      BY <1>7, <1>8, <3>1 DEF WebhooksInv, WebhooksTypeOK
    <3>3. \A w \in Registered' : Sum(webhooks'[w]) = Cardinality(CountedSends(w)')
      BY <2>1, <2>2, <3>1, CountsAre DEF WebhooksInv, Registered
    <3>4. CountsAddUp'
      BY <3>3 DEF CountsAddUp, Sum, CountedSends, InCounts
    <3> QED BY <3>2, <3>4 DEF WebhooksInv
  <2>3. CASE v \in Registered
    <3> DEFINE c == webhooks[v]
               n == [c EXCEPT ![o] = @ + 1]
    <3>1. c \in Config
      BY <2>3, RegisteredAre DEF WebhooksInv
    <3>2. webhooks' = [webhooks EXCEPT ![v] = n]
      BY <1>8, <2>3 DEF Counted
    <3>3. n \in Config /\ Sum(n) = Sum(c) + 1
      BY <1>1, <3>1 DEF Outcomes, Config, Sum
    <3> HIDE DEF n
    <3>4. /\ webhooks' \in [WebhookIds -> Config \union {NotThere, Gone}]
          /\ webhooks'[v] = n
          /\ \A w \in WebhookIds : w # v => webhooks'[w] = webhooks[w]
      BY <3>2, <3>3 DEF WebhooksInv, WebhooksTypeOK
    <3>5. WebhooksTypeOK' /\ SendsAreKnown'
      BY <1>7, <1>8, <3>1, <3>3, <3>4, ConfigIsThere
    <3>6. b \notin CountedSends(v) /\ CountedSends(v)' = CountedSends(v) \union {b}
      BY <1>1, <1>2, <1>3, <1>8 DEF CountedSends, InCounts, Outcomes
    <3>7. IsFiniteSet(CountedSends(v))
      BY FS_Subset, WebhooksAssumption DEF CountedSends
    <3>8. Cardinality(CountedSends(v)') = Cardinality(CountedSends(v)) + 1
      BY <3>6, <3>7, FS_AddElement
    <3>9. \A w \in Registered' : Sum(webhooks'[w]) = Cardinality(CountedSends(w)')
      <4> SUFFICES ASSUME NEW w \in Registered'
                   PROVE  Sum(webhooks'[w]) = Cardinality(CountedSends(w)')
        OBVIOUS
      <4>1. CASE w = v
        BY <2>3, <3>3, <3>4, <3>8, <4>1, CountsAre DEF WebhooksInv
      <4>2. CASE w # v
        BY <2>1, <3>4, <4>2, CountsAre DEF WebhooksInv, Registered
      <4> QED BY <4>1, <4>2
    <3>10. CountsAddUp'
      BY <3>9 DEF CountsAddUp, Sum, CountedSends, InCounts
    <3> QED BY <3>5, <3>10 DEF WebhooksInv
  <2> QED BY <2>2, <2>3
<1> QED BY <1>4, <1>6, <1>8

LEMMA DispatchEndsStep ==
    ASSUME WebhooksInv, NEW b \in Dispatches, DispatchEnds(b) PROVE WebhooksInv'
<1>1. /\ phase' = [phase EXCEPT ![b] = "done"]
      /\ UNCHANGED <<webhooks, sending, answered, ended, lost>>
  BY DEF DispatchEnds
<1>2. WebhooksTypeOK'
  BY <1>1 DEF WebhooksInv, WebhooksTypeOK
<1>3. SendsAreKnown'
  BY <1>1 DEF WebhooksInv, WebhooksTypeOK, SendsAreKnown, SendIsKnown
<1>4. CountsAddUp'
  BY <1>1, <1>2, SameCounts DEF InCounts, Registered
<1> QED BY <1>2, <1>3, <1>4 DEF WebhooksInv

LEMMA WebhooksStep == WebhooksInv /\ [WebhooksNext]_webhookVars => WebhooksInv'
<1> SUFFICES ASSUME WebhooksInv, [WebhooksNext]_webhookVars PROVE WebhooksInv'
  OBVIOUS
<1>1. ASSUME NEW w \in WebhookIds, RegisterWebhook(w) \/ UpdateWebhook(w) \/ DeleteWebhook(w)
      PROVE  WebhooksInv'
  BY <1>1, RegisterStep, UpdateStep, DeleteStep
<1>2. ASSUME NEW d \in Dispatches, Dispatch(d) \/ DispatchEnds(d) PROVE WebhooksInv'
  BY <1>2, DispatchStep, DispatchEndsStep
<1>3. ASSUME NEW d \in Dispatches, NEW w \in WebhookIds, CountSend(d, w) PROVE WebhooksInv'
  BY <1>3, CountSendStep
<1>4. ASSUME NEW d \in Dispatches, NEW w \in WebhookIds, NEW outcome \in Outcomes,
             SendEnds(d, w, outcome)
      PROVE  WebhooksInv'
  BY <1>4, SendEndsStep
<1>5. CASE UNCHANGED webhookVars
  <2>1. WebhooksTypeOK' /\ SendsAreKnown'
    BY <1>5 DEF webhookVars, WebhooksInv, WebhooksTypeOK, SendsAreKnown, SendIsKnown
  <2>2. CountsAddUp'
    BY <1>5, <2>1, SameCounts DEF webhookVars, InCounts, Registered
  <2> QED BY <2>1, <2>2 DEF WebhooksInv
<1> QED BY <1>1, <1>2, <1>3, <1>4, <1>5 DEF WebhooksNext, Outcomes

\* Every send to a webhook that is there is in its counts once it has ended and its
\* outcome has been handled, unless the store refused; however dispatches overlap
\* and the webhooks are changed.
THEOREM CountsAlwaysAddUp == WebhooksSpec => []CountsAddUp
<1>1. WebhooksInv => CountsAddUp
  BY DEF WebhooksInv
<1> QED BY WebhooksStart, WebhooksStep, <1>1, PTL DEF WebhooksSpec

-----------------------------------------------------------------------------
(* Health *)

Told == {"healthy", "degraded", "unhealthy"}
Checking == [since : Nat, left : SUBSET Components, told : SUBSET Told]
ServedReport == [status : Told, since : Nat]

HealthTypeOK ==
    /\ second \in Nat
    /\ inOrder \in [Components -> BOOLEAN]
    /\ last_run \in Nat
    /\ checking \in [HealthRequests -> Checking \union {NotChecking}]
    /\ cached_deep_health \in ServedReport \union {NoReport}
    /\ served \in [status : Told \union {"none"}, at : Nat]
    /\ goodAt \in [Components -> Nat]

\* goodAt is the present of what is in order.
GoodAtIsKept ==
    \A c \in Components : goodAt[c] <= second /\ (inOrder[c] => goodAt[c] = second)

\* A component was working at some time from t on.
GoodSince(c, t) ==
    /\ t <= goodAt[c]
    /\ c = "ingestion_scheduler" => t <= last_run + StaleRun

\* A check takes no longer than it may, and if it was told nothing but good,
\* what it has read was working since it began.
CheckIsTrue(check) ==
    /\ check.since <= second /\ second <= check.since + CheckTime
    /\ check.told \subseteq {"healthy"} =>
          \A c \in Components \ check.left : GoodSince(c, check.since)

ChecksAreTrue == \A r \in HealthRequests : checking[r] # NotChecking => CheckIsTrue(checking[r])

\* So was everything, if the report that is kept says so.
ReportIsTrue ==
    cached_deep_health # NoReport /\ cached_deep_health.status = "healthy" =>
        \A c \in Components : GoodSince(c, cached_deep_health.since)

HealthInv ==
    HealthTypeOK /\ GoodAtIsKept /\ ChecksAreTrue /\ ReportIsTrue /\ HealthyWasWorking

-----------------------------------------------------------------------------
(* Readings and reports *)

LEMMA Bounds == {Keep, CheckTime, StaleRun} \subseteq Nat /\ HealthWindow \in Nat
                /\ Keep <= HealthWindow /\ CheckTime <= HealthWindow
BY HealthAssumption DEF HealthWindow

LEMMA ReadingsAreTold ==
    ASSUME NEW c \in Components
    PROVE  Readings(c) \union {WhenRaised(c)} \subseteq Told /\ WhenRaised(c) # "healthy"
<1>1. WhenRaised(c) \in Told /\ WhenRaised(c) # "healthy"
  BY DEF WhenRaised, Told
<1>2. Readings(c) \subseteq Told
  BY HealthAssumption DEF Readings, Told
<1> QED
  BY <1>1, <1>2

\* A good reading is one of the present.
LEMMA GoodReading ==
    ASSUME HealthTypeOK, GoodAtIsKept, NEW c \in Components, "healthy" \in Readings(c)
    PROVE  GoodSince(c, second)
<1>1. inOrder[c] /\ (c = "ingestion_scheduler" => second <= last_run + StaleRun)
  BY HealthAssumption DEF Readings, HealthTypeOK
<1>2. goodAt[c] = second /\ second \in Nat
  BY <1>1 DEF GoodAtIsKept, HealthTypeOK
<1> QED BY <1>1, <1>2 DEF GoodSince

LEMMA WorstIs ==
    ASSUME NEW told \in SUBSET Told
    PROVE  Worst(told) \in Told /\ (Worst(told) = "healthy" => told \subseteq {"healthy"})
BY DEF Worst, Told

\* What was good since t stays so while time goes on.
LEMMA GoodStays ==
    ASSUME HealthTypeOK, HealthTypeOK', NEW c \in Components, NEW t \in Nat, GoodSince(c, t),
           goodAt[c] <= goodAt'[c], last_run <= last_run'
    PROVE  GoodSince(c, t)'
BY Bounds DEF HealthTypeOK, GoodSince

\* What was good since t is not a thing of the past while t is within the window.
LEMMA ServedIsTrue ==
    ASSUME HealthTypeOK, HealthTypeOK', NEW report \in ServedReport, Serve(report),
           second <= report.since + HealthWindow,
           report.status = "healthy" => \A c \in Components : GoodSince(c, report.since),
           UNCHANGED <<goodAt, last_run>>
    PROVE  HealthyWasWorking'
<1> SUFFICES ASSUME report.status = "healthy" PROVE HealthyWasWorking'
  BY DEF Serve, HealthyWasWorking
<1>1. served'.at = second /\ report.since \in Nat /\ second \in Nat
  BY DEF Serve, HealthTypeOK, ServedReport
<1>2. ASSUME NEW c \in Components PROVE served'.at <= goodAt'[c] + HealthWindow
  BY <1>1, Bounds DEF GoodSince, HealthTypeOK
<1>3. ASSUME "ingestion_scheduler" \in Components
      PROVE  served'.at <= last_run' + StaleRun + HealthWindow
  BY <1>1, <1>3, Bounds DEF GoodSince, HealthTypeOK
<1> QED BY <1>2, <1>3 DEF HealthyWasWorking, HealthWindow

-----------------------------------------------------------------------------
(* The steps *)

LEMMA HealthStart == HealthInit => HealthInv
<1> SUFFICES ASSUME HealthInit PROVE HealthInv
  OBVIOUS
<1>1. HealthTypeOK
  BY DEF HealthInit, HealthTypeOK
<1>2. GoodAtIsKept
  BY DEF HealthInit, GoodAtIsKept
<1>3. ChecksAreTrue /\ ReportIsTrue /\ HealthyWasWorking
  BY DEF HealthInit, ChecksAreTrue, ReportIsTrue, HealthyWasWorking
<1> QED BY <1>1, <1>2, <1>3 DEF HealthInv

\* Requests change neither what is checked nor the time.
LEMMA Untouched ==
    ASSUME HealthInv, UNCHANGED <<second, inOrder, last_run, goodAt>>
    PROVE  GoodAtIsKept' /\ \A c, t : GoodSince(c, t)' = GoodSince(c, t)
BY DEF HealthInv, GoodAtIsKept, GoodSince

LEMMA AskStep ==
    ASSUME HealthInv, NEW r \in HealthRequests, AskHealth(r) PROVE HealthInv'
<1>1. UNCHANGED <<second, inOrder, last_run, cached_deep_health, goodAt>>
  BY DEF AskHealth
<1>2. CASE StillKept
  <2>1. UNCHANGED checking /\ Serve(cached_deep_health)
    BY <1>2 DEF AskHealth
  <2>2. cached_deep_health \in ServedReport
    BY <1>2 DEF StillKept, HealthInv, HealthTypeOK
  <2>3. HealthTypeOK'
    BY <1>1, <2>1, <2>2 DEF HealthInv, HealthTypeOK, Serve, ServedReport
  <2>4. second <= cached_deep_health.since + HealthWindow
    BY <1>2, <2>2, Bounds DEF StillKept, ServedReport, HealthInv, HealthTypeOK
  <2>5. cached_deep_health.status = "healthy" =>
            \A c \in Components : GoodSince(c, cached_deep_health.since)
    BY <1>2 DEF StillKept, HealthInv, ReportIsTrue
  <2>6. HealthyWasWorking'
    BY <1>1, <2>1, <2>2, <2>3, <2>4, <2>5, ServedIsTrue DEF HealthInv
  <2>7. ChecksAreTrue' /\ ReportIsTrue'
    BY <1>1, <2>1 DEF HealthInv, ChecksAreTrue, CheckIsTrue, ReportIsTrue, GoodSince
  <2> QED BY <1>1, <2>3, <2>6, <2>7, Untouched DEF HealthInv
<1>3. CASE ~StillKept
  <2> DEFINE new == [since |-> second, left |-> Components, told |-> {}]
  <2>1. UNCHANGED served /\ checking' = [checking EXCEPT ![r] = new]
    BY <1>3 DEF AskHealth
  <2>2. new \in Checking
    BY DEF Checking, HealthInv, HealthTypeOK
  <2>3. CheckIsTrue(new)
    BY Bounds DEF CheckIsTrue, HealthInv, HealthTypeOK
  <2> HIDE DEF new
  <2>4. HealthTypeOK'
    BY <1>1, <2>1, <2>2 DEF HealthInv, HealthTypeOK
  <2>5. ChecksAreTrue'
    <3> SUFFICES ASSUME NEW q \in HealthRequests, checking'[q] # NotChecking
                 PROVE  CheckIsTrue(checking'[q])
      BY <1>1 DEF ChecksAreTrue, CheckIsTrue, GoodSince
    <3> QED BY <2>1, <2>3 DEF HealthInv, HealthTypeOK, ChecksAreTrue
  <2>6. ReportIsTrue' /\ HealthyWasWorking'
    BY <1>1, <2>1 DEF HealthInv, ReportIsTrue, GoodSince, HealthyWasWorking
  <2> QED BY <1>1, <2>4, <2>5, <2>6, Untouched DEF HealthInv
<1> QED BY <1>2, <1>3

\* A reading is of the present, and so of a time since the check began.
LEMMA ReadStep ==
    ASSUME HealthInv, NEW r \in HealthRequests, NEW c \in Components, ReadComponent(r, c)
    PROVE  HealthInv'
<1>1. UNCHANGED <<second, inOrder, last_run, cached_deep_health, served, goodAt>>
  BY DEF ReadComponent
<1> DEFINE check == checking[r]
<1>2. check \in Checking /\ CheckIsTrue(check)
  BY DEF ReadComponent, HealthInv, HealthTypeOK, ChecksAreTrue
<1> PICK reading \in Readings(c) \union {WhenRaised(c)} :
      checking' = [checking EXCEPT ![r].left = @ \ {c}, ![r].told = @ \union {reading}]
  BY DEF ReadComponent
<1> DEFINE new == [since |-> check.since, left |-> check.left \ {c},
                   told |-> check.told \union {reading}]
<1>3. checking' = [checking EXCEPT ![r] = new]
  <2>1. /\ checking \in [HealthRequests -> Checking \union {NotChecking}]
        /\ check = [since |-> check.since, left |-> check.left, told |-> check.told]
    BY <1>2 DEF Checking, HealthInv, HealthTypeOK
  <2>2. checking'[r] = [check EXCEPT !.left = @ \ {c}, !.told = @ \union {reading}]
    BY <2>1
  <2>3. checking'[r] = new
    BY <2>1, <2>2
  <2>4. \A q \in HealthRequests : q # r => checking'[q] = checking[q]
    BY <2>1
  <2>5. DOMAIN checking' = HealthRequests /\ checking' = [q \in HealthRequests |-> checking'[q]]
    BY <2>1
  <2> HIDE DEF new
  <2> QED BY <2>1, <2>3, <2>4, <2>5
<1>4. new \in Checking
  BY <1>2, ReadingsAreTold DEF Checking
<1>5. CheckIsTrue(new)
  <2>1. new.since = check.since /\ check.since \in Nat /\ second \in Nat
    BY <1>2 DEF Checking, HealthInv, HealthTypeOK
  <2>2. new.since <= second /\ second <= new.since + CheckTime
    BY <1>2, <2>1 DEF CheckIsTrue
  <2>3. ASSUME new.told \subseteq {"healthy"}, NEW d \in Components \ new.left
        PROVE  GoodSince(d, new.since)
    <3>1. CASE d = c
      <4>1. GoodSince(c, second)
        BY <2>3, GoodReading, ReadingsAreTold DEF HealthInv
      <4> QED BY <2>1, <2>2, <3>1, <4>1, Bounds DEF GoodSince, HealthInv, HealthTypeOK
    <3>2. CASE d # c
      BY <1>2, <2>1, <2>3, <3>2 DEF CheckIsTrue
    <3> QED BY <3>1, <3>2
  <2> QED BY <2>2, <2>3 DEF CheckIsTrue
<1> HIDE DEF new
<1>6. HealthTypeOK'
  BY <1>1, <1>3, <1>4 DEF HealthInv, HealthTypeOK
<1>7. ChecksAreTrue'
  <2> SUFFICES ASSUME NEW q \in HealthRequests, checking'[q] # NotChecking
               PROVE  CheckIsTrue(checking'[q])
    BY <1>1 DEF ChecksAreTrue, CheckIsTrue, GoodSince
  <2> QED BY <1>3, <1>5 DEF HealthInv, HealthTypeOK, ChecksAreTrue
<1>8. ReportIsTrue' /\ HealthyWasWorking'
  BY <1>1 DEF HealthInv, ReportIsTrue, GoodSince, HealthyWasWorking
<1> QED BY <1>1, <1>6, <1>7, <1>8, Untouched DEF HealthInv

\* A report that says "healthy" was told nothing else, of every component.
LEMMA AnswerStep ==
    ASSUME HealthInv, NEW r \in HealthRequests, AnswerHealth(r) PROVE HealthInv'
<1>1. UNCHANGED <<second, inOrder, last_run, goodAt>>
  BY DEF AnswerHealth
<1>2. checking[r] \in Checking /\ checking[r].left = {} /\ CheckIsTrue(checking[r])
  BY DEF AnswerHealth, HealthInv, HealthTypeOK, ChecksAreTrue
<1>3. /\ Kept(r) \in ServedReport
      /\ Kept(r).since = checking[r].since
      /\ Kept(r).status = "healthy" => checking[r].told \subseteq {"healthy"}
  BY <1>2, WorstIs DEF Kept, ServedReport, Checking
<1>4. Kept(r).status = "healthy" => \A c \in Components : GoodSince(c, Kept(r).since)
  BY <1>2, <1>3 DEF CheckIsTrue
<1>5. second <= Kept(r).since + HealthWindow
  BY <1>2, <1>3, Bounds DEF CheckIsTrue, ServedReport, HealthInv, HealthTypeOK
<1>6. /\ cached_deep_health' = Kept(r)
      /\ Serve(Kept(r))
      /\ checking' = [checking EXCEPT ![r] = NotChecking]
  BY DEF AnswerHealth
<1>7. HealthTypeOK'
  BY <1>1, <1>3, <1>6 DEF HealthInv, HealthTypeOK, Serve, ServedReport
<1>8. HealthyWasWorking'
  BY <1>1, <1>3, <1>4, <1>5, <1>6, <1>7, ServedIsTrue DEF HealthInv
<1>9. ReportIsTrue'
  BY <1>1, <1>4, <1>6 DEF ReportIsTrue, GoodSince
<1>10. ChecksAreTrue'
  <2> SUFFICES ASSUME NEW q \in HealthRequests, checking'[q] # NotChecking
               PROVE  CheckIsTrue(checking'[q])
    BY <1>1 DEF ChecksAreTrue, CheckIsTrue, GoodSince
  <2> QED BY <1>6 DEF HealthInv, HealthTypeOK, ChecksAreTrue
<1> QED BY <1>1, <1>7, <1>8, <1>9, <1>10, Untouched DEF HealthInv

\* What goes on outside the requests takes nothing good away.
LEMMA OutsideKeeps ==
    ASSUME HealthInv, HealthTypeOK', UNCHANGED <<checking, cached_deep_health, served>>,
           second <= second', last_run <= last_run',
           \A c \in Components : goodAt[c] <= goodAt'[c],
           \A r \in HealthRequests : checking[r] # NotChecking =>
               second' <= checking[r].since + CheckTime
    PROVE  ChecksAreTrue' /\ ReportIsTrue' /\ HealthyWasWorking'
<1>1. \A c \in Components, t \in Nat : GoodSince(c, t) => GoodSince(c, t)'
  BY GoodStays DEF HealthInv
<1>2. ChecksAreTrue'
  <2> SUFFICES ASSUME NEW r \in HealthRequests, checking[r] # NotChecking
               PROVE  CheckIsTrue(checking[r])'
    BY DEF ChecksAreTrue
  <2>1. checking[r] \in Checking /\ CheckIsTrue(checking[r])
    BY DEF HealthInv, HealthTypeOK, ChecksAreTrue
  <2>2. checking[r].since \in Nat /\ second \in Nat /\ second' \in Nat
    BY <2>1 DEF Checking, HealthInv, HealthTypeOK
  <2>3. checking[r].since <= second' /\ second' <= checking[r].since + CheckTime
    BY <2>1, <2>2 DEF CheckIsTrue
  <2>4. checking[r].told \subseteq {"healthy"} =>
            \A c \in Components \ checking[r].left : GoodSince(c, checking[r].since)'
    BY <1>1, <2>1, <2>2 DEF CheckIsTrue
  <2> QED BY <2>3, <2>4 DEF CheckIsTrue, GoodSince
<1>3. ReportIsTrue'
  <2> SUFFICES ASSUME cached_deep_health # NoReport, cached_deep_health.status = "healthy",
                      NEW c \in Components
               PROVE  GoodSince(c, cached_deep_health.since)'
    BY DEF ReportIsTrue, GoodSince
  <2>1. cached_deep_health.since \in Nat
    BY DEF HealthInv, HealthTypeOK, ServedReport
  <2>2. GoodSince(c, cached_deep_health.since)
    BY DEF HealthInv, ReportIsTrue
  <2> QED BY <1>1, <2>1, <2>2
<1>4. HealthyWasWorking'
  <2>1. served.at \in Nat /\ last_run \in Nat /\ last_run' \in Nat
        /\ \A c \in Components : goodAt[c] \in Nat /\ goodAt'[c] \in Nat
    BY DEF HealthInv, HealthTypeOK
  <2>2. ASSUME served.status = "healthy", NEW c \in Components
        PROVE  served.at <= goodAt'[c] + HealthWindow
    <3>1. served.at <= goodAt[c] + HealthWindow
      BY <2>2 DEF HealthInv, HealthyWasWorking
    <3> QED BY <2>1, <3>1, Bounds
  <2>3. ASSUME served.status = "healthy", "ingestion_scheduler" \in Components
        PROVE  served.at <= last_run' + StaleRun + HealthWindow
    <3>1. served.at <= last_run + StaleRun + HealthWindow
      BY <2>3 DEF HealthInv, HealthyWasWorking
    <3> QED BY <2>1, <3>1, Bounds
  <2> QED BY <2>2, <2>3 DEF HealthyWasWorking, HealthWindow
<1> QED BY <1>2, <1>3, <1>4

LEMMA FlipStep ==
    ASSUME HealthInv, NEW c \in Components, Flip(c) PROVE HealthInv'
<1>1. /\ inOrder' = [inOrder EXCEPT ![c] = ~@]
      /\ goodAt' = [goodAt EXCEPT ![c] = second]
      /\ UNCHANGED <<second, last_run, checking, cached_deep_health, served>>
  BY DEF Flip
<1>2. HealthTypeOK'
  <2>1. goodAt' \in [Components -> Nat]
    BY <1>1 DEF HealthInv, HealthTypeOK
  <2>2. inOrder' \in [Components -> BOOLEAN]
    BY <1>1 DEF HealthInv, HealthTypeOK
  <2> QED BY <1>1, <2>1, <2>2 DEF HealthInv, HealthTypeOK
<1>3. \A d \in Components : goodAt'[d] = IF d = c THEN second ELSE goodAt[d]
  BY <1>1 DEF HealthInv, HealthTypeOK
<1>4. \A d \in Components : d # c => inOrder'[d] = inOrder[d]
  BY <1>1 DEF HealthInv, HealthTypeOK
<1>5. GoodAtIsKept'
  BY <1>1, <1>3, <1>4 DEF HealthInv, HealthTypeOK, GoodAtIsKept
<1>6. \A d \in Components : goodAt[d] <= goodAt'[d]
  BY <1>3 DEF HealthInv, HealthTypeOK, GoodAtIsKept
<1>7. \A r \in HealthRequests : checking[r] # NotChecking => second' <= checking[r].since + CheckTime
  BY <1>1 DEF HealthInv, ChecksAreTrue, CheckIsTrue
<1>8. second <= second' /\ last_run <= last_run'
  BY <1>1 DEF HealthInv, HealthTypeOK
<1> QED BY <1>1, <1>2, <1>5, <1>6, <1>7, <1>8, OutsideKeeps DEF HealthInv

LEMMA SucceedStep == ASSUME HealthInv, CycleSucceeds PROVE HealthInv'
<1>1. /\ last_run < second /\ last_run' = second
      /\ UNCHANGED <<second, inOrder, checking, cached_deep_health, served, goodAt>>
  BY DEF CycleSucceeds
<1>2. HealthTypeOK' /\ GoodAtIsKept'
  BY <1>1 DEF HealthInv, HealthTypeOK, GoodAtIsKept
<1>3. \A r \in HealthRequests : checking[r] # NotChecking => second' <= checking[r].since + CheckTime
  BY <1>1 DEF HealthInv, ChecksAreTrue, CheckIsTrue
<1>4. /\ second <= second' /\ last_run <= last_run'
      /\ \A c \in Components : goodAt[c] <= goodAt'[c]
  BY <1>1 DEF HealthInv, HealthTypeOK
<1> QED BY <1>1, <1>2, <1>3, <1>4, OutsideKeeps DEF HealthInv

LEMMA TickStep == ASSUME HealthInv, HealthTick PROVE HealthInv'
<1>1. /\ second' = second + 1
      /\ goodAt' = [c \in Components |-> IF inOrder[c] THEN second' ELSE goodAt[c]]
      /\ \A r \in HealthRequests : checking[r] # NotChecking => second < checking[r].since + CheckTime
      /\ UNCHANGED <<inOrder, last_run, checking, cached_deep_health, served>>
  BY DEF HealthTick
<1>2. \A c \in Components :
          goodAt'[c] \in Nat /\ goodAt[c] <= goodAt'[c] /\ goodAt'[c] <= second'
  BY <1>1 DEF HealthInv, HealthTypeOK, GoodAtIsKept
<1>3. second' \in Nat
  BY <1>1 DEF HealthInv, HealthTypeOK
<1>4. HealthTypeOK'
  BY <1>1, <1>2, <1>3 DEF HealthInv, HealthTypeOK
<1>5. GoodAtIsKept'
  BY <1>1, <1>2 DEF HealthInv, GoodAtIsKept
<1>6. \A r \in HealthRequests : checking[r] # NotChecking => second' <= checking[r].since + CheckTime
  <2> SUFFICES ASSUME NEW r \in HealthRequests, checking[r] # NotChecking
               PROVE  second' <= checking[r].since + CheckTime
    OBVIOUS
  <2>1. checking[r].since \in Nat
    BY DEF HealthInv, HealthTypeOK, Checking
  <2> QED BY <1>1, <2>1, Bounds DEF HealthInv, HealthTypeOK
<1>7. second <= second' /\ last_run <= last_run'
  BY <1>1 DEF HealthInv, HealthTypeOK
<1> QED BY <1>1, <1>2, <1>4, <1>5, <1>6, <1>7, OutsideKeeps DEF HealthInv

LEMMA HealthStep == HealthInv /\ [HealthNext]_healthVars => HealthInv'
<1> SUFFICES ASSUME HealthInv, [HealthNext]_healthVars PROVE HealthInv'
  OBVIOUS
<1>1. CASE UNCHANGED healthVars
  BY <1>1 DEF healthVars, HealthInv, HealthTypeOK, GoodAtIsKept, ChecksAreTrue, CheckIsTrue,
              ReportIsTrue, GoodSince, HealthyWasWorking
<1>2. ASSUME NEW r \in HealthRequests, AskHealth(r) PROVE HealthInv'
  BY <1>2, AskStep
<1>3. ASSUME NEW r \in HealthRequests, AnswerHealth(r) PROVE HealthInv'
  BY <1>3, AnswerStep
<1>4. ASSUME NEW r \in HealthRequests, NEW c \in Components, ReadComponent(r, c) PROVE HealthInv'
  BY <1>4, ReadStep
<1>5. ASSUME NEW c \in Components, Flip(c) PROVE HealthInv'
  BY <1>5, FlipStep
<1>6. CASE CycleSucceeds \/ HealthTick
  BY <1>6, SucceedStep, TickStep
<1> QED BY <1>1, <1>2, <1>3, <1>4, <1>5, <1>6 DEF HealthNext

\* An answer "healthy" is never a thing of the past: each component was in order
\* within the window, whichever requests made and replaced the report.
THEOREM HealthyAlwaysWasWorking == HealthSpec => []HealthyWasWorking
<1>1. HealthInv => HealthyWasWorking
  BY DEF HealthInv
<1> QED BY HealthStart, HealthStep, <1>1, PTL DEF HealthSpec

-----------------------------------------------------------------------------
(* Report schedules *)

Schedule == [created_at : Nat, next_run : Nat, runs : BOOLEAN]
StoredReport == [schedule : ScheduleIds, run : Nat, at : Nat, by : {"job", "request"}]

ReportsTypeOK ==
    /\ client \in {"unknown", "native", "kibana"}
    /\ moment \in Nat
    /\ jobHour \in Nat
    /\ schedules \in [ScheduleIds -> Schedule \union {NoSchedule}]
    /\ reports \in SUBSET StoredReport
    /\ job \in [now : Nat, todo : SUBSET ScheduleIds, stored : SUBSET ScheduleIds]
    /\ failures \in Nat

\* Reports are made after their jobs began and not in the future, by the job only
\* of schedules that run; the job in flight is the last one, it works on schedules
\* that were due, and the report of one that it is about to move is stored.
JobIsKnown ==
    /\ client = "unknown" => job = Idle /\ \A s \in ScheduleIds : schedules[s] = NoSchedule
    /\ client # "native" => reports = {}
    /\ \A r \in reports : r.run <= r.at /\ r.at <= moment /\ r.schedule \in Existing
    /\ \A s \in ScheduleIds : ByJob(s) # {} => schedules[s].runs
    /\ job.now <= moment
    /\ job.todo \union job.stored \subseteq Existing
    /\ job.todo \intersect job.stored = {}
    /\ \A s \in job.todo : schedules[s].runs /\ schedules[s].next_run <= job.now
    /\ \A s \in job.stored : schedules[s].runs
    /\ client = "native" => \A s \in job.stored : \E r \in ByJob(s) : r.run = job.now
    /\ job # Idle => \A s \in ScheduleIds : \A r \in ByJob(s) : r.run <= job.now

\* next_run counts from the schedule's making or from a report's job.
RunsFromReports ==
    \A s \in Existing :
       \/ schedules[s].next_run = schedules[s].created_at + Length
       \/ \E r \in ByJob(s) : schedules[s].next_run = r.run + Length

\* A schedule that was always moved is due a period after each of its reports' jobs
\* began, once it is out of the job's hands.
Moved(s) ==
    s \notin unmoved =>
        /\ s \notin job.stored => \A r \in ByJob(s) : r.run + Length <= schedules[s].next_run
        /\ \A r, q \in ByJob(s) : r # q /\ r.run <= q.run => r.run + Length <= q.at

\* Report r is of the last job that reported on schedule s.
Latest(s, r) == r \in ByJob(s) /\ \A q \in ByJob(s) : q.run <= r.run

\* The beginning of the last hour whose job began or was skipped.
LastStart == (jobHour - 1) * Slots

\* A schedule is due within a period of its latest report. One that no hour passed
\* over was not due when the last hour began, or the job has it in hand, in time.
Covered(s) ==
    /\ \A r \in ByJob(s) : Latest(s, r) => schedules[s].next_run <= r.run + Length
    /\ s \notin passedOver =>
        /\ s \in job.todo => LastStart <= job.now
        /\ \A r \in ByJob(s) : Latest(s, r) =>
              IF s \in job.todo THEN job.now < r.run + Length + Slots + Grace
                                ELSE LastStart < r.run + Length
        /\ \A r \in ByJob(s) :
              \/ Latest(s, r)
              \/ \E n \in ByJob(s) : r.run < n.run /\ n.run < r.run + Length + Slots + Grace

SchedulesAreKept == \A s \in ScheduleIds : Moved(s) /\ Covered(s)

ReportsInv == ReportsTypeOK /\ JobIsKnown /\ RunsFromReports /\ SchedulesAreKept

LEMMA Lengths == Slots \in Nat \ {0} /\ Length \in Nat \ {0} /\ Grace \in Nat
BY ReportsAssumption DEF Length

LEMMA LastStarts ==
    ASSUME jobHour \in Nat
    PROVE  /\ LastStart \in Int
           /\ jobHour * Slots = LastStart + Slots
           /\ jobHour' = jobHour + 1 => LastStart' = LastStart + Slots
<1>1. Slots \in Nat
  BY Lengths
<1>2. (jobHour - 1) * Slots = jobHour * Slots - Slots /\ jobHour * Slots \in Nat
  BY <1>1
<1>3. jobHour' = jobHour + 1 => (jobHour' - 1) * Slots = jobHour * Slots
  OBVIOUS
<1> QED
  BY <1>1, <1>2, <1>3 DEF LastStart

LEMMA ReportsOfType ==
    ASSUME ReportsTypeOK, NEW s
    PROVE  /\ \A r \in ByJob(s) : r \in StoredReport /\ r.at \in Nat /\ r.run \in Nat
           /\ \A t \in Existing : /\ schedules[t] \in Schedule
                                  /\ schedules[t].next_run \in Nat
                                  /\ schedules[t].created_at \in Nat
                                  /\ schedules[t].runs \in BOOLEAN
           /\ \A r \in ByJob(s) : r.schedule = s /\ r \in reports
BY DEF ReportsTypeOK, ByJob, StoredReport, Existing, Schedule

LEMMA MadeOfType ==
    ASSUME ReportsTypeOK, NEW runs \in BOOLEAN
    PROVE  /\ Made(runs) \in Schedule
           /\ Made(runs) # NoSchedule
           /\ Made(runs).next_run = Made(runs).created_at + Length
<1>1. DOMAIN Made(runs) # DOMAIN NoSchedule
  BY DEF Made, NoSchedule
<1> QED
  BY <1>1, Lengths DEF ReportsTypeOK, Made, Schedule

LEMMA ReportsStart == ReportsInit => ReportsInv
<1> SUFFICES ASSUME ReportsInit
             PROVE  ReportsInv
  OBVIOUS
<1>1. ReportsTypeOK
  BY DEF ReportsInit, ReportsTypeOK, Idle
<1>2. Existing = {} /\ \A s : ByJob(s) = {}
  BY DEF ReportsInit, Existing, ByJob
<1>3. JobIsKnown
  BY <1>2 DEF ReportsInit, JobIsKnown, Idle
<1>4. SchedulesAreKept
  BY <1>2 DEF ReportsInit, SchedulesAreKept, Moved, Covered, Idle
<1> QED
  BY <1>1, <1>2, <1>3, <1>4 DEF RunsFromReports, ReportsInv

\* What is not about a schedule, its reports, the job or the hours keeps it.
LEMMA KeptUnread ==
    ASSUME ReportsInv, NEW s \in ScheduleIds,
           ByJob(s)' = ByJob(s),
           ByJob(s) # {} => schedules'[s] = schedules[s],
           UNCHANGED <<job, jobHour, passedOver, unmoved>>
    PROVE  Moved(s)' /\ Covered(s)'
<1>1. Moved(s) /\ Covered(s)
  BY DEF ReportsInv, SchedulesAreKept
<1>2. LastStart' = LastStart
  BY DEF LastStart
<1>3. Moved(s)'
  BY <1>1 DEF Moved, Length
<1>4. Covered(s)'
  BY <1>1, <1>2 DEF Covered, Latest, Length
<1> QED
  BY <1>3, <1>4

LEMMA InitializeKeeps == ASSUME ReportsInv, Initialize PROVE ReportsInv'
<1>1. /\ ReportsTypeOK /\ reports = {} /\ job = Idle
      /\ \A s \in ScheduleIds : schedules[s] = NoSchedule
  BY DEF ReportsInv, JobIsKnown, Initialize
<1>2. \A s \in ScheduleIds : schedules'[s] \in {Made(TRUE), NoSchedule}
  BY DEF Initialize
<1>3. ReportsTypeOK'
  BY <1>1, MadeOfType DEF Initialize, ReportsTypeOK
<1>4. /\ reports' = {} /\ job' = Idle /\ \A s : ByJob(s) = {} /\ ByJob(s)' = {}
      /\ moment' = moment /\ moment \in Nat /\ client' # "unknown"
  BY <1>1 DEF Initialize, ByJob, ReportsTypeOK
<1>5. JobIsKnown'
  BY <1>4 DEF JobIsKnown, Idle
<1>6. RunsFromReports'
  BY <1>1, <1>2, MadeOfType DEF RunsFromReports, Length, Existing
<1>7. SchedulesAreKept'
  BY <1>4, KeptUnread DEF Initialize, SchedulesAreKept
<1> QED
  BY <1>3, <1>5, <1>6, <1>7 DEF ReportsInv

LEMMA CreateKeeps ==
    ASSUME ReportsInv, NEW s \in ScheduleIds, CreateSchedule(s)
    PROVE  ReportsInv'
<1>1. ReportsTypeOK /\ JobIsKnown /\ RunsFromReports
  BY DEF ReportsInv
<1>2. PICK runs \in BOOLEAN : schedules' = [schedules EXCEPT ![s] = Made(runs)]
  BY DEF CreateSchedule
<1>3. PICK m \in Schedule : m = Made(runs) /\ m # NoSchedule /\ m.next_run = m.created_at + Length
  BY <1>1, MadeOfType
<1>4. ReportsTypeOK'
  BY <1>1, <1>2, <1>3 DEF CreateSchedule, ReportsTypeOK
<1>5. /\ Existing' = Existing \union {s} /\ s \notin Existing
      /\ \A t \in ScheduleIds \ {s} : schedules'[t] = schedules[t]
      /\ schedules'[s] = m
  BY <1>1, <1>2, <1>3 DEF CreateSchedule, Existing, ReportsTypeOK
<1>6. (\A t : ByJob(t)' = ByJob(t)) /\ ByJob(s) = {}
  BY <1>1, <1>5 DEF CreateSchedule, ByJob, JobIsKnown
<1>7. s \notin job.todo \union job.stored
  BY <1>1, <1>5 DEF JobIsKnown
<1>8. JobIsKnown'
  <2>1. UNCHANGED <<client, moment, reports, job>> /\ client # "unknown"
    BY DEF CreateSchedule
  <2>2. \A t \in ScheduleIds : ByJob(t)' # {} => schedules'[t].runs
    BY <1>1, <1>5, <1>6 DEF JobIsKnown
  <2>3. /\ \A t \in job.todo : schedules'[t].runs /\ schedules'[t].next_run <= job.now
        /\ \A t \in job.stored : schedules'[t].runs
    BY <1>1, <1>5, <1>7 DEF JobIsKnown, ReportsTypeOK
  <2>4. client = "native" => \A t \in job.stored : \E r \in ByJob(t)' : r.run = job.now
    BY <1>1, <1>6 DEF JobIsKnown
  <2>5. job # Idle => \A t \in ScheduleIds : \A r \in ByJob(t)' : r.run <= job.now
    BY <1>1, <1>6 DEF JobIsKnown
  <2> QED
    BY <1>1, <1>5, <2>1, <2>2, <2>3, <2>4, <2>5 DEF JobIsKnown, Idle
<1>9. RunsFromReports'
  BY <1>1, <1>3, <1>5, <1>6 DEF RunsFromReports, Length, Existing
<1>10. SchedulesAreKept'
  BY <1>5, <1>6, KeptUnread DEF CreateSchedule, SchedulesAreKept
<1> QED
  BY <1>4, <1>8, <1>9, <1>10 DEF ReportsInv

\* A step that changes no schedule and no report of a job keeps where next_run
\* counts from.
LEMMA RunsUnread ==
    ASSUME ReportsInv, UNCHANGED schedules, \A s : ByJob(s)' = ByJob(s)
    PROVE  RunsFromReports' /\ Existing' = Existing
BY DEF ReportsInv, RunsFromReports, Existing, Length

LEMMA RunNowKeeps ==
    ASSUME ReportsInv, NEW s \in ScheduleIds, RunNow(s)
    PROVE  ReportsInv'
<1>1. ReportsTypeOK /\ JobIsKnown
  BY DEF ReportsInv
<1>2. UNCHANGED <<client, moment, jobHour, schedules, job, failures, passedOver, unmoved>>
  BY DEF RunNow
<1>3. PICK n : n = Report(s, moment, "request")
  OBVIOUS
<1>4. n \in StoredReport /\ n.schedule = s /\ n.run = moment /\ n.at = moment /\ n.by = "request"
  BY <1>1, <1>3 DEF ReportsTypeOK, Report, StoredReport
<1>5. /\ reports' \in {reports, reports \union {n}}
      /\ client # "native" => reports' = reports
      /\ s \in Existing
  BY <1>3 DEF RunNow, Takes, Listings
<1>6. \A t : ByJob(t)' = ByJob(t)
  BY <1>4, <1>5 DEF ByJob
<1>7. ReportsTypeOK'
  BY <1>1, <1>2, <1>4, <1>5 DEF ReportsTypeOK
<1>8. RunsFromReports' /\ Existing' = Existing
  BY <1>2, <1>6, RunsUnread
<1>9. JobIsKnown'
  <2>1. \A r \in reports' : r.run <= r.at /\ r.at <= moment /\ r.schedule \in Existing
    BY <1>1, <1>4, <1>5 DEF JobIsKnown, ReportsTypeOK
  <2> QED
    BY <1>1, <1>2, <1>5, <1>6, <1>8, <2>1 DEF JobIsKnown
<1>10. SchedulesAreKept'
  BY <1>2, <1>6, KeptUnread DEF SchedulesAreKept
<1> QED
  BY <1>7, <1>8, <1>9, <1>10 DEF ReportsInv

LEMMA PassKeeps == ASSUME ReportsInv, Pass PROVE ReportsInv'
<1>1. ReportsTypeOK /\ JobIsKnown
  BY DEF ReportsInv
<1>2. /\ UNCHANGED <<client, jobHour, schedules, reports, job, failures, passedOver, unmoved>>
      /\ moment' = moment + 1 /\ moment \in Nat
  BY <1>1 DEF Pass, ReportsTypeOK
<1>3. \A t : ByJob(t)' = ByJob(t)
  BY <1>2 DEF ByJob
<1>4. ReportsTypeOK' /\ RunsFromReports' /\ Existing' = Existing
  BY <1>1, <1>2, <1>3, RunsUnread DEF ReportsTypeOK
<1>5. JobIsKnown'
  <2>1. job.now <= moment'
    BY <1>1, <1>2 DEF JobIsKnown, ReportsTypeOK
  <2>2. \A r \in reports : r.at <= moment'
    BY <1>1, <1>2 DEF JobIsKnown, ReportsTypeOK, StoredReport
  <2> QED
    BY <1>1, <1>2, <1>3, <1>4, <2>1, <2>2 DEF JobIsKnown
<1>6. SchedulesAreKept'
  BY <1>2, <1>3, KeptUnread DEF SchedulesAreKept
<1> QED
  BY <1>4, <1>5, <1>6 DEF ReportsInv

\* An hour's job begins or is skipped: what is due and not taken was passed over.
LEMMA HourGoes ==
    ASSUME ReportsInv, jobHour' = jobHour + 1, jobHour * Slots <= moment,
           UNCHANGED <<client, moment, schedules, reports, unmoved>>,
           failures' \in Nat,
           passedOver \subseteq passedOver', Due \subseteq passedOver' \union job'.todo,
           \/ /\ job' = job
              /\ Due \subseteq passedOver'
           \/ /\ job = Idle
              /\ moment <= jobHour * Slots + Grace
              /\ job' = Idle \/ (job'.now = moment /\ job'.stored = {} /\ job'.todo \subseteq Due)
              /\ job' \in [now : Nat, todo : SUBSET ScheduleIds, stored : SUBSET ScheduleIds],
           client # "unknown" \/ job' = job
    PROVE  ReportsInv'
<1>1. ReportsTypeOK /\ JobIsKnown
  BY DEF ReportsInv
<1>2. \A t : ByJob(t)' = ByJob(t)
  BY DEF ByJob
<1>3. RunsFromReports' /\ Existing' = Existing
  BY <1>2, RunsUnread
<1>4. ReportsTypeOK'
  BY <1>1 DEF ReportsTypeOK
<1>5. moment \in Nat /\ job'.todo \subseteq job.todo \union Due /\ job'.stored \subseteq job.stored
  BY <1>1 DEF ReportsTypeOK, Idle
<1>6. JobIsKnown'
  <2>1. CASE job' = job
    BY <1>1, <1>2, <1>3, <2>1 DEF JobIsKnown
  <2>2. CASE job' = Idle
    BY <1>1, <1>2, <1>3, <1>5, <2>2 DEF JobIsKnown, Idle
  <2>3. CASE job'.now = moment /\ job'.stored = {} /\ job'.todo \subseteq Due
    <3>1. \A s \in ScheduleIds : \A r \in ByJob(s) : r.run <= moment
      BY <1>1, <1>5, ReportsOfType DEF JobIsKnown
    <3>2. \A s \in job'.todo : s \in Existing /\ schedules[s].runs /\ schedules[s].next_run <= moment
      BY <2>3 DEF Due
    <3> QED
      BY <1>1, <1>2, <1>3, <1>5, <2>3, <3>1, <3>2 DEF JobIsKnown
  <2> QED
    BY <2>1, <2>2, <2>3
<1>7. ASSUME NEW s \in ScheduleIds
      PROVE  Moved(s)' /\ Covered(s)'
  <2>1. Moved(s) /\ Covered(s) /\ ByJob(s)' = ByJob(s)
    BY <1>2 DEF ReportsInv, SchedulesAreKept
  <2>2. Moved(s)'
    <3>1. s \notin job'.stored => s \notin job.stored \/ job = Idle \/ job' = job
      OBVIOUS
    <3>2. job = Idle => s \notin job.stored
      BY DEF Idle
    <3>3. s \notin job'.stored => s \notin job.stored
      BY <3>1, <3>2
    <3> QED
      BY <2>1, <3>3 DEF Moved, Length
  <2>3. PICK L \in Int : L = LastStart /\ jobHour * Slots = L + Slots /\ LastStart' = L + Slots
    BY <1>1, LastStarts DEF ReportsTypeOK
  <2>4. ASSUME NEW r \in ByJob(s), Latest(s, r)
        PROVE  /\ r.run \in Nat /\ schedules[s].next_run \in Nat
               /\ schedules[s].next_run <= r.run + Length
               /\ s \in Existing /\ schedules[s].runs
    BY <1>1, <2>1, <2>4, ReportsOfType DEF Covered, JobIsKnown
  <2>5. ASSUME s \notin passedOver', s \in job'.todo
        PROVE  /\ job'.now = moment /\ job = Idle /\ moment <= jobHour * Slots + Grace
               /\ s \notin job.todo
    <3>1. s \notin job.todo \/ job' # job
      <4> SUFFICES ASSUME s \in job.todo, job' = job
                   PROVE  FALSE
        OBVIOUS
      <4>1. s \notin Due
        BY <2>5, <1>5 DEF Idle
      <4>2. s \in Existing /\ schedules[s].runs /\ schedules[s].next_run <= job.now /\ job.now <= moment
        BY <1>1 DEF JobIsKnown
      <4>3. schedules[s].next_run \in Nat /\ job.now \in Nat
        BY <1>1, <4>2, ReportsOfType DEF ReportsTypeOK
      <4> QED
        BY <1>5, <4>1, <4>2, <4>3 DEF Due
    <3>2. job' # Idle
      BY <2>5 DEF Idle
    <3>3. job = Idle => s \notin job.todo
      BY DEF Idle
    <3> QED
      BY <2>5, <3>1, <3>2, <3>3
  <2>6. ASSUME s \notin passedOver', NEW r \in ByJob(s), Latest(s, r)
        PROVE  IF s \in job'.todo THEN job'.now < r.run + Length + Slots + Grace
                                  ELSE L + Slots < r.run + Length
    <3>1. CASE s \in job'.todo
      <4>1. L < r.run + Length
        BY <2>1, <2>3, <2>5, <2>6, <3>1 DEF Covered
      <4> QED
        BY <1>5, <2>3, <2>4, <2>5, <2>6, <3>1, <4>1, Lengths
    <3>2. CASE s \notin job'.todo
      <4>1. s \notin Due
        BY <2>6, <3>2
      <4>2. moment < schedules[s].next_run
        BY <1>5, <2>4, <2>6, <4>1 DEF Due
      <4> QED
        BY <1>5, <2>3, <2>4, <2>6, <3>2, <4>2, Lengths
    <3> QED
      BY <3>1, <3>2
  <2>7. s \notin passedOver' /\ s \in job'.todo => L + Slots <= job'.now
    BY <2>3, <2>5
  <2>8. \A r : Latest(s, r)' <=> Latest(s, r)
    BY <2>1 DEF Latest
  <2>9. Covered(s)'
    <3>1. \A r \in ByJob(s) : Latest(s, r) => schedules'[s].next_run <= r.run + Length
      BY <2>4
    <3>2. s \notin passedOver' =>
              \A r \in ByJob(s) :
                 \/ Latest(s, r)
                 \/ \E n \in ByJob(s) : r.run < n.run /\ n.run < r.run + Length + Slots + Grace
      BY <2>1 DEF Covered
    <3> QED
      BY <2>1, <2>3, <2>6, <2>7, <2>8, <3>1, <3>2 DEF Covered, Length
  <2> QED
    BY <2>2, <2>9
<1>8. SchedulesAreKept'
  BY <1>7 DEF SchedulesAreKept
<1> QED
  BY <1>3, <1>4, <1>6, <1>8 DEF ReportsInv

LEMMA BeginKeeps == ASSUME ReportsInv, BeginJob PROVE ReportsInv'
<1>1. moment \in Nat /\ failures \in Nat /\ Due \subseteq ScheduleIds
  BY DEF ReportsInv, ReportsTypeOK, Due, Existing
<1>2. failures' \in Nat
  BY <1>1 DEF BeginJob, Raises
<1>3. /\ passedOver \subseteq passedOver'
      /\ Due \subseteq passedOver' \union job'.todo
      /\ job' = Idle \/ (job'.now = moment /\ job'.stored = {} /\ job'.todo \subseteq Due)
      /\ job' \in [now : Nat, todo : SUBSET ScheduleIds, stored : SUBSET ScheduleIds]
  <2>1. ASSUME NEW shown \in Listings,
               job' = [now |-> moment, todo |-> Due \intersect shown, stored |-> {}],
               passedOver' = passedOver \union (Due \ shown)
        PROVE  /\ passedOver \subseteq passedOver'
               /\ Due \subseteq passedOver' \union job'.todo
               /\ job'.now = moment /\ job'.stored = {} /\ job'.todo \subseteq Due
               /\ job' \in [now : Nat, todo : SUBSET ScheduleIds, stored : SUBSET ScheduleIds]
    BY <1>1, <2>1
  <2>2. CASE passedOver' = passedOver \union Due /\ job' = job
    BY <2>2 DEF BeginJob, ReportsInv, ReportsTypeOK
  <2> QED
    BY <2>1, <2>2 DEF BeginJob
<1>4. /\ jobHour' = jobHour + 1 /\ jobHour * Slots <= moment /\ moment <= jobHour * Slots + Grace
      /\ UNCHANGED <<client, moment, schedules, reports, unmoved>>
      /\ client # "unknown" /\ job = Idle
  BY DEF BeginJob
<1> QED
  BY <1>2, <1>3, <1>4, HourGoes

LEMMA SkipKeeps == ASSUME ReportsInv, SkipJob PROVE ReportsInv'
<1>1. failures' \in Nat
  BY DEF ReportsInv, ReportsTypeOK, SkipJob
<1> QED
  BY <1>1, HourGoes DEF SkipJob

\* The job lets go of schedules: they are passed over, or were stored.
LEMMA LetGo ==
    ASSUME ReportsInv, UNCHANGED <<client, moment, jobHour, schedules, reports>>,
           failures' \in Nat, job' = Idle,
           passedOver \union job.todo \subseteq passedOver',
           unmoved \union job.stored \subseteq unmoved'
    PROVE  ReportsInv'
<1>1. ReportsTypeOK /\ JobIsKnown
  BY DEF ReportsInv
<1>2. \A t : ByJob(t)' = ByJob(t)
  BY DEF ByJob
<1>3. RunsFromReports' /\ Existing' = Existing
  BY <1>2, RunsUnread
<1>4. ReportsTypeOK'
  BY <1>1 DEF ReportsTypeOK, Idle
<1>5. JobIsKnown'
  BY <1>1, <1>2, <1>3 DEF JobIsKnown, Idle, ReportsTypeOK
<1>6. ASSUME NEW s \in ScheduleIds
      PROVE  Moved(s)' /\ Covered(s)'
  <2>1. Moved(s) /\ Covered(s) /\ ByJob(s)' = ByJob(s) /\ LastStart' = LastStart
    BY <1>2 DEF ReportsInv, SchedulesAreKept, LastStart
  <2>2. s \notin job'.todo /\ s \notin job'.stored
    BY DEF Idle
  <2>3. Moved(s)'
    BY <2>1, <2>2 DEF Moved, Length
  <2>4. Covered(s)'
    BY <2>1, <2>2 DEF Covered, Latest, Length
  <2> QED
    BY <2>3, <2>4
<1> QED
  BY <1>3, <1>4, <1>5, <1>6 DEF SchedulesAreKept, ReportsInv

LEMMA EndKeeps == ASSUME ReportsInv, EndJob PROVE ReportsInv'
<1>1. failures' \in Nat
  BY DEF EndJob, ReportsInv, ReportsTypeOK
<1> QED
  BY <1>1, LetGo DEF EndJob

LEMMA RestartKeeps == ASSUME ReportsInv, Restart PROVE ReportsInv'
<1>1. failures' \in Nat
  BY DEF Restart, Raises, ReportsInv, ReportsTypeOK
<1> QED
  BY <1>1, LetGo DEF Restart

LEMMA StoreKeeps ==
    ASSUME ReportsInv, NEW s \in ScheduleIds, StoreReport(s)
    PROVE  ReportsInv'
<1>1. ReportsTypeOK /\ JobIsKnown
  BY DEF ReportsInv
<1>2. /\ s \in job.todo /\ s \in Existing /\ s \notin job.stored /\ job.stored = {} /\ job # Idle
      /\ moment \in Nat /\ failures \in Nat /\ job.now \in Nat /\ job.now <= moment
      /\ client # "unknown"
  BY <1>1 DEF StoreReport, JobIsKnown, ReportsTypeOK, Idle
<1>3. PICK n \in StoredReport : n = Report(s, job.now, "job")
  BY <1>2 DEF Report, StoredReport
<1>4. n.schedule = s /\ n.run = job.now /\ n.at = moment /\ n.by = "job"
  BY <1>3 DEF Report
<1>5. /\ UNCHANGED <<client, moment, jobHour, schedules, unmoved>>
      /\ Existing' = Existing
  BY DEF StoreReport, Existing
<1>6. job \in [now : Nat, todo : SUBSET ScheduleIds, stored : SUBSET ScheduleIds]
  BY <1>1 DEF ReportsTypeOK
<1>7. \/ /\ reports' = IF client = "native" THEN reports \union {n} ELSE reports
         /\ job' = [job EXCEPT !.todo = @ \ {s}, !.stored = @ \union {s}]
         /\ failures' = failures /\ passedOver' = passedOver
      \/ /\ failures' = failures + 1
         /\ job' = [job EXCEPT !.todo = @ \ {s}]
         /\ passedOver' = passedOver \union {s}
         /\ reports' = reports
  BY <1>3 DEF StoreReport, Raises, Takes
<1>8. /\ job'.now = job.now /\ job'.todo = job.todo \ {s}
      /\ job' \in [now : Nat, todo : SUBSET ScheduleIds, stored : SUBSET ScheduleIds]
      /\ failures' \in Nat
  <2>1. CASE /\ job' = [job EXCEPT !.todo = @ \ {s}, !.stored = @ \union {s}]
             /\ failures' = failures
    BY <1>2, <1>6, <2>1
  <2>2. CASE /\ job' = [job EXCEPT !.todo = @ \ {s}]
             /\ failures' = failures + 1
    BY <1>2, <1>6, <2>2
  <2> QED
    BY <1>7, <2>1, <2>2
<1>9. \/ /\ job'.stored = {s} /\ passedOver' = passedOver
         /\ reports' = IF client = "native" THEN reports \union {n} ELSE reports
      \/ /\ job'.stored = {} /\ s \in passedOver' /\ passedOver \subseteq passedOver'
         /\ reports' = reports
  BY <1>2, <1>6, <1>7
<1>10. ReportsTypeOK'
  BY <1>1, <1>5, <1>8, <1>9 DEF ReportsTypeOK
<1>11. /\ \A t \in ScheduleIds \ {s} : ByJob(t)' = ByJob(t)
       /\ ByJob(s)' \in {ByJob(s), ByJob(s) \union {n}}
       /\ job'.stored = {s} /\ client = "native" => ByJob(s)' = ByJob(s) \union {n}
       /\ job'.stored = {} => ByJob(s)' = ByJob(s)
  BY <1>4, <1>9 DEF ByJob
<1>12. JobIsKnown'
  <2>1. client' # "native" => reports' = {}
    BY <1>1, <1>5, <1>9 DEF JobIsKnown
  <2>2. \A r \in reports' : r.run <= r.at /\ r.at <= moment /\ r.schedule \in Existing
    BY <1>1, <1>2, <1>4, <1>9 DEF JobIsKnown
  <2>3. \A t \in ScheduleIds : ByJob(t)' # {} => schedules[t].runs
    BY <1>1, <1>2, <1>11 DEF JobIsKnown
  <2>4. /\ job'.todo \union job'.stored \subseteq Existing
        /\ job'.todo \intersect job'.stored = {}
        /\ \A t \in job'.todo : schedules[t].runs /\ schedules[t].next_run <= job.now
        /\ \A t \in job'.stored : schedules[t].runs
    BY <1>1, <1>2, <1>8, <1>9 DEF JobIsKnown
  <2>5. client = "native" => \A t \in job'.stored : \E r \in ByJob(t)' : r.run = job.now
    BY <1>4, <1>9, <1>11
  <2>6. \A t \in ScheduleIds : \A r \in ByJob(t)' : r.run <= job.now
    BY <1>1, <1>2, <1>4, <1>11 DEF JobIsKnown
  <2> QED
    BY <1>2, <1>5, <1>8, <2>1, <2>2, <2>3, <2>4, <2>5, <2>6 DEF JobIsKnown
<1>13. RunsFromReports'
  <2>1. \A t \in ScheduleIds : ByJob(t) \subseteq ByJob(t)'
    BY <1>11
  <2> QED
    BY <1>5, <2>1 DEF ReportsInv, RunsFromReports, Length, Existing
<1>14. ASSUME NEW t \in ScheduleIds \ {s}
       PROVE  Moved(t)' /\ Covered(t)'
  <2>1. Moved(t) /\ Covered(t) /\ ByJob(t)' = ByJob(t) /\ LastStart' = LastStart
    BY <1>5, <1>11 DEF ReportsInv, SchedulesAreKept, LastStart
  <2>2. (t \in job'.todo <=> t \in job.todo) /\ t \notin job.stored
    BY <1>2, <1>8
  <2>3. passedOver \subseteq passedOver'
    BY <1>9
  <2>4. Moved(t)'
    BY <1>5, <2>1, <2>2 DEF Moved, Length
  <2>5. Covered(t)'
    BY <1>5, <1>8, <2>1, <2>2, <2>3 DEF Covered, Latest, Length
  <2> QED
    BY <2>4, <2>5
\* The new report's job began after those of the schedule's other reports.
<1>15. Moved(s)' /\ Covered(s)'
  <2>1. Moved(s) /\ Covered(s) /\ LastStart' = LastStart /\ LastStart \in Int
    BY <1>1, <1>5, LastStarts DEF ReportsInv, SchedulesAreKept, LastStart, ReportsTypeOK
  <2>2. PICK B : B = ByJob(s)
    OBVIOUS
  <2>3. /\ \A r \in B : r.run \in Nat /\ r.at \in Nat /\ r.run <= job.now
        /\ schedules[s].next_run \in Nat /\ schedules[s].next_run <= job.now
    BY <1>1, <1>2, <2>2, ReportsOfType DEF JobIsKnown
  <2>4. CASE ByJob(s)' = B /\ (B = {} \/ s \in passedOver')
    <3>1. s \notin job.stored /\ s \notin job'.todo
      BY <1>2, <1>8
    <3>2. Moved(s)'
      BY <1>5, <2>1, <2>2, <2>4, <3>1 DEF Moved, Length
    <3>3. Covered(s)'
      BY <1>5, <1>8, <2>1, <2>2, <2>4, <3>1 DEF Covered, Latest, Length
    <3> QED
      BY <3>2, <3>3
  <2>5. CASE ByJob(s)' = B \union {n} /\ job'.stored = {s}
    <3>1. PICK C : C = ByJob(s)' /\ C = B \union {n}
      BY <2>5
    <3>2. \A r \in C : r.run \in Nat /\ r.at \in Nat /\ r.run <= n.run
      BY <1>2, <1>4, <2>3, <3>1
    <3>3. \A r : Latest(s, r)' <=> r \in C /\ r.run = n.run
      BY <1>2, <1>4, <3>1, <3>2 DEF Latest
    <3>4. s \notin job'.todo
      BY <1>8
    <3>5. ASSUME s \notin unmoved
          PROVE  \A r, q \in C : r # q /\ r.run <= q.run => r.run + Length <= q.at
      <4>1. \A r \in B : r.run + Length <= job.now /\ r.run < job.now
        <5>1. \A r \in B : r.run + Length <= schedules[s].next_run
          BY <1>2, <2>1, <2>2, <3>5 DEF Moved
        <5> QED
          BY <1>2, <2>3, <5>1, Lengths
      <4>2. \A r, q \in B : r # q /\ r.run <= q.run => r.run + Length <= q.at
        BY <2>1, <2>2, <3>5 DEF Moved
      <4>3. \A r \in B : r.run + Length <= n.at /\ ~(n.run <= r.run)
        BY <1>2, <1>4, <2>3, <4>1, Lengths
      <4> QED
        BY <3>1, <4>2, <4>3
    <3>6. Moved(s)'
      BY <1>5, <2>5, <3>1, <3>5 DEF Moved, Length
    <3>7. \A r \in C : r.run = n.run => schedules[s].next_run <= r.run + Length
      BY <1>2, <1>4, <2>3, Lengths
    <3>8. ASSUME s \notin passedOver'
          PROVE  /\ \A r \in C : r.run = n.run => LastStart < r.run + Length
                 /\ \A r \in C : \/ r.run = n.run
                                 \/ \E x \in C : r.run < x.run /\ x.run < r.run + Length + Slots + Grace
      <4>1. s \notin passedOver
        BY <1>9, <3>8
      <4>2. LastStart <= job.now
        BY <1>2, <2>1, <4>1 DEF Covered
      <4>3. ASSUME NEW r \in C, r.run # n.run
            PROVE  \E x \in C : r.run < x.run /\ x.run < r.run + Length + Slots + Grace
        <5>1. r \in B /\ r.run < n.run
          BY <1>2, <1>4, <3>1, <3>2, <4>3
        <5>2. CASE Latest(s, r)
          <6>1. job.now < r.run + Length + Slots + Grace
            BY <1>2, <2>1, <2>2, <4>1, <5>1, <5>2 DEF Covered
          <6> QED
            BY <1>4, <3>1, <5>1, <6>1
        <5>3. CASE ~Latest(s, r)
          BY <2>1, <2>2, <3>1, <4>1, <5>1, <5>3 DEF Covered
        <5> QED
          BY <5>2, <5>3
      <4>4. \A r \in C : r.run = n.run => LastStart < r.run + Length
        BY <1>2, <1>4, <2>1, <4>2, Lengths
      <4> QED
        BY <4>3, <4>4
    <3>9. Covered(s)'
      BY <1>5, <2>1, <3>1, <3>3, <3>4, <3>7, <3>8 DEF Covered, Length
    <3> QED
      BY <3>6, <3>9
  <2>6. client # "native" => B = {}
    BY <1>1, <2>2 DEF JobIsKnown, ByJob
  <2>7. client # "native" => ByJob(s)' = B
    BY <1>9, <2>2 DEF ByJob
  <2> QED
    BY <1>9, <1>11, <2>2, <2>4, <2>5, <2>6, <2>7
<1> QED
  BY <1>10, <1>12, <1>13, <1>14, <1>15 DEF SchedulesAreKept, ReportsInv

LEMMA UpdateScheduleKeeps ==
    ASSUME ReportsInv, NEW s \in ScheduleIds, UpdateSchedule(s)
    PROVE  ReportsInv'
<1>1. ReportsTypeOK /\ JobIsKnown
  BY DEF ReportsInv
<1>2. /\ s \in job.stored /\ s \in Existing /\ s \notin job.todo /\ job # Idle
      /\ job.now \in Nat /\ job.now <= moment /\ client # "unknown"
      /\ schedules[s] \in Schedule /\ job.now + Length \in Nat
  BY <1>1, ReportsOfType, Lengths DEF UpdateSchedule, MayMove, JobIsKnown, Idle, ReportsTypeOK
<1>3. /\ job'.now = job.now /\ job'.todo = job.todo /\ job'.stored = job.stored \ {s}
      /\ job' \in [now : Nat, todo : SUBSET ScheduleIds, stored : SUBSET ScheduleIds]
      /\ failures' \in Nat
      /\ UNCHANGED <<client, moment, jobHour, reports, passedOver>>
  BY <1>1 DEF UpdateSchedule, Raises, ReportsTypeOK
<1>4. PICK x : x = [schedules[s] EXCEPT !.next_run = job.now + Length]
  OBVIOUS
<1>5. /\ x \in Schedule /\ x.next_run = job.now + Length /\ x.created_at = schedules[s].created_at
      /\ x.runs = schedules[s].runs /\ x # NoSchedule
  <2>1. /\ x \in Schedule /\ x.next_run = job.now + Length /\ x.created_at = schedules[s].created_at
        /\ x.runs = schedules[s].runs
    BY <1>2, <1>4 DEF Schedule
  <2>2. DOMAIN x = {"created_at", "next_run", "runs"} /\ DOMAIN NoSchedule = {"absent"}
    BY <2>1 DEF Schedule, NoSchedule
  <2> QED
    BY <2>1, <2>2
<1>6. \/ schedules' = schedules /\ unmoved' = unmoved \union {s}
      \/ schedules' = schedules /\ unmoved' = unmoved /\ client # "native"
      \/ schedules' = [schedules EXCEPT ![s] = x] /\ unmoved' = unmoved /\ client = "native"
  BY <1>2, <1>4 DEF UpdateSchedule, Takes, NextRun
<1>7. /\ schedules' \in [ScheduleIds -> Schedule \union {NoSchedule}]
      /\ Existing' = Existing
      /\ \A t \in ScheduleIds \ {s} : schedules'[t] = schedules[t]
      /\ schedules'[s] \in {schedules[s], x}
  <2>1. CASE schedules' = schedules
    BY <1>1, <2>1 DEF ReportsTypeOK, Existing
  <2>2. CASE schedules' = [schedules EXCEPT ![s] = x]
    BY <1>1, <1>2, <1>5, <2>2 DEF ReportsTypeOK, Existing
  <2> QED
    BY <1>6, <2>1, <2>2
<1>8. ReportsTypeOK'
  BY <1>1, <1>3, <1>7 DEF ReportsTypeOK
<1>9. \A t : ByJob(t)' = ByJob(t)
  BY <1>3 DEF ByJob
<1>10. JobIsKnown'
  <2>1. \A t \in ScheduleIds : schedules'[t].runs = schedules[t].runs
    BY <1>5, <1>7
  <2>2. \A t \in job.todo : schedules'[t] = schedules[t]
    BY <1>1, <1>2, <1>7 DEF ReportsTypeOK
  <2>3. /\ \A t \in ScheduleIds : ByJob(t)' # {} => schedules'[t].runs
        /\ \A t \in job'.todo : schedules'[t].runs /\ schedules'[t].next_run <= job'.now
        /\ \A t \in job'.stored : schedules'[t].runs
    BY <1>1, <1>3, <1>9, <2>1, <2>2 DEF JobIsKnown, ReportsTypeOK
  <2>4. /\ job'.todo \union job'.stored \subseteq Existing'
        /\ job'.todo \intersect job'.stored = {} /\ job'.now <= moment'
        /\ \A r \in reports' : r.run <= r.at /\ r.at <= moment' /\ r.schedule \in Existing'
        /\ client' # "native" => reports' = {}
    BY <1>1, <1>3, <1>7 DEF JobIsKnown
  <2>5. /\ client' = "native" => \A t \in job'.stored : \E r \in ByJob(t)' : r.run = job'.now
        /\ \A t \in ScheduleIds : \A r \in ByJob(t)' : r.run <= job'.now
    BY <1>1, <1>2, <1>3, <1>9 DEF JobIsKnown
  <2> QED
    BY <1>2, <1>3, <2>3, <2>4, <2>5 DEF JobIsKnown
\* What the job stored of the schedule is its latest report.
<1>11. /\ \A r \in ByJob(s) : r.run \in Nat /\ r.run <= job.now
       /\ client = "native" => \E r \in ByJob(s) : r.run = job.now
       /\ client # "native" => ByJob(s) = {}
  BY <1>1, <1>2, ReportsOfType DEF JobIsKnown, ByJob
<1>12. RunsFromReports'
  <2>1. ASSUME NEW t \in Existing \ {s}
        PROVE  \/ schedules'[t].next_run = schedules'[t].created_at + Length
               \/ \E r \in ByJob(t) : schedules'[t].next_run = r.run + Length
    BY <1>7, <2>1 DEF ReportsInv, RunsFromReports, Existing
  <2>2. \/ schedules'[s].next_run = schedules'[s].created_at + Length
        \/ \E r \in ByJob(s) : schedules'[s].next_run = r.run + Length
    <3>1. CASE schedules' = schedules
      BY <1>2, <3>1 DEF ReportsInv, RunsFromReports
    <3>2. CASE schedules' = [schedules EXCEPT ![s] = x] /\ client = "native"
      <4>1. schedules'[s] = x
        BY <1>1, <3>2 DEF ReportsTypeOK
      <4> QED
        BY <1>5, <1>11, <3>2, <4>1
    <3> QED
      BY <1>6, <3>1, <3>2
  <2> QED
    BY <1>7, <1>9, <2>1, <2>2 DEF RunsFromReports, Length
<1>13. unmoved \subseteq unmoved' /\ LastStart' = LastStart /\ passedOver' = passedOver
  BY <1>3, <1>6 DEF LastStart
<1>14. ASSUME NEW t \in ScheduleIds \ {s}
       PROVE  Moved(t)' /\ Covered(t)'
  <2>1. Moved(t) /\ Covered(t) /\ ByJob(t)' = ByJob(t) /\ schedules'[t] = schedules[t]
    BY <1>7, <1>9 DEF ReportsInv, SchedulesAreKept
  <2>2. (t \in job'.stored <=> t \in job.stored) /\ (t \in job'.todo <=> t \in job.todo)
    BY <1>3
  <2>3. Moved(t)'
    BY <1>13, <2>1, <2>2 DEF Moved, Length
  <2>4. Covered(t)'
    BY <1>3, <1>13, <2>1, <2>2 DEF Covered, Latest, Length
  <2> QED
    BY <2>3, <2>4
<1>15. Moved(s)' /\ Covered(s)'
  <2>1. Moved(s) /\ Covered(s) /\ ByJob(s)' = ByJob(s)
    BY <1>9 DEF ReportsInv, SchedulesAreKept
  <2>2. schedules'[s] \in {schedules[s], x} /\ (s \notin unmoved' /\ client = "native" => schedules'[s] = x)
    BY <1>1, <1>6, <1>7 DEF ReportsTypeOK
  <2>3. ASSUME NEW r \in ByJob(s), s \notin unmoved'
        PROVE  r.run + Length <= schedules'[s].next_run
    BY <1>2, <1>5, <1>11, <2>2, <2>3, Lengths
  <2>4. ASSUME NEW r \in ByJob(s), Latest(s, r)
        PROVE  schedules'[s].next_run <= r.run + Length
    <3>1. CASE schedules'[s] = schedules[s]
      BY <2>1, <2>4, <3>1 DEF Covered
    <3>2. CASE schedules'[s] = x
      <4>1. job.now <= r.run
        BY <1>11, <2>4 DEF Latest
      <4> QED
        BY <1>2, <1>5, <1>11, <3>2, <4>1, Lengths
    <3> QED
      BY <2>2, <3>1, <3>2
  <2>5. Moved(s)'
    BY <1>13, <2>1, <2>3 DEF Moved, Length
  <2>6. Covered(s)'
    BY <1>2, <1>3, <1>13, <2>1, <2>4 DEF Covered, Latest, Length
  <2> QED
    BY <2>5, <2>6
<1> QED
  BY <1>8, <1>10, <1>12, <1>14, <1>15 DEF SchedulesAreKept, ReportsInv

LEMMA ReportsStep == ReportsInv /\ [ReportsNext]_reportVars => ReportsInv'
<1> SUFFICES ASSUME ReportsInv, [ReportsNext]_reportVars
             PROVE  ReportsInv'
  OBVIOUS
<1>1. CASE ReportsNext
  BY <1>1, InitializeKeeps, BeginKeeps, SkipKeeps, EndKeeps, RestartKeeps, PassKeeps,
     CreateKeeps, StoreKeeps, UpdateScheduleKeeps, RunNowKeeps DEF ReportsNext
<1>2. CASE UNCHANGED reportVars
  <2>1. \A s : ByJob(s)' = ByJob(s)
    BY <1>2 DEF ByJob, reportVars
  <2>2. RunsFromReports' /\ Existing' = Existing
    BY <1>2, <2>1, RunsUnread DEF reportVars
  <2>3. SchedulesAreKept'
    BY <1>2, <2>1, KeptUnread DEF reportVars, SchedulesAreKept
  <2>4. ReportsTypeOK' /\ JobIsKnown'
    BY <1>2, <2>1, <2>2 DEF reportVars, ReportsInv, ReportsTypeOK, JobIsKnown
  <2> QED
    BY <2>2, <2>3, <2>4 DEF ReportsInv
<1> QED
  BY <1>1, <1>2

\* A report reaches back beyond the beginning of the job of an earlier one only if
\* that one's schedule was not moved; the next one is in time unless an hour passed the
\* schedule over; and whatever fails, next_run stays a period after the beginning of a
\* job that stored a report or the schedule's making
\* (ReportScheduler.run_scheduled_reports).
THEOREM ReportsAlwaysTile == ReportsSpec => []ReportsTile
<1>1. ReportsInv => ReportsTile
  <2> SUFFICES ASSUME ReportsInv
               PROVE  ReportsTile
    OBVIOUS
  <2>1. ASSUME NEW s \in ScheduleIds \ unmoved, NEW r \in ByJob(s), NEW q \in ByJob(s),
               r # q, r.run <= q.run
        PROVE  r.run + Length <= q.at
    BY <2>1 DEF ReportsInv, SchedulesAreKept, Moved
  <2>2. ASSUME NEW s \in ScheduleIds \ passedOver, NEW r \in ByJob(s), NEW q \in ByJob(s),
               r.run < q.run
        PROVE  \E n \in ByJob(s) : r.run < n.run /\ n.run < r.run + Length + Slots + Grace
    <3>1. r.run \in Nat /\ q.run \in Nat
      BY ReportsOfType DEF ReportsInv
    <3>2. ~Latest(s, r)
      BY <2>2, <3>1 DEF Latest
    <3> QED
      BY <3>2 DEF ReportsInv, SchedulesAreKept, Covered
  <2>3. \A s \in Existing :
           \/ schedules[s].next_run = schedules[s].created_at + Length
           \/ \E r \in ByJob(s) : schedules[s].next_run = r.run + Length
    BY DEF ReportsInv, RunsFromReports
  <2> QED
    BY <2>1, <2>2, <2>3 DEF ReportsTile
<1> QED
  BY <1>1, ReportsStart, ReportsStep, PTL DEF ReportsSpec

-----------------------------------------------------------------------------
(* Migrations *)

\* The least of a set of numbers is in it and at most each.
LEMMA LeastOf ==
    ASSUME NEW S \in SUBSET Nat, S # {}
    PROVE  Min(S) \in S /\ \A m \in S : Min(S) <= m
<1> DEFINE R == {p \in Nat \X Nat : p[1] < p[2]}
<1>1. IsWellFoundedOn(R, Nat)
  <2>1. R = OpToRel(<, Nat)
    BY Zenon DEF OpToRel
  <2> QED
    BY <2>1, NatLessThanWellFounded, Zenon
<1>2. PICK n \in S : \A m \in S : <<m, n>> \notin R
  <2> HIDE DEF R
  <2> QED
    BY <1>1, WFMin
<1>3. \A m \in S : ~(m < n)
  BY <1>2
<1>4. \E x \in S : \A y \in S : x =< y
  BY <1>2, <1>3
<1> QED
  BY <1>4 DEF Min

Runners == [step : {"off", "serving", "up", "record", "record failure", "down", "unrecord"},
            todo : SUBSET Versions]

MigrationsTypeOK ==
    /\ record \in [Versions -> {"none", "success", "failed"}]
    /\ installed \in SUBSET Versions
    /\ runner \in Runners

\* While it goes up, every version it has not left has run; the one it is about
\* to record has too.
GoingUp ==
    /\ runner.step \in {"up", "record", "record failure"} => Versions \ runner.todo \subseteq installed
    /\ runner.step = "record" => Current \in installed

MigrationsInv == MigrationsTypeOK /\ GoingUp /\ RecordsAreTrue

LEMMA VersionsAre == Versions = 1 .. 5
BY DEF Versions, Puts

LEMMA RunnerWith ==
    ASSUME NEW todo, todo \subseteq Versions, NEW x,
           \/ x \in {Serving, Nothing}
           \/ x = [step |-> "up", todo |-> todo]
           \/ x = [step |-> "down", todo |-> todo]
    PROVE  /\ x \in Runners
           /\ x \in {Serving, Nothing} \/ x.todo = todo
           /\ x.step \in {"off", "serving", "up", "down"}
           /\ x = [step |-> "up", todo |-> todo] => x.step = "up" /\ x.todo = todo
           /\ x = [step |-> "down", todo |-> todo] => x.step = "down"
           /\ x = Serving => x.step = "serving"
           /\ x = Nothing => x.step = "off"
<1>1. CASE x = [step |-> "up", todo |-> todo]
  BY <1>1 DEF Runners, Serving, Nothing
<1>2. CASE x = [step |-> "down", todo |-> todo]
  BY <1>2 DEF Runners, Serving, Nothing
<1>3. CASE x \in {Serving, Nothing}
  <2>1. x = [step |-> "serving", todo |-> {}] \/ x = [step |-> "off", todo |-> {}]
    BY <1>3 DEF Serving, Nothing
  <2>2. x \in Runners
    <3>1. Serving \in Runners
      BY DEF Serving, Runners
    <3>2. Nothing \in Runners
      BY DEF Nothing, Runners
    <3> QED
      BY <1>3, <3>1, <3>2
  <2> QED
    BY <1>3, <2>1, <2>2 DEF Serving, Nothing
<1> QED
  BY <1>1, <1>2, <1>3

\* The least of the versions left is one of them, and all before it are done.
LEMMA CurrentFacts ==
    ASSUME NEW S \in SUBSET Versions, S # {}
    PROVE  Min(S) \in S /\ \A v \in 1 .. Min(S) : v \in Versions /\ (v = Min(S) \/ v \notin S)
<1>1. S \subseteq Nat
  BY VersionsAre
<1>2. Min(S) \in S /\ \A m \in S : Min(S) <= m
  BY <1>1, LeastOf
<1>3. PICK n \in Nat : n = Min(S)
  BY <1>1, <1>2
<1>4. n \in Versions /\ \A v \in 1 .. n : v = n \/ v < n
  BY <1>2, <1>3
<1>5. \A v \in 1 .. n : v \in Versions /\ (v \in S => n <= v)
  BY <1>2, <1>3, <1>4, VersionsAre
<1> QED
  BY <1>2, <1>3, <1>4, <1>5

LEMMA MigrationsStart == MigrationsInit => MigrationsInv
<1> SUFFICES ASSUME MigrationsInit
             PROVE  MigrationsInv
  OBVIOUS
<1>1. MigrationsTypeOK
  BY DEF MigrationsInit, MigrationsTypeOK, Runners, Nothing
<1>2. AppliedVersions = {}
  BY DEF MigrationsInit, AppliedVersions
<1> QED
  BY <1>1, <1>2 DEF MigrationsInit, MigrationsInv, GoingUp, RecordsAreTrue, Nothing

\* A step that runs and undoes nothing, and records no version as a success.
LEMMA NothingRun ==
    ASSUME MigrationsInv, UNCHANGED <<installed, mapping, blind>>,
           record' \in [Versions -> {"none", "success", "failed"}],
           \A v \in Versions : record'[v] = "success" => v \in installed,
           runner' \in Runners,
           runner'.step \in {"up", "record", "record failure"}
               => Versions \ runner'.todo \subseteq installed,
           runner'.step # "record"
    PROVE  MigrationsInv'
<1>1. MigrationsTypeOK'
  BY DEF MigrationsInv, MigrationsTypeOK
<1>2. RecordsAreTrue'
  BY DEF MigrationsInv, RecordsAreTrue, AppliedVersions
<1> QED
  BY <1>1, <1>2 DEF MigrationsInv, GoingUp

LEMMA UpKeeps == ASSUME MigrationsInv, Up PROVE MigrationsInv'
<1>1. /\ MigrationsTypeOK /\ runner.step = "up" /\ runner.todo # {}
      /\ runner.todo \subseteq Versions /\ runner = [step |-> "up", todo |-> runner.todo]
      /\ Versions \ runner.todo \subseteq installed
      /\ record' = record
  BY DEF MigrationsInv, MigrationsTypeOK, Runners, GoingUp, Up, Doing
<1>2. PICK c : c = Min(runner.todo)
  OBVIOUS
<1>3. Current = c
  BY <1>1, <1>2 DEF Current
<1>4. c \in runner.todo /\ c \in Versions /\ \A v \in 1 .. c : v \in installed \union {c}
  BY <1>1, <1>2, CurrentFacts
<1>5. \/ runner' = [runner EXCEPT !.step = "record failure"] /\ UNCHANGED <<installed, mapping, blind>>
      \/ /\ installed' = installed \union {c} /\ mapping' = PutFields(c)
         /\ blind' = IF Puts[c].index \in DOMAIN mapping THEN blind \ {c} ELSE blind \union {c}
         /\ runner' = [runner EXCEPT !.step = "record"]
  BY <1>3 DEF Up
<1>6. CASE runner' = [runner EXCEPT !.step = "record failure"] /\ UNCHANGED <<installed, mapping, blind>>
  <2>1. runner' = [step |-> "record failure", todo |-> runner.todo] /\ runner' \in Runners
    BY <1>1, <1>6 DEF Runners
  <2>2. \A v \in Versions : record'[v] = "success" => v \in installed
    BY <1>1 DEF MigrationsInv, RecordsAreTrue, AppliedVersions
  <2> QED
    BY <1>1, <1>6, <2>1, <2>2, NothingRun DEF MigrationsTypeOK
<1>7. CASE /\ installed' = installed \union {c} /\ mapping' = PutFields(c)
           /\ blind' = IF Puts[c].index \in DOMAIN mapping THEN blind \ {c} ELSE blind \union {c}
           /\ runner' = [runner EXCEPT !.step = "record"]
  <2>1. runner' = [step |-> "record", todo |-> runner.todo] /\ runner' \in Runners
    BY <1>1, <1>7 DEF Runners
  <2>2. MigrationsTypeOK'
    BY <1>1, <1>4, <1>7, <2>1 DEF MigrationsTypeOK
  <2>3. Current' = c
    BY <1>2, <2>1 DEF Current
  <2>4. GoingUp'
    BY <1>1, <1>7, <2>1, <2>3 DEF GoingUp
  <2>5. \A v \in installed' \ blind' :
            Puts[v].index \in DOMAIN mapping' /\ Puts[v].fields \subseteq mapping'[Puts[v].index]
    <3>1. ASSUME NEW v \in installed' \ blind'
          PROVE  /\ Puts[v].index \in DOMAIN mapping
                 /\ v = c \/ Puts[v].fields \subseteq mapping[Puts[v].index]
      BY <1>7, <3>1 DEF MigrationsInv, RecordsAreTrue
    <3> QED
      BY <1>7, <3>1 DEF PutFields
  <2>6. AppliedVersions' \subseteq installed'
    BY <1>1, <1>7 DEF MigrationsInv, RecordsAreTrue, AppliedVersions
  <2>7. \A v \in installed' : 1 .. v \subseteq installed'
    BY <1>4, <1>7 DEF MigrationsInv, RecordsAreTrue
  <2> QED
    BY <2>2, <2>4, <2>5, <2>6, <2>7 DEF MigrationsInv, RecordsAreTrue
<1> QED
  BY <1>5, <1>6, <1>7

LEMMA DownKeeps == ASSUME MigrationsInv, Down PROVE MigrationsInv'
<1>1. /\ MigrationsTypeOK /\ runner.step = "down"
      /\ \A v \in Versions : record[v] = "success" => v \in installed
  BY DEF MigrationsInv, RecordsAreTrue, AppliedVersions, Down, Doing
<1>2. CASE /\ installed' = {} /\ blind' = {} /\ mapping' = <<>> /\ record' = [v \in Versions |-> "none"]
           /\ runner' = [runner EXCEPT !.step = "unrecord"]
  <2>1. runner' = [step |-> "unrecord", todo |-> runner.todo]
    BY <1>1, <1>2 DEF MigrationsTypeOK, Runners
  <2>2. runner' \in Runners
    BY <1>1, <2>1 DEF MigrationsTypeOK, Runners
  <2>3. MigrationsTypeOK'
    BY <1>1, <1>2, <2>2 DEF MigrationsTypeOK
  <2>4. AppliedVersions' = {}
    BY <1>2 DEF AppliedVersions
  <2> QED
    BY <1>2, <2>1, <2>3, <2>4 DEF MigrationsInv, GoingUp, RecordsAreTrue
<1>3. CASE UNCHANGED <<installed, mapping, blind, record>> /\ runner' = [runner EXCEPT !.step = "unrecord"]
  <2>1. runner' = [step |-> "unrecord", todo |-> runner.todo] /\ runner' \in Runners
    BY <1>1, <1>3 DEF MigrationsTypeOK, Runners
  <2> QED
    BY <1>1, <1>3, <2>1, NothingRun DEF MigrationsTypeOK
<1>4. CASE UNCHANGED <<installed, mapping, blind, record>> /\ runner' = Serving
  <2>1. runner' \in Runners /\ runner'.step = "serving"
    BY <1>4 DEF Runners, Serving
  <2> QED
    BY <1>1, <1>4, <2>1, NothingRun DEF MigrationsTypeOK
<1> QED
  BY <1>2, <1>3, <1>4 DEF Down

LEMMA RecordKeeps == ASSUME MigrationsInv, Record \/ RecordFailure \/ Unrecord PROVE MigrationsInv'
<1>1. /\ MigrationsTypeOK /\ runner.step \in {"record", "record failure", "unrecord"}
      /\ \A v \in Versions : record[v] = "success" => v \in installed
      /\ UNCHANGED <<installed, mapping, blind>>
      /\ runner.step \in {"record", "record failure"} => Versions \ runner.todo \subseteq installed
      /\ runner.step = "record" => Current \in installed
  BY DEF MigrationsInv, RecordsAreTrue, AppliedVersions, GoingUp, Record, RecordFailure, Unrecord, Doing
<1>2. PICK c : c = Current
  OBVIOUS
<1>3. PICK status \in {"none", "success", "failed"} :
          /\ record' = record \/ record' = [record EXCEPT ![c] = status]
          /\ status = "success" => c \in installed
  BY <1>1, <1>2 DEF Record, RecordFailure, Unrecord, Doing
<1>4. /\ record' \in [Versions -> {"none", "success", "failed"}]
      /\ \A v \in Versions : record'[v] = "success" => v \in installed
  BY <1>1, <1>3 DEF MigrationsTypeOK
<1>5. \/ runner' = Serving \/ runner' = [step |-> "down", todo |-> Others]
      \/ runner.step = "record" /\ runner' = [runner EXCEPT !.step = "record failure"]
      \/ runner.step = "record" /\ runner' = [step |-> "up", todo |-> Others]
  BY DEF Record, RecordFailure, Unrecord, Doing, Stop
<1>6. Others = runner.todo \ {c} /\ runner.todo \subseteq Versions
  BY <1>1, <1>2 DEF Others, MigrationsTypeOK, Runners
<1>7. CASE runner' = Serving \/ runner' = [step |-> "down", todo |-> Others]
  <2>1. runner' \in Runners /\ runner'.step \in {"serving", "down"}
    <3>1. Others \subseteq Versions
      BY <1>6
    <3> QED
      BY <1>7, <3>1, RunnerWith
  <2> QED
    BY <1>1, <1>4, <2>1, NothingRun
<1>8. CASE runner.step = "record" /\ runner' = [runner EXCEPT !.step = "record failure"]
  <2>1. runner' = [step |-> "record failure", todo |-> runner.todo] /\ runner' \in Runners
    BY <1>1, <1>8 DEF MigrationsTypeOK, Runners
  <2> QED
    BY <1>1, <1>4, <1>6, <1>8, <2>1, NothingRun
<1>9. CASE runner.step = "record" /\ runner' = [step |-> "up", todo |-> Others]
  <2>1. runner' \in Runners /\ runner'.step = "up"
    BY <1>6, <1>9 DEF Runners
  <2> QED
    BY <1>1, <1>2, <1>4, <1>6, <1>9, <2>1, NothingRun
<1> QED
  BY <1>5, <1>7, <1>8, <1>9

LEMMA RunnerKeeps ==
    ASSUME MigrationsInv, NEW to,
           ApplyPending \/ AllApplied \/ Rollback(to) \/ Crash \/ UNCHANGED migrationVars
    PROVE  MigrationsInv'
<1>1. /\ MigrationsTypeOK /\ UNCHANGED <<record, installed, mapping, blind>>
      /\ \A v \in Versions : record[v] = "success" => v \in installed
  BY DEF MigrationsInv, RecordsAreTrue, AppliedVersions, ApplyPending, AllApplied, Rollback, Crash,
         migrationVars
<1>2. CASE AllApplied \/ Rollback(to) \/ Crash
  <2>1. runner' \in Runners /\ runner'.step \in {"off", "serving", "down"}
    <3>1. {v \in AppliedVersions : v > to} \subseteq Versions
      BY DEF AppliedVersions
    <3>2. CASE runner' = [step |-> "down", todo |-> {v \in AppliedVersions : v > to}]
      BY <3>1, <3>2, RunnerWith
    <3>3. CASE runner' = Serving \/ runner' = Nothing
      BY <3>1, <3>3, RunnerWith
    <3> QED
      BY <1>2, <3>2, <3>3 DEF AllApplied, Rollback, Crash
  <2> QED
    BY <1>1, <2>1, NothingRun DEF MigrationsTypeOK
<1>3. CASE ApplyPending
  <2>1. \/ runner' = [step |-> "up", todo |-> Versions \ AppliedVersions]
        \/ runner' = [step |-> "up", todo |-> Versions]
    BY <1>3 DEF ApplyPending
  <2>2. AppliedVersions \subseteq installed
    BY <1>1 DEF AppliedVersions
  <2>3. runner' \in Runners /\ runner'.step = "up" /\ Versions \ runner'.todo \subseteq installed
    <3>1. Versions \ AppliedVersions \subseteq Versions
      OBVIOUS
    <3> QED
      BY <2>1, <2>2, <3>1, RunnerWith
  <2> QED
    BY <1>1, <2>3, NothingRun DEF MigrationsTypeOK
<1>4. CASE UNCHANGED migrationVars
  BY <1>4 DEF migrationVars, MigrationsInv, MigrationsTypeOK, GoingUp, Current, RecordsAreTrue,
              AppliedVersions
<1> QED
  BY <1>2, <1>3, <1>4

LEMMA CreateIndexKeeps ==
    ASSUME MigrationsInv, NEW i \in Indices, CreateIndex(i)
    PROVE  MigrationsInv'
<1>1. UNCHANGED <<record, installed, blind, runner>>
  BY DEF CreateIndex
<1>2. MigrationsTypeOK' /\ GoingUp'
  BY <1>1 DEF MigrationsInv, MigrationsTypeOK, GoingUp, Current
<1>3. \A j \in DOMAIN mapping : j \in DOMAIN mapping' /\ mapping'[j] = mapping[j]
  BY DEF CreateIndex
<1>4. RecordsAreTrue'
  BY <1>1, <1>3 DEF MigrationsInv, RecordsAreTrue, AppliedVersions
<1> QED
  BY <1>2, <1>4 DEF MigrationsInv

\* Whatever raises, wherever the process dies and whenever indices come, what is
\* recorded as a success has run, its fields are in the mapping if its index was
\* there when it ran, and nothing has run before what comes before it
\* (MigrationRunner.apply_pending, rollback).
THEOREM RecordsAlwaysTrue == MigrationsSpec => []RecordsAreTrue
<1>1. ASSUME MigrationsInv, [MigrationsNext]_migrationVars
      PROVE  MigrationsInv'
  BY <1>1, UpKeeps, DownKeeps, RecordKeeps, RunnerKeeps, CreateIndexKeeps DEF MigrationsNext
<1>2. MigrationsInv => RecordsAreTrue
  BY DEF MigrationsInv
<1> QED
  BY <1>1, <1>2, MigrationsStart, PTL DEF MigrationsSpec

-----------------------------------------------------------------------------
(* Deadlines *)

SlaAlert == [level : DOMAIN Limits \union {NoLevel}, created : Nat, status : Statuses,
             incident_id : BOOLEAN]

DeadlinesTypeOK ==
    /\ slaTime \in Nat
    /\ jobDue \in BOOLEAN
    /\ slaAlert \in [SlaAlerts -> SlaAlert \union {NoAlert}]
    /\ warned \in [SlaAlerts -> SUBSET Nat]
    /\ metOnce \in [SlaAlerts -> SUBSET DeadlineNames]

\* What the status says was done needed no warning once.
DoneIsKept ==
    \A a \in Tracked : /\ MetBy(slaAlert[a]) \subseteq metOnce[a]
                       /\ slaAlert[a].status \in Closed => DeadlineNames \subseteq metOnce[a]

\* One of the job's runs, and one that is over.
RunTime(t) == t \in Nat /\ t % Interval = 0
Over(t) == t < slaTime \/ (t = slaTime /\ ~jobDue)

\* Every run in the last minutes of a deadline has warned of it or was spoilt.
SeenTo(a, k, t) ==
    (RunTime(t) /\ Over(t) /\ DueAt(a, k) < t + Warning /\ t <= DueAt(a, k))
        => t \in warned[a] \/ t \in spoilt

WarnedSoFar == \A a \in Tracked : \A k \in Applicable(a) \ metOnce[a] : \A t : SeenTo(a, k, t)

DeadlinesInv == DeadlinesTypeOK /\ DoneIsKept /\ WarnedSoFar

LEMMA SlaBounds ==
    /\ Interval \in Nat \ {0} /\ Warning \in Nat /\ Interval <= Warning
    /\ \A level \in DOMAIN Limits, k \in DeadlineNames :
          Limits[level][k] \in Nat /\ (Limits[level][k] # 0 => Warning <= Limits[level][k])
BY DeadlinesAssumption

\* There is one of the job's runs in any stretch as long as its interval.
LEMMA LastRunIs ==
    ASSUME NEW due \in Nat, Warning <= due
    PROVE  LastRuns(due) # {}
<1>1. Interval \in Nat \ {0} /\ Warning \in Nat /\ Interval <= Warning
  BY SlaBounds
<1>2. PICK q \in Nat, r \in Nat : due = q * Interval + r /\ r < Interval /\ q = due \div Interval
  BY <1>1
<1>3. PICK t \in Nat : t = q * Interval
  BY <1>1, <1>2
<1>4. t % Interval = 0
  BY <1>1, <1>2, <1>3
<1>5. t \in due - Warning + 1 .. due
  BY <1>1, <1>2, <1>3
<1> QED
  BY <1>4, <1>5 DEF LastRuns

LEMMA TrackedFacts ==
    ASSUME DeadlinesTypeOK, NEW a \in Tracked
    PROVE  /\ a \in SlaAlerts /\ slaAlert[a] \in SlaAlert
           /\ \A k \in Applicable(a) : /\ k \in DeadlineNames /\ ~CannotTell(a)
                                       /\ DueAt(a, k) \in Nat
                                       /\ slaAlert[a].created + Warning <= DueAt(a, k)
<1>1. a \in SlaAlerts /\ slaAlert[a] \in SlaAlert
  BY DEF DeadlinesTypeOK, Tracked
<1>2. slaAlert[a].level \in DOMAIN Limits \union {NoLevel} /\ slaAlert[a].created \in Nat
  BY <1>1 DEF SlaAlert
<1>3. ASSUME NEW k \in Applicable(a)
      PROVE  /\ k \in DeadlineNames /\ ~CannotTell(a)
             /\ DueAt(a, k) \in Nat
             /\ slaAlert[a].created + Warning <= DueAt(a, k)
  <2>1. ~CannotTell(a)
    BY <1>3 DEF Applicable
  <2>2. k \in DeadlineNames /\ Limits[slaAlert[a].level][k] # 0 /\ slaAlert[a].level \in DOMAIN Limits
    BY <1>2, <1>3, <2>1 DEF Applicable, CannotTell
  <2> QED
    BY <1>2, <2>1, <2>2, SlaBounds DEF DueAt
<1> QED
  BY <1>1, <1>3

LEMMA DeadlinesStart == DeadlinesInit => DeadlinesInv
<1> SUFFICES ASSUME DeadlinesInit
             PROVE  DeadlinesInv
  OBVIOUS
<1>1. DeadlinesTypeOK
  <2>1. /\ slaAlert \in [SlaAlerts -> SlaAlert \union {NoAlert}]
        /\ warned \in [SlaAlerts -> SUBSET Nat]
        /\ metOnce \in [SlaAlerts -> SUBSET DeadlineNames]
    BY DEF DeadlinesInit
  <2>2. slaTime \in Nat
    BY DEF DeadlinesInit
  <2>3. jobDue \in BOOLEAN
    BY DEF DeadlinesInit
  <2> QED
    BY <2>1, <2>2, <2>3 DEF DeadlinesTypeOK
<1>2. Tracked = {}
  BY DEF DeadlinesInit, Tracked
<1> QED
  BY <1>1, <1>2 DEF DeadlinesInv, DoneIsKept, WarnedSoFar

\* A run that is not spoilt warns of a deadline in its last minutes.
LEMMA RunWarns ==
    ASSUME DeadlinesInv, NEW a \in Tracked, NEW k \in Applicable(a) \ metOnce[a],
           DueAt(a, k) < slaTime + Warning, slaTime <= DueAt(a, k),
           NEW hits \in Hits(Open, SearchSize), Readable(Open),
           Cardinality(Open) <= SearchSize
    PROVE  a \in Approaching(hits)
<1>1. DeadlinesTypeOK /\ slaTime \in Nat /\ Warning \in Nat /\ SearchSize \in Nat
  BY SlaBounds, DeadlinesAssumption DEF DeadlinesInv, DeadlinesTypeOK
<1>2. k \in DeadlineNames /\ DueAt(a, k) \in Nat
  BY <1>1, TrackedFacts
<1>3. k \notin MetBy(slaAlert[a]) /\ slaAlert[a].status \notin Closed
  BY <1>2 DEF DeadlinesInv, DoneIsKept
<1>4. Near(a, k)
  BY <1>1, <1>2, <1>3 DEF Near, Sla
<1>5. hits = Open
  <2>1. IsFiniteSet(Open)
    <3>1. Open \subseteq SlaAlerts
      BY DEF Open, Tracked
    <3> QED
      BY <3>1, DeadlinesAssumption, FS_Subset
  <2>2. Cardinality(Open) \in Nat
    BY <2>1, FS_CardinalityType
  <2>3. hits \subseteq Open /\ Cardinality(hits) = Cardinality(Open)
    BY <1>1, <2>2 DEF Hits
  <2> QED
    BY <2>1, <2>3, FS_Subset
<1>6. a \in Open
  BY <1>3 DEF Open
<1> QED
  BY <1>2, <1>4, <1>5, <1>6 DEF Approaching

LEMMA CheckKeeps == ASSUME DeadlinesInv, CheckSla PROVE DeadlinesInv'
<1>1. /\ DeadlinesTypeOK /\ DoneIsKept /\ WarnedSoFar /\ jobDue /\ ~jobDue' /\ jobDue' \in BOOLEAN
      /\ UNCHANGED <<slaTime, slaAlert, metOnce>>
      /\ slaTime \in Nat
  BY DEF DeadlinesInv, DeadlinesTypeOK, CheckSla
<1>2. /\ Tracked' = Tracked
      /\ \A a : Applicable(a)' = Applicable(a)
      /\ \A a, k : DueAt(a, k)' = DueAt(a, k)
  BY <1>1 DEF Tracked, Applicable, CannotTell, DueAt
<1>3. /\ warned' \in [SlaAlerts -> SUBSET Nat]
      /\ \A a \in SlaAlerts : warned[a] \subseteq warned'[a]
      /\ spoilt \subseteq spoilt'
  <2>1. CASE warned' = warned /\ spoilt' = spoilt \union {slaTime}
    BY <1>1, <2>1 DEF DeadlinesTypeOK
  <2>2. CASE /\ \E hits \in Hits(Open, SearchSize) :
                   warned' = [a \in SlaAlerts |->
                                 warned[a] \union (IF a \in Approaching(hits) THEN {slaTime} ELSE {})]
             /\ spoilt' = IF Readable(Open) /\ Cardinality(Open) <= SearchSize
                          THEN spoilt ELSE spoilt \union {slaTime}
    <3>1. PICK hits : warned' = [a \in SlaAlerts |->
                                    warned[a] \union (IF a \in Approaching(hits) THEN {slaTime} ELSE {})]
      BY <2>2
    <3>2. \A a \in SlaAlerts : warned[a] \in SUBSET Nat
      BY <1>1 DEF DeadlinesTypeOK
    <3>3. spoilt \subseteq spoilt'
      BY <2>2
    <3> HIDE <2>2
    <3> QED
      BY <1>1, <3>1, <3>2, <3>3
  <2> QED
    BY <2>1, <2>2 DEF CheckSla
<1>4. DeadlinesTypeOK'
  BY <1>1, <1>3 DEF DeadlinesTypeOK
<1>5. DoneIsKept'
  BY <1>1, <1>2 DEF DoneIsKept, MetBy
<1>6. ASSUME NEW a \in Tracked, NEW k \in Applicable(a) \ metOnce[a], NEW t
      PROVE  SeenTo(a, k, t)'
  <2>1. SUFFICES ASSUME RunTime(t), Over(t)', DueAt(a, k) < t + Warning, t <= DueAt(a, k)
                 PROVE  t \in warned'[a] \/ t \in spoilt'
    BY <1>2 DEF SeenTo, RunTime
  <2>2. a \in SlaAlerts
    BY DEF Tracked
  <2>3. CASE t < slaTime
    <3>1. t \in warned[a] \/ t \in spoilt
      BY <1>1, <2>1, <2>3 DEF WarnedSoFar, SeenTo, Over
    <3> QED
      BY <1>3, <2>2, <3>1
  <2>4. CASE t = slaTime
    <3>1. CASE slaTime \in spoilt'
      BY <2>4, <3>1
    <3>2. CASE slaTime \notin spoilt'
      <4>1. Readable(Open) /\ Cardinality(Open) <= SearchSize
        BY <3>2 DEF CheckSla
      <4>2. PICK hits \in Hits(Open, SearchSize) :
               warned' = [b \in SlaAlerts |->
                             warned[b] \union (IF b \in Approaching(hits) THEN {slaTime} ELSE {})]
        BY <3>2 DEF CheckSla
      <4>3. a \in Approaching(hits)
        BY <2>1, <2>4, <4>1, RunWarns
      <4> QED
        BY <2>2, <2>4, <4>2, <4>3
    <3> QED
      BY <3>1, <3>2
  <2> QED
    BY <1>1, <2>1, <2>3, <2>4 DEF Over
<1>7. WarnedSoFar'
  BY <1>1, <1>2, <1>6 DEF WarnedSoFar
<1> QED
  BY <1>4, <1>5, <1>7 DEF DeadlinesInv

LEMMA RaiseKeeps ==
    ASSUME DeadlinesInv, NEW a \in SlaAlerts, RaiseAlert(a)
    PROVE  DeadlinesInv'
<1>1. /\ DeadlinesTypeOK /\ DoneIsKept /\ WarnedSoFar /\ a \notin Tracked
      /\ UNCHANGED <<slaTime, jobDue, warned, metOnce, spoilt>>
      /\ slaTime \in Nat /\ jobDue \in BOOLEAN
  BY DEF DeadlinesInv, DeadlinesTypeOK, RaiseAlert
<1>2. PICK level \in DOMAIN Limits \union {NoLevel} :
         slaAlert' = [slaAlert EXCEPT ![a] = [level |-> level, created |-> slaTime, status |-> "new",
                                              incident_id |-> FALSE]]
  BY DEF RaiseAlert
<1>3. PICK x \in SlaAlert :
         x = [level |-> level, created |-> slaTime, status |-> "new", incident_id |-> FALSE]
  BY <1>1 DEF SlaAlert, Statuses
<1>4. x # NoAlert
  <2>1. DOMAIN x # DOMAIN NoAlert
    BY <1>3 DEF NoAlert
  <2> QED
    BY <2>1
<1>5. slaAlert' \in [SlaAlerts -> SlaAlert \union {NoAlert}]
  BY <1>1, <1>2, <1>3 DEF DeadlinesTypeOK
<1>6. /\ Tracked' = Tracked \union {a} /\ slaAlert'[a] = x
      /\ \A b \in Tracked : b # a /\ slaAlert'[b] = slaAlert[b]
  BY <1>1, <1>2, <1>3, <1>4 DEF Tracked, DeadlinesTypeOK
<1>7. DeadlinesTypeOK'
  BY <1>1, <1>5 DEF DeadlinesTypeOK
<1>8. DoneIsKept'
  <2>1. MetBy(slaAlert'[a]) = {} /\ slaAlert'[a].status \notin Closed
    BY <1>3, <1>6 DEF MetBy, Closed
  <2> QED
    BY <1>1, <1>6, <2>1 DEF DoneIsKept
<1>9. ASSUME NEW b \in Tracked, NEW k
      PROVE  Applicable(b)' = Applicable(b) /\ DueAt(b, k)' = DueAt(b, k)
  BY <1>6 DEF Applicable, CannotTell, DueAt
<1>10. ASSUME NEW k \in Applicable(a)', NEW t
       PROVE  SeenTo(a, k, t)'
  <2>1. /\ a \in Tracked' /\ x.created = slaTime
    BY <1>3, <1>6
  <2>2. PICK due \in Nat : due = DueAt(a, k)' /\ slaTime + Warning <= due
    <3>1. k \in DeadlineNames /\ x.level \in DOMAIN Limits /\ Limits[x.level][k] # 0
      <4>1. ~CannotTell(a)'
        BY <1>10 DEF Applicable
      <4>2. x.level \in DOMAIN Limits
        BY <1>6, <4>1 DEF CannotTell, SlaAlert
      <4> QED
        BY <1>6, <1>10, <4>1, <4>2 DEF Applicable
    <3>2. DueAt(a, k)' = slaTime + Limits[x.level][k]
      BY <1>6, <2>1 DEF DueAt
    <3> QED
      BY <1>1, <3>1, <3>2, SlaBounds
  <2>3. SUFFICES ASSUME t \in Nat, t <= slaTime, due < t + Warning
                 PROVE  FALSE
    BY <1>1, <2>2 DEF SeenTo, RunTime, Over
  <2> QED
    BY <1>1, <2>2, <2>3, SlaBounds
<1>11. WarnedSoFar'
  <2>1. ASSUME NEW b \in Tracked, NEW k \in Applicable(b) \ metOnce[b], NEW t
        PROVE  SeenTo(b, k, t)'
    BY <1>1, <1>9 DEF WarnedSoFar, SeenTo, Over
  <2> QED
    BY <1>1, <1>6, <1>9, <1>10, <2>1 DEF WarnedSoFar
<1> QED
  BY <1>7, <1>8, <1>11 DEF DeadlinesInv

LEMMA ChangeKeeps ==
    ASSUME DeadlinesInv, NEW a \in SlaAlerts, ChangeAlert(a)
    PROVE  DeadlinesInv'
<1>1. /\ DeadlinesTypeOK /\ DoneIsKept /\ WarnedSoFar /\ a \in Tracked
      /\ UNCHANGED <<slaTime, jobDue, warned, spoilt>>
  BY DEF DeadlinesInv, ChangeAlert
<1>2. PICK x \in {[slaAlert[a] EXCEPT !.status = status] : status \in Statuses}
                     \union {[slaAlert[a] EXCEPT !.incident_id = TRUE]} :
         /\ slaAlert' = [slaAlert EXCEPT ![a] = x]
         /\ metOnce' = [metOnce EXCEPT ![a] =
               @ \union (IF x.status \in Closed THEN DeadlineNames ELSE MetBy(x))]
  BY DEF ChangeAlert
<1>3. slaAlert[a] \in SlaAlert
  BY <1>1, TrackedFacts
<1>4. x \in SlaAlert /\ x.level = slaAlert[a].level /\ x.created = slaAlert[a].created
  <2>1. CASE x = [slaAlert[a] EXCEPT !.incident_id = TRUE]
    BY <1>3, <2>1 DEF SlaAlert
  <2>2. ASSUME NEW status \in Statuses, x = [slaAlert[a] EXCEPT !.status = status]
        PROVE  x \in SlaAlert /\ x.level = slaAlert[a].level /\ x.created = slaAlert[a].created
    BY <1>3, <2>2 DEF SlaAlert
  <2> QED
    BY <1>2, <2>1, <2>2
<1>5. x # NoAlert
  <2>1. DOMAIN x = {"level", "created", "status", "incident_id"} /\ DOMAIN NoAlert = {"absent"}
    BY <1>4 DEF SlaAlert, NoAlert
  <2> QED
    BY <2>1
<1>6. /\ slaAlert' \in [SlaAlerts -> SlaAlert \union {NoAlert}]
      /\ Tracked' = Tracked /\ slaAlert'[a] = x
      /\ \A b \in Tracked \ {a} : slaAlert'[b] = slaAlert[b]
  BY <1>1, <1>2, <1>4, <1>5 DEF DeadlinesTypeOK, Tracked
<1>7. /\ metOnce' \in [SlaAlerts -> SUBSET DeadlineNames]
      /\ \A b \in SlaAlerts : metOnce[b] \subseteq metOnce'[b]
      /\ MetBy(x) \subseteq metOnce'[a]
      /\ x.status \in Closed => DeadlineNames \subseteq metOnce'[a]
  <2>1. MetBy(x) \subseteq DeadlineNames
    BY DEF MetBy, DeadlineNames
  <2>2. metOnce \in [SlaAlerts -> SUBSET DeadlineNames]
    BY <1>1 DEF DeadlinesTypeOK
  <2>3. PICK M \in SUBSET DeadlineNames :
           M = metOnce[a] \union (IF x.status \in Closed THEN DeadlineNames ELSE MetBy(x))
    BY <2>1, <2>2
  <2>4. metOnce' = [metOnce EXCEPT ![a] = M]
    BY <1>2, <2>3
  <2>5. MetBy(x) \subseteq M /\ metOnce[a] \subseteq M
        /\ (x.status \in Closed => DeadlineNames \subseteq M)
    BY <2>1, <2>3
  <2> QED
    BY <2>2, <2>4, <2>5
<1>8. DeadlinesTypeOK'
  BY <1>1, <1>6, <1>7 DEF DeadlinesTypeOK
<1>9. DoneIsKept'
  <2>1. ASSUME NEW b \in Tracked \ {a}
        PROVE  /\ MetBy(slaAlert'[b]) \subseteq metOnce'[b]
               /\ slaAlert'[b].status \in Closed => DeadlineNames \subseteq metOnce'[b]
    BY <1>1, <1>6, <1>7, <2>1 DEF DoneIsKept, Tracked
  <2> QED
    BY <1>6, <1>7, <2>1 DEF DoneIsKept
<1>10. \A b \in Tracked : \A k : Applicable(b)' = Applicable(b) /\ DueAt(b, k)' = DueAt(b, k)
  BY <1>4, <1>6 DEF Applicable, CannotTell, DueAt
<1>11. ASSUME NEW b \in Tracked, NEW k \in Applicable(b) \ metOnce'[b], NEW t
       PROVE  SeenTo(b, k, t)'
  <2>1. b \in SlaAlerts /\ SeenTo(b, k, t)
    BY <1>1, <1>7 DEF WarnedSoFar, Tracked
  <2> QED
    BY <1>1, <1>10, <2>1 DEF SeenTo, Over
<1>12. WarnedSoFar'
  BY <1>6, <1>10, <1>11 DEF WarnedSoFar
<1> QED
  BY <1>8, <1>9, <1>12 DEF DeadlinesInv

\* Time passes a run's time only when the run is over.
LEMMA SlaTickKeeps == ASSUME DeadlinesInv, SlaTick PROVE DeadlinesInv'
<1>1. /\ DeadlinesTypeOK /\ DoneIsKept /\ WarnedSoFar
      /\ ~jobDue /\ slaTime' = slaTime + 1 /\ (jobDue' <=> (slaTime + 1) % Interval = 0)
      /\ jobDue' \in BOOLEAN
      /\ UNCHANGED <<slaAlert, warned, metOnce, spoilt>>
      /\ slaTime \in Nat
  <2>1. slaTime' = slaTime + 1 /\ jobDue' = (slaTime' % Interval = 0)
    BY DEF SlaTick
  <2>2. (jobDue' <=> (slaTime + 1) % Interval = 0) /\ jobDue' \in BOOLEAN
    BY <2>1
  <2>3. slaTime \in Nat
    BY DEF DeadlinesInv, DeadlinesTypeOK
  <2> QED
    BY <2>1, <2>2, <2>3 DEF DeadlinesInv, SlaTick
<1>2. /\ Tracked' = Tracked
      /\ \A a : Applicable(a)' = Applicable(a)
      /\ \A a, k : DueAt(a, k)' = DueAt(a, k)
  BY <1>1 DEF Tracked, Applicable, CannotTell, DueAt
<1>3. DeadlinesTypeOK' /\ DoneIsKept'
  BY <1>1, <1>2 DEF DeadlinesTypeOK, DoneIsKept, MetBy
<1>4. \A t : RunTime(t) /\ Over(t)' => Over(t)
  <2> SUFFICES ASSUME NEW t, RunTime(t), Over(t)'
               PROVE  Over(t)
    OBVIOUS
  <2>1. t \in Nat /\ t % Interval = 0
    BY DEF RunTime
  <2>2. t < slaTime + 1 \/ (t = slaTime + 1 /\ ~jobDue')
    BY <1>1 DEF Over
  <2>3. t # slaTime + 1 \/ jobDue'
    BY <1>1, <2>1
  <2> QED
    BY <1>1, <2>1, <2>2, <2>3 DEF Over
<1>5. \A a, k, t : SeenTo(a, k, t) => SeenTo(a, k, t)'
  BY <1>1, <1>2, <1>4 DEF SeenTo, RunTime
<1>6. WarnedSoFar'
  BY <1>1, <1>2, <1>5 DEF WarnedSoFar
<1> QED
  BY <1>3, <1>6 DEF DeadlinesInv

LEMMA DeadlinesStep == DeadlinesInv /\ [DeadlinesNext]_deadlineVars => DeadlinesInv'
<1> SUFFICES ASSUME DeadlinesInv, [DeadlinesNext]_deadlineVars
             PROVE  DeadlinesInv'
  OBVIOUS
<1>1. CASE UNCHANGED deadlineVars
  <2>1. /\ Tracked' = Tracked
        /\ \A a : Applicable(a)' = Applicable(a)
        /\ \A a, k, t : SeenTo(a, k, t)' = SeenTo(a, k, t)
    BY <1>1 DEF deadlineVars, Tracked, Applicable, CannotTell, SeenTo, Over, RunTime, DueAt
  <2> QED
    BY <1>1, <2>1 DEF deadlineVars, DeadlinesInv, DeadlinesTypeOK, DoneIsKept, MetBy, WarnedSoFar
<1> QED
  BY <1>1, CheckKeeps, RaiseKeeps, ChangeKeeps, SlaTickKeeps DEF DeadlinesNext

-----------------------------------------------------------------------------
(* Sums over a set: MapThenSumSet adds up in an order of its own, and what it *)
(* adds up to is known once some function satisfies its equation.             *)

\* Among subsets of a finite set one has no other of them inside.
LEMMA LeastSubset ==
    ASSUME NEW L, IsFiniteSet(L), NEW W, W \subseteq SUBSET L, W # {}
    PROVE  \E s \in W : \A u \in W : ~(u \subseteq s /\ u # s)
<1> DEFINE R == StrictSubsetOrdering(L)
<1>1. IsWellFoundedOn(R, SUBSET L)
  BY FS_StrictSubsetOrderingWellFounded, FS_FiniteSubsetsOfFinite
<1>2. PICK s \in W : \A u \in W : <<u, s>> \notin R
  <2> HIDE DEF R
  <2> QED
    BY <1>1, WFMin
<1>3. \A u \in W : ~(u \subseteq s /\ u # s)
  BY <1>2 DEF StrictSubsetOrdering
<1> QED
  BY <1>3

\* What of the alerts is shown as breached is counted once, in its level: the
\* sum satisfies the equation that the number of those in a set of levels does.
LEMMA BreachedAddUp ==
    ASSUME DeadlinesTypeOK, NEW shown \in Dashboards
    PROVE  MapThenSumSet(LAMBDA level : shown.by_level[level]["breached"], DOMAIN Limits)
              = shown.breached
<1> DEFINE L == DOMAIN Limits
           pick(s) == CHOOSE x \in s : TRUE
           inLevel(l) == shown.by_level[l]["breached"]
           sums(g) == g = [s \in SUBSET L |->
                              IF s = {} THEN 0 ELSE inLevel(pick(s)) + g[s \ {pick(s)}]]
<1>1. MapThenSumSet(LAMBDA level : shown.by_level[level]["breached"], L)
         = (CHOOSE g : sums(g))[L]
  BY DEF MapThenSumSet, MapThenFoldSet
<1>2. PICK recent : recent \subseteq Tracked /\ shown = Dashboard(recent) /\ Readable(recent)
  BY DEF Dashboards, Hits
<1>3. PICK B : B = {a \in recent : Overall(a) = "breached"}
  OBVIOUS
<1>4. /\ Cardinality(B) = shown.breached
      /\ \A l \in L : inLevel(l) = Cardinality({a \in recent : slaAlert[a].level = l
                                                              /\ Overall(a) = "breached"})
  BY <1>2, <1>3 DEF Dashboard
<1>5. IsFiniteSet(B) /\ IsFiniteSet(L) /\ \A b \in B : slaAlert[b].level \in L
  <2>1. B \subseteq SlaAlerts /\ B \subseteq Tracked
    BY <1>2, <1>3 DEF Tracked
  <2>2. IsFiniteSet(B) /\ IsFiniteSet(L)
    BY <2>1, DeadlinesAssumption, FS_Subset
  <2>3. ASSUME NEW b \in B
        PROVE  slaAlert[b].level \in L
    <3>1. slaAlert[b] \in SlaAlert /\ ~CannotTell(b)
      BY <1>2, <1>3, <2>1, TrackedFacts DEF Readable
    <3> QED
      BY <3>1 DEF SlaAlert, CannotTell
  <2> QED
    BY <2>2, <2>3
<1>6. \A l \in L : inLevel(l) = Cardinality({b \in B : slaAlert[b].level = l})
  <2> SUFFICES ASSUME NEW l \in L
               PROVE  inLevel(l) = Cardinality({b \in B : slaAlert[b].level = l})
    OBVIOUS
  <2>1. {b \in B : slaAlert[b].level = l}
           = {a \in recent : slaAlert[a].level = l /\ Overall(a) = "breached"}
    BY <1>3
  <2> QED
    BY <1>4, <2>1
<1>7. \A s \in SUBSET L : s # {} => pick(s) \in s
  OBVIOUS
<1> HIDE DEF pick, inLevel
<1> DEFINE among(s) == {b \in B : slaAlert[b].level \in s}
           count == [s \in SUBSET L |-> Cardinality(among(s))]
<1>8. \A s \in SUBSET L : count[s] = Cardinality(among(s))
  OBVIOUS
<1>9. ASSUME NEW s \in SUBSET L, s # {}
      PROVE  count[s] = inLevel(pick(s)) + count[s \ {pick(s)}]
  <2>1. PICK l \in s : l = pick(s)
    BY <1>7, <1>9
  <2>2. PICK M : M = {b \in B : slaAlert[b].level = l}
    OBVIOUS
  <2>3. PICK N : N = among(s \ {l})
    OBVIOUS
  <2>4. among(s) = M \union N /\ M \intersect N = {} /\ M \subseteq B /\ N \subseteq B
    BY <2>1, <2>2, <2>3
  <2>5. IsFiniteSet(M) /\ IsFiniteSet(N)
    BY <1>5, <2>4, FS_Subset
  <2>6. Cardinality(M \union N) = Cardinality(M) + Cardinality(N)
    <3>1. Cardinality(M \union N) = Cardinality(M) + Cardinality(N) - Cardinality(M \intersect N)
      BY <2>5, FS_Union
    <3>2. Cardinality(M \intersect N) = 0
      BY <2>4, FS_EmptySet
    <3>3. Cardinality(M) \in Nat /\ Cardinality(N) \in Nat
      BY <2>5, FS_CardinalityType
    <3> QED
      BY <3>1, <3>2, <3>3
  <2>7. Cardinality(M) = inLevel(l)
    BY <1>6, <2>1, <2>2
  <2>8. count[s \ {l}] = Cardinality(N) /\ count[s] = Cardinality(M \union N)
    BY <1>8, <2>1, <2>3, <2>4
  <2> QED
    BY <2>1, <2>6, <2>7, <2>8
<1>10. count[{}] = 0
  <2>1. among({}) = {}
    OBVIOUS
  <2> QED
    BY <1>8, <2>1, FS_EmptySet
<1>11. count = [s \in SUBSET L |-> count[s]]
  OBVIOUS
<1>12. count[L] = Cardinality(B)
  <2>1. among(L) = B
    BY <1>5
  <2> QED
    BY <1>8, <2>1
<1> HIDE DEF count, among
<1>13. sums(count)
  BY <1>9, <1>10, <1>11
<1>14. ASSUME NEW g, sums(g)
       PROVE  g[L] = Cardinality(B)
  <2>1. \A s \in SUBSET L : g[s] = IF s = {} THEN 0 ELSE inLevel(pick(s)) + g[s \ {pick(s)}]
    BY <1>14
  <2> HIDE DEF sums
  <2> DEFINE W == {s \in SUBSET L : g[s] # count[s]}
  <2>2. SUFFICES ASSUME W # {}
                 PROVE  FALSE
    BY <1>12
  <2>3. PICK s \in W : \A u \in W : ~(u \subseteq s /\ u # s)
    <3>1. W \subseteq SUBSET L
      OBVIOUS
    <3> HIDE DEF W
    <3> QED
      BY <1>5, <2>2, <3>1, LeastSubset
  <2>4. s # {}
    BY <1>10, <2>1
  <2>5. pick(s) \in s
    BY <1>7, <2>4
  <2>6. s \ {pick(s)} \notin W
    BY <2>3, <2>5
  <2>7. g[s \ {pick(s)}] = count[s \ {pick(s)}]
    BY <2>6
  <2> QED
    BY <1>9, <2>1, <2>4, <2>7
<1> HIDE DEF sums
<1>15. sums(CHOOSE g : sums(g))
  BY <1>13, Zenon
<1> QED
  BY <1>1, <1>4, <1>14, <1>15

\* A deadline passes unannounced only if each of the job's runs in its last minutes
\* failed or was skipped, found more alerts open than its search returns, or met one
\* that raises; and the dashboard counts a breached alert of its search once
\* (check_sla_breaches_job, get_alerts_approaching_sla, get_sla_dashboard).
THEOREM DeadlinesAlwaysWarned == DeadlinesSpec => []DeadlinesWarned
<1>1. DeadlinesInv => DeadlinesWarned
  <2> SUFFICES ASSUME DeadlinesInv
               PROVE  DeadlinesWarned
    OBVIOUS
  <2>1. DeadlinesTypeOK /\ slaTime \in Nat
    BY DEF DeadlinesInv, DeadlinesTypeOK
  <2>2. ASSUME NEW a \in Tracked, NEW k \in Applicable(a) \ metOnce[a], slaTime > DueAt(a, k)
        PROVE  \/ \E t \in warned[a] : DueAt(a, k) <= t + Warning /\ t <= DueAt(a, k)
               \/ LastRuns(DueAt(a, k)) # {} /\ LastRuns(DueAt(a, k)) \subseteq spoilt
    <3>1. PICK due \in Nat : due = DueAt(a, k) /\ Warning <= due
      <4>1. DueAt(a, k) \in Nat /\ slaAlert[a].created + Warning <= DueAt(a, k)
            /\ slaAlert[a].created \in Nat
        BY <2>1, TrackedFacts DEF SlaAlert
      <4> QED
        BY <4>1, SlaBounds
    <3>2. ASSUME NEW t \in LastRuns(due), t \notin spoilt
          PROVE  \E u \in warned[a] : due <= u + Warning /\ u <= due
      <4>1. t \in Nat /\ RunTime(t) /\ due < t + Warning /\ t <= due
        <5>1. t \in due - Warning + 1 .. due /\ t % Interval = 0 /\ Warning \in Nat
          BY SlaBounds DEF LastRuns
        <5> QED
          BY <3>1, <5>1 DEF RunTime
      <4>2. Over(t)
        BY <2>1, <2>2, <3>1, <4>1 DEF Over
      <4>3. t \in warned[a]
        BY <3>1, <3>2, <4>1, <4>2 DEF DeadlinesInv, WarnedSoFar, SeenTo
      <4> QED
        BY <4>1, <4>3, SlaBounds
    <3> QED
      BY <3>1, <3>2, LastRunIs
  <2>3. ASSUME NEW shown \in Dashboards, NEW listed \in shown.breached_alerts
        PROVE  Cardinality(listed) <= ListedBreaches /\ Cardinality(listed) <= shown.breached
    <3>1. PICK hits : shown = Dashboard(hits) /\ hits \subseteq Tracked
      BY DEF Dashboards, Hits
    <3>2. PICK B : B = {a \in hits : Overall(a) = "breached"}
      OBVIOUS
    <3>3. shown.breached = Cardinality(B) /\ listed \in Hits(B, ListedBreaches)
      BY <3>1, <3>2 DEF Dashboard
    <3>4. Cardinality(B) \in Nat
      <4>1. B \subseteq SlaAlerts
        BY <3>1, <3>2 DEF Tracked
      <4> QED
        BY <4>1, DeadlinesAssumption, FS_Subset, FS_CardinalityType
    <3>5. Cardinality(listed) = IF Cardinality(B) > ListedBreaches THEN ListedBreaches ELSE Cardinality(B)
      BY <3>3 DEF Hits
    <3> QED
      BY <3>3, <3>4, <3>5, DeadlinesAssumption
  <2> QED
    BY <2>1, <2>2, <2>3, BreachedAddUp DEF DeadlinesWarned
<1> QED
  BY <1>1, DeadlinesStart, DeadlinesStep, PTL DEF DeadlinesSpec

=============================================================================
