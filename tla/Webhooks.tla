--------------------------------- MODULE Webhooks ---------------------------------
(***************************************************************************)
(* WebhookManager: an event is sent to every webhook that was active and   *)
(* asked for it when they were listed, all at once; each send ends with an *)
(* answer, an error or its ten seconds, and is then counted in the         *)
(* webhook's document. Scoring cycles dispatch concurrently, and           *)
(* administrators change the webhooks meanwhile. The store is the one that *)
(* performs writes: the other leaves the documents, and so the counts, as  *)
(* they are.                                                               *)
(***************************************************************************)
EXTENDS Naturals, FiniteSets

CONSTANTS
    WebhookIds,
    Dispatches,     \* events, one dispatch each
    Level,          \* dispatch -> the threat level of its event, 0 to 3
    MaxEdits,       \* bound: changes to the webhooks
    MaxLost         \* bound: calls to the store that raise

ASSUME WebhooksAssumption ==
    /\ IsFiniteSet(Dispatches)
    /\ Level \in [Dispatches -> 0 .. 3]
    /\ {MaxEdits, MaxLost} \subseteq Nat

VARIABLES
    webhooks,       \* id -> [active, min_level, success_count, failure_count], or not there
    sending,        \* dispatch -> the webhooks its sends are for, as it read them
    answered,       \* dispatch -> webhook -> the outcome, until it is counted
    phase,          \* dispatch -> "new", "sending" or "done"
    ended,          \* history: dispatch -> the webhooks whose sends ended
    lost,           \* history: the sends whose count raised
    edits, losses

webhookVars == <<webhooks, sending, answered, phase, ended, lost, edits, losses>>

NotThere == [absent |-> TRUE]
Gone == [deleted |-> TRUE]
Registered == {w \in WebhookIds : webhooks[w] \notin {NotThere, Gone}}

-----------------------------------------------------------------------------

New(min_level) ==
    [active |-> TRUE, min_level |-> min_level, success_count |-> 0, failure_count |-> 0]

RegisterWebhook(w) ==
    /\ edits < MaxEdits
    /\ webhooks[w] = NotThere
    /\ \E min_level \in {0, 2} : webhooks' = [webhooks EXCEPT ![w] = New(min_level)]
    /\ edits' = edits + 1
    /\ UNCHANGED <<sending, answered, phase, ended, lost, losses>>

\* The fields a partial update may have: the counts are not among them.
Updates == [active : BOOLEAN] \union [min_level : {0, 2}]

UpdateWebhook(w) ==
    /\ edits < MaxEdits
    /\ w \in Registered
    /\ \E updates \in Updates :
          /\ webhooks' = [webhooks EXCEPT ![w] =
                            [f \in DOMAIN @ |-> IF f \in DOMAIN updates THEN updates[f] ELSE @[f]]]
          /\ webhooks' # webhooks
    /\ edits' = edits + 1
    /\ UNCHANGED <<sending, answered, phase, ended, lost, losses>>

DeleteWebhook(w) ==
    /\ edits < MaxEdits
    /\ w \in Registered
    /\ webhooks' = [webhooks EXCEPT ![w] = Gone]
    /\ edits' = edits + 1
    /\ UNCHANGED <<sending, answered, phase, ended, lost, losses>>

Passes(d, config) == config.active /\ Level[d] >= config.min_level

\* dispatch_event lists the webhooks; when that raises there are none.
Dispatch(d) ==
    /\ phase[d] = "new"
    /\ phase' = [phase EXCEPT ![d] = "sending"]
    /\ \/ /\ sending' = [sending EXCEPT ![d] =
                            [w \in {v \in Registered : Passes(d, webhooks[v])} |-> webhooks[w]]]
          /\ UNCHANGED losses
       \/ /\ losses < MaxLost
          /\ losses' = losses + 1
          /\ UNCHANGED sending
    /\ UNCHANGED <<webhooks, answered, ended, lost, edits>>

\* The webhook answers, refuses, or does not answer in time.
SendEnds(d, w, outcome) ==
    /\ phase[d] = "sending"
    /\ w \in DOMAIN sending[d]
    /\ w \notin ended[d]
    /\ answered' = [answered EXCEPT ![d][w] = outcome]
    /\ ended' = [ended EXCEPT ![d] = @ \union {w}]
    /\ UNCHANGED <<webhooks, sending, phase, lost, edits, losses>>

\* Mutant: the count is computed from the webhook as the dispatch read it.
CountedFromListing(d, w) ==
    [webhooks EXCEPT ![w][answered[d][w]] = sending[d][w][answered[d][w]] + 1]

\* The script adds one in the store.
Counted(d, w) == [webhooks EXCEPT ![w][answered[d][w]] = @ + 1]

\* The outcome is counted; an error, such as that of a webhook deleted since,
\* is ignored.
CountSend(d, w) ==
    /\ answered[d][w] # "none"
    /\ answered' = [answered EXCEPT ![d][w] = "none"]
    /\ \/ /\ webhooks' = IF w \in Registered THEN Counted(d, w) ELSE webhooks
          /\ UNCHANGED <<lost, losses>>
       \/ /\ losses < MaxLost
          /\ losses' = losses + 1
          /\ lost' = lost \union {<<d, w>>}
          /\ UNCHANGED webhooks
    /\ UNCHANGED <<sending, phase, ended, edits>>

\* All are done, whatever became of each.
DispatchEnds(d) ==
    /\ phase[d] = "sending"
    /\ ended[d] = DOMAIN sending[d]
    /\ \A w \in WebhookIds : answered[d][w] = "none"
    /\ phase' = [phase EXCEPT ![d] = "done"]
    /\ UNCHANGED <<webhooks, sending, answered, ended, lost, edits, losses>>

WebhooksInit ==
    /\ webhooks = [w \in WebhookIds |-> NotThere]
    /\ sending = [d \in Dispatches |-> [w \in {} |-> NotThere]]
    /\ answered = [d \in Dispatches |-> [w \in WebhookIds |-> "none"]]
    /\ phase = [d \in Dispatches |-> "new"]
    /\ ended = [d \in Dispatches |-> {}]
    /\ lost = {}
    /\ edits = 0
    /\ losses = 0

WebhooksNext ==
    \/ \E w \in WebhookIds : RegisterWebhook(w) \/ UpdateWebhook(w) \/ DeleteWebhook(w)
    \/ \E d \in Dispatches :
          \/ Dispatch(d)
          \/ DispatchEnds(d)
          \/ \E w \in WebhookIds :
                \/ CountSend(d, w)
                \/ \E outcome \in {"success_count", "failure_count"} : SendEnds(d, w, outcome)

WebhooksSpec == WebhooksInit /\ [][WebhooksNext]_webhookVars

-----------------------------------------------------------------------------
(* Properties *)

\* The counts of a webhook that is still there add up, whoever was sending to it
\* at once and however it was changed meanwhile: every send to it that ended is
\* counted, is about to be, or is one the store refused to count.
CountsAddUp ==
    \A w \in Registered :
        webhooks[w].success_count + webhooks[w].failure_count
            = Cardinality({d \in Dispatches : w \in ended[d] /\ answered[d][w] = "none"
                                              /\ <<d, w>> \notin lost})

=============================================================================
