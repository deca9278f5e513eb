------------------------------- MODULE Assistant -------------------------------
(***************************************************************************)
(* The investigation assistant: the language model engine and its reloads, *)
(* the conversations, the two answer caches and the chat and explain       *)
(* requests that use them.                                                 *)
(*                                                                         *)
(* A reload unloads the model at once and loads the new one in a worker    *)
(* thread, under a lock the unloading does not take. A chat request opens  *)
(* or continues a conversation, awaits the alert and its context, looks in *)
(* the caches if the conversation had no history, and otherwise alternates *)
(* generations with awaited tools. Everything between two awaits is one    *)
(* step. Conversations are kept in the order of their last use, which is   *)
(* all that eviction and expiry read of their times. A request is one      *)
(* member of Chats or Reloads; ids are used once (uuid4).                  *)
(***************************************************************************)
EXTENDS Naturals, Sequences, SequencesExt

CONSTANTS
    Chats, Explains,     \* POST /chat and POST /explain requests
    Reloads,        \* POST /reload-model requests
    Boot,           \* the load lifespan starts before anything is served
    Questions, Similar,  \* texts, and the pairs above the threshold of .92
    AlertIds,       \* ids a request may name, the absent one among them
    ConvIds, NoConv,
    MaxConvs,       \* max_conversations, 100 in the code
    MaxTurns,       \* max_turns_per_conv, 20
    MaxIter,        \* max_iterations of the tool loop, 5
    ExactMax,       \* ExactMatchCache.maxsize, 200
    SemanticMax,    \* SemanticCache.maxsize, 500
    Targets,        \* names a reload may be given: any string
    Arrivals,       \* bound: the requests one behaviour may see, in order
    About,          \* bound: what each may ask, and of which alert
    MaxUpkeep       \* bound: deletions, expiries and cleared caches

Requests == Chats \union Explains

ASSUME AssistantBounds ==
    /\ {MaxConvs, MaxTurns, MaxIter, ExactMax, SemanticMax} \subseteq Nat \ {0}
    /\ MaxUpkeep \in Nat
    /\ \A h \in Requests : About[h] \subseteq Questions \X AlertIds
    /\ Boot \notin Reloads /\ NoConv \notin ConvIds
    /\ "none" \notin Targets     \* it stands for no model
    /\ \A q \in Questions : <<q, q>> \in Similar
    /\ Questions # {} /\ AlertIds # {}
    /\ \A order \in Arrivals :
          order \in Seq(Requests \union Reloads) /\ IsInjective(order)

VARIABLES
    arriving,       \* requests this behaviour may still see
    upkeep,         \* how often somebody deleted or something expired
    finetuned,      \* is there a fine-tuned model on disk
    model,          \* what is in memory; model and tokenizer go together
    model_name,     \* the engine's name for it, or the target of a reload
    is_finetuned,
    load_lock,      \* _load_lock: the holder first, then those who wait
    loadPc, target, resolved,
    lastLoad, alone,     \* history: latest load; did it find the lock free
    conversations,  \* ids, least recently active first
    turns,
    exact, semantic,     \* the caches, next to be evicted first
    chatPc, chat,   \* state of a request, and what it asked
    iteration, answer

engineVars == <<model, model_name, is_finetuned, load_lock, loadPc, target,
                resolved, lastLoad, alone>>
convVars == <<conversations, turns>>
cacheVars == <<exact, semantic>>
chatVars == <<chatPc, chat, iteration, answer>>
assistantVars == <<arriving, upkeep, finetuned, engineVars, convVars, cacheVars, chatVars>>

\* Ids are interchangeable, so a behaviour names its requests in order.
Arrives(x) ==
    /\ arriving # <<>>
    /\ Head(arriving) = x
    /\ arriving' = Tail(arriving)

Upkeep ==
    /\ upkeep < MaxUpkeep
    /\ upkeep' = upkeep + 1

-----------------------------------------------------------------------------
(* The engine *)

Loads == Reloads \union {Boot}
Known == {"auto", "base", "finetuned"}        \* the names ReloadRequest lists
Weights == {"phi3", "merged", "tinyllama"}   \* what they load
None == "none"

Loaded == model # None

\* _resolve_model_path: only "auto" and "finetuned" look for the merged model; a
\* name it does not know is the path of a model.
Resolve(name) ==
    CASE name \in {"auto", "finetuned"} -> IF finetuned THEN "merged" ELSE "phi3"
      [] name = "base" -> "phi3"
      [] OTHER -> name

\* Is what _resolve_model_path returned reported as the fine-tuned model?
Finetuned(name) == name \in {"auto", "finetuned"} /\ finetuned

\* The lock is free, or becomes so: load() up to the worker thread.
EnterLoad(l, name) ==
    /\ loadPc' = [loadPc EXCEPT ![l] = "loading"]
    /\ resolved' = [resolved EXCEPT ![l] = [path |-> Resolve(name),
                                            ft |-> Finetuned(name)]]
    /\ is_finetuned' = Finetuned(name)

RequestLoad(l, name) ==
    /\ loadPc[l] = "idle"
    /\ load_lock' = Append(load_lock, l)
    /\ IF load_lock = <<>> THEN EnterLoad(l, name)
       ELSE /\ loadPc' = [loadPc EXCEPT ![l] = "queued"]
            /\ UNCHANGED <<resolved, is_finetuned>>
    /\ lastLoad' = l
    /\ alone' = [alone EXCEPT ![l] = load_lock = <<>>]

\* Mutant: the load does not wait for the lock.
ReloadUnlocked(l, t) ==
    /\ Arrives(l)
    /\ loadPc[l] = "idle"
    /\ model' = None
    /\ model_name' = t
    /\ target' = [target EXCEPT ![l] = t]
    /\ EnterLoad(l, t)
    /\ lastLoad' = l
    /\ UNCHANGED <<upkeep, finetuned, load_lock, alone, convVars, cacheVars, chatVars>>

\* reload: unload and rename first, whoever holds the lock.
Reload(l, t) ==
    /\ Arrives(l)
    /\ model' = None
    /\ model_name' = t
    /\ target' = [target EXCEPT ![l] = t]
    /\ RequestLoad(l, t)
    /\ UNCHANGED <<upkeep, finetuned, convVars, cacheVars, chatVars>>

\* A waiter is woken: it resolves the name the engine has by now.
AcquireLock(l) ==
    /\ loadPc[l] = "queued"
    /\ Head(load_lock) = l
    /\ EnterLoad(l, model_name)
    /\ UNCHANGED <<arriving, upkeep, finetuned, model, model_name, load_lock, target,
                   lastLoad, alone, convVars, cacheVars, chatVars>>

\* The load is over and the lock is released.
LeaveLoad(l, how) ==
    /\ loadPc' = [loadPc EXCEPT ![l] = how]
    /\ load_lock' = RemoveFirst(load_lock, l)

\* What was not the fine-tuned model is named Phi-3, whatever was loaded.
LoadReturns(l) ==
    /\ loadPc[l] = "loading"
    /\ model' = resolved[l].path
    /\ model_name' = IF resolved[l].ft THEN "merged" ELSE "phi3"
    /\ LeaveLoad(l, "done")
    /\ UNCHANGED <<arriving, upkeep, finetuned, is_finetuned, target, resolved,
                   lastLoad, alone, convVars, cacheVars, chatVars>>

\* Any error of the first load: TinyLlama is tried instead.
LoadFails(l) ==
    /\ loadPc[l] = "loading"
    /\ loadPc' = [loadPc EXCEPT ![l] = "fallback"]
    /\ model_name' = "tinyllama"
    /\ is_finetuned' = FALSE
    /\ UNCHANGED <<arriving, upkeep, finetuned, model, load_lock, target, resolved,
                   lastLoad, alone, convVars, cacheVars, chatVars>>

\* The worker reads model_name, which a reload may have replaced; then, and if
\* it cannot load TinyLlama either, the engine stays as it is.
FallbackReturns(l) ==
    /\ loadPc[l] = "fallback"
    /\ model' \in {"tinyllama", model}
    /\ LeaveLoad(l, "done")
    /\ UNCHANGED <<arriving, upkeep, finetuned, model_name, is_finetuned, target,
                   resolved, lastLoad, alone, convVars, cacheVars, chatVars>>

\* Mutant: a load that is cancelled keeps the lock.
TimeoutKeepsLock(l) ==
    /\ l \in Reloads
    /\ loadPc[l] \in {"queued", "loading", "fallback"}
    /\ loadPc' = [loadPc EXCEPT ![l] = "timeout"]
    /\ UNCHANGED <<load_lock, arriving, upkeep, finetuned, model, model_name,
                   is_finetuned, target, resolved, lastLoad, alone, convVars,
                   cacheVars, chatVars>>

\* wait_for cancels a reload after 120 s, wherever it waits.
Timeout(l) ==
    /\ l \in Reloads
    /\ loadPc[l] \in {"queued", "loading", "fallback"}
    /\ LeaveLoad(l, "timeout")
    /\ UNCHANGED <<arriving, upkeep, finetuned, model, model_name, is_finetuned,
                   target, resolved, lastLoad, alone, convVars, cacheVars,
                   chatVars>>

EngineStep(l) ==
    AcquireLock(l) \/ LoadReturns(l) \/ LoadFails(l) \/ FallbackReturns(l)

-----------------------------------------------------------------------------
(* Conversations *)

Turn == [role : {"user", "assistant"}, by : Chats]

Touched(c) == Append(RemoveFirst(conversations, c), c)

\* Mutant: a window that is full is emptied.
WindowRestarts(c, t) == IF Len(turns[c]) >= MaxTurns THEN <<t>>
                        ELSE Append(turns[c], t)

\* add_turn: a sliding window.
Window(c, t) == (IF Len(turns[c]) >= MaxTurns THEN Tail(turns[c]) ELSE turns[c])
                    \o <<t>>

Used == {chat[h].conv : h \in Requests}

\* create_conversation: the least recently active one makes room.
StoreAfterCreate(c) ==
    Append(IF Len(conversations) >= MaxConvs THEN Tail(conversations)
           ELSE conversations, c)

\* DELETE /conversations/{id}, and cleanup_expired for the oldest ones.
DropConversation(c) ==
    /\ Upkeep
    /\ \E k \in DOMAIN conversations : conversations[k] = c
    /\ conversations' = RemoveFirst(conversations, c)
    /\ UNCHANGED <<arriving, finetuned, engineVars, turns, cacheVars, chatVars>>

CleanupExpired(n) ==
    /\ Upkeep
    /\ n \in 1 .. Len(conversations)
    /\ conversations' = SubSeq(conversations, n + 1, Len(conversations))
    /\ UNCHANGED <<arriving, finetuned, engineVars, turns, cacheVars, chatVars>>

-----------------------------------------------------------------------------
(* The caches. A record keeps the request whose answer it is. *)

Key(h) == [question |-> chat[h].question, alert |-> chat[h].alert]

ExactAt(h) == {k \in DOMAIN exact : Key(exact[k].by) = Key(h)}
ExactHits(h) == {k \in ExactAt(h) : ~exact[k].old}

\* Records about the same alert that are similar enough.
Matches(h) == {k \in DOMAIN semantic :
                  /\ chat[semantic[k].by].alert = chat[h].alert
                  /\ <<chat[h].question, chat[semantic[k].by].question>> \in Similar}

\* argmax: the first record of the same text, else any similar one.
Best(h) ==
    LET same == {k \in Matches(h) :
                    chat[semantic[k].by].question = chat[h].question}
    IN  IF same = {} THEN Matches(h)
        ELSE {k \in same : \A j \in same : k <= j}

Trimmed(s, bound) == IF Len(s) > bound THEN Tail(s) ELSE s

\* The key's entry, of which there is at most one, is taken out.
WithoutKey(h) == RemoveFirstMatch(exact, LAMBDA r : Key(r.by) = Key(h))

\* SLMCache.set.
Remember(h) ==
    /\ exact' = Trimmed(Append(WithoutKey(h), [by |-> h, old |-> FALSE]), ExactMax)
    /\ semantic' = Trimmed(Append(semantic, [by |-> h]), SemanticMax)

\* An hour passes for an exact entry; semantic records have no lifetime.
AgeEntry(k) ==
    /\ Upkeep
    /\ k \in DOMAIN exact
    /\ ~exact[k].old
    /\ exact' = [exact EXCEPT ![k].old = TRUE]
    /\ UNCHANGED <<arriving, finetuned, engineVars, convVars, semantic, chatVars>>

\* DELETE /cache/clear
ClearCaches ==
    /\ Upkeep
    /\ exact \o semantic # <<>>
    /\ exact' = <<>>
    /\ semantic' = <<>>
    /\ UNCHANGED <<arriving, finetuned, engineVars, convVars, chatVars>>

-----------------------------------------------------------------------------
(* Requests *)

\* get_history_for_prompt: the last six turns, without the question itself.
History(c) ==
    IF Contains(conversations, c)
    THEN SubSeq(turns[c], Max({Len(turns[c]) - 5, 1}), Len(turns[c]))
    ELSE <<>>

\* POST /chat: a conversation the client names, if it is still there, or a
\* new one. The question is added before anything is awaited.
Ask(h, q, a, c) ==
    /\ Arrives(h)
    /\ Loaded
    /\ \/ /\ Contains(conversations, c)
          /\ conversations' = Touched(c)
       \/ /\ c \notin Used
          /\ c = CHOOSE x \in ConvIds \ Used : TRUE   \* uuid4
          /\ conversations' = StoreAfterCreate(c)
    /\ turns' = [turns EXCEPT ![c] = Window(c, [role |-> "user", by |-> h])]
    /\ chat' = [chat EXCEPT ![h] = [question |-> q, alert |-> a, conv |-> c,
                                    history |-> History(c) # <<>>]]
    /\ chatPc' = [chatPc EXCEPT ![h] = "context"]
    /\ UNCHANGED <<upkeep, finetuned, engineVars, cacheVars, iteration, answer>>

\* POST /explain: a question of its own, no conversation and no history.
Explain(h, q, a) ==
    /\ Arrives(h)
    /\ Loaded
    /\ chat' = [chat EXCEPT ![h] = [question |-> q, alert |-> a,
                                    conv |-> NoConv, history |-> FALSE]]
    /\ chatPc' = [chatPc EXCEPT ![h] = "context"]
    /\ UNCHANGED <<upkeep, finetuned, engineVars, convVars, cacheVars, iteration, answer>>

\* get_soc_agent: 503 while nothing is loaded.
Refuse(h) ==
    /\ Arrives(h)
    /\ ~Loaded
    /\ chatPc' = [chatPc EXCEPT ![h] = "refused"]
    /\ UNCHANGED <<upkeep, finetuned, engineVars, convVars, cacheVars, chat, iteration,
                   answer>>

\* Mutant: an answer whose conversation is gone starts it again.
FinishRevives(h, ans) ==
    LET c == chat[h].conv
    IN  /\ answer' = [answer EXCEPT ![h] = ans]
        /\ chatPc' = [chatPc EXCEPT ![h] = "done"]
        /\ IF c = NoConv THEN UNCHANGED convVars
           ELSE /\ conversations' = Touched(c)
                /\ turns' = [turns EXCEPT ![c] =
                              Window(c, [role |-> "assistant", by |-> h])]

\* The answer joins its conversation; if that is gone the request fails (500).
Finish(h, ans) ==
    LET c == chat[h].conv
        gone == c # NoConv /\ ~Contains(conversations, c)
    IN  /\ answer' = [answer EXCEPT ![h] = ans]
        /\ chatPc' = [chatPc EXCEPT ![h] = IF gone THEN "failed" ELSE "done"]
        /\ IF c = NoConv \/ gone THEN UNCHANGED convVars
           ELSE /\ conversations' = Touched(c)
                /\ turns' = [turns EXCEPT ![c] =
                              Window(c, [role |-> "assistant", by |-> h])]

\* The loop returned: the answer is cached if the conversation was new.
FinishLoop(h, kind) ==
    /\ Finish(h, [kind |-> kind, by |-> h])
    /\ IF chat[h].history THEN UNCHANGED cacheVars ELSE Remember(h)
    /\ UNCHANGED iteration

\* Mutant: whatever investigate answers is cached.
GenerateCachesAll(h) ==
    /\ \/ ~Loaded /\ FinishLoop(h, "apology")
       \/ Loaded /\ FinishLoop(h, "answer")
       \/ /\ Loaded
          /\ chatPc' = [chatPc EXCEPT ![h] = "tool"]
          /\ iteration' = [iteration EXCEPT ![h] = @ + 1]
          /\ UNCHANGED <<convVars, cacheVars, answer>>
    /\ UNCHANGED <<arriving, upkeep, finetuned, engineVars, chat>>

\* What the lookup of this step, if it makes one, leaves of the exact cache: an
\* entry past its lifetime is deleted.
LookedUp(h) ==
    IF chatPc[h] = "context" /\ ~chat[h].history THEN WithoutKey(h) ELSE exact

\* One turn of run_react_loop: an error (there is no model, or generating or
\* reading what was generated raised), an answer, or a tool that is awaited.
Generate(h) ==
    /\ \/ /\ Finish(h, [kind |-> "apology", by |-> h])
          /\ exact' = LookedUp(h)
          /\ UNCHANGED <<semantic, iteration>>
       \/ Loaded /\ FinishLoop(h, "answer")
       \/ /\ Loaded
          /\ chatPc' = [chatPc EXCEPT ![h] = "tool"]
          /\ iteration' = [iteration EXCEPT ![h] = @ + 1]
          /\ exact' = LookedUp(h)
          /\ UNCHANGED <<convVars, semantic, answer>>
    /\ UNCHANGED <<arriving, upkeep, finetuned, engineVars, chat>>

\* An exact hit becomes the most recent entry; its age does not change.
ExactHit(h, k) ==
    /\ k \in ExactHits(h)
    /\ exact' = Append(RemoveAt(exact, k), exact[k])
    /\ Finish(h, answer[exact[k].by])
    /\ UNCHANGED <<arriving, upkeep, finetuned, engineVars, semantic, chat, iteration>>

ExactMiss(h) ==
    /\ ExactHits(h) = {}
    /\ exact' = LookedUp(h)

\* A semantic hit on the first record.
SemanticHit(h) ==
    /\ ExactMiss(h)
    /\ 1 \in Best(h)
    /\ semantic' = Append(Tail(semantic), Head(semantic))
    /\ Finish(h, answer[semantic[1].by])
    /\ UNCHANGED <<arriving, upkeep, finetuned, engineVars, chat, iteration>>

\* A hit on a later record: list.remove compares the records before it, whose
\* embeddings are arrays, and raises. The request fails with its question kept.
SemanticHitRaises(h) ==
    /\ ExactMiss(h)
    /\ \E k \in Best(h) : k > 1
    /\ chatPc' = [chatPc EXCEPT ![h] = "failed"]
    /\ UNCHANGED <<arriving, upkeep, finetuned, engineVars, convVars, semantic, chat,
                   iteration, answer>>

\* The alert and its context have arrived: the caches, then the loop.
Investigate(h) ==
    /\ chatPc[h] = "context"
    /\ IF chat[h].history THEN Generate(h)
       ELSE \/ \E k \in DOMAIN exact : ExactHit(h, k)
            \/ SemanticHit(h)
            \/ SemanticHitRaises(h)
            \/ ExactHits(h) = {} /\ Matches(h) = {} /\ Generate(h)

\* Mutant: one iteration too many.
IterateOnceMore(h) ==
    /\ chatPc[h] = "tool"
    /\ \/ iteration[h] <= MaxIter /\ Generate(h)
       \/ /\ iteration[h] > MaxIter
          /\ FinishLoop(h, "stopped")
          /\ UNCHANGED <<arriving, upkeep, finetuned, engineVars, chat>>

\* The tool has answered: another generation, or the last one is past.
Iterate(h) ==
    /\ chatPc[h] = "tool"
    /\ \/ iteration[h] < MaxIter /\ Generate(h)
       \/ /\ iteration[h] = MaxIter
          /\ FinishLoop(h, "stopped")
          /\ UNCHANGED <<arriving, upkeep, finetuned, engineVars, chat>>

-----------------------------------------------------------------------------

AssistantInit ==
    /\ arriving \in Arrivals
    /\ upkeep = 0
    /\ finetuned \in BOOLEAN
    /\ model = None
    /\ model_name = "auto"
    /\ is_finetuned = Finetuned("auto")
    /\ load_lock = <<Boot>>
    /\ loadPc = [l \in Loads |-> IF l = Boot THEN "loading" ELSE "idle"]
    /\ target = [l \in Loads |-> "auto"]
    /\ resolved = [l \in Loads |-> [path |-> Resolve("auto"),
                                    ft |-> Finetuned("auto")]]
    /\ lastLoad = Boot
    /\ alone = [l \in Loads |-> l = Boot]
    /\ conversations = <<>>
    /\ turns = [c \in ConvIds |-> <<>>]
    /\ exact = <<>>
    /\ semantic = <<>>
    /\ chatPc = [h \in Requests |-> "new"]
    /\ chat = [h \in Requests |-> [question |-> CHOOSE q \in Questions : TRUE,
                                alert |-> CHOOSE a \in AlertIds : TRUE,
                                conv |-> NoConv, history |-> FALSE]]
    /\ iteration = [h \in Requests |-> 0]
    /\ answer = [h \in Requests |-> [kind |-> "none", by |-> h]]

Request ==
    \/ \E l \in Reloads, t \in Targets : Reload(l, t)
    \/ \E l \in Reloads : Timeout(l)
    \/ \E h \in Requests : Refuse(h)
    \/ \E h \in Requests : \E topic \in About[h] :
          \/ h \in Explains /\ Explain(h, topic[1], topic[2])
          \/ h \in Chats /\ \E c \in ConvIds : Ask(h, topic[1], topic[2], c)
    \/ \E c \in ConvIds : DropConversation(c)
    \/ \E n \in 1 .. MaxConvs : CleanupExpired(n)
    \/ \E k \in 1 .. ExactMax : AgeEntry(k)
    \/ ClearCaches

ChatStep(h) == Investigate(h) \/ Iterate(h)

AssistantNext ==
    \/ \E l \in Loads : EngineStep(l)
    \/ Request
    \/ \E h \in Requests : ChatStep(h)

\* A worker thread, a database lookup and a tool return or raise, a waiter is
\* woken, and some task that is ready runs: the requests being finitely many,
\* none need be favoured. Nobody need ask, reload, time out or clear anything.
AssistantFairness ==
    /\ WF_assistantVars(\E l \in Loads : EngineStep(l))
    /\ WF_assistantVars(\E h \in Requests : ChatStep(h))

AssistantSpec == AssistantInit /\ [][AssistantNext]_assistantVars

FairAssistantSpec == AssistantSpec /\ AssistantFairness

-----------------------------------------------------------------------------
(* Properties *)

Entry == [by : Requests, old : BOOLEAN]

AssistantTypeOK ==
    /\ arriving \in Seq(Requests \union Reloads)
    /\ upkeep \in 0 .. MaxUpkeep
    /\ finetuned \in BOOLEAN
    /\ model \in Weights \union Targets \union {None}
    /\ model_name \in Weights \union Targets \union {"auto"}
    /\ is_finetuned \in BOOLEAN
    /\ load_lock \in Seq(Loads)
    /\ loadPc \in [Loads -> {"idle", "queued", "loading", "fallback", "done",
                              "timeout"}]
    /\ target \in [Loads -> Targets \union {"auto"}]
    /\ resolved \in [Loads -> [path : Weights \union Targets, ft : BOOLEAN]]
    /\ lastLoad \in Loads
    /\ alone \in [Loads -> BOOLEAN]
    /\ conversations \in Seq(ConvIds)
    /\ turns \in [ConvIds -> Seq(Turn)]
    /\ exact \in Seq(Entry)
    /\ semantic \in Seq([by : Requests])
    /\ chatPc \in [Requests -> {"new", "context", "tool", "done", "failed", "refused"}]
    /\ chat \in [Requests -> [question : Questions, alert : AlertIds,
                           conv : ConvIds \union {NoConv}, history : BOOLEAN]]
    /\ iteration \in [Requests -> 0 .. MaxIter]
    /\ answer \in [Requests -> [kind : {"none", "answer", "stopped", "apology"},
                             by : Requests]]

\* Loads never overlap, though reloads unload and rename without the lock and
\* may be cancelled anywhere (two at once would hold two models in memory); and
\* a reload that found the lock free, and that no other followed, leaves the
\* model that was asked for, or the fallback, or none. It goes by its own name if
\* it was asked for by a name the engine knows or is the fallback: a model asked
\* for by any other name goes by the name of Phi-3.
LoadsTakeTurns ==
    /\ \A l, m \in Loads :
          {loadPc[l], loadPc[m]} \subseteq {"loading", "fallback"}
              => l = m /\ load_lock[1] = l
    /\ (loadPc[lastLoad] = "done" /\ alone[lastLoad])
          => /\ model \in {Resolve(target[lastLoad]), "tinyllama", None}
             /\ Loaded => \/ model_name = model
                          \/ target[lastLoad] \notin Known /\ model_name = "phi3"
             /\ is_finetuned => model = "merged"

\* An answer follows its question in the conversation it was asked in, unless
\* the window has rolled past the question; and the answer of a request that
\* succeeded is there, unless the window is full or the conversation dropped.
AnswersStayWithQuestions ==
    \A c \in ConvIds, h \in Chats :
        /\ \A j \in DOMAIN turns[c] :
              turns[c][j] = [role |-> "assistant", by |-> h]
                => \/ \E i \in 1 .. j - 1 : turns[c][i] = [role |-> "user", by |-> h]
                   \/ Len(turns[c]) = MaxTurns
        /\ chat[h].conv = c /\ chatPc[h] = "done" /\ Contains(conversations, c)
              => \/ Contains(turns[c], [role |-> "assistant", by |-> h])
                 \/ Len(turns[c]) = MaxTurns

\* A conversation that was deleted, evicted or has expired does not come back
\* with the answer that was awaited when it went.
GoneStaysGone ==
    [][\A c \in ConvIds : c \in Used /\ ~Contains(conversations, c)
                              => ~Contains(conversations', c)]_assistantVars

\* What a cache tells a request is the outcome of a loop that ended, never the
\* apology for a model that was missing and never an answer to somebody's
\* conversation, and it was given to a question like this one about the same
\* alert.
CachedAnswersFit ==
    /\ \A e \in ToSet(exact) \union ToSet(semantic) :
          /\ answer[e.by].kind \in {"answer", "stopped"}
          /\ answer[e.by].by = e.by
          /\ ~chat[e.by].history
    /\ \A h \in Requests :
          answer[h].kind # "none"
              => /\ chat[answer[h].by].alert = chat[h].alert
                 /\ <<chat[h].question, chat[answer[h].by].question>> \in Similar

\* Every request and every load ends, also when reloads time out or keep
\* replacing the model that is answering.
RequestsEnd ==
    []<>(/\ \A l \in Loads : loadPc[l] \notin {"queued", "loading", "fallback"}
         /\ \A h \in Requests : chatPc[h] \notin {"context", "tool"})

=============================================================================
