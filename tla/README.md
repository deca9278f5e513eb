# A formal model of the SOC platform's backend

TLA+ modules for the parts of this repository where order, interleaving and
failure decide whether it works, the TLC configurations that check them, and
proofs TLAPS checks. Paths below are relative to the repository; `app/` is
`backend/app/`.

## 1. The system

A FastAPI process (one event loop) pulls security logs from Elasticsearch through
a read-only Kibana proxy, turns them into features, scores every entity and
five-minute window with an ensemble of detectors, and stores what is above a
threshold as alerts in SQLite. Analysts work on the alerts in a browser, label
them, and ask a local language model about them. A scheduler in the same process
runs the cycle every five minutes and some twenty other jobs.

| Component | State it keeps | Operations | Talks to |
|---|---|---|---|
| Feedback and suppression (`app/feedback`, `app/api/routes/feedback.py`) | table `soc_feedback`; the suppressor's list in memory | post a label, refresh the list, decide on a result | SQLite; called by the scoring cycle and by startup |
| Scoring cycle (`app/scoring/threat_engine.py`) | table `soc_alerts`; the local state of a run | run a cycle (scheduled, `POST /ingestion/run`, `POST /alerts/trigger-scoring`) | feature pipeline, detectors, suppressor, correlator, webhooks, feed, cache |
| Correlator (`app/scoring/correlator.py`) | none; incidents are meant for Elasticsearch | cluster the alerts of a cycle | called by the cycle |
| Alerts API and cache (`app/api/routes/alerts.py`, `app/cache`) | cached statistics with a lifetime | list, statistics, status, tags | SQLite |
| Alert feed (`app/api/routes/websocket.py`) | connections, buffer, flush task | connect, broadcast, flush every 2 s, disconnect | browsers; called by every job |
| Detectors and training (`app/models`, `app/features/feature_merger.py`) | model files, attributes of `ModelManager`, table `training_jobs` | load at boot, initial training, retraining, record outcome, `scripts/cleanup.py` | feature pipeline, scheduler, startup |
| Ingestion (`app/ingestion`) | empty-query cache, scheduler state | fetch three sources at once, normalise; every five minutes or on request | Kibana; feeds the scoring cycle |
| Detectors' mathematics (`app/models`, `app/features`) | none between calls | features, rules, networks, the vote | called by the cycle |
| Pattern and incident logic (`app/models/pattern_detector.py`, `app/scoring/correlator.py`) | none between calls | match attack patterns; cut clusters, merge | incidents, tests |
| Assistant (`app/slm`, `app/api/routes/slm.py`) | model and tokenizer, load lock, conversations, two answer caches | load, reload, chat, explain, delete, clear | SQLite; worker threads |
| Webhooks (`app/integrations/webhook_manager.py`) | documents with counts | register, update, delete, dispatch | the cycle; other servers |
| Reports (`app/reports`) | schedules and reports as documents | hourly job, run now, create | the document store |
| Deadlines (`app/monitoring/sla_tracker.py`) | none; reads an index | job every five minutes, dashboard | the feed |
| Health (`app/health`, `app/api/routes/health.py`) | one kept report, the cycle's last run | deep check | every component |
| Migrations (`app/migrations`) | one record a version, mappings | apply at boot, roll back | the document store |
| Console (`frontend/src`) | stored and used token, user shown, sockets and timers of the hook | load a page, check the token, log in, connect, reconnect | REST, feed |
| Teams, audit, analytics, platform alerting, drift | documents | create, query | writes that are stubs, or code that raises |
| Auth, middleware, backups | tokens that are issued and expire; else none between requests | per-request checks, copying files | everything |

What makes it hard: every `await` lets another request, job or task run between
a read and the write that depends on it (the suppression list, the cached
statistics, tags, conversations); the flush task iterates over a list other tasks
edit; a training run saves four files one after another and may be cut between
any two; all memory, and no table or file, is lost in a restart; and several
calls go to functions that do not exist, so that a handler ends where its text
does not. `PROJECT.json` lists these hazards at their lines.

What makes each component correct:

- *Suppression*: nothing is suppressed that no analyst labelled; a label that was
  acknowledged takes effect, also after a restart, as long as it is among the newest
  that are listed.
- *Scoring cycle*: suppression is not undone by what follows it; an incident counts
  stored alerts that no other counts; alerts reach the browsers; statistics catch up.
- *Feed*: each browser is sent an unbroken, ordered stretch of the alerts; nobody
  who is connected is forgotten.
- *Detectors*: a detector works on inputs scaled by the scaler it was trained
  with, in memory and on disk; a job ends with an outcome.
- *Assistant*: loads never overlap, and an undisturbed reload ends with the model
  that was asked for, under its name if it is one the engine knows; an answer joins its own conversation or the conversation is
  gone; what is cached answers a question like the one it was given to.
- *Ingestion*: in quiet operation every document is used by the next cycle.
- *Detection, patterns, correlation, ensemble*: evidence only adds; a reported
  pattern occurs; no cut of the time line hides a pair of alerts or a strong one;
  a row is scored in a batch as it is by itself.
- *Tags and listing*: the limit of tags holds under every overlap; a reader of
  pages misses no more alerts than have left the listing meanwhile.
- *Webhooks, reports, deadlines, health, migrations*: counts add up; reports
  cover the time, and overlap only as far as they were made late; no deadline passes
  unannounced if one run of the job near it saw every alert; "healthy" is recent; a
  recorded migration has run, after all those before it.
- *Console*: the user who is shown, the token that is sent and the one that is
  stored go together; a page that is signed in does not stop listening.

## 2. Modules

| Module | Models | Kind |
|---|---|---|
| `FeedbackSuppression` | labels, refreshes, decisions, restarts | component |
| `FeedbackSuppressionProofs` | proofs about it | proofs |
| `ThreatScore` | the arithmetic of one score | operators |
| `ScoringCycle` | overlapping cycles, the alerts table, statistics (extends `ThreatScore`) | component |
| `ScoringCycleProofs` | proofs about both | proofs |
| `AlertLog` | what the feed promises | abstract specification |
| `AlertFeed` | connections, buffer, flush task; implements `AlertLog` | component |
| `AlertFeedProofs` | proofs about it, its refinement included | proofs |
| `ModelRegistry` | files, memory and training jobs | component |
| `ModelRegistryProofs` | proofs about it | proofs |
| `Assistant` | model loads, conversations, answer caches, chat and explain requests | component |
| `Ingestion` | time, windows, searches, the memory of empty answers | component |
| `Detection` | events of a cycle, the joined feature tables, the rules | component |
| `Patterns` | the eight attack patterns and their greedy matcher, alert by alert | component |
| `Correlation` | clusters, alert by alert; incidents, merging | component |
| `Ensemble` | batches, event sequences, the vote of four detectors | component |
| `AlertRecords` | concurrent edits of an alert's tags, its status column | component |
| `AlertListing` | paged reading while alerts are stored and closed | component |
| `Webhooks` | concurrent dispatches and their counts | component |
| `Reports` | schedules, the hourly job, reports on request | component |
| `Migrations` | applying, recording, rolling back, dying in between | component |
| `Deadlines` | the SLA job, its warnings, the dashboard | component |
| `Health` | overlapping deep checks and the report they keep | component |
| `Console` | a browser's session and the socket of its hook | component |
| `AssistantProofs` | proofs about `Assistant` | proofs |
| `PipelineProofs` | proofs about `Ingestion`, `Detection`, `Ensemble`, `Patterns`, `Correlation` | proofs |
| `AlertPagesProofs` | proofs about `AlertRecords`, `AlertListing`, `Console` | proofs |
| `OperationsProofs` | proofs about `Webhooks`, `Health`, `Reports`, `Migrations`, `Deadlines` | proofs |
| `MCPlatform` | the thirteen from `Ingestion` on, side by side | instance |
| other `MC*` | instances for TLC | instances |

`PROJECT.json`, "map", names the source lines of every definition. How state and
steps correspond to the code:

**FeedbackSuppression.** A *refresher* is a request to `POST /api/feedback` or the
refresh startup awaits. `SubmitFeedback` is the part of the handler up to the
committed insert, `ListFeedback` the awaited listing of FP rows (the snapshot),
`LookupAlert` one awaited lookup of the loop, and the last of them assigns the
list and answers (`Install`), since no `await` lies in between. `RefreshFails` is
the `except` that returns no patterns: the code then installs the empty list.
`ScoreResult` and `StoreAlert` are the two sides of the awaits between a cycle's
decision and its insert. `Restart` keeps the tables and nothing else. A listing
returns the newest `FPLimit` FP rows (10000 in the code, `label_store.py:60`): `newest`
holds them, each row counting and ordered by their inserts, while `soc_feedback` is the
set of all labels ever stored. Nothing else needs to know how often a label was posted,
because the list ignores the counts. `missed` and `acked` are history: the requests
whose row had left the newest when they listed them, and the acknowledged labels that
have not left them.

**ThreatScore and ScoringCycle.** Scores are exact ten-thousandths, so that caps,
multipliers and boundaries are integers. The code uses binary floats; a score
within a rounding error of a boundary may fall on its other side there. One
`StoreAlert` is a turn of the loop over the results: the awaits in it read
baselines, which are stubs, so the table changes only at the insert at its end
(what other tasks do between decision and insert is in FeedbackSuppression).
`Correlate` sends the incidents; storing and broadcasting them fails in the code
before anything is written. The contexts it is handed name their alerts neither "id" nor
"_id", so the ids an incident carries are made up (`FreshIds`, `correlator.py:107-109`);
the cluster it was made from is kept beside them as history. The statistics' query stops
at 10000 rows, which is left out (`OpenRows`): they are then wrong, and no property is
about how many. `Announce` ends at `_rag_pipeline.index_alert`, which
does not exist, for a cycle with a loud alert, and drops the cached statistics
otherwise. `ReadStats` and `CacheStats` are the two sides of the await in
`cache_result`; `ExpireStats` is the entry's lifetime.

**AlertFeed.** Sections under `_buffer_lock` contain no other await and are single
steps. `Send` is one awaited `send_text` of the loop over the snapshot of the
connections; to a browser that is gone it raises, which drops the connection, or
is lost unnoticed. The component is modelled at its interface: `broadcast` of a
`new_alert` may be called at any time, although the scoring cycle, its caller,
currently stops before the call. `log` and `received` are history variables. The
refinement mapping is the identity on them: `FeedImplementsLog` is `AlertLog`'s
specification under `INSTANCE AlertLog WITH log <- log, received <- received`.

**ModelRegistry.** The version of a scaler is the number of the training run that
fitted it, the version of a detector that of the scaler its inputs were scaled
with, so that "they belong together" is an equation. A training run has no await
and is one step of the event loop, with `TrainFails` and `CrashInTraining` cutting
it after any of its four saves or in the middle of one (`Torn`). `Load` is
`ModelManager.initialize` with its early stop at an unreadable file, `Boot` adds
the decision to train. Only `run_initial_training` reloads the scalers.

**Assistant.** `Reload` unloads the model and renames the engine at once, without
the lock, and then waits for it; `load_lock` is the holder and those who wait, in
order. `LoadReturns`, `LoadFails` and `FallbackReturns` are what the worker thread
may answer, `Timeout` the `wait_for` that cancels a reload wherever it waits. `Ask`
is the chat handler up to its first await: the conversation is found or created,
the least recently used one making room, and the question added. A reload may name any
model: the endpoint takes every string (`slm.py:32`). `Resolve` is what is loaded for it,
and `Known` the three names that do not stand for themselves. `Investigate` and
`Iterate` are the steps between the awaits that follow: the alert's context, and the
tools. A conversation whose lifetime is over goes when somebody asks for it (`LookedUp`),
as in the code. A cache record names the request whose answer it keeps, from which its
question, alert and answer are known. `SemanticHitRaises` is
`list.remove` comparing arrays (`cache.py:106`). The prompt and the wording are
left out; "similar" is a given relation.

**Ingestion.** A cycle asks each source for the last `Window` minutes unless
the source's last empty answer is `Fresh` (`BeginFetches`). `SearchReturns` takes
the window at the moment the server runs it and cuts it at `Size`. A third
failed attempt is an empty answer (`SearchFails`). `Boot` is the connection test that
decides, once, whether the scheduler starts.

**Detection, Ensemble.** `seen` holds the normalised events; features, the outer join
and the rules are operators over it. `Ensemble` takes the feature table and goes
through it as `score_all_entities_batched` does, a batch and then its rows; what the
networks answer is part of a row (forest, autoencoder) or a constant operator
(LSTM). Scores are percentages and weights 300ths, so that the share of an absent
detector is a whole number. No two events of one entity have the same time: pandas
does not say in which order its sort leaves them.

**Patterns, Correlation.** A step is a round of the code's loop: `Consider` takes the
next alert of the incident for the pattern that is being matched, or leaves it;
`Cluster` puts the next alert of an entity into its last cluster or a new one, one
entity after another. The alerts are built by earlier steps (`Extend`, `HandOver`), in
every order within the bounds. An incident is what `Incident` makes of a cluster, and
`Merge` what merging makes of an incident. Its alerts are named, as those of the tests
are; for the contexts of a cycle, which are not, see `ScoringCycle`. The reference definitions are in
the properties: `Occurs` quantifies over all choices of alerts for the steps.
`merge_incidents` is called only by
`backend/tests/test_correlation/test_correlator.py:79`.

**AlertRecords, AlertListing.** `AddTags` and `RemoveTag` are the handlers up to the
await after the read, `WriteTags` their ends. `UpdateStatus` sets a column that the
query filters on; the status an answer shows is the one in `raw_context`, which
nothing sets. `ReadPage` is one request: status and row limit in the query, the
other filters, the offset and the page size after it. An alert's place in the listing is
the number of those before it (`Rank`), and a page the alerts whose places it covers
(`Slice`).

**Webhooks.** `Dispatch` lists the webhooks and starts the sends; `SendEnds` is an
answer, an error or the ten-second timeout; `CountSend` the script that adds one in
the store.

**Reports.** `BeginJob` reads the time once for all schedules, lists those with the
earliest `next_run`, whether they run or not (`Listings`: 50 in the code), and keeps the
ones that are due. `StoreReport` and `UpdateSchedule` are the two writes for each, either
of which may raise; time passes between them, and a report ends when it is made (`at`)
while `next_run` counts from the job's beginning (`run`). `SkipJob` is an hour whose job
the scheduler gives up: more than its grace late (one second, APScheduler's default), the
one before still running, or the process down. `Restart` drops the job in flight.
`passedOver` and `unmoved` are history: schedules that got no report in an hour although
they were due, and those whose report was stored and `next_run` not moved.

**Deadlines.** The tracker keeps nothing, so what was done is told from the status and
the incident (`MetBy`). The index it reads, `soc-alerts`, is written by nothing in this
repository and is external: alerts appear and change. A search returns any of the alerts
it finds up to its size (`Hits`: 500 for the job, 1000 for the dashboard); an alert whose
level is null raises and leaves the caller with nothing (`Readable`). `spoilt` is
history: the runs of the job that need not have seen every alert.

**Health.** `ReadComponent` is one reading of a gathered check, or what the check makes of
an exception (`WhenRaised`); `Kept` the report that replaces the one before, counted from
when the request began.

**Migrations.** `Up` and `Record` are two calls to the store, and a `Crash` may fall
between; the migrations that are left are a set, of which the lowest version is the next.
Any of the indices may be missing at the first boot and come later (`CreateIndex`), and
`v001`'s rollback deletes them; a migration then puts its fields nowhere and succeeds, and
`blind` remembers that.

Three of them write documents. The application's client is the Kibana proxy, whose
writes do nothing; `es_client_protocol.py:61-73` foresees a client with indices, which
these classes are written for. `Reports` models both (`client`), since the schedules
can be read from either; `Webhooks` and `Migrations` model the second, for with the
first they have no state.

**Console.** `LoadPage` is `AuthContext`'s first render and the effect that asks
`/me` about the token it found; `CheckPasses`, `CheckRefused` and `CheckFails` are
the answers, the last one retried once by the client, with the token there is by then
(`CheckAgain`). `Submit` and the `Login*` steps are the form. The server's part is
`issued` and `expired`. `RunEffect` is React running the hook's effect, its cleanup
before it (`Cleaned`): the cleanup clears the effect's own timer, and closes the newest
socket of the page, whoever made it, since `wsRef` is shared. The socket's `onclose` comes
later and starts a timer nobody clears; `link` keeps, for each effect, what it has
left. `crossed` and `closings` are history. `logout` is a function no component calls.

**MCPlatform.** The thirteen components share no state with each other. `part`, chosen
in `Init`, says which one moves, so one run checks thirteen state spaces side by
side, with their properties as invariants of all. `IncidentsKeepAlerts` and
`SignedInPagesWork` are each two properties of one module, about different actions.

## 3. Runs

| Run | Question | Result |
|---|---|---|
| `feedback` | two requests, a cycle, one fault: is suppression always justified, and does each refresh do its own job? | holds |
| `feedback_serial` | one request at a time: are acknowledged labels in force, do refreshes end? | holds |
| `feedback_race` | the same with two requests in flight | violated (finding) |
| `alert_feed` | do browsers get unbroken stretches, and every alert while connected? | holds |
| `scoring` | two overlapping cycles, one fault | holds |
| `scoring_announce` | is every loud alert broadcast? | violated (finding) |
| `scoring_incident` | is an incident about one entity? | violated (finding) |
| `registry` | three jobs, two faults, one cleanup | holds |
| `registry_retrain` | does retraining leave memory and files equal? | violated (finding) |
| `registry_cleanup` | does the cleanup keep what the detectors need? | violated (finding) |
| `assistant` | do reloads, conversations and caches keep out of each other's way, and do requests end? | holds |
| `platform` | the thirteen components from ingestion to the console, one question each | holds |

Bounds, and why they are enough to see the interesting cases:

- *feedback*: two requests are the least that can overwrite each other, two alerts
  the least for one to be suppressed by a label on the other; one entity and one
  rule, because the list treats entities and rules independently
  (`feedback_serial` has two rules, so that a refresh which loses one is seen).
  A listing of two rows, so that a third displaces the first. Of labels whose alert is
  not stored, which contribute nothing, `feedback_serial` and `feedback_race` have one;
  `feedback` has none, for its size (185 303 states). One fault is a failed insert, a
  failed lookup or a restart, at any step.
- *scoring*: two cycles over one entity and two windows, two ids of alerts and three to
  make up; base scores 31
  (just above the threshold) and 100 reach every level with every multiplier and
  boost, with and without suppression. `scoring_incident` needs two entities.
- *alert_feed*: two connections (one joins or fails while the other is sent to),
  three alerts (one sent, one in the batch, one in the buffer), one restart.
- *registry*: three jobs, so that two can overlap after a first one filled the
  files; two faults, so that a crash can follow a cut run.

- *assistant*: two chats, one explanation, two reloads and the load of the boot, in
  five orders of arrival that put reloads before, between and after questions.
  One conversation is kept (so a second evicts the first), three turns of it (so
  the window rolls after a question and its answer), one exact and two semantic
  records (so a hit may be on the first or a later one), two iterations, one
  deletion, expiry or clearing. Two of the names the engine knows and one that it does
  not. 741 992 states.
- *platform*, part by part: one document that can and one that cannot be
  normalised, nine minutes with windows of three, so that a document may fall
  into any place of any of three cycles, and two mishaps; three events and rules
  whose thresholds one or two of them pass; patterns with all their steps and one
  alert more, at times that keep, strain and break every gap; three alerts of two
  entities, with cluster edges between them; two schedules, one of them a default, over five hours with a
  moment each (so a job that is late in one is in the next), a listing of one schedule,
  one failing write or restart and one report on request; three mishaps in a migration,
  of which one may be the crash, with each index there from the start, later or never; two dispatches to two webhooks with three changes and one
  lost count; two alerts of two levels or none over seven moments, with a job every two and four
  moments of warning, searches of one hit, one failed run and one change of an alert
  (working an alert and putting it back to new takes two: that is proved and not checked
  here); two overlapping health checks, kept and
  checked for two seconds each; two editors, three tags and a limit of two;
  five alerts read in pages of two with a row limit of four, so that filter, limit
  and page cut at different places; tables of up to three different rows with batches
  of two and sequences of two, with every set of detectors and scalers; two tokens, two
  loads of the page with two effects each, one retry of a socket and three outages, so that
  a login may cross a check, a second load meet an expired token and an ended effect's
  socket close under the next. 1 310 914 states. The
  malformed document is of a source that is normalised one by one; the branch
  where a malformed *network* document empties the cycle (`Normalized`) is
  written down and not reached by this instance.

`Alerts` and `Jobs` also bound how often things happen: ids and jobs are used up
and not reused (ids are uuid4). In `alert_feed`, `registry`, `assistant` and `platform`
everything can be used up and the system then rests, so deadlock is not checked
there. It is in the
other runs, where an analyst's request, respectively a status change, is always
possible.

Fairness: an awaited database call, send or pipeline returns or raises, a timer
fires and a cache entry expires (weak fairness of `RefreshStep`, `CycleStep`,
`CacheStats`, `ExpireStats`, `Flush`, `Send`, `JobStep`). This is what the event
loop gives a task that is ready, provided the call itself ends; the SQLite calls
are local. For `Send` it is an assumption: the code sets no timeout. In
`assistant` a load that is running or may take the lock makes a step, and some
request that awaits its context or a tool makes one (`EngineStep`, `ChatStep`,
each as a whole: requests are finitely many, so none need be favoured);
that is the worker thread and the lookups returning. Timeouts are free to happen
or not. `platform` checks safety only. Nothing
obliges an analyst, a browser, a cycle or a fault to happen.

## 4. Findings

1. *feedback_race*: two overlapping feedback requests refresh from snapshots of
   different age, and the older may assign last. An acknowledged label is then
   reported as suppressed and is not, until the next feedback or restart.
2. *scoring_announce*: `index_alert` does not exist; a cycle with a loud alert
   ends there, and no loud alert is ever broadcast.
3. *scoring_incident*: the contexts the correlator groups have neither host nor
   user, so all the alerts of a cycle form one group.
4. *registry_retrain*: retraining replaces the forest and both of its files, but
   scoring goes on with the old scaler until the next boot.
5. *registry_cleanup*: the cleanup's list of files to keep omits the scalers.

Properties that hold and are worth knowing beside these: with requests one at
a time the feedback page and the suppressor never disagree; a failed or torn
training run never produces an *unfitted* scaler, since the scaler is saved
first; a failing socket never costs another browser an alert; overlapping tag
edits can lose tags but never exceed the limit; a remembered empty answer hides a
source from at most one scheduled cycle in a row; a schedule that no hour passed
over while it was due gets its next report from a job that begins less than an hour and
its grace after the period is up.

Two of the properties that hold allow for something that goes wrong in the code and do not
refute it: a tag edit that overwrites one it did not read (`staleWrite`,
`alerts.py:236`), and a login that crosses the check of an older token (`crossed`,
`AuthContext.jsx:83`). Both are listed below.

Other divergences met while modelling. No run stands for these; the models
contain what the code does.

- *Feedback*: a listing of labels stops at the newest 10000 FP rows
  (`label_store.py:60`, `local_db.py:183`), so an acknowledged label goes out of force,
  and out of the feedback page, once as many newer rows are stored;
  `get_labeling_queue` imports a constant that does not exist (`active_learner.py:99`).
- *Scoring*: the ids an incident carries are made up (`correlator.py:107-109`), so
  `threat_engine.py:210` finds none of the incident's alerts, the pattern detector is
  handed an empty list, and `matched_patterns` is always empty; the webhook of an incident
  is right about how many alerts it has and about nothing that would identify them.
- *Assistant*: a semantic hit on any record but the first raises (`cache.py:106`);
  `POST /slm/reload` takes any string as a model's name, although the comment on it lists
  three (`slm.py:32`); what it loads goes by the name of Phi-3 (`model_loader.py:56,102`);
  semantic records never expire; "I could not finish" is cached as an answer;
  neither a reload nor a deletion clears the caches; two overlapping reloads can
  leave a model under the other's name, and a reload that times out leaves none;
  `chat_stream` generates on the event loop (`routes/slm.py:272`); the index that
  `rag.reindex_from_elasticsearch`, `clear_index` and `index_alert` are to fill does
  not get filled, for they do not exist.
- *Ingestion*: the scheduler starts only if Kibana answers at boot; a malformed
  network document discards the cycle's events of all sources; a failed search is
  remembered as an empty one; a document indexed after its window is never
  fetched.
- *Detection and ensemble*: the matcher never tries a second first alert;
  with four scores none can lie more than two deviations from the mean, so no
  outlier is ever reported (`voting_ensemble.py:51`); merging weak alerts into an
  incident can lower its level; "known safe" is a test for a substring.
- *Alerts API*: `PATCH` sets a status that is filtered on and never shown
  (`alerts.py:106`); of two overlapping edits of tags one is lost (`alerts.py:236`).
- *Reports*: one whose searches failed is stored as an empty success. A report reads the
  clock itself (`report_scheduler.py:172`) while `next_run` counts from its job
  (`report_scheduler.py:354,374`): it covers what passed between, and the next one covers
  it again. The listing takes 50 schedules before it leaves out inactive and on-incident
  ones, whose `next_run` nothing moves (`report_scheduler.py:124,358-361`): fifty of them
  keep all others from running. A job that is more than a second late is skipped.
- *Deadlines*: closing an alert late erases its breach; with more than 500 open alerts the
  job looks at any 500 (`sla_tracker.py:196`), and one alert whose level is null makes its
  answer empty (`sla_tracker.py:66,226`); nothing writes the index it searches.
- *Health*: a slow Kibana that is down reads "degraded"; an older report may replace a
  newer one.
- *Migrations*: an absent index swallows its fields, and the version is recorded as a
  success; the index that a component creates later does not have them
  (`v001_initial_indices.py:18`).
- *Backups*: files are looked for relative to the working directory, the database
  has an absolute path, so what is archived is usually empty
  (`backup_manager.py:27`).
- *Console*: the hook handles `new_alert`, the server sends `new_alerts_batch`
  (`useWebSocket.js:68`); a page that signed out reconnects (`useWebSocket.js:137`), and
  the next sign-in may close the wrong one of two sockets; `SystemMonitor` and
  `Settings` call the hook without its argument, so they never show a connection; a
  check that fails because the network does also signs out ("Token expired",
  `AuthContext.jsx:83`); one that ends after a login takes the new session away,
  or shows the previous user.

## 5. Proofs

TLC checks the instances above; the following hold for every value of the
constants. Every invariant and every action property that a passing run checks is
stated by one of these theorems. The assumptions are the named `ASSUME`s of the
modules, which TLC evaluates in every run:

- marker values are distinct (no model is called "none", which stands for no model),
  bounds natural, and sizes of windows, listings, pages and caches positive where the
  code's are;
- base scores are percentages above the threshold, scores of alerts thousandths;
- finitely many tags, alerts and deadlines, and logs of finitely many events;
- an empty answer is remembered no longer than a cycle's window, which a search does
  not outlast (`Ingestion`: 4 and 5 minutes in the code, where a search with its retries
  takes some two);
- the SLA job warns at least as far ahead as it is apart, and no deadline is shorter than
  that (`Deadlines`: a run every 5 minutes, 10 minutes of warning, deadlines from 15 on);
- the times of an entity's events are distinct (`Ensemble`);
- one or two alerts make an incident (`Correlation`: 2), for a pair within the window to
  be enough.

**FeedbackSuppressionProofs.**

- `TypeCorrect`.
- `NeverUnjustified`, `SuppressionNeedsAnotherAlert`. `SuppressionJustified` is not
  inductive: a refresher carries rows and patterns it found awaits ago, and a
  cycle carries a decision. `JustifiedInv` adds that what they carry is covered by
  stored FP rows, whether a listing still returns them or not, which remains true because
  both tables only grow. For a suppressed alert the witness must be another alert: it was
  stored when the decision was taken, and the new row's id was not.
- `OwnLabelAlwaysInForce`, `BootAlwaysRestores`. `CarryInv` says that a request's
  own label, if its listing returned it, is still to be looked up or already among its
  patterns, and that startup's rows and patterns together make up exactly what the rows
  that are listed imply (no label arrives before startup is done). The contribution of a row is fixed
  once it is posted (`ContributionFixed`), because a label names an alert that is
  stored, or none.
- `SerialAcknowledged`: if `Analysts` has one member and `MaxFaults = 0`, every
  acknowledged label that is still among the newest `FPLimit` rows is in force in every
  state. `SerialInv` adds that a loop that is running will find everything that is
  listed. Of a label that was displaced nothing is promised, and the code keeps nothing.

**ScoringCycleProofs.**

- `TypeCorrect` rests on the range lemmas (`TemperedRange`, `AdjustRange`,
  `LevelRange`): every score gets one of the four levels.
- `SuppressionSurvives`: a suppressed score is at most a fifth (`DiscountedRange`),
  intelligence adds at most .35 (`BoostRange`), and a sum below .6 is at most
  "medium" (`LowScoreQuiet`), for every percentage. A row, once stored, changes
  nothing but its status (`RowsStay`).
- `IncidentCountsHold`: `EvidenceInv` adds that cycles hold disjoint sets of stored
  alerts, a cycle between runs none (`HeldAlerts`), and that what a cycle has yet
  to correlate went into no incident (`Uncorrelated`). TLC checked it as an invariant.

**ModelRegistryProofs.**

- `TypeCorrect` rests on what each file and attribute holds after a run's first n
  saves (`SavedFiles`, `TornFiles`, `AssignedParts`): fine-tuning with an unfitted
  scaler never gets as far as a save that would store its version.
- `PairsAlwaysAgree`: `PairInv` adds that no process scaler is in memory without
  its autoencoder (`NoLoneScaler`), so a retraining that makes a new autoencoder
  leaves no old scaler beside it, and that the process scaler in memory is the one
  on disk (`ScalerInPlace`), so fine-tuning in place keeps the files together.
- `UnfittedOnlyByCleanup`: `ScalersThere` says that, while nobody deletes files, a
  detector's file never lies on disk without its scaler's, nor the process scaler
  in memory without its file. TLC checked both as invariants.

**AlertFeedProofs.**

- `FeedTypeCorrect`; `NobodyForgotten`: a browser that still waits to be served is
  in the batch being sent or connected when the next one is cut.
- `BrowsersGetStretches`. What a browser was sent is known by its end: it ends
  where the batch under way begins if the browser is still owed that batch, and
  else where the buffer begins (`SentUpTo`). The buffer is the end of the log
  (`BufferIsTail`) and the batch ends where the buffer begins
  (`BatchBeforeBuffer`); a new connection is nowhere yet (`NewIsNowhere`).
- `FeedRefinesLog`: each step, seen through `log` and `received`, is a step of
  `AlertLog` or changes neither. A step that sends the batch needs `SentUpTo`, so
  the refinement holds because of the invariant and not by the shape of the steps.

**AssistantProofs.** `AssistantInv` is one invariant for five theorems.

- `AssistantTypeCorrect`.
- `LoadsNeverOverlap`: the lock lists the loads under way, each once, and only its
  head is loading (`LockHeld`); a load that was alone since it came found the engine as
  it left it (`FoundFree`). A reload renames the engine before it has the lock, so the
  name is known only of such a load. The names that may be asked for are not restricted:
  the theorem says of which the model bears its own name.
- `AnswersFollowQuestions`: while a window has not been full nothing has left it, so the
  question of a request that is being answered is still in it (`Asked`); who has not
  arrived has asked nothing (`Pending`).
- `CachesTellTheTruth`: a record names a request that ended and could be cached, and a hit is
  on a similar question about the same alert (`Answered`).
- `GoneConversationsStayGone`: a conversation is made only by the request it belongs to,
  when it arrives.

**OperationsProofs.**

- *Webhooks*, `CountsAlwaysAddUp`. `SendsAreKnown` says how far each send has
  come: only to what was registered, no outcome before its end, none left of what is
  counted or lost. Counting a send then moves exactly one member into the set that is
  counted (`CountedSends`), and a partial update has no field that counts.
- *Health*, `HealthyAlwaysWasWorking`. `ChecksAreTrue`: a check that was told nothing but
  good read each component at a moment since it began, when the component was in order;
  `ReportIsTrue` says the same of the report that is kept, so it does not matter which
  request's report it is. An answer is given while the report is younger than `Keep`, or
  when its check, no longer than `CheckTime`, ends: hence `HealthWindow`.
- *Reports*, `ReportsAlwaysTile`. When the next report comes is up to `next_run`, which
  counts from the schedule's making or the job of a stored report (`RunsFromReports`). Of a
  schedule that was always moved, each report's job lies a period before it (`Moved`), so no
  later job, and no later report, reaches back beyond that job. Of one that no hour passed
  over, the last hour began before it was due again, or the job has it in hand (`Covered`);
  with the grace, that bounds when the next job that reports on it began. `JobIsKnown` says
  that the job in flight is the last one and works on schedules that were due.
- *Migrations*, `RecordsAlwaysTrue`. `MigrationsInv` adds that while the runner goes up, all
  versions but those it still has to do are installed, also when it does not record one
  (`GoingUp`). That fields are in a mapping is claimed of the versions that are not `blind`,
  and only the deletion of all indices, which uninstalls every version, takes them out.
- *Deadlines*, `DeadlinesAlwaysWarned`. `WarnedSoFar`: every run of the job that is over and
  fell in the last minutes of a deadline that nobody has met has warned of it or was spoilt.
  There was such a run, since they are no further apart than the warning time. `DoneIsKept`:
  what the status says was done, was met once. The dashboard's sum is one over disjoint
  sets, for any alerts a search returns.

**AlertPagesProofs.**

- *Tags*, `TagsAlwaysAddUp`. An edit under way was within the limit when
  it was read, and an edit of the present version was made from the tags as they are
  (`EditsAreSound`); so every write is within the limit, whatever was written since, and
  the tags are the wanted ones until a write hits an edit it had not read.
- *Listing*, `PagesNeverMiss`. `PassedBy` is what stayed, lies before the reader's place and
  was on no page. It grows by one at most when an alert leaves the list, for then each
  place before the offset is taken by the next alert; a new alert and a page, which shows
  whatever it passes, add nothing.
- *Console*, `SignedInPagesAlwaysWork`, of two halves. `SessionIsWhole`: until a login
  crosses the check of a load, the token it checks is the stored one, and there is one
  exactly if the page restored it (`CheckIsOfTheStored`), so a refusal forgets the token it
  was about. `HookKeepsListening`: no more retries are used up than sockets have closed in
  a row (`RetriesAreClosings`), since a socket that opens resets both.

**PipelineProofs.**

- *Ingestion*, `QuietNeverMisses`. `Quiet` is what the schedule alone keeps up: an empty
  answer is as old as the last cycle and too old for the next, a cycle in flight has asked
  at its own minute or brought all of its window, and what is older was used.
  `RememberedOnce` needs no quiet: an answer that hid a source from a cycle is older than
  that cycle, and so no longer fresh at the next.
- *Detection*, `EvidenceNeverTakesAway`: what the rules count of an entity's events are
  the sizes of sets that only grow with them (`RowsGrow`).
- *Ensemble*, `SafeNeverHides` and `BatchAlwaysAgreesWithSingle`. "Safe" needs
  a low total and scores that lie close together (`SafeIsAgreedAndLow`). With four
  detectors, one of 60 or more pulls the others up and the total above the limit
  (`HighTogether`); with an absent one, whose score is zero, they are not close
  (`CloseTogether`). For the second, the batches are cut at multiples of
  `BatchSize` and the one under way has the scores of its own rows (`CutsOK`); what raised did
  so in a batch that was begun (`BrokenOK`); and the sequences built from the whole log,
  read per entity, are the stretches of that entity's own history
  (`HistoryIsStretches`).
- *Patterns*, `ReportedPatternsAlwaysOccur`. `MatchingInv`: the alerts taken so far stand in
  the incident in order, each fitting its step and none too late (`FoundAt`), and a score as
  high as their number means that each has the features of its step (`ScoreCounts`).
  A reported match must have that score, for one less is below every threshold.
- *Correlation*, `IncidentsAlwaysKeepAlerts`. The clusters of an entity are no longer than the
  window and begin more than a window apart (`CutUp`); nothing that is left to cluster is
  before what is in clusters (`InOrder`). Two alerts within the window are then in one
  cluster, which has two, or the earlier one is not the start of its own, which then has
  two as well; either is an incident. For merging, an
  incident *tells* of a set of alerts if its extremes and sets are theirs (`Tells`); a new
  one does, and merging preserves it, whatever became of the mean.

Induction needs no induction theorem here: numbers and subsets of a finite set are well
founded (`WellFoundedInduction`), so a set of counterexamples that is not empty has a least
one (`LeastNumber`, `LeastSubset`), from which a contradiction follows. The sums
of the library are folds, chosen functions; they are shown to exist and to add up what
they should (`SumExists`, `SumWithin`).

Only model-checked: the liveness properties (`RefreshEnds`, `StatsCatchUp`,
`EveryListenerIsSent`, `JobsEnd`, `RequestsEnd`), which need fairness and are beyond
the prover. The violated properties of section 4 are refuted on the instances.

## 6. Not modelled

- *Stubs*: teams, audit log, assistant analytics and the incident endpoints write
  through a client whose writes do nothing, and read nothing back.
- *Code that stops at its first step*: drift detection, the baseline learner
  (`INDEX_NAMES` is undefined), platform alerting, the accuracy evaluator, storing an
  incident, the labelling queue of the active learner (`get_labeling_queue` raises
  ImportError; the rest of the class only computes).
- *Code nothing imports or calls*: the deduplicator, shift reports, the
  stand-alone report generator, the fine-tuning dataset builder, the secrets
  manager, the entity's risk profile, the calibrator and the counterfactuals
  (whose results nothing uses).
- *Stateless checks*: roles (users are a constant table), validation, middleware,
  configuration. The rate limiter and MLflow are libraries.
- *Queries*: the entity timeline, tag list, log viewer, metrics, hunts and watchlist.
- *Mathematics*: the networks, the temporal baseline, the wording of explanations.
- *The agent's tools*: their arguments never validate, so no tool runs; an
  `Iterate` step is what the loop sees of one.
- *The console's stores and pages*: what it renders, and what it does with a message.
  `Console` has its session and socket, `AlertFeed` the other end of the socket,
  `AlertListing` a reader of pages. Whether a socket opens again after a failure is
  not promised: nothing in the code makes the server come back.
- Process memory limits, disks that fill up and the SQLite file's own crash safety
  are outside the code.

## 7. Plan

Done: every part of the backend that keeps state or whose algorithm decides what an
analyst sees, the browser's session and socket, and a theorem for every invariant and
action property of section 3. Left, in this order:

1. **Console**: `Console` composed with `AlertFeed` at the socket, so that one alert is
   followed from the buffer to the page; then the stores the messages are put into.
2. **Proofs** about that composition: what a page shows is a stretch of the alerts, from
   `BrowsersGetStretches` and `SignedInPagesAlwaysWork`.
