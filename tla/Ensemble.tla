-------------------------------- MODULE Ensemble --------------------------------
(***************************************************************************)
(* ModelManager.score_all_entities_batched: the rows of a cycle's feature  *)
(* table are scored a batch at a time, by the forest and the autoencoder   *)
(* for the whole batch and by the sequence model and the rules row by row, *)
(* and VotingEnsemble makes one verdict of the four scores.                *)
(*                                                                          *)
(* A score is a percentage and a weight a 300th, so that the share of an   *)
(* absent detector divides exactly and a threat score is a whole number of *)
(* 30000ths; the code's are binary floats. The networks are constants: how *)
(* far an action surprises the LSTM after those before it; what the forest *)
(* and the autoencoder find in a row is part of the row. The confidence    *)
(* interval and the wording of a result are left out.                      *)
(***************************************************************************)
EXTENDS Integers, Sequences, SequencesExt, FiniteSets, FiniteSetsExt, TLC

CONSTANTS
    Tables,         \* feature tables: sequences of rows
    EventLogs,      \* the normalized events: sequences of [entity, at, action], times
                    \* of an entity distinct (pandas does not say how it orders equal ones)
    Vocab,          \* the actions the LSTM was trained on
    Surprise(_, _), \* its surprise at an action, after a sequence
    SurpriseLimit,  \* LSTMDetector.threshold
    ErrorLimit,     \* AutoencoderDetector.threshold
    SequenceLen,    \* sequence_len: 20
    BatchSize       \* batch_size: 32

Encoded == Vocab \union {"<UNK>"}

\* A row: what the forest's decision function, the autoencoder's error and
\* evaluate_rules say of it.
ASSUME EnsembleAssumption ==
    /\ \A t \in Tables : t \in Seq(ToSet(t))
    /\ \A t \in Tables : \A i \in DOMAIN t :
          /\ t[i].decision \in Int
          /\ t[i].error \in Nat /\ t[i].rule \in 0 .. 100
    /\ \A log \in EventLogs : IsFiniteSet(DOMAIN log)
    /\ \A log \in EventLogs : \A i, j \in DOMAIN log :
          /\ log[i].at \in Int
          /\ log[i].entity = log[j].entity /\ log[i].at = log[j].at => i = j
    /\ {SequenceLen, BatchSize} \subseteq Nat \ {0}
    /\ {SurpriseLimit, ErrorLimit} \subseteq Int
    /\ \A s \in BoundedSeq(Encoded, SequenceLen), a \in Encoded : Surprise(s, a) \in Int

VARIABLES
    call,           \* the table, the events, and the detectors and scalers in memory
    start,          \* rows before the batch under way
    net, proc,      \* its scores, one for each row
    broken,         \* history: batches a detector raised in
    results

ensembleVars == <<call, start, net, proc, broken, results>>

NoTable == [absent |-> TRUE]
Detectors == <<"network", "process", "sequence", "rule">>     \* in model_scores' order
Names == ToSet(Detectors)
Clip(n) == IF n < 0 THEN 0 ELSE IF n > 100 THEN 100 ELSE n

-----------------------------------------------------------------------------
(* The detectors *)

\* IsolationForestDetector.predict, AutoencoderDetector.predict
NetScore(row) == Clip(50 - row.decision)
ProcScore(row) == IF ErrorLimit <= 0 THEN 0 ELSE Clip((100 * row.error) \div ErrorLimit)

\* build_event_sequences: the entity's actions in order of time, then every
\* stretch of SequenceLen of them, or all of them if they are fewer.
ActionsOf(log, entity) ==
    LET own == {i \in DOMAIN log : log[i].entity = entity}
        Earlier(i) == {j \in own : log[j].at < log[i].at}
    IN  [n \in 1 .. Cardinality(own) |->
            log[CHOOSE i \in own : Cardinality(Earlier(i)) = n - 1].action]

Windows(actions) ==
    IF Len(actions) < SequenceLen THEN {actions} \ {<<>>}
    ELSE {SubSeq(actions, i, i + SequenceLen - 1) : i \in 1 .. Len(actions) - SequenceLen + 1}

\* encode_sequence: what is not in the vocabulary is one token.
Encode(s) == [i \in DOMAIN s |-> IF s[i] \in Vocab THEN s[i] ELSE "<UNK>"]

\* sequence_anomaly_score: the mean surprise at the second action and after.
SequenceScore(s) ==
    LET e == Encode(s)
        total == SumFunction([i \in 2 .. Len(e) |-> Surprise(SubSeq(e, 1, i - 1), e[i])])
    IN  IF SurpriseLimit <= 0 \/ Len(e) < 2 THEN 0
        ELSE Clip((100 * total) \div (SurpriseLimit * (Len(e) - 1)))

MaxSequenceScore(ss) == IF ss = {} THEN 0 ELSE Max({SequenceScore(s) : s \in ss})

-----------------------------------------------------------------------------
(* The vote *)

Weight == [network |-> 75, process |-> 105, sequence |-> 45, rule |-> 75]

\* An absent detector's weight is shared by those in memory; the rules always are.
Weights(present) ==
    LET Has(m) == IF m \in present THEN 1 ELSE 0
        active == 1 + Has("network") + Has("process") + Has("sequence")
        spare == (1 - Has("network")) * Weight["network"] + (1 - Has("process")) * Weight["process"]
                    + (1 - Has("sequence")) * Weight["sequence"]
    IN  [m \in Names |->
            IF m \in present \union {"rule"} THEN Weight[m] + spare \div active ELSE 0]

TotalScore(scores) == scores.network + scores.process + scores.sequence + scores.rule

\* Sixteen times the variance of the four scores.
Variance16(scores) ==
    4 * (scores.network * scores.network + scores.process * scores.process
            + scores.sequence * scores.sequence + scores.rule * scores.rule)
        - TotalScore(scores) * TotalScore(scores)

\* Mutant: models that agree moderately agree.
ConsensusModerateIsStrong(scores) ==
    LET v == Variance16(scores)
    IN  CASE v < 6400 -> "strong"
          [] 6400 <= v /\ v < 19600 -> "weak"
          [] v >= 19600 -> "split"

\* compute_consensus_level: a deviation of .1, .2 and .35
Consensus(scores) ==
    LET v == Variance16(scores)
    IN  CASE v < 1600 -> "strong"
          [] 1600 <= v /\ v < 6400 -> "moderate"
          [] 6400 <= v /\ v < 19600 -> "weak"
          [] v >= 19600 -> "split"

\* detect_outlier_model: further than two deviations from the mean.
Outlies(scores, m) ==
    Variance16(scores) # 0
        /\ (4 * scores[m] - TotalScore(scores)) * (4 * scores[m] - TotalScore(scores)) > 4 * Variance16(scores)

Threat(scores, w) ==
    w["network"] * scores.network + w["process"] * scores.process
        + w["sequence"] * scores.sequence + w["rule"] * scores.rule

\* The first of the greatest contributions.
Dominant(scores, w) ==
    LET best == Max({w[m] * scores[m] : m \in Names})
    IN  SelectInSeq(Detectors, LAMBDA m : w[m] * scores[m] = best)

\* get_recommendation
Recommendation(threat, consensus) ==
    CASE threat > 24000 /\ consensus = "strong" -> "ESCALATE"
      [] ~(threat > 24000 /\ consensus = "strong")
            /\ (threat > 15000 \/ consensus = "split") -> "INVESTIGATE"
      [] threat <= 15000 /\ consensus = "strong" /\ threat <= 9000 -> "SAFE"
      [] threat <= 15000 /\ consensus # "split" /\ (threat > 9000 \/ consensus # "strong")
            -> "MONITOR"

ThreatLevel(threat) ==
    CASE threat < 9000 -> "low"
      [] threat \in 9000 .. 17999 -> "medium"
      [] threat \in 18000 .. 23999 -> "high"
      [] threat >= 24000 -> "critical"

\* vote, and the result it goes into.
Verdict(row, scores, present) ==
    LET w == Weights(present)
        threat == Threat(scores, w)
    IN  [entity_key |-> row.entity, scores |-> scores, threat |-> threat,
         level |-> ThreatLevel(threat), dominant |-> Detectors[Dominant(scores, w)],
         recommendation |-> Recommendation(threat, Consensus(scores))]

-----------------------------------------------------------------------------
(* score_all_entities_batched *)

FeatureTable == call.table
BatchFrom(from) == SubSeq(FeatureTable, from + 1, Min({from + BatchSize, Len(FeatureTable)}))

ScoreAllEntities(table, log, detectors, scalers) ==
    /\ call = NoTable
    /\ call' = [table |-> table, log |-> log, detectors |-> detectors, scalers |-> scalers]
    /\ UNCHANGED <<start, net, proc, broken, results>>

\* Nothing to do without both; a batch that raises keeps its zeros.
BatchScores(batch, name, raises) ==
    [i \in DOMAIN batch |->
        IF name \notin (call.detectors \intersect call.scalers) \ raises THEN 0
        ELSE IF name = "network" THEN NetScore(batch[i]) ELSE ProcScore(batch[i])]

\* The batch before, if there was one, was full.
ScoreBatch ==
    /\ call # NoTable
    /\ Len(results) = start + Len(net)
    /\ Len(results) < Len(FeatureTable)
    /\ start' = Len(results)
    /\ \E raises \in SUBSET (call.detectors \intersect call.scalers) :
          /\ net' = BatchScores(BatchFrom(start'), "network", raises)
          /\ proc' = BatchScores(BatchFrom(start'), "process", raises)
          /\ broken' = broken \union {<<start', m>> : m \in raises}
    /\ UNCHANGED <<call, results>>

\* Mutant: the scores of a batch are looked up by the row's place in the table.
RowScoreByTable(scores) ==
    LET i == Len(results) + 1 IN IF i \in DOMAIN scores THEN scores[i] ELSE 0

\* The batch's score of the row, by its place in the batch.
RowScore(scores) == scores[Len(results) - start + 1]

ScoreRow ==
    /\ call # NoTable
    /\ Len(results) < start + Len(net)
    /\ LET row == FeatureTable[Len(results) + 1]
           scores == [network |-> RowScore(net), process |-> RowScore(proc),
                      sequence |-> IF "sequence" \in call.detectors
                                   THEN MaxSequenceScore(Windows(ActionsOf(call.log, row.entity)))
                                   ELSE 0,
                      rule |-> row.rule]
       IN  results' = Append(results, Verdict(row, scores, call.detectors))
    /\ UNCHANGED <<call, start, net, proc, broken>>

\* score_entity: one row, by itself, and without the vote.
ScoreEntity(row, sequences) ==
    LET up == call.detectors \intersect call.scalers
        scores == [network |-> IF "network" \in up THEN NetScore(row) ELSE 0,
                   process |-> IF "process" \in up THEN ProcScore(row) ELSE 0,
                   sequence |-> IF "sequence" \in call.detectors
                                THEN MaxSequenceScore(sequences) ELSE 0,
                   rule |-> row.rule]
        threat == Threat(scores, Weights(call.detectors))
    IN  [entity_key |-> row.entity, scores |-> scores, threat |-> threat,
         level |-> ThreatLevel(threat)]

EnsembleInit ==
    /\ call = NoTable
    /\ start = 0
    /\ net = <<>> /\ proc = <<>>
    /\ broken = {}
    /\ results = <<>>

EnsembleNext ==
    \/ \E table \in Tables, log \in EventLogs, detectors \in SUBSET (Names \ {"rule"}),
          scalers \in SUBSET {"network", "process"} :
          ScoreAllEntities(table, log, detectors, scalers)
    \/ ScoreBatch
    \/ ScoreRow

EnsembleSpec == EnsembleInit /\ [][EnsembleNext]_ensembleVars

-----------------------------------------------------------------------------
(* Properties *)

\* The stretches of the entity's history the sequence model should see: for
\* some SequenceLen of its events (all, if they are fewer) with no other of its
\* events between them, their actions in order of time.
Stretches(log, entity) ==
    LET own == {i \in DOMAIN log : log[i].entity = entity}
        Before(i, j) == log[i].at < log[j].at
        Rank(i, s) == 1 + Cardinality({j \in s : Before(j, i)})
        Unbroken(s) == \A k \in own \ s : \A i, j \in s : ~(Before(i, k) /\ Before(k, j))
        Width == Min({SequenceLen, Cardinality(own)})
    IN  {[r \in 1 .. Width |-> log[CHOOSE i \in s : Rank(i, s) = r].action] :
            s \in {s \in (SUBSET own) \ {{}} : Cardinality(s) = Width /\ Unbroken(s)}}

\* A row scored in a batch is scored as by itself: with the scores of its own
\* features and of its own entity's history, wherever the batches are cut. A
\* detector that raises is missed by the rows of that batch and no others.
BatchAgreesWithSingle ==
    \A i \in DOMAIN results :
        LET from == BatchSize * ((i - 1) \div BatchSize)
            single == ScoreEntity(FeatureTable[i], Stretches(call.log, FeatureTable[i].entity))
            lost == {m \in Names : <<from, m>> \in broken}
            r == results[i]
        IN  /\ r.entity_key = single.entity_key
            /\ \A m \in Names : r.scores[m] = IF m \in lost THEN 0 ELSE single.scores[m]
            /\ lost = {} => r.threat = single.threat /\ r.level = single.level

\* Nobody is called safe whom one of the detectors finds highly suspicious,
\* whatever weight it has: agreement and a low total together leave no room.
SafeHidesNothing ==
    \A i \in DOMAIN results :
        results[i].recommendation = "SAFE" => \A m \in Names : results[i].scores[m] < 60

=============================================================================
