------------------------------- MODULE Migrations -------------------------------
(***************************************************************************)
(* MigrationRunner, with the client that has indices (with the other one   *)
(* it does nothing). At boot the versions not recorded as a success are    *)
(* run in order, each up first and its record after it, up to the first    *)
(* that fails. A rollback undoes in the opposite order, down first. The    *)
(* process may die anywhere in between, and boots again. An index need not *)
(* be there when its migration runs: components create it on demand, and   *)
(* without the fields of a migration that has already run.                 *)
(***************************************************************************)
EXTENDS Naturals, FiniteSetsExt

CONSTANT MaxMishaps     \* bound: calls that raise, and crashes

ASSUME MigrationsAssumption == MaxMishaps \in Nat

\* up of v001 is a marker; those of v002 to v005 put fields in a mapping.
IncidentFields ==
    [index |-> "soc-processed-alerts", fields |-> {"occurrence_count", "last_seen", "fingerprint"}]
RiskProfile == [index |-> "soc-entity-baselines", fields |-> {"risk_profile_vector"}]
ScoreHistory == [index |-> "soc-processed-alerts", fields |-> {"score_history"}]
TemporalBaseline == [index |-> "soc-entity-baselines", fields |-> {"active_hours", "typical_days"}]
InitialIndices == [index |-> "none", fields |-> {}]

Puts == <<InitialIndices, IncidentFields, RiskProfile, ScoreHistory, TemporalBaseline>>

Versions == DOMAIN Puts
Indices == {Puts[v].index : v \in Versions} \ {"none"}

VARIABLES
    record,     \* the documents of soc-migrations: version -> status or "none"
    installed,  \* the versions whose up has run, and not been undone
    mapping,    \* index -> its fields, of the indices that are there
    blind,      \* history: the versions whose last up found no index to put fields in
    runner,     \* what the process is doing: [step, todo], the versions it has left
    mishaps

migrationVars == <<record, installed, mapping, blind, runner, mishaps>>

Nothing == [step |-> "off", todo |-> {}]
Serving == [step |-> "serving", todo |-> {}]

Mishap == mishaps < MaxMishaps /\ mishaps' = mishaps + 1
Fine == UNCHANGED mishaps

Doing(step) == runner.step = step /\ runner.todo # {}

\* get_applied_versions answers with nothing when the search raises.
AppliedVersions == {v \in Versions : record[v] = "success"}

\* They are taken in order of their versions, in a rollback the last first.
Current == IF runner.step \in {"down", "unrecord"} THEN Max(runner.todo) ELSE Min(runner.todo)
Others == runner.todo \ {Current}

-----------------------------------------------------------------------------

\* apply_pending, called when the process boots
ApplyPending ==
    /\ runner = Nothing
    /\ \/ Fine /\ runner' = [step |-> "up", todo |-> Versions \ AppliedVersions]
       \/ Mishap /\ runner' = [step |-> "up", todo |-> Versions]
    /\ UNCHANGED <<record, installed, mapping, blind>>

\* An index that is there after all, for a component wrote to it (external).
CreateIndex(i) ==
    /\ i \notin DOMAIN mapping
    /\ mapping' = [j \in DOMAIN mapping \union {i} |-> IF j = i THEN {} ELSE mapping[j]]
    /\ UNCHANGED <<record, installed, blind, runner, mishaps>>

\* ignore_unavailable: an index that is not there is no error.
PutFields(v) ==
    [i \in DOMAIN mapping |-> mapping[i] \union (IF Puts[v].index = i THEN Puts[v].fields ELSE {})]

Up ==
    /\ Doing("up")
    /\ \/ /\ Fine
          /\ installed' = installed \union {Current}
          /\ mapping' = PutFields(Current)
          /\ blind' = IF Puts[Current].index \in DOMAIN mapping
                      THEN blind \ {Current} ELSE blind \union {Current}
          /\ runner' = [runner EXCEPT !.step = "record"]
       \/ /\ Mishap
          /\ runner' = [runner EXCEPT !.step = "record failure"]
          /\ UNCHANGED <<installed, mapping, blind>>
    /\ UNCHANGED record

\* Recorded, on to the next; if that raises, the migration has failed.
Record ==
    /\ Doing("record")
    /\ \/ /\ Fine
          /\ record' = [record EXCEPT ![Current] = "success"]
          /\ runner' = [step |-> "up", todo |-> Others]
       \/ /\ Mishap
          /\ runner' = [runner EXCEPT !.step = "record failure"]
          /\ UNCHANGED record
    /\ UNCHANGED <<installed, mapping, blind>>

\* Mutant: a migration that failed does not keep the next from running.
GoOn == [step |-> "up", todo |-> Others]

\* The loop is left.
Stop == Serving

RecordFailure ==
    /\ Doing("record failure")
    /\ runner' = Stop
    /\ \/ Fine /\ record' = [record EXCEPT ![Current] = "failed"]
       \/ Mishap /\ UNCHANGED record
    /\ UNCHANGED <<installed, mapping, blind>>

AllApplied ==
    /\ runner.step \in {"up", "down"}
    /\ runner.todo = {}
    /\ runner' = Serving
    /\ UNCHANGED <<record, installed, mapping, blind, mishaps>>

\* rollback to a version: what is recorded above it, the last first
Rollback(to) ==
    /\ runner = Serving
    /\ Fine
    /\ runner' = [step |-> "down",
                  todo |-> {v \in AppliedVersions : v > to}]
    /\ UNCHANGED <<record, installed, mapping, blind>>

\* v001.down deletes every index soc-*, the records among them; the downs of the
\* others do nothing, for a field cannot be taken out of a mapping.
Down ==
    /\ Doing("down")
    /\ \/ /\ Fine
          /\ runner' = [runner EXCEPT !.step = "unrecord"]
          /\ IF Current = 1
             THEN /\ installed' = {} /\ blind' = {}
                  /\ mapping' = <<>>
                  /\ record' = [v \in Versions |-> "none"]
             ELSE UNCHANGED <<installed, mapping, blind, record>>
       \/ /\ Mishap
          /\ runner' = Serving
          /\ UNCHANGED <<installed, mapping, blind, record>>

\* The record is deleted; one that is not there is no error.
Unrecord ==
    /\ Doing("unrecord")
    /\ \/ /\ Fine
          /\ record' = [record EXCEPT ![Current] = "none"]
          /\ runner' = [step |-> "down", todo |-> Others]
       \/ /\ Mishap
          /\ runner' = Serving
          /\ UNCHANGED record
    /\ UNCHANGED <<installed, mapping, blind>>

\* The process dies, and what it was doing is lost.
Crash ==
    /\ runner # Nothing
    /\ Mishap
    /\ runner' = Nothing
    /\ UNCHANGED <<record, installed, mapping, blind>>

MigrationsInit ==
    /\ record = [v \in Versions |-> "none"]
    /\ installed = {}
    /\ \E there \in SUBSET Indices : mapping = [i \in there |-> {}]
    /\ blind = {}
    /\ runner = Nothing
    /\ mishaps = 0

MigrationsNext ==
    \/ ApplyPending \/ Up \/ Record \/ RecordFailure \/ AllApplied
    \/ Down \/ Unrecord \/ Crash
    \/ \E i \in Indices : CreateIndex(i)
    \/ \E to \in {0} \union Versions : Rollback(to)

MigrationsSpec == MigrationsInit /\ [][MigrationsNext]_migrationVars

-----------------------------------------------------------------------------
(* Properties *)

\* Whatever raised, wherever the process died and whenever the indices came: a
\* version recorded as a success has run since the indices were last deleted; if its
\* index was there when it last ran, its fields are in the mapping; and no version
\* has run without those before it. (That the index was there is a condition: a
\* success of a version that found none promises nothing of the index that comes
\* later. The records need not be a prefix: when they could not be read all
\* versions run again, and one that fails this time loses its success.)
RecordsAreTrue ==
    /\ AppliedVersions \subseteq installed
    /\ \A v \in installed \ blind :
          /\ Puts[v].index \in DOMAIN mapping
          /\ Puts[v].fields \subseteq mapping[Puts[v].index]
    /\ \A v \in installed : 1 .. v \subseteq installed

=============================================================================
