-------------------------------- MODULE Patterns --------------------------------
(***************************************************************************)
(* PatternDetector: which attack patterns the alerts of an incident show.  *)
(* A pattern is a sequence of steps; one pass over the alerts, in order of *)
(* time, takes the first alert that fits the next step, and never goes     *)
(* back. An alert with the log type and the technique of a step is taken   *)
(* for it even when it lacks the features, which only costs confidence.    *)
(* A step here is one round of the loop over the alerts, so that in every  *)
(* state match is what match_pattern makes of the alerts so far.           *)
(***************************************************************************)
EXTENDS Naturals, Sequences, SequencesExt

CONSTANTS
    AlertTimes,     \* bound: minutes at which the alerts come
    MaxExtra        \* bound: alerts beyond the steps of the pattern

ASSUME PatternAssumption == AlertTimes \subseteq Nat /\ MaxExtra \in Nat

Step(log_type, required_features, required_mitre, max_gap) ==
    [log_type |-> log_type, required_features |-> required_features,
     required_mitre |-> required_mitre, max_gap |-> max_gap]

Pattern(steps, time_window, confidence_threshold) ==
    [steps |-> steps, time_window |-> time_window,
     confidence_threshold |-> confidence_threshold]

\* PATTERNS: thresholds in per cent, times in minutes. None of the eight can
\* reach its threshold with a step missing.
PowerShellDownloadExecute ==
    Pattern(<<Step("process", {"download_cradle"}, {"T1105"}, 5),
              Step("process", {"encoded_payload"}, {"T1059.001"}, 5),
              Step("network", {"internal_to_external"}, {"T1041", "T1071"}, 10)>>, 30, 80)

CredentialDumpLateralMovement ==
    Pattern(<<Step("security_alert", {}, {"T1110"}, 15),
              Step("process", {}, {"T1003", "T1055"}, 15),
              Step("network", {"internal_to_internal"}, {"T1021"}, 20)>>, 60, 80)

LivingOffTheLandPersistence ==
    Pattern(<<Step("process", {"lolbin"}, {"T1059", "T1218"}, 10),
              Step("process", {}, {"T1053", "T1543"}, 20)>>, 45, 75)

RansomwareEncryption ==
    Pattern(<<Step("process", {}, {"T1486"}, 15),
              Step("process", {"vssadmin"}, {"T1490"}, 15)>>, 30, 90)

CloudExfiltrationRclone ==
    Pattern(<<Step("process", {"rclone"}, {"T1567", "T1048"}, 5),
              Step("network", {"internal_to_external"}, {"T1567"}, 60)>>, 120, 80)

PhishingInitialAccess ==
    Pattern(<<Step("process", {"from winword"}, {"T1566", "T1059"}, 5),
              Step("network", {"internal_to_external"}, {"T1071"}, 15)>>, 30, 85)

KerberoastingDiscovery ==
    Pattern(<<Step("process", {"bloodhound"}, {"T1087", "T1069"}, 20),
              Step("security_alert", {}, {"T1558"}, 30)>>, 60, 80)

WebShellDrop ==
    Pattern(<<Step("process", {"from w3wp"}, {"T1505"}, 5),
              Step("process", {"cmd"}, {"T1059"}, 10)>>, 30, 85)

AttackPatterns ==
    {PowerShellDownloadExecute, CredentialDumpLateralMovement,
     LivingOffTheLandPersistence, RansomwareEncryption,
     CloudExfiltrationRclone, PhishingInitialAccess,
     KerberoastingDiscovery, WebShellDrop}

VARIABLES
    pattern,    \* the one it is matched with, once the first alert is there
    incident,   \* its alerts so far, as detect_patterns sorted them
    match       \* those taken for a step, their features, and whether it broke off

patternVars == <<pattern, incident, match>>

NoPattern == Pattern(<<>>, 0, 0)

Total == Len(pattern.steps)

-----------------------------------------------------------------------------

Fits(step, alert) ==
    /\ alert.log_type = step.log_type
    /\ step.required_mitre # {} => alert.technique \in step.required_mitre

FeatureScore(step, alert) ==
    IF step.required_features \subseteq alert.features THEN 1 ELSE 0

\* Mutant: the gap is not looked at.
TooLateAnyGap(m, step, alert) == FALSE

\* The alert comes too long after the one taken for the step before.
TooLate(m, step, alert) == m.taken # <<>> /\ alert.at - Last(m.taken).at > step.max_gap

Outside(p, m, alert) == m.taken # <<>> /\ alert.at - Head(m.taken).at > p.time_window

NoMatch == [taken |-> <<>>, score |-> 0, stopped |-> FALSE]

\* The body of match_pattern's loop.
Consider(p, m, alert) ==
    LET step == p.steps[Len(m.taken) + 1]
    IN  IF m.stopped \/ Len(m.taken) = Len(p.steps) THEN m
        ELSE IF Outside(p, m, alert) THEN [m EXCEPT !.stopped = TRUE]
        ELSE IF TooLate(m, step, alert) \/ ~Fits(step, alert) THEN m
        ELSE [m EXCEPT !.taken = Append(@, alert), !.score = @ + FeatureScore(step, alert)]

\* confidence = steps taken / all steps * features / steps taken
Reported(m) == m.taken # <<>> /\ 100 * m.score >= pattern.confidence_threshold * Total

-----------------------------------------------------------------------------

\* The type and a technique of a step, and its features or none.
AlertsFor(p, at) ==
    UNION {{[at |-> at, log_type |-> step.log_type,
             technique |-> CHOOSE t \in step.required_mitre : TRUE, features |-> features] :
               features \in {{}, step.required_features}} : step \in ToSet(p.steps)}

\* The loop reaches one more alert of the incident, none earlier.
Extend(p, alert) ==
    /\ pattern \in {NoPattern, p}
    /\ pattern' = p
    /\ Len(incident) < Len(p.steps) + MaxExtra
    /\ incident # <<>> => Last(incident).at <= alert.at
    /\ incident' = Append(incident, alert)
    /\ match' = Consider(p, match, alert)

PatternInit == pattern = NoPattern /\ incident = <<>> /\ match = NoMatch

PatternNext ==
    \E p \in AttackPatterns, at \in AlertTimes : \E alert \in AlertsFor(p, at) : Extend(p, alert)

PatternSpec == PatternInit /\ [][PatternNext]_patternVars

-----------------------------------------------------------------------------
(* Properties *)

\* The pattern occurs: for every step in turn there is a later alert that has
\* its type, technique and features, none too long after the one before, and
\* all within the pattern's window.
Occurs ==
    \E at \in [1 .. Total -> 1 .. Len(incident)] :
        /\ \A i \in 1 .. Total - 1 : at[i] < at[i + 1]
        /\ \A i \in 1 .. Total :
              /\ Fits(pattern.steps[i], incident[at[i]])
              /\ pattern.steps[i].required_features \subseteq incident[at[i]].features
              /\ i > 1 => incident[at[i]].at - incident[at[i - 1]].at
                              <= pattern.steps[i].max_gap
        /\ incident[at[Total]].at - incident[at[1]].at <= pattern.time_window

\* A reported pattern is there: the greedy pass, which adds features up, lets
\* steps be taken without theirs and stops at the window, makes none up.
ReportedPatternsOccur == incident # <<>> /\ Reported(match) => Occurs

=============================================================================
