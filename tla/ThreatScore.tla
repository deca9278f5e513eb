------------------------------ MODULE ThreatScore ------------------------------
(***************************************************************************)
(* The arithmetic run_scoring_cycle applies to one result above the         *)
(* threshold: false-positive suppression, the off-hours multiplier, the     *)
(* threat-intelligence adjustment and the level of what comes out.          *)
(*                                                                          *)
(* Scores are exact, in ten-thousandths: a base score is a percentage, the  *)
(* two factors are tenths, and their product is a whole number of           *)
(* ten-thousandths. The code computes in binary floating point, so a score  *)
(* within a rounding error of a boundary may fall on its other side.        *)
(***************************************************************************)
EXTENDS Integers

Percent == 0 .. 100

\* Scores above it become alerts, and alerts above it are announced.
Threshold == 30
One == 10000

\* is_off_hours: business hours, evening, early morning and weekend, night,
\* weekend night.
Severities == {10, 13, 15, 18, 20}

\* enrich_alert: address, process (safe, unknown, malicious) and domain.
Boosts == {ip + process + domain : ip \in {0, 10}, process \in {-10, 0, 15},
                                   domain \in {0, 10}}

SmallerOf(a, b) == IF a <= b THEN a ELSE b
LargerOf(a, b) == IF a >= b THEN a ELSE b

Suppression(suppressed) == IF suppressed THEN 1 ELSE 10

\* Mutant: the discount is taken off the capped score, after the multiplier.
TemperedCapFirst(base, suppressed, severity) ==
    LET capped == SmallerOf(One, base * 10 * severity)
    IN  IF suppressed THEN capped - 1000 ELSE capped

\* Suppression and time of day, capped at one.
Tempered(base, suppressed, severity) ==
    SmallerOf(One, base * Suppression(suppressed) * severity)

\* adjust_threat_score.
Adjust(score, boost) == SmallerOf(LargerOf(score + 100 * boost, 0), One)

FinalScore(base, suppressed, severity, boost) ==
    Adjust(Tempered(base, suppressed, severity), boost)

\* Mutant: a score of nothing has a level no client knows.
LevelWithInfo(score) ==
    CASE score >= 8000 -> "critical"
      [] score >= 6000 /\ score < 8000 -> "high"
      [] score >= 4000 /\ score < 6000 -> "medium"
      [] score > 0 /\ score < 4000 -> "low"
      [] score = 0 -> "info"

Level(score) ==
    CASE score >= 8000 -> "critical"
      [] score >= 6000 /\ score < 8000 -> "high"
      [] score >= 4000 /\ score < 6000 -> "medium"
      [] score < 4000 -> "low"

Loud(score) == score > 100 * Threshold

=============================================================================
