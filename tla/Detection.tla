------------------------------- MODULE Detection -------------------------------
(***************************************************************************)
(* What the deterministic rules make of the events of one cycle: the three *)
(* sources are grouped by entity, each becomes a table of features, the    *)
(* tables are joined, and every row of the join is put to the rules.       *)
(* The window bucket, which the tables are grouped by as well, is part of  *)
(* the entity here.                                                        *)
(***************************************************************************)
EXTENDS Naturals, FiniteSets, FiniteSetsExt

CONSTANTS
    Entities,       \* host and user, in one bucket of five minutes
    Ips, External,  \* destinations, and those that are not private
    Ports,
    BruteAlerts,    \* alert_count > 5
    ScanPorts,      \* unique_dst_port_count > 50
    ScanEvents,     \* conn_per_minute > 20: events in five minutes
    SpreadIps,      \* unique_dst_ip_count > 5
    BurstAlerts,    \* alert_count > 10
    MaxEvents       \* bound: events of a cycle

ASSUME DetectionAssumption ==
    /\ External \subseteq Ips
    /\ {BruteAlerts, ScanPorts, ScanEvents, SpreadIps, BurstAlerts, MaxEvents} \subseteq Nat

VARIABLE seen       \* entity -> its events of this cycle, numbered

detectionVars == <<seen>>

\* What the command line, the parent, the path and the shell of a process show.
ProcessFlags == {"encoded_payload", "download_cradle", "lolbin", "parent_child_anomaly",
                 "temp_dir", "non_interactive_shell"}
Tactics == {"credential access", "exfiltration", "persistence", "lateral movement", "other"}

Events == [network |-> [src_ip : Ips, dst_ip : Ips, dst_port : Ports],
           process |-> [flag : ProcessFlags],
           alert |-> [tactic : Tactics, risky : BOOLEAN]]       \* risk score above 70
EventSources == DOMAIN Events

-----------------------------------------------------------------------------
(* The row of an entity *)

\* Each table has a row for every entity with an event of that source.
Table(source) == {e \in Entities : seen[e][source] # {}}

\* Mutant: the tables that are not empty are joined on what they all have.
MergedInner(source, e) ==
    e \in Table(source) /\ \A s \in EventSources : Table(s) = {} \/ e \in Table(s)

\* merge_features joins the tables, and keeps an entity that some of them miss.
Merged(source, e) == e \in Table(source)

\* What e's row was computed from; of a table that misses e it has zeros.
Row(source, e) == IF Merged(source, e) THEN {n.event : n \in seen[e][source]} ELSE {}
Rows(source, e) == IF Merged(source, e) THEN Cardinality(seen[e][source]) ELSE 0

\* extract_network_features, as far as a rule looks at it
unique_dst_ip_count(e) == Cardinality({v.dst_ip : v \in Row("network", e)})
unique_dst_port_count(e) == Cardinality({v.dst_port : v \in Row("network", e)})
connections(e) == Rows("network", e)
is_internal_to_external(e) ==
    \E v \in Row("network", e) : v.src_ip \notin External /\ v.dst_ip \in External

\* extract_all_process_features: a flag of the row is the maximum of its events'.
flags(e) == {v.flag : v \in Row("process", e)}

\* extract_alert_features
alert_count(e) == Rows("alert", e)
has_tactic(e, t) == \E v \in Row("alert", e) : v.tactic = t
high_risk(e) == \E v \in Row("alert", e) : v.risky

-----------------------------------------------------------------------------
(* RULES *)

brute_force(e) == alert_count(e) > BruteAlerts /\ has_tactic(e, "credential access")

port_scan(e) == unique_dst_port_count(e) > ScanPorts /\ connections(e) > ScanEvents
lolbin_execution(e) == {"lolbin", "non_interactive_shell"} \subseteq flags(e)
exfiltration_signal(e) == has_tactic(e, "exfiltration") /\ is_internal_to_external(e)
persistence(e) == has_tactic(e, "persistence") /\ "temp_dir" \in flags(e)
lateral_movement(e) == has_tactic(e, "lateral movement") /\ unique_dst_ip_count(e) > SpreadIps
alert_burst(e) == alert_count(e) > BurstAlerts /\ high_risk(e)

\* evaluate_rules
Triggered(e) ==
    (flags(e) \intersect {"encoded_payload", "download_cradle", "parent_child_anomaly"})
        \union {r \in {"brute_force", "port_scan", "lolbin_execution", "exfiltration_signal",
                       "persistence", "lateral_movement", "alert_burst"} :
                   CASE r = "brute_force" -> brute_force(e)
                     [] r = "port_scan" -> port_scan(e)
                     [] r = "lolbin_execution" -> lolbin_execution(e)
                     [] r = "exfiltration_signal" -> exfiltration_signal(e)
                     [] r = "persistence" -> persistence(e)
                     [] r = "lateral_movement" -> lateral_movement(e)
                     [] r = "alert_burst" -> alert_burst(e)}

-----------------------------------------------------------------------------

\* One more event of the cycle is normalized.
Observe(e, source, v) ==
    /\ MapThenSumSet(LAMBDA p : Cardinality(seen[p[1]][p[2]]), Entities \X EventSources) < MaxEvents
    /\ LET same == {n \in seen[e][source] : n.event = v}
       IN  seen' = [seen EXCEPT ![e][source] =
                        @ \union {[event |-> v, copy |-> Cardinality(same)]}]

DetectionInit == seen = [e \in Entities |-> [s \in EventSources |-> {}]]

DetectionNext ==
    \E e \in Entities, source \in EventSources : \E v \in Events[source] : Observe(e, source, v)

DetectionSpec == DetectionInit /\ [][DetectionNext]_detectionVars

-----------------------------------------------------------------------------
(* Properties *)

\* Evidence never talks a rule out of an entity: whatever else a cycle brings,
\* of the same source, another one, or of other entities, what had triggered
\* stays triggered. (Where seen is unchanged there is nothing to compare.)
EvidenceOnlyAdds ==
    [][seen' # seen => \A e \in Entities : Triggered(e) \subseteq Triggered(e)']_detectionVars

=============================================================================
