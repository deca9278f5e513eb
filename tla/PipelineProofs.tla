----------------------------- MODULE PipelineProofs -----------------------------
(***************************************************************************)
(* Theorems about the pipeline: the rules that a cycle's events trigger,   *)
(* the verdict on a row of features, the windows that cycles read, the     *)
(* attack patterns found among the alerts of an incident, and the          *)
(* incidents that a cycle's alerts make.                                   *)
(***************************************************************************)
EXTENDS Ingestion, Detection, Ensemble, Patterns, Correlation,
        FiniteSetTheorems, SequenceTheorems, WellFoundedInduction, TLAPS

-----------------------------------------------------------------------------
(* Least elements and sums *)

\* A set of numbers that is not empty has a least one.
LEMMA LeastNumber ==
    ASSUME NEW S \in SUBSET Nat, S # {}
    PROVE  \E n \in S : \A m \in S : n <= m
<1> DEFINE R == {p \in Nat \X Nat : p[1] < p[2]}
<1>1. IsWellFoundedOn(R, Nat)
  <2>1. R = OpToRel(<, Nat)
    BY Zenon DEF OpToRel
  <2> QED
    BY <2>1, NatLessThanWellFounded, Zenon
<1>2. PICK n \in S : \A m \in S : <<m, n>> \notin R
  <2> HIDE DEF R
  <2> QED
    BY <1>1, WFMin
<1>3. \A m \in S : ~(m < n)
  BY <1>2
<1> QED
  BY <1>2, <1>3

\* Among subsets of a finite set one has no other of them inside.
LEMMA LeastSubset ==
    ASSUME NEW L, IsFiniteSet(L), NEW W, W \subseteq SUBSET L, W # {}
    PROVE  \E s \in W : \A u \in W : ~(u \subseteq s /\ u # s)
<1> DEFINE R == StrictSubsetOrdering(L)
<1>1. IsWellFoundedOn(R, SUBSET L)
  BY FS_StrictSubsetOrderingWellFounded, FS_FiniteSubsetsOfFinite
<1>2. PICK s \in W : \A u \in W : <<u, s>> \notin R
  <2> HIDE DEF R
  <2> QED
    BY <1>1, WFMin
<1>3. \A u \in W : ~(u \subseteq s /\ u # s)
  BY <1>2 DEF StrictSubsetOrdering
<1> QED
  BY <1>3

\* What MapThenFoldSet computes of a sum: g adds up f over every subset of u.
Pick(s) == CHOOSE x \in s : TRUE
AddsUp(g, f, u) ==
    g = [s \in SUBSET u |-> IF s = {} THEN 0 ELSE f[Pick(s)] + g[s \ {Pick(s)}]]

LEMMA PickFact == \A s : s # {} => Pick(s) \in s
BY DEF Pick

LEMMA AddsUpFacts ==
    ASSUME NEW f, NEW u, NEW g, AddsUp(g, f, u)
    PROVE  \A s \in SUBSET u : g[s] = IF s = {} THEN 0 ELSE f[Pick(s)] + g[s \ {Pick(s)}]
BY DEF AddsUp

\* Two ways to add up agree wherever both do.
LEMMA OneSum ==
    ASSUME NEW f, NEW u, NEW v, IsFiniteSet(u), NEW g, NEW h, AddsUp(g, f, u), AddsUp(h, f, v)
    PROVE  \A s \in SUBSET (u \intersect v) : g[s] = h[s]
<1>1. PICK C : C = u \intersect v
  OBVIOUS
<1>2. IsFiniteSet(C) /\ C \subseteq u /\ C \subseteq v
  BY <1>1, FS_Subset
<1> DEFINE W == {s \in SUBSET C : g[s] # h[s]}
<1>3. ASSUME W # {} PROVE FALSE
  <2>1. PICK s \in W : \A t \in W : ~(t \subseteq s /\ t # s)
    <3>1. W \subseteq SUBSET C
      OBVIOUS
    <3> HIDE DEF W
    <3> QED
      BY <1>2, <1>3, <3>1, LeastSubset
  <2>2. s \subseteq C /\ g[s] # h[s]
    OBVIOUS
  <2>3. /\ g[s] = IF s = {} THEN 0 ELSE f[Pick(s)] + g[s \ {Pick(s)}]
        /\ h[s] = IF s = {} THEN 0 ELSE f[Pick(s)] + h[s \ {Pick(s)}]
    BY <1>2, <2>2, AddsUpFacts
  <2>4. s # {} /\ Pick(s) \in s
    BY <2>2, <2>3, PickFact
  <2>5. s \ {Pick(s)} \in SUBSET C /\ s \ {Pick(s)} \subseteq s /\ s \ {Pick(s)} # s
    BY <2>2, <2>4
  <2>6. g[s \ {Pick(s)}] = h[s \ {Pick(s)}]
    BY <2>1, <2>5
  <2> QED
    BY <2>2, <2>3, <2>6
<1> QED
  BY <1>1, <1>3

\* There is a way: of the subsets without one, a least one has one.
LEMMA SumExists ==
    ASSUME NEW f, NEW S, IsFiniteSet(S)
    PROVE  \E g : AddsUp(g, f, S)
<1> DEFINE W == {u \in SUBSET S : ~ \E g : AddsUp(g, f, u)}
<1>1. SUFFICES ASSUME W # {} PROVE FALSE
  OBVIOUS
<1>2. PICK u \in W : \A t \in W : ~(t \subseteq u /\ t # u)
  <2>1. W \subseteq SUBSET S
    OBVIOUS
  <2> HIDE DEF W
  <2> QED
    BY <1>1, <2>1, LeastSubset
<1> DEFINE G(t) == CHOOSE g : AddsUp(g, f, t)
           Less(s) == s \ {Pick(s)}
           h == [s \in SUBSET u |-> IF s = {} THEN 0 ELSE f[Pick(s)] + G(Less(s))[Less(s)]]
<1>3. \A t : t \subseteq u /\ t # u => AddsUp(G(t), f, t)
  <2> SUFFICES ASSUME NEW t, t \subseteq u, t # u PROVE AddsUp(G(t), f, t)
    OBVIOUS
  <2>1. \E g : AddsUp(g, f, t)
    BY <1>2
  <2> QED
    BY <2>1, Zenon
<1>4. IsFiniteSet(u) /\ \A t : t \subseteq u => IsFiniteSet(t)
  BY <1>2, FS_Subset
<1>5. \A s : s \subseteq u /\ s # {} => Pick(s) \in s /\ Less(s) \subseteq u /\ Less(s) # u
                                        /\ Less(s) \subseteq s /\ Less(s) # s
  BY PickFact
<1> HIDE DEF G, Less
<1>6. ASSUME NEW s \in SUBSET u, s # {}
      PROVE  h[Less(s)] = G(Less(s))[Less(s)]
  <2>1. PICK t : t = Less(s)
    OBVIOUS
  <2>2. t \subseteq u /\ t # u /\ AddsUp(G(t), f, t)
    BY <1>3, <1>5, <1>6, <2>1
  <2>3. G(t)[t] = IF t = {} THEN 0 ELSE f[Pick(t)] + G(t)[Less(t)]
    BY <2>2, AddsUpFacts DEF Less
  <2>4. CASE t # {}
    <3>1. /\ Less(t) \subseteq u /\ Less(t) # u /\ Less(t) \subseteq t
          /\ AddsUp(G(Less(t)), f, Less(t)) /\ IsFiniteSet(t)
      BY <1>3, <1>4, <1>5, <2>2, <2>4
    <3>2. G(t)[Less(t)] = G(Less(t))[Less(t)]
      BY <2>2, <3>1, OneSum
    <3> QED
      BY <2>1, <2>2, <2>3, <2>4, <3>2
  <2> QED
    BY <2>1, <2>2, <2>3, <2>4
<1>7. AddsUp(h, f, u)
  <2>1. \A s \in SUBSET u : h[s] = IF s = {} THEN 0 ELSE f[Pick(s)] + h[s \ {Pick(s)}]
    <3> SUFFICES ASSUME NEW s \in SUBSET u, s # {}
                 PROVE  h[s] = f[Pick(s)] + h[Less(s)]
      BY DEF Less
    <3> QED
      BY <1>6
  <2>2. h = [s \in SUBSET u |-> h[s]]
    OBVIOUS
  <2> HIDE DEF h
  <2> QED
    BY <2>1, <2>2 DEF AddsUp
<1> HIDE DEF h
<1> QED
  BY <1>2, <1>7

\* What is closed under addition has the sum of finitely many of its members.
LEMMA SumWithin ==
    ASSUME NEW T, 0 \in T, \A x, y \in T : x + y \in T,
           NEW f, IsFiniteSet(DOMAIN f), \A i \in DOMAIN f : f[i] \in T
    PROVE  SumFunction(f) \in T
<1>1. PICK S : S = DOMAIN f
  OBVIOUS
<1> DEFINE sums(g) == AddsUp(g, f, S)
<1>2. SumFunction(f) = (CHOOSE g : sums(g))[S]
  BY <1>1 DEF SumFunction, SumFunctionOnSet, FoldFunctionOnSet, MapThenFoldSet, AddsUp, Pick
<1>3. PICK g : AddsUp(g, f, S) /\ SumFunction(f) = g[S]
  <2>1. \E g : sums(g)
    BY <1>1, SumExists
  <2> HIDE DEF sums
  <2>2. sums(CHOOSE g : sums(g))
    BY <2>1, Zenon
  <2>3. PICK c : c = CHOOSE g : sums(g)
    OBVIOUS
  <2>4. sums(c) /\ SumFunction(f) = c[S]
    BY <1>2, <2>2, <2>3
  <2> QED
    BY <2>4 DEF sums
<1> HIDE DEF sums
<1>4. \A s \in SUBSET S : g[s] = IF s = {} THEN 0 ELSE f[Pick(s)] + g[s \ {Pick(s)}]
  <2>1. AddsUp(g, f, S)
    BY <1>3
  <2> QED
    BY <2>1 DEF AddsUp
<1> DEFINE W == {s \in SUBSET S : g[s] \notin T}
<1>5. ASSUME W # {} PROVE FALSE
  <2>1. PICK s \in W : \A t \in W : ~(t \subseteq s /\ t # s)
    <3>1. W \subseteq SUBSET S
      OBVIOUS
    <3> HIDE DEF W
    <3> QED
      BY <1>1, <1>5, <3>1, LeastSubset
  <2>2. s \subseteq S /\ g[s] \notin T
    OBVIOUS
  <2>3. g[s] = IF s = {} THEN 0 ELSE f[Pick(s)] + g[s \ {Pick(s)}]
    BY <1>4, <2>2
  <2>4. s # {} /\ Pick(s) \in s
    BY <2>2, <2>3, PickFact
  <2>5. s \ {Pick(s)} \in SUBSET S /\ s \ {Pick(s)} \subseteq s /\ s \ {Pick(s)} # s
    BY <2>2, <2>4
  <2>6. g[s \ {Pick(s)}] \in T /\ f[Pick(s)] \in T
    BY <1>1, <2>1, <2>2, <2>4, <2>5
  <2> QED
    BY <2>2, <2>3, <2>4, <2>6
<1> QED
  BY <1>3, <1>5

\* The sum of finitely many integers is one.
LEMMA SumIsInt ==
    ASSUME NEW f, IsFiniteSet(DOMAIN f), \A i \in DOMAIN f : f[i] \in Int
    PROVE  SumFunction(f) \in Int
<1>1. 0 \in Int /\ \A x, y \in Int : x + y \in Int
  OBVIOUS
<1> QED
  BY <1>1, SumWithin

-----------------------------------------------------------------------------
(* Rules *)

\* An entity has finitely many events of each source.
SeenIsFinite ==
    /\ DOMAIN seen = Entities
    /\ \A e \in Entities : DOMAIN seen[e] = EventSources
    /\ \A e \in Entities, s \in EventSources : IsFiniteSet(seen[e][s])

\* Nothing that was seen of an entity is forgotten.
NothingForgotten == \A e \in Entities, s \in EventSources : seen[e][s] \subseteq seen'[e][s]

LEMMA Sources3 == EventSources = {"network", "process", "alert"}
BY DEF EventSources, Events

\* The values a field takes over a set of records.
Values(k, S) == {v[k] : v \in S}

\* A field takes no fewer values over more records.
LEMMA ValuesGrow ==
    ASSUME NEW S, NEW T, S \subseteq T, IsFiniteSet(T), NEW k
    PROVE  /\ Values(k, S) \subseteq Values(k, T)
           /\ IsFiniteSet(Values(k, T))
           /\ Cardinality(Values(k, S)) \in Nat /\ Cardinality(Values(k, T)) \in Nat
           /\ Cardinality(Values(k, S)) <= Cardinality(Values(k, T))
<1> DEFINE f == [v \in T |-> v[k]]
<1>1. f \in Surjection(T, Values(k, T))
  BY DEF Surjection, Values
<1>2. IsFiniteSet(Values(k, T))
  BY <1>1, FS_Surjection
<1>3. Values(k, S) \subseteq Values(k, T)
  BY DEF Values
<1>4. /\ IsFiniteSet(Values(k, S))
      /\ Cardinality(Values(k, S)) <= Cardinality(Values(k, T))
  BY <1>2, <1>3, FS_Subset
<1> QED
  BY <1>2, <1>3, <1>4, FS_CardinalityType

LEMMA DetectionStart == DetectionInit => SeenIsFinite
BY FS_EmptySet DEF DetectionInit, SeenIsFinite

LEMMA DetectionStep ==
    ASSUME SeenIsFinite, [DetectionNext]_detectionVars
    PROVE  SeenIsFinite' /\ NothingForgotten
<1>1. CASE UNCHANGED detectionVars
  BY <1>1 DEF detectionVars, SeenIsFinite, NothingForgotten
<1>2. ASSUME NEW e \in Entities, NEW source \in EventSources, NEW v, Observe(e, source, v)
      PROVE  SeenIsFinite' /\ NothingForgotten
  <2>1. PICK n : seen' = [seen EXCEPT ![e][source] = @ \union {n}]
    BY <1>2 DEF Observe
  <2>2. /\ DOMAIN seen' = Entities
        /\ \A d \in Entities : DOMAIN seen'[d] = EventSources
        /\ \A d \in Entities, s \in EventSources :
              seen'[d][s] = seen[d][s] \/ seen'[d][s] = seen[d][s] \union {n}
    BY <2>1 DEF SeenIsFinite
  <2>3. ASSUME NEW d \in Entities, NEW s \in EventSources
        PROVE  IsFiniteSet(seen'[d][s])
    <3>1. PICK S, T : S = seen[d][s] /\ T = seen'[d][s]
      OBVIOUS
    <3>2. IsFiniteSet(S) /\ (T = S \/ T = S \union {n})
      BY <2>2, <3>1 DEF SeenIsFinite
    <3>3. IsFiniteSet(S \union {n})
      BY <3>2, FS_AddElement
    <3> QED
      BY <3>1, <3>2, <3>3
  <2> QED
    BY <2>2, <2>3 DEF SeenIsFinite, NothingForgotten
<1> QED
  BY <1>1, <1>2 DEF DetectionNext

\* The row of an entity is made of all its events, and has no fewer later on.
LEMMA RowsGrow ==
    ASSUME SeenIsFinite, SeenIsFinite', NothingForgotten, NEW e \in Entities
    PROVE  /\ \A s \in EventSources : Row(s, e) \subseteq Row(s, e)'
           /\ alert_count(e) \in Nat /\ alert_count(e)' \in Nat /\ alert_count(e) <= alert_count(e)'
           /\ connections(e) \in Nat /\ connections(e)' \in Nat /\ connections(e) <= connections(e)'
           /\ /\ unique_dst_ip_count(e) \in Nat /\ unique_dst_ip_count(e)' \in Nat
              /\ unique_dst_ip_count(e) <= unique_dst_ip_count(e)'
           /\ /\ unique_dst_port_count(e) \in Nat /\ unique_dst_port_count(e)' \in Nat
              /\ unique_dst_port_count(e) <= unique_dst_port_count(e)'
<1>1. ASSUME NEW s \in EventSources
      PROVE  /\ Row(s, e) = {n.event : n \in seen[e][s]}
             /\ Row(s, e)' = {n.event : n \in seen'[e][s]}
             /\ Rows(s, e) = Cardinality(seen[e][s])
             /\ Rows(s, e)' = Cardinality(seen'[e][s])
  BY FS_EmptySet DEF Row, Rows, Merged, Table
<1>2. ASSUME NEW s \in EventSources
      PROVE  /\ Row(s, e) \subseteq Row(s, e)'
             /\ IsFiniteSet(Row(s, e)')
             /\ Rows(s, e) \in Nat /\ Rows(s, e)' \in Nat /\ Rows(s, e) <= Rows(s, e)'
  <2>1. PICK S, T : S = seen[e][s] /\ T = seen'[e][s]
    OBVIOUS
  <2>2. S \subseteq T /\ IsFiniteSet(S) /\ IsFiniteSet(T)
    BY <2>1 DEF SeenIsFinite, NothingForgotten
  <2>3. Cardinality(S) \in Nat /\ Cardinality(T) \in Nat /\ Cardinality(S) <= Cardinality(T)
    BY <2>2, FS_Subset, FS_CardinalityType
  <2>4. Values("event", S) \subseteq Values("event", T) /\ IsFiniteSet(Values("event", T))
    BY <2>2, ValuesGrow
  <2>5. Row(s, e) = Values("event", S) /\ Row(s, e)' = Values("event", T)
    BY <1>1, <2>1 DEF Values
  <2>6. Rows(s, e) = Cardinality(S) /\ Rows(s, e)' = Cardinality(T)
    BY <1>1, <2>1
  <2>7. Row(s, e) \subseteq Row(s, e)'
    BY <2>4, <2>5
  <2>8. IsFiniteSet(Row(s, e)')
    BY <2>4, <2>5
  <2> QED
    BY <2>3, <2>6, <2>7, <2>8
<1>3. PICK A, B : A = Row("network", e) /\ B = Row("network", e)'
  OBVIOUS
<1>4. A \subseteq B /\ IsFiniteSet(B)
  BY <1>2, <1>3, Sources3
<1>5. ASSUME NEW k
      PROVE  /\ Cardinality(Values(k, A)) \in Nat /\ Cardinality(Values(k, B)) \in Nat
             /\ Cardinality(Values(k, A)) <= Cardinality(Values(k, B))
  BY <1>4, ValuesGrow
<1>6. /\ unique_dst_ip_count(e) = Cardinality(Values("dst_ip", A))
      /\ unique_dst_ip_count(e)' = Cardinality(Values("dst_ip", B))
      /\ unique_dst_port_count(e) = Cardinality(Values("dst_port", A))
      /\ unique_dst_port_count(e)' = Cardinality(Values("dst_port", B))
  BY <1>3 DEF unique_dst_ip_count, unique_dst_port_count, Values
<1> QED
  BY <1>2, <1>5, <1>6, Sources3 DEF alert_count, connections

\* Every rule asks for something to be there, or for more than a number of
\* something: none is talked out of an entity (evaluate_rules, merge_features).
THEOREM EvidenceNeverTakesAway == DetectionSpec => EvidenceOnlyAdds
<1>1. ASSUME SeenIsFinite, SeenIsFinite', NothingForgotten, NEW e \in Entities
      PROVE  Triggered(e) \subseteq Triggered(e)'
  <2>1. /\ \A t : has_tactic(e, t) => has_tactic(e, t)'
        /\ is_internal_to_external(e) => is_internal_to_external(e)'
        /\ flags(e) \subseteq flags(e)'
        /\ high_risk(e) => high_risk(e)'
    BY <1>1, RowsGrow, Sources3 DEF has_tactic, is_internal_to_external, flags, high_risk
  <2>2. {BruteAlerts, ScanPorts, ScanEvents, SpreadIps, BurstAlerts} \subseteq Nat
    BY DetectionAssumption
  <2>3. /\ alert_count(e) > BruteAlerts => alert_count(e)' > BruteAlerts
        /\ alert_count(e) > BurstAlerts => alert_count(e)' > BurstAlerts
        /\ connections(e) > ScanEvents => connections(e)' > ScanEvents
        /\ unique_dst_ip_count(e) > SpreadIps => unique_dst_ip_count(e)' > SpreadIps
        /\ unique_dst_port_count(e) > ScanPorts => unique_dst_port_count(e)' > ScanPorts
    BY <1>1, <2>2, RowsGrow
  <2>4. /\ brute_force(e) => brute_force(e)'
        /\ port_scan(e) => port_scan(e)'
        /\ lolbin_execution(e) => lolbin_execution(e)'
        /\ exfiltration_signal(e) => exfiltration_signal(e)'
        /\ persistence(e) => persistence(e)'
        /\ lateral_movement(e) => lateral_movement(e)'
        /\ alert_burst(e) => alert_burst(e)'
    BY <2>1, <2>3 DEF brute_force, port_scan, lolbin_execution, exfiltration_signal, persistence,
                      lateral_movement, alert_burst
  <2> QED
    BY <2>1, <2>4 DEF Triggered
<1>2. SeenIsFinite /\ [DetectionNext]_detectionVars
         => [seen' # seen => \A e \in Entities : Triggered(e) \subseteq Triggered(e)']_detectionVars
  BY <1>1, DetectionStep
<1>3. SeenIsFinite /\ [DetectionNext]_detectionVars => SeenIsFinite'
  BY DetectionStep
<1> QED
  BY <1>2, <1>3, DetectionStart, PTL DEF DetectionSpec, EvidenceOnlyAdds

-----------------------------------------------------------------------------
(* Scores *)

\* A square is smaller only when the number is.
LEMMA SmallSquare ==
    ASSUME NEW x \in Int, NEW n \in Nat, x * x < n * n
    PROVE  x < n /\ -x < n
<1>1. ASSUME NEW y \in Int, y >= n
      PROVE  y * y >= n * n
  <2>1. PICK k \in Nat : y = n + k
    BY <1>1
  <2>2. k * n \in Nat /\ k * k \in Nat
    OBVIOUS
  <2>3. y * y = n * n + 2 * (k * n) + k * k
    BY <2>1
  <2> QED
    BY <2>2, <2>3
<1>2. (-x) * (-x) = x * x
  OBVIOUS
<1>3. -x \in Int
  OBVIOUS
<1> QED
  BY <1>1, <1>2, <1>3
\* The squares of all differences: Variance16 of four scores.
Spread(a, b, c, d) ==
    (a - b) * (a - b) + (a - c) * (a - c) + (a - d) * (a - d)
        + (b - c) * (b - c) + (b - d) * (b - d) + (c - d) * (c - d)
\* When they are close, one above 60 pulls all of them up.
LEMMA HighTogether ==
    ASSUME NEW a \in Int, NEW b \in Int, NEW c \in Int, NEW d \in Int, a >= 60,
           Spread(a, b, c, d) < 1600
    PROVE  a + b + c + d > 170
<1> DEFINE x == 3 * a - b - c - d
<1>0. x \in Int
  OBVIOUS
<1>1. \A z \in Int : z * z \in Nat
  OBVIOUS
<1>2. x * x + (b - c) * (b - c) + (b - d) * (b - d) + (c - d) * (c - d)
        = 3 * ((a - b) * (a - b) + (a - c) * (a - c) + (a - d) * (a - d))
  OBVIOUS
<1>3. /\ (b - c) * (b - c) \in Nat /\ (b - d) * (b - d) \in Nat /\ (c - d) * (c - d) \in Nat
      /\ x * x \in Nat
      /\ (a - b) * (a - b) + (a - c) * (a - c) + (a - d) * (a - d) \in Nat
  <2>1. a - b \in Int /\ a - c \in Int /\ a - d \in Int /\ b - c \in Int /\ b - d \in Int /\ c - d \in Int
    OBVIOUS
  <2>2. \A m, n \in Nat : m + n \in Nat
    OBVIOUS
  <2> HIDE DEF x
  <2> QED
    BY <1>0, <1>1, <2>1, <2>2
<1>4. x * x < 4900
  BY <1>2, <1>3 DEF Spread
<1>5. x < 70
  BY <1>0, <1>4, SmallSquare
<1> QED
  BY <1>5
LEMMA CloseTogether ==
    ASSUME NEW a \in Int, NEW b \in Int, NEW c \in Int, NEW d \in Int,
           Spread(a, b, c, d) < 1600
    PROVE  b - c < 40 /\ a - b < 40 
<1>1. \A z \in Int : z * z \in Nat
  OBVIOUS
<1>2. a - b \in Int /\ a - c \in Int /\ a - d \in Int /\ b - c \in Int /\ b - d \in Int /\ c - d \in Int
  OBVIOUS
<1>3. (b - c) * (b - c) < 40 * 40 /\ (a - b) * (a - b) < 40 * 40
  <2>1. \A m \in {a - b, a - c, a - d, b - c, b - d, c - d} : m * m \in Nat
    BY <1>1, <1>2
  <2> QED
   BY <2>1 DEF Spread
<1> QED
  BY <1>2, <1>3, SmallSquare

\* What an entity did is a sequence.
LEMMA ActionsType ==
    ASSUME NEW log \in EventLogs, NEW entity
    PROVE  \E A : ActionsOf(log, entity) \in Seq(A)
<1>1. PICK own : own = {i \in DOMAIN log : log[i].entity = entity}
  OBVIOUS
<1>2. IsFiniteSet(own)
  BY <1>1, EnsembleAssumption, FS_Subset
<1>3. PICK n \in Nat : n = Cardinality(own)
  BY <1>2, FS_CardinalityType
<1>4. DOMAIN ActionsOf(log, entity) = 1 .. n
  BY <1>1, <1>3 DEF ActionsOf
<1>5. ActionsOf(log, entity) = [k \in 1 .. n |-> ActionsOf(log, entity)[k]]
  BY <1>4 DEF ActionsOf
<1>6. PICK acts : acts = ActionsOf(log, entity)
  OBVIOUS
<1>7. PICK A : A = {acts[k] : k \in 1 .. n}
  OBVIOUS
<1>8. acts \in [1 .. n -> A]
  BY <1>5, <1>6, <1>7
<1>9. acts \in Seq(A)
  BY <1>3, <1>8
<1> QED
  BY <1>6, <1>9

LEMMA EncodedType ==
    ASSUME NEW A, NEW s \in Seq(A)
    PROVE  Encode(s) \in Seq(Encoded) /\ Len(Encode(s)) = Len(s)
<1>1. \A i \in DOMAIN s : (IF s[i] \in Vocab THEN s[i] ELSE "<UNK>") \in Encoded
  BY DEF Encoded
<1>2. Encode(s) \in [1 .. Len(s) -> Encoded]
  BY <1>1 DEF Encode
<1> QED
  BY <1>2

LEMMA ClipType == \A n \in Int : Clip(n) \in 0 .. 100
BY DEF Clip

\* The sequence model's score is a percentage.
LEMMA ScoreType ==
    ASSUME NEW A, NEW s \in Seq(A), Len(s) <= SequenceLen
    PROVE  SequenceScore(s) \in 0 .. 100
<1>1. PICK e \in Seq(Encoded) : e = Encode(s) /\ Len(e) = Len(s)
  BY EncodedType
<1>2. PICK f : f = [i \in 2 .. Len(e) |-> Surprise(SubSeq(e, 1, i - 1), e[i])]
  OBVIOUS
<1>3. DOMAIN f = 2 .. Len(e)
  BY <1>2
<1>4. IsFiniteSet(DOMAIN f)
  BY <1>3, FS_Interval
<1>5. ASSUME NEW i \in DOMAIN f PROVE f[i] \in Int
  <2>1. i \in 2 .. Len(e) /\ i - 1 \in Int /\ i - 1 <= SequenceLen /\ SequenceLen \in Nat
    BY <1>1, <1>3, <1>5, EnsembleAssumption
  <2>2. PICK w : w = SubSeq(e, 1, i - 1)
    OBVIOUS
  <2>3. w \in Seq(Encoded) /\ Len(w) = i - 1
    <3>1. \A k \in 1 .. i - 1 : e[k] \in Encoded
      BY <2>1
    <3> QED
      BY <2>1, <2>2, <3>1, SubSeqProperties
  <2>4. w \in [1 .. i - 1 -> Encoded]
    BY <2>3
  <2>5. w \in BoundedSeq(Encoded, SequenceLen)
    <3>1. i - 1 \in 0 .. SequenceLen
      BY <2>1
    <3> QED
      BY <2>4, <3>1 DEF BoundedSeq, SeqOf
  <2>6. e[i] \in Encoded
    BY <2>1
  <2>7. Surprise(w, e[i]) \in Int
    BY <2>5, <2>6, EnsembleAssumption
  <2>8. f[i] = Surprise(w, e[i])
    BY <1>2, <2>1, <2>2
  <2> QED
    BY <2>7, <2>8
<1>6. PICK total \in Int : total = SumFunction(f)
  BY <1>4, <1>5, SumIsInt
<1>7. SequenceScore(s) = IF SurpriseLimit <= 0 \/ Len(e) < 2 THEN 0
                         ELSE Clip((100 * total) \div (SurpriseLimit * (Len(e) - 1)))
  BY <1>1, <1>2, <1>6 DEF SequenceScore
<1>8. ASSUME SurpriseLimit > 0, Len(e) >= 2
      PROVE  (100 * total) \div (SurpriseLimit * (Len(e) - 1)) \in Int
  <2>1. PICK m \in Nat : m = Len(e) - 1 /\ m > 0
    BY <1>8
  <2>2. PICK l \in Nat : l = SurpriseLimit /\ l > 0
    BY <1>8, EnsembleAssumption
  <2>3. PICK d : d = l * m
    OBVIOUS
  <2>4. d \in Nat /\ d > 0
    BY <2>1, <2>2, <2>3
  <2>5. (100 * total) \div d \in Int
    BY <2>4
  <2> QED
    BY <2>1, <2>2, <2>3, <2>5
<1>9. Len(e) \in Nat /\ SurpriseLimit \in Int
  BY EnsembleAssumption
<1>10. CASE SurpriseLimit <= 0 \/ Len(e) < 2
  BY <1>7, <1>10
<1>11. CASE ~(SurpriseLimit <= 0 \/ Len(e) < 2)
  <2>1. PICK q \in Int : q = (100 * total) \div (SurpriseLimit * (Len(e) - 1))
    BY <1>8, <1>9, <1>11
  <2>2. SequenceScore(s) = Clip(q)
    BY <1>7, <1>11, <2>1
  <2> QED
    BY <2>1, <2>2, ClipType
<1> QED
  BY <1>10, <1>11

LEMMA WindowsType ==
    ASSUME NEW A, NEW acts \in Seq(A), NEW w \in Windows(acts)
    PROVE  w \in Seq(A) /\ Len(w) <= SequenceLen
<1>1. SequenceLen \in Nat /\ SequenceLen > 0
  BY EnsembleAssumption
<1>2. CASE Len(acts) < SequenceLen
  BY <1>1, <1>2 DEF Windows
<1>3. CASE ~(Len(acts) < SequenceLen)
  <2>1. PICK i \in 1 .. Len(acts) - SequenceLen + 1 : w = SubSeq(acts, i, i + SequenceLen - 1)
    BY <1>3 DEF Windows
  <2>2. i \in Int /\ i + SequenceLen - 1 \in Int /\ i <= i + SequenceLen - 1
        /\ (i + SequenceLen - 1) - i + 1 = SequenceLen
    BY <1>1, <2>1
  <2>3. \A k \in i .. i + SequenceLen - 1 : acts[k] \in A
    BY <1>1, <2>1
  <2> QED
    BY <2>1, <2>2, <2>3, <1>1, SubSeqProperties
<1> QED
  BY <1>2, <1>3

LEMMA MaxScoreType ==
    ASSUME NEW ss, \A s \in ss : SequenceScore(s) \in 0 .. 100
    PROVE  MaxSequenceScore(ss) \in 0 .. 100
<1>1. CASE ss = {}
  BY <1>1 DEF MaxSequenceScore
<1>2. CASE ss # {}
  <2>1. PICK S : S = {SequenceScore(s) : s \in ss}
    OBVIOUS
  <2>2. S \subseteq 0 .. 100 /\ S # {}
    BY <1>2, <2>1
  <2>3. PICK least \in {n \in Nat : 100 - n \in S} :
           \A n \in {n \in Nat : 100 - n \in S} : least <= n
    <3>1. {n \in Nat : 100 - n \in S} # {}
      <4>1. PICK x \in S : TRUE
        BY <2>2
      <4>2. 100 - x \in Nat /\ 100 - (100 - x) = x
        BY <2>2, <4>1
      <4> QED
        BY <4>1, <4>2
    <3> QED
      BY <3>1, LeastNumber
  <2>4. 100 - least \in S /\ \A y \in S : 100 - least >= y
    <3>1. ASSUME NEW y \in S PROVE 100 - least >= y
      <4>1. PICK m \in Nat : m = 100 - y /\ 100 - m = y
        BY <2>2
      <4>2. least <= m /\ least \in Nat
        BY <2>3, <4>1
      <4> QED
        BY <4>1, <4>2
    <3> QED
      BY <2>3, <3>1
  <2>5. Max(S) \in S
    BY <2>4, Zenon DEF Max
  <2> QED
    BY <1>2, <2>1, <2>2, <2>5 DEF MaxSequenceScore
<1> QED
  BY <1>1, <1>2

\* What the detectors say of a row.
LEMMA RowTypes ==
    ASSUME NEW t \in Tables, NEW i \in DOMAIN t
    PROVE  /\ NetScore(t[i]) \in 0 .. 100 /\ ProcScore(t[i]) \in 0 .. 100
           /\ t[i].rule \in 0 .. 100
<1>1. t[i].decision \in Int /\ t[i].error \in Nat /\ t[i].rule \in 0 .. 100 /\ ErrorLimit \in Int
  BY EnsembleAssumption
<1>2. ErrorLimit > 0 => (100 * t[i].error) \div ErrorLimit \in Int
  <2>1. PICK n \in Nat : n = 100 * t[i].error
    BY <1>1
  <2> QED
    BY <1>1, <2>1
<1> QED
  BY <1>1, <1>2, ClipType DEF NetScore, ProcScore

LEMMA HistoryType ==
    ASSUME NEW log \in EventLogs, NEW entity
    PROVE  MaxSequenceScore(Windows(ActionsOf(log, entity))) \in 0 .. 100
<1>1. PICK A, acts : acts = ActionsOf(log, entity) /\ acts \in Seq(A)
  BY ActionsType
<1>2. \A w \in Windows(acts) : SequenceScore(w) \in 0 .. 100
  BY <1>1, WindowsType, ScoreType
<1> QED
  BY <1>1, <1>2, MaxScoreType

-----------------------------------------------------------------------------
(* The vote *)

LEMMA NamesAre == Names = {"network", "process", "sequence", "rule"}
<1>1. DOMAIN Detectors = 1 .. 4
  BY DEF Detectors
<1>2. /\ Detectors[1] = "network" /\ Detectors[2] = "process"
      /\ Detectors[3] = "sequence" /\ Detectors[4] = "rule"
  BY DEF Detectors
<1>3. Names = {Detectors[i] : i \in 1 .. 4}
  BY <1>1 DEF Names, ToSet
<1>4. 1 .. 4 = {1, 2, 3, 4}
  OBVIOUS
<1> QED
  BY <1>2, <1>3, <1>4

\* A vote is had of four percentages, those of absent detectors zero.
Ballot(scores, present) ==
    /\ \A m \in Names : scores[m] \in 0 .. 100
    /\ \A m \in Names \ (present \union {"rule"}) : scores[m] = 0

LEMMA VarianceIsSpread ==
    ASSUME NEW scores, \A m \in Names : scores[m] \in 0 .. 100
    PROVE  Variance16(scores)
              = Spread(scores.network, scores.process, scores.sequence, scores.rule)
<1>1. PICK a, b, c, d : /\ a = scores.network /\ b = scores.process
                        /\ c = scores.sequence /\ d = scores.rule
  OBVIOUS
<1>2. a \in Int /\ b \in Int /\ c \in Int /\ d \in Int
  BY <1>1, NamesAre
<1>3. Variance16(scores) = 4 * (a * a + b * b + c * c + d * d) - (a + b + c + d) * (a + b + c + d)
  BY <1>1 DEF Variance16, TotalScore
<1>4. 4 * (a * a + b * b + c * c + d * d) - (a + b + c + d) * (a + b + c + d) = Spread(a, b, c, d)
  BY <1>2 DEF Spread
<1> QED
  BY <1>1, <1>3, <1>4

LEMMA WeightsType ==
    ASSUME NEW present \in SUBSET {"network", "process", "sequence"}
    PROVE  /\ \A m \in Names : Weights(present)[m] \in Nat
           /\ present = {"network", "process", "sequence"} =>
                 /\ Weights(present)["network"] = 75 /\ Weights(present)["process"] = 105
                 /\ Weights(present)["sequence"] = 45 /\ Weights(present)["rule"] = 75
<1> DEFINE Has(m) == IF m \in present THEN 1 ELSE 0
           active == 1 + Has("network") + Has("process") + Has("sequence")
           spare == (1 - Has("network")) * 75 + (1 - Has("process")) * 105 + (1 - Has("sequence")) * 45
<1>1. \A m \in Names :
         Weights(present)[m] = IF m \in present \union {"rule"} THEN Weight[m] + spare \div active
                               ELSE 0
  BY DEF Weights, Weight
<1>2. active \in 1 .. 4 /\ spare \in Nat /\ spare \div active \in Nat
  <2>1. active \in 1 .. 4
    OBVIOUS
  <2>2. spare \in Nat
    OBVIOUS
  <2> HIDE DEF active, spare
  <2> QED
    BY <2>1, <2>2
<1>3. present = {"network", "process", "sequence"} => spare \div active = 0
  OBVIOUS
<1> HIDE DEF active, spare
<1>4. \A m \in Names : Weight[m] \in Nat
  BY NamesAre DEF Weight
<1>5. \A m \in Names : Weights(present)[m] \in Nat
  BY <1>1, <1>2, <1>4
<1>6. ASSUME present = {"network", "process", "sequence"}
      PROVE  /\ Weights(present)["network"] = 75 /\ Weights(present)["process"] = 105
             /\ Weights(present)["sequence"] = 45 /\ Weights(present)["rule"] = 75
  BY <1>1, <1>3, <1>6, NamesAre DEF Weight
<1> QED
  BY <1>5, <1>6

\* What it takes to be called safe.
LEMMA SafeIsAgreedAndLow ==
    ASSUME NEW present \in SUBSET {"network", "process", "sequence"},
           NEW scores, Ballot(scores, present),
           Recommendation(Threat(scores, Weights(present)), Consensus(scores)) = "SAFE"
    PROVE  Threat(scores, Weights(present)) <= 9000 /\ Variance16(scores) < 1600
<1>1. PICK t \in Int : t = Threat(scores, Weights(present))
  <2>1. PICK w : w = Weights(present)
    OBVIOUS
  <2>2. \A m \in Names : w[m] \in Int /\ scores[m] \in Int
    BY <2>1, WeightsType DEF Ballot
  <2>3. \A m \in Names : w[m] * scores[m] \in Int
    BY <2>2
  <2>4. Threat(scores, w) \in Int
    BY <2>3, NamesAre DEF Threat
  <2> QED
    BY <2>1, <2>4
<1>2. PICK v \in Int : v = Variance16(scores)
  <2>1. PICK a, b, c, d : /\ a = scores.network /\ b = scores.process
                          /\ c = scores.sequence /\ d = scores.rule
    OBVIOUS
  <2>2. a \in Int /\ b \in Int /\ c \in Int /\ d \in Int
    BY <2>1, NamesAre DEF Ballot
  <2>3. Spread(a, b, c, d) \in Int
    BY <2>2 DEF Spread
  <2> QED
    BY <2>1, <2>3, VarianceIsSpread DEF Ballot
<1>3. Consensus(scores) \in {"strong", "moderate", "weak", "split"}
      /\ (Consensus(scores) = "strong" => v < 1600)
  <2>1. v < 1600 => Consensus(scores) = "strong"
    BY <1>2 DEF Consensus
  <2>2. v >= 1600 /\ v < 6400 => Consensus(scores) = "moderate"
    BY <1>2 DEF Consensus
  <2>3. v >= 6400 /\ v < 19600 => Consensus(scores) = "weak"
    BY <1>2 DEF Consensus
  <2>4. v >= 19600 => Consensus(scores) = "split"
    BY <1>2 DEF Consensus
  <2> QED
    BY <2>1, <2>2, <2>3, <2>4
<1>4. PICK c \in {"strong", "moderate", "weak", "split"} : c = Consensus(scores)
  BY <1>3
<1>5. Recommendation(t, c) = "SAFE"
  BY <1>1, <1>4
<1>6. t <= 9000 /\ c = "strong"
  BY <1>5 DEF Recommendation
<1> QED
  BY <1>1, <1>2, <1>3, <1>4, <1>6

\* Without a detector one suspicion is disagreement enough; with all of them,
\* agreement pulls the others up, and the total.
LEMMA SafeIsLow ==
    ASSUME NEW present \in SUBSET {"network", "process", "sequence"},
           NEW scores, Ballot(scores, present),
           Recommendation(Threat(scores, Weights(present)), Consensus(scores)) = "SAFE"
    PROVE  \A m \in Names : scores[m] < 60
<1>1. PICK a, b, c, d : /\ a = scores.network /\ b = scores.process
                        /\ c = scores.sequence /\ d = scores.rule
  OBVIOUS
<1>2. a \in Int /\ b \in Int /\ c \in Int /\ d \in Int
  BY <1>1, NamesAre DEF Ballot
<1>3. Spread(a, b, c, d) < 1600
  BY <1>1, SafeIsAgreedAndLow, VarianceIsSpread DEF Ballot
<1>4. /\ Spread(b, a, c, d) < 1600 /\ Spread(c, a, b, d) < 1600 /\ Spread(d, a, b, c) < 1600
      /\ Spread(b, c, d, a) < 1600 /\ Spread(d, b, a, c) < 1600 /\ Spread(c, b, a, d) < 1600
      /\ Spread(a, c, b, d) < 1600 /\ Spread(d, c, a, b) < 1600 /\ Spread(b, c, a, d) < 1600
  BY <1>2, <1>3 DEF Spread
<1>5. /\ a - b < 40 /\ a - c < 40 /\ b - a < 40 /\ b - c < 40 /\ c - a < 40 /\ c - b < 40
      /\ d - a < 40 /\ d - b < 40 /\ d - c < 40
  BY <1>2, <1>3, <1>4, CloseTogether
<1>6. SUFFICES ASSUME a >= 60 \/ b >= 60 \/ c >= 60 \/ d >= 60
               PROVE  FALSE
  BY <1>1, <1>2, NamesAre
<1>7. CASE present = {"network", "process", "sequence"}
  <2>1. a + b + c + d > 170
    BY <1>2, <1>3, <1>4, <1>6, HighTogether
  <2>2. Threat(scores, Weights(present)) = 75 * a + 105 * b + 45 * c + 75 * d
    BY <1>1, <1>7, WeightsType DEF Threat
  <2>3. 75 * a + 105 * b + 45 * c + 75 * d > 9000
    BY <1>2, <1>5, <2>1
  <2> QED
    BY <1>2, <2>2, <2>3, SafeIsAgreedAndLow
<1>8. CASE present # {"network", "process", "sequence"}
  <2>1. a = 0 \/ b = 0 \/ c = 0
    BY <1>1, <1>8, NamesAre DEF Ballot
  <2> QED
    BY <1>2, <1>5, <1>6, <2>1
<1> QED
  BY <1>7, <1>8

-----------------------------------------------------------------------------
(* Batches *)

\* A score of an absent detector is zero.
Scored(name, n) == n \in 0 .. 100 /\ (name \notin call.detectors => n = 0)

\* A result says what the vote makes of its scores.
Voted(r) ==
    /\ Ballot(r.scores, call.detectors)
    /\ r.recommendation
          = Recommendation(Threat(r.scores, Weights(call.detectors)), Consensus(r.scores))

CallOK ==
    /\ call.table \in Tables /\ call.log \in EventLogs
    /\ call.detectors \in SUBSET {"network", "process", "sequence"}

\* The batch under way has a score of each for every row of it, and its rows
\* are in the table.
BatchOK ==
    /\ start \in Nat /\ start <= Len(results)
    /\ \E n \in Nat :
          /\ DOMAIN net = 1 .. n /\ DOMAIN proc = 1 .. n
          /\ Len(net) = n /\ Len(proc) = n
          /\ start + n <= Len(FeatureTable)
          /\ \A i \in 1 .. n : Scored("network", net[i]) /\ Scored("process", proc[i])

ResultsOK ==
    /\ \E R : results \in Seq(R)
    /\ \A i \in DOMAIN results : Voted(results[i])

EnsembleInv ==
    \/ call = NoTable /\ start = 0 /\ net = <<>> /\ proc = <<>> /\ results = <<>>
    \/ call # NoTable /\ CallOK /\ BatchOK /\ ResultsOK

LEMMA EnsembleStart == EnsembleInit => EnsembleInv
BY DEF EnsembleInit, EnsembleInv

LEMMA TablesType ==
    ASSUME NEW t \in Tables
    PROVE  Len(t) \in Nat /\ DOMAIN t = 1 .. Len(t)
BY EnsembleAssumption

\* A batch is a stretch of the table.
LEMMA BatchFacts ==
    ASSUME CallOK, NEW from \in Nat, from < Len(FeatureTable)
    PROVE  \E n \in Nat : /\ DOMAIN BatchFrom(from) = 1 .. n
                          /\ from + n <= Len(FeatureTable)
                          /\ 0 < n /\ n <= BatchSize
                          /\ n < BatchSize => from + n = Len(FeatureTable)
                          /\ \A i \in 1 .. n : BatchFrom(from)[i] = FeatureTable[from + i]
<1>1. PICK t \in Tables : t = FeatureTable
  BY DEF CallOK, FeatureTable
<1>2. PICK l \in Nat : l = Len(t) /\ DOMAIN t = 1 .. l
  BY TablesType
<1>3. PICK to \in Nat : to = from + BatchSize
  BY EnsembleAssumption
<1>4. PICK last : last = Min({to, l})
  OBVIOUS
<1>5. last \in {to, l} /\ last <= l
  <2>1. \E x \in {to, l} : \A y \in {to, l} : x <= y
    BY <1>2, <1>3
  <2>2. last \in {to, l} /\ \A y \in {to, l} : last <= y
    BY <1>4, <2>1, Zenon DEF Min
  <2> QED
    BY <2>2
<1>6. last > from /\ last \in Nat
  BY <1>1, <1>2, <1>3, <1>5, EnsembleAssumption
<1>7. PICK rows : rows = SubSeq(t, from + 1, last)
  OBVIOUS
<1>8. rows = BatchFrom(from)
  BY <1>1, <1>2, <1>3, <1>4, <1>7 DEF BatchFrom
<1>9. /\ rows \in Seq(ToSet(t)) /\ Len(rows) = last - from
      /\ \A i \in 1 .. last - from : rows[i] = t[from + i]
  <2>1. \A i \in from + 1 .. last : t[i] \in ToSet(t)
    BY <1>2, <1>5, <1>6 DEF ToSet
  <2>2. from + 1 \in Int /\ last \in Int /\ from + 1 <= last
    BY <1>6
  <2>3. /\ SubSeq(t, from + 1, last) \in Seq(ToSet(t))
        /\ Len(SubSeq(t, from + 1, last)) = last - (from + 1) + 1
        /\ \A i \in 1 .. last - (from + 1) + 1 :
              SubSeq(t, from + 1, last)[i] = t[(from + 1) + i - 1]
    BY <2>1, <2>2, SubSeqProperties
  <2>4. /\ last - (from + 1) + 1 = last - from
        /\ \A i \in 1 .. last - from : (from + 1) + i - 1 = from + i
    BY <1>6
  <2>5. rows \in Seq(ToSet(t)) /\ Len(rows) = last - from
    BY <1>7, <2>3, <2>4
  <2>6. ASSUME NEW i \in 1 .. last - from
        PROVE  rows[i] = t[from + i]
    BY <1>7, <2>3, <2>4, <2>6
  <2> QED
    BY <2>5, <2>6
<1>10. /\ from + (last - from) <= l /\ 0 < last - from /\ last - from <= BatchSize
       /\ last - from < BatchSize => from + (last - from) = l
  <2>1. last <= to
    <3>1. \E x \in {to, l} : \A y \in {to, l} : x <= y
      BY <1>2, <1>3
    <3>2. \A y \in {to, l} : last <= y
      BY <1>4, <3>1, Zenon DEF Min
    <3> QED
      BY <3>2
  <2>2. BatchSize \in Nat
    BY EnsembleAssumption
  <2> QED
    BY <1>2, <1>3, <1>5, <1>6, <2>1, <2>2
<1>11. last - from \in Nat /\ DOMAIN rows = 1 .. last - from
  BY <1>6, <1>9
<1> QED
  BY <1>1, <1>2, <1>5, <1>6, <1>8, <1>9, <1>10, <1>11

LEMMA EnsembleStep == EnsembleInv /\ [EnsembleNext]_ensembleVars => EnsembleInv'
<1> SUFFICES ASSUME EnsembleInv, [EnsembleNext]_ensembleVars
             PROVE  EnsembleInv'
  OBVIOUS
<1>1. CASE UNCHANGED ensembleVars
  BY <1>1 DEF ensembleVars, EnsembleInv, CallOK, BatchOK, ResultsOK, FeatureTable, Scored, Voted
<1>2. ASSUME NEW table \in Tables, NEW log \in EventLogs,
             NEW detectors \in SUBSET (Names \ {"rule"}),
             NEW scalers \in SUBSET {"network", "process"},
             ScoreAllEntities(table, log, detectors, scalers)
      PROVE  EnsembleInv'
  <2>1. /\ call' = [table |-> table, log |-> log, detectors |-> detectors, scalers |-> scalers]
        /\ start' = 0 /\ net' = <<>> /\ proc' = <<>> /\ results' = <<>>
    BY <1>2 DEF ScoreAllEntities, EnsembleInv
  <2>2. call' # NoTable
    <3>1. "table" \in DOMAIN call' /\ "table" \notin DOMAIN NoTable
      BY <2>1 DEF NoTable
    <3> QED
      BY <3>1
  <2>3. CallOK'
    BY <2>1, NamesAre DEF CallOK
  <2>4. ResultsOK'
    <3>1. results' \in Seq({}) /\ DOMAIN results' = {}
      BY <2>1
    <3> QED
      BY <3>1 DEF ResultsOK
  <2>5. BatchOK'
    <3>1. FeatureTable' = table
      BY <2>1 DEF FeatureTable
    <3>2. Len(table) \in Nat
      BY TablesType
    <3>3. DOMAIN net' = 1 .. 0 /\ DOMAIN proc' = 1 .. 0 /\ Len(net') = 0 /\ Len(proc') = 0
          /\ Len(results') = 0
      BY <2>1
    <3> QED
      BY <2>1, <3>1, <3>2, <3>3 DEF BatchOK
  <2> QED
    BY <2>2, <2>3, <2>4, <2>5 DEF EnsembleInv
<1>3. CASE ScoreBatch
  <2>1. call # NoTable /\ CallOK /\ BatchOK /\ ResultsOK
    BY <1>3 DEF ScoreBatch, EnsembleInv
  <2>2. /\ call' = call /\ results' = results /\ start' = Len(results)
        /\ Len(results) < Len(FeatureTable) /\ Len(results) \in Nat
    BY <1>3, <2>1 DEF ScoreBatch, ResultsOK
  <2>3. PICK raises : /\ net' = BatchScores(BatchFrom(start'), "network", raises)
                      /\ proc' = BatchScores(BatchFrom(start'), "process", raises)
    BY <1>3 DEF ScoreBatch
  <2>4. PICK n \in Nat : /\ DOMAIN BatchFrom(start') = 1 .. n
                         /\ start' + n <= Len(FeatureTable)
                         /\ \A i \in 1 .. n : BatchFrom(start')[i] = FeatureTable[start' + i]
    BY <2>1, <2>2, BatchFacts
  <2>5. PICK rows : rows = BatchFrom(start')
    OBVIOUS
  <2>6. \A i \in 1 .. n : NetScore(rows[i]) \in 0 .. 100 /\ ProcScore(rows[i]) \in 0 .. 100
    <3>1. FeatureTable \in Tables
      BY <2>1 DEF CallOK, FeatureTable
    <3>2. \A i \in 1 .. n : start' + i \in DOMAIN FeatureTable
      BY <2>2, <2>4, <3>1, TablesType
    <3> QED
      BY <2>4, <2>5, <3>1, <3>2, RowTypes
  <2>7. \A i \in 1 .. n : Scored("network", net'[i]) /\ Scored("process", proc'[i])
    <3> SUFFICES ASSUME NEW i \in 1 .. n
                 PROVE  Scored("network", net'[i]) /\ Scored("process", proc'[i])
      OBVIOUS
    <3>1. \/ net'[i] = 0
          \/ "network" \in call.detectors /\ net'[i] = NetScore(rows[i])
      BY <2>3, <2>4, <2>5 DEF BatchScores
    <3>2. \/ proc'[i] = 0
          \/ "process" \in call.detectors /\ proc'[i] = ProcScore(rows[i])
      BY <2>3, <2>4, <2>5 DEF BatchScores
    <3> QED
      BY <2>6, <3>1, <3>2 DEF Scored
  <2>8. DOMAIN net' = 1 .. n /\ DOMAIN proc' = 1 .. n
    BY <2>3, <2>4 DEF BatchScores
  <2>9. Len(net') = n /\ Len(proc') = n
    BY <2>8
  <2>10. BatchOK'
    <3>1. \A i \in 1 .. n : Scored("network", net[i])' /\ Scored("process", proc[i])'
      BY <2>2, <2>7 DEF Scored
    <3>2. start' + n <= Len(FeatureTable')
      BY <2>2, <2>4 DEF FeatureTable
    <3> QED
      BY <2>2, <2>8, <2>9, <3>1, <3>2 DEF BatchOK
  <2> QED
    BY <2>1, <2>2, <2>10 DEF EnsembleInv, CallOK, ResultsOK, Voted
<1>4. CASE ScoreRow
  <2>1. call # NoTable /\ CallOK /\ BatchOK /\ ResultsOK
    BY <1>4 DEF ScoreRow, EnsembleInv
  <2>2. /\ call' = call /\ start' = start /\ net' = net /\ proc' = proc
    BY <1>4 DEF ScoreRow
  <2>3. PICK R : results \in Seq(R)
    BY <2>1 DEF ResultsOK
  <2>4. PICK n \in Nat : /\ DOMAIN net = 1 .. n /\ DOMAIN proc = 1 .. n
                         /\ Len(net) = n /\ Len(proc) = n /\ start + n <= Len(FeatureTable)
                         /\ \A i \in 1 .. n : Scored("network", net[i]) /\ Scored("process", proc[i])
    BY <2>1 DEF BatchOK
  <2>5. PICK k \in Nat : k = Len(results) /\ start <= k /\ k < start + n /\ start \in Nat
    BY <1>4, <2>1, <2>3, <2>4 DEF ScoreRow, BatchOK
  <2>6. PICK row : row = FeatureTable[k + 1]
    OBVIOUS
  <2>7. row.rule \in 0 .. 100
    <3>1. FeatureTable \in Tables
      BY <2>1 DEF CallOK, FeatureTable
    <3>2. k + 1 \in DOMAIN FeatureTable
      BY <2>4, <2>5, <3>1, TablesType
    <3> QED
      BY <2>6, <3>1, <3>2, RowTypes
  <2>8. PICK a, b, c :
           /\ a = net[k - start + 1] /\ b = proc[k - start + 1]
           /\ c = IF "sequence" \in call.detectors
                  THEN MaxSequenceScore(Windows(ActionsOf(call.log, row.entity))) ELSE 0
    OBVIOUS
  <2>9. Scored("network", a) /\ Scored("process", b) /\ Scored("sequence", c)
    <3>1. k - start + 1 \in 1 .. n
      BY <2>5
    <3>2. c \in 0 .. 100
      BY <2>1, <2>8, HistoryType DEF CallOK
    <3> QED
      BY <2>4, <2>8, <3>1, <3>2 DEF Scored
  <2>10. PICK scores : scores = [network |-> a, process |-> b, sequence |-> c, rule |-> row.rule]
    OBVIOUS
  <2>11. Ballot(scores, call.detectors)
    BY <2>7, <2>9, <2>10, NamesAre DEF Ballot, Scored
  <2>12. PICK verdict : verdict = Verdict(row, scores, call.detectors)
    OBVIOUS
  <2>13. Voted(verdict)
    <3>1. /\ verdict.scores = scores
          /\ verdict.recommendation
                = Recommendation(Threat(scores, Weights(call.detectors)), Consensus(scores))
      BY <2>12 DEF Verdict
    <3> QED
      BY <2>11, <3>1 DEF Voted
  <2>14. results' = Append(results, verdict)
    BY <1>4, <2>5, <2>6, <2>8, <2>10, <2>12 DEF ScoreRow, RowScore
  <2>15. ResultsOK'
    <3>1. results' \in Seq(R \union {verdict})
      BY <2>3, <2>14
    <3>2. \A i \in DOMAIN results' :
             (i \in DOMAIN results /\ results'[i] = results[i]) \/ results'[i] = verdict
      BY <2>3, <2>14
    <3>3. \A i \in DOMAIN results' : Voted(results'[i])
      BY <2>1, <2>13, <3>2 DEF ResultsOK
    <3> QED
      BY <2>2, <3>1, <3>3 DEF ResultsOK, Voted
  <2>16. BatchOK'
    <3>1. Len(results') = k + 1
      BY <2>3, <2>5, <2>14
    <3>2. \A i \in 1 .. n : Scored("network", net[i])' /\ Scored("process", proc[i])'
      BY <2>2, <2>4 DEF Scored
    <3>3. start' + n <= Len(FeatureTable')
      BY <2>2, <2>4 DEF FeatureTable
    <3>4. start' \in Nat /\ start' <= Len(results')
      BY <2>2, <2>5, <3>1
    <3>5. /\ DOMAIN net' = 1 .. n /\ DOMAIN proc' = 1 .. n
          /\ Len(net') = n /\ Len(proc') = n
      BY <2>2, <2>4
    <3> QED
      BY <3>2, <3>3, <3>4, <3>5 DEF BatchOK
  <2> QED
    BY <2>1, <2>2, <2>15, <2>16 DEF EnsembleInv, CallOK
<1> QED
  BY <1>1, <1>2, <1>3, <1>4 DEF EnsembleNext

\* Nobody is called safe whom one detector finds highly suspicious, with any of
\* the detectors absent and whatever they learned (get_recommendation,
\* compute_consensus_level, get_effective_weights).
THEOREM SafeNeverHides == EnsembleSpec => []SafeHidesNothing
<1>1. EnsembleInv => SafeHidesNothing
  <2> SUFFICES ASSUME EnsembleInv, NEW i \in DOMAIN results, results[i].recommendation = "SAFE"
               PROVE  \A m \in Names : results[i].scores[m] < 60
    BY DEF SafeHidesNothing
  <2>1. CallOK /\ Voted(results[i])
    BY DEF EnsembleInv, ResultsOK
  <2> QED
    BY <2>1, SafeIsLow DEF CallOK, Voted
<1> QED
  BY <1>1, EnsembleStart, EnsembleStep, PTL DEF EnsembleSpec

-----------------------------------------------------------------------------
(* Histories: what build_event_sequences makes of an entity's events are the *)
(* stretches of its history.                                                 *)

Own(log, entity) == {i \in DOMAIN log : log[i].entity = entity}
EarlierIn(log, S, i) == {j \in S : log[j].at < log[i].at}

\* q lists the n events of the set in order of time.
Ordered(log, S, n, q) ==
    /\ n \in Nat /\ q \in [1 .. n -> S]
    /\ \A i \in S : \E k \in 1 .. n : q[k] = i
    /\ \A j, k \in 1 .. n : log[q[j]].at < log[q[k]].at <=> j < k

Part(q, a, b) == {q[k] : k \in a .. b}

\* No other event of the set is between them.
Unbroken(log, S, s) ==
    \A k \in S \ s : \A i, j \in s : ~(log[i].at < log[k].at /\ log[k].at < log[j].at)

\* The events of an entity can be listed: the number of those before is the
\* place.
LEMMA EventsHaveAnOrder ==
    ASSUME NEW log \in EventLogs, NEW entity, NEW own, own = Own(log, entity)
    PROVE  \E q : /\ Ordered(log, own, Cardinality(own), q)
                  /\ \A k \in 1 .. Cardinality(own) :
                        Cardinality(EarlierIn(log, own, q[k])) = k - 1
<1>1. IsFiniteSet(own)
  BY EnsembleAssumption, FS_Subset DEF Own
<1>2. PICK n \in Nat : n = Cardinality(own)
  BY <1>1, FS_CardinalityType
<1>3. \A i, j \in own : log[i].at \in Int /\ (log[i].at = log[j].at => i = j)
  BY EnsembleAssumption DEF Own
<1>4. \A i \in own : EarlierIn(log, own, i) \in SUBSET own /\ i \notin EarlierIn(log, own, i)
  BY <1>3 DEF EarlierIn
<1>5. \A i \in own : /\ IsFiniteSet(EarlierIn(log, own, i))
                     /\ Cardinality(EarlierIn(log, own, i)) \in Nat
                     /\ Cardinality(EarlierIn(log, own, i)) < n
  <2> SUFFICES ASSUME NEW i \in own
               PROVE  /\ IsFiniteSet(EarlierIn(log, own, i))
                      /\ Cardinality(EarlierIn(log, own, i)) \in Nat
                      /\ Cardinality(EarlierIn(log, own, i)) < n
    OBVIOUS
  <2>1. PICK S : S = EarlierIn(log, own, i)
    OBVIOUS
  <2>2. S \in SUBSET own /\ S # own
    BY <1>4, <2>1
  <2>3. IsFiniteSet(S) /\ Cardinality(S) <= n /\ Cardinality(S) # n
    BY <1>1, <1>2, <2>2, FS_Subset
  <2>4. Cardinality(S) \in Nat
    BY <2>3, FS_CardinalityType
  <2> QED
    BY <1>2, <2>1, <2>3, <2>4
<1>6. ASSUME NEW i \in own, NEW j \in own, log[i].at < log[j].at
      PROVE  Cardinality(EarlierIn(log, own, i)) < Cardinality(EarlierIn(log, own, j))
  <2>1. PICK S, T : S = EarlierIn(log, own, i) /\ T = EarlierIn(log, own, j)
    OBVIOUS
  <2>2. S \in SUBSET T /\ S # T
    BY <1>3, <1>6, <2>1 DEF EarlierIn
  <2>3. Cardinality(S) <= Cardinality(T) /\ Cardinality(S) # Cardinality(T)
    BY <1>5, <2>1, <2>2, FS_Subset
  <2> QED
    BY <1>5, <2>1, <2>3
<1>7. PICK f : f = [i \in own |-> Cardinality(EarlierIn(log, own, i)) + 1]
  OBVIOUS
<1>8. /\ f \in [own -> 1 .. n]
      /\ \A i \in own : Cardinality(EarlierIn(log, own, i)) = f[i] - 1
      /\ \A i, j \in own : log[i].at < log[j].at => f[i] < f[j]
  <2>1. \A i \in own : /\ f[i] = Cardinality(EarlierIn(log, own, i)) + 1
                       /\ f[i] \in 1 .. n
                       /\ Cardinality(EarlierIn(log, own, i)) = f[i] - 1
    BY <1>5, <1>7
  <2>2. f \in [own -> 1 .. n]
    BY <1>7, <2>1
  <2>3. \A i, j \in own : log[i].at < log[j].at => f[i] < f[j]
    BY <1>5, <1>6, <2>1
  <2> QED
    BY <2>1, <2>2, <2>3
<1>9. f \in Surjection(own, 1 .. n)
  <2>1. f \in Injection(own, 1 .. n)
    <3>1. ASSUME NEW i \in own, NEW j \in own, f[i] = f[j]
          PROVE  i = j
      <4>1. ~(f[i] < f[j]) /\ ~(f[j] < f[i])
        BY <1>8, <3>1
      <4>2. ~(log[i].at < log[j].at) /\ ~(log[j].at < log[i].at)
        BY <1>8, <4>1
      <4> QED
        BY <1>3, <4>2
    <3> QED
      BY <1>8, <3>1 DEF Injection, IsInjective
  <2>2. IsFiniteSet(1 .. n) /\ Cardinality(1 .. n) = n
    BY FS_Interval
  <2> QED
    BY <1>2, <2>1, <2>2, FS_Injection
<1>10. PICK q : q = [k \in 1 .. n |-> CHOOSE i \in own : f[i] = k]
  OBVIOUS
<1>11. \A k \in 1 .. n : q[k] \in own /\ f[q[k]] = k
  BY <1>9, <1>10 DEF Surjection
<1>12. \A i \in own : q[f[i]] = i
  <2> SUFFICES ASSUME NEW i \in own
               PROVE  q[f[i]] = i
    OBVIOUS
  <2>1. f[i] \in 1 .. n /\ q[f[i]] \in own /\ f[q[f[i]]] = f[i]
    BY <1>8, <1>11
  <2>2. ~(f[i] < f[q[f[i]]]) /\ ~(f[q[f[i]]] < f[i])
    BY <2>1
  <2>3. ~(log[i].at < log[q[f[i]]].at) /\ ~(log[q[f[i]]].at < log[i].at)
    BY <1>8, <2>1, <2>2
  <2> QED
    BY <1>3, <2>1, <2>3
<1>13. ASSUME NEW j \in 1 .. n, NEW k \in 1 .. n
       PROVE  log[q[j]].at < log[q[k]].at <=> j < k
  <2>1. log[q[j]].at < log[q[k]].at => j < k
    BY <1>8, <1>11
  <2>2. log[q[k]].at < log[q[j]].at => k < j
    BY <1>8, <1>11
  <2>3. log[q[j]].at = log[q[k]].at => j = k
    BY <1>3, <1>11
  <2>4. log[q[j]].at \in Int /\ log[q[k]].at \in Int
    BY <1>3, <1>11
  <2> QED
    BY <2>1, <2>2, <2>3, <2>4
<1>14. Ordered(log, own, n, q)
  <2>1. q \in [1 .. n -> own]
    BY <1>10, <1>11
  <2>2. \A i \in own : \E k \in 1 .. n : q[k] = i
    BY <1>8, <1>12
  <2> QED
    BY <1>13, <2>1, <2>2 DEF Ordered
<1>15. \A k \in 1 .. n : Cardinality(EarlierIn(log, own, q[k])) = k - 1
  BY <1>8, <1>11
<1> QED
  BY <1>2, <1>14, <1>15

\* A part of the list has as many events as places.
LEMMA PartSize ==
    ASSUME NEW log, NEW S, NEW n, NEW q, Ordered(log, S, n, q),
           NEW a \in 1 .. n + 1, NEW b \in 0 .. n, a <= b + 1
    PROVE  IsFiniteSet(Part(q, a, b)) /\ Cardinality(Part(q, a, b)) = b - a + 1
<1>1. n \in Nat /\ \A j, k \in 1 .. n : j # k => q[j] # q[k]
  <2>1. \A j, k \in 1 .. n : log[q[j]].at < log[q[k]].at <=> j < k
    BY DEF Ordered
  <2>2. n \in Nat
    BY DEF Ordered
  <2> QED
    BY <2>1, <2>2
<1>2. PICK g : g = [k \in a .. b |-> q[k]]
  OBVIOUS
<1>3. \A k \in a .. b : k \in 1 .. n
  BY <1>1
<1>4. g \in [a .. b -> Part(q, a, b)] /\ \A k \in a .. b : g[k] = q[k]
  BY <1>2 DEF Part
<1>5. \A i \in Part(q, a, b) : \E k \in a .. b : g[k] = i
  BY <1>4 DEF Part
<1>6. g \in Bijection(a .. b, Part(q, a, b))
  BY <1>1, <1>3, <1>4, <1>5 DEF Bijection, Injection, Surjection, IsInjective
<1>7. IsFiniteSet(a .. b) /\ Cardinality(a .. b) = b - a + 1
  <2>1. a \in Int /\ b \in Int
    BY <1>1
  <2>2. a > b => b - a + 1 = 0
    BY <1>1
  <2> QED
    BY <2>1, <2>2, FS_Interval
<1> QED
  BY <1>6, <1>7, FS_Bijection DEF ExistsBijection

\* Within a part, an event's place is the number of those before it.
LEMMA PartOrder ==
    ASSUME NEW log, NEW S, NEW n, NEW q, Ordered(log, S, n, q),
           NEW a \in 1 .. n, NEW b \in 1 .. n, NEW k \in a .. b
    PROVE  Cardinality(EarlierIn(log, Part(q, a, b), q[k])) = k - a
<1>1. n \in Nat /\ \A m \in a .. b : m \in 1 .. n
  BY DEF Ordered
<1>2. \A m \in a .. b : log[q[m]].at < log[q[k]].at <=> m < k
  BY <1>1 DEF Ordered
<1>3. EarlierIn(log, Part(q, a, b), q[k]) = Part(q, a, k - 1)
  <2>1. ASSUME NEW i \in EarlierIn(log, Part(q, a, b), q[k])
        PROVE  i \in Part(q, a, k - 1)
    <3>1. PICK m \in a .. b : i = q[m]
      BY DEF EarlierIn, Part
    <3>2. log[q[m]].at < log[q[k]].at
      BY <3>1 DEF EarlierIn
    <3>3. m \in a .. k - 1
      BY <1>1, <1>2, <3>2
    <3> QED
      BY <3>1, <3>3 DEF Part
  <2>2. ASSUME NEW i \in Part(q, a, k - 1)
        PROVE  i \in EarlierIn(log, Part(q, a, b), q[k])
    <3>1. PICK m \in a .. k - 1 : i = q[m]
      BY DEF Part
    <3>2. m \in a .. b /\ m < k
      BY <1>1, <3>1
    <3> QED
      BY <1>2, <3>1, <3>2 DEF EarlierIn, Part
  <2> QED
    BY <2>1, <2>2
<1>4. /\ a \in 1 .. n + 1 /\ k - 1 \in 0 .. n /\ a <= (k - 1) + 1
      /\ (k - 1) - a + 1 = k - a
  BY <1>1
<1> QED
  BY <1>3, <1>4, PartSize

\* The actions of a part of the list, in order of time.
InTime(log, S, width) ==
    [r \in 1 .. width |->
        log[CHOOSE i \in S : 1 + Cardinality({j \in S : log[j].at < log[i].at}) = r].action]

Listed(log, q, a, width) == [r \in 1 .. width |-> log[q[a + r - 1]].action]

LEMMA PartInTime ==
    ASSUME NEW log, NEW S, NEW n, NEW q, Ordered(log, S, n, q),
           NEW a \in 1 .. n, NEW b \in 1 .. n, a <= b, NEW w, w = b - a + 1
    PROVE  InTime(log, Part(q, a, b), w) = Listed(log, q, a, w)
<1>1. n \in Nat
  BY DEF Ordered
<1>2. PICK P : P = Part(q, a, b)
  OBVIOUS
<1>3. \A i \in P : \E k \in a .. b : i = q[k]
  BY <1>2 DEF Part
<1>4. \A k \in a .. b : q[k] \in P
  BY <1>2 DEF Part
<1>5. \A k \in a .. b : Cardinality({j \in P : log[j].at < log[q[k]].at}) = k - a
  BY <1>2, PartOrder DEF EarlierIn
<1>6. ASSUME NEW r \in 1 .. w
      PROVE  (CHOOSE i \in P : 1 + Cardinality({j \in P : log[j].at < log[i].at}) = r)
                = q[a + r - 1]
  <2>1. a + r - 1 \in a .. b
    BY <1>1
  <2>2. q[a + r - 1] \in P
        /\ 1 + Cardinality({j \in P : log[j].at < log[q[a + r - 1]].at}) = r
    <3>1. 1 + ((a + r - 1) - a) = r
      BY <1>1
    <3> QED
      BY <1>4, <1>5, <2>1, <3>1
  <2>3. ASSUME NEW i \in P, 1 + Cardinality({j \in P : log[j].at < log[i].at}) = r
        PROVE  i = q[a + r - 1]
    <3>1. PICK k \in a .. b : i = q[k]
      BY <1>3
    <3>2. 1 + (k - a) = r
      BY <1>5, <2>3, <3>1
    <3>3. k = a + r - 1
      BY <1>1, <3>2
    <3> QED
      BY <3>1, <3>3
  <2> QED
    BY <2>2, <2>3
<1>7. PICK f, g : /\ f = [r \in 1 .. w |->
                            CHOOSE i \in P : 1 + Cardinality({j \in P : log[j].at < log[i].at}) = r]
                  /\ g = [r \in 1 .. w |-> q[a + r - 1]]
  OBVIOUS
<1>8. \A r \in 1 .. w : f[r] = g[r]
  BY <1>6, <1>7
<1>9. InTime(log, P, w) = [r \in 1 .. w |-> log[f[r]].action]
  BY <1>7 DEF InTime
<1>10. Listed(log, q, a, w) = [r \in 1 .. w |-> log[g[r]].action]
  BY <1>7 DEF Listed
<1>11. [r \in 1 .. w |-> log[f[r]].action] = [r \in 1 .. w |-> log[g[r]].action]
  BY <1>8
<1> QED
  BY <1>2, <1>9, <1>10, <1>11

\* Events with no other of the set between them are a part of the list.
LEMMA UnbrokenIsPart ==
    ASSUME NEW log, NEW S, NEW n, NEW q, Ordered(log, S, n, q),
           NEW s \in SUBSET S, s # {}, Unbroken(log, S, s)
    PROVE  \E a, b \in 1 .. n : a <= b /\ s = Part(q, a, b)
<1>1. /\ n \in Nat /\ q \in [1 .. n -> S]
      /\ \A i \in S : \E k \in 1 .. n : q[k] = i
      /\ \A j, k \in 1 .. n : log[q[j]].at < log[q[k]].at <=> j < k
  BY DEF Ordered
<1>2. PICK K : K = {k \in 1 .. n : q[k] \in s}
  OBVIOUS
<1>3. K \in SUBSET Nat /\ K # {}
  BY <1>1, <1>2
<1>4. PICK a \in K : \A k \in K : a <= k
  BY <1>3, LeastNumber
<1>5. PICK B : B = {m \in Nat : \A k \in K : k <= m}
  OBVIOUS
<1>6. PICK b \in B : \A m \in B : b <= m
  <2>1. n \in B
    BY <1>1, <1>2, <1>5
  <2> QED
    BY <1>5, <2>1, LeastNumber
<1>7. b \in K
  <2> SUFFICES ASSUME b \notin K
               PROVE  FALSE
    OBVIOUS
  <2>1. b \in Nat /\ \A k \in K : k <= b /\ k # b /\ k \in Nat
    BY <1>3, <1>5, <1>6
  <2>2. a < b /\ a \in Nat
    BY <2>1
  <2>3. b - 1 \in B
    BY <1>5, <2>1, <2>2
  <2> QED
    BY <1>6, <2>1, <2>3
<1>8. a \in 1 .. n /\ b \in 1 .. n /\ a <= b /\ \A k \in K : a <= k /\ k <= b
  BY <1>2, <1>4, <1>5, <1>6, <1>7
<1>9. ASSUME NEW k \in a .. b
      PROVE  q[k] \in s
  <2>1. k \in 1 .. n
    BY <1>1, <1>8
  <2>2. q[a] \in s /\ q[b] \in s
    BY <1>2, <1>4, <1>7
  <2>3. CASE k = a \/ k = b
    BY <2>2, <2>3
  <2>4. CASE a < k /\ k < b
    <3>1. log[q[a]].at < log[q[k]].at /\ log[q[k]].at < log[q[b]].at
      BY <1>1, <1>8, <2>1, <2>4
    <3>2. q[k] \in S
      BY <1>1, <2>1
    <3> QED
      BY <2>2, <3>1, <3>2 DEF Unbroken
  <2> QED
    BY <1>1, <1>8, <2>3, <2>4
<1>10. s = Part(q, a, b)
  <2>1. ASSUME NEW i \in s
        PROVE  i \in Part(q, a, b)
    <3>1. PICK k \in 1 .. n : q[k] = i
      BY <1>1
    <3>2. k \in a .. b
      BY <1>1, <1>2, <1>8, <3>1
    <3> QED
      BY <3>1, <3>2 DEF Part
  <2>2. ASSUME NEW i \in Part(q, a, b)
        PROVE  i \in s
    BY <1>9 DEF Part
  <2> QED
    BY <2>1, <2>2
<1> QED
  BY <1>8, <1>10

\* A part of the list is unbroken.
LEMMA PartIsUnbroken ==
    ASSUME NEW log, NEW S, NEW n, NEW q, Ordered(log, S, n, q),
           NEW a \in 1 .. n, NEW b \in 1 .. n, a <= b
    PROVE  Part(q, a, b) \subseteq S /\ Part(q, a, b) # {} /\ Unbroken(log, S, Part(q, a, b))
<1>1. /\ n \in Nat /\ q \in [1 .. n -> S]
      /\ \A i \in S : \E k \in 1 .. n : q[k] = i
      /\ \A j, k \in 1 .. n : log[q[j]].at < log[q[k]].at <=> j < k
  BY DEF Ordered
<1>2. \A k \in a .. b : k \in 1 .. n
  BY <1>1
<1>3. Part(q, a, b) \in SUBSET S
  BY <1>1, <1>2 DEF Part
<1>4. q[a] \in Part(q, a, b)
  BY <1>1 DEF Part
<1>5. Unbroken(log, S, Part(q, a, b))
  <2> SUFFICES ASSUME NEW k \in S \ Part(q, a, b), NEW i \in Part(q, a, b),
                      NEW j \in Part(q, a, b), log[i].at < log[k].at, log[k].at < log[j].at
               PROVE  FALSE
    BY DEF Unbroken
  <2>1. PICK x \in 1 .. n, y \in a .. b, z \in a .. b : k = q[x] /\ i = q[y] /\ j = q[z]
    BY <1>1 DEF Part
  <2>2. y < x /\ x < z
    BY <1>1, <1>2, <2>1
  <2>3. x \in a .. b
    BY <1>1, <2>1, <2>2
  <2> QED
    BY <2>1, <2>3 DEF Part
<1> QED
  BY <1>3, <1>4, <1>5

\* build_event_sequences: the windows over the sorted events are the stretches
\* of the history, each once.
LEMMA HistoryIsStretches ==
    ASSUME NEW log \in EventLogs, NEW entity
    PROVE  Windows(ActionsOf(log, entity)) = Stretches(log, entity)
<1>1. PICK own : own = Own(log, entity)
  OBVIOUS
<1>2. IsFiniteSet(own) /\ Cardinality(own) \in Nat
  <2>1. IsFiniteSet(own)
    BY <1>1, EnsembleAssumption, FS_Subset DEF Own
  <2> QED
    BY <2>1, FS_CardinalityType
<1>3. PICK n \in Nat : n = Cardinality(own)
  BY <1>2
<1>4. PICK q : /\ Ordered(log, own, n, q)
               /\ \A k \in 1 .. n : Cardinality(EarlierIn(log, own, q[k])) = k - 1
  BY <1>1, <1>3, EventsHaveAnOrder
<1>5. PICK L \in Nat : L = SequenceLen /\ L > 0
  BY EnsembleAssumption
<1>6. PICK w : w = Min({SequenceLen, n})
  OBVIOUS
<1>7. w \in Nat /\ w <= n /\ (n < L => w = n) /\ (~(n < L) => w = L)
  <2>1. \E x \in {L, n} : \A y \in {L, n} : x <= y
    BY <1>5
  <2>2. w \in {L, n} /\ \A y \in {L, n} : w <= y
    BY <1>5, <1>6, <2>1, Zenon DEF Min
  <2> QED
    BY <1>5, <2>2
<1>8. /\ q \in [1 .. n -> own]
      /\ \A i \in own : \E k \in 1 .. n : q[k] = i
      /\ \A j, k \in 1 .. n : log[q[j]].at < log[q[k]].at <=> j < k
  BY <1>4 DEF Ordered
<1>9. PICK acts : acts = [k \in 1 .. n |-> log[q[k]].action]
  OBVIOUS
<1>10. ActionsOf(log, entity) = acts
  <2>1. \A i \in own : EarlierIn(log, own, i) = {j \in own : log[j].at < log[i].at}
    BY DEF EarlierIn
  <2>2. ASSUME NEW k \in 1 .. n
        PROVE  (CHOOSE i \in own : Cardinality({j \in own : log[j].at < log[i].at}) = k - 1)
                  = q[k]
    <3>1. q[k] \in own /\ Cardinality({j \in own : log[j].at < log[q[k]].at}) = k - 1
      BY <1>4, <1>8, <2>1
    <3>2. ASSUME NEW i \in own, Cardinality({j \in own : log[j].at < log[i].at}) = k - 1
          PROVE  i = q[k]
      <4>1. PICK m \in 1 .. n : q[m] = i
        BY <1>8
      <4>2. m - 1 = k - 1
        BY <1>4, <2>1, <3>2, <4>1
      <4> QED
        BY <4>1, <4>2
    <3> QED
      BY <3>1, <3>2
  <2>3. PICK f : f = [k \in 1 .. n |->
                         CHOOSE i \in own : Cardinality({j \in own : log[j].at < log[i].at}) = k - 1]
    OBVIOUS
  <2>4. \A k \in 1 .. n : f[k] = q[k]
    BY <2>2, <2>3
  <2>5. ActionsOf(log, entity) = [k \in 1 .. n |-> log[f[k]].action]
    BY <1>1, <1>3, <2>3 DEF ActionsOf, Own
  <2> QED
    BY <1>9, <2>4, <2>5
<1>11. PICK A : A = {acts[k] : k \in 1 .. n}
  OBVIOUS
<1>12. acts \in Seq(A) /\ Len(acts) = n
  BY <1>9, <1>11
<1>13. ASSUME NEW a \in 1 .. n, NEW b \in 1 .. n, a <= b, b - a + 1 = w
       PROVE  SubSeq(acts, a, b) = InTime(log, Part(q, a, b), w)
  <2>1. \A k \in a .. b : acts[k] \in A /\ k \in 1 .. n
    BY <1>11
  <2>2. /\ SubSeq(acts, a, b) \in Seq(A)
        /\ Len(SubSeq(acts, a, b)) = w
        /\ \A r \in 1 .. w : SubSeq(acts, a, b)[r] = acts[a + r - 1]
    <3>1. a \in Int /\ b \in Int
      OBVIOUS
    <3> QED
      BY <1>13, <2>1, <3>1, SubSeqProperties
  <2>3. PICK x : x = SubSeq(acts, a, b)
    OBVIOUS
  <2>4. x = [r \in 1 .. w |-> x[r]]
    BY <2>2, <2>3
  <2>5. \A r \in 1 .. w : x[r] = log[q[a + r - 1]].action
    <3> SUFFICES ASSUME NEW r \in 1 .. w
                 PROVE  x[r] = log[q[a + r - 1]].action
      OBVIOUS
    <3>1. a + r - 1 \in a .. b
      BY <1>7, <1>13
    <3>2. a + r - 1 \in 1 .. n
      BY <2>1, <3>1
    <3>3. acts[a + r - 1] = log[q[a + r - 1]].action
      BY <1>9, <3>2
    <3> QED
      BY <2>2, <2>3, <3>3
  <2>6. x = [r \in 1 .. w |-> log[q[a + r - 1]].action]
    BY <2>4, <2>5
  <2>7. InTime(log, Part(q, a, b), w) = Listed(log, q, a, w)
    BY <1>4, <1>13, PartInTime
  <2> QED
    BY <2>3, <2>6, <2>7 DEF Listed
\* Both are the parts of the list that have the width.
<1>14. PICK P : P = {SubSeq(acts, a, a + w - 1) : a \in {a \in 1 .. n : a + w - 1 <= n /\ w > 0}}
  OBVIOUS
<1>15. Windows(acts) = P
  <2>1. CASE n < L
    <3>1. Windows(acts) = {acts} \ {<<>>}
      BY <1>5, <1>12, <2>1 DEF Windows
    <3>2. CASE n = 0
      BY <1>7, <1>9, <1>14, <2>1, <3>1, <3>2
    <3>3. CASE n # 0
      <4>1. {a \in 1 .. n : a + w - 1 <= n /\ w > 0} = {1}
        BY <1>7, <2>1, <3>3
      <4>2. P = {SubSeq(acts, 1, 1 + w - 1)}
        BY <1>14, <4>1
      <4>3. 1 + w - 1 = n
        BY <1>7, <2>1
      <4>4. SubSeq(acts, 1, n) = acts
        BY <1>12
      <4>5. acts # <<>>
        BY <1>12, <3>3
      <4> QED
        BY <3>1, <4>2, <4>3, <4>4, <4>5
    <3> QED
      BY <3>2, <3>3
  <2>2. CASE ~(n < L)
    <3>1. Windows(acts) = {SubSeq(acts, a, a + L - 1) : a \in 1 .. n - L + 1}
      BY <1>5, <1>12, <2>2 DEF Windows
    <3>2. {a \in 1 .. n : a + w - 1 <= n /\ w > 0} = 1 .. n - L + 1
      BY <1>5, <1>7, <2>2
    <3> QED
      BY <1>7, <1>14, <2>2, <3>1, <3>2
  <2> QED
    BY <2>1, <2>2
<1>16. PICK U : U = {s \in (SUBSET own) \ {{}} :
                       Cardinality(s) = w /\ Unbroken(log, own, s)}
  OBVIOUS
<1>17. Stretches(log, entity) = {InTime(log, s, w) : s \in U}
  BY <1>1, <1>3, <1>6, <1>16 DEF Stretches, InTime, Own, Unbroken
<1>18. PICK V : V = {InTime(log, s, w) : s \in U}
  OBVIOUS
<1>19. ASSUME NEW a \in 1 .. n, a + w - 1 <= n, w > 0
       PROVE  SubSeq(acts, a, a + w - 1) \in V
  <2>1. PICK b \in 1 .. n : b = a + w - 1 /\ a <= b /\ b - a + 1 = w
    BY <1>7, <1>19
  <2>2. Part(q, a, b) \subseteq own /\ Part(q, a, b) # {} /\ Unbroken(log, own, Part(q, a, b))
    BY <1>4, <2>1, PartIsUnbroken
  <2>3. Cardinality(Part(q, a, b)) = w
    <3>1. a \in 1 .. n + 1 /\ b \in 0 .. n /\ a <= b + 1
      BY <2>1
    <3> QED
      BY <1>4, <2>1, <3>1, PartSize
  <2>4. Part(q, a, b) \in U
    <3>1. PICK part : part = Part(q, a, b)
      OBVIOUS
    <3>2. part \in SUBSET own /\ part # {} /\ Cardinality(part) = w /\ Unbroken(log, own, part)
      BY <2>2, <2>3, <3>1
    <3>3. part \in (SUBSET own) \ {{}}
      BY <3>2
    <3>4. part \in U
      BY <1>16, <3>2, <3>3
    <3> QED
      BY <3>1, <3>4
  <2>5. SubSeq(acts, a, a + w - 1) = InTime(log, Part(q, a, b), w)
    BY <1>13, <2>1
  <2> QED
    BY <1>18, <2>4, <2>5
<1>20. ASSUME NEW s \in U
       PROVE  InTime(log, s, w) \in P
  <2>1. s \in SUBSET own /\ s # {} /\ Cardinality(s) = w /\ Unbroken(log, own, s)
    <3>1. s \in (SUBSET own) \ {{}} /\ Cardinality(s) = w /\ Unbroken(log, own, s)
      BY <1>16
    <3> QED
      BY <3>1
  <2>2. PICK a \in 1 .. n, b \in 1 .. n : a <= b /\ s = Part(q, a, b)
    BY <1>4, <2>1, UnbrokenIsPart
  <2>3. b - a + 1 = w
    <3>1. a \in 1 .. n + 1 /\ b \in 0 .. n /\ a <= b + 1
      BY <2>2
    <3>2. Cardinality(Part(q, a, b)) = b - a + 1
      BY <1>4, <3>1, PartSize
    <3> QED
      BY <2>1, <2>2, <3>2
  <2>4. a + w - 1 = b /\ w > 0
    BY <1>7, <2>2, <2>3
  <2>5. SubSeq(acts, a, a + w - 1) = InTime(log, s, w)
    BY <1>13, <2>2, <2>3, <2>4
  <2>6. a + w - 1 <= n
    BY <2>4
  <2> QED
    BY <1>14, <2>4, <2>5, <2>6
<1>21. P = V
  BY <1>14, <1>18, <1>19, <1>20
<1> QED
  BY <1>10, <1>15, <1>17, <1>21, <1>18

\* Where the batch of a row starts.
FromOf(i) == BatchSize * ((i - 1) \div BatchSize)

LEMMA FromFacts ==
    ASSUME NEW i \in Nat \ {0}
    PROVE  /\ FromOf(i) \in Nat /\ FromOf(i) < i
           /\ \A q \in Nat : BatchSize * q < i /\ i <= BatchSize * q + BatchSize
                 => FromOf(i) = BatchSize * q
<1>1. PICK B \in Nat : B = BatchSize /\ B > 0
  BY EnsembleAssumption
<1>2. PICK p \in Nat, r \in Nat : i - 1 = p * B + r /\ r < B /\ p = (i - 1) \div B
  BY <1>1
<1>3. FromOf(i) = B * p
  BY <1>1, <1>2 DEF FromOf
<1>4. B * p \in Nat /\ B * p = p * B
  BY <1>1
<1>5. ASSUME NEW q \in Nat, B * q < i, i <= B * q + B
      PROVE  p = q
  <2>1. CASE p < q
    <3>1. B * q >= B * p + B
      BY <1>1, <2>1
    <3> QED
      BY <1>1, <1>2, <1>4, <1>5, <3>1
  <2>2. CASE q < p
    <3>1. B * p >= B * q + B
      BY <1>1, <2>2
    <3> QED
      BY <1>1, <1>2, <1>4, <1>5, <3>1
  <2> QED
    BY <2>1, <2>2
<1> QED
  BY <1>1, <1>2, <1>3, <1>4, <1>5

\* Detectors that raised in a batch.
LostIn(from) == {m \in Names : <<from, m>> \in broken}

\* What the batch has for a row: zero if it raised, or cannot be asked.
InBatch(name, from, score) ==
    IF name \in call.detectors \intersect call.scalers /\ name \notin LostIn(from)
    THEN score ELSE 0

\* The batches are cut at the multiples of BatchSize, the one under way has the
\* scores of its rows, and what raised did so in a batch that was begun.
CutsOK ==
    /\ \E q \in Nat : start = BatchSize * q
    /\ Len(net) <= BatchSize
    /\ start + Len(net) < Len(FeatureTable) =>
          Len(net) = BatchSize \/ (Len(net) = 0 /\ start = 0)
    /\ \A i \in 1 .. Len(net) :
          /\ net[i] = InBatch("network", start, NetScore(FeatureTable[start + i]))
          /\ proc[i] = InBatch("process", start, ProcScore(FeatureTable[start + i]))

BrokenOK ==
    \A b \in broken : \E f \in Nat, m \in {"network", "process"} :
        b = <<f, m>> /\ f < start + Len(net)

\* The property, for one row.
Agrees(i) ==
    LET single == ScoreEntity(FeatureTable[i], Stretches(call.log, FeatureTable[i].entity))
        lost == LostIn(FromOf(i))
        r == results[i]
    IN  /\ r.entity_key = single.entity_key
        /\ \A m \in Names : r.scores[m] = IF m \in lost THEN 0 ELSE single.scores[m]
        /\ lost = {} => r.threat = single.threat /\ r.level = single.level

BatchInv ==
    /\ EnsembleInv
    /\ call = NoTable => broken = {}
    /\ call # NoTable => /\ call.scalers \subseteq {"network", "process"}
                         /\ CutsOK /\ BrokenOK
                         /\ \A i \in DOMAIN results : Agrees(i)

LEMMA BatchStart == EnsembleInit => BatchInv
BY EnsembleStart DEF EnsembleInit, BatchInv

LEMMA BatchBegins ==
    ASSUME BatchInv, NEW table \in Tables, NEW log \in EventLogs,
           NEW detectors \in SUBSET (Names \ {"rule"}), NEW scalers \in SUBSET {"network", "process"},
           ScoreAllEntities(table, log, detectors, scalers)
    PROVE  (call # NoTable => /\ call.scalers \subseteq {"network", "process"}
                              /\ CutsOK /\ BrokenOK
                              /\ \A i \in DOMAIN results : Agrees(i))'
<1>1. /\ call' = [table |-> table, log |-> log, detectors |-> detectors, scalers |-> scalers]
      /\ start' = 0 /\ net' = <<>> /\ proc' = <<>> /\ results' = <<>> /\ broken' = {}
  BY DEF ScoreAllEntities, BatchInv, EnsembleInv
<1>2. Len(net') = 0 /\ DOMAIN results' = {}
  BY <1>1
<1>3. CutsOK'
  <2>1. PICK B \in Nat : B = BatchSize
    BY EnsembleAssumption
  <2>2. start' = B * 0 /\ 0 \in Nat
    BY <1>1, <2>1
  <2> QED
    BY <1>1, <1>2, <2>1, <2>2 DEF CutsOK
<1>4. BrokenOK'
  BY <1>1 DEF BrokenOK
<1> QED
  BY <1>1, <1>2, <1>3, <1>4

LEMMA BatchCut ==
    ASSUME BatchInv, ScoreBatch
    PROVE  CutsOK' /\ BrokenOK' /\ (\A i \in DOMAIN results : Agrees(i))'
<1>1. /\ call # NoTable /\ CallOK /\ BatchOK /\ ResultsOK
      /\ call.scalers \subseteq {"network", "process"}
      /\ CutsOK /\ BrokenOK /\ \A i \in DOMAIN results : Agrees(i)
  BY DEF ScoreBatch, BatchInv, EnsembleInv
<1>2. PICK k \in Nat : /\ k = Len(results) /\ DOMAIN results = 1 .. k
                       /\ k = start + Len(net) /\ k < Len(FeatureTable)
  BY <1>1 DEF ScoreBatch, ResultsOK
<1>3. call' = call /\ results' = results /\ start' = k
  BY <1>2 DEF ScoreBatch
<1>4. PICK raises \in SUBSET (call.detectors \intersect call.scalers) :
         /\ net' = BatchScores(BatchFrom(k), "network", raises)
         /\ proc' = BatchScores(BatchFrom(k), "process", raises)
         /\ broken' = broken \union {<<k, m>> : m \in raises}
  BY <1>3 DEF ScoreBatch
<1>5. PICK n \in Nat : /\ DOMAIN BatchFrom(k) = 1 .. n
                       /\ k + n <= Len(FeatureTable)
                       /\ 0 < n /\ n <= BatchSize
                       /\ n < BatchSize => k + n = Len(FeatureTable)
                       /\ \A i \in 1 .. n : BatchFrom(k)[i] = FeatureTable[k + i]
  BY <1>1, <1>2, BatchFacts
<1>6. PICK l \in Nat, B \in Nat : l = Len(FeatureTable) /\ B = BatchSize /\ B > 0
  <2>1. FeatureTable \in Tables
    BY <1>1 DEF CallOK, FeatureTable
  <2> QED
    BY <2>1, TablesType, EnsembleAssumption
<1>7. PICK q \in Nat : start = B * q
  BY <1>1, <1>6 DEF CutsOK
<1>8. \E p \in Nat : k = B * p
  <2>1. Len(net) = B \/ (Len(net) = 0 /\ start = 0)
    BY <1>1, <1>2, <1>6 DEF CutsOK
  <2>2. CASE Len(net) = B
    <3>1. B * (q + 1) = B * q + B
      BY <1>6
    <3>2. k = B * q + B
      BY <1>2, <1>7, <2>2
    <3> QED
      BY <3>1, <3>2
  <2>3. CASE Len(net) = 0 /\ start = 0
    <3>1. k = B * 0
      BY <1>2, <1>6, <2>3
    <3> QED
      BY <3>1
  <2> QED
    BY <2>1, <2>2, <2>3
<1>9. DOMAIN net' = 1 .. n /\ Len(net') = n
  BY <1>4, <1>5 DEF BatchScores
<1>10. \A b \in broken : \E f \in Nat, m \in {"network", "process"} : b = <<f, m>> /\ f < k
  BY <1>1, <1>2 DEF BrokenOK
<1>11. raises \subseteq {"network", "process"} /\ raises \subseteq Names
  BY <1>1, NamesAre
<1>12. \A m \in Names : <<k, m>> \in broken' <=> m \in raises
  <2>1. \A m : <<k, m>> \notin broken
    BY <1>10
  <2> QED
    BY <1>4, <2>1
<1>13. ASSUME NEW f, f # k
       PROVE  \A m \in Names : <<f, m>> \in broken' <=> <<f, m>> \in broken
  BY <1>4, <1>13
<1>14. LostIn(k)' = raises
  BY <1>11, <1>12 DEF LostIn
<1>15. CutsOK'
  <2>1. ASSUME NEW i \in 1 .. n
        PROVE  /\ net'[i] = InBatch("network", k, NetScore(FeatureTable[k + i]))'
               /\ proc'[i] = InBatch("process", k, ProcScore(FeatureTable[k + i]))'
    <3>1. PICK rows : rows = BatchFrom(k) /\ DOMAIN rows = 1 .. n
                       /\ rows[i] = FeatureTable[k + i]
      BY <1>5
    <3>2. /\ net'[i] = IF "network" \notin (call.detectors \intersect call.scalers) \ raises
                       THEN 0 ELSE NetScore(rows[i])
          /\ proc'[i] = IF "process" \notin (call.detectors \intersect call.scalers) \ raises
                        THEN 0 ELSE ProcScore(rows[i])
      BY <1>4, <3>1 DEF BatchScores
    <3>3. FeatureTable' = FeatureTable
      BY <1>3 DEF FeatureTable
    <3> QED
      BY <1>3, <1>14, <3>1, <3>2, <3>3 DEF InBatch
  <2>2. Len(FeatureTable') = l
    BY <1>3, <1>6 DEF FeatureTable
  <2>3. \E p \in Nat : start' = BatchSize * p
    BY <1>3, <1>6, <1>8
  <2>4. /\ Len(net') <= BatchSize
        /\ start' + Len(net') < Len(FeatureTable') => Len(net') = BatchSize
    BY <1>3, <1>5, <1>6, <1>9, <2>2
  <2>5. \A i \in 1 .. Len(net') :
           /\ net'[i] = InBatch("network", start, NetScore(FeatureTable[start + i]))'
           /\ proc'[i] = InBatch("process", start, ProcScore(FeatureTable[start + i]))'
    BY <1>3, <1>9, <2>1
  <2> QED
    BY <2>3, <2>4, <2>5 DEF CutsOK
<1>16. BrokenOK'
  <2> SUFFICES ASSUME NEW b \in broken'
               PROVE  \E f \in Nat, m \in {"network", "process"} : b = <<f, m>> /\ f < k + n
    BY <1>3, <1>9 DEF BrokenOK
  <2>1. CASE b \in broken
    <3>1. PICK f \in Nat, m \in {"network", "process"} : b = <<f, m>> /\ f < k
      BY <1>10, <2>1
    <3> QED
      BY <3>1
  <2>2. CASE b \notin broken
    <3>1. PICK m \in raises : b = <<k, m>>
      BY <1>4, <2>2
    <3> QED
      BY <1>5, <1>11, <3>1
  <2> QED
    BY <2>1, <2>2
<1>17. ASSUME NEW i \in 1 .. k
       PROVE  Agrees(i)'
  <2>1. FromOf(i) # k
    BY FromFacts
  <2>2. LostIn(FromOf(i))' = LostIn(FromOf(i))
    BY <1>13, <2>1 DEF LostIn
  <2>3. Agrees(i)
    BY <1>1, <1>2
  <2>4. FeatureTable' = FeatureTable
    BY <1>3 DEF FeatureTable
  <2> QED
    BY <1>3, <2>2, <2>3, <2>4 DEF Agrees, ScoreEntity
<1> QED
  BY <1>2, <1>3, <1>15, <1>16, <1>17

LEMMA BatchRow ==
    ASSUME BatchInv, ScoreRow
    PROVE  CutsOK' /\ BrokenOK' /\ (\A i \in DOMAIN results : Agrees(i))'
<1>1. /\ call # NoTable /\ CallOK /\ BatchOK /\ ResultsOK
      /\ call.scalers \subseteq {"network", "process"}
      /\ CutsOK /\ BrokenOK /\ \A i \in DOMAIN results : Agrees(i)
  BY DEF ScoreRow, BatchInv, EnsembleInv
<1>2. PICK R : results \in Seq(R)
  BY <1>1 DEF ResultsOK
<1>3. PICK k \in Nat, n \in Nat :
         /\ k = Len(results) /\ DOMAIN results = 1 .. k /\ n = Len(net)
         /\ start \in Nat /\ start <= k /\ k < start + n
  BY <1>1, <1>2 DEF ScoreRow, BatchOK
<1>4. /\ call' = call /\ start' = start /\ net' = net /\ proc' = proc /\ broken' = broken
      /\ FeatureTable' = FeatureTable
  BY DEF ScoreRow, FeatureTable
<1>5. CutsOK' /\ BrokenOK'
  BY <1>1, <1>4 DEF CutsOK, BrokenOK, InBatch, LostIn
<1>6. PICK row : row = FeatureTable[k + 1]
  OBVIOUS
<1>7. PICK c : c = IF "sequence" \in call.detectors
                   THEN MaxSequenceScore(Stretches(call.log, row.entity)) ELSE 0
  OBVIOUS
<1>8. Windows(ActionsOf(call.log, row.entity)) = Stretches(call.log, row.entity)
  BY <1>1, HistoryIsStretches DEF CallOK
<1>9. PICK a, b : /\ a = InBatch("network", start, NetScore(row))
                  /\ b = InBatch("process", start, ProcScore(row))
  OBVIOUS
<1>10. net[k - start + 1] = a /\ proc[k - start + 1] = b
  <2>1. PICK j \in 1 .. n : j = k - start + 1 /\ start + j = k + 1
    <3>1. start \in Nat /\ start <= k /\ k < start + n
      BY <1>3
    <3>2. k - start + 1 \in 1 .. n /\ start + (k - start + 1) = k + 1
      BY <3>1
    <3> QED
      BY <3>2
  <2> QED
    BY <1>1, <1>3, <1>6, <1>9, <2>1 DEF CutsOK
<1>11. PICK scores : scores = [network |-> a, process |-> b, sequence |-> c, rule |-> row.rule]
  OBVIOUS
<1>12. results' = Append(results, Verdict(row, scores, call.detectors))
  BY <1>3, <1>6, <1>7, <1>8, <1>10, <1>11 DEF ScoreRow, RowScore
<1>13. /\ DOMAIN results' = 1 .. k + 1 /\ results'[k + 1] = Verdict(row, scores, call.detectors)
       /\ \A i \in 1 .. k : results'[i] = results[i]
  BY <1>2, <1>3, <1>12
<1>14. ASSUME NEW i \in 1 .. k
       PROVE  Agrees(i)'
  <2>1. Agrees(i) /\ results'[i] = results[i]
    BY <1>1, <1>3, <1>13
  <2> QED
    BY <1>4, <2>1 DEF Agrees, LostIn, ScoreEntity
<1>15. FromOf(k + 1) = start
  <2>1. PICK q \in Nat : start = BatchSize * q
    BY <1>1 DEF CutsOK
  <2>2. n <= BatchSize /\ BatchSize \in Nat
    BY <1>1, <1>3, EnsembleAssumption DEF CutsOK
  <2>3. BatchSize * q < k + 1 /\ k + 1 <= BatchSize * q + BatchSize
    BY <1>3, <2>1, <2>2
  <2>4. k + 1 \in Nat \ {0}
    OBVIOUS
  <2> QED
    BY <2>1, <2>3, <2>4, FromFacts
<1>16. PICK single : single = ScoreEntity(row, Stretches(call.log, row.entity))
  OBVIOUS
<1>17. PICK alone : alone = [network |-> IF "network" \in call.detectors \intersect call.scalers
                                         THEN NetScore(row) ELSE 0,
                             process |-> IF "process" \in call.detectors \intersect call.scalers
                                         THEN ProcScore(row) ELSE 0,
                             sequence |-> c, rule |-> row.rule]
  OBVIOUS
<1>18. /\ single.entity_key = row.entity /\ single.scores = alone
       /\ single.threat = Threat(alone, Weights(call.detectors))
       /\ single.level = ThreatLevel(single.threat)
  BY <1>7, <1>16, <1>17 DEF ScoreEntity
<1>19. PICK lost : lost = LostIn(start)
  OBVIOUS
<1>20. lost \subseteq {"network", "process"}
  <2>1. ASSUME NEW m \in lost
        PROVE  m \in {"network", "process"}
    <3>1. <<start, m>> \in broken
      BY <1>19 DEF LostIn
    <3>2. PICK f \in Nat, name \in {"network", "process"} : <<start, m>> = <<f, name>>
      BY <1>1, <3>1 DEF BrokenOK
    <3> QED
      BY <3>2
  <2> QED
    BY <2>1
<1>21. \A m \in Names : scores[m] = IF m \in lost THEN 0 ELSE alone[m]
  <2>1. /\ scores["network"] = a /\ scores["process"] = b /\ scores["sequence"] = c
        /\ scores["rule"] = row.rule
        /\ alone["sequence"] = c /\ alone["rule"] = row.rule
    BY <1>11, <1>17
  <2>2. /\ "network" \in lost => a = 0
        /\ "network" \notin lost => a = alone["network"]
    BY <1>9, <1>17, <1>19 DEF InBatch
  <2>3. /\ "process" \in lost => b = 0
        /\ "process" \notin lost => b = alone["process"]
    BY <1>9, <1>17, <1>19 DEF InBatch
  <2> QED
    BY <1>20, <2>1, <2>2, <2>3, NamesAre
<1>22. lost = {} => scores = alone
  BY <1>9, <1>11, <1>17, <1>19 DEF InBatch
<1>23. PICK verdict : verdict = Verdict(row, scores, call.detectors)
  OBVIOUS
<1>24. /\ verdict.entity_key = row.entity /\ verdict.scores = scores
       /\ verdict.threat = Threat(scores, Weights(call.detectors))
       /\ verdict.level = ThreatLevel(verdict.threat)
  BY <1>23 DEF Verdict
<1>25. Agrees(k + 1)'
  <2>1. /\ FeatureTable'[k + 1] = row /\ call' = call /\ results'[k + 1] = verdict
        /\ LostIn(FromOf(k + 1))' = lost
    BY <1>4, <1>6, <1>13, <1>15, <1>19, <1>23 DEF LostIn
  <2>2. ScoreEntity(FeatureTable[k + 1], Stretches(call.log, FeatureTable[k + 1].entity))' = single
    BY <1>16, <2>1 DEF ScoreEntity
  <2> QED
    BY <1>18, <1>21, <1>22, <1>24, <2>1, <2>2 DEF Agrees
<1>26. \A i \in 1 .. k + 1 : i \in 1 .. k \/ i = k + 1
  OBVIOUS
<1> QED
  BY <1>5, <1>13, <1>14, <1>25, <1>26

LEMMA BatchStep == BatchInv /\ [EnsembleNext]_ensembleVars => BatchInv'
<1> SUFFICES ASSUME BatchInv, [EnsembleNext]_ensembleVars
             PROVE  BatchInv'
  OBVIOUS
<1>1. EnsembleInv'
  BY EnsembleStep DEF BatchInv
<1>2. CASE UNCHANGED ensembleVars
  <2>1. FeatureTable' = FeatureTable
    BY <1>2 DEF ensembleVars, FeatureTable
  <2>2. CutsOK' <=> CutsOK
    BY <1>2, <2>1 DEF ensembleVars, CutsOK, InBatch, LostIn
  <2>3. BrokenOK' <=> BrokenOK
    BY <1>2 DEF ensembleVars, BrokenOK
  <2>4. \A i : Agrees(i)' <=> Agrees(i)
    BY <1>2, <2>1 DEF ensembleVars, Agrees, LostIn, ScoreEntity
  <2> QED
    BY <1>1, <1>2, <2>2, <2>3, <2>4 DEF ensembleVars, BatchInv
<1>3. ASSUME NEW table \in Tables, NEW log \in EventLogs,
             NEW detectors \in SUBSET (Names \ {"rule"}),
             NEW scalers \in SUBSET {"network", "process"},
             ScoreAllEntities(table, log, detectors, scalers)
      PROVE  BatchInv'
  <2>1. call' # NoTable
    <3>1. "table" \in DOMAIN call' /\ "table" \notin DOMAIN NoTable
      BY <1>3 DEF ScoreAllEntities, NoTable
    <3> QED
      BY <3>1
  <2> QED
    BY <1>1, <1>3, <2>1, BatchBegins DEF BatchInv
<1>4. CASE ScoreBatch
  <2>1. call # NoTable /\ call' = call
    BY <1>4 DEF ScoreBatch
  <2> QED
    BY <1>1, <1>4, <2>1, BatchCut DEF BatchInv
<1>5. CASE ScoreRow
  <2>1. call # NoTable /\ call' = call
    BY <1>5 DEF ScoreRow
  <2> QED
    BY <1>1, <1>5, <2>1, BatchRow DEF BatchInv
<1> QED
  BY <1>2, <1>3, <1>4, <1>5 DEF EnsembleNext

\* A row scored in a batch is scored as by itself, wherever the batches are cut,
\* whichever detectors are absent and whatever raises in other batches; and the
\* sequence model sees the stretches of the entity's own history
\* (score_all_entities_batched, score_entity, build_event_sequences).
THEOREM BatchAlwaysAgreesWithSingle == EnsembleSpec => []BatchAgreesWithSingle
<1>1. BatchInv => BatchAgreesWithSingle
  <2> SUFFICES ASSUME BatchInv, NEW i \in DOMAIN results
               PROVE  Agrees(i)
    BY DEF BatchAgreesWithSingle, Agrees, LostIn, FromOf
  <2>1. call # NoTable
    BY DEF BatchInv, EnsembleInv
  <2> QED
    BY <2>1 DEF BatchInv
<1> QED
  BY <1>1, BatchStart, BatchStep, PTL DEF EnsembleSpec

-----------------------------------------------------------------------------
(* Windows and remembered empty answers *)

Times == [at : Nat] \union {Never}
Fetching == [asked : Nat] \union [docs : SUBSET Docs]

IngestionTypeOK ==
    /\ minute \in Nat /\ due \in BOOLEAN /\ scheduler \in {"boot", "running", "stopped"}
    /\ doc \in [Docs -> Times] /\ empty_query_cache \in [Sources -> Times]
    /\ fetching \in [Runs -> [Sources -> Fetching]]
    /\ running \subseteq Runs /\ used \subseteq Docs
    /\ hidden \in [Sources -> Nat] /\ troubles \in Nat

\* The cycles are due at the multiples of Window: the last one.
LastCycle(t) == (t \div Window) * Window

DueOnTime == due => minute = LastCycle(minute)

\* An empty answer that has hidden a source is older than the cycle it was
\* hidden from, and too old when the next one is due.
RememberedOnce ==
    \A s \in Sources :
        /\ empty_query_cache[s] # Never => empty_query_cache[s].at <= minute
        /\ hidden[s] \in {0, 1}
        /\ hidden[s] = 1 => /\ empty_query_cache[s] # Never
                            /\ empty_query_cache[s].at <= LastCycle(minute)
                            /\ due => empty_query_cache[s].at + Window <= minute

UsedUpTo(t) == \A d \in Written \ Malformed : doc[d].at < t => d \in used

\* What a cycle in flight has brought is all of its window.
AllBrought(s, cycle) ==
    /\ ~IsAsking(fetching["scheduled"][s])
    /\ \A d \in Written : (SourceOf[d] = s /\ doc[d].at + Window >= cycle /\ doc[d].at < cycle)
                             => d \in fetching["scheduled"][s].docs

\* As long as nothing happened but the schedule, only scheduled cycles run, and
\* none is due while one is in flight; an empty answer is as old as the last of
\* them; and what is older than the last one, or than the one before when that
\* is still to come or under way, was used.
Quiet ==
    /\ "requested" \notin running /\ scheduler # "stopped"
    /\ \A s \in Sources : empty_query_cache[s] # Never =>
          /\ empty_query_cache[s].at <= LastCycle(minute)
          /\ due => empty_query_cache[s].at + Window <= minute
    /\ due => running = {}
    /\ UsedUpTo(LastCycle(minute) - Window)
    /\ ~due /\ running = {} => UsedUpTo(LastCycle(minute))
    /\ "scheduled" \in running =>
          \A s \in Sources : \/ fetching["scheduled"][s] = Asking(LastCycle(minute))
                             \/ AllBrought(s, LastCycle(minute))

IngestionInv ==
    /\ IngestionTypeOK /\ DueOnTime /\ RememberedOnce
    /\ troubles = 0 => Quiet

LEMMA WindowBounds ==
    /\ Window \in Nat \ {0} /\ Fresh \in Nat /\ SearchTime \in Nat
    /\ Fresh <= Window /\ SearchTime < Window
    /\ SourceOf \in [Docs -> Sources] /\ Network \in Sources
BY IngestionAssumption

LEMMA CyclesAre ==
    ASSUME NEW t \in Nat
    PROVE  /\ LastCycle(t) \in Nat /\ LastCycle(t) <= t /\ t < LastCycle(t) + Window
           /\ LastCycle(t) = Window * (t \div Window)
           /\ (t + 1) % Window # 0 => LastCycle(t + 1) = LastCycle(t)
           /\ (t + 1) % Window = 0 => /\ LastCycle(t + 1) = LastCycle(t) + Window
                                      /\ t + 1 = LastCycle(t) + Window
<1>1. Window \in Nat \ {0}
  BY WindowBounds
<1>2. PICK q \in Nat, r \in Nat : t = q * Window + r /\ r < Window /\ q = t \div Window
  BY <1>1
<1>3. CASE r + 1 = Window
  BY <1>1, <1>2, <1>3 DEF LastCycle
<1>4. CASE r + 1 < Window
  <2>1. t + 1 = q * Window + (r + 1) /\ r + 1 \in Nat /\ q * Window \in Nat
    BY <1>1, <1>2
  <2>2. (t + 1) \div Window = q
    BY <1>1, <1>2, <1>4, <2>1
  <2>3. (t + 1) % Window = r + 1
    BY <1>1, <1>2, <1>4, <2>1, <2>2
  <2>4. LastCycle(t) = q * Window /\ LastCycle(t + 1) = q * Window
    BY <1>2, <2>2 DEF LastCycle
  <2> QED
    BY <1>1, <1>2, <1>4, <2>1, <2>3, <2>4
<1> QED
  BY <1>1, <1>2, <1>3, <1>4

LEMMA AskingFacts ==
    /\ \A t : IsAsking(Asking(t)) /\ Asking(t).asked = t
    /\ \A D : ~IsAsking(Brought(D)) /\ Brought(D).docs = D
    /\ \A t \in Nat : Asking(t) \in Fetching
    /\ \A D \in SUBSET Docs : Brought(D) \in Fetching
    /\ \A f \in Fetching : ~IsAsking(f) => f.docs \subseteq Docs
    /\ \A t : [at |-> t] # Never
BY DEF IsAsking, Asking, Brought, Fetching, Never

LEMMA IngestionStart == IngestionInit => IngestionInv
<1> SUFFICES ASSUME IngestionInit
             PROVE  IngestionInv
  OBVIOUS
<1>1. IngestionTypeOK
  <2>1. Brought({}) \in Fetching
    BY AskingFacts
  <2> QED
    BY <2>1 DEF IngestionInit, IngestionTypeOK, Times
<1>2. LastCycle(0) = 0
  BY CyclesAre
<1>3. Written = {} /\ minute = 0 /\ ~due /\ running = {} /\ scheduler = "boot"
  BY DEF IngestionInit, Written
<1>4. \A s \in Sources : empty_query_cache[s] = Never /\ hidden[s] = 0
  BY DEF IngestionInit
<1>5. DueOnTime /\ RememberedOnce
  BY <1>3, <1>4 DEF DueOnTime, RememberedOnce
<1>6. Quiet
  BY <1>3, <1>4 DEF Quiet, UsedUpTo
<1> QED
  BY <1>1, <1>5, <1>6 DEF IngestionInv

LEMMA IngestionTypeStep == IngestionTypeOK /\ [IngestionNext]_ingestionVars => IngestionTypeOK'
<1> SUFFICES ASSUME IngestionTypeOK, [IngestionNext]_ingestionVars
             PROVE  IngestionTypeOK'
  OBVIOUS
<1> USE DEF IngestionTypeOK
<1>1. CASE UNCHANGED ingestionVars
  BY <1>1 DEF ingestionVars
<1>2. [at |-> minute] \in Times /\ Never \in Times
  BY DEF Times
<1>3. \A h : Trouble(h) => troubles' \in Nat
  BY DEF Trouble
<1>4. CASE Boot
  BY <1>3, <1>4 DEF Boot
<1>5. ASSUME NEW r \in Runs, BeginFetches(r)
      PROVE  running' \subseteq Runs /\ fetching' \in [Runs -> [Sources -> Fetching]]
  <2>1. Fetches \in [Sources -> Fetching]
    BY AskingFacts DEF Fetches
  <2> QED
    BY <1>5, <2>1 DEF BeginFetches
<1>6. CASE ScheduledCycle
  <2>1. BeginFetches("scheduled") /\ "scheduled" \in Runs
    BY <1>6 DEF ScheduledCycle, Runs
  <2>2. hidden' \in [Sources -> Nat]
    BY <1>6 DEF ScheduledCycle
  <2> QED
    BY <1>5, <1>6, <2>1, <2>2 DEF ScheduledCycle, BeginFetches
<1>7. CASE RequestedCycle
  BY <1>3, <1>5, <1>7 DEF RequestedCycle, Runs, BeginFetches
<1>8. ASSUME NEW r \in Runs, NEW s \in Sources, NEW docs \in SUBSET Docs, EndFetch(r, s, docs)
      PROVE  /\ fetching' \in [Runs -> [Sources -> Fetching]]
             /\ empty_query_cache' \in [Sources -> Times] /\ hidden' \in [Sources -> Nat]
  BY <1>2, <1>8, AskingFacts DEF EndFetch
<1>9. ASSUME NEW r \in Runs, NEW s \in Sources, SearchReturns(r, s)
      PROVE  IngestionTypeOK'
  <2>1. PICK docs \in SUBSET InWindow(s) :
           EndFetch(r, s, docs) /\ Trouble(docs # InWindow(s) \/ minute # fetching[r][s].asked)
    BY <1>9 DEF SearchReturns
  <2>2. docs \in SUBSET Docs
    BY <2>1 DEF InWindow, Written
  <2> QED
    BY <1>3, <1>8, <1>9, <2>1, <2>2 DEF SearchReturns
<1>10. ASSUME NEW r \in Runs, NEW s \in Sources, SearchFails(r, s)
       PROVE  IngestionTypeOK'
  BY <1>3, <1>8, <1>10 DEF SearchFails
<1>11. ASSUME NEW r \in Runs, EndFetches(r)
       PROVE  IngestionTypeOK'
  <2>1. used' \subseteq Docs
    <3>1. \A s \in Sources : fetching[r][s].docs \subseteq Docs
      BY <1>11, AskingFacts DEF EndFetches
    <3>2. Normalized(UNION {fetching[r][s].docs : s \in Sources}) \subseteq Docs
      BY <3>1 DEF Normalized
    <3> QED
      BY <1>11, <3>2 DEF EndFetches
  <2>2. fetching' \in [Runs -> [Sources -> Fetching]]
    <3>1. [s \in Sources |-> Brought({})] \in [Sources -> Fetching]
      BY AskingFacts
    <3> QED
      BY <1>11, <3>1 DEF EndFetches
  <2> QED
    BY <1>3, <1>11, <2>1, <2>2 DEF EndFetches
<1>12. ASSUME NEW d \in Docs, Write(d)
       PROVE  IngestionTypeOK'
  BY <1>2, <1>12 DEF Write
<1>13. CASE Tick
  BY <1>13 DEF Tick
<1> QED
  BY <1>1, <1>4, <1>6, <1>7, <1>9, <1>10, <1>11, <1>12, <1>13 DEF IngestionNext

\* What time does to the cycles.
LEMMA TickFacts ==
    ASSUME IngestionTypeOK, Tick
    PROVE  /\ minute' = minute + 1
           /\ \/ LastCycle(minute') = LastCycle(minute) /\ ~due'
              \/ LastCycle(minute') = LastCycle(minute) + Window /\ minute' = LastCycle(minute')
                 /\ due' = (scheduler = "running")
<1>1. minute' = minute + 1 /\ minute \in Nat /\ due' = (scheduler = "running" /\ minute' % Window = 0)
  BY DEF Tick, IngestionTypeOK
<1>2. CASE (minute + 1) % Window = 0
  BY <1>1, <1>2, CyclesAre
<1>3. CASE (minute + 1) % Window # 0
  BY <1>1, <1>3, CyclesAre
<1> QED
  BY <1>2, <1>3

LEMMA RememberedStep ==
    ASSUME IngestionTypeOK, DueOnTime, RememberedOnce, [IngestionNext]_ingestionVars
    PROVE  DueOnTime' /\ RememberedOnce'
<1> DEFINE m == minute
           c == LastCycle(minute)
<1>1. m \in Nat /\ c \in Nat /\ c <= m /\ Window \in Nat \ {0} /\ Fresh \in Nat /\ Fresh <= Window
  BY CyclesAre, WindowBounds DEF IngestionTypeOK
<1>2. \A s \in Sources : empty_query_cache[s] # Never => empty_query_cache[s].at \in Nat
  BY DEF IngestionTypeOK, Times
<1>3. \A s \in Sources : hidden[s] \in {0, 1}
  BY DEF RememberedOnce
<1>4. CASE UNCHANGED <<minute, empty_query_cache, hidden>> /\ (due' => due)
  BY <1>4 DEF DueOnTime, RememberedOnce, LastCycle
<1>5. CASE ScheduledCycle
  <2>1. /\ due /\ ~due' /\ minute' = minute /\ empty_query_cache' = empty_query_cache
        /\ hidden' = [s \in Sources |-> IF StillEmpty(s) THEN hidden[s] + 1 ELSE hidden[s]]
    BY <1>5 DEF ScheduledCycle, BeginFetches, IngestionTypeOK
  <2>2. m = c
    BY <2>1 DEF DueOnTime
  <2>3. ASSUME NEW s \in Sources, StillEmpty(s)
        PROVE  hidden[s] = 0 /\ empty_query_cache[s] # Never
    <3>1. empty_query_cache[s] # Never /\ minute - empty_query_cache[s].at < Fresh
      BY <2>3 DEF StillEmpty
    <3>2. hidden[s] # 1
      BY <1>1, <1>2, <2>1, <3>1 DEF RememberedOnce
    <3> QED
      BY <1>3, <3>1, <3>2
  <2>4. LastCycle(minute') = c
    BY <2>1
  <2>5. ASSUME NEW s \in Sources
        PROVE  /\ hidden'[s] \in {0, 1}
               /\ hidden'[s] = 1 => /\ empty_query_cache[s] # Never
                                    /\ empty_query_cache[s].at <= c
    <3>1. CASE StillEmpty(s)
      BY <2>1, <2>2, <2>3, <3>1 DEF RememberedOnce
    <3>2. CASE ~StillEmpty(s)
      BY <2>1, <2>2, <3>2 DEF RememberedOnce
    <3> QED
      BY <3>1, <3>2
  <2> QED
    BY <2>1, <2>4, <2>5 DEF DueOnTime, RememberedOnce
<1>6. ASSUME NEW r, NEW t \in Sources, NEW docs, EndFetch(r, t, docs), UNCHANGED <<minute, due>>
      PROVE  DueOnTime' /\ RememberedOnce'
  <2>1. /\ \A s \in Sources \ {t} : hidden'[s] = hidden[s]
                                  /\ empty_query_cache'[s] = empty_query_cache[s]
        /\ hidden'[t] = 0
        /\ empty_query_cache'[t] = [at |-> minute] \/ empty_query_cache'[t] = Never
    BY <1>6 DEF EndFetch, IngestionTypeOK
  <2>2. LastCycle(minute') = c /\ minute' = minute /\ due' = due
    BY <1>6
  <2>3. [at |-> minute].at <= minute
    BY <1>1
  <2>4. ASSUME NEW s \in Sources
        PROVE  /\ empty_query_cache'[s] # Never => empty_query_cache'[s].at <= minute
               /\ hidden'[s] \in {0, 1}
               /\ hidden'[s] = 1 => /\ empty_query_cache'[s] # Never
                                    /\ empty_query_cache'[s].at <= c
                                    /\ due => empty_query_cache'[s].at + Window <= minute
    <3>1. CASE s = t
      BY <2>1, <2>3, <3>1
    <3>2. CASE s # t
      BY <2>1, <3>2 DEF RememberedOnce
    <3> QED
      BY <3>1, <3>2
  <2> QED
    BY <2>2, <2>4 DEF DueOnTime, RememberedOnce
<1>7. CASE Tick
  <2>1. empty_query_cache' = empty_query_cache /\ hidden' = hidden /\ minute' = minute + 1
    BY <1>7 DEF Tick
  <2>2. \/ LastCycle(minute') = c /\ ~due'
        \/ LastCycle(minute') = c + Window /\ minute' = c + Window
    BY <1>7, TickFacts
  <2>3. DueOnTime'
    BY <2>2 DEF DueOnTime
  <2>4. ASSUME NEW s \in Sources
        PROVE  /\ empty_query_cache[s] # Never => empty_query_cache[s].at <= minute'
               /\ hidden[s] \in {0, 1}
               /\ hidden[s] = 1 => /\ empty_query_cache[s] # Never
                                   /\ empty_query_cache[s].at <= LastCycle(minute')
                                   /\ due' => empty_query_cache[s].at + Window <= minute'
    <3> HIDE DEF c
    <3>1. /\ empty_query_cache[s] # Never => empty_query_cache[s].at <= minute
          /\ hidden[s] \in {0, 1}
          /\ hidden[s] = 1 => empty_query_cache[s] # Never /\ empty_query_cache[s].at <= c
      BY DEF RememberedOnce, c
    <3> QED
      BY <1>1, <1>2, <2>1, <2>2, <3>1
  <2> QED
    BY <2>1, <2>3, <2>4 DEF RememberedOnce
<1>8. CASE Boot
  BY <1>4, <1>8 DEF Boot
<1>9. CASE RequestedCycle
  BY <1>4, <1>9 DEF RequestedCycle, BeginFetches
<1>10. ASSUME NEW r \in Runs, EndFetches(r)
       PROVE  DueOnTime' /\ RememberedOnce'
  BY <1>4, <1>10 DEF EndFetches
<1>11. ASSUME NEW r \in Runs, NEW s \in Sources, SearchReturns(r, s) \/ SearchFails(r, s)
       PROVE  DueOnTime' /\ RememberedOnce'
  <2>1. UNCHANGED <<minute, due>> /\ \E docs : EndFetch(r, s, docs)
    BY <1>11 DEF SearchReturns, SearchFails
  <2> QED
    BY <1>6, <2>1
<1>12. ASSUME NEW d \in Docs, Write(d)
       PROVE  DueOnTime' /\ RememberedOnce'
  BY <1>4, <1>12 DEF Write
<1>13. CASE UNCHANGED ingestionVars
  BY <1>4, <1>13 DEF ingestionVars
<1> QED
  BY <1>5, <1>7, <1>8, <1>9, <1>10, <1>11, <1>12, <1>13 DEF IngestionNext

LEMMA QuietStep ==
    ASSUME IngestionTypeOK, DueOnTime, troubles = 0 => Quiet, [IngestionNext]_ingestionVars,
           IngestionTypeOK', troubles' = 0
    PROVE  Quiet'
<1> DEFINE c == LastCycle(minute)
<1>1. /\ minute \in Nat /\ c \in Nat /\ c <= minute /\ minute < c + Window
      /\ Window \in Nat \ {0} /\ Fresh \in Nat /\ Fresh <= Window
      /\ SearchTime \in Nat /\ SearchTime < Window
  BY CyclesAre, WindowBounds DEF IngestionTypeOK
<1>2. \A s \in Sources : empty_query_cache[s] # Never => empty_query_cache[s].at \in Nat
  BY DEF IngestionTypeOK, Times
<1>3. \A d \in Written : d \in Docs /\ doc[d].at \in Nat /\ SourceOf[d] \in Sources
  BY WindowBounds DEF IngestionTypeOK, Times, Written
<1>4. \A h : Trouble(h) => troubles = 0 /\ ~h
  BY DEF Trouble, IngestionTypeOK
<1>5. ASSUME Quiet, UNCHANGED <<minute, due, doc, empty_query_cache, fetching, running, used>>,
             scheduler' # "stopped"
      PROVE  Quiet'
  BY <1>5 DEF Quiet, UsedUpTo, Written, AllBrought, LastCycle
<1>6. CASE UNCHANGED ingestionVars
  BY <1>5, <1>6 DEF ingestionVars, Quiet
<1>7. CASE Boot
  BY <1>4, <1>5, <1>7 DEF Boot
<1>8. CASE ScheduledCycle
  <2>1. /\ due /\ ~due' /\ running' = running \union {"scheduled"}
        /\ fetching' = [fetching EXCEPT !["scheduled"] = Fetches]
        /\ UNCHANGED <<minute, scheduler, doc, used, troubles, empty_query_cache>>
    BY <1>8 DEF ScheduledCycle, BeginFetches, IngestionTypeOK
  <2>2. Quiet /\ minute = c
    BY <2>1 DEF DueOnTime
  <2>3. \A s \in Sources : ~StillEmpty(s)
    BY <1>1, <1>2, <2>1, <2>2 DEF Quiet, StillEmpty
  <2>4. \A s \in Sources : fetching'["scheduled"][s] = Asking(c)
    BY <2>1, <2>2, <2>3 DEF Fetches, IngestionTypeOK, Runs
  <2>5. LastCycle(minute') = c /\ Written' = Written
    BY <2>1 DEF Written
  <2> QED
    BY <2>1, <2>2, <2>4, <2>5 DEF Quiet, UsedUpTo
<1>9. CASE RequestedCycle
  BY <1>4, <1>9 DEF RequestedCycle
<1>10. ASSUME NEW r \in Runs, NEW t \in Sources, SearchReturns(r, t)
       PROVE  Quiet'
  <2>1. PICK docs : /\ r \in running /\ IsAsking(fetching[r][t])
                    /\ EndFetch(r, t, docs)
                    /\ Trouble(docs # InWindow(t) \/ minute # fetching[r][t].asked)
                    /\ UNCHANGED <<minute, due, scheduler, doc, running, used>>
    BY <1>10 DEF SearchReturns
  <2>2. Quiet /\ docs = InWindow(t) /\ minute = fetching[r][t].asked
    BY <1>4, <2>1
  <2>3. r = "scheduled" /\ ~due
    BY <2>1, <2>2 DEF Quiet, Runs
  <2>4. fetching["scheduled"][t] = Asking(c)
    BY <2>1, <2>2, <2>3 DEF Quiet, AllBrought
  <2>5. minute = c
    BY <2>2, <2>3, <2>4, AskingFacts
  <2>6. /\ fetching'["scheduled"][t] = Brought(docs)
        /\ \A s \in Sources \ {t} : fetching'["scheduled"][s] = fetching["scheduled"][s]
    BY <2>1, <2>3 DEF EndFetch, IngestionTypeOK
  <2>7. LastCycle(minute') = c /\ Written' = Written
    BY <2>1 DEF Written
  <2>8. \A d \in Written : (SourceOf[d] = t /\ doc[d].at + Window >= c /\ doc[d].at < c) => d \in docs
    BY <1>1, <1>3, <2>2, <2>5 DEF InWindow
  <2>9. \A s \in Sources : \/ fetching'["scheduled"][s] = Asking(c)
                           \/ AllBrought(s, c)'
    <3> SUFFICES ASSUME NEW s \in Sources
                 PROVE  fetching'["scheduled"][s] = Asking(c) \/ AllBrought(s, c)'
      OBVIOUS
    <3>1. CASE s = t
      <4>1. ~IsAsking(Brought(docs)) /\ Brought(docs).docs = docs
        BY AskingFacts
      <4>2. doc' = doc /\ minute' = minute
        BY <2>1
      <4> QED
        BY <2>6, <2>7, <2>8, <3>1, <4>1, <4>2 DEF AllBrought
    <3>2. CASE s # t
      BY <2>1, <2>2, <2>3, <2>6, <2>7, <3>2 DEF Quiet, AllBrought
    <3> QED
      BY <3>1, <3>2
  <2>10. \A s \in Sources : empty_query_cache'[s] # Never => empty_query_cache'[s].at <= c
    <3> SUFFICES ASSUME NEW s \in Sources, empty_query_cache'[s] # Never
                 PROVE  empty_query_cache'[s].at <= c
      OBVIOUS
    <3>1. \/ s # t /\ empty_query_cache'[s] = empty_query_cache[s]
          \/ s = t /\ empty_query_cache'[s] = [at |-> minute]
      BY <2>1 DEF EndFetch, IngestionTypeOK
    <3>2. [at |-> minute].at <= c
      BY <1>1, <2>5
    <3> QED
      BY <2>2, <3>1, <3>2 DEF Quiet
  <2> QED
    BY <2>1, <2>2, <2>3, <2>7, <2>9, <2>10 DEF Quiet, UsedUpTo
<1>11. ASSUME NEW r \in Runs, NEW s \in Sources, SearchFails(r, s)
       PROVE  Quiet'
  BY <1>4, <1>11 DEF SearchFails
<1>12. ASSUME NEW r \in Runs, EndFetches(r)
       PROVE  Quiet'
  <2>1. PICK docs : docs = UNION {fetching[r][s].docs : s \in Sources}
    OBVIOUS
  <2>2. /\ r \in running /\ \A s \in Sources : ~IsAsking(fetching[r][s])
        /\ used' = used \union Normalized(docs)
        /\ Trouble(\E d \in docs \intersect Malformed : SourceOf[d] = Network)
        /\ running' = running \ {r}
        /\ UNCHANGED <<minute, due, scheduler, doc, empty_query_cache>>
    BY <1>12, <2>1 DEF EndFetches
  <2>3. Quiet /\ Normalized(docs) = docs \ Malformed
    BY <1>4, <2>2 DEF Normalized
  <2>4. r = "scheduled" /\ ~due /\ running' = {}
    BY <2>2, <2>3 DEF Quiet, Runs, IngestionTypeOK
  <2>5. \A s \in Sources : AllBrought(s, c)
    BY <2>2, <2>3, <2>4, AskingFacts DEF Quiet
  <2>6. ASSUME NEW d \in Written \ Malformed, doc[d].at < c
        PROVE  d \in used'
    <3>1. CASE doc[d].at < c - Window
      BY <2>2, <2>3, <2>6, <3>1 DEF Quiet, UsedUpTo
    <3>2. CASE ~(doc[d].at < c - Window)
      <4>1. doc[d].at + Window >= c /\ SourceOf[d] \in Sources
        BY <1>1, <1>3, <3>2
      <4>2. d \in fetching["scheduled"][SourceOf[d]].docs
        BY <2>5, <2>6, <4>1 DEF AllBrought
      <4> QED
        BY <2>1, <2>2, <2>3, <2>4, <4>1, <4>2
    <3> QED
      BY <3>1, <3>2
  <2>7. LastCycle(minute') = c /\ Written' = Written /\ doc' = doc
    BY <2>2 DEF Written
  <2>8. \A d \in Written \ Malformed : doc[d].at < c - Window => doc[d].at < c
    BY <1>1, <1>3
  <2>9. UsedUpTo(LastCycle(minute))' /\ UsedUpTo(LastCycle(minute) - Window)'
    BY <2>6, <2>7, <2>8 DEF UsedUpTo
  <2> QED
    BY <2>2, <2>3, <2>4, <2>7, <2>9 DEF Quiet
<1>13. ASSUME NEW d \in Docs, Write(d)
       PROVE  Quiet'
  <2>1. /\ doc' = [doc EXCEPT ![d] = [at |-> minute]] /\ doc[d] = Never
        /\ UNCHANGED <<minute, due, scheduler, empty_query_cache, fetching, running, used, troubles>>
    BY <1>13 DEF Write
  <2>2. Quiet
    BY <2>1
  <2>3. /\ Written' = Written \union {d} /\ d \notin Written
        /\ \A e \in Written : doc'[e] = doc[e]
        /\ doc'[d].at = minute
    BY <2>1, AskingFacts DEF Written, IngestionTypeOK
  <2>4. LastCycle(minute') = c /\ ~(minute < c) /\ ~(minute < c - Window)
    BY <1>1, <2>1
  <2> HIDE DEF c
  <2> DEFINE New(e) == \/ e = d /\ doc'[e].at = minute
                       \/ e \in Written /\ doc'[e] = doc[e]
  <2>7. ASSUME NEW e \in Written' PROVE New(e)
    <3>1. e = d \/ e \in Written
      BY <2>3
    <3> QED
      BY <2>3, <3>1
  <2> HIDE DEF New
  <2>5. UsedUpTo(c - Window)' /\ (UsedUpTo(c) => UsedUpTo(c)')
    <3>1. used' = used /\ c' = c
      BY <2>1, <2>4 DEF c
    <3> QED
      BY <2>2, <2>4, <2>7, <3>1 DEF Quiet, UsedUpTo, c, New
  <2>6. ASSUME NEW s \in Sources, AllBrought(s, c)
        PROVE  AllBrought(s, c)'
    <3>1. fetching' = fetching /\ c' = c
      BY <2>1, <2>4 DEF c
    <3> QED
      BY <2>4, <2>6, <2>7, <3>1 DEF AllBrought, New
  <2> QED
    BY <2>1, <2>2, <2>4, <2>5, <2>6 DEF Quiet, c
<1>14. CASE Tick
  <2>1. /\ minute' = minute + 1 /\ scheduler # "boot"
        /\ due => "scheduled" \in running
        /\ \A r \in running : \E s \in Sources : IsAsking(fetching[r][s])
        /\ \A r \in running, s \in Sources :
              IsAsking(fetching[r][s]) => minute < fetching[r][s].asked + SearchTime
        /\ UNCHANGED <<scheduler, doc, empty_query_cache, fetching, running, used, troubles>>
    BY <1>14 DEF Tick
  <2>2. Quiet /\ ~due
    BY <2>1 DEF Quiet
  <2>3. Written' = Written /\ doc' = doc /\ used' = used
    BY <2>1 DEF Written
  <2>4. CASE LastCycle(minute') = c /\ ~due'
    BY <2>1, <2>2, <2>3, <2>4 DEF Quiet, UsedUpTo, AllBrought
  <2>5. CASE LastCycle(minute') = c + Window /\ minute' = c + Window
    <3>1. running = {}
      <4> SUFFICES ASSUME "scheduled" \in running
                   PROVE  FALSE
        BY <2>2 DEF Quiet, Runs, IngestionTypeOK
      <4>1. PICK s \in Sources : IsAsking(fetching["scheduled"][s])
        BY <2>1
      <4>2. fetching["scheduled"][s] = Asking(c)
        BY <2>2, <4>1 DEF Quiet, AllBrought
      <4>3. minute < c + SearchTime
        BY <2>1, <4>1, <4>2, AskingFacts
      <4> QED
        BY <1>1, <2>1, <2>5, <4>3
    <3>2. (c + Window) - Window = c
      BY <1>1
    <3>3. due'
      BY <1>1, <1>14, <2>1, <2>2, <2>5, TickFacts DEF Quiet, IngestionTypeOK
    <3>4. UsedUpTo(LastCycle(minute) - Window)'
      <4>1. (LastCycle(minute) - Window)' = c
        BY <2>5, <3>2
      <4> QED
        BY <2>2, <2>3, <3>1, <4>1 DEF Quiet, UsedUpTo
    <3>5. \A s \in Sources : empty_query_cache[s] # Never =>
             empty_query_cache[s].at <= c + Window /\ empty_query_cache[s].at + Window <= c + Window
      BY <1>1, <1>2, <2>2 DEF Quiet
    <3> QED
      BY <2>1, <2>2, <2>5, <3>1, <3>3, <3>4, <3>5 DEF Quiet
  <2> QED
    BY <1>14, <2>4, <2>5, TickFacts
<1> QED
  BY <1>6, <1>7, <1>8, <1>9, <1>10, <1>11, <1>12, <1>13, <1>14 DEF IngestionNext

\* With punctual cycles and answered searches every well formed document is
\* used by the first cycle after it; and whatever goes wrong, a remembered empty
\* answer keeps one cycle at most from asking (fetch_logs, fetch_all_sources,
\* build_scheduler).
THEOREM QuietNeverMisses == IngestionSpec => []QuietCyclesMissNothing
<1>1. IngestionInv => QuietCyclesMissNothing
  <2> SUFFICES ASSUME IngestionInv
               PROVE  QuietCyclesMissNothing
    OBVIOUS
  <2>1. \A s \in Sources : hidden[s] <= 1
    BY DEF IngestionInv, RememberedOnce
  <2>2. LastCycle(minute) = Window * (minute \div Window)
    BY CyclesAre DEF IngestionInv, IngestionTypeOK
  <2>3. troubles = 0 /\ running = {} /\ ~due => UsedUpTo(Window * (minute \div Window))
    BY <2>2 DEF IngestionInv, Quiet
  <2> QED
    BY <2>1, <2>3 DEF QuietCyclesMissNothing, UsedUpTo
<1>2. IngestionInv /\ [IngestionNext]_ingestionVars => IngestionInv'
  BY IngestionTypeStep, RememberedStep, QuietStep DEF IngestionInv
<1> QED
  BY <1>1, <1>2, IngestionStart, PTL DEF IngestionSpec

-----------------------------------------------------------------------------
(* Patterns *)

\* With a step or its features missing no pattern reaches its threshold.
LEMMA PatternFacts ==
    ASSUME NEW p \in AttackPatterns
    PROVE  /\ Len(p.steps) \in Nat \ {0} /\ DOMAIN p.steps = 1 .. Len(p.steps)
           /\ p.time_window \in Nat
           /\ \A i \in 1 .. Len(p.steps) : p.steps[i].max_gap \in Nat
           /\ p.confidence_threshold \in Nat
           /\ \A n \in 0 .. Len(p.steps) - 1 : 100 * n < p.confidence_threshold * Len(p.steps)
<1> DEFINE Good(q) ==
              /\ q.time_window \in Nat
              /\ q.confidence_threshold \in Nat /\ q.confidence_threshold > 67
              /\ \E n \in {2, 3} :
                    /\ Len(q.steps) = n /\ DOMAIN q.steps = 1 .. n
                    /\ q.steps[1].max_gap \in Nat /\ q.steps[2].max_gap \in Nat
                    /\ n = 3 => q.steps[3].max_gap \in Nat
<1>1. Good(p)
  <2>1. \A s, w, t : LET q == Pattern(s, w, t)
                     IN  q.steps = s /\ q.time_window = w /\ q.confidence_threshold = t
    BY DEF Pattern
  <2>2. \A l, f, r : \A g \in Nat : Step(l, f, r, g).max_gap \in Nat
    BY DEF Step
  <2>3. \A l1, f1, r1, l2, f2, r2 : \A g1, g2, w, t \in Nat :
           t > 67 => Good(Pattern(<<Step(l1, f1, r1, g1), Step(l2, f2, r2, g2)>>, w, t))
    BY <2>1, <2>2
  <2>4. \A l1, f1, r1, l2, f2, r2, l3, f3, r3 : \A g1, g2, g3, w, t \in Nat :
           t > 67 => Good(Pattern(<<Step(l1, f1, r1, g1), Step(l2, f2, r2, g2),
                                    Step(l3, f3, r3, g3)>>, w, t))
    BY <2>1, <2>2
  <2>5. 75 \in Nat /\ 75 > 67 /\ 80 \in Nat /\ 80 > 67 /\ 85 \in Nat /\ 85 > 67 /\ 90 \in Nat /\ 90 > 67
    OBVIOUS
  <2>6. /\ 5 \in Nat /\ 10 \in Nat /\ 15 \in Nat /\ 20 \in Nat /\ 30 \in Nat /\ 45 \in Nat
        /\ 60 \in Nat /\ 120 \in Nat
    OBVIOUS
  <2> HIDE DEF Good
  <2>7. Good(PowerShellDownloadExecute)
    BY <2>3, <2>4, <2>5, <2>6 DEF PowerShellDownloadExecute
  <2>8. Good(CredentialDumpLateralMovement)
    BY <2>3, <2>4, <2>5, <2>6 DEF CredentialDumpLateralMovement
  <2>9. Good(LivingOffTheLandPersistence)
    BY <2>3, <2>4, <2>5, <2>6 DEF LivingOffTheLandPersistence
  <2>10. Good(RansomwareEncryption)
    BY <2>3, <2>4, <2>5, <2>6 DEF RansomwareEncryption
  <2>11. Good(CloudExfiltrationRclone)
    BY <2>3, <2>4, <2>5, <2>6 DEF CloudExfiltrationRclone
  <2>12. Good(PhishingInitialAccess)
    BY <2>3, <2>4, <2>5, <2>6 DEF PhishingInitialAccess
  <2>13. Good(KerberoastingDiscovery)
    BY <2>3, <2>4, <2>5, <2>6 DEF KerberoastingDiscovery
  <2>14. Good(WebShellDrop)
    BY <2>3, <2>4, <2>5, <2>6 DEF WebShellDrop
  <2> QED
    BY <2>7, <2>8, <2>9, <2>10, <2>11, <2>12, <2>13, <2>14 DEF AttackPatterns
<1>2. /\ p.time_window \in Nat
      /\ p.confidence_threshold \in Nat /\ p.confidence_threshold > 67
  BY <1>1
<1>3. PICK n \in {2, 3} :
         /\ Len(p.steps) = n /\ DOMAIN p.steps = 1 .. n
         /\ p.steps[1].max_gap \in Nat /\ p.steps[2].max_gap \in Nat
         /\ n = 3 => p.steps[3].max_gap \in Nat
  BY <1>1
<1>4. ASSUME NEW i \in 1 .. Len(p.steps)
      PROVE  p.steps[i].max_gap \in Nat
  <2>1. i = 1 \/ i = 2 \/ (i = 3 /\ n = 3)
    BY <1>3
  <2> QED
    BY <1>3, <2>1
<1>5. ASSUME NEW m \in 0 .. Len(p.steps) - 1
      PROVE  100 * m < p.confidence_threshold * Len(p.steps)
  <2>1. PICK t \in Nat : t = p.confidence_threshold /\ t > 67
    BY <1>2
  <2>2. CASE n = 2
    <3>1. 100 * m < t * 2
      BY <1>3, <2>1, <2>2
    <3> QED
      BY <1>3, <2>1, <2>2, <3>1
  <2>3. CASE n = 3
    <3>1. 100 * m < t * 3
      BY <1>3, <2>1, <2>3
    <3> QED
      BY <1>3, <2>1, <2>3, <3>1
  <2> QED
    BY <1>3, <2>2, <2>3
<1> QED
  BY <1>2, <1>3, <1>4, <1>5

\* Where in the incident the alerts taken for the steps are: in order, each
\* fitting its step, none too late.
FoundAt(p, inc, m, at) ==
    /\ at \in [1 .. Len(m.taken) -> 1 .. Len(inc)]
    /\ \A i \in 1 .. Len(m.taken) - 1 : at[i] < at[i + 1]
    /\ \A i \in 1 .. Len(m.taken) :
          /\ m.taken[i] = inc[at[i]]
          /\ Fits(p.steps[i], m.taken[i])
          /\ i > 1 => m.taken[i].at - m.taken[i - 1].at <= p.steps[i].max_gap
          /\ m.taken[i].at - m.taken[1].at <= p.time_window

\* The score counts the steps taken with their features.
ScoreCounts(p, m) ==
    /\ m.score \in 0 .. Len(m.taken)
    /\ m.score = Len(m.taken) =>
          \A i \in 1 .. Len(m.taken) : p.steps[i].required_features \subseteq m.taken[i].features

\* What the loop knows after some of the alerts.
MatchingInv(p, inc, m) ==
    /\ \E A : inc \in Seq(A) /\ m.taken \in Seq(A)
    /\ \A i \in 1 .. Len(inc) : inc[i].at \in Nat
    /\ Len(m.taken) <= Len(p.steps)
    /\ \E at : FoundAt(p, inc, m, at)
    /\ ScoreCounts(p, m)
    /\ m = [taken |-> m.taken, score |-> m.score, stopped |-> m.stopped]

PatternInv ==
    /\ pattern = NoPattern => incident = <<>> /\ match = NoMatch
    /\ pattern # NoPattern => pattern \in AttackPatterns /\ MatchingInv(pattern, incident, match)

LEMMA NothingTaken ==
    ASSUME NEW p \in AttackPatterns
    PROVE  MatchingInv(p, <<>>, NoMatch)
<1>1. /\ NoMatch.taken = <<>> /\ NoMatch.score = 0
      /\ NoMatch = [taken |-> NoMatch.taken, score |-> NoMatch.score,
                    stopped |-> NoMatch.stopped]
  BY DEF NoMatch
<1>2. Len(p.steps) \in Nat \ {0}
  BY PatternFacts
<1>3. <<>> \in Seq({}) /\ NoMatch.taken \in Seq({}) /\ Len(NoMatch.taken) = 0
  BY <1>1
<1>4. FoundAt(p, <<>>, NoMatch, <<>>)
  BY <1>1, <1>3 DEF FoundAt
<1> QED
  BY <1>1, <1>2, <1>3, <1>4 DEF MatchingInv, ScoreCounts

\* One round of the loop.
LEMMA ConsiderKeeps ==
    ASSUME NEW p \in AttackPatterns, NEW inc, NEW m, MatchingInv(p, inc, m),
           NEW alert, alert.at \in Nat,
           NEW inc2, inc2 = Append(inc, alert), NEW m2, m2 = Consider(p, m, alert)
    PROVE  MatchingInv(p, inc2, m2)
<1>1. PICK A : inc \in Seq(A) /\ m.taken \in Seq(A)
  BY DEF MatchingInv
<1>2. PICK n \in Nat, k \in Nat, t \in Nat :
         n = Len(inc) /\ k = Len(m.taken) /\ t = Len(p.steps) /\ k <= t
  BY <1>1, PatternFacts DEF MatchingInv
<1>3. /\ inc2 \in Seq(A \union {alert}) /\ Len(inc2) = n + 1 /\ inc2[n + 1] = alert
      /\ \A i \in 1 .. n : inc2[i] = inc[i]
  BY <1>1, <1>2
<1>4. \A i \in 1 .. n + 1 : inc2[i].at \in Nat
  <2> SUFFICES ASSUME NEW i \in 1 .. n + 1
               PROVE  inc2[i].at \in Nat
    OBVIOUS
  <2>1. i \in 1 .. n \/ i = n + 1
    BY <1>2
  <2> QED
    BY <1>2, <1>3, <2>1 DEF MatchingInv
<1>5. PICK at : FoundAt(p, inc, m, at)
  BY DEF MatchingInv
<1>6. /\ at \in [1 .. k -> 1 .. n]
      /\ \A i \in 1 .. k - 1 : at[i] < at[i + 1]
      /\ \A i \in 1 .. k : /\ m.taken[i] = inc[at[i]]
                           /\ Fits(p.steps[i], m.taken[i])
                           /\ i > 1 => m.taken[i].at - m.taken[i - 1].at
                                          <= p.steps[i].max_gap
                           /\ m.taken[i].at - m.taken[1].at <= p.time_window
  BY <1>2, <1>5 DEF FoundAt
<1>7. \A i \in 1 .. k : m.taken[i].at \in Nat
  BY <1>2, <1>6 DEF MatchingInv
<1>8. CASE m2.taken = m.taken /\ m2.score = m.score
           /\ m2 = [taken |-> m2.taken, score |-> m2.score, stopped |-> m2.stopped]
  <2>1. FoundAt(p, inc2, m2, at)
    <3>1. at \in [1 .. k -> 1 .. n + 1]
      BY <1>2, <1>6
    <3>2. \A i \in 1 .. k : m.taken[i] = inc2[at[i]]
      BY <1>3, <1>6
    <3> QED
      BY <1>2, <1>3, <1>6, <1>8, <3>1, <3>2 DEF FoundAt
  <2>2. ScoreCounts(p, m2)
    BY <1>8 DEF MatchingInv, ScoreCounts
  <2>3. inc2 \in Seq(A \union {alert}) /\ m2.taken \in Seq(A \union {alert})
    BY <1>1, <1>3, <1>8
  <2> QED
    BY <1>2, <1>3, <1>4, <1>8, <2>1, <2>2, <2>3 DEF MatchingInv
<1>9. PICK step : step = p.steps[k + 1]
  OBVIOUS
<1>10. CASE /\ k < t /\ ~Outside(p, m, alert) /\ ~TooLate(m, step, alert)
            /\ Fits(step, alert)
            /\ m2 = [m EXCEPT !.taken = Append(@, alert),
                                      !.score = @ + FeatureScore(step, alert)]
  <2>1. /\ m2.taken = Append(m.taken, alert)
        /\ m2.score = m.score + FeatureScore(step, alert)
        /\ m2 = [taken |-> m2.taken, score |-> m2.score, stopped |-> m2.stopped]
    <3>1. m = [taken |-> m.taken, score |-> m.score, stopped |-> m.stopped]
      BY DEF MatchingInv
    <3> QED
      BY <1>10, <3>1
  <2>2. /\ m2.taken \in Seq(A \union {alert}) /\ Len(m2.taken) = k + 1
        /\ m2.taken[k + 1] = alert
        /\ \A i \in 1 .. k : m2.taken[i] = m.taken[i]
    BY <1>1, <1>2, <2>1
  <2>3. PICK new : new = [i \in 1 .. k + 1 |-> IF i <= k THEN at[i] ELSE n + 1]
    OBVIOUS
  <2>4. /\ new \in [1 .. k + 1 -> 1 .. n + 1] /\ new[k + 1] = n + 1
        /\ \A i \in 1 .. k : new[i] = at[i]
    BY <1>2, <1>6, <2>3
  <2>5. \A i \in 1 .. k : new[i] < new[i + 1]
    <3> SUFFICES ASSUME NEW i \in 1 .. k
                 PROVE  new[i] < new[i + 1]
      OBVIOUS
    <3>1. CASE i = k
      BY <1>2, <1>6, <2>4, <3>1
    <3>2. CASE i # k
      <4>1. i \in 1 .. k - 1 /\ i + 1 \in 1 .. k
        BY <1>2, <3>2
      <4> QED
        BY <1>6, <2>4, <4>1
    <3> QED
      BY <3>1, <3>2
  <2>6. ASSUME NEW i \in 1 .. k
        PROVE  /\ m2.taken[i] = inc2[new[i]]
               /\ Fits(p.steps[i], m2.taken[i])
               /\ i > 1 => m2.taken[i].at - m2.taken[i - 1].at <= p.steps[i].max_gap
               /\ m2.taken[i].at - m2.taken[1].at <= p.time_window
    <3>1. m2.taken[i] = m.taken[i] /\ m2.taken[1] = m.taken[1]
      BY <1>2, <2>2
    <3>2. i > 1 => m2.taken[i - 1] = m.taken[i - 1]
      BY <1>2, <2>2
    <3>3. inc2[new[i]] = inc[at[i]]
      BY <1>3, <1>6, <2>4
    <3> QED
      BY <1>6, <3>1, <3>2, <3>3
  <2>7. /\ m2.taken[k + 1] = inc2[new[k + 1]]
        /\ Fits(p.steps[k + 1], m2.taken[k + 1])
        /\ k + 1 > 1 => m2.taken[k + 1].at - m2.taken[k].at <= p.steps[k + 1].max_gap
        /\ m2.taken[k + 1].at - m2.taken[1].at <= p.time_window
    <3>1. p.steps[k + 1].max_gap \in Nat /\ p.time_window \in Nat
      <4>1. k + 1 \in 1 .. Len(p.steps)
        BY <1>2, <1>10
      <4> QED
        BY <4>1, PatternFacts
    <3>2. CASE k = 0
      BY <1>3, <1>9, <1>10, <2>2, <2>4, <3>1, <3>2
    <3>3. CASE k # 0
      <4>1. /\ m.taken # <<>> /\ Last(m.taken) = m.taken[k]
            /\ Head(m.taken) = m.taken[1] /\ k \in 1 .. k /\ 1 \in 1 .. k
        BY <1>1, <1>2, <3>3 DEF Last
      <4>2. ~(alert.at - m.taken[1].at > p.time_window)
        BY <1>10, <4>1 DEF Outside
      <4>3. ~(alert.at - m.taken[k].at > step.max_gap)
        BY <1>10, <4>1 DEF TooLate
      <4>4. m.taken[1].at \in Nat /\ m.taken[k].at \in Nat
        BY <1>7, <4>1
      <4>5. /\ m2.taken[1] = m.taken[1] /\ m2.taken[k] = m.taken[k] /\ m2.taken[k + 1] = alert
            /\ inc2[new[k + 1]] = alert
        BY <1>3, <2>2, <2>4, <4>1
      <4>6. alert.at - m.taken[k].at <= step.max_gap /\ alert.at - m.taken[1].at <= p.time_window
        BY <1>9, <3>1, <4>2, <4>3, <4>4
      <4> QED
        BY <1>9, <1>10, <4>5, <4>6
    <3> QED
      BY <3>2, <3>3
  <2>8. FoundAt(p, inc2, m2, new)
    <3>1. \A i \in 1 .. k + 1 : i \in 1 .. k \/ i = k + 1
      BY <1>2
    <3>2. (k + 1) - 1 = k
      BY <1>2
    <3> QED
      BY <1>3, <2>2, <2>4, <2>5, <2>6, <2>7, <3>1, <3>2 DEF FoundAt
  <2>9. ScoreCounts(p, m2)
    <3>1. \/ FeatureScore(step, alert) = 0
          \/ FeatureScore(step, alert) = 1 /\ step.required_features \subseteq alert.features
      BY DEF FeatureScore
    <3>2. m.score \in Nat /\ m.score <= k
      BY <1>2 DEF MatchingInv, ScoreCounts
    <3>3. m2.score \in 0 .. k + 1
      BY <1>2, <2>1, <3>1, <3>2
    <3>4. ASSUME m2.score = k + 1, NEW i \in 1 .. k + 1
          PROVE  p.steps[i].required_features \subseteq m2.taken[i].features
      <4>1. m.score = k /\ step.required_features \subseteq alert.features
        BY <1>2, <2>1, <3>1, <3>2, <3>4
      <4>2. CASE i = k + 1
        BY <1>9, <2>2, <4>1, <4>2
      <4>3. CASE i \in 1 .. k
        BY <1>2, <2>2, <4>1, <4>3 DEF MatchingInv, ScoreCounts
      <4> QED
        BY <1>2, <4>2, <4>3
    <3> QED
      BY <2>2, <3>3, <3>4 DEF ScoreCounts
  <2>10. k + 1 <= Len(p.steps)
    BY <1>2, <1>10
  <2> QED
    BY <1>3, <1>4, <2>1, <2>2, <2>8, <2>9, <2>10 DEF MatchingInv
<1>11. CASE m2 = [m EXCEPT !.stopped = TRUE]
  <2>1. m = [taken |-> m.taken, score |-> m.score, stopped |-> m.stopped]
    BY DEF MatchingInv
  <2> QED
    BY <1>8, <1>11, <2>1
<1>12. CASE m2 = m
  BY <1>8, <1>12 DEF MatchingInv
<1>13. \/ m2 = m \/ m2 = [m EXCEPT !.stopped = TRUE]
       \/ /\ k # t /\ ~Outside(p, m, alert) /\ ~TooLate(m, step, alert)
          /\ Fits(step, alert)
          /\ m2 = [m EXCEPT !.taken = Append(@, alert),
                                    !.score = @ + FeatureScore(step, alert)]
  BY <1>2, <1>9 DEF Consider
<1> QED
  BY <1>2, <1>10, <1>11, <1>12, <1>13

LEMMA PatternStart == PatternInit => PatternInv
  BY DEF PatternInit, PatternInv

LEMMA PatternStep == PatternInv /\ [PatternNext]_patternVars => PatternInv'
<1> SUFFICES ASSUME PatternInv, [PatternNext]_patternVars
             PROVE  PatternInv'
  OBVIOUS
<1>1. CASE UNCHANGED patternVars
  BY <1>1 DEF patternVars, PatternInv
<1>2. ASSUME NEW p \in AttackPatterns, NEW at \in AlertTimes, NEW alert \in AlertsFor(p, at),
             Extend(p, alert)
      PROVE  PatternInv'
  <2>1. /\ pattern' = p /\ pattern \in {NoPattern, p} /\ incident' = Append(incident, alert)
        /\ match' = Consider(p, match, alert)
    BY <1>2 DEF Extend
  <2>2. alert.at \in Nat
    BY PatternAssumption DEF AlertsFor
  <2>3. p # NoPattern
    BY PatternFacts DEF NoPattern, Pattern
  <2>4. MatchingInv(p, incident, match)
    BY <2>1, NothingTaken DEF PatternInv
  <2>5. MatchingInv(p, incident', match')
    BY <2>1, <2>2, <2>4, ConsiderKeeps
  <2> QED
    BY <2>1, <2>3, <2>5 DEF PatternInv
<1> QED
  BY <1>1, <1>2 DEF PatternNext

\* A pattern that match_pattern reports occurs among the alerts of the incident,
\* whatever alerts come and however many: no threshold is reached before every
\* step has been taken with its features, and the alerts taken are in order and
\* in time (match_pattern, PATTERNS).
THEOREM ReportedPatternsAlwaysOccur == PatternSpec => []ReportedPatternsOccur
<1>1. PatternInv => ReportedPatternsOccur
  <2> SUFFICES ASSUME PatternInv, incident # <<>>, Reported(match)
               PROVE  Occurs
    BY DEF ReportedPatternsOccur
  <2>1. pattern \in AttackPatterns /\ MatchingInv(pattern, incident, match)
    BY DEF PatternInv
  <2>2. PICK A : incident \in Seq(A) /\ match.taken \in Seq(A)
    BY <2>1 DEF MatchingInv
  <2>3. PICK k \in Nat, t \in Nat : k = Len(match.taken) /\ t = Total /\ k <= t /\ t # 0
    BY <2>1, <2>2, PatternFacts DEF MatchingInv, Total
  <2>4. PICK at : FoundAt(pattern, incident, match, at)
    BY <2>1 DEF MatchingInv
  <2>5. match.score \in 0 .. k
    BY <2>1, <2>3 DEF MatchingInv, ScoreCounts
  <2>6. k = t /\ match.score = k
    <3>1. PICK n \in Nat : n = match.score
      BY <2>3, <2>5
    <3>2. 100 * n >= pattern.confidence_threshold * t
      BY <2>3, <3>1 DEF Reported
    <3>3. n <= t - 1 => 100 * n < pattern.confidence_threshold * t
      BY <2>1, <2>3, PatternFacts DEF Total
    <3>4. PICK x \in Nat : x = pattern.confidence_threshold * t
      BY <2>1, <2>3, PatternFacts DEF Total
    <3> QED
      BY <2>3, <2>5, <3>1, <3>2, <3>3, <3>4
  <2>7. /\ at \in [1 .. Total -> 1 .. Len(incident)]
        /\ \A i \in 1 .. Total - 1 : at[i] < at[i + 1]
        /\ \A i \in 1 .. Total : /\ match.taken[i] = incident[at[i]]
                                 /\ Fits(pattern.steps[i], match.taken[i])
                                 /\ i > 1 => match.taken[i].at - match.taken[i - 1].at
                                                <= pattern.steps[i].max_gap
                                 /\ match.taken[i].at - match.taken[1].at <= pattern.time_window
    BY <2>3, <2>4, <2>6 DEF FoundAt
  <2>8. \A i \in 1 .. Total : pattern.steps[i].required_features \subseteq incident[at[i]].features
    BY <2>1, <2>3, <2>6, <2>7 DEF MatchingInv, ScoreCounts
  <2>9. \A i \in 1 .. Total : i > 1 => i - 1 \in 1 .. Total
    BY <2>3
  <2>10. 1 \in 1 .. Total /\ Total \in 1 .. Total
    BY <2>3
  <2>11. \A i \in 1 .. Total : i > 1 => incident[at[i]].at - incident[at[i - 1]].at
                                           <= pattern.steps[i].max_gap
    BY <2>7, <2>9
  <2> QED
    BY <2>7, <2>8, <2>10, <2>11 DEF Occurs
<1> QED
  BY <1>1, PatternStart, PatternStep, PTL DEF PatternSpec

-----------------------------------------------------------------------------
(* Incidents *)

\* An alert joins the last cluster or opens the next one.
Joined(s, a, t) ==
    /\ Len(s) > 0 /\ Joins(s[Len(s)], a) /\ Len(t) = Len(s)
    /\ \A k \in 1 .. Len(s) : k < Len(s) => t[k] = s[k]
    /\ t[Len(s)] = Append(s[Len(s)], a)

Opened(s, a, t) ==
    /\ Len(s) > 0 => ~ Joins(s[Len(s)], a)
    /\ Len(t) = Len(s) + 1
    /\ \A k \in 1 .. Len(s) : t[k] = s[k]
    /\ t[Len(s) + 1] = <<a>>

\* These are the only two ways.
LEMMA PutFacts ==
    ASSUME NEW B, NEW s \in Seq(Seq(B)), NEW a \in B, NEW t, t = PutInCluster(s, a)
    PROVE  t \in Seq(Seq(B)) /\ (Joined(s, a, t) \/ Opened(s, a, t))
<1>1. Len(s) \in Nat /\ DOMAIN s = 1 .. Len(s) /\ (s # <<>> <=> Len(s) > 0)
      /\ \A k \in 1 .. Len(s) : s[k] \in Seq(B)
  BY EmptySeq
<1>2. CASE s # <<>> /\ Joins(Last(s), a)
  <2>1. t = [s EXCEPT ![Len(s)] = Append(@, a)]
    BY <1>2 DEF PutInCluster
  <2>2. Len(s) \in 1 .. Len(s) /\ Append(s[Len(s)], a) \in Seq(B)
    BY <1>1, <1>2
  <2>3. t = [k \in 1 .. Len(s) |-> IF k = Len(s) THEN Append(s[Len(s)], a) ELSE s[k]]
    BY <1>1, <2>1, <2>2
  <2>4. t \in Seq(Seq(B)) /\ Len(t) = Len(s)
    BY <1>1, <2>1, <2>2, ExceptSeq
  <2>5. Len(s) > 0 /\ Joins(s[Len(s)], a)
    BY <1>1, <1>2 DEF Last
  <2>6. t[Len(s)] = Append(s[Len(s)], a) /\ \A k \in 1 .. Len(s) : k < Len(s) => t[k] = s[k]
    BY <2>2, <2>3
  <2> QED
    BY <2>4, <2>5, <2>6 DEF Joined
<1>3. CASE ~(s # <<>> /\ Joins(Last(s), a))
  <2>1. t = Append(s, <<a>>) /\ <<a>> \in Seq(B)
    BY <1>3 DEF PutInCluster
  <2>2. Len(s) > 0 => ~ Joins(s[Len(s)], a)
    BY <1>1, <1>3 DEF Last
  <2>3. t \in Seq(Seq(B)) /\ Len(t) = Len(s) + 1 /\ t[Len(s) + 1] = <<a>>
        /\ \A k \in 1 .. Len(s) : t[k] = s[k]
    BY <2>1, AppendProperties
  <2> QED
    BY <2>2, <2>3 DEF Opened
<1> QED
  BY <1>2, <1>3

\* When a cluster begins, which is what the window is measured from.
Start(cluster) == cluster[1].at

\* What is in clusters, and that putting an alert into one adds just this alert.
Holds(s, x) == \E k \in 1 .. Len(s) : \E n \in 1 .. Len(s[k]) : x = s[k][n]

\* Members of a union.
LEMMA InUnion ==
    ASSUME NEW s, NEW x
    PROVE  x \in Clustered(s)
              <=> \E k \in DOMAIN s : \E n \in DOMAIN s[k] : x = s[k][n]
BY DEF Clustered, ToSet

\* What clusters hold is what is clustered.
LEMMA InClusters ==
    ASSUME NEW B, NEW s \in Seq(Seq(B)), NEW x
    PROVE  x \in Clustered(s) <=> Holds(s, x)
<1>1. DOMAIN s = 1 .. Len(s) /\ \A k \in 1 .. Len(s) : DOMAIN s[k] = 1 .. Len(s[k])
  OBVIOUS
<1>2. x \in Clustered(s) <=> \E k \in DOMAIN s : \E n \in DOMAIN s[k] : x = s[k][n]
  BY InUnion
<1>3. ASSUME NEW k \in DOMAIN s, NEW n \in DOMAIN s[k], x = s[k][n] PROVE Holds(s, x)
  <2>1. k \in 1 .. Len(s) /\ n \in 1 .. Len(s[k])
    BY <1>1
  <2> QED
    BY <1>3, <2>1 DEF Holds
<1>4. ASSUME NEW k \in 1 .. Len(s), NEW n \in 1 .. Len(s[k]), x = s[k][n]
      PROVE  k \in DOMAIN s /\ n \in DOMAIN s[k]
  BY <1>1
<1>5. ASSUME Holds(s, x) PROVE \E k \in DOMAIN s : \E n \in DOMAIN s[k] : x = s[k][n]
  <2>1. PICK k \in 1 .. Len(s) : \E n \in 1 .. Len(s[k]) : x = s[k][n]
    BY <1>5 DEF Holds
  <2>2. PICK n \in 1 .. Len(s[k]) : x = s[k][n]
    BY <2>1
  <2> QED
    BY <1>4, <2>2
<1> QED
  BY <1>2, <1>3, <1>5

\* An alert that is put in a cluster is all that is new in them.
LEMMA PutMembers ==
    ASSUME NEW B, NEW s \in Seq(Seq(B)), NEW a \in B, NEW t, t = PutInCluster(s, a)
    PROVE  \A x : Holds(t, x) <=> x = a \/ Holds(s, x)
<1> DEFINE From == \A k \in 1 .. Len(t) : \A n \in 1 .. Len(t[k]) : t[k][n] = a \/ Holds(s, t[k][n])
           Kept == \A k \in 1 .. Len(s) : \A n \in 1 .. Len(s[k]) :
                      k \in 1 .. Len(t) /\ n \in 1 .. Len(t[k]) /\ t[k][n] = s[k][n]
<1>1. Len(s) \in Nat /\ \A k \in 1 .. Len(s) : s[k] \in Seq(B) /\ Len(s[k]) \in Nat
  OBVIOUS
<1>2. \A k \in 1 .. Len(s) : \A n \in 1 .. Len(s[k]) : Holds(s, s[k][n])
  BY DEF Holds
<1>3. ASSUME Joined(s, a, t) PROVE Holds(t, a) /\ From /\ Kept
  <2>1. PICK m : m = Len(s)
    OBVIOUS
  <2>2. /\ m \in 1 .. Len(s) /\ Len(t) = Len(s) /\ t[m] = Append(s[m], a)
        /\ \A k \in 1 .. Len(s) : k # m => t[k] = s[k]
    BY <1>1, <1>3, <2>1 DEF Joined
  <2>3. /\ Len(t[m]) = Len(s[m]) + 1 /\ t[m][Len(s[m]) + 1] = a
        /\ \A n \in 1 .. Len(s[m]) : t[m][n] = s[m][n]
    BY <1>1, <2>2, AppendProperties
  <2>4. \A n \in 1 .. Len(t[m]) : n \in 1 .. Len(s[m]) \/ n = Len(s[m]) + 1
    BY <1>1, <2>2, <2>3
  <2>5. Len(s[m]) + 1 \in 1 .. Len(t[m]) /\ 1 .. Len(s[m]) \subseteq 1 .. Len(t[m])
    BY <1>1, <2>2, <2>3
  <2>6. Holds(t, a)
    BY <2>2, <2>3, <2>5 DEF Holds
  <2>7. ASSUME NEW k \in 1 .. Len(t), NEW n \in 1 .. Len(t[k])
        PROVE  t[k][n] = a \/ Holds(s, t[k][n])
    <3>1. CASE k = m
      BY <1>2, <2>2, <2>3, <2>4, <3>1
    <3>2. CASE k # m
      BY <1>2, <2>2, <3>2
    <3> QED
      BY <3>1, <3>2
  <2>8. Kept
    BY <2>2, <2>3, <2>5
  <2> QED
    BY <2>6, <2>7, <2>8
<1>4. ASSUME Opened(s, a, t) PROVE Holds(t, a) /\ From /\ Kept
  <2>1. PICK m : m = Len(s) + 1
    OBVIOUS
  <2>2. /\ m \in 1 .. Len(t) /\ Len(t) = m /\ t[m] = <<a>>
        /\ \A k \in 1 .. Len(s) : t[k] = s[k]
    BY <1>1, <1>4, <2>1 DEF Opened
  <2>3. Len(t[m]) = 1 /\ t[m][1] = a
    BY <2>2
  <2>4. \A k \in 1 .. Len(t) : k \in 1 .. Len(s) \/ k = m
    BY <1>1, <2>1, <2>2
  <2>5. 1 .. Len(s) \subseteq 1 .. Len(t)
    BY <1>1, <2>1, <2>2
  <2>6. Holds(t, a)
    BY <2>2, <2>3 DEF Holds
  <2>7. From
    BY <1>2, <2>2, <2>3, <2>4
  <2>8. Kept
    BY <2>2, <2>5
  <2> QED
    BY <2>6, <2>7, <2>8
<1>5. Holds(t, a) /\ From /\ Kept
  BY <1>3, <1>4, PutFacts
<1>6. ASSUME NEW x, Holds(t, x) PROVE x = a \/ Holds(s, x)
  <2>1. PICK k \in 1 .. Len(t) : \E n \in 1 .. Len(t[k]) : x = t[k][n]
    BY <1>6 DEF Holds
  <2>2. PICK n \in 1 .. Len(t[k]) : x = t[k][n]
    BY <2>1
  <2> QED
    BY <1>5, <2>2
<1>7. ASSUME NEW x, Holds(s, x) PROVE Holds(t, x)
  <2>1. PICK k \in 1 .. Len(s) : \E n \in 1 .. Len(s[k]) : x = s[k][n]
    BY <1>7 DEF Holds
  <2>2. PICK n \in 1 .. Len(s[k]) : x = s[k][n]
    BY <2>1
  <2>3. k \in 1 .. Len(t) /\ n \in 1 .. Len(t[k]) /\ t[k][n] = x
    BY <1>5, <2>2
  <2> QED
    BY <2>3 DEF Holds
<1> QED
  BY <1>5, <1>6, <1>7

\* The clusters of an entity are not empty, no longer than the window, and begin
\* more than a window apart.
CutUp(s) ==
    /\ \A k \in 1 .. Len(s) :
          /\ Len(s[k]) > 0
          /\ \A n \in 1 .. Len(s[k]) : /\ Start(s[k]) <= s[k][n].at
                                       /\ s[k][n].at <= Start(s[k]) + TimeWindow
    /\ \A k, l \in 1 .. Len(s) : k < l => Start(s[k]) + TimeWindow < Start(s[l])

\* What is left to cluster is not before what is in clusters.
InOrder(s, left) ==
    \A k \in 1 .. Len(s) : \A n \in 1 .. Len(s[k]) : \A a \in left : s[k][n].at <= a.at

\* What the batch and the clusters are made of.
CorrelationTypeOK ==
    /\ IsFiniteSet(batch)
    /\ batch \subseteq [entity : CorrelatedEntities, at : Nat, kind : AlertKinds, place : Nat]
    /\ DOMAIN clusters = CorrelatedEntities
    /\ \A e \in CorrelatedEntities : clusters[e] \in Seq(Seq(Group(e)))

\* Every entity is cut up and in order, finished or not.
CorrelationInv ==
    /\ CorrelationTypeOK
    /\ \A e \in CorrelatedEntities : CutUp(clusters[e]) /\ InOrder(clusters[e], Left(e))

\* Putting the next alert in a cluster keeps the clusters apart and short.
LEMMA CutKeeps ==
    ASSUME NEW G, \A x \in G : x.at \in Nat, NEW s \in Seq(Seq(G)), CutUp(s), NEW a \in G,
           InOrder(s, {a})
    PROVE  CutUp(PutInCluster(s, a))
<1>1. PICK t : t = PutInCluster(s, a)
  OBVIOUS
<1>2. TimeWindow \in Nat
  BY CorrelationAssumption
<1>3. Len(s) \in Nat /\ \A k \in 1 .. Len(s) : s[k] \in Seq(G) /\ Len(s[k]) \in Nat
  OBVIOUS
<1>4. \A k \in 1 .. Len(s) : /\ Len(s[k]) > 0
                             /\ \A n \in 1 .. Len(s[k]) :
                                   s[k][n] \in G /\ Start(s[k]) <= s[k][n].at
                                   /\ s[k][n].at <= Start(s[k]) + TimeWindow
  BY <1>3 DEF CutUp
<1>5. \A k, l \in 1 .. Len(s) : k < l => Start(s[k]) + TimeWindow < Start(s[l])
  BY DEF CutUp
<1>6. ASSUME NEW k \in 1 .. Len(s)
      PROVE  Start(s[k]) \in Nat /\ Start(s[k]) <= a.at /\ Head(s[k]).at = Start(s[k])
  <2>1. s[k] # <<>> /\ 1 \in 1 .. Len(s[k])
    BY <1>3, <1>4
  <2>2. s[k][1] \in G /\ s[k][1].at <= a.at /\ Head(s[k]) = s[k][1]
    BY <1>3, <1>4, <2>1 DEF InOrder
  <2> QED
    BY <2>2 DEF Start
<1>7. CASE Joined(s, a, t)
  <2>1. PICK m : m = Len(s) /\ m \in 1 .. Len(s) /\ Joins(s[m], a) /\ Len(t) = m
                 /\ t[m] = Append(s[m], a) /\ \A k \in 1 .. m : k # m => t[k] = s[k]
    <3>1. /\ Len(s) \in 1 .. Len(s) /\ Joins(s[Len(s)], a) /\ Len(t) = Len(s)
          /\ t[Len(s)] = Append(s[Len(s)], a)
          /\ \A k \in 1 .. Len(s) : k # Len(s) => t[k] = s[k]
      BY <1>3, <1>7 DEF Joined
    <3> QED
      BY <3>1
  <2>2. /\ t[m][1] = s[m][1] /\ Len(t[m]) = Len(s[m]) + 1
        /\ t[m][Len(s[m]) + 1] = a
        /\ \A n \in 1 .. Len(s[m]) : t[m][n] = s[m][n]
    <3>1. s[m] \in Seq(G) /\ Len(s[m]) \in Nat /\ Len(s[m]) > 0 /\ t[m] = Append(s[m], a)
      BY <1>3, <1>4, <2>1
    <3> QED
      BY <3>1, AppendProperties
  <2>7. Start(t[m]) = Start(s[m])
    BY <2>2 DEF Start
  <2>3. a.at <= Start(s[m]) + TimeWindow /\ a.at \in Nat
    BY <1>2, <1>6, <2>1 DEF Joins
  <2>4. \A k \in 1 .. Len(s) : k # m => t[k] = s[k]
    BY <2>1
  <2>5. ASSUME NEW k \in 1 .. Len(t)
        PROVE  /\ Len(t[k]) > 0 /\ Start(t[k]) = Start(s[k])
               /\ \A n \in 1 .. Len(t[k]) : t[k][n] \in G /\ Start(t[k]) <= t[k][n].at
                                            /\ t[k][n].at <= Start(t[k]) + TimeWindow
    <3>1. CASE k # m
      BY <1>4, <2>1, <2>4, <3>1
    <3>2. CASE k = m
      <4>1. ASSUME NEW n \in 1 .. Len(t[m])
            PROVE  t[m][n] \in G /\ Start(t[m]) <= t[m][n].at
                   /\ t[m][n].at <= Start(t[m]) + TimeWindow
        <5>1. n \in 1 .. Len(s[m]) \/ n = Len(s[m]) + 1
          BY <1>3, <2>1, <2>2
        <5>2. CASE n \in 1 .. Len(s[m])
          BY <1>4, <2>1, <2>2, <2>7, <5>2
        <5>3. CASE n = Len(s[m]) + 1
          BY <1>6, <2>1, <2>2, <2>3, <2>7, <5>3
        <5> QED
          BY <5>1, <5>2, <5>3
      <4>2. Len(t[m]) > 0
        BY <1>3, <2>1, <2>2
      <4> QED
        BY <2>7, <3>2, <4>1, <4>2
    <3> QED
      BY <3>1, <3>2
  <2> QED
    BY <1>1, <1>5, <2>1, <2>5 DEF CutUp
<1>8. CASE Opened(s, a, t)
  <2>1. PICK m : m = Len(s) + 1 /\ m \in Nat /\ t[m] = <<a>> /\ Len(t) = m
                 /\ \A k \in 1 .. Len(s) : t[k] = s[k]
    BY <1>3, <1>8 DEF Opened
  <2>2. Len(t[m]) = 1 /\ t[m][1] = a /\ a.at \in Nat /\ Start(t[m]) = a.at
    BY <2>1 DEF Start
  <2>3. \A k \in 1 .. Len(t) : k = m \/ k \in 1 .. Len(s)
    BY <1>3, <2>1
  <2>4. \A k \in 1 .. Len(s) : Start(s[k]) + TimeWindow < a.at
    <3>1. SUFFICES ASSUME Len(s) > 0 PROVE \A k \in 1 .. Len(s) : Start(s[k]) + TimeWindow < a.at
      BY <1>3
    <3>2. PICK p : p = Len(s) /\ p \in 1 .. Len(s) /\ \A k \in 1 .. Len(s) : k = p \/ k < p
      BY <1>3, <3>1
    <3>3. Start(s[p]) + TimeWindow < a.at
      BY <1>2, <1>8, <1>6, <2>2, <3>1, <3>2 DEF Joins, Opened
    <3>4. ASSUME NEW k \in 1 .. Len(s), k < p PROVE Start(s[k]) + TimeWindow < a.at
      <4>1. Start(s[k]) + TimeWindow < Start(s[p])
        BY <1>5, <3>2, <3>4
      <4>2. Start(s[k]) \in Nat /\ Start(s[p]) \in Nat
        BY <1>6, <3>2
      <4> QED
        BY <1>2, <2>2, <3>3, <4>1, <4>2
    <3> QED
      BY <3>2, <3>3, <3>4
  <2>5. ASSUME NEW k \in 1 .. Len(t)
        PROVE  /\ Len(t[k]) > 0
               /\ \A n \in 1 .. Len(t[k]) : t[k][n] \in G /\ Start(t[k]) <= t[k][n].at
                                            /\ t[k][n].at <= Start(t[k]) + TimeWindow
    <3>1. CASE k = m
      BY <1>2, <2>2, <3>1
    <3>2. CASE k \in 1 .. Len(s)
      BY <1>4, <2>1, <3>2
    <3> QED
      BY <2>3, <3>1, <3>2
  <2>6. ASSUME NEW k \in 1 .. Len(t), NEW l \in 1 .. Len(t), k < l
        PROVE  Start(t[k]) + TimeWindow < Start(t[l])
    <3>1. k \in 1 .. Len(s) /\ t[k] = s[k]
      BY <1>3, <2>1, <2>6
    <3>2. CASE l = m
      BY <2>2, <2>4, <3>1, <3>2
    <3>3. CASE l \in 1 .. Len(s)
      BY <1>5, <2>1, <2>6, <3>1, <3>3
    <3> QED
      BY <2>3, <3>2, <3>3
  <2> QED
    BY <1>1, <2>5, <2>6 DEF CutUp
<1> QED
  <2>1. Joined(s, a, t) \/ Opened(s, a, t)
    BY <1>1, PutFacts
  <2> QED
    BY <1>1, <1>7, <1>8, <2>1

\* And what is left then is still not before them.
LEMMA OrderKeeps ==
    ASSUME NEW G, \A x \in G : x.at \in Nat, NEW s \in Seq(Seq(G)), NEW a \in G,
           NEW left, left \subseteq G, a \in left, InOrder(s, left),
           \A b \in left \ {a} : Before(a, b)
    PROVE  InOrder(PutInCluster(s, a), left \ {a})
<1>1. PICK t : t = PutInCluster(s, a)
  OBVIOUS
<1>2. \A b \in left \ {a} : a.at <= b.at
  BY DEF Before
<1>3. ASSUME NEW k \in 1 .. Len(t), NEW n \in 1 .. Len(t[k]), NEW b \in left \ {a}
      PROVE  t[k][n].at <= b.at
  <2>1. t[k][n] = a \/ Holds(s, t[k][n])
    <3>1. Holds(t, t[k][n])
      BY DEF Holds
    <3> QED
      BY <1>1, <3>1, PutMembers
  <2>2. \A x : Holds(s, x) => x.at <= b.at
    BY DEF InOrder, Holds
  <2> QED
    BY <1>2, <2>1, <2>2
<1> QED
  BY <1>1, <1>3 DEF InOrder

\* No clusters are cut up and in order.
LEMMA NoClusters == \A G, left : <<>> \in Seq(Seq(G)) /\ CutUp(<<>>) /\ InOrder(<<>>, left)
<1>1. \A k : k \notin 1 .. Len(<<>>)
  OBVIOUS
<1>2. \A G : <<>> \in Seq(Seq(G))
  OBVIOUS
<1> QED
  BY <1>1, <1>2 DEF CutUp, InOrder

\* Nothing is clustered at first.
LEMMA CorrelationStart == CorrelationInit => CorrelationInv
<1> SUFFICES ASSUME CorrelationInit PROVE CorrelationInv
  OBVIOUS
<1>1. IsFiniteSet(batch) /\ DOMAIN clusters = CorrelatedEntities
      /\ batch \subseteq [entity : CorrelatedEntities, at : Nat, kind : AlertKinds, place : Nat]
  BY FS_EmptySet DEF CorrelationInit
<1>2. \A e \in CorrelatedEntities : clusters[e] = <<>>
  BY DEF CorrelationInit
<1> QED
  BY <1>1, <1>2, NoClusters DEF CorrelationInv, CorrelationTypeOK

\* Handing over changes no cluster; clustering changes one.
LEMMA CorrelationStep == CorrelationInv /\ [CorrelationNext]_correlationVars => CorrelationInv'
<1> SUFFICES ASSUME CorrelationInv, [CorrelationNext]_correlationVars PROVE CorrelationInv'
  OBVIOUS
<1>1. CASE UNCHANGED correlationVars
  <2>1. batch' = batch /\ clusters' = clusters
    BY <1>1 DEF correlationVars
  <2>2. \A e : Group(e)' = Group(e) /\ Left(e)' = Left(e)
    BY <2>1 DEF Group, Left
  <2> QED
    BY <2>1, <2>2 DEF CorrelationInv, CorrelationTypeOK
<1>2. ASSUME NEW e \in CorrelatedEntities, NEW at \in 0 .. CorrelationEnd, NEW kind \in AlertKinds,
             HandOver(e, at, kind)
      PROVE  CorrelationInv'
  <2>1. clusters' = clusters /\ \A f \in CorrelatedEntities : clusters[f] = <<>>
    BY <1>2 DEF HandOver
  <2>2. IsFiniteSet(batch) /\ DOMAIN clusters = CorrelatedEntities
        /\ batch \subseteq [entity : CorrelatedEntities, at : Nat, kind : AlertKinds, place : Nat]
    BY DEF CorrelationInv, CorrelationTypeOK
  <2>3. PICK new : /\ new = [entity |-> e, at |-> at, kind |-> kind,
                             place |-> Cardinality(batch)]
                   /\ batch' = batch \union {new}
    BY <1>2 DEF HandOver
  <2>4. new \in [entity : CorrelatedEntities, at : Nat, kind : AlertKinds, place : Nat]
    BY <2>2, <2>3, FS_CardinalityType
  <2>5. IsFiniteSet(batch')
    BY <2>2, <2>3, FS_AddElement
  <2> QED
    BY <2>1, <2>2, <2>3, <2>4, <2>5, NoClusters DEF CorrelationInv, CorrelationTypeOK
<1>3. ASSUME NEW e \in CorrelatedEntities, Cluster(e) PROVE CorrelationInv'
  <2>1. batch' = batch /\ \A f \in CorrelatedEntities : Group(f)' = Group(f)
    BY <1>3 DEF Cluster, Group
  <2>2. PICK a \in Left(e) : /\ \A b \in Left(e) \ {a} : Before(a, b)
                            /\ clusters' = [clusters EXCEPT ![e] = PutInCluster(@, a)]
    BY <1>3 DEF Cluster
  <2>3. PICK s : s = clusters[e]
    OBVIOUS
  <2>4. /\ s \in Seq(Seq(Group(e))) /\ CutUp(s) /\ InOrder(s, Left(e))
        /\ DOMAIN clusters = CorrelatedEntities /\ \A x \in Group(e) : x.at \in Nat
        /\ a \in Group(e) /\ Left(e) \subseteq Group(e)
    BY <2>2, <2>3 DEF CorrelationInv, CorrelationTypeOK, Group, Left
  <2>5. PICK t : t = PutInCluster(s, a)
    OBVIOUS
  <2>6. /\ DOMAIN clusters' = CorrelatedEntities /\ clusters'[e] = t
        /\ \A f \in CorrelatedEntities : f # e => clusters'[f] = clusters[f]
    BY <2>2, <2>3, <2>4, <2>5
  <2>7. t \in Seq(Seq(Group(e)))
    BY <2>4, <2>5, PutFacts
  <2>8. CutUp(t)
    <3>1. InOrder(s, {a})
      BY <2>2, <2>4 DEF InOrder
    <3> QED
      BY <2>4, <2>5, <3>1, CutKeeps
  <2>9. Left(e)' = Left(e) \ {a}
    <3>1. \A x : x \in Left(e) <=> x \in Group(e) /\ ~ Holds(s, x)
      BY <2>3, <2>4, InClusters DEF Left
    <3>2. \A x : x \in Left(e)' <=> x \in Group(e) /\ ~ Holds(t, x)
      BY <2>1, <2>6, <2>7, InClusters DEF Left
    <3>3. \A x : Holds(t, x) <=> x = a \/ Holds(s, x)
      BY <2>4, <2>5, PutMembers
    <3> QED
      BY <3>1, <3>2, <3>3
  <2>10. InOrder(t, Left(e)')
    <3>1. InOrder(t, Left(e) \ {a})
      BY <2>2, <2>4, <2>5, OrderKeeps
    <3> QED
      BY <2>9, <3>1
  <2>11. \A f \in CorrelatedEntities : f # e => Left(f)' = Left(f)
    BY <2>1, <2>6 DEF Left
  <2>12. CorrelationTypeOK'
    BY <2>1, <2>6, <2>7 DEF CorrelationInv, CorrelationTypeOK
  <2>13. \A f \in CorrelatedEntities : CutUp(clusters'[f]) /\ InOrder(clusters'[f], Left(f)')
    <3> SUFFICES ASSUME NEW f \in CorrelatedEntities
                 PROVE  CutUp(clusters'[f]) /\ InOrder(clusters'[f], Left(f)')
      OBVIOUS
    <3>1. CASE f = e
      BY <2>6, <2>8, <2>10, <3>1
    <3>2. CASE f # e
      BY <2>6, <2>11, <3>2 DEF CorrelationInv
    <3> QED
      BY <3>1, <3>2
  <2> QED
    BY <2>12, <2>13 DEF CorrelationInv
<1> QED
  BY <1>1, <1>2, <1>3 DEF CorrelationNext

-----------------------------------------------------------------------------
(* What the cuts keep *)

\* A finite set of numbers that is not empty has a largest one.
LEMMA LargestNumber ==
    ASSUME NEW S \in SUBSET Nat, IsFiniteSet(S), S # {}
    PROVE  \E n \in S : \A m \in S : n >= m
<1> DEFINE Above(n) == {m \in S : m > n}
<1>0. PICK W : W = {Above(n) : n \in S}
  OBVIOUS
<1>1. PICK s \in W : \A u \in W : ~(u \subseteq s /\ u # s)
  <2>1. PICK L : L = S
    OBVIOUS
  <2>2. W \subseteq SUBSET L /\ W # {} /\ IsFiniteSet(L)
    BY <1>0, <2>1
  <2>3. \E s \in W : \A u \in W : ~(u \subseteq s /\ u # s)
    BY ONLY <2>2, LeastSubset
  <2> QED
    BY <2>3
<1>2. PICK n \in S : s = Above(n)
  BY <1>0
<1>3. ASSUME NEW m \in S, m > n PROVE FALSE
  <2>1. Above(m) \in W /\ m \in Above(n) /\ m \notin Above(m)
    BY <1>0, <1>3
  <2>2. ASSUME NEW x \in Above(m) PROVE x \in Above(n)
    <3>1. x \in Nat /\ m \in Nat /\ n \in Nat /\ x > m
      OBVIOUS
    <3> QED
      BY <1>3, <3>1
  <2> QED
    BY <1>1, <1>2, <2>1, <2>2
<1> QED
  BY <1>3

\* The minimum is a least member.
LEMMA MinFact ==
    ASSUME NEW S \in SUBSET Nat, S # {}
    PROVE  Min(S) \in S /\ \A n \in S : Min(S) <= n
<1>1. \E n \in S : \A m \in S : n <= m
  BY LeastNumber
<1> QED
  BY <1>1, Zenon DEF Min

\* The maximum is a largest member.
LEMMA MaxFact ==
    ASSUME NEW S \in SUBSET Nat, IsFiniteSet(S), S # {}
    PROVE  Max(S) \in S /\ \A n \in S : Max(S) >= n
<1>1. \E n \in S : \A m \in S : n >= m
  BY LargestNumber
<1> QED
  BY <1>1, Zenon DEF Max

\* When the alerts were.
TimesOf(alerts) == {a.at : a \in alerts}

\* A function has finitely many values on a finite set.
LEMMA ImageFinite ==
    ASSUME NEW S, IsFiniteSet(S), NEW f, DOMAIN f = S, NEW T, T = {f[x] : x \in S}
    PROVE  IsFiniteSet(T)
<1>1. PICK g : g = [x \in S |-> f[x]]
  OBVIOUS
<1>2. g \in Surjection(S, T)
  BY <1>1 DEF Surjection
<1> QED
  BY <1>2, FS_Surjection

\* Finitely many alerts have finitely many times,
LEMMA TimesFinite ==
    ASSUME NEW A, IsFiniteSet(A)
    PROVE  IsFiniteSet(TimesOf(A))
<1>1. PICK f : f = [a \in A |-> a.at]
  OBVIOUS
<1>2. TimesOf(A) = {f[a] : a \in A} /\ DOMAIN f = A
  BY <1>1 DEF TimesOf
<1> QED
  BY <1>2, ImageFinite

\* and scores.
LEMMA ScoresFinite ==
    ASSUME NEW A, IsFiniteSet(A)
    PROVE  IsFiniteSet(Scores(A))
<1>1. PICK f : f = [a \in A |-> a.kind.threat_score]
  OBVIOUS
<1>2. Scores(A) = {f[a] : a \in A} /\ DOMAIN f = A
  BY <1>1 DEF Scores
<1> QED
  BY <1>2, ImageFinite

\* What follows from the fields is what it follows from the fields of the result.
LEMMA AssessedFields ==
    ASSUME NEW r, NEW i, i = Assessed(r)
    PROVE  /\ i.entity = r.entity /\ i.alerts = r.alerts
           /\ i.started_at = r.started_at /\ i.last_seen = r.last_seen
           /\ i.max = r.max /\ i.mean = r.mean
           /\ i.log_types = r.log_types /\ i.tactics = r.tactics
           /\ i.threat_level = LevelOf(ThreatScoreOf(i)) /\ i.attack_stage = AttackStage(i.tactics)
           /\ i.is_multi_stage = (Cardinality(i.tactics) >= 3)
<1>1. /\ i.entity = r.entity /\ i.alerts = r.alerts
      /\ i.started_at = r.started_at /\ i.last_seen = r.last_seen
      /\ i.max = r.max /\ i.mean = r.mean
      /\ i.log_types = r.log_types /\ i.tactics = r.tactics
      /\ i.threat_level = LevelOf(ThreatScoreOf(r)) /\ i.attack_stage = AttackStage(r.tactics)
      /\ i.is_multi_stage = (Cardinality(r.tactics) >= 3)
  BY DEF Assessed
<1>2. ThreatScoreOf(i) = ThreatScoreOf(r)
  BY <1>1 DEF ThreatScoreOf
<1> QED
  BY <1>1, <1>2

\* The fields of a new incident.
LEMMA IncidentFields ==
    ASSUME NEW e, NEW alerts, NEW i, i = Incident(e, alerts)
    PROVE  /\ i.entity = e /\ i.alerts = alerts
           /\ i.started_at = Min(TimesOf(alerts)) /\ i.last_seen = Max(TimesOf(alerts))
           /\ i.max = Max(Scores(alerts)) /\ i.mean = Mean(alerts)
           /\ i.log_types = LogTypesOf(alerts) /\ i.tactics = TacticsOf(alerts)
           /\ i.threat_level = LevelOf(ThreatScoreOf(i)) /\ i.attack_stage = AttackStage(i.tactics)
           /\ i.is_multi_stage = (Cardinality(i.tactics) >= 3)
<1>1. PICK r : r = [entity |-> e, alerts |-> alerts,
                    started_at |-> Min(TimesOf(alerts)), last_seen |-> Max(TimesOf(alerts)),
                    max |-> Max(Scores(alerts)), mean |-> Mean(alerts),
                    log_types |-> LogTypesOf(alerts), tactics |-> TacticsOf(alerts)]
  OBVIOUS
<1>2. i = Assessed(r)
  BY <1>1 DEF Incident, TimesOf
<1> QED
  BY <1>1, <1>2, AssessedFields

\* Where incidents come from.
LEMMA IncidentsAre ==
    \A i : i \in Incidents <=>
        \E e \in CorrelatedEntities :
            /\ Left(e) = {}
            /\ \E c \in ToSet(clusters[e]) : IsIncident(c) /\ i = Incident(e, ToSet(c))
BY DEF Incidents

\* What the invariant says of a cluster, in one place.
LEMMA ClusterFacts ==
    ASSUME CorrelationInv, NEW e \in CorrelatedEntities, NEW k \in 1 .. Len(clusters[e])
    PROVE  /\ clusters[e][k] \in ToSet(clusters[e])
           /\ Len(clusters[e][k]) \in Nat /\ Len(clusters[e][k]) > 0
           /\ \A n \in 1 .. Len(clusters[e][k]) :
                 /\ clusters[e][k][n] \in ToSet(clusters[e][k]) /\ clusters[e][k][n].at \in Nat
                 /\ Start(clusters[e][k]) <= clusters[e][k][n].at
                 /\ clusters[e][k][n].at <= Start(clusters[e][k]) + TimeWindow
           /\ Start(clusters[e][k]) = clusters[e][k][1].at /\ Start(clusters[e][k]) \in Nat
           /\ \A a \in ToSet(clusters[e][k]) :
                 \E n \in 1 .. Len(clusters[e][k]) : a = clusters[e][k][n]
           /\ IsFiniteSet(ToSet(clusters[e][k])) /\ ToSet(clusters[e][k]) \subseteq Group(e)
           /\ \A l \in 1 .. Len(clusters[e]) :
                 k < l => Start(clusters[e][k]) + TimeWindow < Start(clusters[e][l])
<1>0. PICK s, c : s = clusters[e] /\ c = s[k] /\ c = clusters[e][k] /\ k \in 1 .. Len(s)
  OBVIOUS
<1>1. s \in Seq(Seq(Group(e))) /\ CutUp(s) /\ IsFiniteSet(Group(e)) /\ \A a \in Group(e) : a.at \in Nat
  <2>1. Group(e) \subseteq batch /\ IsFiniteSet(batch)
    BY DEF Group, CorrelationInv, CorrelationTypeOK
  <2>2. IsFiniteSet(Group(e))
    BY <2>1, FS_Subset
  <2> QED
    BY <1>0, <2>1, <2>2 DEF CorrelationInv, CorrelationTypeOK
<1>2. c \in Seq(Group(e)) /\ Len(c) \in Nat /\ DOMAIN s = 1 .. Len(s)
  BY <1>0, <1>1
<1>3. DOMAIN c = 1 .. Len(c)
  BY <1>2
<1>4. c \in ToSet(s)
  BY <1>0, <1>2 DEF ToSet
<1>5. Len(c) > 0 /\ \A n \in 1 .. Len(c) : Start(c) <= c[n].at /\ c[n].at <= Start(c) + TimeWindow
  BY <1>0, <1>1 DEF CutUp
<1>6. \A n \in 1 .. Len(c) : c[n] \in Group(e) /\ c[n].at \in Nat
  BY <1>1, <1>2
<1>7. 1 \in 1 .. Len(c)
  BY <1>2, <1>5
<1>8. Start(c) = c[1].at /\ Start(c) \in Nat
  BY <1>6, <1>7 DEF Start
<1>9. /\ \A n \in 1 .. Len(c) : c[n] \in ToSet(c)
      /\ \A a \in ToSet(c) : \E n \in 1 .. Len(c) : a = c[n]
  BY <1>3 DEF ToSet
<1>10. ToSet(c) \subseteq Group(e)
  BY <1>6, <1>9
<1>11. IsFiniteSet(ToSet(c))
  BY <1>1, <1>10, FS_Subset
<1>12. \A l \in 1 .. Len(s) : k < l => Start(c) + TimeWindow < Start(s[l])
  BY <1>0, <1>1 DEF CutUp
<1> QED
  BY <1>0, <1>2, <1>4, <1>5, <1>6, <1>8, <1>9, <1>10, <1>11, <1>12

\* The alerts of a cluster are within the window from its start.
LEMMA ClusterTimes ==
    ASSUME CorrelationInv, NEW e \in CorrelatedEntities, NEW k \in 1 .. Len(clusters[e]),
           NEW n \in 1 .. Len(clusters[e][k])
    PROVE  /\ clusters[e][k][n].at \in Nat /\ Start(clusters[e][k]) \in Nat
           /\ Start(clusters[e][k]) <= clusters[e][k][n].at
           /\ clusters[e][k][n].at <= Start(clusters[e][k]) + TimeWindow
BY ClusterFacts

\* It starts with its first alert.
LEMMA ClusterStart ==
    ASSUME CorrelationInv, NEW e \in CorrelatedEntities, NEW k \in 1 .. Len(clusters[e])
    PROVE  /\ Len(clusters[e][k]) \in Nat /\ Len(clusters[e][k]) > 0
           /\ Start(clusters[e][k]) = clusters[e][k][1].at /\ Start(clusters[e][k]) \in Nat
BY ClusterFacts

\* Its members have places in it.
LEMMA ClusterMembers ==
    ASSUME CorrelationInv, NEW e \in CorrelatedEntities, NEW k \in 1 .. Len(clusters[e])
    PROVE  /\ clusters[e][k] \in ToSet(clusters[e])
           /\ ToSet(clusters[e][k]) \subseteq Group(e) /\ IsFiniteSet(ToSet(clusters[e][k]))
           /\ \A n \in 1 .. Len(clusters[e][k]) : clusters[e][k][n] \in ToSet(clusters[e][k])
           /\ \A a \in ToSet(clusters[e][k]) :
                 \E n \in 1 .. Len(clusters[e][k]) : a = clusters[e][k][n]
BY ClusterFacts

\* The next cluster starts past the window of this one.
LEMMA ClusterGap ==
    ASSUME CorrelationInv, NEW e \in CorrelatedEntities, NEW k \in 1 .. Len(clusters[e]),
           NEW l \in 1 .. Len(clusters[e]), k < l
    PROVE  Start(clusters[e][k]) + TimeWindow < Start(clusters[e][l])
BY ClusterFacts

\* Clusters of an entity do not overlap.
LEMMA ClustersApart ==
    ASSUME CorrelationInv, NEW e \in CorrelatedEntities, NEW k \in 1 .. Len(clusters[e]),
           NEW l \in 1 .. Len(clusters[e]), k < l,
           NEW n \in 1 .. Len(clusters[e][k]), NEW o \in 1 .. Len(clusters[e][l])
    PROVE  clusters[e][k][n].at < clusters[e][l][o].at
<1>1. PICK x, y, u, v \in Nat : /\ x = clusters[e][k][n].at /\ y = clusters[e][l][o].at
                               /\ u = Start(clusters[e][k]) /\ v = Start(clusters[e][l])
  BY ClusterTimes
<1>2. x <= u + TimeWindow /\ v <= y /\ u + TimeWindow < v
  BY <1>1, ClusterTimes, ClusterGap
<1>3. TimeWindow \in Nat
  BY CorrelationAssumption
<1>4. x < y
  BY <1>2, <1>3
<1> QED
  BY <1>1, <1>4

\* An alert is n-th in cluster k of an entity.
Placed(a, e, k, n) ==
    k \in 1 .. Len(clusters[e]) /\ n \in 1 .. Len(clusters[e][k]) /\ a = clusters[e][k][n]

\* Every alert of an entity that is done is in a cluster of it.
LEMMA ClusterOf ==
    ASSUME CorrelationInv, NEW e \in CorrelatedEntities, Left(e) = {}, NEW a \in Group(e)
    PROVE  \E k, n : Placed(a, e, k, n)
<1>1. a \in Clustered(clusters[e])
  BY DEF Left
<1>2. clusters[e] \in Seq(Seq(Group(e)))
  BY DEF CorrelationInv, CorrelationTypeOK
<1>3. Holds(clusters[e], a)
  BY <1>1, <1>2, InClusters
<1> QED
  BY <1>3 DEF Holds, Placed

\* A cluster that qualifies is an incident of an entity that is done.
LEMMA ClusterMakesIncident ==
    ASSUME CorrelationInv, NEW e \in CorrelatedEntities, Left(e) = {},
           NEW k \in 1 .. Len(clusters[e]), NEW n \in 1 .. Len(clusters[e][k]),
           IsIncident(clusters[e][k])
    PROVE  \E i \in Incidents : clusters[e][k][n] \in i.alerts
<1>1. PICK c : c = clusters[e][k]
  OBVIOUS
<1>2. c \in ToSet(clusters[e]) /\ c[n] \in ToSet(c)
  BY <1>1, ClusterMembers
<1>3. PICK i : i = Incident(e, ToSet(c))
  OBVIOUS
<1>4. i \in Incidents
  BY <1>1, <1>2, <1>3, IncidentsAre
<1>5. i.alerts = ToSet(c)
  BY <1>3, IncidentFields
<1> QED
  BY <1>1, <1>2, <1>4, <1>5

\* An incident is a cluster of an entity that is done, and its times are those of
\* alerts of it.
FromCluster(i, e, k) ==
    /\ k \in 1 .. Len(clusters[e])
    /\ i = Incident(e, ToSet(clusters[e][k]))
    /\ i.entity = e /\ i.alerts = ToSet(clusters[e][k])
    /\ \E n, o \in 1 .. Len(clusters[e][k]) :
          i.started_at = clusters[e][k][n].at /\ i.last_seen = clusters[e][k][o].at

\* Every incident is such a cluster.
LEMMA IncidentIsCluster ==
    ASSUME CorrelationInv, NEW i \in Incidents
    PROVE  \E e \in CorrelatedEntities : \E k : FromCluster(i, e, k)
<1>1. PICK e \in CorrelatedEntities : \E c \in ToSet(clusters[e]) : i = Incident(e, ToSet(c))
  BY IncidentsAre
<1>2. PICK c \in ToSet(clusters[e]) : i = Incident(e, ToSet(c))
  BY <1>1
<1>3. PICK k \in 1 .. Len(clusters[e]) : i = Incident(e, ToSet(clusters[e][k]))
  <2>1. clusters[e] \in Seq(Seq(Group(e)))
    BY DEF CorrelationInv, CorrelationTypeOK
  <2>2. PICK k \in 1 .. Len(clusters[e]) : c = clusters[e][k]
    BY <2>1 DEF ToSet
  <2> QED
    BY <1>2, <2>2
<1>4. PICK T, A : A = ToSet(clusters[e][k]) /\ T = TimesOf(A)
  OBVIOUS
<1>5. i.entity = e /\ i.alerts = A /\ i.started_at = Min(T) /\ i.last_seen = Max(T)
  BY <1>3, <1>4, IncidentFields
<1>6. /\ Len(clusters[e][k]) \in Nat /\ Len(clusters[e][k]) > 0
      /\ \A n \in 1 .. Len(clusters[e][k]) : clusters[e][k][n].at \in Nat
  BY ClusterStart, ClusterTimes
<1>7. /\ IsFiniteSet(A)
      /\ \A n \in 1 .. Len(clusters[e][k]) : clusters[e][k][n] \in A
      /\ \A a \in A : \E n \in 1 .. Len(clusters[e][k]) : a = clusters[e][k][n]
  BY <1>4, ClusterMembers
<1>8. IsFiniteSet(T)
  BY <1>4, <1>7, TimesFinite
<1>9. T # {}
  <2>1. PICK a \in A : TRUE
    BY <1>6, <1>7
  <2> QED
    BY <1>4, <2>1 DEF TimesOf
<1>10. ASSUME NEW x \in T PROVE x \in Nat /\ \E n \in 1 .. Len(clusters[e][k]) : x = clusters[e][k][n].at
  <2>1. PICK a \in A : x = a.at
    BY <1>4 DEF TimesOf
  <2> QED
    BY <1>6, <1>7, <2>1
<1>11. Min(T) \in T /\ Max(T) \in T
  BY <1>8, <1>9, <1>10, MinFact, MaxFact
<1>12. /\ \E n \in 1 .. Len(clusters[e][k]) : i.started_at = clusters[e][k][n].at
       /\ \E o \in 1 .. Len(clusters[e][k]) : i.last_seen = clusters[e][k][o].at
  BY <1>5, <1>10, <1>11
<1> QED
  BY <1>3, <1>4, <1>5, <1>12 DEF FromCluster

\* Alerts within the window are in one cluster, which then has two, or one starts it.
LEMMA CutsAreFine == CorrelationInv => CutsHideNothing
<1> SUFFICES ASSUME CorrelationInv PROVE CutsHideNothing
  OBVIOUS
<1>1. ASSUME NEW e \in CorrelatedEntities, Left(e) = {}, NEW a \in Group(e), NEW b \in Group(e),
             a # b, a.at <= b.at, b.at - a.at <= TimeWindow
      PROVE  \E i \in Incidents : {a, b} \intersect i.alerts # {}
  <2>1. PICK k, n : Placed(a, e, k, n)
    BY <1>1, ClusterOf
  <2>2. PICK l, o : Placed(b, e, l, o)
    BY <1>1, ClusterOf
  <2>3. k \in 1 .. Len(clusters[e]) /\ n \in 1 .. Len(clusters[e][k]) /\ a = clusters[e][k][n]
    BY <2>1 DEF Placed
  <2>4. l \in 1 .. Len(clusters[e]) /\ o \in 1 .. Len(clusters[e][l]) /\ b = clusters[e][l][o]
    BY <2>2 DEF Placed
  <2>5. PICK u, v, x, y \in Nat : /\ x = a.at /\ y = b.at
                                 /\ u = Start(clusters[e][k]) /\ v = Start(clusters[e][l])
    BY <2>3, <2>4, ClusterTimes
  <2>6. x <= y /\ y - x <= TimeWindow
    BY <1>1, <2>5
  <2>7. ~(l < k)
    <3>1. SUFFICES ASSUME l < k PROVE FALSE
      OBVIOUS
    <3>2. clusters[e][l][o].at < clusters[e][k][n].at
      BY <2>3, <2>4, <3>1, ClustersApart
    <3>3. y < x
      BY <2>3, <2>4, <2>5, <3>2
    <3> QED
      BY <2>6, <3>3
  <2>8. Len(clusters[e][k]) \in Nat /\ Start(clusters[e][k]) = clusters[e][k][1].at
    BY <2>3, ClusterStart
  <2>9. CASE Len(clusters[e][k]) = 1
    <3>1. n = 1 /\ x = u
      BY <2>3, <2>5, <2>8, <2>9
    <3>2. k # l
      <4>1. SUFFICES ASSUME k = l PROVE FALSE
        OBVIOUS
      <4>2. o = 1
        BY <2>4, <2>9, <4>1
      <4> QED
        BY <1>1, <2>3, <2>4, <3>1, <4>1, <4>2
    <3>3. k < l
      BY <2>3, <2>4, <2>7, <3>2
    <3>4. u + TimeWindow < v /\ v <= y
      BY <2>3, <2>4, <2>5, <3>3, ClusterGap, ClusterTimes
    <3> QED
      BY <2>5, <2>6, <3>1, <3>4, CorrelationAssumption
  <2>10. CASE Len(clusters[e][k]) >= 2
    <3>1. IsIncident(clusters[e][k])
      BY <2>8, <2>10, CorrelationAssumption DEF IsIncident
    <3>2. PICK i \in Incidents : a \in i.alerts
      BY <1>1, <2>3, <3>1, ClusterMakesIncident
    <3> QED
      BY <3>2
  <2>11. Len(clusters[e][k]) = 1 \/ Len(clusters[e][k]) >= 2
    <3>1. \A m \in Nat : m > 0 => m = 1 \/ m >= 2
      OBVIOUS
    <3> QED
      BY <2>3, <3>1, ClusterStart
  <2> QED
    BY <2>9, <2>10, <2>11
<1>2. ASSUME NEW e \in CorrelatedEntities, Left(e) = {}, NEW a \in Group(e),
             a.kind.threat_score >= 800
      PROVE  \E i \in Incidents : a \in i.alerts
  <2>1. PICK k, n : k \in 1 .. Len(clusters[e]) /\ n \in 1 .. Len(clusters[e][k])
                    /\ a = clusters[e][k][n]
    BY <1>2, ClusterOf DEF Placed
  <2>2. a \in ToSet(clusters[e][k])
    BY <2>1, ClusterMembers
  <2>3. IsIncident(clusters[e][k])
    BY <1>2, <2>2 DEF IsIncident
  <2> QED
    BY <1>2, <2>1, <2>3, ClusterMakesIncident
<1>3. ASSUME NEW i \in Incidents, NEW j \in Incidents, i # j
      PROVE  /\ i.alerts \intersect j.alerts = {}
             /\ i.entity = j.entity => i.last_seen < j.started_at \/ j.last_seen < i.started_at
  <2>1. PICK e \in CorrelatedEntities : \E k : FromCluster(i, e, k)
    BY IncidentIsCluster
  <2>2. PICK f \in CorrelatedEntities : \E l : FromCluster(j, f, l)
    BY IncidentIsCluster
  <2>3. PICK k : FromCluster(i, e, k)
    BY <2>1
  <2>4. PICK l : FromCluster(j, f, l)
    BY <2>2
  <2>5. k \in 1 .. Len(clusters[e]) /\ i.alerts = ToSet(clusters[e][k]) /\ i.entity = e
    BY <2>3 DEF FromCluster
  <2>6. l \in 1 .. Len(clusters[f]) /\ j.alerts = ToSet(clusters[f][l]) /\ j.entity = f
    BY <2>4 DEF FromCluster
  <2>7. CASE e # f
    <3>1. ASSUME NEW a \in ToSet(clusters[e][k]), a \in ToSet(clusters[f][l]) PROVE FALSE
      <4>1. a \in Group(e)
        BY <2>5, ClusterMembers
      <4>2. a \in Group(f)
        BY <2>6, <3>1, ClusterMembers
      <4> QED
        BY <2>7, <4>1, <4>2 DEF Group
    <3> QED
      BY <2>5, <2>6, <2>7, <3>1
  <2>8. CASE e = f
    <3>1. Len(clusters[e]) \in Nat /\ k # l /\ l \in 1 .. Len(clusters[e])
      BY <1>3, <2>3, <2>4, <2>6, <2>8 DEF CorrelationInv, CorrelationTypeOK, FromCluster
    <3>2. k < l \/ l < k
      BY <2>5, <3>1
    <3>3. \A n \in 1 .. Len(clusters[e][k]), o \in 1 .. Len(clusters[e][l]) :
             /\ clusters[e][k][n].at \in Nat /\ clusters[e][l][o].at \in Nat
             /\ k < l => clusters[e][k][n].at < clusters[e][l][o].at
             /\ l < k => clusters[e][l][o].at < clusters[e][k][n].at
      BY <2>5, <3>1, ClustersApart, ClusterTimes
    <3>4. ASSUME NEW a \in ToSet(clusters[e][k]), a \in ToSet(clusters[e][l]) PROVE FALSE
      <4>1. PICK n \in 1 .. Len(clusters[e][k]) : a = clusters[e][k][n]
        BY <2>5, ClusterMembers
      <4>2. PICK o \in 1 .. Len(clusters[e][l]) : a = clusters[e][l][o]
        BY <3>1, <3>4, ClusterMembers
      <4>3. PICK x : x = a.at /\ x \in Nat
        BY <3>3, <4>1, <4>2
      <4>4. x < x
        BY <3>2, <3>3, <4>1, <4>2, <4>3
      <4> QED
        BY <4>3, <4>4
    <3>5. PICK n, o \in 1 .. Len(clusters[e][k]) :
             i.started_at = clusters[e][k][n].at /\ i.last_seen = clusters[e][k][o].at
      BY <2>3 DEF FromCluster
    <3>6. PICK p, q \in 1 .. Len(clusters[e][l]) :
             j.started_at = clusters[e][l][p].at /\ j.last_seen = clusters[e][l][q].at
      BY <2>4, <2>8 DEF FromCluster
    <3>7. i.last_seen < j.started_at \/ j.last_seen < i.started_at
      BY <3>2, <3>3, <3>5, <3>6
    <3> QED
      BY <2>5, <2>6, <2>8, <3>4, <3>7
  <2> QED
    BY <2>7, <2>8
<1>4. ASSUME NEW i \in Incidents PROVE i.last_seen - i.started_at <= TimeWindow
  <2>0. PICK e \in CorrelatedEntities : \E k : FromCluster(i, e, k)
    BY IncidentIsCluster
  <2>1. PICK k : FromCluster(i, e, k)
    BY <2>0
  <2>2. PICK n, o \in 1 .. Len(clusters[e][k]) :
              /\ i.started_at = clusters[e][k][n].at /\ i.last_seen = clusters[e][k][o].at
              /\ k \in 1 .. Len(clusters[e])
    BY <2>1 DEF FromCluster
  <2>3. /\ i.started_at \in Nat /\ i.last_seen \in Nat /\ Start(clusters[e][k]) \in Nat
        /\ Start(clusters[e][k]) <= i.started_at
        /\ i.last_seen <= Start(clusters[e][k]) + TimeWindow
    BY <2>2, ClusterTimes
  <2> QED
    BY <2>3, CorrelationAssumption
<1> QED
  BY <1>1, <1>2, <1>3, <1>4 DEF CutsHideNothing

-----------------------------------------------------------------------------
(* What merging keeps *)

\* What an incident tells of the alerts in it.
Tells(i, A) ==
    /\ i.alerts = A
    /\ i.started_at = Min(TimesOf(A)) /\ i.last_seen = Max(TimesOf(A))
    /\ i.max = Max(Scores(A)) /\ i.mean \in Nat
    /\ i.log_types = LogTypesOf(A) /\ i.tactics = TacticsOf(A)
    /\ i.threat_level = LevelOf(ThreatScoreOf(i)) /\ i.attack_stage = AttackStage(i.tactics)
    /\ i.is_multi_stage = (Cardinality(i.tactics) >= 3)

\* Alerts that an incident can be made of.
SomeAlerts(A) ==
    /\ IsFiniteSet(A) /\ A # {}
    /\ \A a \in A : a.at \in Nat /\ a.kind.threat_score \in Nat

\* Their mean is a number.
LEMMA MeanType ==
    ASSUME NEW A, SomeAlerts(A)
    PROVE  Mean(A) \in Nat
<1>1. PICK f : f = [a \in A |-> a.kind.threat_score]
  OBVIOUS
<1>2. DOMAIN f = A /\ IsFiniteSet(DOMAIN f) /\ \A a \in DOMAIN f : f[a] \in Nat
  BY <1>1 DEF SomeAlerts
<1>3. SumFunction(f) \in Nat
  <2>1. 0 \in Nat /\ \A x, y \in Nat : x + y \in Nat
    OBVIOUS
  <2> QED
    BY <1>2, <2>1, SumWithin
<1>4. Cardinality(A) \in Nat /\ Cardinality(A) # 0
  BY FS_CardinalityType, FS_EmptySet DEF SomeAlerts
<1>5. \A s, c \in Nat : c # 0 => s \div c \in Nat
  OBVIOUS
<1> QED
  BY <1>1, <1>3, <1>4, <1>5 DEF Mean

\* They have times and scores to take extremes of.
LEMMA TimesAndScores ==
    ASSUME NEW A, SomeAlerts(A)
    PROVE  /\ TimesOf(A) \in SUBSET Nat /\ IsFiniteSet(TimesOf(A)) /\ TimesOf(A) # {}
           /\ Scores(A) \in SUBSET Nat /\ IsFiniteSet(Scores(A)) /\ Scores(A) # {}
<1>1. TimesOf(A) \in SUBSET Nat /\ TimesOf(A) # {}
  BY DEF SomeAlerts, TimesOf
<1>2. Scores(A) \in SUBSET Nat /\ Scores(A) # {}
  BY DEF SomeAlerts, Scores
<1>3. IsFiniteSet(A)
  BY DEF SomeAlerts
<1> QED
  BY <1>1, <1>2, <1>3, TimesFinite, ScoresFinite

\* A new incident tells of the alerts it is made of.
LEMMA IncidentTells ==
    ASSUME NEW e, NEW A, SomeAlerts(A)
    PROVE  Tells(Incident(e, A), A)
<1>1. PICK i : i = Incident(e, A)
  OBVIOUS
<1> QED
  BY <1>1, IncidentFields, MeanType DEF Tells

\* An extreme of two sets is the extreme of one with the extreme of the other.
LEMMA MinOfUnion ==
    ASSUME NEW S \in SUBSET Nat, NEW T \in SUBSET Nat, NEW U \in SUBSET Nat, U \subseteq S, Min(S) \in U
    PROVE  Min(U \union T) = Min(S \union T)
<1>1. PICK m, n, o : m = Min(S) /\ n = Min(U \union T) /\ o = Min(S \union T)
  OBVIOUS
<1>2. m \in S /\ m \in U /\ \A x \in S : m <= x
  BY <1>1, MinFact
<1>3. n \in U \union T /\ \A x \in U \union T : n <= x
  <2>1. U \union T \in SUBSET Nat /\ U \union T # {}
    BY <1>2
  <2> QED
    BY <1>1, <2>1, MinFact
<1>4. o \in S \union T /\ \A x \in S \union T : o <= x
  <2>1. S \union T \in SUBSET Nat /\ S \union T # {}
    BY <1>2
  <2> QED
    BY <1>1, <2>1, MinFact
<1>5. m \in Nat /\ n \in Nat /\ o \in Nat
  BY <1>2, <1>3, <1>4
<1>6. o <= n
  BY <1>2, <1>3, <1>4
<1>7. n <= o
  <2>1. CASE o \in S
    <3>1. n <= m /\ m <= o
      BY <1>2, <1>3, <2>1
    <3> QED
      BY <1>5, <3>1
  <2>2. CASE o \in T
    BY <1>3, <2>2
  <2> QED
    BY <1>4, <2>1, <2>2
<1> QED
  BY <1>1, <1>5, <1>6, <1>7

\* The same at the other end.
LEMMA MaxOfUnion ==
    ASSUME NEW S \in SUBSET Nat, NEW T \in SUBSET Nat, NEW U \in SUBSET Nat, U \subseteq S, Max(S) \in U,
           IsFiniteSet(S), IsFiniteSet(T)
    PROVE  Max(U \union T) = Max(S \union T)
<1>1. PICK m, n, o : m = Max(S) /\ n = Max(U \union T) /\ o = Max(S \union T)
  OBVIOUS
<1>2. m \in S /\ m \in U /\ \A x \in S : m >= x
  BY <1>1, MaxFact
<1>3. n \in U \union T /\ \A x \in U \union T : n >= x
  <2>1. U \union T \in SUBSET Nat /\ U \union T # {}
    BY <1>2
  <2>2. U \union T \subseteq S \union T /\ IsFiniteSet(S \union T)
    BY <1>2, FS_Union
  <2>3. IsFiniteSet(U \union T)
    BY <2>2, FS_Subset
  <2> QED
    BY <1>1, <2>1, <2>3, MaxFact
<1>4. o \in S \union T /\ \A x \in S \union T : o >= x
  <2>1. S \union T \in SUBSET Nat /\ S \union T # {} /\ IsFiniteSet(S \union T)
    BY <1>2, FS_Union
  <2> QED
    BY <1>1, <2>1, MaxFact
<1>5. m \in Nat /\ n \in Nat /\ o \in Nat
  BY <1>2, <1>3, <1>4
<1>6. o >= n
  BY <1>2, <1>3, <1>4
<1>7. n >= o
  <2>1. CASE o \in S
    <3>1. n >= m /\ m >= o
      BY <1>2, <1>3, <2>1
    <3> QED
      BY <1>5, <3>1
  <2>2. CASE o \in T
    BY <1>3, <2>2
  <2> QED
    BY <1>4, <2>1, <2>2
<1> QED
  BY <1>1, <1>5, <1>6, <1>7

\* Merging alerts into an incident makes it tell of them too.
LEMMA MergeTells ==
    ASSUME NEW i, NEW A, NEW B, SomeAlerts(A), SomeAlerts(B), Tells(i, A)
    PROVE  Tells(Merge(i, B), A \union B)
<1>1. PICK r : r = [entity |-> i.entity, alerts |-> i.alerts \union B,
                    started_at |-> Min({i.started_at, i.last_seen} \union TimesOf(B)),
                    last_seen |-> Max({i.started_at, i.last_seen} \union TimesOf(B)),
                    max |-> MergedMax(i, B), mean |-> (i.mean + Mean(B)) \div 2,
                    log_types |-> i.log_types \union LogTypesOf(B),
                    tactics |-> i.tactics \union TacticsOf(B)]
  OBVIOUS
<1>2. PICK j : j = Merge(i, B) /\ j = Assessed(r)
  BY <1>1 DEF Merge, TimesOf
<1>3. PICK S, T : S = TimesOf(A) /\ T = TimesOf(B)
  OBVIOUS
<1>4. /\ S \in SUBSET Nat /\ IsFiniteSet(S) /\ S # {}
      /\ T \in SUBSET Nat /\ IsFiniteSet(T)
      /\ S \union T = TimesOf(A \union B)
  BY <1>3, TimesAndScores DEF TimesOf
<1>5. PICK m, n : m = Min(S) /\ n = Max(S) /\ m \in S /\ n \in S
  BY <1>4, MinFact, MaxFact
<1>6. i.started_at = m /\ i.last_seen = n
  BY <1>3, <1>5 DEF Tells
<1>7. PICK U : U = {m, n}
  OBVIOUS
<1>8. /\ U \in SUBSET Nat /\ U \subseteq S /\ Min(S) \in U /\ Max(S) \in U
      /\ U = {i.started_at, i.last_seen}
  BY <1>4, <1>5, <1>6, <1>7
<1>13. Min(U \union T) = Min(S \union T) /\ Max(U \union T) = Max(S \union T)
  BY <1>4, <1>8, MinOfUnion, MaxOfUnion
<1>9. MergedMax(i, B) = Max(Scores(A \union B))
  <2>1. PICK P, Q : P = Scores(A) /\ Q = Scores(B)
    OBVIOUS
  <2>2. /\ P \in SUBSET Nat /\ IsFiniteSet(P) /\ P # {} /\ Q \in SUBSET Nat /\ IsFiniteSet(Q)
        /\ P \union Q = Scores(A \union B) /\ i.max = Max(P)
    BY <2>1, TimesAndScores DEF Scores, Tells
  <2>3. PICK R : R = {Max(P)}
    OBVIOUS
  <2>5. R \in SUBSET Nat /\ R \subseteq P /\ Max(P) \in R
    BY <2>2, <2>3, MaxFact
  <2>4. Max(R \union Q) = Max(P \union Q)
    BY <2>2, <2>5, MaxOfUnion
  <2> QED
    BY <2>1, <2>2, <2>3, <2>4 DEF MergedMax
<1>10. (i.mean + Mean(B)) \div 2 \in Nat
  <2>1. i.mean \in Nat /\ Mean(B) \in Nat
    BY MeanType DEF Tells
  <2> QED
    BY <2>1
<1>11. /\ i.alerts \union B = A \union B
       /\ i.log_types \union LogTypesOf(B) = LogTypesOf(A \union B)
       /\ i.tactics \union TacticsOf(B) = TacticsOf(A \union B)
  BY DEF Tells, LogTypesOf, TacticsOf
<1>12. /\ r.alerts = A \union B /\ r.max = Max(Scores(A \union B)) /\ r.mean \in Nat
       /\ r.started_at = Min(TimesOf(A \union B)) /\ r.last_seen = Max(TimesOf(A \union B))
       /\ r.log_types = LogTypesOf(A \union B) /\ r.tactics = TacticsOf(A \union B)
  BY <1>1, <1>3, <1>4, <1>8, <1>9, <1>10, <1>11, <1>13
<1> QED
  BY <1>2, <1>12, AssessedFields DEF Tells

\* Incidents that tell of the same alerts tell the same.
LEMMA SameFacts ==
    ASSUME NEW i, NEW j, NEW A, Tells(i, A), Tells(j, A)
    PROVE  Facts(i) = Facts(j)
BY DEF Tells, Facts

\* Half of a score of 0.8 is enough not to be low.
LEMMA StrongNotLow ==
    ASSUME NEW i, NEW A, SomeAlerts(A), Tells(i, A), i.max >= 800
    PROVE  i.threat_level # "low"
<1>1. i.max \in Nat /\ i.mean \in Nat
  <2>1. Max(Scores(A)) \in Scores(A) /\ Scores(A) \in SUBSET Nat
    BY TimesAndScores, MaxFact
  <2> QED
    BY <2>1 DEF Tells
<1>2. PICK b : b = IF Cardinality(i.log_types) >= 2 THEN 200 ELSE 0
  OBVIOUS
<1>3. PICK x : x = (5 * i.max + 3 * i.mean) \div 10 + b
  OBVIOUS
<1>4. x \in Nat /\ x >= 400
  BY <1>1, <1>2, <1>3
<1>5. ThreatScoreOf(i) = Min({1000, x})
  BY <1>2, <1>3 DEF ThreatScoreOf
<1>6. ThreatScoreOf(i) \in {1000, x}
  <2>1. {1000, x} \in SUBSET Nat /\ {1000, x} # {}
    BY <1>4
  <2> QED
    BY <1>5, <2>1, MinFact
<1>7. \A n \in Nat : n >= 400 => LevelOf(n) # "low"
  BY DEF LevelOf
<1> QED
  BY <1>4, <1>6, <1>7 DEF Tells

\* So one merge, two, or none make the same incident of the same alerts.
LEMMA MergesAreFine == CorrelationInv => MergesLoseNothing
<1> SUFFICES ASSUME CorrelationInv,
                    NEW e \in CorrelatedEntities, NEW first \in (SUBSET Group(e)) \ {{}},
                    NEW second \in (SUBSET (Group(e) \ first)) \ {{}}
             PROVE  LET merged == Merge(Incident(e, first), second)
                        rest == Group(e) \ (first \union second)
                    IN  /\ Facts(merged) = Facts(Incident(e, first \union second))
                        /\ rest # {} => Facts(Merge(merged, rest)) = Facts(Incident(e, Group(e)))
                        /\ merged.max >= 800 => merged.threat_level # "low"
  BY DEF MergesLoseNothing
<1> DEFINE rest == Group(e) \ (first \union second)
           both == first \union second
<1>1. PICK merged : merged = Merge(Incident(e, first), second)
  OBVIOUS
<1>2. \A A : A \subseteq Group(e) /\ A # {} => SomeAlerts(A)
  <2>1. Group(e) \subseteq batch /\ IsFiniteSet(batch)
    BY DEF Group, CorrelationInv, CorrelationTypeOK
  <2>2. \A k \in AlertKinds : k.threat_score \in Nat
    BY CorrelationAssumption
  <2>3. \A a \in batch : a.at \in Nat /\ a.kind \in AlertKinds
    BY DEF CorrelationInv, CorrelationTypeOK
  <2> QED
    BY <2>1, <2>2, <2>3, FS_Subset DEF SomeAlerts
<1>3. SomeAlerts(first) /\ SomeAlerts(second) /\ SomeAlerts(both) /\ SomeAlerts(Group(e))
  BY <1>2
<1>4. Tells(merged, both)
  BY <1>1, <1>3, IncidentTells, MergeTells
<1>5. Facts(merged) = Facts(Incident(e, both))
  BY <1>3, <1>4, IncidentTells, SameFacts
<1>6. ASSUME rest # {} PROVE Facts(Merge(merged, rest)) = Facts(Incident(e, Group(e)))
  <2>1. SomeAlerts(rest)
    BY <1>2, <1>6
  <2>2. both \union rest = Group(e)
    OBVIOUS
  <2>3. Tells(Merge(merged, rest), Group(e))
    BY <1>3, <1>4, <2>1, <2>2, MergeTells
  <2> QED
    BY <1>3, <2>3, IncidentTells, SameFacts
<1>7. merged.max >= 800 => merged.threat_level # "low"
  BY <1>3, <1>4, StrongNotLow
<1> QED
  BY <1>1, <1>5, <1>6, <1>7

\* Neither cutting the time line into incidents nor merging alerts into them later
\* loses what they tell (correlator.py:41-92, 184-228).
THEOREM IncidentsAlwaysKeepAlerts == CorrelationSpec => []IncidentsKeepAlerts
<1>1. CorrelationInv => IncidentsKeepAlerts
  BY CutsAreFine, MergesAreFine DEF IncidentsKeepAlerts
<1> QED
  BY <1>1, CorrelationStart, CorrelationStep, PTL DEF CorrelationSpec

=============================================================================
