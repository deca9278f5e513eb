---------------------------- MODULE AlertPagesProofs ----------------------------
(***************************************************************************)
(* Theorems about what analysts edit and see of alerts: the tags of a      *)
(* record, the pages of the listing and the session of the console, for    *)
(* any editors, tags, alerts and tokens, any sizes of page and limits, and *)
(* any numbers of writes, changes, loads, effects and outages.             *)
(***************************************************************************)
EXTENDS AlertRecords, AlertListing, Console, FiniteSetTheorems, TLAPS


-----------------------------------------------------------------------------
(* The tags of an alert *)

EditRecords ==
    [read : SUBSET Tags, version : Nat, add : SUBSET Tags, remove : SUBSET Tags]

RecordsTypeOK ==
    /\ tags \in SUBSET Tags
    /\ wanted \in SUBSET Tags
    /\ version \in Nat
    /\ staleWrite \in BOOLEAN
    /\ edit \in [Editors -> EditRecords \union {NoEdit}]

\* What an edit will write was within the limit when the edit was read, and an
\* edit of the present version was made from the tags as they are.
EditIsSound(e) ==
    /\ Cardinality(e.read \union e.add) <= MaxTags
    /\ e.version <= version
    /\ e.version = version => e.read = tags

EditsAreSound == \A r \in Editors : edit[r] # NoEdit => EditIsSound(edit[r])

RecordsInv == RecordsTypeOK /\ EditsAreSound /\ TagEditsAddUp

-----------------------------------------------------------------------------

LEMMA RecordsStart == RecordsInit => RecordsInv
<1> SUFFICES ASSUME RecordsInit PROVE RecordsInv
  OBVIOUS
<1>1. RecordsTypeOK
  BY DEF RecordsInit, RecordsTypeOK
<1>2. EditsAreSound
  BY DEF RecordsInit, EditsAreSound
<1>3. TagEditsAddUp
  BY FS_EmptySet, AlertRecordsAssumption DEF RecordsInit, TagEditsAddUp
<1> QED BY <1>1, <1>2, <1>3 DEF RecordsInv

\* A request that has read adds an edit of the present version.
LEMMA ReadingIsSound ==
    ASSUME RecordsInv, NEW r \in Editors, NEW add \in SUBSET Tags, NEW remove \in SUBSET Tags,
           Cardinality(tags \union add) <= MaxTags,
           edit' = [edit EXCEPT ![r] = Edit(add, remove)],
           UNCHANGED <<tags, version, wanted, staleWrite>>
    PROVE  RecordsInv'
<1>1. Edit(add, remove) \in EditRecords
  BY DEF RecordsInv, RecordsTypeOK, Edit, EditRecords
<1>2. RecordsTypeOK'
  BY <1>1 DEF RecordsInv, RecordsTypeOK
<1>3. EditIsSound(Edit(add, remove))
  BY DEF RecordsInv, RecordsTypeOK, EditIsSound, Edit
<1>4. EditsAreSound'
  BY <1>3 DEF RecordsInv, RecordsTypeOK, EditsAreSound, EditIsSound
<1>5. TagEditsAddUp'
  BY DEF RecordsInv, TagEditsAddUp
<1> QED BY <1>2, <1>4, <1>5 DEF RecordsInv

\* A write leaves no more than what its edit was checked for, and what is wanted
\* if it was made from the present version.
LEMMA WritingIsSound ==
    ASSUME RecordsInv, NEW r \in Editors, WriteTags(r) PROVE RecordsInv'
<1> DEFINE e == edit[r]
<1>1. e \in EditRecords /\ EditIsSound(e)
  BY DEF RecordsInv, RecordsTypeOK, EditsAreSound, WriteTags
<1>2. tags' \in SUBSET Tags /\ wanted' \in SUBSET Tags
  BY <1>1 DEF RecordsInv, RecordsTypeOK, WriteTags, After, EditRecords
<1>3. staleWrite' \in BOOLEAN
  BY DEF WriteTags
<1>4. version' = version + 1 /\ version' \in Nat /\ edit' = [edit EXCEPT ![r] = NoEdit]
  BY DEF RecordsInv, RecordsTypeOK, WriteTags
<1>5. edit' \in [Editors -> EditRecords \union {NoEdit}]
  BY <1>4 DEF RecordsInv, RecordsTypeOK
<1>6. RecordsTypeOK'
  BY <1>2, <1>3, <1>4, <1>5 DEF RecordsTypeOK
<1>7. EditsAreSound'
  <2> SUFFICES ASSUME NEW q \in Editors, edit'[q] # NoEdit PROVE EditIsSound(edit[q])'
    BY DEF EditsAreSound
  <2>1. edit'[q] = edit[q] /\ edit[q] # NoEdit
    BY <1>4 DEF RecordsInv, RecordsTypeOK
  <2>2. EditIsSound(edit[q]) /\ edit[q].version \in Nat /\ version \in Nat
    BY <2>1 DEF RecordsInv, RecordsTypeOK, EditsAreSound, EditRecords
  <2>3. edit[q].version <= version' /\ edit[q].version # version'
    BY <1>4, <2>2 DEF EditIsSound
  <2> QED BY <2>1, <2>2, <2>3 DEF EditIsSound
<1>8. Cardinality(tags') <= MaxTags
  <2>1. tags' \subseteq e.read \union e.add
    BY DEF WriteTags, After
  <2>2. IsFiniteSet(e.read \union e.add)
    BY <1>1, FS_Subset, AlertRecordsAssumption DEF EditRecords
  <2>3. /\ Cardinality(tags') \in Nat
        /\ Cardinality(e.read \union e.add) \in Nat
        /\ Cardinality(tags') <= Cardinality(e.read \union e.add)
    BY <2>1, <2>2, FS_Subset, FS_CardinalityType
  <2> QED BY <1>1, <2>3, AlertRecordsAssumption DEF EditIsSound
<1>9. ~staleWrite' => tags' = wanted'
  <2> SUFFICES ASSUME ~staleWrite' PROVE tags' = wanted'
    OBVIOUS
  <2>1. ~staleWrite /\ e.version = version
    BY DEF WriteTags
  <2>2. e.read = tags /\ tags = wanted
    BY <1>1, <2>1 DEF EditIsSound, RecordsInv, TagEditsAddUp
  <2> QED BY <2>2 DEF WriteTags
<1> QED BY <1>6, <1>7, <1>8, <1>9 DEF RecordsInv, TagEditsAddUp

LEMMA RecordsStep == RecordsInv /\ [RecordsNext]_recordVars => RecordsInv'
<1> SUFFICES ASSUME RecordsInv, [RecordsNext]_recordVars PROVE RecordsInv'
  OBVIOUS
<1>1. ASSUME NEW r \in Editors, WriteTags(r) PROVE RecordsInv'
  BY <1>1, WritingIsSound
<1>2. ASSUME NEW r \in Editors, WriteTagsFails(r) PROVE RecordsInv'
  BY <1>2 DEF WriteTagsFails, RecordsInv, RecordsTypeOK, EditsAreSound, EditIsSound, TagEditsAddUp
<1>3. ASSUME NEW r \in Editors, NEW payload \in SUBSET Tags, AddTags(r, payload)
      PROVE  RecordsInv'
  <2> DEFINE add == payload \ tags
  <2>1. tags \union add = tags \union payload
    OBVIOUS
  <2>2. Cardinality(tags \union add) <= MaxTags
    BY <1>3, <2>1 DEF AddTags, Within
  <2>3. /\ edit' = [edit EXCEPT ![r] = Edit(add, {})]
        /\ UNCHANGED <<tags, version, wanted, staleWrite>>
    BY <1>3 DEF AddTags
  <2>4. add \in SUBSET Tags /\ {} \in SUBSET Tags
    OBVIOUS
  <2> HIDE DEF add
  <2> QED BY <2>2, <2>3, <2>4, ReadingIsSound
<1>4. ASSUME NEW r \in Editors, NEW tag \in Tags, RemoveTag(r, tag) PROVE RecordsInv'
  <2>1. tags \union {} = tags
    OBVIOUS
  <2>2. Cardinality(tags \union {}) <= MaxTags
    BY <2>1 DEF RecordsInv, TagEditsAddUp
  <2>3. /\ edit' = [edit EXCEPT ![r] = Edit({}, {tag})]
        /\ UNCHANGED <<tags, version, wanted, staleWrite>>
    BY <1>4 DEF RemoveTag
  <2>4. {} \in SUBSET Tags /\ {tag} \in SUBSET Tags
    OBVIOUS
  <2> QED BY <2>2, <2>3, <2>4, ReadingIsSound
<1>5. ASSUME NEW status, SetColumn(status) PROVE RecordsInv'
  BY <1>5 DEF SetColumn, RecordsInv, RecordsTypeOK, EditsAreSound, EditIsSound, TagEditsAddUp
<1>6. CASE UNCHANGED recordVars
  BY <1>6 DEF recordVars, RecordsInv, RecordsTypeOK, EditsAreSound, EditIsSound, TagEditsAddUp
<1> QED BY <1>1, <1>2, <1>3, <1>4, <1>5, <1>6 DEF RecordsNext

\* However edits of an alert's tags overlap and fail, no more tags are stored than
\* the limit, and without a write over an edit it had not read they are those that
\* the edits asked for.
THEOREM TagsAlwaysAddUp == RecordsSpec => []TagEditsAddUp
<1>1. RecordsInv => TagEditsAddUp
  BY DEF RecordsInv
<1> QED BY RecordsStart, RecordsStep, <1>1, PTL DEF RecordsSpec

-----------------------------------------------------------------------------
(* Reading page by page *)

ListingTypeOK ==
    /\ rows \in SUBSET (1 .. LastAlert)
    /\ offset \in Nat
    /\ stayed \in SUBSET (1 .. LastAlert)
    /\ departures \in Nat

\* What of the alerts that stayed lies before the reader's place in the list, and
\* was not on a page.
PassedBy == {a \in stayed : finished \/ Rank(Shown, a) < offset} \ received

ListingInv ==
    /\ ListingTypeOK
    /\ offset = 0 => ~finished /\ stayed = {} /\ departures = 0
    /\ ~finished => stayed \subseteq Shown
    /\ Cardinality(PassedBy) <= departures

LEMMA ShownIsFinite ==
    ASSUME ListingTypeOK
    PROVE  /\ Shown \in SUBSET (1 .. LastAlert) /\ Shown \subseteq Nat /\ IsFiniteSet(Shown)
           /\ IsFiniteSet(stayed) /\ stayed \subseteq Nat
<1>1. LastAlert \in Nat
  BY AlertListingAssumption
<1>2. Shown \subseteq 1 .. LastAlert /\ stayed \subseteq 1 .. LastAlert
  BY DEF Shown, Listed, NewestRows, ListingTypeOK
<1>3. IsFiniteSet(1 .. LastAlert) /\ 1 .. LastAlert \subseteq Nat
  BY <1>1, FS_Interval
<1> QED
  BY <1>2, <1>3, FS_Subset

\* No two of a set have the same rank in it.
LEMMA RanksDiffer ==
    ASSUME NEW S \in SUBSET Nat, IsFiniteSet(S), NEW a \in S, NEW b \in S, a # b
    PROVE  Rank(S, a) \in Nat /\ Rank(S, a) # Rank(S, b)
<1>1. ASSUME NEW x \in S, NEW y \in S, x < y
      PROVE  Rank(S, x) \in Nat /\ Rank(S, y) < Rank(S, x)
  <2> DEFINE X == {c \in S : c > x}
             Y == {c \in S : c > y}
  <2>1. X \subseteq S /\ Y \subseteq X /\ y \in X /\ y \notin Y
    <3>1. \A c \in S : c \in Nat
      OBVIOUS
    <3>2. \A c \in S : c > y => c > x
      BY <1>1, <3>1
    <3>3. y > x /\ ~(y > y)
      BY <1>1, <3>1
    <3> QED
      BY <3>2, <3>3
  <2>2. IsFiniteSet(X) /\ IsFiniteSet(Y)
    BY <2>1, FS_Subset
  <2>3. Cardinality(Y) <= Cardinality(X) /\ Cardinality(Y) # Cardinality(X)
    BY <2>1, <2>2, FS_Subset
  <2>4. Cardinality(X) \in Nat /\ Cardinality(Y) \in Nat
    BY <2>2, FS_CardinalityType
  <2> QED
    BY <2>3, <2>4 DEF Rank
<1>2. a < b \/ b < a
  OBVIOUS
<1>3. CASE a < b
  <2>1. Rank(S, a) \in Nat /\ Rank(S, b) < Rank(S, a)
    BY <1>1, <1>3
  <2> QED
    BY <2>1
<1>4. CASE b < a
  <2>1. Rank(S, b) \in Nat /\ Rank(S, a) < Rank(S, b)
    BY <1>1, <1>4
  <2>2. IsFiniteSet({c \in S : c > a})
    BY FS_Subset
  <2>3. Rank(S, a) \in Nat
    BY <2>2, FS_CardinalityType DEF Rank
  <2> QED
    BY <2>1, <2>3
<1> QED
  BY <1>2, <1>3, <1>4

\* At most d of a set have one of d ranks that follow each other.
LEMMA RanksInOrder ==
    ASSUME NEW S \in SUBSET Nat, IsFiniteSet(S), NEW from \in Nat, NEW d \in Nat
    PROVE  Cardinality({a \in S : from <= Rank(S, a) /\ Rank(S, a) < from + d}) <= d
<1> DEFINE X == {a \in S : from <= Rank(S, a) /\ Rank(S, a) < from + d}
           T == from .. (from + d - 1)
           f == [a \in X |-> Rank(S, a)]
<1>1. IsFiniteSet(T) /\ Cardinality(T) = d
  BY FS_Interval
<1>2. \A a \in S : Rank(S, a) \in Nat
  <2> SUFFICES ASSUME NEW a \in S
               PROVE  Rank(S, a) \in Nat
    OBVIOUS
  <2>1. IsFiniteSet({c \in S : c > a})
    BY FS_Subset
  <2> QED
    BY <2>1, FS_CardinalityType DEF Rank
<1>3. f \in [X -> T]
  <2>1. \A a \in X : Rank(S, a) \in T
    BY <1>2
  <2> QED
    BY <2>1
<1>4. \A a, b \in X : f[a] = f[b] => a = b
  BY RanksDiffer
<1>5. f \in Injection(X, T)
  BY <1>3, <1>4 DEF Injection, IsInjective
<1> HIDE DEF X, T, f
<1>6. Cardinality(X) <= Cardinality(T)
  BY <1>1, <1>5, FS_Injection
<1> QED
  BY <1>1, <1>6 DEF X

\* When d of a set leave it, what stays is at most d places nearer to its begin.
LEMMA RankAfter ==
    ASSUME NEW S \in SUBSET Nat, IsFiniteSet(S), NEW S2 \in SUBSET Nat, IsFiniteSet(S2), NEW a \in Nat
    PROVE  /\ Rank(S, a) \in Nat /\ Rank(S2, a) \in Nat /\ Cardinality(S \ S2) \in Nat
           /\ Rank(S, a) <= Rank(S2, a) + Cardinality(S \ S2)
<1> DEFINE X == {b \in S : b > a}
           Y == {b \in S2 : b > a}
           Z == S \ S2
<1>1. IsFiniteSet(X) /\ IsFiniteSet(Y) /\ IsFiniteSet(Z)
  BY FS_Subset
<1>2. Cardinality(X) \in Nat /\ Cardinality(Y) \in Nat /\ Cardinality(Z) \in Nat
  BY <1>1, FS_CardinalityType
<1>3. X \subseteq Y \union Z
  OBVIOUS
<1>4. /\ IsFiniteSet(Y \union Z) /\ Cardinality(Y \intersect Z) \in Nat
      /\ Cardinality(Y \union Z) = Cardinality(Y) + Cardinality(Z) - Cardinality(Y \intersect Z)
  <2>1. IsFiniteSet(Y \intersect Z)
    BY <1>1, FS_Subset
  <2> QED
    BY <1>1, <2>1, FS_Union, FS_CardinalityType
<1>5. Cardinality(X) <= Cardinality(Y \union Z)
  BY <1>3, <1>4, FS_Subset
<1> QED
  BY <1>2, <1>4, <1>5 DEF Rank

LEMMA ListingStart == ListingInit => ListingInv
<1> SUFFICES ASSUME ListingInit
             PROVE  ListingInv
  OBVIOUS
<1>1. PassedBy = {}
  BY DEF ListingInit, PassedBy
<1>2. Cardinality(PassedBy) = 0
  BY <1>1, FS_EmptySet
<1> QED
  BY <1>2 DEF ListingInit, ListingInv, ListingTypeOK

\* A page adds to what was passed only what is on it.
LEMMA ReadKeeps == ASSUME ListingInv, ReadPage PROVE ListingInv'
<1>1. /\ ListingTypeOK /\ ~finished /\ stayed \subseteq Shown
      /\ offset = 0 => stayed = {} /\ departures = 0
      /\ Cardinality(PassedBy) <= departures
      /\ offset \in Nat /\ departures \in Nat /\ PageSize \in Nat \ {0}
  BY AlertListingAssumption DEF ListingInv, ListingTypeOK, ReadPage
<1>2. Shown' = Shown /\ departures' = departures /\ offset' = offset + PageSize
  BY DEF ReadPage, Shown, Listed
<1>3. Shown \in SUBSET (1 .. LastAlert) /\ Shown \subseteq Nat /\ IsFiniteSet(Shown)
  BY <1>1, ShownIsFinite
<1>4. stayed' \subseteq Shown /\ (offset # 0 => stayed' = stayed) /\ (offset = 0 => stayed' = Shown)
  BY <1>1 DEF ReadPage
<1>5. ListingTypeOK'
  BY <1>1, <1>2, <1>3, <1>4 DEF ListingTypeOK, ReadPage
<1>6. \A a \in Shown : Rank(Shown, a) \in Nat /\ Rank(Shown, a) < Cardinality(Shown)
  <2> SUFFICES ASSUME NEW a \in Shown
               PROVE  Rank(Shown, a) \in Nat /\ Rank(Shown, a) < Cardinality(Shown)
    OBVIOUS
  <2> DEFINE X == {b \in Shown : b > a}
  <2>1. X \subseteq Shown /\ a \notin X
    BY <1>3
  <2>2. IsFiniteSet(X) /\ Cardinality(X) <= Cardinality(Shown) /\ Cardinality(X) # Cardinality(Shown)
    BY <1>3, <2>1, FS_Subset
  <2>3. Cardinality(X) \in Nat /\ Cardinality(Shown) \in Nat
    BY <1>3, <2>2, FS_CardinalityType
  <2> QED
    BY <2>2, <2>3 DEF Rank
<1>7. Cardinality(Shown) \in Nat
  BY <1>3, FS_CardinalityType
<1>8. PassedBy' \subseteq PassedBy
  <2> SUFFICES ASSUME NEW a \in PassedBy'
               PROVE  a \in PassedBy
    OBVIOUS
  <2>1. a \in stayed' /\ a \in Shown /\ a \notin received'
    BY <1>4 DEF PassedBy
  <2>2. a \notin received /\ a \notin Page(offset)
    BY <2>1 DEF ReadPage
  <2>3. Rank(Shown, a) < offset + PageSize
    <3>1. finished' => offset + PageSize >= Cardinality(Shown)
      BY <1>2 DEF ReadPage
    <3>2. CASE finished'
      BY <1>1, <1>6, <1>7, <2>1, <3>1, <3>2
    <3>3. CASE ~finished'
      BY <1>2, <3>3 DEF PassedBy
    <3> QED
      BY <3>2, <3>3
  <2>4. Rank(Shown, a) < offset
    BY <1>1, <1>6, <2>1, <2>2, <2>3 DEF Page, Slice
  <2>5. offset # 0
    BY <1>6, <2>1, <2>4
  <2> QED
    BY <1>1, <1>4, <2>1, <2>2, <2>4, <2>5 DEF PassedBy
<1>9. Cardinality(PassedBy') <= departures'
  <2>1. IsFiniteSet(PassedBy)
    BY <1>1, ShownIsFinite, FS_Subset DEF PassedBy
  <2>2. Cardinality(PassedBy') <= Cardinality(PassedBy) /\ IsFiniteSet(PassedBy')
    BY <1>8, <2>1, FS_Subset
  <2>3. Cardinality(PassedBy) \in Nat /\ Cardinality(PassedBy') \in Nat
    BY <2>1, <2>2, FS_CardinalityType
  <2> QED
    BY <1>1, <1>2, <2>2, <2>3
<1> QED
  BY <1>1, <1>2, <1>4, <1>5, <1>9 DEF ListingInv

\* Whatever the change made of what is shown.
LEMMA ChangeWatched ==
    ASSUME ListingInv, Watched, rows' \in SUBSET (1 .. LastAlert)
    PROVE  ListingInv'
<1>1. /\ ListingTypeOK /\ UNCHANGED <<offset, received, finished>>
      /\ offset = 0 => ~finished /\ stayed = {} /\ departures = 0
      /\ ~finished => stayed \subseteq Shown
      /\ Cardinality(PassedBy) <= departures
      /\ offset \in Nat /\ departures \in Nat
  BY DEF ListingInv, ListingTypeOK, Watched
<1>2. /\ Shown \subseteq Nat /\ IsFiniteSet(Shown) /\ IsFiniteSet(stayed) /\ stayed \subseteq Nat
  BY <1>1, ShownIsFinite
<1>3. CASE ~(offset > 0 /\ ~finished)
  <2>1. UNCHANGED <<stayed, departures>>
    BY <1>3 DEF Watched
  <2>2. ListingTypeOK'
    BY <1>1, <2>1 DEF ListingTypeOK
  <2>3. PassedBy' = PassedBy
    BY <1>1, <1>3, <2>1 DEF PassedBy
  <2> QED
    BY <1>1, <1>3, <2>1, <2>2, <2>3 DEF ListingInv
<1>4. CASE offset > 0 /\ ~finished
  <2>1. PICK S, S2 : S = Shown /\ S2 = Shown'
    OBVIOUS
  <2>2. S \subseteq Nat /\ IsFiniteSet(S) /\ stayed \subseteq S
    BY <1>1, <1>2, <1>4, <2>1
  <2>3. S2 \subseteq Nat /\ IsFiniteSet(S2)
    <3>1. LastAlert \in Nat
      BY AlertListingAssumption
    <3>2. S2 \subseteq 1 .. LastAlert
      BY <2>1 DEF Shown, Listed, NewestRows
    <3>3. IsFiniteSet(1 .. LastAlert) /\ 1 .. LastAlert \subseteq Nat
      BY <3>1, FS_Interval
    <3> QED
      BY <3>2, <3>3, FS_Subset
  <2>4. PICK d \in Nat : d = Cardinality(S \ S2)
    BY <2>2, FS_Subset, FS_CardinalityType
  <2>5. stayed' = stayed \intersect S2 /\ departures' = departures + d
    <3>1. /\ stayed' = stayed \intersect Shown'
          /\ departures' = departures + Cardinality(Shown \ Shown')
      BY <1>4 DEF Watched
    <3> QED
      BY <2>1, <2>4, <3>1
  <2>6. ListingTypeOK'
    <3>1. departures' \in Nat /\ offset' \in Nat
      BY <1>1, <2>4, <2>5
    <3>2. stayed' \subseteq 1 .. LastAlert
      BY <1>1, <2>5 DEF ListingTypeOK
    <3> QED
      BY <3>1, <3>2 DEF ListingTypeOK
  <2>7. PICK near : near = {a \in S : offset <= Rank(S, a) /\ Rank(S, a) < offset + d}
    OBVIOUS
  <2>8. near \subseteq S /\ IsFiniteSet(near) /\ Cardinality(near) <= d
    BY <1>1, <2>2, <2>7, FS_Subset, RanksInOrder
  <2>9. PassedBy' \subseteq PassedBy \union near
    <3> SUFFICES ASSUME NEW a \in PassedBy', a \notin near
                 PROVE  a \in PassedBy
      OBVIOUS
    <3>1. a \in stayed /\ a \in S /\ a \notin received /\ Rank(S2, a) < offset
      BY <1>1, <1>4, <2>1, <2>2, <2>5 DEF PassedBy
    <3>2. Rank(S, a) \in Nat /\ Rank(S2, a) \in Nat /\ Rank(S, a) <= Rank(S2, a) + d
      BY <2>2, <2>3, <2>4, <3>1, RankAfter
    <3>3. Rank(S, a) < offset
      BY <1>1, <2>4, <2>7, <3>1, <3>2
    <3> QED
      BY <2>1, <3>1, <3>3 DEF PassedBy
  <2>10. IsFiniteSet(PassedBy)
    BY <1>2, FS_Subset DEF PassedBy
  <2>11. Cardinality(PassedBy') <= departures + d
    <3>1. PICK P : P = PassedBy /\ IsFiniteSet(P)
      BY <2>10
    <3>2. /\ IsFiniteSet(P \union near)
          /\ Cardinality(P \union near) = Cardinality(P) + Cardinality(near) - Cardinality(P \intersect near)
      BY <2>8, <3>1, FS_Union
    <3>3. Cardinality(PassedBy') <= Cardinality(P \union near) /\ IsFiniteSet(PassedBy')
      BY <2>9, <3>1, <3>2, FS_Subset
    <3>4. IsFiniteSet(P \intersect near)
      BY <3>1, FS_Subset
    <3>5. /\ Cardinality(P) \in Nat /\ Cardinality(near) \in Nat /\ Cardinality(P \intersect near) \in Nat
          /\ Cardinality(PassedBy') \in Nat
      BY <2>8, <3>1, <3>3, <3>4, FS_CardinalityType
    <3> QED
      BY <1>1, <2>4, <2>8, <3>1, <3>2, <3>3, <3>5
  <2> QED
    BY <1>1, <1>4, <2>1, <2>5, <2>6, <2>11 DEF ListingInv
<1> QED
  BY <1>3, <1>4

LEMMA ListingStep == ListingInv /\ [ListingNext]_listingVars => ListingInv'
<1> SUFFICES ASSUME ListingInv, [ListingNext]_listingVars
             PROVE  ListingInv'
  OBVIOUS
<1>1. ASSUME NEW a \in 1 .. LastAlert, StoreAlert(a) \/ UpdateStatus(a)
      PROVE  ListingInv'
  <2>1. Watched /\ rows' \in SUBSET (1 .. LastAlert)
    BY <1>1 DEF StoreAlert, UpdateStatus, ListingInv, ListingTypeOK
  <2> QED
    BY <2>1, ChangeWatched
<1>2. CASE UNCHANGED listingVars
  <2>1. Shown' = Shown
    BY <1>2 DEF listingVars, Shown, Listed
  <2> QED
    BY <1>2, <2>1 DEF listingVars, ListingInv, ListingTypeOK, PassedBy
<1> QED
  BY <1>1, <1>2, ReadKeeps DEF ListingNext

\* Of what was to be shown all along, a reader who has passed it missed at most
\* one for every alert that ceased to be shown, whatever was stored, closed and
\* reopened between the pages (get_alerts_list, list_alerts).
THEOREM PagesNeverMiss == ListingSpec => []PagesMissNothing
<1>1. ListingInv => PagesMissNothing
  <2> SUFFICES ASSUME ListingInv
               PROVE  PagesMissNothing
    OBVIOUS
  <2>1. \A a \in stayed : Rank(Shown, a) \in Nat
    <3>1. \A a \in stayed : a \in Nat /\ IsFiniteSet(Shown) /\ Shown \subseteq Nat
      BY ShownIsFinite DEF ListingInv
    <3> QED
      BY <3>1, RankAfter
  <2>2. ~finished => stayed \intersect Slice(Shown, 0, offset)
                        = {a \in stayed : Rank(Shown, a) < offset}
    <3>1. ~finished => stayed \subseteq Shown
      BY DEF ListingInv
    <3>2. offset \in Nat /\ 0 + offset = offset
      BY DEF ListingInv, ListingTypeOK
    <3>3. \A a \in stayed : 0 <= Rank(Shown, a)
      BY <2>1
    <3> QED
      BY <3>1, <3>2, <3>3 DEF Slice
  <2> DEFINE passed == IF finished THEN stayed ELSE stayed \intersect Slice(Shown, 0, offset)
  <2>3. passed \ received = PassedBy
    BY <2>2 DEF PassedBy
  <2>4. Cardinality(passed \ received) <= departures
    BY <2>3 DEF ListingInv
  <2> QED
    BY <2>4 DEF PagesMissNothing
<1> QED
  BY <1>1, ListingStart, ListingStep, PTL DEF ListingSpec

-----------------------------------------------------------------------------
(* The console *)

USE ConsoleAssumption

SessionTypeOK ==
    /\ issued \in SUBSET Tokens
    /\ stored \in Tokens \union {NoToken}
    /\ memoryToken \in Tokens \union {NoToken}
    /\ check \in [step : {"none", "sent", "again"}, token : Tokens \union {NoToken},
                  restored : BOOLEAN, retry : BOOLEAN]
    /\ crossed \in BOOLEAN
    /\ loads \in Nat

\* While the check of this load is under way and no login has been answered,
\* everything is as the load left it: the token that is checked is the stored
\* one, it is in use, and there is none if it was not restored.
CheckIsOfTheStored ==
    ~crossed /\ check.step # "none" =>
        /\ check.token = stored
        /\ memoryToken = stored
        /\ check.restored <=> stored # NoToken
        /\ loads > 0

SessionInv == SessionTypeOK /\ CheckIsOfTheStored /\ SessionIsWhole

LinkStates == {"none", "connecting", "open", "closing", "waiting", "given up"}
SocketTypeOK ==
    /\ effects \in 0 .. MaxEffects
    /\ effect \in 0 .. effects
    /\ link \in [Effects -> LinkStates]
    /\ wsRef \in 0 .. MaxEffects
    /\ retryCount \in 0 .. MaxRetries
    /\ closings \in Nat

\* No more retries are used up than sockets have closed since one opened.
RetriesAreClosings == retryCount <= closings

SocketInv == SocketTypeOK /\ RetriesAreClosings /\ HookKeepsListening

-----------------------------------------------------------------------------
(* The session *)

LEMMA SessionInit == ConsoleInit => SessionInv
<1> SUFFICES ASSUME ConsoleInit PROVE SessionInv
  OBVIOUS
<1>1. check \in [step : {"none", "sent", "again"}, token : Tokens \union {NoToken},
                 restored : BOOLEAN, retry : BOOLEAN] /\ check.step = "none"
  BY DEF ConsoleInit, Unchecked
<1>2. SessionTypeOK
  BY <1>1 DEF ConsoleInit, SessionTypeOK
<1> QED BY <1>1, <1>2 DEF ConsoleInit, SessionInv, CheckIsOfTheStored, SessionIsWhole

\* The socket does not touch the session.
LEMMA SocketLeavesSession ==
    SessionInv /\ UNCHANGED <<issued, stored, memoryToken, shown, check, crossed, loads>>
        => SessionInv'
BY DEF SessionInv, SessionTypeOK, CheckIsOfTheStored, SessionIsWhole, isAuthenticated

\* A sign-out forgets the stored token exactly if it is the one that was checked.
LEMMA SignOutKeepsSession ==
    ASSUME SessionInv, check.step # "none", SignOut PROVE SessionInv'
<1>1. SessionTypeOK'
  BY DEF SessionInv, SessionTypeOK, SignOut, Forgotten, Unchecked
<1>2. CheckIsOfTheStored'
  BY DEF SignOut, CheckIsOfTheStored, Unchecked
<1>3. SessionIsWhole'
  BY DEF SessionInv, SessionIsWhole, CheckIsOfTheStored, SignOut, Forgotten
<1> QED BY <1>1, <1>2, <1>3 DEF SessionInv

LEMMA SessionStep == SessionInv /\ [ConsoleNext]_consoleVars => SessionInv'
<1> SUFFICES ASSUME SessionInv, [ConsoleNext]_consoleVars PROVE SessionInv'
  OBVIOUS
<1>1. CASE LoadPage
  <2>1. check'.token = stored /\ (check'.restored <=> stored # NoToken)
    BY <1>1 DEF LoadPage
  <2>2. check' \in [step : {"none", "sent", "again"}, token : Tokens \union {NoToken},
                    restored : BOOLEAN, retry : BOOLEAN]
    BY <1>1 DEF LoadPage, SessionInv, SessionTypeOK
  <2>3. loads' \in Nat /\ loads' > 0
    BY <1>1 DEF LoadPage, SessionInv, SessionTypeOK
  <2>4. crossed' \in BOOLEAN
    BY <1>1, Zenon DEF LoadPage
  <2>5. SessionTypeOK'
    BY <1>1, <2>2, <2>3, <2>4, Zenon DEF LoadPage, SessionInv, SessionTypeOK
  <2> QED
    BY <1>1, <2>1, <2>3, <2>5 DEF LoadPage, SessionInv, CheckIsOfTheStored, SessionIsWhole
<1>2. CASE CheckPasses
  <2>1. check.token \in Tokens
    BY <1>2 DEF CheckPasses, Valid, SessionInv, SessionTypeOK
  <2> QED
    BY <1>2, <2>1 DEF CheckPasses, SessionInv, SessionTypeOK, CheckIsOfTheStored,
                      SessionIsWhole, Unchecked
<1>3. CASE CheckRefused
  BY <1>3, SignOutKeepsSession DEF CheckRefused
<1>4. CASE CheckFails
  <2>1. CASE check.retry
    BY <1>4, <2>1, SignOutKeepsSession DEF CheckFails
  <2>2. CASE ~check.retry
    BY <1>4, <2>2 DEF CheckFails, SessionInv, SessionTypeOK, CheckIsOfTheStored, SessionIsWhole
  <2> QED BY <2>1, <2>2
<1>5. CASE CheckAgain
  BY <1>5 DEF CheckAgain, SessionInv, SessionTypeOK, CheckIsOfTheStored, SessionIsWhole
<1>6. CASE Submit
  BY <1>6, SocketLeavesSession DEF Submit
<1>7. CASE LoginRefused
  BY <1>7, SocketLeavesSession DEF LoginRefused
<1>8. CASE LoginFails
  BY <1>8, SocketLeavesSession DEF LoginFails
<1>9. ASSUME NEW t \in Tokens, LoginAccepted(t) PROVE SessionInv'
  BY <1>9 DEF LoginAccepted, SessionInv, SessionTypeOK, CheckIsOfTheStored, SessionIsWhole
<1>10. ASSUME NEW t \in Tokens, Expire(t) PROVE SessionInv'
  BY <1>10, SocketLeavesSession DEF Expire, sessionVars
<1>11. CASE RunEffect
  BY <1>11, SocketLeavesSession DEF RunEffect, sessionVars
<1>12. ASSUME NEW e \in Effects, SocketOpens(e) \/ SocketCloses(e) \/ TimerFires(e)
       PROVE  SessionInv'
  BY <1>12, SocketLeavesSession DEF SocketOpens, SocketCloses, TimerFires, sessionVars
<1>13. CASE UNCHANGED consoleVars
  BY <1>13, SocketLeavesSession DEF consoleVars, sessionVars
<1> QED
  BY <1>1, <1>2, <1>3, <1>4, <1>5, <1>6, <1>7, <1>8, <1>9, <1>10, <1>11, <1>12, <1>13
  DEF ConsoleNext

\* A page that is not crossed by a login shows a user exactly if his token is in
\* memory and in the storage.
THEOREM SessionsAreWhole == ConsoleSpec => []SessionIsWhole
<1>1. SessionInv => SessionIsWhole
  BY DEF SessionInv
<1> QED BY SessionInit, SessionStep, <1>1, PTL DEF ConsoleSpec

-----------------------------------------------------------------------------
(* The socket *)

LEMMA SocketInit == ConsoleInit => SocketInv
BY DEF ConsoleInit, SocketInv, SocketTypeOK, RetriesAreClosings, HookKeepsListening,
       LinkStates, Effects

\* The session does not touch the socket.
LEMMA SessionLeavesSocket == SocketInv /\ UNCHANGED socketVars => SocketInv'
BY DEF SocketInv, SocketTypeOK, RetriesAreClosings, HookKeepsListening, socketVars

LEMMA CleanedType ==
    ASSUME SocketTypeOK PROVE Cleaned \in [Effects -> LinkStates]
BY DEF SocketTypeOK, Cleaned, LinkStates

\* A new effect begins with a socket of its own.
LEMMA StartListens ==
    ASSUME SocketInv, NEW links \in [Effects -> LinkStates], StartEffect(links),
           UNCHANGED <<retryCount, closings>>
    PROVE  SocketInv'
<1>1. effects + 1 \in Effects /\ effect' = effects + 1 /\ effects' = effects + 1
      /\ wsRef' = effects + 1
  BY DEF StartEffect, Connect, SocketInv, SocketTypeOK, Effects
<1>2. link' \in [Effects -> LinkStates] /\ link'[effects + 1] = "connecting"
  BY <1>1 DEF StartEffect, Connect, LinkStates
<1>3. SocketTypeOK'
  BY <1>1, <1>2 DEF SocketInv, SocketTypeOK, Effects
<1>4. RetriesAreClosings'
  BY DEF SocketInv, RetriesAreClosings
<1>5. HookKeepsListening'
  BY <1>1, <1>2 DEF HookKeepsListening, Live
<1> QED BY <1>3, <1>4, <1>5 DEF SocketInv

LEMMA SocketStep == SocketInv /\ [ConsoleNext]_consoleVars => SocketInv'
<1> SUFFICES ASSUME SocketInv, [ConsoleNext]_consoleVars PROVE SocketInv'
  OBVIOUS
<1> USE DEF SocketInv
<1>1. CASE LoadPage
  <2>1. link' \in [Effects -> LinkStates]
    BY <1>1 DEF LoadPage, LinkStates
  <2>2. SocketTypeOK' /\ RetriesAreClosings'
    BY <1>1, <2>1 DEF LoadPage, SocketTypeOK, RetriesAreClosings
  <2>3. HookKeepsListening'
    BY <1>1 DEF LoadPage, HookKeepsListening
  <2> QED BY <2>2, <2>3
<1>2. CASE RunEffect
  <2>1. CASE effect = 0 /\ StartEffect(link)
    BY <1>2, <2>1, StartListens DEF RunEffect, SocketTypeOK
  <2>2. CASE StartEffect(Cleaned)
    BY <1>2, <2>2, StartListens, CleanedType DEF RunEffect
  <2>3. CASE effect' = 0 /\ link' = Cleaned /\ UNCHANGED <<effects, wsRef>>
    BY <1>2, <2>3, CleanedType DEF RunEffect, SocketTypeOK, RetriesAreClosings, HookKeepsListening
  <2> QED BY <1>2, <2>1, <2>2, <2>3 DEF RunEffect
<1>3. ASSUME NEW e \in Effects, SocketOpens(e) PROVE SocketInv'
  <2>1. link' \in [Effects -> LinkStates] /\ link'[e] = "open"
    BY <1>3 DEF SocketOpens, SocketTypeOK, LinkStates
  <2>2. SocketTypeOK' /\ RetriesAreClosings'
    BY <1>3, <2>1 DEF SocketOpens, SocketTypeOK, RetriesAreClosings, RetriesAfterOpen
  <2>3. HookKeepsListening'
    BY <1>3, <2>1 DEF SocketOpens, SocketTypeOK, HookKeepsListening, Live, Effects
  <2> QED BY <2>2, <2>3
<1>4. ASSUME NEW e \in Effects, SocketCloses(e) PROVE SocketInv'
  <2>1. CASE retryCount < MaxRetries
    <3>1. link' \in [Effects -> LinkStates] /\ link'[e] = "waiting"
      BY <1>4, <2>1 DEF SocketCloses, SocketTypeOK, LinkStates
    <3>2. SocketTypeOK' /\ RetriesAreClosings'
      BY <1>4, <2>1, <3>1 DEF SocketCloses, SocketTypeOK, RetriesAreClosings
    <3>3. HookKeepsListening'
      BY <1>4, <2>1, <3>1 DEF SocketCloses, SocketTypeOK, HookKeepsListening, Live, Effects
    <3> QED BY <3>2, <3>3
  <2>2. CASE ~(retryCount < MaxRetries)
    <3>1. link' \in [Effects -> LinkStates] /\ link' = [link EXCEPT ![e] = "given up"]
      BY <1>4, <2>2 DEF SocketCloses, SocketTypeOK, LinkStates
    <3>2. closings' = closings + 1 /\ UNCHANGED <<effect, effects, wsRef, retryCount>>
      BY <1>4, <2>2 DEF SocketCloses
    <3>3. RetriesAreClosings' /\ closings' \in Nat /\ closings' > MaxRetries
      BY <2>2, <3>2 DEF SocketTypeOK, RetriesAreClosings
    <3>4. SocketTypeOK'
      BY <3>1, <3>2, <3>3 DEF SocketTypeOK
    <3>5. ASSUME effect' # 0 PROVE link'[effect'] # "closing"
      <4>1. effect \in Effects
        BY <3>2, <3>5 DEF SocketTypeOK, Effects
      <4>2. link[effect] # "closing"
        BY <3>2, <3>5 DEF HookKeepsListening
      <4> QED BY <3>1, <3>2, <4>1, <4>2 DEF SocketTypeOK
    <3>6. HookKeepsListening'
      BY <3>3, <3>5 DEF HookKeepsListening
    <3> QED BY <3>3, <3>4, <3>6
  <2> QED BY <2>1, <2>2
<1>5. ASSUME NEW e \in Effects, TimerFires(e) PROVE SocketInv'
  <2>1. link' \in [Effects -> LinkStates] /\ link'[e] = "connecting"
    BY <1>5 DEF TimerFires, Connect, SocketTypeOK, LinkStates
  <2>2. SocketTypeOK' /\ RetriesAreClosings'
    BY <1>5, <2>1 DEF TimerFires, Connect, SocketTypeOK, RetriesAreClosings, Effects
  <2>3. HookKeepsListening'
    BY <1>5, <2>1 DEF TimerFires, Connect, SocketTypeOK, HookKeepsListening, Live, Effects
  <2> QED BY <2>2, <2>3
<1>6. CASE UNCHANGED socketVars
  BY <1>6, SessionLeavesSocket
<1>7. ASSUME NEW t \in Tokens, LoginAccepted(t) \/ Expire(t) PROVE SocketInv'
  BY <1>7, SessionLeavesSocket DEF LoginAccepted, Expire
<1>8. CASE CheckPasses \/ CheckRefused \/ CheckFails \/ CheckAgain
  BY <1>8, SessionLeavesSocket DEF CheckPasses, CheckRefused, CheckFails, CheckAgain, SignOut
<1>9. CASE Submit \/ LoginRefused \/ LoginFails
  BY <1>9, SessionLeavesSocket DEF Submit, LoginRefused, LoginFails
<1> QED
  BY <1>1, <1>2, <1>3, <1>4, <1>5, <1>6, <1>7, <1>8, <1>9 DEF ConsoleNext, consoleVars

\* A page whose effect is mounted listens, or will, until more sockets have closed
\* in a row than it may retry; the page closes none of its effect's sockets.
THEOREM PagesKeepListening == ConsoleSpec => []HookKeepsListening
<1>1. SocketInv => HookKeepsListening
  BY DEF SocketInv
<1> QED BY SocketInit, SocketStep, <1>1, PTL DEF ConsoleSpec

\* Both: what a signed-in page stands on.
THEOREM SignedInPagesAlwaysWork == ConsoleSpec => []SignedInPagesWork
<1>1. SessionIsWhole /\ HookKeepsListening => SignedInPagesWork
  BY DEF SignedInPagesWork
<1> QED BY SessionsAreWhole, PagesKeepListening, <1>1, PTL

=============================================================================
