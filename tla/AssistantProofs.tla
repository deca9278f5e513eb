---------------------------- MODULE AssistantProofs ----------------------------
(***************************************************************************)
(* Theorems about Assistant, for every set of requests, reloads, questions  *)
(* and conversations and every size of the caches and windows: that loads   *)
(* take turns and leave the model that was asked for, that answers stay     *)
(* with their questions, that a cache answers only what was asked of it,    *)
(* and that a conversation that went does not come back.                    *)
(***************************************************************************)
EXTENDS Assistant, SequenceTheorems, WellFoundedInduction, TLAPS

-----------------------------------------------------------------------------
(* Removing from a sequence *)

\* A set of numbers that is not empty has a least one.
LEMMA LeastNumber ==
    ASSUME NEW S \in SUBSET Nat, S # {}
    PROVE  \E n \in S : \A m \in S : n <= m
<1> DEFINE R == {p \in Nat \X Nat : p[1] < p[2]}
<1>1. IsWellFoundedOn(R, Nat)
  <2>1. R = OpToRel(<, Nat)
    BY Zenon DEF OpToRel
  <2> QED
    BY <2>1, NatLessThanWellFounded, Zenon
<1>2. PICK n \in S : \A m \in S : <<m, n>> \notin R
  <2> HIDE DEF R
  <2> QED
    BY <1>1, WFMin
<1>3. \A m \in S : ~(m < n)
  BY <1>2
<1> QED
  BY <1>2, <1>3

\* Every member of t is one of s.
Within(t, s) == \A k \in 1 .. Len(t) : \E j \in 1 .. Len(s) : t[k] = s[j]

\* What is removed by its place: the rest keeps its order.
LEMMA RemoveAtFacts ==
    ASSUME NEW S, NEW s \in Seq(S), NEW i \in 1 .. Len(s)
    PROVE  /\ RemoveAt(s, i) \in Seq(S)
           /\ Len(RemoveAt(s, i)) = Len(s) - 1
           /\ \A j \in 1 .. Len(s) - 1 :
                 RemoveAt(s, i)[j] = IF j < i THEN s[j] ELSE s[j + 1]
<1> DEFINE a == SubSeq(s, 1, i - 1)
           b == SubSeq(s, i + 1, Len(s))
<1>1. /\ Len(s) \in Nat
      /\ \A j \in 1 .. Len(s) : s[j] \in S
  BY ElementOfSeq
<1>2. /\ a \in Seq(S)
      /\ Len(a) = i - 1
      /\ \A j \in 1 .. i - 1 : a[j] = s[j]
  BY <1>1, SubSeqProperties
<1>3. /\ b \in Seq(S)
      /\ Len(b) = Len(s) - i
      /\ \A j \in 1 .. Len(s) - i : b[j] = s[i + j]
  BY <1>1, SubSeqProperties
<1> HIDE DEF a, b
<1>4. /\ a \o b \in Seq(S)
      /\ Len(a \o b) = Len(a) + Len(b)
      /\ \A j \in 1 .. Len(a) + Len(b) :
            (a \o b)[j] = IF j <= Len(a) THEN a[j] ELSE b[j - Len(a)]
  BY <1>2, <1>3, ConcatProperties
<1>5. ASSUME NEW j \in 1 .. Len(s) - 1
      PROVE  (a \o b)[j] = IF j < i THEN s[j] ELSE s[j + 1]
  <2>1. CASE j < i
    BY <1>1, <1>2, <1>3, <1>4, <2>1
  <2>2. CASE ~(j < i)
    <3>1. j - Len(a) \in 1 .. Len(s) - i /\ j \in 1 .. Len(a) + Len(b)
      BY <1>1, <1>2, <1>3, <2>2
    <3>2. (a \o b)[j] = b[j - Len(a)]
      BY <1>2, <1>4, <2>2, <3>1
    <3>3. b[j - Len(a)] = s[i + (j - Len(a))]
      BY <1>3, <3>1
    <3>4. i + (j - Len(a)) = j + 1
      BY <1>1, <1>2
    <3> QED
      BY <2>2, <3>2, <3>3, <3>4
  <2> QED
    BY <1>1, <2>1, <2>2
<1>6. RemoveAt(s, i) = a \o b
  BY DEF RemoveAt, a, b
<1> QED
  BY <1>1, <1>2, <1>3, <1>4, <1>5, <1>6

\* RemoveFirst takes at most one member out.
LEMMA RemoveFirstFacts ==
    ASSUME NEW S, NEW s \in Seq(S), NEW e
    PROVE  \/ /\ ~Contains(s, e)
              /\ RemoveFirst(s, e) = s
           \/ \E i \in 1 .. Len(s) : /\ s[i] = e
                                     /\ RemoveFirst(s, e) = RemoveAt(s, i)
<1> DEFINE I == {i \in 1 .. Len(s) : s[i] = e}
<1>1. CASE \E i \in 1 .. Len(s) : s[i] = e
  <2> DEFINE i == CHOOSE x \in I : \A y \in I : x <= y
  <2>1. I # {} /\ I \in SUBSET (1 .. Len(s)) /\ I \in SUBSET Nat
    BY <1>1
  <2>2. i \in I
    BY <2>1, LeastNumber
  <2>3. RemoveFirst(s, e) = RemoveAt(s, i)
    BY <1>1, <2>1 DEF RemoveFirst, SelectInSeq, Min
  <2> QED
    BY <2>2, <2>3
<1>2. CASE ~\E i \in 1 .. Len(s) : s[i] = e
  BY <1>2 DEF RemoveFirst, Contains
<1> QED
  BY <1>1, <1>2

\* Nothing is added, and nothing is lost but what was to be removed.
LEMMA RemoveFirstKeeps ==
    ASSUME NEW S, NEW s \in Seq(S), NEW e
    PROVE  /\ RemoveFirst(s, e) \in Seq(S)
           /\ Len(RemoveFirst(s, e)) <= Len(s)
           /\ Within(RemoveFirst(s, e), s)
           /\ \A x : x # e => (Contains(RemoveFirst(s, e), x) <=> Contains(s, x))
<1>1. CASE ~Contains(s, e) /\ RemoveFirst(s, e) = s
  BY <1>1 DEF Within
<1>2. ASSUME NEW i \in 1 .. Len(s), s[i] = e, RemoveFirst(s, e) = RemoveAt(s, i)
      PROVE  /\ RemoveFirst(s, e) \in Seq(S)
             /\ Len(RemoveFirst(s, e)) <= Len(s)
             /\ Within(RemoveFirst(s, e), s)
             /\ \A x : x # e => (Contains(RemoveFirst(s, e), x) <=> Contains(s, x))
  <2> DEFINE t == RemoveAt(s, i)
  <2>1. /\ t \in Seq(S) /\ Len(s) \in Nat /\ Len(t) = Len(s) - 1
        /\ \A j \in 1 .. Len(s) - 1 : t[j] = IF j < i THEN s[j] ELSE s[j + 1]
    BY RemoveAtFacts, LenProperties
  <2> HIDE DEF t
  <2>2. Within(t, s)
    <3> SUFFICES ASSUME NEW k \in 1 .. Len(t)
                 PROVE  \E j \in 1 .. Len(s) : t[k] = s[j]
      BY DEF Within
    <3>1. k \in 1 .. Len(s) /\ k + 1 \in 1 .. Len(s)
      BY <2>1
    <3> QED
      BY <2>1, <3>1
  <2>3. ASSUME NEW x, x # e
        PROVE  Contains(t, x) <=> Contains(s, x)
    <3>1. ASSUME Contains(t, x)
          PROVE  Contains(s, x)
      BY <2>2, <3>1 DEF Within, Contains
    <3>2. ASSUME NEW j \in 1 .. Len(s), s[j] = x
          PROVE  Contains(t, x)
      <4>1. j # i
        BY <1>2, <2>3, <3>2
      <4>2. CASE j < i
        <5>1. j \in 1 .. Len(t) /\ t[j] = x
          BY <2>1, <3>2, <4>2
        <5> QED
          BY <5>1 DEF Contains
      <4>3. CASE j > i
        <5>1. j - 1 \in 1 .. Len(t) /\ t[j - 1] = x
          BY <2>1, <3>2, <4>3
        <5> QED
          BY <5>1 DEF Contains
      <4> QED
        BY <4>1, <4>2, <4>3
    <3> QED
      BY <3>1, <3>2 DEF Contains
  <2> QED
    BY <1>2, <2>1, <2>2, <2>3 DEF t
<1> QED
  BY <1>1, <1>2, RemoveFirstFacts

\* From a sequence without repetition the member is gone, no repetition
\* arises, and whoever else was first still is.
LEMMA RemoveFirstOnce ==
    ASSUME NEW S, NEW s \in Seq(S), NEW e, IsInjective(s)
    PROVE  /\ ~Contains(RemoveFirst(s, e), e)
           /\ IsInjective(RemoveFirst(s, e))
           /\ s # <<>> /\ s[1] # e => RemoveFirst(s, e)[1] = s[1]
<1>1. CASE ~Contains(s, e) /\ RemoveFirst(s, e) = s
  BY <1>1
<1>2. ASSUME NEW i \in 1 .. Len(s), s[i] = e, RemoveFirst(s, e) = RemoveAt(s, i)
      PROVE  /\ ~Contains(RemoveFirst(s, e), e)
             /\ IsInjective(RemoveFirst(s, e))
             /\ s # <<>> /\ s[1] # e => RemoveFirst(s, e)[1] = s[1]
  <2> DEFINE t == RemoveAt(s, i)
  <2>1. /\ t \in Seq(S) /\ Len(s) \in Nat /\ Len(t) = Len(s) - 1
        /\ \A j \in 1 .. Len(s) - 1 : t[j] = IF j < i THEN s[j] ELSE s[j + 1]
    BY RemoveAtFacts, LenProperties
  <2>2. DOMAIN s = 1 .. Len(s) /\ DOMAIN t = 1 .. Len(t)
    BY <2>1, LenProperties
  <2> HIDE DEF t
  <2>3. \A a, b \in 1 .. Len(s) : s[a] = s[b] => a = b
    BY <2>2 DEF IsInjective
  <2>4. \A j \in 1 .. Len(t) :
           \E k \in 1 .. Len(s) : t[j] = s[k] /\ k # i /\ k = IF j < i THEN j ELSE j + 1
    BY <2>1
  <2>5. ~Contains(t, e)
    BY <1>2, <2>3, <2>4 DEF Contains
  <2>6. ASSUME NEW a \in 1 .. Len(t), NEW b \in 1 .. Len(t), t[a] = t[b]
        PROVE  a = b
    <3>1. PICK k \in 1 .. Len(s) : t[a] = s[k] /\ k = IF a < i THEN a ELSE a + 1
      BY <2>4
    <3>2. PICK m \in 1 .. Len(s) : t[b] = s[m] /\ m = IF b < i THEN b ELSE b + 1
      BY <2>4
    <3>3. k = m
      BY <2>3, <2>6, <3>1, <3>2
    <3> QED
      BY <2>1, <3>1, <3>2, <3>3
  <2>7. ASSUME s # <<>>, s[1] # e
        PROVE  t[1] = s[1]
    <3>1. i # 1
      BY <1>2, <2>7
    <3> QED
      BY <2>1, <3>1
  <2> QED
    BY <1>2, <2>2, <2>5, <2>6, <2>7 DEF t, IsInjective
<1> QED
  BY <1>1, <1>2, RemoveFirstFacts

\* What an appended sequence holds.
LEMMA AppendHolds ==
    ASSUME NEW S, NEW s \in Seq(S), NEW e \in S
    PROVE  \A x : Contains(Append(s, e), x) <=> Contains(s, x) \/ x = e
<1>1. /\ Len(s) \in Nat /\ Len(Append(s, e)) = Len(s) + 1
      /\ \A i \in 1 .. Len(s) : Append(s, e)[i] = s[i]
      /\ Append(s, e)[Len(s) + 1] = e
  BY AppendProperties, LenProperties
<1>2. ASSUME NEW x
      PROVE  Contains(Append(s, e), x) <=> Contains(s, x) \/ x = e
  <2>1. ASSUME NEW i \in 1 .. Len(Append(s, e)), Append(s, e)[i] = x
        PROVE  Contains(s, x) \/ x = e
    <3>1. i \in 1 .. Len(s) \/ i = Len(s) + 1
      BY <1>1, <2>1
    <3> QED
      BY <1>1, <2>1, <3>1 DEF Contains
  <2>2. ASSUME NEW i \in 1 .. Len(s), s[i] = x
        PROVE  Contains(Append(s, e), x)
    <3>1. i \in 1 .. Len(Append(s, e)) /\ Append(s, e)[i] = x
      BY <1>1, <2>2
    <3> QED
      BY <3>1 DEF Contains
  <2>3. Contains(Append(s, e), e)
    <3>1. Len(s) + 1 \in 1 .. Len(Append(s, e))
      BY <1>1
    <3> QED
      BY <1>1, <3>1 DEF Contains
  <2> QED
    BY <2>1, <2>2, <2>3 DEF Contains
<1> QED
  BY <1>2

\* Something new at the end brings no repetition.
LEMMA AppendOnce ==
    ASSUME NEW S, NEW s \in Seq(S), NEW e \in S, IsInjective(s), ~Contains(s, e)
    PROVE  IsInjective(Append(s, e))
<1>1. /\ Len(s) \in Nat /\ Append(s, e) \in Seq(S)
      /\ Len(Append(s, e)) = Len(s) + 1
      /\ \A i \in 1 .. Len(s) : Append(s, e)[i] = s[i]
      /\ Append(s, e)[Len(s) + 1] = e
  BY AppendProperties, LenProperties
<1>2. DOMAIN s = 1 .. Len(s) /\ DOMAIN Append(s, e) = 1 .. Len(s) + 1
  BY <1>1, LenProperties
<1>3. \A a, b \in 1 .. Len(s) : s[a] = s[b] => a = b
  BY <1>2 DEF IsInjective
<1>4. \A a \in 1 .. Len(s) : s[a] # e
  BY DEF Contains
<1>5. ASSUME NEW a \in 1 .. Len(s) + 1, NEW b \in 1 .. Len(s) + 1,
             Append(s, e)[a] = Append(s, e)[b]
      PROVE  a = b
  <2>1. a \in 1 .. Len(s) \/ a = Len(s) + 1
    BY <1>1
  <2>2. b \in 1 .. Len(s) \/ b = Len(s) + 1
    BY <1>1
  <2> QED
    BY <1>1, <1>3, <1>4, <1>5, <2>1, <2>2
<1> QED
  BY <1>2, <1>5 DEF IsInjective

\* A part of a sequence holds nothing else.
LEMMA SubSeqWithin ==
    ASSUME NEW S, NEW s \in Seq(S), NEW m \in 1 .. Len(s) + 1
    PROVE  /\ SubSeq(s, m, Len(s)) \in Seq(S)
           /\ Len(SubSeq(s, m, Len(s))) = Len(s) - m + 1
           /\ \A k \in 1 .. Len(s) - m + 1 : SubSeq(s, m, Len(s))[k] = s[m + k - 1]
           /\ Within(SubSeq(s, m, Len(s)), s)
<1>1. Len(s) \in Nat /\ \A i \in m .. Len(s) : s[i] \in S
  BY ElementOfSeq, LenProperties
<1>2. /\ SubSeq(s, m, Len(s)) \in Seq(S)
      /\ Len(SubSeq(s, m, Len(s))) = IF m <= Len(s) THEN Len(s) - m + 1 ELSE 0
      /\ \A i \in 1 .. Len(s) - m + 1 : SubSeq(s, m, Len(s))[i] = s[m + i - 1]
  BY <1>1, SubSeqProperties
<1>3. Len(SubSeq(s, m, Len(s))) = Len(s) - m + 1
  BY <1>1, <1>2
<1>4. \A k \in 1 .. Len(s) - m + 1 : m + k - 1 \in 1 .. Len(s)
  BY <1>1
<1> QED
  BY <1>2, <1>3, <1>4 DEF Within

LEMMA TailWithin ==
    ASSUME NEW S, NEW s \in Seq(S), s # <<>>
    PROVE  /\ Tail(s) \in Seq(S)
           /\ Len(Tail(s)) = Len(s) - 1
           /\ \A i \in 1 .. Len(s) - 1 : Tail(s)[i] = s[i + 1]
           /\ Within(Tail(s), s)
<1>1. /\ Len(s) \in Nat /\ Tail(s) \in Seq(S) /\ Len(Tail(s)) = Len(s) - 1
      /\ \A i \in 1 .. Len(Tail(s)) : Tail(s)[i] = s[i + 1]
  BY HeadTailProperties, LenProperties
<1>2. \A i \in 1 .. Len(s) - 1 : i + 1 \in 1 .. Len(s)
  BY <1>1
<1> QED
  BY <1>1, <1>2 DEF Within

LEMMA WithinHolds ==
    ASSUME NEW s, NEW t, NEW x, Within(t, s), Contains(t, x)
    PROVE  Contains(s, x)
BY DEF Within, Contains

-----------------------------------------------------------------------------
(* The inductive invariant *)

Busy == {"queued", "loading", "fallback"}
Open == {"context", "tool"}

\* The lock lists exactly the loads that are under way, once each, and only the
\* first of them loads.
LockHeld ==
    /\ IsInjective(load_lock)
    /\ \A l \in Loads : loadPc[l] \in Busy <=> Contains(load_lock, l)
    /\ \A l \in Loads : loadPc[l] \in {"loading", "fallback"} => load_lock[1] = l

\* What the load named l, alone since it came, has made of the engine so far.
Undisturbed(l) ==
    /\ \A m \in Loads \ {l} : loadPc[m] \notin Busy
    /\ loadPc[l] \in {"loading", "fallback", "done", "timeout"}
    /\ loadPc[l] = "loading"
          => /\ model = None
             /\ resolved[l] = [path |-> Resolve(target[l]), ft |-> Finetuned(target[l])]
             /\ is_finetuned = Finetuned(target[l])
    /\ loadPc[l] = "fallback"
          => model = None /\ model_name = "tinyllama" /\ ~is_finetuned
    /\ loadPc[l] = "done"
          => /\ model \in {Resolve(target[l]), "tinyllama", None}
             /\ Loaded => \/ model_name = model
                          \/ target[l] \notin Known /\ model_name = "phi3"
             /\ is_finetuned => model = "merged"

FoundFree == alone[lastLoad] => Undisturbed(lastLoad)

\* Who has not arrived has done nothing, and arrives once.
Pending ==
    /\ IsInjective(arriving)
    /\ \A h \in Requests :
          /\ Contains(arriving, h) => chatPc[h] = "new"
          /\ chatPc[h] \in {"new", "context"} => iteration[h] = 0
          /\ chat[h].conv # NoConv => h \in Chats

\* A conversation whose window has not been full holds every question that is
\* being answered or was, and behind it the answer if there is one.
Asked ==
    \A c \in ConvIds :
        /\ Len(turns[c]) <= MaxTurns
        /\ Len(turns[c]) < MaxTurns =>
              \A h \in Chats :
                 /\ \A j \in 1 .. Len(turns[c]) :
                       turns[c][j] = [role |-> "assistant", by |-> h]
                          => \E i \in 1 .. j - 1 :
                                turns[c][i] = [role |-> "user", by |-> h]
                 /\ chat[h].conv = c /\ chatPc[h] \in Open
                       => Contains(turns[c], [role |-> "user", by |-> h])
                 /\ chat[h].conv = c /\ chatPc[h] = "done"
                       => Contains(turns[c], [role |-> "assistant", by |-> h])

\* A request whose answer the caches may hand on.
Usable(b) ==
    /\ chatPc[b] \in {"done", "failed"}
    /\ answer[b].kind \in {"answer", "stopped"}
    /\ answer[b].by = b
    /\ ~chat[b].history

\* Request h asks what request b asked, or something similar, of the same alert.
Alike(h, b) ==
    /\ chat[b].alert = chat[h].alert
    /\ <<chat[h].question, chat[b].question>> \in Similar

Answered ==
    /\ \A h \in Requests :
          /\ chatPc[h] \in Open \union {"new"} => answer[h].kind = "none"
          /\ answer[h].kind # "none"
                => chatPc[answer[h].by] # "new" /\ Alike(h, answer[h].by)
    /\ \A k \in 1 .. Len(exact) : Usable(exact[k].by)
    /\ \A k \in 1 .. Len(semantic) : Usable(semantic[k].by)

AssistantInv ==
    /\ AssistantTypeOK
    /\ LockHeld
    /\ FoundFree
    /\ Pending
    /\ Asked
    /\ Answered

-----------------------------------------------------------------------------
(* The engine *)

\* The steps of requests and conversations leave the engine alone.
LEMMA ChatLeavesEngine ==
    ASSUME AssistantNext
    PROVE  \/ \E l \in Loads : EngineStep(l)
           \/ \E l \in Reloads, t \in Targets : Reload(l, t)
           \/ \E l \in Reloads : Timeout(l)
           \/ UNCHANGED <<finetuned, engineVars>>
<1>1. ASSUME NEW h \in Requests, ChatStep(h)
      PROVE  UNCHANGED <<finetuned, engineVars>>
  <2>1. ASSUME Generate(h)
        PROVE  UNCHANGED <<finetuned, engineVars>>
    BY <2>1 DEF Generate
  <2>2. CASE Investigate(h)
    BY <2>1, <2>2 DEF Investigate, ExactHit, SemanticHit, SemanticHitRaises
  <2>3. CASE Iterate(h)
    BY <2>1, <2>3 DEF Iterate
  <2> QED
    BY <1>1, <2>2, <2>3 DEF ChatStep
<1>2. ASSUME NEW h \in Requests, Refuse(h)
      PROVE  UNCHANGED <<finetuned, engineVars>>
  BY <1>2 DEF Refuse
<1>3. ASSUME NEW h, NEW q, NEW a, NEW c, Ask(h, q, a, c) \/ Explain(h, q, a)
      PROVE  UNCHANGED <<finetuned, engineVars>>
  BY <1>3 DEF Ask, Explain
<1>4. ASSUME NEW c, NEW n, NEW k,
             DropConversation(c) \/ CleanupExpired(n) \/ AgeEntry(k) \/ ClearCaches
      PROVE  UNCHANGED <<finetuned, engineVars>>
  BY <1>4 DEF DropConversation, CleanupExpired, AgeEntry, ClearCaches
<1> QED
  BY <1>1, <1>2, <1>3, <1>4, Zenon DEF AssistantNext, Request

EngineTypeOK ==
    /\ finetuned \in BOOLEAN
    /\ model \in Weights \union Targets \union {None}
    /\ model_name \in Weights \union Targets \union {"auto"}
    /\ is_finetuned \in BOOLEAN
    /\ load_lock \in Seq(Loads)
    /\ loadPc \in [Loads -> {"idle", "queued", "loading", "fallback", "done",
                              "timeout"}]
    /\ target \in [Loads -> Targets \union {"auto"}]
    /\ resolved \in [Loads -> [path : Weights \union Targets, ft : BOOLEAN]]
    /\ lastLoad \in Loads
    /\ alone \in [Loads -> BOOLEAN]

\* What a name resolves to can be loaded.
LEMMA ResolveType ==
    ASSUME finetuned \in BOOLEAN,
           NEW name \in Weights \union Targets \union {"auto"}
    PROVE  /\ Resolve(name) \in Weights \union Targets
           /\ Finetuned(name) \in BOOLEAN
BY AssistantBounds DEF Resolve, Finetuned, Weights

\* A free lock, or one whose first is l, is entered by l.
LEMMA EnterLoadType ==
    ASSUME EngineTypeOK, NEW l \in Loads,
           NEW name \in Weights \union Targets \union {"auto"}, EnterLoad(l, name)
    PROVE  /\ loadPc' \in [Loads -> {"idle", "queued", "loading", "fallback",
                                      "done", "timeout"}]
           /\ resolved' \in [Loads -> [path : Weights \union Targets, ft : BOOLEAN]]
           /\ is_finetuned' \in BOOLEAN
BY ResolveType DEF EngineTypeOK, EnterLoad

LEMMA LeaveLoadType ==
    ASSUME EngineTypeOK, NEW l \in Loads, NEW how \in {"done", "timeout"},
           LeaveLoad(l, how)
    PROVE  /\ loadPc' \in [Loads -> {"idle", "queued", "loading", "fallback",
                                      "done", "timeout"}]
           /\ load_lock' \in Seq(Loads)
BY RemoveFirstKeeps DEF EngineTypeOK, LeaveLoad

LEMMA EngineType ==
    ASSUME EngineTypeOK, [AssistantNext]_assistantVars
    PROVE  EngineTypeOK'
<1>1. CASE UNCHANGED <<finetuned, engineVars>>
  BY <1>1 DEF EngineTypeOK, engineVars
<1>2. ASSUME NEW l \in Reloads, NEW t \in Targets, Reload(l, t)
      PROVE  EngineTypeOK'
  <2>1. l \in Loads /\ t \in Weights \union Targets \union {"auto"}
    BY DEF Loads
  <2>2. load_lock' \in Seq(Loads)
    BY <1>2, <2>1, AppendProperties DEF Reload, RequestLoad, EngineTypeOK
  <2>3. /\ loadPc' \in [Loads -> {"idle", "queued", "loading", "fallback",
                                   "done", "timeout"}]
        /\ resolved' \in [Loads -> [path : Weights \union Targets, ft : BOOLEAN]]
        /\ is_finetuned' \in BOOLEAN
    <3>1. CASE load_lock = <<>>
      BY <1>2, <2>1, <3>1, EnterLoadType DEF Reload, RequestLoad
    <3>2. CASE load_lock # <<>>
      BY <1>2, <2>1, <3>2 DEF Reload, RequestLoad, EngineTypeOK
    <3> QED
      BY <3>1, <3>2
  <2> QED
    BY <1>2, <2>1, <2>2, <2>3 DEF Reload, RequestLoad, EngineTypeOK
<1>3. ASSUME NEW l \in Loads, AcquireLock(l)
      PROVE  EngineTypeOK'
  <2>1. /\ loadPc' \in [Loads -> {"idle", "queued", "loading", "fallback",
                                   "done", "timeout"}]
        /\ resolved' \in [Loads -> [path : Weights \union Targets, ft : BOOLEAN]]
        /\ is_finetuned' \in BOOLEAN
    BY <1>3, EnterLoadType DEF AcquireLock, EngineTypeOK
  <2> QED
    BY <1>3, <2>1 DEF AcquireLock, EngineTypeOK
<1>4. ASSUME NEW l \in Loads, LoadReturns(l)
      PROVE  EngineTypeOK'
  <2>1. /\ loadPc' \in [Loads -> {"idle", "queued", "loading", "fallback",
                                   "done", "timeout"}]
        /\ load_lock' \in Seq(Loads)
    BY <1>4, LeaveLoadType DEF LoadReturns
  <2> QED
    BY <1>4, <2>1 DEF LoadReturns, EngineTypeOK, Weights
<1>5. ASSUME NEW l \in Loads, LoadFails(l)
      PROVE  EngineTypeOK'
  BY <1>5 DEF LoadFails, EngineTypeOK, Weights
<1>6. ASSUME NEW l \in Loads, FallbackReturns(l)
      PROVE  EngineTypeOK'
  <2>1. /\ loadPc' \in [Loads -> {"idle", "queued", "loading", "fallback",
                                   "done", "timeout"}]
        /\ load_lock' \in Seq(Loads)
    BY <1>6, LeaveLoadType DEF FallbackReturns
  <2> QED
    BY <1>6, <2>1 DEF FallbackReturns, EngineTypeOK, Weights
<1>7. ASSUME NEW l \in Reloads, Timeout(l)
      PROVE  EngineTypeOK'
  <2>1. /\ loadPc' \in [Loads -> {"idle", "queued", "loading", "fallback",
                                   "done", "timeout"}]
        /\ load_lock' \in Seq(Loads)
    BY <1>7, LeaveLoadType DEF Timeout, Loads
  <2> QED
    BY <1>7, <2>1 DEF Timeout, EngineTypeOK
<1> QED
  BY <1>1, <1>2, <1>3, <1>4, <1>5, <1>6, <1>7, ChatLeavesEngine
     DEF EngineStep, assistantVars

\* Whoever is at the head of the lock and waits may start to load; nobody loads.
LEMMA HeadLoads ==
    ASSUME EngineTypeOK, LockHeld, NEW l \in Loads, NEW how \in {"loading", "fallback"},
           load_lock' = load_lock,
           load_lock[1] = l, loadPc[l] \in Busy,
           loadPc' = [loadPc EXCEPT ![l] = how]
    PROVE  LockHeld'
<1>1. \A m \in Loads : loadPc'[m] = IF m = l THEN how ELSE loadPc[m]
  BY DEF EngineTypeOK
<1>2. \A m \in Loads : loadPc'[m] \in Busy <=> Contains(load_lock', m)
  BY <1>1, Zenon DEF LockHeld, Busy
<1> QED
  BY <1>1, <1>2 DEF LockHeld

\* A load that ends, or is cancelled wherever it waits, leaves the lock.
LEMMA LeavesLock ==
    ASSUME EngineTypeOK, LockHeld, NEW l \in Loads, NEW how \in {"done", "timeout"},
           LeaveLoad(l, how)
    PROVE  LockHeld'
<1>1. \A m \in Loads : loadPc'[m] = IF m = l THEN how ELSE loadPc[m]
  BY DEF EngineTypeOK, LeaveLoad
<1>2. /\ ~Contains(load_lock', l)
      /\ IsInjective(load_lock')
      /\ load_lock # <<>> /\ load_lock[1] # l => load_lock'[1] = load_lock[1]
  BY RemoveFirstOnce DEF EngineTypeOK, LockHeld, LeaveLoad
<1>3. \A m : m # l => (Contains(load_lock', m) <=> Contains(load_lock, m))
  BY RemoveFirstKeeps DEF EngineTypeOK, LeaveLoad
<1>4. \A m \in Loads : loadPc'[m] \in Busy <=> Contains(load_lock', m)
  BY <1>1, <1>2, <1>3 DEF LockHeld, Busy
<1>5. ASSUME NEW m \in Loads, loadPc'[m] \in {"loading", "fallback"}
      PROVE  load_lock'[1] = m
  <2>1. m # l /\ loadPc[m] = loadPc'[m]
    BY <1>1, <1>5
  <2>2. load_lock[1] = m /\ Contains(load_lock, m)
    BY <1>5, <2>1 DEF LockHeld, Busy
  <2>3. load_lock # <<>>
    BY <2>2 DEF Contains
  <2> QED
    BY <1>2, <2>1, <2>2, <2>3
<1> QED
  BY <1>2, <1>4, <1>5 DEF LockHeld

LEMMA LockHeldStep ==
    ASSUME EngineTypeOK, LockHeld, [AssistantNext]_assistantVars
    PROVE  LockHeld'
<1>1. CASE UNCHANGED <<finetuned, engineVars>>
  BY <1>1 DEF LockHeld, engineVars
<1>2. ASSUME NEW l \in Reloads, NEW t \in Targets, Reload(l, t)
      PROVE  LockHeld'
  <2>1. l \in Loads /\ loadPc[l] = "idle"
    BY <1>2 DEF Reload, RequestLoad, Loads
  <2>2. ~Contains(load_lock, l)
    BY <2>1 DEF LockHeld, Busy
  <2>3. /\ IsInjective(load_lock')
        /\ \A m : Contains(load_lock', m) <=> Contains(load_lock, m) \/ m = l
        /\ load_lock = <<>> => load_lock'[1] = l
        /\ load_lock # <<>> => load_lock'[1] = load_lock[1]
    <3>1. load_lock' = Append(load_lock, l) /\ load_lock \in Seq(Loads)
      BY <1>2 DEF Reload, RequestLoad, EngineTypeOK
    <3>2. /\ load_lock = <<>> => load_lock'[1] = l
          /\ load_lock # <<>> => load_lock'[1] = load_lock[1]
      BY <2>1, <3>1, AppendProperties, EmptySeq
    <3> QED
      BY <2>1, <2>2, <3>1, <3>2, AppendOnce, AppendHolds DEF LockHeld
  <2>4. CASE load_lock = <<>>
    <3>1. \A m \in Loads : loadPc'[m] = IF m = l THEN "loading" ELSE loadPc[m]
      BY <1>2, <2>4 DEF Reload, RequestLoad, EnterLoad, EngineTypeOK
    <3>2. \A m : ~Contains(load_lock, m)
      BY <2>4 DEF Contains
    <3>3. \A m \in Loads : m # l => loadPc[m] \notin Busy
      BY <3>2 DEF LockHeld
    <3> QED
      BY <2>1, <2>3, <2>4, <3>1, <3>2, <3>3 DEF LockHeld, Busy
  <2>5. CASE load_lock # <<>>
    <3>1. \A m \in Loads : loadPc'[m] = IF m = l THEN "queued" ELSE loadPc[m]
      BY <1>2, <2>5 DEF Reload, RequestLoad, EngineTypeOK
    <3> QED
      BY <2>1, <2>3, <2>5, <3>1 DEF LockHeld, Busy
  <2> QED
    BY <2>4, <2>5
<1>3. ASSUME NEW l \in Loads, AcquireLock(l)
      PROVE  LockHeld'
  <2>1. loadPc[l] = "queued" /\ Head(load_lock) = l /\ Contains(load_lock, l)
    BY <1>3 DEF AcquireLock, LockHeld, Busy
  <2>2. load_lock[1] = l
    BY <2>1 DEF Contains, EngineTypeOK
  <2> QED
    BY <1>3, <2>1, <2>2, HeadLoads DEF AcquireLock, EnterLoad, Busy
<1>4. ASSUME NEW l \in Loads, LoadReturns(l)
      PROVE  LockHeld'
  BY <1>4, LeavesLock DEF LoadReturns
<1>5. ASSUME NEW l \in Loads, LoadFails(l)
      PROVE  LockHeld'
  BY <1>5, HeadLoads DEF LoadFails, LockHeld, Busy
<1>6. ASSUME NEW l \in Loads, FallbackReturns(l)
      PROVE  LockHeld'
  BY <1>6, LeavesLock DEF FallbackReturns
<1>7. ASSUME NEW l \in Reloads, Timeout(l)
      PROVE  LockHeld'
  BY <1>7, LeavesLock DEF Timeout, Loads
<1> QED
  BY <1>1, <1>2, <1>3, <1>4, <1>5, <1>6, <1>7, ChatLeavesEngine
     DEF EngineStep, assistantVars

\* A load that is under way while another waits or is loaded has company: it is
\* not one that has been alone.
LEMMA FoundFreeStep ==
    ASSUME EngineTypeOK, LockHeld, FoundFree, [AssistantNext]_assistantVars
    PROVE  FoundFree'
<1>1. CASE UNCHANGED <<finetuned, engineVars>>
  BY <1>1 DEF FoundFree, Undisturbed, engineVars, Resolve, Finetuned, Loaded
<1>2. ASSUME NEW l \in Reloads, NEW t \in Targets, Reload(l, t)
      PROVE  FoundFree'
  <2>1. /\ l \in Loads /\ lastLoad' = l /\ alone'[l] = (load_lock = <<>>)
        /\ model' = None /\ target'[l] = t /\ finetuned' = finetuned
    BY <1>2 DEF Reload, RequestLoad, Loads, EngineTypeOK
  <2>2. SUFFICES ASSUME load_lock = <<>>
                 PROVE  Undisturbed(l)'
    BY <2>1 DEF FoundFree
  <2>3. /\ loadPc' = [loadPc EXCEPT ![l] = "loading"]
        /\ resolved'[l] = [path |-> Resolve(t), ft |-> Finetuned(t)]
        /\ is_finetuned' = Finetuned(t)
    BY <1>2, <2>1, <2>2 DEF Reload, RequestLoad, EnterLoad, EngineTypeOK
  <2>4. \A m \in Loads \ {l} : loadPc'[m] \notin Busy
    BY <2>2, <2>3 DEF LockHeld, Contains, EngineTypeOK
  <2>5. loadPc'[l] = "loading"
    BY <2>1, <2>3 DEF EngineTypeOK
  <2> QED
    BY <2>1, <2>3, <2>4, <2>5 DEF Undisturbed, Resolve, Finetuned
<1>3. ASSUME NEW l \in Loads, EngineStep(l) \/ (l \in Reloads /\ Timeout(l))
      PROVE  FoundFree'
  <2>1. /\ finetuned' = finetuned /\ target' = target
        /\ lastLoad' = lastLoad /\ alone' = alone /\ loadPc[l] \in Busy
    BY <1>3 DEF EngineStep, AcquireLock, LoadReturns, LoadFails, FallbackReturns,
                Timeout, Busy
  <2>2. SUFFICES ASSUME alone[lastLoad], lastLoad = l
                 PROVE  Undisturbed(l)'
    BY <2>1 DEF FoundFree, Undisturbed
  <2>3. Undisturbed(l) /\ loadPc[l] \in {"loading", "fallback"}
    BY <2>1, <2>2 DEF FoundFree, Undisturbed, Busy
  <2>4. ASSUME NEW how, loadPc' = [loadPc EXCEPT ![l] = how]
        PROVE  /\ loadPc'[l] = how
               /\ \A m \in Loads \ {l} : loadPc'[m] \notin Busy
    BY <2>3, <2>4 DEF Undisturbed, EngineTypeOK
  <2>5. CASE AcquireLock(l)
    BY <2>3, <2>5 DEF AcquireLock
  <2>6. CASE LoadReturns(l)
    <3>1. /\ target[l] \in Known => Resolve(target[l]) \in {"merged", "phi3"}
          /\ Finetuned(target[l]) => Resolve(target[l]) = "merged" /\ target[l] \in Known
          /\ target[l] \in Known /\ ~Finetuned(target[l]) => Resolve(target[l]) = "phi3"
      BY DEF Resolve, Finetuned, Known
    <3>2. /\ loadPc'[l] = "done"
          /\ model' = Resolve(target[l])
          /\ model_name' = IF Finetuned(target[l]) THEN "merged" ELSE "phi3"
          /\ is_finetuned' = Finetuned(target[l])
      <4>1. /\ loadPc[l] = "loading" /\ is_finetuned' = is_finetuned
            /\ model' = resolved[l].path
            /\ model_name' = IF resolved[l].ft THEN "merged" ELSE "phi3"
            /\ loadPc' = [loadPc EXCEPT ![l] = "done"]
        BY <2>6 DEF LoadReturns, LeaveLoad
      <4>2. /\ resolved[l].path = Resolve(target[l])
            /\ resolved[l].ft = Finetuned(target[l])
            /\ is_finetuned = Finetuned(target[l])
        BY <2>3, <4>1 DEF Undisturbed
      <4> QED
        BY <2>4, <4>1, <4>2
    <3>3. /\ model' = model_name' \/ (target[l] \notin Known /\ model_name' = "phi3")
          /\ is_finetuned' => model' = "merged"
      BY <3>1, <3>2
    <3>4. \A m \in Loads \ {l} : loadPc'[m] \notin Busy
      BY <2>4, <2>6 DEF LoadReturns, LeaveLoad
    <3> QED
      BY <2>1, <3>2, <3>3, <3>4 DEF Undisturbed, Resolve, Loaded
  <2>7. CASE LoadFails(l)
    <3>1. /\ loadPc'[l] = "fallback" /\ model' = None /\ model_name' = "tinyllama"
          /\ ~is_finetuned'
          /\ \A m \in Loads \ {l} : loadPc'[m] \notin Busy
      BY <2>3, <2>4, <2>7 DEF LoadFails, Undisturbed
    <3> QED
      BY <3>1 DEF Undisturbed
  <2>8. CASE FallbackReturns(l)
    <3>1. /\ loadPc'[l] = "done" /\ model' \in {"tinyllama", None}
          /\ model_name' = "tinyllama" /\ ~is_finetuned'
          /\ \A m \in Loads \ {l} : loadPc'[m] \notin Busy
      BY <2>3, <2>4, <2>8 DEF FallbackReturns, LeaveLoad, Undisturbed
    <3> QED
      BY <3>1 DEF Undisturbed, Loaded
  <2>9. CASE Timeout(l)
    <3>1. /\ loadPc'[l] = "timeout"
          /\ \A m \in Loads \ {l} : loadPc'[m] \notin Busy
      BY <2>4, <2>9 DEF Timeout, LeaveLoad
    <3> QED
      BY <3>1 DEF Undisturbed
  <2> QED
    BY <1>3, <2>5, <2>6, <2>7, <2>8, <2>9 DEF EngineStep
<1> QED
  BY <1>1, <1>2, <1>3, ChatLeavesEngine DEF Loads, assistantVars

-----------------------------------------------------------------------------
(* Conversations and caches *)

ConvTypeOK ==
    /\ conversations \in Seq(ConvIds)
    /\ turns \in [ConvIds -> Seq(Turn)]

CacheTypeOK ==
    /\ exact \in Seq(Entry)
    /\ semantic \in Seq([by : Requests])

\* A touched conversation moves, and no other comes or goes.
LEMMA TouchedKeeps ==
    ASSUME ConvTypeOK, NEW c \in ConvIds, Contains(conversations, c)
    PROVE  /\ Touched(c) \in Seq(ConvIds)
           /\ \A x : Contains(Touched(c), x) <=> Contains(conversations, x)
<1>1. /\ RemoveFirst(conversations, c) \in Seq(ConvIds)
      /\ \A x : x # c => (Contains(RemoveFirst(conversations, c), x)
                              <=> Contains(conversations, x))
  BY RemoveFirstKeeps DEF ConvTypeOK
<1>2. \A x : Contains(Touched(c), x)
               <=> Contains(RemoveFirst(conversations, c), x) \/ x = c
  BY <1>1, AppendHolds DEF Touched
<1> QED
  BY <1>1, <1>2, AppendProperties DEF Touched

\* A new conversation is the only one that comes.
LEMMA CreateKeeps ==
    ASSUME ConvTypeOK, NEW c \in ConvIds
    PROVE  /\ StoreAfterCreate(c) \in Seq(ConvIds)
           /\ \A x : Contains(StoreAfterCreate(c), x)
                        => Contains(conversations, x) \/ x = c
<1>1. CASE Len(conversations) >= MaxConvs
  <2>1. conversations # <<>>
    BY <1>1, EmptySeq, AssistantBounds
  <2>2. /\ Tail(conversations) \in Seq(ConvIds)
        /\ Within(Tail(conversations), conversations)
    BY <2>1, TailWithin DEF ConvTypeOK
  <2>3. \A x : Contains(StoreAfterCreate(c), x) <=> Contains(Tail(conversations), x) \/ x = c
    BY <1>1, <2>2, AppendHolds DEF StoreAfterCreate
  <2> QED
    BY <1>1, <2>2, <2>3, WithinHolds, AppendProperties DEF StoreAfterCreate
<1>2. CASE ~(Len(conversations) >= MaxConvs)
  <2>1. conversations \in Seq(ConvIds) /\ StoreAfterCreate(c) = Append(conversations, c)
    BY <1>2 DEF ConvTypeOK, StoreAfterCreate
  <2> QED
    BY <2>1, AppendHolds, AppendProperties
<1> QED
  BY <1>1, <1>2

\* The window: it ends with the new turn, keeps the others while there is room,
\* and once full stays full.
LEMMA WindowFacts ==
    ASSUME ConvTypeOK, NEW c \in ConvIds, NEW t \in Turn, Len(turns[c]) <= MaxTurns
    PROVE  /\ Window(c, t) \in Seq(Turn)
           /\ Len(Window(c, t)) <= MaxTurns
           /\ Len(Window(c, t)) < MaxTurns
                 => /\ Len(turns[c]) < MaxTurns
                    /\ Window(c, t) = Append(turns[c], t)
<1>1. /\ turns[c] \in Seq(Turn) /\ Len(turns[c]) \in Nat
      /\ MaxTurns \in Nat \ {0} /\ <<t>> \in Seq(Turn) /\ Len(<<t>>) = 1
  BY AssistantBounds, LenProperties DEF ConvTypeOK
<1>2. CASE Len(turns[c]) >= MaxTurns
  <2>1. turns[c] # <<>>
    BY <1>1, <1>2, EmptySeq
  <2>2. Tail(turns[c]) \in Seq(Turn) /\ Len(Tail(turns[c])) = Len(turns[c]) - 1
    BY <1>1, <2>1, TailWithin
  <2>3. Window(c, t) = Tail(turns[c]) \o <<t>>
    BY <1>2 DEF Window
  <2>4. Window(c, t) \in Seq(Turn) /\ Len(Window(c, t)) = MaxTurns
    BY <1>1, <1>2, <2>2, <2>3, ConcatProperties
  <2> QED
    BY <1>1, <2>4
<1>3. CASE ~(Len(turns[c]) >= MaxTurns)
  <2>1. Window(c, t) = turns[c] \o <<t>>
    BY <1>3 DEF Window
  <2>2. Window(c, t) = Append(turns[c], t)
    BY <1>1, <2>1, AppendIsConcat
  <2> QED
    BY <1>1, <1>3, <2>2, AppendProperties
<1> QED
  BY <1>2, <1>3

\* The caches hold records of requests that were there before, or of h.
From(t, s, h) ==
    \A k \in 1 .. Len(t) : t[k].by = h \/ \E j \in 1 .. Len(s) : t[k].by = s[j].by

OnlyFrom(t, s) == \A k \in 1 .. Len(t) : \E j \in 1 .. Len(s) : t[k].by = s[j].by

CachesKept ==
    /\ exact' \in Seq(Entry) /\ semantic' \in Seq([by : Requests])
    /\ OnlyFrom(exact', exact) /\ OnlyFrom(semantic', semantic)

CachesGain(h) ==
    /\ exact' \in Seq(Entry) /\ semantic' \in Seq([by : Requests])
    /\ From(exact', exact, h) /\ From(semantic', semantic, h)

LEMMA WithoutKeyKeeps ==
    ASSUME CacheTypeOK, NEW h
    PROVE  /\ WithoutKey(h) \in Seq(Entry)
           /\ OnlyFrom(WithoutKey(h), exact)
<1> DEFINE I == {i \in 1 .. Len(exact) : Key(exact[i].by) = Key(h)}
<1>1. CASE \E i \in 1 .. Len(exact) : Key(exact[i].by) = Key(h)
  <2> DEFINE i == CHOOSE x \in I : \A y \in I : x <= y
  <2>1. I # {} /\ I \in SUBSET (1 .. Len(exact)) /\ I \in SUBSET Nat
    BY <1>1
  <2>2. i \in 1 .. Len(exact)
    BY <2>1, LeastNumber
  <2>3. WithoutKey(h) = RemoveAt(exact, i)
    BY <1>1, <2>1 DEF WithoutKey, RemoveFirstMatch, SelectInSeq, Min
  <2> HIDE DEF i
  <2>4. /\ WithoutKey(h) \in Seq(Entry) /\ Len(exact) \in Nat
        /\ Len(WithoutKey(h)) = Len(exact) - 1
        /\ \A j \in 1 .. Len(exact) - 1 :
              WithoutKey(h)[j] = IF j < i THEN exact[j] ELSE exact[j + 1]
    <3>1. exact \in Seq(Entry)
      BY DEF CacheTypeOK
    <3>2. Len(exact) \in Nat
      BY <3>1, LenProperties
    <3>3. /\ RemoveAt(exact, i) \in Seq(Entry)
          /\ Len(RemoveAt(exact, i)) = Len(exact) - 1
          /\ \A j \in 1 .. Len(exact) - 1 :
                RemoveAt(exact, i)[j] = IF j < i THEN exact[j] ELSE exact[j + 1]
      BY <2>2, <3>1, RemoveAtFacts
    <3> QED
      BY <2>3, <3>2, <3>3
  <2>5. ASSUME NEW k \in 1 .. Len(WithoutKey(h))
        PROVE  \E j \in 1 .. Len(exact) : WithoutKey(h)[k].by = exact[j].by
    <3>1. k \in 1 .. Len(exact) /\ k + 1 \in 1 .. Len(exact)
      BY <2>4
    <3> QED
      BY <2>4, <3>1
  <2> QED
    BY <2>4, <2>5 DEF OnlyFrom
<1>2. CASE ~\E i \in 1 .. Len(exact) : Key(exact[i].by) = Key(h)
  BY <1>2 DEF WithoutKey, RemoveFirstMatch, OnlyFrom, CacheTypeOK
<1> QED
  BY <1>1, <1>2

\* A record that is appended, to a cache that is then trimmed.
LEMMA TrimmedFrom ==
    ASSUME NEW S, NEW s \in Seq(S), NEW t \in Seq(S), OnlyFrom(t, s),
           NEW e \in S, NEW bound \in Nat \ {0}
    PROVE  /\ Trimmed(Append(t, e), bound) \in Seq(S)
           /\ From(Trimmed(Append(t, e), bound), s, e.by)
<1> DEFINE u == Append(t, e)
<1>1. /\ u \in Seq(S) /\ u # <<>> /\ Len(t) \in Nat /\ Len(u) = Len(t) + 1
      /\ \A i \in 1 .. Len(t) : u[i] = t[i]
      /\ u[Len(t) + 1] = e
  BY AppendProperties, LenProperties
<1> HIDE DEF u
<1>2. From(u, s, e.by)
  <2> SUFFICES ASSUME NEW k \in 1 .. Len(u)
               PROVE  u[k].by = e.by \/ \E j \in 1 .. Len(s) : u[k].by = s[j].by
    BY DEF From
  <2>1. k \in 1 .. Len(t) \/ k = Len(t) + 1
    BY <1>1
  <2> QED
    BY <1>1, <2>1 DEF OnlyFrom
<1>3. CASE Len(u) > bound
  <2>1. Tail(u) \in Seq(S) /\ Within(Tail(u), u) /\ Trimmed(u, bound) = Tail(u)
    BY <1>1, <1>3, TailWithin DEF Trimmed
  <2>2. From(Tail(u), s, e.by)
    BY <1>2, <2>1 DEF From, Within
  <2> QED
    BY <2>1, <2>2 DEF u
<1>4. CASE ~(Len(u) > bound)
  BY <1>1, <1>2, <1>4 DEF u, Trimmed
<1> QED
  BY <1>3, <1>4

LEMMA RememberGains ==
    ASSUME CacheTypeOK, NEW h \in Requests, Remember(h)
    PROVE  CachesGain(h)
<1>1. [by |-> h, old |-> FALSE] \in Entry /\ [by |-> h] \in [by : Requests]
  BY DEF Entry
<1>2. ExactMax \in Nat \ {0} /\ SemanticMax \in Nat \ {0}
  BY AssistantBounds
<1>3. exact' \in Seq(Entry) /\ From(exact', exact, h)
  <2>1. /\ exact \in Seq(Entry) /\ WithoutKey(h) \in Seq(Entry)
        /\ OnlyFrom(WithoutKey(h), exact)
    BY WithoutKeyKeeps DEF CacheTypeOK
  <2>2. [by |-> h, old |-> FALSE].by = h
    OBVIOUS
  <2> QED
    BY <1>1, <1>2, <2>1, <2>2, TrimmedFrom DEF Remember
<1>4. semantic' \in Seq([by : Requests]) /\ From(semantic', semantic, h)
  <2>1. semantic \in Seq([by : Requests]) /\ OnlyFrom(semantic, semantic)
    BY DEF CacheTypeOK, OnlyFrom
  <2> DEFINE r == [by |-> h]
  <2>2. r.by = h /\ r \in [by : Requests]
    BY <1>1
  <2>3. semantic' = Trimmed(Append(semantic, r), SemanticMax)
    BY DEF Remember
  <2> HIDE DEF r
  <2>4. /\ Trimmed(Append(semantic, r), SemanticMax) \in Seq([by : Requests])
        /\ From(Trimmed(Append(semantic, r), SemanticMax), semantic, r.by)
    BY <1>2, <2>1, <2>2, TrimmedFrom
  <2> QED
    BY <2>2, <2>3, <2>4
<1> QED
  BY <1>3, <1>4 DEF CachesGain

LEMMA UnchangedKeeps ==
    ASSUME CacheTypeOK, UNCHANGED cacheVars
    PROVE  CachesKept
BY DEF CacheTypeOK, CachesKept, OnlyFrom, cacheVars

LEMMA LookedUpKeeps ==
    ASSUME CacheTypeOK, NEW h, exact' = LookedUp(h), semantic' = semantic
    PROVE  CachesKept
<1>1. CASE exact' = WithoutKey(h)
  BY <1>1, WithoutKeyKeeps DEF CacheTypeOK, CachesKept, OnlyFrom
<1>2. CASE exact' = exact
  BY <1>2 DEF CacheTypeOK, CachesKept, OnlyFrom
<1> QED
  BY <1>1, <1>2 DEF LookedUp

\* A hit moves a record to the end.
LEMMA MovedKeeps ==
    ASSUME NEW S, NEW s \in Seq(S), NEW t \in Seq(S), NEW k \in 1 .. Len(s),
           Within(t, s)
    PROVE  /\ Append(t, s[k]) \in Seq(S)
           /\ OnlyFrom(Append(t, s[k]), s)
<1> DEFINE u == Append(t, s[k])
<1>1. s[k] \in S
  BY ElementOfSeq
<1>2. /\ u \in Seq(S) /\ Len(t) \in Nat /\ Len(u) = Len(t) + 1
      /\ \A i \in 1 .. Len(t) : u[i] = t[i]
      /\ u[Len(t) + 1] = s[k]
  BY <1>1, AppendProperties, LenProperties
<1> HIDE DEF u
<1>3. ASSUME NEW i \in 1 .. Len(u)
      PROVE  \E j \in 1 .. Len(s) : u[i].by = s[j].by
  <2>1. i \in 1 .. Len(t) \/ i = Len(t) + 1
    BY <1>2
  <2> QED
    BY <1>2, <2>1 DEF Within
<1> QED
  BY <1>2, <1>3 DEF OnlyFrom, u

-----------------------------------------------------------------------------
(* What a step of a request comes to *)

Result == [kind : {"none", "answer", "stopped", "apology"}, by : Requests]

ChatTypeOK ==
    /\ arriving \in Seq(Requests \union Reloads)
    /\ upkeep \in 0 .. MaxUpkeep
    /\ chatPc \in [Requests -> {"new", "context", "tool", "done", "failed", "refused"}]
    /\ chat \in [Requests -> [question : Questions, alert : AlertIds,
                           conv : ConvIds \union {NoConv}, history : BOOLEAN]]
    /\ iteration \in [Requests -> 0 .. MaxIter]
    /\ answer \in [Requests -> Result]

Cached(b) ==
    \/ \E k \in 1 .. Len(exact) : exact[k].by = b
    \/ \E k \in 1 .. Len(semantic) : semantic[k].by = b

\* The loop goes on with a tool.
Continues(h) ==
    /\ chatPc' = [chatPc EXCEPT ![h] = "tool"]
    /\ iteration[h] < MaxIter
    /\ iteration' = [iteration EXCEPT ![h] = @ + 1]
    /\ UNCHANGED <<convVars, answer>>
    /\ CachesKept

\* The lookup raises.
Breaks(h) ==
    /\ chatPc' = [chatPc EXCEPT ![h] = "failed"]
    /\ UNCHANGED <<convVars, iteration, answer>>
    /\ CachesKept

\* The request is answered: by its own loop, whose answer is cached only if it
\* is one and the conversation was new, or by a record that fits.
Ends(h) ==
    \E r \in Result :
        /\ Finish(h, r)
        /\ UNCHANGED iteration
        /\ \/ r.by = h /\ r.kind # "none" /\ CachesKept
           \/ /\ r.by = h /\ r.kind \in {"answer", "stopped"}
              /\ ~chat[h].history
              /\ CachesGain(h)
           \/ /\ CachesKept
              /\ \E b \in Requests : Cached(b) /\ Alike(h, b) /\ r = answer[b]

Effect(h) ==
    /\ chatPc[h] \in Open
    /\ UNCHANGED <<arriving, upkeep, chat>>
    /\ Continues(h) \/ Breaks(h) \/ Ends(h)

LEMMA FinishLoopEnds ==
    ASSUME ChatTypeOK, CacheTypeOK, NEW h \in Requests,
           NEW kind \in {"answer", "stopped"}, FinishLoop(h, kind)
    PROVE  Ends(h)
<1> DEFINE r == [kind |-> kind, by |-> h]
<1>1. r \in Result /\ r.by = h /\ r.kind = kind /\ r.kind # "none"
  BY DEF Result
<1>2. Finish(h, r) /\ UNCHANGED iteration
  BY DEF FinishLoop
<1>3. CASE chat[h].history
  <2>1. CachesKept
    BY <1>3, UnchangedKeeps DEF FinishLoop
  <2> HIDE DEF r
  <2> QED
    BY <1>1, <1>2, <2>1 DEF Ends
<1>4. CASE ~chat[h].history
  <2>1. CachesGain(h)
    BY <1>4, RememberGains DEF FinishLoop
  <2> HIDE DEF r
  <2> QED
    BY <1>1, <1>2, <1>4, <2>1 DEF Ends
<1> QED
  BY <1>3, <1>4

LEMMA GenerateEffect ==
    ASSUME ChatTypeOK, CacheTypeOK, NEW h \in Requests, chatPc[h] \in Open,
           iteration[h] < MaxIter, Generate(h)
    PROVE  Effect(h)
<1>1. UNCHANGED <<arriving, upkeep, chat>>
  BY DEF Generate
<1>2. ASSUME Finish(h, [kind |-> "apology", by |-> h]), exact' = LookedUp(h),
             UNCHANGED <<semantic, iteration>>
      PROVE  Ends(h)
  <2> DEFINE r == [kind |-> "apology", by |-> h]
  <2>1. r \in Result /\ r.by = h /\ r.kind # "none"
    BY DEF Result
  <2>2. CachesKept
    BY <1>2, LookedUpKeeps
  <2>3. Finish(h, r) /\ UNCHANGED iteration
    BY <1>2
  <2> HIDE DEF r
  <2> QED
    BY <2>1, <2>2, <2>3 DEF Ends
<1>3. ASSUME FinishLoop(h, "answer")
      PROVE  Ends(h)
  BY <1>3, FinishLoopEnds
<1>4. ASSUME chatPc' = [chatPc EXCEPT ![h] = "tool"],
             iteration' = [iteration EXCEPT ![h] = @ + 1],
             exact' = LookedUp(h), UNCHANGED <<convVars, semantic, answer>>
      PROVE  Continues(h)
  BY <1>4, LookedUpKeeps DEF Continues
<1> QED
  BY <1>1, <1>2, <1>3, <1>4 DEF Generate, Effect

\* A record in a cache is about a request.
LEMMA RecordOfRequest ==
    ASSUME CacheTypeOK
    PROVE  /\ \A k \in 1 .. Len(exact) : exact[k] \in Entry /\ exact[k].by \in Requests
           /\ \A k \in 1 .. Len(semantic) : semantic[k].by \in Requests
<1>1. \A k \in 1 .. Len(exact) : exact[k] \in Entry
  BY ElementOfSeq DEF CacheTypeOK
<1>2. \A k \in 1 .. Len(semantic) : semantic[k] \in [by : Requests]
  BY ElementOfSeq DEF CacheTypeOK
<1> QED
  BY <1>1, <1>2 DEF Entry

LEMMA HitEnds ==
    ASSUME ChatTypeOK, CacheTypeOK, NEW h \in Requests, NEW b \in Requests,
           Cached(b), Alike(h, b), CachesKept, Finish(h, answer[b]), UNCHANGED iteration
    PROVE  Ends(h)
<1>1. answer[b] \in Result
  BY DEF ChatTypeOK
<1>2. PICK r \in Result : r = answer[b]
  BY <1>1
<1>3. Finish(h, r)
  BY <1>2
<1>4. \E d \in Requests : Cached(d) /\ Alike(h, d) /\ r = answer[d]
  BY <1>2
<1> QED
  BY <1>3, <1>4, Zenon DEF Ends

LEMMA ExactHitEffect ==
    ASSUME ChatTypeOK, CacheTypeOK, NEW h \in Requests, chatPc[h] \in Open,
           NEW k \in DOMAIN exact, ExactHit(h, k)
    PROVE  Effect(h)
<1>1. k \in 1 .. Len(exact) /\ exact[k].by \in Requests
  BY RecordOfRequest DEF CacheTypeOK
<1> DEFINE b == exact[k].by
<1>2. Cached(b)
  BY <1>1 DEF Cached
<1>3. Alike(h, b)
  <2>1. Key(b) = Key(h)
    BY DEF ExactHit, ExactHits, ExactAt
  <2>2. chat[b].question = chat[h].question /\ chat[b].alert = chat[h].alert
    BY <2>1 DEF Key
  <2>3. chat[h].question \in Questions
    BY DEF ChatTypeOK
  <2> QED
    BY <2>2, <2>3, AssistantBounds DEF Alike
<1>4. CachesKept
  <2>1. RemoveAt(exact, k) \in Seq(Entry) /\ Within(RemoveAt(exact, k), exact)
    <3>1. /\ RemoveAt(exact, k) \in Seq(Entry) /\ Len(exact) \in Nat
          /\ Len(RemoveAt(exact, k)) = Len(exact) - 1
          /\ \A j \in 1 .. Len(exact) - 1 :
                RemoveAt(exact, k)[j] = IF j < k THEN exact[j] ELSE exact[j + 1]
      BY <1>1, RemoveAtFacts, LenProperties DEF CacheTypeOK
    <3>2. ASSUME NEW i \in 1 .. Len(RemoveAt(exact, k))
          PROVE  \E j \in 1 .. Len(exact) : RemoveAt(exact, k)[i] = exact[j]
      <4>1. i \in 1 .. Len(exact) /\ i + 1 \in 1 .. Len(exact)
        BY <3>1
      <4> QED
        BY <3>1, <4>1
    <3> QED
      BY <3>1, <3>2 DEF Within
  <2>2. exact' \in Seq(Entry) /\ OnlyFrom(exact', exact)
    BY <1>1, <2>1, MovedKeeps DEF ExactHit, CacheTypeOK
  <2> QED
    BY <2>2 DEF CachesKept, CacheTypeOK, OnlyFrom, ExactHit
<1>5. Ends(h)
  BY <1>1, <1>2, <1>3, <1>4, HitEnds DEF ExactHit
<1> QED
  BY <1>5 DEF Effect, ExactHit

LEMMA SemanticHitEffect ==
    ASSUME ChatTypeOK, CacheTypeOK, NEW h \in Requests, chatPc[h] \in Open,
           SemanticHit(h)
    PROVE  Effect(h)
<1>1. 1 \in Matches(h)
  BY Zenon DEF SemanticHit, Best
<1>2. 1 \in 1 .. Len(semantic) /\ semantic # <<>>
  BY <1>1, EmptySeq DEF Matches, CacheTypeOK
<1> DEFINE b == semantic[1].by
<1>3. b \in Requests /\ Cached(b) /\ Alike(h, b)
  BY <1>1, <1>2, RecordOfRequest DEF Matches, Cached, Alike
<1>4. OnlyFrom(semantic', semantic) /\ semantic' \in Seq([by : Requests])
  <2>1. Tail(semantic) \in Seq([by : Requests]) /\ Within(Tail(semantic), semantic)
    BY <1>2, TailWithin DEF CacheTypeOK
  <2>2. semantic' = Append(Tail(semantic), semantic[1])
    BY <1>2 DEF SemanticHit, CacheTypeOK
  <2> QED
    BY <1>2, <2>1, <2>2, MovedKeeps DEF CacheTypeOK
<1>5. exact' \in Seq(Entry) /\ OnlyFrom(exact', exact)
  <2>1. CASE exact' = WithoutKey(h)
    BY <2>1, WithoutKeyKeeps
  <2>2. CASE exact' = exact
    BY <2>2 DEF CacheTypeOK, OnlyFrom
  <2> QED
    BY <2>1, <2>2 DEF SemanticHit, ExactMiss, LookedUp
<1>6. CachesKept
  BY <1>4, <1>5 DEF CachesKept
<1>7. Ends(h)
  BY <1>3, <1>6, HitEnds DEF SemanticHit
<1> QED
  BY <1>7 DEF Effect, SemanticHit

\* Every step of a request is one of the three.
LEMMA ChatStepEffect ==
    ASSUME ChatTypeOK, CacheTypeOK, Pending, NEW h \in Requests, ChatStep(h)
    PROVE  Effect(h)
<1>1. MaxIter \in Nat \ {0} /\ iteration[h] \in 0 .. MaxIter
  BY AssistantBounds DEF ChatTypeOK
<1>2. CASE Investigate(h)
  <2>1. chatPc[h] \in Open /\ iteration[h] < MaxIter
    BY <1>1, <1>2 DEF Investigate, Pending, Open
  <2>2. CASE Generate(h)
    BY <2>1, <2>2, GenerateEffect
  <2>3. ASSUME NEW k \in DOMAIN exact, ExactHit(h, k)
        PROVE  Effect(h)
    BY <2>1, <2>3, ExactHitEffect
  <2>4. CASE SemanticHit(h)
    BY <2>1, <2>4, SemanticHitEffect
  <2>5. CASE SemanticHitRaises(h)
    <3>1. CachesKept
      BY <2>5, LookedUpKeeps DEF SemanticHitRaises, ExactMiss
    <3> QED
      BY <2>1, <2>5, <3>1 DEF SemanticHitRaises, Effect, Breaks
  <2> QED
    BY <1>2, <2>2, <2>3, <2>4, <2>5 DEF Investigate
<1>3. CASE Iterate(h)
  <2>1. chatPc[h] \in Open
    BY <1>3 DEF Iterate, Open
  <2>2. CASE iteration[h] < MaxIter /\ Generate(h)
    BY <2>1, <2>2, GenerateEffect
  <2>3. CASE /\ FinishLoop(h, "stopped")
             /\ UNCHANGED <<arriving, upkeep, finetuned, engineVars, chat>>
    BY <2>1, <2>3, FinishLoopEnds DEF Effect
  <2> QED
    BY <1>3, <2>2, <2>3 DEF Iterate
<1> QED
  BY <1>2, <1>3 DEF ChatStep

\* Engine and maintenance: no turn, no request and no new record.
Aside ==
    /\ UNCHANGED <<turns, chatVars>>
    /\ arriving' = arriving \/ \E l \in Reloads : Arrives(l)
    /\ upkeep' \in 0 .. MaxUpkeep
    /\ conversations' \in Seq(ConvIds) /\ Within(conversations', conversations)
    /\ CachesKept

LEMMA SameWithin ==
    ASSUME NEW s
    PROVE  Within(s, s)
BY DEF Within

LEMMA AsideSteps ==
    ASSUME ConvTypeOK, CacheTypeOK, ChatTypeOK,
           \/ \E l \in Loads : EngineStep(l)
           \/ \E l \in Reloads, t \in Targets : Reload(l, t)
           \/ \E l \in Reloads : Timeout(l)
           \/ \E c \in ConvIds : DropConversation(c)
           \/ \E n \in 1 .. MaxConvs : CleanupExpired(n)
           \/ \E k \in 1 .. ExactMax : AgeEntry(k)
           \/ ClearCaches
           \/ UNCHANGED assistantVars
    PROVE  Aside
<1>1. ASSUME UNCHANGED <<upkeep, convVars, cacheVars, chatVars>>,
             arriving' = arriving \/ \E l \in Reloads : Arrives(l)
      PROVE  Aside
  BY <1>1, UnchangedKeeps, SameWithin DEF Aside, ConvTypeOK, ChatTypeOK, convVars
<1>2. CASE \E l \in Loads : EngineStep(l)
  BY <1>1, <1>2 DEF EngineStep, AcquireLock, LoadReturns, LoadFails, FallbackReturns
<1>3. CASE \E l \in Reloads, t \in Targets : Reload(l, t)
  BY <1>1, <1>3 DEF Reload
<1>4. CASE \E l \in Reloads : Timeout(l)
  BY <1>1, <1>4 DEF Timeout
<1>5. CASE UNCHANGED assistantVars
  BY <1>1, <1>5 DEF assistantVars
<1>6. ASSUME Upkeep
      PROVE  upkeep' \in 0 .. MaxUpkeep
  BY <1>6, AssistantBounds DEF Upkeep, ChatTypeOK
<1>7. ASSUME NEW c \in ConvIds, DropConversation(c)
      PROVE  Aside
  <2>1. conversations' \in Seq(ConvIds) /\ Within(conversations', conversations)
    BY <1>7, RemoveFirstKeeps DEF DropConversation, ConvTypeOK
  <2> QED
    BY <1>6, <1>7, <2>1, UnchangedKeeps DEF DropConversation, Aside
<1>8. ASSUME NEW n \in 1 .. MaxConvs, CleanupExpired(n)
      PROVE  Aside
  <2>1. n + 1 \in 1 .. Len(conversations) + 1
    BY <1>8 DEF CleanupExpired, ConvTypeOK
  <2>2. conversations' \in Seq(ConvIds) /\ Within(conversations', conversations)
    BY <1>8, <2>1, SubSeqWithin DEF CleanupExpired, ConvTypeOK
  <2> QED
    BY <1>6, <1>8, <2>2, UnchangedKeeps DEF CleanupExpired, Aside
<1>9. ASSUME NEW k \in 1 .. ExactMax, AgeEntry(k)
      PROVE  Aside
  <2>1. exact \in Seq(Entry) /\ k \in 1 .. Len(exact) /\ exact[k] \in Entry
    BY <1>9, RecordOfRequest DEF AgeEntry, CacheTypeOK
  <2> DEFINE e == [exact[k] EXCEPT !.old = TRUE]
  <2>2. e \in Entry /\ e.by = exact[k].by
    BY <2>1 DEF Entry
  <2>3. exact' = [exact EXCEPT ![k] = e]
    BY <1>9 DEF AgeEntry
  <2> HIDE DEF e
  <2>4. /\ exact' \in Seq(Entry) /\ Len(exact') = Len(exact)
        /\ \A j \in 1 .. Len(exact) : exact'[j] = IF j = k THEN e ELSE exact[j]
    BY <2>1, <2>2, <2>3, ExceptSeq
  <2>5. OnlyFrom(exact', exact)
    BY <2>2, <2>4 DEF OnlyFrom
  <2>6. CachesKept
    BY <1>9, <2>4, <2>5 DEF CachesKept, AgeEntry, CacheTypeOK, OnlyFrom
  <2> QED
    BY <1>6, <1>9, <2>6, SameWithin DEF AgeEntry, Aside, convVars, ConvTypeOK
<1>10. ASSUME ClearCaches
       PROVE  Aside
  <2>1. CachesKept
    BY <1>10, EmptySeq DEF ClearCaches, CachesKept, OnlyFrom
  <2> QED
    BY <1>6, <1>10, <2>1, SameWithin DEF ClearCaches, Aside, convVars, ConvTypeOK
<1> QED
  BY <1>2, <1>3, <1>4, <1>5, <1>7, <1>8, <1>9, <1>10, Zenon

\* A chat that comes: what it says is a text about an alert.
Asks(h) ==
    \E q \in Questions, a \in AlertIds, c \in ConvIds : h \in Chats /\ Ask(h, q, a, c)

Explained(h) ==
    \E q \in Questions, a \in AlertIds : Explain(h, q, a)

LEMMA StepOf ==
    ASSUME ConvTypeOK, CacheTypeOK, ChatTypeOK, Pending, [AssistantNext]_assistantVars
    PROVE  \/ Aside
           \/ \E h \in Requests : Asks(h) \/ Explained(h) \/ Refuse(h) \/ Effect(h)
<1>1. ASSUME NEW h \in Requests, NEW topic \in About[h],
             h \in Chats /\ \E c \in ConvIds : Ask(h, topic[1], topic[2], c)
      PROVE  Asks(h)
  <2>1. topic[1] \in Questions /\ topic[2] \in AlertIds
    BY AssistantBounds
  <2> QED
    BY <1>1, <2>1 DEF Asks
<1>2. ASSUME NEW h \in Requests, NEW topic \in About[h],
             h \in Explains /\ Explain(h, topic[1], topic[2])
      PROVE  Explained(h)
  <2>1. topic[1] \in Questions /\ topic[2] \in AlertIds
    BY AssistantBounds
  <2> QED
    BY <1>2, <2>1 DEF Explained
<1>3. ASSUME NEW h \in Requests, ChatStep(h)
      PROVE  Effect(h)
  BY <1>3, ChatStepEffect
<1> QED
  BY <1>1, <1>2, <1>3, AsideSteps, Zenon DEF AssistantNext, Request

-----------------------------------------------------------------------------
(* The parts of the invariant that requests maintain *)

WindowsFit == \A c \in ConvIds : Len(turns[c]) <= MaxTurns

\* How the turns move in a step: not at all, or one conversation, which is
\* stored, gains one turn of a request in it.
LEMMA TurnsMove ==
    ASSUME ConvTypeOK, ChatTypeOK, WindowsFit, Pending, NEW h \in Requests,
           Asks(h) \/ Explained(h) \/ Refuse(h) \/ Effect(h)
    PROVE  /\ ConvTypeOK'
           /\ \/ /\ UNCHANGED convVars
                 /\ chat'[h].conv # NoConv
                       => /\ chatPc'[h] # "done"
                          /\ chatPc'[h] \in Open
                                => chatPc[h] \in Open /\ chat'[h] = chat[h]
              \/ \E c \in ConvIds, role \in {"user", "assistant"} :
                    /\ h \in Chats
                    /\ turns' = [turns EXCEPT ![c] = Window(c, [role |-> role, by |-> h])]
                    /\ chat'[h].conv = c
                    /\ role = "user" => chatPc'[h] = "context"
                    /\ role = "assistant" => /\ chatPc'[h] = "done"
                                             /\ chatPc[h] \in Open
                                             /\ chat'[h] = chat[h]
<1>1. ASSUME UNCHANGED convVars
      PROVE  ConvTypeOK'
  BY <1>1 DEF ConvTypeOK, convVars
<1>2. ASSUME NEW c \in ConvIds, NEW role \in {"user", "assistant"}, h \in Chats
      PROVE  Window(c, [role |-> role, by |-> h]) \in Seq(Turn)
  <2>1. [role |-> role, by |-> h] \in Turn
    BY <1>2 DEF Turn
  <2> QED
    BY <1>2, <2>1, WindowFacts DEF WindowsFit
<1>3. ASSUME NEW q \in Questions, NEW a \in AlertIds, NEW c \in ConvIds,
             h \in Chats, Ask(h, q, a, c)
      PROVE  /\ ConvTypeOK'
             /\ turns' = [turns EXCEPT ![c] = Window(c, [role |-> "user", by |-> h])]
             /\ chat'[h].conv = c /\ chatPc'[h] = "context"
  <2>1. conversations' \in Seq(ConvIds)
    BY <1>3, TouchedKeeps, CreateKeeps DEF Ask
  <2>2. turns' = [turns EXCEPT ![c] = Window(c, [role |-> "user", by |-> h])]
    BY <1>3 DEF Ask
  <2>3. chat'[h].conv = c /\ chatPc'[h] = "context"
    BY <1>3 DEF Ask, ChatTypeOK
  <2> QED
    BY <1>2, <1>3, <2>1, <2>2, <2>3 DEF ConvTypeOK
<1>4. ASSUME NEW r, Finish(h, r), chat' = chat, chatPc[h] \in Open
      PROVE  \/ /\ UNCHANGED convVars
                /\ chat'[h].conv # NoConv => chatPc'[h] = "failed"
             \/ \E c \in ConvIds :
                   /\ h \in Chats /\ ConvTypeOK'
                   /\ turns' = [turns EXCEPT ![c] = Window(c, [role |-> "assistant", by |-> h])]
                   /\ chat'[h].conv = c
                   /\ chatPc'[h] = "done"
  <2> DEFINE c == chat[h].conv
  <2>1. CASE c = NoConv \/ ~Contains(conversations, c)
    BY <1>4, <2>1 DEF Finish, ChatTypeOK
  <2>2. CASE c # NoConv /\ Contains(conversations, c)
    <3>1. c \in ConvIds /\ h \in Chats
      BY <2>2 DEF ChatTypeOK, Pending
    <3>2. /\ conversations' = Touched(c)
          /\ turns' = [turns EXCEPT ![c] = Window(c, [role |-> "assistant", by |-> h])]
          /\ chatPc'[h] = "done"
      BY <1>4, <2>2 DEF Finish, ChatTypeOK
    <3>3. ConvTypeOK'
      BY <1>2, <2>2, <3>1, <3>2, TouchedKeeps DEF ConvTypeOK
    <3> QED
      BY <1>4, <3>1, <3>2, <3>3
  <2> QED
    BY <2>1, <2>2
<1>5. CASE Asks(h)
  BY <1>3, <1>5 DEF Asks
<1>6. CASE Explained(h) \/ Refuse(h)
  <2>1. UNCHANGED convVars
    BY <1>6 DEF Explained, Explain, Refuse
  <2>2. chat'[h].conv # NoConv => chatPc'[h] = "refused"
    BY <1>6 DEF Explained, Explain, Refuse, ChatTypeOK
  <2> QED
    BY <1>1, <2>1, <2>2 DEF Open
<1>7. CASE Effect(h)
  <2> chat' = chat /\ chatPc[h] \in Open
    BY <1>7 DEF Effect
  <2>1. CASE Continues(h) \/ Breaks(h)
    <3>1. UNCHANGED convVars /\ chatPc'[h] \in {"tool", "failed"}
      BY <2>1 DEF Continues, Breaks, ChatTypeOK, convVars
    <3> QED
      BY <1>1, <3>1
  <2>2. CASE Ends(h)
    <3>1. PICK r \in Result : Finish(h, r)
      BY <2>2 DEF Ends
    <3>2. CASE UNCHANGED convVars /\ (chat'[h].conv # NoConv => chatPc'[h] = "failed")
      BY <1>1, <3>2 DEF Open
    <3>3. CASE \E c \in ConvIds :
                 /\ h \in Chats /\ ConvTypeOK'
                 /\ turns' = [turns EXCEPT ![c] = Window(c, [role |-> "assistant", by |-> h])]
                 /\ chat'[h].conv = c
                 /\ chatPc'[h] = "done"
      BY <3>3
    <3> QED
      BY <1>4, <3>1, <3>2, <3>3
  <2> QED
    BY <1>7, <2>1, <2>2 DEF Effect
<1> QED
  BY <1>5, <1>6, <1>7

LEMMA CacheType ==
    ASSUME CacheTypeOK,
           \/ Aside
           \/ \E h \in Requests : Asks(h) \/ Explained(h) \/ Refuse(h) \/ Effect(h)
    PROVE  CacheTypeOK'
<1>1. ASSUME NEW h \in Requests, Effect(h)
      PROVE  CacheTypeOK'
  BY <1>1 DEF Effect, Continues, Breaks, Ends, CachesKept, CachesGain, CacheTypeOK
<1>2. ASSUME NEW h \in Requests, Asks(h) \/ Explained(h) \/ Refuse(h)
      PROVE  CacheTypeOK'
  BY <1>2 DEF Asks, Ask, Explained, Explain, Refuse, CacheTypeOK, cacheVars
<1> QED
  BY <1>1, <1>2 DEF Aside, CachesKept, CacheTypeOK

\* Whoever arrives leaves the line.
LEMMA ArrivesFacts ==
    ASSUME ChatTypeOK, IsInjective(arriving), NEW x, Arrives(x)
    PROVE  /\ arriving' \in Seq(Requests \union Reloads)
           /\ IsInjective(arriving')
           /\ Contains(arriving, x) /\ ~Contains(arriving', x)
           /\ Within(arriving', arriving)
<1>1. /\ arriving \in Seq(Requests \union Reloads) /\ arriving # <<>>
      /\ arriving[1] = x /\ arriving' = Tail(arriving)
  BY DEF Arrives, ChatTypeOK
<1>2. /\ arriving' \in Seq(Requests \union Reloads)
      /\ Len(arriving') = Len(arriving) - 1
      /\ \A i \in 1 .. Len(arriving) - 1 : arriving'[i] = arriving[i + 1]
      /\ Within(arriving', arriving)
  BY <1>1, TailWithin
<1>3. /\ Len(arriving) \in Nat \ {0}
      /\ DOMAIN arriving = 1 .. Len(arriving)
      /\ DOMAIN arriving' = 1 .. Len(arriving')
  BY <1>1, <1>2, EmptySeq, LenProperties
<1>4. \A a, b \in 1 .. Len(arriving) : arriving[a] = arriving[b] => a = b
  BY <1>3 DEF IsInjective
<1>5. \A i \in 1 .. Len(arriving) - 1 : i + 1 \in 1 .. Len(arriving) /\ i + 1 # 1
  BY <1>3
<1>6. \A a, b \in 1 .. Len(arriving') : arriving'[a] = arriving'[b] => a = b
  <2> TAKE a, b \in 1 .. Len(arriving')
  <2> HAVE arriving'[a] = arriving'[b]
  <2>1. a + 1 = b + 1
    BY <1>2, <1>4, <1>5
  <2> QED
    BY <1>2, <1>3, <2>1
<1>7. Contains(arriving, x)
  BY <1>1, <1>3 DEF Contains
<1>8. ~Contains(arriving', x)
  BY <1>1, <1>2, <1>3, <1>4, <1>5 DEF Contains
<1> QED
  BY <1>2, <1>3, <1>6, <1>7, <1>8 DEF IsInjective

LEMMA ChatType ==
    ASSUME ChatTypeOK, Pending,
           \/ Aside
           \/ \E h \in Requests : Asks(h) \/ Explained(h) \/ Refuse(h) \/ Effect(h)
    PROVE  ChatTypeOK'
<1>1. CASE Aside
  <2>1. arriving' \in Seq(Requests \union Reloads)
    BY <1>1, ArrivesFacts DEF Aside, Pending, ChatTypeOK
  <2> QED
    BY <1>1, <2>1 DEF Aside, ChatTypeOK, chatVars
<1>2. ASSUME NEW h \in Requests, Asks(h) \/ Explained(h)
      PROVE  ChatTypeOK'
  <2>1. /\ chat' \in [Requests -> [question : Questions, alert : AlertIds,
                           conv : ConvIds \union {NoConv}, history : BOOLEAN]]
        /\ Arrives(h)
        /\ chatPc' = [chatPc EXCEPT ![h] = "context"]
        /\ UNCHANGED <<upkeep, iteration, answer>>
    <3>1. CASE Explained(h)
      BY <3>1 DEF Explained, Explain, ChatTypeOK
    <3>2. CASE Asks(h)
      BY <3>2 DEF Asks, Ask, ChatTypeOK
    <3> QED
      BY <1>2, <3>1, <3>2
  <2>2. arriving' \in Seq(Requests \union Reloads)
    BY <2>1, ArrivesFacts DEF Pending
  <2> QED
    BY <2>1, <2>2 DEF ChatTypeOK
<1>3. ASSUME NEW h \in Requests, Refuse(h)
      PROVE  ChatTypeOK'
  <2>1. arriving' \in Seq(Requests \union Reloads)
    BY <1>3, ArrivesFacts DEF Pending, Refuse
  <2> QED
    BY <1>3, <2>1 DEF ChatTypeOK, Refuse
<1>4. ASSUME NEW h \in Requests, Effect(h)
      PROVE  ChatTypeOK'
  <2>1. UNCHANGED <<arriving, upkeep, chat>>
    BY <1>4 DEF Effect
  <2>2. CASE Continues(h)
    <3>1. iteration[h] + 1 \in 0 .. MaxIter
      BY <2>2, AssistantBounds DEF Continues, ChatTypeOK
    <3> QED
      BY <2>1, <2>2, <3>1 DEF Continues, ChatTypeOK
  <2>3. CASE Breaks(h)
    BY <2>1, <2>3 DEF Breaks, ChatTypeOK
  <2>4. CASE Ends(h)
    BY <2>1, <2>4 DEF Ends, Finish, ChatTypeOK
  <2> QED
    BY <1>4, <2>2, <2>3, <2>4 DEF Effect
<1> QED
  BY <1>1, <1>2, <1>3, <1>4

LEMMA PendingStep ==
    ASSUME ChatTypeOK, Pending,
           \/ Aside
           \/ \E h \in Requests : Asks(h) \/ Explained(h) \/ Refuse(h) \/ Effect(h)
    PROVE  Pending'
<1>1. CASE Aside
  <2>1. IsInjective(arriving') /\ \A x : Contains(arriving', x) => Contains(arriving, x)
    BY <1>1, ArrivesFacts, WithinHolds DEF Aside, Pending
  <2> QED
    BY <1>1, <2>1 DEF Aside, Pending, chatVars
<1>2. ASSUME NEW h \in Requests, Arrives(h),
             \A g \in Requests \ {h} : chatPc'[g] = chatPc[g],
             iteration' = iteration,
             \A g \in Requests : chat'[g].conv # NoConv => g \in Chats
      PROVE  Pending'
  <2>1. /\ IsInjective(arriving') /\ ~Contains(arriving', h) /\ chatPc[h] = "new"
        /\ \A x : Contains(arriving', x) => Contains(arriving, x)
    BY <1>2, ArrivesFacts, WithinHolds DEF Pending
  <2> QED
    BY <1>2, <2>1 DEF Pending
<1>3. ASSUME NEW h \in Requests, Asks(h)
      PROVE  Pending'
  <2>1. PICK q \in Questions, a \in AlertIds, c \in ConvIds : h \in Chats /\ Ask(h, q, a, c)
    BY <1>3 DEF Asks
  <2>2. \A g \in Requests : chat'[g].conv # NoConv => g \in Chats
    BY <2>1 DEF Ask, Pending, ChatTypeOK
  <2> QED
    BY <1>2, <2>1, <2>2 DEF Ask, ChatTypeOK
<1>4. ASSUME NEW h \in Requests, Explained(h)
      PROVE  Pending'
  <2>1. PICK q \in Questions, a \in AlertIds : Explain(h, q, a)
    BY <1>4 DEF Explained
  <2>2. \A g \in Requests : chat'[g].conv # NoConv => g \in Chats
    BY <2>1 DEF Explain, Pending, ChatTypeOK
  <2> QED
    BY <1>2, <2>1, <2>2 DEF Explain, ChatTypeOK
<1>5. ASSUME NEW h \in Requests, Refuse(h)
      PROVE  Pending'
  BY <1>2, <1>5 DEF Refuse, ChatTypeOK, Pending
<1>6. ASSUME NEW h \in Requests, Effect(h)
      PROVE  Pending'
  <2>1. /\ arriving' = arriving /\ chat' = chat /\ chatPc[h] \in Open
        /\ \A g \in Requests \ {h} : chatPc'[g] = chatPc[g] /\ iteration'[g] = iteration[g]
        /\ chatPc'[h] \in {"tool", "done", "failed"}
    BY <1>6 DEF Effect, Continues, Breaks, Ends, Finish, ChatTypeOK
  <2> QED
    BY <2>1 DEF Pending, Open
<1> QED
  BY <1>1, <1>3, <1>4, <1>5, <1>6

\* A step of one request leaves what the others asked and were told.
LEMMA OthersKeep ==
    ASSUME ChatTypeOK, NEW h \in Requests,
           Asks(h) \/ Explained(h) \/ Refuse(h) \/ Effect(h)
    PROVE  \A g \in Requests \ {h} : /\ chat'[g] = chat[g]
                                      /\ chatPc'[g] = chatPc[g]
                                      /\ answer'[g] = answer[g]
<1>1. CASE Asks(h) \/ Explained(h) \/ Refuse(h)
  BY <1>1 DEF Asks, Ask, Explained, Explain, Refuse, ChatTypeOK
<1>2. CASE Effect(h)
  BY <1>2 DEF Effect, Continues, Breaks, Ends, Finish, ChatTypeOK
<1> QED
  BY <1>1, <1>2

LEMMA AskedStep ==
    ASSUME ConvTypeOK, ChatTypeOK, Pending, Asked,
           \/ Aside
           \/ \E h \in Requests : Asks(h) \/ Explained(h) \/ Refuse(h) \/ Effect(h)
    PROVE  Asked'
<1>1. CASE Aside
  BY <1>1 DEF Aside, Asked, chatVars
<1>2. ASSUME NEW h \in Requests, Asks(h) \/ Explained(h) \/ Refuse(h) \/ Effect(h)
      PROVE  Asked'
  <2>1. WindowsFit
    BY DEF Asked, WindowsFit
  <2>2. \A g \in Requests \ {h} : chat'[g] = chat[g] /\ chatPc'[g] = chatPc[g]
    BY <1>2, OthersKeep
  <2>3. CASE /\ UNCHANGED convVars
             /\ chat'[h].conv # NoConv
                   => /\ chatPc'[h] # "done"
                      /\ chatPc'[h] \in Open
                            => chatPc[h] \in Open /\ chat'[h] = chat[h]
    <3> SUFFICES ASSUME NEW c \in ConvIds, Len(turns[c]) < MaxTurns, NEW g \in Chats
                 PROVE  /\ chat'[g].conv = c /\ chatPc'[g] \in Open
                              => Contains(turns[c], [role |-> "user", by |-> g])
                        /\ chat'[g].conv = c /\ chatPc'[g] = "done"
                              => Contains(turns[c], [role |-> "assistant", by |-> g])
      BY <2>3 DEF Asked, convVars
    <3>1. c # NoConv /\ g \in Requests
      BY AssistantBounds DEF Requests
    <3> QED
      BY <2>2, <2>3, <3>1 DEF Asked
  <2>4. ASSUME NEW c \in ConvIds, NEW role \in {"user", "assistant"},
               h \in Chats,
               turns' = [turns EXCEPT ![c] = Window(c, [role |-> role, by |-> h])],
               chat'[h].conv = c,
               role = "user" => chatPc'[h] = "context",
               role = "assistant" => /\ chatPc'[h] = "done"
                                     /\ chatPc[h] \in Open
                                     /\ chat'[h] = chat[h]
        PROVE  Asked'
    <3> DEFINE t == [role |-> role, by |-> h]
               w == Window(c, t)
    <3>1. t \in Turn /\ t.role = role /\ t.by = h
      BY <2>4 DEF Turn
    <3>2. /\ Len(w) <= MaxTurns
          /\ Len(w) < MaxTurns
                => Len(turns[c]) < MaxTurns /\ w = Append(turns[c], t)
      BY <2>1, <3>1, WindowFacts DEF WindowsFit
    <3>3. turns'[c] = w /\ \A d \in ConvIds \ {c} : turns'[d] = turns[d]
      BY <2>4 DEF ConvTypeOK
    <3> HIDE DEF w, t
    <3>4. ASSUME NEW d \in ConvIds \ {c}, Len(turns'[d]) < MaxTurns, NEW g \in Chats
          PROVE  /\ \A j \in 1 .. Len(turns'[d]) :
                       turns'[d][j] = [role |-> "assistant", by |-> g]
                          => \E i \in 1 .. j - 1 :
                                turns'[d][i] = [role |-> "user", by |-> g]
                 /\ chat'[g].conv = d /\ chatPc'[g] \in Open
                       => Contains(turns'[d], [role |-> "user", by |-> g])
                 /\ chat'[g].conv = d /\ chatPc'[g] = "done"
                       => Contains(turns'[d], [role |-> "assistant", by |-> g])
      <4>1. turns'[d] = turns[d] /\ g \in Requests
        BY <3>3 DEF Requests
      <4>2. chat'[g].conv = d => chat'[g] = chat[g] /\ chatPc'[g] = chatPc[g]
        BY <2>2, <2>4, <4>1
      <4> QED
        BY <3>4, <4>1, <4>2 DEF Asked
    <3>5. ASSUME Len(w) < MaxTurns, NEW g \in Chats
          PROVE  /\ \A j \in 1 .. Len(w) :
                       w[j] = [role |-> "assistant", by |-> g]
                          => \E i \in 1 .. j - 1 : w[i] = [role |-> "user", by |-> g]
                 /\ chat'[g].conv = c /\ chatPc'[g] \in Open
                       => Contains(w, [role |-> "user", by |-> g])
                 /\ chat'[g].conv = c /\ chatPc'[g] = "done"
                       => Contains(w, [role |-> "assistant", by |-> g])
      <4>1. /\ turns[c] \in Seq(Turn) /\ Len(turns[c]) \in Nat
            /\ Len(turns[c]) < MaxTurns /\ w = Append(turns[c], t)
            /\ g \in Requests
        BY <3>2, <3>5, LenProperties DEF ConvTypeOK, Requests
      <4>2. /\ Len(w) = Len(turns[c]) + 1
            /\ \A i \in 1 .. Len(turns[c]) : w[i] = turns[c][i]
            /\ w[Len(turns[c]) + 1] = t
        BY <3>1, <4>1, AppendProperties
      <4>3. \A x : Contains(w, x) <=> Contains(turns[c], x) \/ x = t
        BY <3>1, <4>1, AppendHolds
      <4>4. ASSUME NEW j \in 1 .. Len(w), w[j] = [role |-> "assistant", by |-> g]
            PROVE  \E i \in 1 .. j - 1 : w[i] = [role |-> "user", by |-> g]
        <5>1. CASE j \in 1 .. Len(turns[c])
          <6>1. PICK i \in 1 .. j - 1 : turns[c][i] = [role |-> "user", by |-> g]
            BY <4>1, <4>2, <4>4, <5>1 DEF Asked
          <6> QED
            BY <4>1, <4>2, <5>1, <6>1
        <5>2. CASE j = Len(turns[c]) + 1
          <6>1. role = "assistant" /\ g = h
            BY <3>1, <4>2, <4>4, <5>2
          <6>2. Contains(turns[c], [role |-> "user", by |-> g])
            BY <2>4, <4>1, <6>1 DEF Asked
          <6>3. PICK i \in 1 .. Len(turns[c]) : turns[c][i] = [role |-> "user", by |-> g]
            BY <6>2 DEF Contains
          <6> QED
            BY <4>1, <4>2, <5>2, <6>3
        <5> QED
          BY <4>1, <4>2, <5>1, <5>2
      <4>5. CASE g = h
        BY <2>4, <4>3, <4>4, <4>5 DEF t, Open
      <4>6. CASE g # h
        <5>1. chat'[g] = chat[g] /\ chatPc'[g] = chatPc[g]
          BY <2>2, <4>1, <4>6
        <5> QED
          BY <4>1, <4>3, <4>4, <5>1 DEF Asked
      <4> QED
        BY <4>5, <4>6
    <3>6. \A d \in ConvIds : Len(turns'[d]) <= MaxTurns
      BY <2>1, <3>2, <3>3 DEF WindowsFit
    <3> QED
      BY <3>3, <3>4, <3>5, <3>6 DEF Asked
  <2> QED
    BY <1>2, <2>1, <2>3, <2>4, TurnsMove
<1> QED
  BY <1>1, <1>2

\* Records of requests that stay usable stay usable records.
LEMMA UsableRecords ==
    ASSUME CacheTypeOK, Answered, NEW h,
           \/ CachesKept
           \/ CachesGain(h) /\ Usable(h)',
           \A b \in Requests : Usable(b) => Usable(b)'
    PROVE  /\ (\A k \in 1 .. Len(exact) : Usable(exact[k].by))'
           /\ (\A k \in 1 .. Len(semantic) : Usable(semantic[k].by))'
<1>1. /\ \A j \in 1 .. Len(exact) : exact[j].by \in Requests /\ Usable(exact[j].by)
      /\ \A j \in 1 .. Len(semantic) : semantic[j].by \in Requests /\ Usable(semantic[j].by)
  BY RecordOfRequest DEF Answered
<1>2. ASSUME NEW k \in 1 .. Len(exact')
      PROVE  \E b : exact'[k].by = b /\ Usable(b)'
  <2>1. \/ exact'[k].by = h /\ Usable(h)'
        \/ \E j \in 1 .. Len(exact) : exact'[k].by = exact[j].by
    BY DEF CachesKept, CachesGain, From, OnlyFrom
  <2> QED
    BY <1>1, <2>1
<1>3. ASSUME NEW k \in 1 .. Len(semantic')
      PROVE  \E b : semantic'[k].by = b /\ Usable(b)'
  <2>1. \/ semantic'[k].by = h /\ Usable(h)'
        \/ \E j \in 1 .. Len(semantic) : semantic'[k].by = semantic[j].by
    BY DEF CachesKept, CachesGain, From, OnlyFrom
  <2> QED
    BY <1>1, <2>1
<1>4. (\A k \in 1 .. Len(exact) : Usable(exact[k].by))'
  BY <1>2 DEF Usable
<1>5. (\A k \in 1 .. Len(semantic) : Usable(semantic[k].by))'
  BY <1>3 DEF Usable
<1> QED
  BY <1>4, <1>5

LEMMA AnsweredStep ==
    ASSUME CacheTypeOK, ChatTypeOK, Pending, Answered,
           \/ Aside
           \/ \E h \in Requests : Asks(h) \/ Explained(h) \/ Refuse(h) \/ Effect(h)
    PROVE  Answered'
<1>0. \A b \in Requests : Cached(b) => Usable(b)
  BY DEF Cached, Answered
<1>1. CASE Aside
  <2>1. chatPc' = chatPc /\ chat' = chat /\ answer' = answer /\ CachesKept
    BY <1>1 DEF Aside, chatVars
  <2>2. /\ (\A k \in 1 .. Len(exact) : Usable(exact[k].by))'
        /\ (\A k \in 1 .. Len(semantic) : Usable(semantic[k].by))'
    <3>1. \A b \in Requests : Usable(b) => Usable(b)'
      BY <2>1 DEF Usable
    <3> QED
      BY <2>1, <3>1, UsableRecords
  <2> QED
    BY <2>1, <2>2 DEF Answered, Alike
<1>2. ASSUME NEW h \in Requests, Asks(h) \/ Explained(h) \/ Refuse(h)
      PROVE  Answered'
  <2>1. /\ chatPc[h] = "new" /\ chatPc'[h] \in {"context", "refused"}
        /\ answer' = answer /\ UNCHANGED cacheVars
    <3>1. Arrives(h)
      BY <1>2 DEF Asks, Ask, Explained, Explain, Refuse
    <3>2. chatPc[h] = "new"
      BY <3>1, ArrivesFacts DEF Pending
    <3> QED
      BY <1>2, <3>2 DEF Asks, Ask, Explained, Explain, Refuse, ChatTypeOK
  <2>2. \A g \in Requests \ {h} : chat'[g] = chat[g] /\ chatPc'[g] = chatPc[g]
    BY <1>2, OthersKeep
  <2>3. \A b \in Requests : Usable(b) => Usable(b)'
    BY <2>1, <2>2 DEF Usable
  <2>4. /\ (\A k \in 1 .. Len(exact) : Usable(exact[k].by))'
        /\ (\A k \in 1 .. Len(semantic) : Usable(semantic[k].by))'
    BY <2>1, <2>3, UnchangedKeeps, UsableRecords
  <2>5. ASSUME NEW g \in Requests, NEW b \in Requests, answer[g].kind # "none",
               answer[g].by = b
        PROVE  chatPc'[b] # "new" /\ Alike(g, b)'
    <3>1. g # h /\ b # h
      BY <2>1, <2>5 DEF Answered
    <3> QED
      BY <2>1, <2>2, <2>5, <3>1 DEF Answered, Alike
  <2>6. \A g \in Requests : chatPc'[g] \in Open \union {"new"} => answer[g].kind = "none"
    BY <2>1, <2>2 DEF Answered
  <2>7. \A g \in Requests : answer[g].by \in Requests
    BY DEF ChatTypeOK, Result
  <2>8. (\A g \in Requests : answer[g].kind # "none"
             => chatPc[answer[g].by] # "new" /\ Alike(g, answer[g].by))'
    BY <2>1, <2>5, <2>7 DEF Alike
  <2> QED
    BY <2>1, <2>4, <2>6, <2>8 DEF Answered
<1>3. ASSUME NEW h \in Requests, Effect(h)
      PROVE  Answered'
  <2>1. chat' = chat /\ chatPc[h] \in Open /\ answer[h].kind = "none"
    BY <1>3 DEF Effect, Answered
  <2>2. \A g \in Requests \ {h} : chatPc'[g] = chatPc[g] /\ answer'[g] = answer[g]
    BY <1>3, OthersKeep
  <2>3. \A b \in Requests : Usable(b) => Usable(b)'
    BY <2>1, <2>2 DEF Usable, Open
  <2>4. chatPc'[h] # "new"
    BY <1>3 DEF Effect, Continues, Breaks, Ends, Finish, ChatTypeOK
  <2>5. ASSUME NEW g \in Requests, NEW b \in Requests, answer[g].kind # "none",
               answer[g].by = b
        PROVE  chatPc'[b] # "new" /\ Alike(g, b)'
    BY <2>1, <2>2, <2>4, <2>5 DEF Answered, Alike
  <2>6. \A g \in Requests : answer[g].by \in Requests
    BY DEF ChatTypeOK, Result
  <2>7. CASE Continues(h) \/ Breaks(h)
    <3>1. answer' = answer /\ CachesKept
      BY <2>7 DEF Continues, Breaks
    <3>2. /\ (\A k \in 1 .. Len(exact) : Usable(exact[k].by))'
          /\ (\A k \in 1 .. Len(semantic) : Usable(semantic[k].by))'
      BY <2>3, <3>1, UsableRecords
    <3>3. (\A g \in Requests : answer[g].kind # "none"
               => chatPc[answer[g].by] # "new" /\ Alike(g, answer[g].by))'
      BY <2>5, <2>6, <3>1 DEF Alike
    <3>4. \A g \in Requests : chatPc'[g] \in Open \union {"new"} => answer'[g].kind = "none"
      BY <2>1, <2>2, <3>1 DEF Answered
    <3> QED
      BY <3>2, <3>3, <3>4 DEF Answered
  <2>8. CASE Ends(h)
    <3>1. PICK r \in Result :
             /\ Finish(h, r)
             /\ \/ r.by = h /\ r.kind # "none" /\ CachesKept
                \/ /\ r.by = h /\ r.kind \in {"answer", "stopped"}
                   /\ ~chat[h].history
                   /\ CachesGain(h)
                \/ /\ CachesKept
                   /\ \E b \in Requests : Cached(b) /\ Alike(h, b) /\ r = answer[b]
      BY <2>8 DEF Ends
    <3>2. answer'[h] = r /\ chatPc'[h] \in {"done", "failed"}
      BY <3>1 DEF Finish, ChatTypeOK
    <3>3. CachesKept \/ (CachesGain(h) /\ Usable(h)')
      BY <2>1, <3>1, <3>2 DEF Usable
    <3>4. /\ (\A k \in 1 .. Len(exact) : Usable(exact[k].by))'
          /\ (\A k \in 1 .. Len(semantic) : Usable(semantic[k].by))'
      BY <2>3, <3>3, UsableRecords
    <3>5. chatPc'[r.by] # "new" /\ Alike(h, r.by)'
      <4>1. CASE r.by = h
        <5>1. chat[h].question \in Questions
          BY DEF ChatTypeOK
        <5> QED
          BY <2>1, <2>4, <4>1, <5>1, AssistantBounds DEF Alike
      <4>2. ASSUME NEW b \in Requests, Cached(b), Alike(h, b), r = answer[b]
            PROVE  chatPc'[r.by] # "new" /\ Alike(h, r.by)'
        <5>1. Usable(b) /\ r.by = b
          BY <1>0, <4>2 DEF Usable
        <5> QED
          BY <2>1, <2>2, <2>4, <4>2, <5>1 DEF Usable, Alike
      <4> QED
        BY <3>1, <4>1, <4>2
    <3>6. r.by \in Requests
      BY DEF Result
    <3>7. (\A g \in Requests : answer[g].kind # "none"
               => chatPc[answer[g].by] # "new" /\ Alike(g, answer[g].by))'
      <4> SUFFICES ASSUME NEW g \in Requests, answer'[g].kind # "none"
                   PROVE  /\ chatPc'[answer'[g].by] # "new"
                          /\ Alike(g, answer[g].by)'
        OBVIOUS
      <4>1. CASE g = h
        BY <3>2, <3>5, <3>6, <4>1 DEF Alike
      <4>2. CASE g # h
        BY <2>2, <2>5, <2>6, <4>2 DEF Alike
      <4> QED
        BY <4>1, <4>2
    <3>8. \A g \in Requests : chatPc'[g] \in Open \union {"new"} => answer'[g].kind = "none"
      BY <2>1, <2>2, <3>2 DEF Answered, Open
    <3> QED
      BY <3>4, <3>7, <3>8 DEF Answered
  <2> QED
    BY <1>3, <2>7, <2>8 DEF Effect
<1> QED
  BY <1>1, <1>2, <1>3

-----------------------------------------------------------------------------
(* The theorems *)

LEMMA AssistantTypes ==
    AssistantTypeOK <=> EngineTypeOK /\ ConvTypeOK /\ CacheTypeOK /\ ChatTypeOK
BY DEF AssistantTypeOK, EngineTypeOK, ConvTypeOK, CacheTypeOK, ChatTypeOK, Result

LEMMA AssistantInitInv ==
    ASSUME AssistantInit
    PROVE  AssistantInv
<1>1. Boot \in Loads /\ \A l \in Reloads : l # Boot
  BY AssistantBounds DEF Loads
<1>2. EngineTypeOK
  <2>1. Resolve("auto") \in Weights \union Targets /\ Finetuned("auto") \in BOOLEAN
    BY ResolveType DEF AssistantInit
  <2> QED
    BY <1>1, <2>1 DEF AssistantInit, EngineTypeOK, Weights
<1>3. ConvTypeOK /\ CacheTypeOK
  BY DEF AssistantInit, ConvTypeOK, CacheTypeOK
<1>4. ChatTypeOK
  <2>1. (CHOOSE q \in Questions : TRUE) \in Questions
    BY AssistantBounds
  <2>2. (CHOOSE a \in AlertIds : TRUE) \in AlertIds
    BY AssistantBounds
  <2>3. \A h \in Requests : [kind |-> "none", by |-> h] \in Result
    BY DEF Result
  <2> QED
    BY <2>1, <2>2, <2>3, AssistantBounds DEF AssistantInit, ChatTypeOK
<1>5. LockHeld
  <2>1. \A l : Contains(load_lock, l) <=> l = Boot
    BY DEF AssistantInit, Contains
  <2>2. IsInjective(load_lock) /\ load_lock[1] = Boot
    BY DEF AssistantInit, IsInjective
  <2> QED
    BY <1>1, <2>1, <2>2 DEF AssistantInit, LockHeld, Busy
<1>6. FoundFree
  <2>1. /\ lastLoad = Boot /\ loadPc[Boot] = "loading" /\ target[Boot] = "auto"
        /\ resolved[Boot] = [path |-> Resolve("auto"), ft |-> Finetuned("auto")]
        /\ model = None /\ is_finetuned = Finetuned("auto")
        /\ \A m \in Loads \ {Boot} : loadPc[m] = "idle"
    BY <1>1 DEF AssistantInit
  <2> QED
    BY <2>1 DEF FoundFree, Undisturbed, Busy
<1>7. Pending
  BY AssistantBounds DEF AssistantInit, Pending
<1>8. Asked
  <2>1. \A h \in Chats : h \in Requests /\ chatPc[h] = "new"
    BY DEF AssistantInit, Requests
  <2> QED
    BY <2>1, AssistantBounds DEF AssistantInit, Asked, Open
<1>9. Answered
  <2>1. \A h \in Requests : answer[h].kind = "none"
    BY DEF AssistantInit
  <2>2. Len(exact) = 0 /\ Len(semantic) = 0
    BY DEF AssistantInit
  <2> QED
    BY <2>1, <2>2 DEF Answered
<1> QED
  BY <1>2, <1>3, <1>4, <1>5, <1>6, <1>7, <1>8, <1>9, AssistantTypes DEF AssistantInv

LEMMA AssistantStepInv ==
    ASSUME AssistantInv, [AssistantNext]_assistantVars
    PROVE  AssistantInv'
<1>1. /\ EngineTypeOK /\ ConvTypeOK /\ CacheTypeOK /\ ChatTypeOK
      /\ LockHeld /\ FoundFree /\ Pending /\ Asked /\ Answered
  BY AssistantTypes DEF AssistantInv
<1>2. EngineTypeOK' /\ LockHeld' /\ FoundFree'
  BY <1>1, EngineType, LockHeldStep, FoundFreeStep
<1>3. \/ Aside
      \/ \E h \in Requests : Asks(h) \/ Explained(h) \/ Refuse(h) \/ Effect(h)
  BY <1>1, StepOf
<1>4. ConvTypeOK'
  <2>1. WindowsFit
    BY <1>1 DEF Asked, WindowsFit
  <2>2. CASE Aside
    BY <1>1, <2>2 DEF Aside, ConvTypeOK
  <2> QED
    BY <1>1, <1>3, <2>1, <2>2, TurnsMove
<1>5. CacheTypeOK' /\ ChatTypeOK' /\ Pending'
  BY <1>1, <1>3, CacheType, ChatType, PendingStep
<1>6. Asked' /\ Answered'
  BY <1>1, <1>3, AskedStep, AnsweredStep
<1>7. AssistantTypeOK'
  BY <1>2, <1>4, <1>5 DEF AssistantTypeOK, EngineTypeOK, ConvTypeOK, CacheTypeOK,
                          ChatTypeOK, Result
<1> QED
  BY <1>2, <1>5, <1>6, <1>7 DEF AssistantInv

LEMMA AssistantInvariant == AssistantSpec => []AssistantInv
<1>1. AssistantInit => AssistantInv
  BY AssistantInitInv
<1>2. AssistantInv /\ [AssistantNext]_assistantVars => AssistantInv'
  BY AssistantStepInv
<1> QED
  BY <1>1, <1>2, PTL DEF AssistantSpec

\* Every variable of the assistant keeps to its type, whatever is asked,
\* reloaded, deleted or evicted and in whichever order.
THEOREM AssistantTypeCorrect == AssistantSpec => []AssistantTypeOK
<1>1. AssistantInv => AssistantTypeOK
  BY DEF AssistantInv
<1> QED
  BY <1>1, AssistantInvariant, PTL

\* Loads never overlap, although reloads unload and rename without the lock and
\* may time out anywhere; and a reload that found the lock free and was not
\* followed by another leaves the model it was asked for, or the fallback, or
\* none, under its own name (SLMEngine.load, reload).
THEOREM LoadsNeverOverlap == AssistantSpec => []LoadsTakeTurns
<1>1. AssistantInv => LoadsTakeTurns
  <2> SUFFICES ASSUME AssistantInv
               PROVE  LoadsTakeTurns
    OBVIOUS
  <2>1. ASSUME NEW l \in Loads, NEW m \in Loads,
               {loadPc[l], loadPc[m]} \subseteq {"loading", "fallback"}
        PROVE  l = m /\ load_lock[1] = l
    BY <2>1 DEF AssistantInv, LockHeld
  <2>2. (loadPc[lastLoad] = "done" /\ alone[lastLoad])
            => /\ model \in {Resolve(target[lastLoad]), "tinyllama", None}
               /\ Loaded => \/ model_name = model
                            \/ target[lastLoad] \notin Known /\ model_name = "phi3"
               /\ is_finetuned => model = "merged"
    BY DEF AssistantInv, FoundFree, Undisturbed
  <2> QED
    BY <2>1, <2>2 DEF LoadsTakeTurns
<1> QED
  BY <1>1, AssistantInvariant, PTL

\* An answer follows its question in the conversation it was asked in, unless the
\* window is full, and a request that succeeded has its answer there
\* (ConversationManager.add_turn, chat_endpoint).
THEOREM AnswersFollowQuestions == AssistantSpec => []AnswersStayWithQuestions
<1>1. AssistantInv => AnswersStayWithQuestions
  <2> SUFFICES ASSUME AssistantInv, NEW c \in ConvIds, NEW h \in Chats
               PROVE  /\ \A j \in DOMAIN turns[c] :
                            turns[c][j] = [role |-> "assistant", by |-> h]
                               => \/ \E i \in 1 .. j - 1 :
                                       turns[c][i] = [role |-> "user", by |-> h]
                                  \/ Len(turns[c]) = MaxTurns
                      /\ chat[h].conv = c /\ chatPc[h] = "done" /\ Contains(conversations, c)
                            => \/ Contains(turns[c], [role |-> "assistant", by |-> h])
                               \/ Len(turns[c]) = MaxTurns
    BY DEF AnswersStayWithQuestions
  <2>1. turns[c] \in Seq(Turn) /\ Len(turns[c]) \in Nat /\ MaxTurns \in Nat
    BY AssistantBounds, LenProperties DEF AssistantInv, AssistantTypeOK
  <2>2. DOMAIN turns[c] = 1 .. Len(turns[c])
    BY <2>1, LenProperties
  <2>3. Len(turns[c]) = MaxTurns \/ Len(turns[c]) < MaxTurns
    BY <2>1 DEF AssistantInv, Asked
  <2> QED
    BY <2>2, <2>3 DEF AssistantInv, Asked
<1> QED
  BY <1>1, AssistantInvariant, PTL

\* What a cache tells a request is the outcome of a loop that ended, was never
\* said in answer to somebody's conversation, and was given to a question like
\* this one about the same alert (SLMCache.get, SLMCache.set, investigate).
THEOREM CachesTellTheTruth == AssistantSpec => []CachedAnswersFit
<1>1. AssistantInv => CachedAnswersFit
  <2> SUFFICES ASSUME AssistantInv
               PROVE  CachedAnswersFit
    OBVIOUS
  <2>1. exact \in Seq(Entry) /\ semantic \in Seq([by : Requests])
    BY DEF AssistantInv, AssistantTypeOK
  <2>2. DOMAIN exact = 1 .. Len(exact) /\ DOMAIN semantic = 1 .. Len(semantic)
    BY <2>1, LenProperties
  <2>3. \A e \in ToSet(exact) \union ToSet(semantic) : Usable(e.by)
    BY <2>2 DEF ToSet, AssistantInv, Answered
  <2> QED
    BY <2>3 DEF CachedAnswersFit, Usable, AssistantInv, Answered, Alike
<1> QED
  BY <1>1, AssistantInvariant, PTL

\* A conversation that was deleted, evicted or has expired does not come back
\* with the answer that was awaited when it went.
THEOREM GoneConversationsStayGone == AssistantSpec => GoneStaysGone
<1>1. AssistantInv /\ [AssistantNext]_assistantVars
          => [\A c \in ConvIds : c \in Used /\ ~Contains(conversations, c)
                                   => ~Contains(conversations', c)]_assistantVars
  <2> SUFFICES ASSUME AssistantInv, [AssistantNext]_assistantVars,
                      NEW c \in ConvIds, c \in Used, ~Contains(conversations, c)
               PROVE  ~Contains(conversations', c)
    OBVIOUS
  <2>1. ConvTypeOK /\ CacheTypeOK /\ ChatTypeOK /\ Pending
    BY AssistantTypes DEF AssistantInv
  <2>2. CASE Aside
    BY <2>2, WithinHolds DEF Aside
  <2>3. ASSUME NEW h \in Requests, Asks(h)
        PROVE  ~Contains(conversations', c)
    <3>1. PICK d \in ConvIds :
             \/ Contains(conversations, d) /\ conversations' = Touched(d)
             \/ d \notin Used /\ conversations' = StoreAfterCreate(d)
      BY <2>3 DEF Asks, Ask
    <3> QED
      BY <2>1, <3>1, TouchedKeeps, CreateKeeps
  <2>4. ASSUME NEW h \in Requests, Explained(h) \/ Refuse(h)
        PROVE  ~Contains(conversations', c)
    BY <2>4 DEF Explained, Explain, Refuse, convVars
  <2>5. ASSUME NEW h \in Requests, Effect(h)
        PROVE  ~Contains(conversations', c)
    <3>1. \/ conversations' = conversations
          \/ \E d \in ConvIds : Contains(conversations, d) /\ conversations' = Touched(d)
      BY <2>1, <2>5 DEF Effect, Continues, Breaks, Ends, Finish, convVars, ChatTypeOK
    <3> QED
      BY <2>1, <3>1, TouchedKeeps
  <2> QED
    BY <2>1, <2>2, <2>3, <2>4, <2>5, StepOf
<1> QED
  BY <1>1, AssistantInvariant, PTL DEF AssistantSpec, GoneStaysGone

=============================================================================
