-------------------------- MODULE QueryServiceProofs --------------------------
(***************************************************************************)
(* Theorems about the query path, for every set of questions and documents *)
(* and every size of the cache, the search and the packet.                 *)
(*                                                                         *)
(* First the cache and the disclosure of degraded searches: Disclosure     *)
(* says that every entry has its mode, through hits and evictions.  Then   *)
(* what the search, the fusion and the packet compute.  Ordered numbers    *)
(* the members of a set by how many come before each: InOrder and what     *)
(* follows say that this lists every member once, in order.  Scores are    *)
(* fractions, compared by cross multiplication.  The folds of the packet   *)
(* are read from the first document on (FoldRuns), and what they keep is   *)
(* shown by a least position at which it failed (NatInductionUpTo).        *)
(* Serving ties the cache, the hits and the reply to these results.        *)
(***************************************************************************)
EXTENDS QueryService, SequenceTheorems, FiniteSetTheorems, WellFoundedInduction, TLAPS

(* A cached result moved to the end: the others keep their order.          *)
LEMMA MovingToTheEnd ==
  ASSUME NEW S, NEW c \in Seq(S), NEW i \in DOMAIN c
  PROVE  LET d == Append(RemoveAt(c, i), c[i])
         IN  /\ d \in Seq(S) /\ Len(d) = Len(c)
             /\ \A j \in 1..Len(c) :
                  d[j] = IF j < i THEN c[j] ELSE IF j < Len(c) THEN c[j + 1] ELSE c[i]
<1> DEFINE a == SubSeq(c, 1, i - 1)
           b == SubSeq(c, i + 1, Len(c))
           r == a \o b
<1>1. /\ Len(c) \in Nat /\ DOMAIN c = 1..Len(c) /\ i \in 1..Len(c)
      /\ \A j \in 1..Len(c) : c[j] \in S
  BY LenProperties, ElementOfSeq
<1>2. /\ a \in Seq(S) /\ Len(a) = i - 1
      /\ \A j \in 1..(i - 1) : a[j] = c[j]
  <2>1. \A j \in 1..(i - 1) : c[j] \in S BY <1>1
  <2>2. 1 \in Int /\ i - 1 \in Int BY <1>1
  <2> HIDE DEF a
  <2>3. /\ a \in Seq(S) /\ Len(a) = IF 1 <= i - 1 THEN (i - 1) - 1 + 1 ELSE 0
        /\ \A j \in 1..((i - 1) - 1 + 1) : a[j] = c[1 + j - 1]
    BY <2>1, <2>2, SubSeqProperties DEF a
  <2>4. (i - 1) - 1 + 1 = i - 1 /\ \A j \in 1..(i - 1) : 1 + j - 1 = j BY <1>1
  <2> QED BY <1>1, <2>3, <2>4
<1>3. /\ b \in Seq(S) /\ Len(b) = Len(c) - i
      /\ \A j \in 1..(Len(c) - i) : b[j] = c[i + j]
  <2>1. \A j \in (i + 1)..Len(c) : c[j] \in S BY <1>1
  <2>2. i + 1 \in Int /\ Len(c) \in Int BY <1>1
  <2> HIDE DEF b
  <2>3. /\ b \in Seq(S)
        /\ Len(b) = IF i + 1 <= Len(c) THEN Len(c) - (i + 1) + 1 ELSE 0
        /\ \A j \in 1..(Len(c) - (i + 1) + 1) : b[j] = c[(i + 1) + j - 1]
    BY <2>1, <2>2, SubSeqProperties DEF b
  <2>4. /\ Len(c) - (i + 1) + 1 = Len(c) - i
        /\ \A j \in 1..(Len(c) - i) : (i + 1) + j - 1 = i + j
    BY <1>1
  <2> QED BY <1>1, <2>3, <2>4
<1>4. /\ r \in Seq(S) /\ Len(r) = Len(c) - 1
      /\ \A j \in 1..(Len(c) - 1) : r[j] = IF j < i THEN c[j] ELSE c[j + 1]
  <2> HIDE DEF a, b
  <2>1. /\ r \in Seq(S) /\ Len(r) = Len(a) + Len(b)
        /\ \A j \in 1..(Len(a) + Len(b)) : r[j] = IF j <= Len(a) THEN a[j] ELSE b[j - Len(a)]
    BY <1>2, <1>3, ConcatProperties
  <2>2. Len(a) + Len(b) = Len(c) - 1 BY <1>1, <1>2, <1>3
  <2>3. ASSUME NEW j \in 1..(Len(c) - 1), j < i PROVE r[j] = c[j]
    BY <1>1, <1>2, <2>1, <2>2, <2>3
  <2>4. ASSUME NEW j \in 1..(Len(c) - 1), ~(j < i) PROVE r[j] = c[j + 1]
    <3>1. r[j] = b[j - (i - 1)] BY <1>1, <1>2, <2>1, <2>2, <2>4
    <3>2. j - (i - 1) \in 1..(Len(c) - i) /\ i + (j - (i - 1)) = j + 1 BY <1>1, <2>4
    <3> QED BY <1>3, <3>1, <3>2
  <2> QED BY <2>1, <2>2, <2>3, <2>4
<1>5. RemoveAt(c, i) = r BY DEF RemoveAt
<1> HIDE DEF r
<1> DEFINE d == Append(r, c[i])
<1>6. /\ d \in Seq(S) /\ Len(d) = Len(r) + 1
      /\ \A j \in 1..Len(r) : d[j] = r[j]
      /\ d[Len(r) + 1] = c[i]
  <2>1. c[i] \in S /\ r \in Seq(S) BY <1>1, <1>4
  <2> QED BY <2>1, AppendProperties
<1> HIDE DEF d
<1>7. \A j \in 1..Len(c) :
        d[j] = IF j < i THEN c[j] ELSE IF j < Len(c) THEN c[j + 1] ELSE c[i]
  BY <1>1, <1>4, <1>6
<1>8. Len(d) = Len(c) BY <1>1, <1>4, <1>6
<1> QED BY <1>5, <1>6, <1>7, <1>8 DEF d

-----------------------------------------------------------------------------
(* What the cache, the results found and the reply say of the vectors.     *)
EntriesKnowTheirMode ==
  /\ Len(cache) <= CacheSize
  /\ \A i, j \in DOMAIN cache : cache[i].key = cache[j].key => i = j
  /\ \A i \in DOMAIN cache :
       /\ telemetry[cache[i].key] # "none"
       /\ telemetry[cache[i].key] \in Degraded <=> ~cache[i].dense
  /\ \A q \in Query : telemetry[q] # "none" => \E i \in DOMAIN cache : cache[i].key = q

FoundKnowsItsMode == pc = "found" => (RetrievalMode \in Degraded <=> ~dense)

Disclosure == EntriesKnowTheirMode /\ FoundKnowsItsMode /\ DegradedAnswerDisclosed

USE DEF Degraded, Modes

(* Storing a result keeps the cache and the modes in step.                 *)
LEMMA StoringKeepsModes ==
  ASSUME TypeOK, EntriesKnowTheirMode, NEW q \in Query, Cached(q) = {}, NEW found,
         NEW m \in {"hybrid", "bm25_only", "bm25_fallback"},
         StoreResult(q, found, m)
  PROVE  /\ EntriesKnowTheirMode'
         /\ cache' \in Seq(ToSet(cache'))
         /\ \A i \in DOMAIN cache' : cache'[i].key \in Query /\ cache'[i].dense \in BOOLEAN
         /\ telemetry' \in [Query -> Modes]
<1>1. CASE CacheSize = 0
  BY <1>1 DEF StoreResult, TypeOK, EntriesKnowTheirMode, ToSet
<1>2. CASE CacheSize # 0
  <2> DEFINE e == [key |-> q, hits |-> found, dense |-> (m = "hybrid")]
             S == ToSet(cache) \cup {e}
             gone == IF Len(cache) = CacheSize THEN 1 ELSE 0
  <2>1. cache \in Seq(S) BY SeqMonotonic DEF TypeOK
  <2>2. /\ Len(cache) \in Nat /\ CacheSize \in Nat /\ Len(cache) <= CacheSize
        /\ gone \in {0, 1} /\ (gone = 1 <=> Len(cache) = CacheSize)
    BY <1>2, <2>1, LenProperties, QueryConstants DEF EntriesKnowTheirMode
  <2>room. gone <= Len(cache) /\ Len(cache) + 1 - gone <= CacheSize
    <3> HIDE DEF gone
    <3> QED BY <1>2, <2>2
  <2>domain. \A k : k \in DOMAIN cache <=> k \in 1..Len(cache)
    <3>1. DOMAIN cache = 1..Len(cache) BY <2>1, LenProperties
    <3> QED BY <3>1
  <2>3. cache' = Kept(Append(cache, e)) /\ telemetry' = ModesKept(q, m)
    BY <1>2 DEF StoreResult
  <2>4. e \in S /\ e.key = q /\ e.dense = (m = "hybrid") OBVIOUS
  <2> HIDE DEF e, S, gone
  <2>5. /\ cache' \in Seq(S) /\ Len(cache') = Len(cache) + 1 - gone
        /\ \A j \in 1..(Len(cache) - gone) : cache'[j] = cache[j + gone]
        /\ cache'[Len(cache) + 1 - gone] = e
    <3> DEFINE x == Append(cache, e)
    <3>1. /\ x \in Seq(S) /\ Len(x) = Len(cache) + 1
          /\ \A j \in 1..Len(cache) : x[j] = cache[j]
          /\ x[Len(cache) + 1] = e
      BY <2>1, <2>4, AppendProperties
    <3>2. cache' = Kept(x) BY <2>3
    <3> HIDE DEF x
    <3>3. CASE gone = 1
      <4>1. cache' = Tail(x) BY <2>2, <3>1, <3>2, <3>3 DEF Kept
      <4>2. x # <<>> BY <2>2, <3>1, EmptySeq
      <4>3. /\ Tail(x) \in Seq(S) /\ Len(Tail(x)) = Len(cache)
            /\ \A j \in 1..Len(cache) : Tail(x)[j] = x[j + 1]
        BY <2>2, <3>1, <4>2, HeadTailProperties
      <4>4. \A j \in 1..(Len(cache) - 1) : Tail(x)[j] = cache[j + 1]
        BY <2>2, <3>1, <4>3
      <4>5. Tail(x)[Len(cache)] = e
        <5>1. Len(cache) \in 1..Len(cache) BY <1>2, <2>2, <3>3
        <5> QED BY <3>1, <4>3, <5>1
      <4>6. Len(cache) + 1 - gone = Len(cache) BY <2>2, <3>3
      <4> QED BY <3>3, <4>1, <4>3, <4>4, <4>5, <4>6
    <3>4. CASE gone = 0
      <4>1. cache' = x BY <2>2, <3>1, <3>2, <3>4 DEF Kept
      <4>2. Len(cache) - gone = Len(cache) /\ \A j \in 1..Len(cache) : j + gone = j
        BY <2>2, <3>4
      <4>3. Len(cache) + 1 - gone = Len(cache) + 1 BY <2>2, <3>4
      <4> QED BY <3>1, <4>1, <4>2, <4>3
    <3> QED BY <2>2, <3>3, <3>4
  <2>6. DOMAIN cache' = 1..(Len(cache) + 1 - gone) BY <2>5, LenProperties
  <2>7. \A j \in DOMAIN cache : cache[j].key \in Query /\ cache[j].key # q
    BY DEF Cached, TypeOK
  <2>8. ASSUME NEW j \in DOMAIN cache'
        PROVE  \/ j = Len(cache) + 1 - gone /\ cache'[j] = e
               \/ /\ j \in 1..(Len(cache) - gone) /\ j + gone \in DOMAIN cache
                  /\ cache'[j] = cache[j + gone]
    <3>1. j \in 1..(Len(cache) + 1 - gone) BY <2>6
    <3>2. CASE j = Len(cache) + 1 - gone BY <2>5, <3>2
    <3>3. CASE j # Len(cache) + 1 - gone
      <4>1. j \in 1..(Len(cache) - gone) /\ j + gone \in 1..Len(cache) BY <2>2, <3>1, <3>3
      <4> QED BY <2>5, <2>domain, <4>1
    <3> QED BY <3>2, <3>3
  <2>9. /\ telemetry' \in [Query -> Modes] /\ telemetry'[q] = m
        /\ \A p \in Query \ {q} :
             telemetry'[p] = IF gone = 1 /\ p = cache[1].key THEN "none" ELSE telemetry[p]
    <3>1. gone = 1 <=> Len(cache) >= CacheSize /\ cache # <<>>
      <4>1. Len(<<>>) = 0 OBVIOUS
      <4>2. Len(cache) # 0 => cache # <<>> BY <4>1
      <4> QED BY <1>2, <2>2, <4>2
    <3> QED BY <2>3, <3>1 DEF ModesKept, TypeOK
  <2>10. cache' \in Seq(ToSet(cache'))
    BY <2>5, SeqOfRange DEF ToSet, Range
  <2>11. \A i \in DOMAIN cache' : cache'[i].key \in Query /\ cache'[i].dense \in BOOLEAN
    BY <2>4, <2>8 DEF TypeOK
  <2>12. Len(cache') <= CacheSize BY <2>5, <2>room
  <2>13. ASSUME NEW i \in DOMAIN cache', NEW j \in DOMAIN cache', cache'[i].key = cache'[j].key
         PROVE  i = j
    <3>1. CASE cache'[i] = e /\ i = Len(cache) + 1 - gone BY <2>4, <2>7, <2>8, <2>13, <3>1
    <3>2. CASE /\ i + gone \in DOMAIN cache /\ cache'[i] = cache[i + gone]
               /\ i \in 1..(Len(cache) - gone)
      <4>1. /\ j + gone \in DOMAIN cache /\ cache'[j] = cache[j + gone]
            /\ j \in 1..(Len(cache) - gone)
        BY <2>4, <2>7, <2>8, <2>13, <3>2
      <4>2. i + gone = j + gone BY <2>13, <3>2, <4>1 DEF EntriesKnowTheirMode
      <4> QED BY <2>2, <3>2, <4>1, <4>2
    <3> QED BY <2>8, <3>1, <3>2
  <2>14. ASSUME NEW i \in DOMAIN cache'
         PROVE  /\ telemetry'[cache'[i].key] # "none"
                /\ telemetry'[cache'[i].key] \in Degraded <=> ~cache'[i].dense
    <3>1. CASE cache'[i] = e BY <2>4, <2>9, <3>1
    <3>2. CASE /\ i + gone \in DOMAIN cache /\ cache'[i] = cache[i + gone]
               /\ i \in 1..(Len(cache) - gone)
      <4>1. cache'[i].key \in Query \ {q} BY <2>7, <3>2
      <4>2. ~(gone = 1 /\ cache'[i].key = cache[1].key)
        <5>1. 1 \in DOMAIN cache BY <2>2, <3>2
        <5>2. gone = 1 => i + gone # 1 BY <3>2
        <5> QED BY <3>2, <5>1, <5>2 DEF EntriesKnowTheirMode
      <4>3. telemetry'[cache'[i].key] = telemetry[cache[i + gone].key]
        BY <2>9, <3>2, <4>1, <4>2
      <4> QED BY <3>2, <4>3 DEF EntriesKnowTheirMode
    <3> QED BY <2>8, <3>1, <3>2
  <2>15. ASSUME NEW p \in Query, telemetry'[p] # "none"
         PROVE  \E i \in DOMAIN cache' : cache'[i].key = p
    <3>1. CASE p = q
      <4>1. Len(cache) + 1 - gone \in DOMAIN cache'
        <5>1. Len(cache) + 1 - gone \in 1..(Len(cache) + 1 - gone) BY <2>2, <2>room
        <5> QED BY <2>6, <5>1
      <4> QED BY <2>4, <2>5, <3>1, <4>1
    <3>2. CASE p # q
      <4>1. telemetry[p] # "none" /\ ~(gone = 1 /\ p = cache[1].key)
        BY <2>9, <2>15, <3>2
      <4>2. PICK k \in DOMAIN cache : cache[k].key = p
        BY <4>1 DEF EntriesKnowTheirMode
      <4>3. k - gone \in 1..(Len(cache) - gone) /\ (k - gone) + gone = k
        BY <2>2, <4>1, <4>2
      <4>4. cache'[k - gone] = cache[k] /\ k - gone \in DOMAIN cache'
        BY <2>2, <2>5, <2>6, <4>3
      <4> QED BY <4>2, <4>4
    <3> QED BY <3>1, <3>2
  <2> QED BY <2>9, <2>10, <2>11, <2>12, <2>13, <2>14, <2>15 DEF EntriesKnowTheirMode
<1> QED BY <1>1, <1>2

(* A hit that moves its entry to the end loses and duplicates nothing.     *)
LEMMA HitsKeepModes ==
  ASSUME TypeOK, EntriesKnowTheirMode, NEW i \in DOMAIN cache,
         cache' = Append(RemoveAt(cache, i), cache[i]), telemetry' = telemetry
  PROVE  /\ EntriesKnowTheirMode'
         /\ cache' \in Seq(ToSet(cache'))
         /\ \A j \in DOMAIN cache' : cache'[j].key \in Query /\ cache'[j].dense \in BOOLEAN
<1> DEFINE S == ToSet(cache)
           n == Len(cache)
           from(j) == IF j < i THEN j ELSE IF j < n THEN j + 1 ELSE i
<1>1. cache \in Seq(S) BY DEF TypeOK
<1> HIDE DEF S
<1>2. n \in Nat /\ DOMAIN cache = 1..n /\ i \in 1..n BY <1>1, LenProperties
<1>3. /\ cache' \in Seq(S) /\ Len(cache') = n
      /\ \A j \in 1..n :
           cache'[j] = IF j < i THEN cache[j] ELSE IF j < n THEN cache[j + 1] ELSE cache[i]
  BY <1>1, MovingToTheEnd
<1>4. DOMAIN cache' = 1..n BY <1>3, LenProperties
<1>5. cache' \in Seq(ToSet(cache')) BY <1>3, SeqOfRange DEF ToSet, Range
<1> HIDE DEF n
<1>6. \A j \in 1..n : from(j) \in 1..n /\ cache'[j] = cache[from(j)]
  BY <1>2, <1>3
<1>7. \A j, k \in 1..n : from(j) = from(k) => j = k
  <2> SUFFICES ASSUME NEW j \in 1..n, NEW k \in 1..n, from(j) = from(k) PROVE j = k
    OBVIOUS
  <2>1. CASE j < i BY <1>2, <2>1
  <2>2. CASE ~(j < i) /\ j < n
    <3>1. CASE k < i BY <1>2, <2>2, <3>1
    <3>2. CASE ~(k < i) /\ k < n BY <1>2, <2>2, <3>2
    <3>3. CASE ~(k < i) /\ ~(k < n) BY <1>2, <2>2, <3>3
    <3> QED BY <3>1, <3>2, <3>3
  <2>3. CASE ~(j < i) /\ ~(j < n) BY <1>2, <2>3
  <2> QED BY <2>1, <2>2, <2>3
<1>8. \A k \in 1..n : \E j \in 1..n : from(j) = k
  <2> SUFFICES ASSUME NEW k \in 1..n PROVE \E j \in 1..n : from(j) = k
    OBVIOUS
  <2>1. CASE k < i BY <1>2, <2>1
  <2>2. CASE k = i
    <3>1. n \in 1..n /\ from(n) = k BY <1>2, <2>2
    <3> QED BY <3>1
  <2>3. CASE k > i
    <3>1. k - 1 \in 1..n /\ from(k - 1) = k BY <1>2, <2>3
    <3> QED BY <3>1
  <2> QED BY <1>2, <2>1, <2>2, <2>3
<1> HIDE DEF from
<1>9. Len(cache') <= CacheSize BY <1>3 DEF EntriesKnowTheirMode, n
<1>10. \A j, k \in DOMAIN cache' : cache'[j].key = cache'[k].key => j = k
  <2> SUFFICES ASSUME NEW j \in 1..n, NEW k \in 1..n, cache'[j].key = cache'[k].key
               PROVE  j = k
    BY <1>4
  <2>1. cache[from(j)].key = cache[from(k)].key BY <1>6
  <2>2. from(j) \in DOMAIN cache /\ from(k) \in DOMAIN cache BY <1>2, <1>6
  <2>3. from(j) = from(k) BY <2>1, <2>2 DEF EntriesKnowTheirMode
  <2> QED BY <1>7, <2>3
<1>11. \A j \in DOMAIN cache' :
         /\ telemetry[cache'[j].key] # "none"
         /\ telemetry[cache'[j].key] \in Degraded <=> ~cache'[j].dense
  <2> SUFFICES ASSUME NEW j \in 1..n
               PROVE  /\ telemetry[cache'[j].key] # "none"
                      /\ telemetry[cache'[j].key] \in Degraded <=> ~cache'[j].dense
    BY <1>4
  <2>1. from(j) \in DOMAIN cache /\ cache'[j] = cache[from(j)] BY <1>2, <1>6
  <2> QED BY <2>1 DEF EntriesKnowTheirMode
<1>12. \A q \in Query : telemetry[q] # "none" => \E j \in DOMAIN cache' : cache'[j].key = q
  <2> SUFFICES ASSUME NEW q \in Query, telemetry[q] # "none"
               PROVE  \E j \in 1..n : cache'[j].key = q
    BY <1>4
  <2>1. PICK k \in 1..n : cache[k].key = q BY <1>2 DEF EntriesKnowTheirMode
  <2>2. PICK j \in 1..n : from(j) = k BY <1>8
  <2> QED BY <1>6, <2>1, <2>2
<1>13. \A j \in DOMAIN cache' : cache'[j].key \in Query /\ cache'[j].dense \in BOOLEAN
  <2> SUFFICES ASSUME NEW j \in 1..n
               PROVE  cache'[j].key \in Query /\ cache'[j].dense \in BOOLEAN
    BY <1>4
  <2>1. from(j) \in DOMAIN cache /\ cache'[j] = cache[from(j)] BY <1>2, <1>6
  <2> QED BY <2>1 DEF TypeOK
<1> QED BY <1>5, <1>9, <1>10, <1>11, <1>12, <1>13 DEF EntriesKnowTheirMode

-----------------------------------------------------------------------------
(* A search that is not answered from the cache keeps types and modes.     *)
LEMMA SearchingKeepsModes ==
  ASSUME TypeOK, Disclosure, NEW q \in Query, Cached(q) = {}, NEW found,
         NEW m \in {"hybrid", "bm25_only", "bm25_fallback"},
         Found(q, found, m, "none", m = "hybrid"), StoreResult(q, found, m),
         cooling' \in BOOLEAN
  PROVE  TypeOK' /\ Disclosure'
<1>1. /\ EntriesKnowTheirMode'
      /\ cache' \in Seq(ToSet(cache'))
      /\ \A i \in DOMAIN cache' : cache'[i].key \in Query /\ cache'[i].dense \in BOOLEAN
      /\ telemetry' \in [Query -> Modes]
  BY StoringKeepsModes DEF Disclosure
<1>2. FoundKnowsItsMode' BY DEF Found, FoundKnowsItsMode, RetrievalMode
<1>3. DegradedAnswerDisclosed' BY DEF Found, DegradedAnswerDisclosed, NoReply
<1>4. TypeOK' BY <1>1 DEF TypeOK, Found, store
<1> QED BY <1>1, <1>2, <1>3, <1>4 DEF Disclosure

(* Replies are disclosed, whatever the model answers.                      *)
LEMMA AnsweringDiscloses ==
  ASSUME TypeOK, Disclosure, Answer
  PROVE  TypeOK' /\ Disclosure'
<1>1. pc = "found" /\ pc' = "idle" /\ UNCHANGED <<store, search>>
  BY DEF Answer, AnswerWithoutEvidence, AnswerFromEvidence, AnswerFails
<1>2. DegradedAnswerDisclosed'
  <2> DEFINE Told == \/ reply' = [NoReply EXCEPT !.status = "failed"]
                     \/ reply'.degraded = (RetrievalMode \in Degraded)
  <2>1. CASE AnswerWithoutEvidence
    <3>1. Told BY <2>1 DEF AnswerWithoutEvidence, Reply
    <3> QED BY <1>1, <3>1 DEF DegradedAnswerDisclosed, Disclosure, FoundKnowsItsMode,
                              search, NoReply
  <2>2. ASSUME NEW cited \in SUBSET Doc, NEW abstained \in BOOLEAN,
               AnswerFromEvidence(cited, abstained)
        PROVE  DegradedAnswerDisclosed'
    <3>1. Told BY <2>2 DEF AnswerFromEvidence, Reply
    <3> QED BY <1>1, <3>1 DEF DegradedAnswerDisclosed, Disclosure, FoundKnowsItsMode,
                              search, NoReply
  <2>3. CASE AnswerFails
    BY <2>3 DEF AnswerFails, DegradedAnswerDisclosed, NoReply
  <2> QED BY <2>1, <2>2, <2>3 DEF Answer
<1>3. EntriesKnowTheirMode' BY <1>1 DEF Disclosure, EntriesKnowTheirMode, search
<1>4. FoundKnowsItsMode' BY <1>1 DEF FoundKnowsItsMode
<1>5. TypeOK' BY <1>1 DEF TypeOK, search, store
<1> QED BY <1>2, <1>3, <1>4, <1>5 DEF Disclosure

(* Every step keeps the types and what is known of the modes.              *)
LEMMA StepsKeepModes ==
  ASSUME TypeOK, Disclosure, [Next]_vars
  PROVE  TypeOK' /\ Disclosure'
<1>1. CASE UNCHANGED vars
  BY <1>1 DEF vars, store, search, TypeOK, Disclosure, EntriesKnowTheirMode,
              FoundKnowsItsMode, RetrievalMode, DegradedAnswerDisclosed
<1>2. ASSUME NEW q \in Query, SearchCached(q) PROVE TypeOK' /\ Disclosure'
  <2>1. PICK i \in Cached(q) :
          /\ cache' = Append(RemoveAt(cache, i), cache[i])
          /\ Found(q, cache[i].hits, "cache", telemetry[q], cache[i].dense)
    BY <1>2 DEF SearchCached
  <2>2. i \in DOMAIN cache /\ cache[i].key = q /\ UNCHANGED <<cooling, telemetry>>
    BY <1>2 DEF SearchCached, Cached
  <2>3. /\ EntriesKnowTheirMode'
        /\ cache' \in Seq(ToSet(cache'))
        /\ \A j \in DOMAIN cache' : cache'[j].key \in Query /\ cache'[j].dense \in BOOLEAN
    BY <2>1, <2>2, HitsKeepModes DEF Disclosure
  <2>4. telemetry[q] \in Degraded <=> ~cache[i].dense
    BY <2>2 DEF Disclosure, EntriesKnowTheirMode
  <2>5. FoundKnowsItsMode' BY <2>1, <2>4 DEF Found, FoundKnowsItsMode, RetrievalMode
  <2>6. DegradedAnswerDisclosed' BY <2>1 DEF Found, DegradedAnswerDisclosed, NoReply
  <2>7. TypeOK' BY <2>1, <2>2, <2>3 DEF TypeOK, Found, store
  <2> QED BY <2>3, <2>5, <2>6, <2>7 DEF Disclosure
<1>3. ASSUME NEW q \in Query, SearchSkipsVectors(q) PROVE TypeOK' /\ Disclosure'
  <2> DEFINE found == Merged(<<>>, LexicalHits(q))
  <2> HIDE DEF found
  <2>1. /\ Found(q, found, "bm25_only", "none", FALSE)
        /\ StoreResult(q, found, "bm25_only") /\ Cached(q) = {} /\ cooling' \in BOOLEAN
    BY <1>3 DEF SearchSkipsVectors, TypeOK, found
  <2>2. Found(q, found, "bm25_only", "none", "bm25_only" = "hybrid")
    BY <2>1 DEF Found
  <2> QED BY <2>1, <2>2, SearchingKeepsModes
<1>4. ASSUME NEW q \in Query, SearchHybrid(q) PROVE TypeOK' /\ Disclosure'
  <2> DEFINE found == Merged(DenseHits(q), LexicalHits(q))
  <2> HIDE DEF found
  <2>1. /\ Found(q, found, "hybrid", "none", TRUE)
        /\ StoreResult(q, found, "hybrid") /\ Cached(q) = {} /\ cooling' \in BOOLEAN
    BY <1>4 DEF SearchHybrid, TriesVectors, TypeOK, found
  <2>2. Found(q, found, "hybrid", "none", "hybrid" = "hybrid")
    BY <2>1 DEF Found
  <2> QED BY <2>1, <2>2, SearchingKeepsModes
<1>5. ASSUME NEW q \in Query, NEW error \in {"capacity", "read"}, SearchFallsBack(q, error)
      PROVE  TypeOK' /\ Disclosure'
  <2> DEFINE found == Merged(<<>>, LexicalHits(q))
  <2> HIDE DEF found
  <2>1. /\ Found(q, found, "bm25_fallback", "none", FALSE)
        /\ StoreResult(q, found, "bm25_fallback") /\ Cached(q) = {}
    BY <1>5 DEF SearchFallsBack, TriesVectors, found
  <2>2. cooling' \in BOOLEAN BY <1>5 DEF SearchFallsBack
  <2>3. Found(q, found, "bm25_fallback", "none", "bm25_fallback" = "hybrid")
    BY <2>1 DEF Found
  <2> QED BY <2>1, <2>2, <2>3, SearchingKeepsModes
<1>6. ASSUME NEW q \in Query, SearchFails(q) PROVE TypeOK' /\ Disclosure'
  <2>1. pc = "idle" /\ TypeOK' BY <1>6 DEF SearchFails, TriesVectors, TypeOK, store
  <2>2. EntriesKnowTheirMode' BY <1>6 DEF SearchFails, Disclosure, EntriesKnowTheirMode
  <2>3. FoundKnowsItsMode' BY <1>6, <2>1 DEF SearchFails, FoundKnowsItsMode
  <2>4. DegradedAnswerDisclosed' BY <1>6 DEF SearchFails, DegradedAnswerDisclosed, NoReply
  <2> QED BY <2>1, <2>2, <2>3, <2>4 DEF Disclosure
<1>7. CASE Answer BY <1>7, AnsweringDiscloses
<1>8. CASE CooldownPasses
  BY <1>8 DEF CooldownPasses, store, TypeOK, Disclosure, EntriesKnowTheirMode,
              FoundKnowsItsMode, RetrievalMode, DegradedAnswerDisclosed
<1>9. ASSUME NEW added \in SUBSET Doc, Commit(added) PROVE TypeOK' /\ Disclosure'
  <2>1. /\ cache' = <<>> /\ telemetry' = [q \in Query |-> "none"]
        /\ Len(cache') = 0 /\ DOMAIN cache' = {} /\ cache' \in Seq(ToSet(cache'))
    BY <1>9 DEF Commit
  <2>2. TypeOK' BY <1>9, <2>1 DEF Commit, TypeOK
  <2>3. EntriesKnowTheirMode' BY <2>1, QueryConstants DEF EntriesKnowTheirMode
  <2>4. FoundKnowsItsMode' /\ DegradedAnswerDisclosed'
    BY <1>9 DEF Commit, Disclosure, FoundKnowsItsMode, DegradedAnswerDisclosed
  <2> QED BY <2>2, <2>3, <2>4 DEF Disclosure
<1> QED BY <1>1, <1>2, <1>3, <1>4, <1>5, <1>6, <1>7, <1>8, <1>9 DEF Next, Serve

LEMMA StartsDisclosed == Init => TypeOK /\ Disclosure
<1> SUFFICES ASSUME Init PROVE TypeOK /\ Disclosure
  OBVIOUS
<1>1. /\ cache = <<>> /\ Len(cache) = 0 /\ DOMAIN cache = {} /\ cache \in Seq(ToSet(cache))
  BY DEF Init
<1>2. query \in Query BY QueryConstants DEF Init
<1>3. TypeOK BY <1>1, <1>2, QueryConstants DEF Init, TypeOK
<1>4. Disclosure
  BY <1>1, QueryConstants DEF Init, Disclosure, EntriesKnowTheirMode, FoundKnowsItsMode,
                              DegradedAnswerDisclosed, NoReply
<1> QED BY <1>3, <1>4

LEMMA DisclosureIsInvariant == Spec => [](TypeOK /\ Disclosure)
<1>1. TypeOK /\ Disclosure /\ [Next]_vars => (TypeOK /\ Disclosure)' BY StepsKeepModes
<1> QED BY StartsDisclosed, <1>1, PTL DEF Spec

(* The variables of the query path keep their types.                       *)
THEOREM QueryTypesHold == Spec => []TypeOK
<1> QED BY DisclosureIsInvariant, PTL

(* Whatever is searched, evicted, found again and committed in between, a  *)
(* reply says that its search was degraded exactly when no vector search   *)
(* took part in it.                                                        *)
THEOREM DegradedAnswersAreDisclosed == Spec => []DegradedAnswerDisclosed
<1>1. Disclosure => DegradedAnswerDisclosed BY DEF Disclosure
<1> QED BY DisclosureIsInvariant, <1>1, PTL

(* The mode dictionary follows the cache through hits and evictions.       *)
THEOREM TelemetryStaysWithCache == Spec => []TelemetryFollowsCache
<1>1. TypeOK /\ Disclosure => TelemetryFollowsCache
  BY DEF Disclosure, EntriesKnowTheirMode, TelemetryFollowsCache, TypeOK
<1> QED BY DisclosureIsInvariant, <1>1, PTL

-----------------------------------------------------------------------------
(* Folds and orders.                                                       *)

(* Among subsets of a finite set some are smallest. *)
LEMMA MinimalSubset ==
  ASSUME NEW S, IsFiniteSet(S), NEW F \in SUBSET (SUBSET S), F # {}
  PROVE  \E A \in F : \A B \in F : B \subseteq A => B = A
<1> DEFINE R == StrictSubsetOrdering(S)
<1>1. IsWellFoundedOn(R, FiniteSubsetsOf(S))
  BY FS_StrictSubsetOrderingWellFounded
<1>2. F \subseteq FiniteSubsetsOf(S)
  BY FS_FiniteSubsetsOfFinite
<1>3. \E x \in F : \A y \in F : ~(<<y, x>> \in R)
  <2> HIDE DEF R
  <2> QED BY <1>1, <1>2, WFMin
<1>4. PICK A \in F : \A y \in F : ~(<<y, A>> \in R)
  BY <1>3
<1>5. ASSUME NEW B \in F, B \subseteq A PROVE B = A
  BY <1>4, <1>5 DEF StrictSubsetOrdering
<1> QED BY <1>4, <1>5

(* Of numbers one is the least. *)
LEMMA LeastNumber ==
  ASSUME NEW S \in SUBSET Nat, S # {}
  PROVE  \E m \in S : \A n \in S : m <= n
<1>1. PICK k \in S : TRUE
  OBVIOUS
<1> DEFINE D == 1..k
           F == {1..n : n \in {m \in S : m <= k}}
<1>2. IsFiniteSet(D)
  BY FS_Interval
<1>3. F \in SUBSET (SUBSET D) /\ F # {}
  OBVIOUS
<1>4. /\ \A A \in F : \E n \in S : n <= k /\ A = 1..n
      /\ \A n \in S : n <= k => 1..n \in F
  OBVIOUS
<1> HIDE DEF D, F
<1>5. PICK A \in F : \A B \in F : B \subseteq A => B = A
  BY <1>2, <1>3, MinimalSubset
<1>6. PICK n \in S : n <= k /\ A = 1..n
  BY <1>4
<1>7. ASSUME NEW m \in S, m < n PROVE FALSE
  <2>1. 1..m \in F /\ 1..m \subseteq A /\ n \in A /\ n \notin 1..m
    BY <1>4, <1>6, <1>7
  <2> QED BY <1>5, <2>1
<1> QED BY <1>7

(* Induction up to a bound. *)
Inductive(G, N) == 0 \in G /\ \A n \in 0..(N - 1) : n \in G => n + 1 \in G

LEMMA NatInductionUpTo ==
  ASSUME NEW N \in Nat, NEW G, Inductive(G, N)
  PROVE  \A n \in 0..N : n \in G
<1> USE DEF Inductive
<1> DEFINE S == {n \in 0..N : n \notin G}
<1>1. ASSUME S # {} PROVE FALSE
  <2>1. PICK m \in S : \A n \in S : m <= n
    <3>1. S \in SUBSET Nat
      OBVIOUS
    <3> HIDE DEF S
    <3> QED BY <1>1, <3>1, LeastNumber
  <2>2. m - 1 \in 0..(N - 1) /\ m - 1 \notin S
    BY <2>1
  <2> QED BY <2>1, <2>2
<1> QED BY <1>1

(* A left fold takes the positions of a sequence from the last one down:   *)
(* whatever it computes at each, there is a function that it computes.     *)
Folds(V, base, step, g, n) ==
  /\ g \in [SUBSET (1..n) -> V] /\ g[{}] = base
  /\ \A T \in SUBSET (1..n) : T # {} =>
       Max(T) \in 1..n /\ g[T] = step[<<g[T \ {Max(T)}], Max(T)>>]

LEMMA FoldExists ==
  ASSUME NEW V, NEW base \in V, NEW N \in Nat, NEW step \in [V \X (1..N) -> V]
  PROVE  \E g : Folds(V, base, step, g, N)
<1> DEFINE G == {n \in 0..N : \E g : Folds(V, base, step, g, n)}
<1>1. 0 \in G
  <2>1. 1..0 = {}
    OBVIOUS
  <2>2. Folds(V, base, step, [T \in SUBSET {} |-> base], 0)
    BY <2>1 DEF Folds
  <2> QED BY <2>2
<1>2. ASSUME NEW n \in 0..(N - 1), n \in G PROVE n + 1 \in G
  <2>1. PICK g : Folds(V, base, step, g, n)
    BY <1>2
  <2> DEFINE D == 1..(n + 1)
             k == n + 1
             g1 == [T \in SUBSET D |-> IF k \in T THEN step[<<g[T \ {k}], k>>] ELSE g[T]]
  <2>2. \A T \in SUBSET D : T \ {k} \in SUBSET (1..n) /\ (k \notin T => T \in SUBSET (1..n))
    OBVIOUS
  <2>3. g1 \in [SUBSET D -> V]
    <3>1. k \in 1..N
      BY <1>2
    <3> HIDE DEF D, k
    <3> QED BY <2>1, <2>2, <3>1 DEF Folds
  <2>4. g1[{}] = base
    BY <2>1 DEF Folds
  <2>5. ASSUME NEW T \in SUBSET D, T # {}
        PROVE  Max(T) \in D /\ g1[T] = step[<<g1[T \ {Max(T)}], Max(T)>>]
    <3>1. CASE k \in T
      <4>1. Max(T) = k
        <5>1. \A x \in T : (\A y \in T : x >= y) <=> x = k
          BY <3>1
        <5> QED BY <3>1, <5>1 DEF Max
      <4>2. T \ {k} \in SUBSET D /\ k \notin T \ {k} /\ k \in D
        OBVIOUS
      <4> HIDE DEF D, k
      <4> QED BY <3>1, <4>1, <4>2
    <3>2. CASE k \notin T
      <4>1. T \in SUBSET (1..n)
        BY <2>2, <3>2
      <4>2. Max(T) \in 1..n /\ g[T] = step[<<g[T \ {Max(T)}], Max(T)>>]
        BY <2>1, <2>5, <4>1 DEF Folds
      <4>3. T \ {Max(T)} \in SUBSET D /\ k \notin T \ {Max(T)} /\ Max(T) \in D
        <5>1. 1..n \subseteq D
          OBVIOUS
        <5> HIDE DEF D, k
        <5> QED BY <2>5, <3>2, <4>2, <5>1
      <4>4. g1[T] = g[T] /\ g1[T \ {Max(T)}] = g[T \ {Max(T)}]
        BY <3>2, <4>3
      <4> QED BY <4>2, <4>3, <4>4
    <3> QED BY <3>1, <3>2
  <2>6. Folds(V, base, step, g1, n + 1)
    <3> HIDE DEF g1
    <3> QED BY <2>3, <2>4, <2>5 DEF Folds
  <2> HIDE DEF g1
  <2> QED BY <1>2, <2>6
<1>3. N \in G
  <2>1. Inductive(G, N)
    <3> HIDE DEF G
    <3> QED BY <1>1, <1>2 DEF Inductive
  <2> HIDE DEF G
  <2> QED BY <2>1, NatInductionUpTo
<1> QED BY <1>3

(* Read from the first position up, it has a value after each of them.     *)
FoldsTyped(V, base, step, h, N) ==
  /\ h[{}] = base
  /\ \A T \in SUBSET (1..N) : T # {} /\ h[T \ {Max(T)}] \in V =>
       h[T] = step[<<h[T \ {Max(T)}], Max(T)>>]

Runs(V, base, step, acc, N, result) ==
  /\ acc \in [0..N -> V] /\ acc[0] = base /\ acc[N] = result
  /\ \A n \in 1..N : acc[n] = step[<<acc[n - 1], n>>]

LEMMA FoldRuns ==
  ASSUME NEW V, NEW base \in V, NEW N \in Nat, NEW step \in [V \X (1..N) -> V],
         NEW h, FoldsTyped(V, base, step, h, N)
  PROVE  \E acc : Runs(V, base, step, acc, N, h[1..N])
<1> USE DEF FoldsTyped, Runs
<1>1. ASSUME NEW n \in 1..N
      PROVE  /\ 1..n \in SUBSET (1..N) /\ 1..n # {} /\ Max(1..n) = n
             /\ (1..n) \ {n} = 1..(n - 1)
  <2>1. \A x \in 1..n : (\A y \in 1..n : x >= y) <=> x = n
    OBVIOUS
  <2> QED BY <2>1 DEF Max
<1>2. \A n \in 1..N : h[1..(n - 1)] \in V => h[1..n] = step[<<h[1..(n - 1)], n>>]
  BY <1>1
<1> DEFINE G == {n \in 0..N : h[1..n] \in V}
<1>3. 0 \in G
  <2>1. 1..0 = {}
    OBVIOUS
  <2> QED BY <2>1
<1>4. ASSUME NEW n \in 0..(N - 1), n \in G PROVE n + 1 \in G
  <2>1. n + 1 \in 1..N /\ (n + 1) - 1 = n /\ h[1..n] \in V
    BY <1>4
  <2>2. h[1..(n + 1)] = step[<<h[1..n], n + 1>>]
    BY <1>2, <2>1
  <2>3. h[1..(n + 1)] \in V
    BY <2>1, <2>2
  <2> QED BY <2>1, <2>3
<1>5. \A n \in 0..N : h[1..n] \in V
  <2>1. \A n \in 0..N : n \in G
    <3> HIDE DEF G
    <3>1. Inductive(G, N)
      BY <1>3, <1>4 DEF Inductive
    <3> QED BY <3>1, NatInductionUpTo
  <2> QED BY <2>1
<1> DEFINE acc == [n \in 0..N |-> h[1..n]]
<1>6. acc \in [0..N -> V]
  BY <1>5
<1>7. 1..0 = {}
  OBVIOUS
<1>8. \A n \in 1..N : acc[n] = step[<<acc[n - 1], n>>]
  BY <1>2, <1>5
<1>9. acc[0] = base /\ acc[N] = h[1..N]
  BY <1>7
<1> HIDE DEF acc
<1> QED BY <1>6, <1>8, <1>9

-----------------------------------------------------------------------------
(* What sequences hold. *)
LEMMA AppendAdds ==
  ASSUME NEW A, NEW s \in Seq(A), NEW c
  PROVE  ToSet(Append(s, c)) = ToSet(s) \cup {c}
<1>1. DOMAIN Append(s, c) = DOMAIN s \cup {Len(s) + 1}
  OBVIOUS
<1>2. \A i \in DOMAIN s : Append(s, c)[i] = s[i]
  OBVIOUS
<1>3. Append(s, c)[Len(s) + 1] = c
  OBVIOUS
<1> DEFINE t == Append(s, c)
<1> HIDE DEF t
<1> QED BY <1>1, <1>2, <1>3 DEF ToSet, t

-----------------------------------------------------------------------------
(* An order, and how many come before an element.                          *)
Orders(R, S) ==
  /\ \A p \in S : <<p, p>> \notin R
  /\ \A p, q, r \in S : <<p, q>> \in R /\ <<q, r>> \in R => <<p, r>> \in R
  /\ \A p, q \in S : p = q \/ <<p, q>> \in R \/ <<q, p>> \in R

Preceding(R, S, q) == {p \in S : <<p, q>> \in R}

LEMMA PrecedingCounts ==
  ASSUME NEW S, IsFiniteSet(S), NEW R, Orders(R, S)
  PROVE  /\ \A q \in S : /\ IsFiniteSet(Preceding(R, S, q))
                         /\ Cardinality(Preceding(R, S, q)) \in Nat
         /\ \A p, q \in S : <<p, q>> \in R =>
              Cardinality(Preceding(R, S, p)) < Cardinality(Preceding(R, S, q))
<1>1. ASSUME NEW q \in S
      PROVE  IsFiniteSet(Preceding(R, S, q)) /\ Cardinality(Preceding(R, S, q)) \in Nat
  <2>1. Preceding(R, S, q) \in SUBSET S
    BY DEF Preceding
  <2> QED BY <2>1, FS_Subset, FS_CardinalityType
<1>2. ASSUME NEW p \in S, NEW q \in S, <<p, q>> \in R
      PROVE  Cardinality(Preceding(R, S, p)) < Cardinality(Preceding(R, S, q))
  <2>1. /\ Preceding(R, S, p) \in SUBSET Preceding(R, S, q)
        /\ Preceding(R, S, p) # Preceding(R, S, q)
    BY <1>2 DEF Orders, Preceding
  <2>2. /\ Cardinality(Preceding(R, S, p)) <= Cardinality(Preceding(R, S, q))
        /\ Cardinality(Preceding(R, S, p)) # Cardinality(Preceding(R, S, q))
    BY <1>1, <2>1, FS_Subset
  <2> QED BY <1>1, <2>2
<1> QED BY <1>1, <1>2

(* As many places as elements: every rank is somebody's. *)
LEMMA RanksAreTaken ==
  ASSUME NEW S, IsFiniteSet(S), NEW R, Orders(R, S), NEW r \in 1..Cardinality(S)
  PROVE  \E d \in S : Cardinality(Preceding(R, S, d)) = r - 1
<1> DEFINE n == Cardinality(S)
           D == 0..(n - 1)
           before(q) == Cardinality(Preceding(R, S, q))
           f == [q \in S |-> before(q)]
<1>1. /\ \A q \in S : before(q) \in Nat
      /\ \A p, q \in S : <<p, q>> \in R => before(p) < before(q)
  BY PrecedingCounts
<1>2. n \in Nat
  BY FS_CardinalityType
<1>3. IsFiniteSet(D) /\ Cardinality(D) = n
  <2> HIDE DEF n
  <2>1. IsFiniteSet(D) /\ Cardinality(D) = IF 0 > n - 1 THEN 0 ELSE n - 1 - 0 + 1
    BY <1>2, FS_Interval
  <2> QED BY <1>2, <2>1
<1>4. ASSUME NEW q \in S PROVE before(q) < n
  <2>1. Preceding(R, S, q) \in SUBSET S /\ Preceding(R, S, q) # S
    BY DEF Preceding, Orders
  <2>2. before(q) <= n /\ before(q) # n
    BY <2>1, FS_Subset
  <2> HIDE DEF before, n
  <2> QED BY <1>1, <1>2, <2>2
<1>5. f \in Injection(S, D)
  <2> HIDE DEF before, n
  <2>1. f \in [S -> D]
    BY <1>1, <1>2, <1>4
  <2>2. ASSUME NEW p \in S, NEW q \in S, f[p] = f[q] PROVE p = q
    <3>1. before(p) = before(q)
      BY <2>2
    <3>2. <<p, q>> \notin R /\ <<q, p>> \notin R
      BY <1>1, <3>1
    <3> QED BY <3>2 DEF Orders
  <2> QED BY <2>1, <2>2 DEF Injection, IsInjective
<1>6. f \in Surjection(S, D)
  <2> HIDE DEF D, f
  <2> QED BY <1>3, <1>5, FS_Injection
<1>7. r - 1 \in D
  BY <1>2
<1>8. PICK d \in S : f[d] = r - 1
  BY <1>6, <1>7 DEF Surjection
<1> QED BY <1>8

(* s names the elements of S, those ahead first. *)
InOrder(s, R, S) ==
  /\ s \in [1..Cardinality(S) -> S]
  /\ \A i, j \in 1..Cardinality(S) : <<s[i], s[j]>> \in R <=> i < j
  /\ \A d \in S : \E i \in 1..Cardinality(S) : s[i] = d

ByRank(s, ranked, R, S) ==
  /\ \A d \in S : \A r : <<d, r>> \in ranked <=> r = Cardinality(Preceding(R, S, d))
  /\ s = [r \in 1..Cardinality(S) |-> CHOOSE d \in S : <<d, r - 1>> \in ranked]

LEMMA ByRankIsInOrder ==
  ASSUME NEW S, IsFiniteSet(S), NEW R, Orders(R, S), NEW ranked, NEW s,
         ByRank(s, ranked, R, S)
  PROVE  InOrder(s, R, S)
<1> DEFINE n == Cardinality(S)
           before(q) == Cardinality(Preceding(R, S, q))
<1>1. /\ \A q \in S : before(q) \in Nat
      /\ \A p, q \in S : <<p, q>> \in R => before(p) < before(q)
  BY PrecedingCounts
<1>2. n \in Nat
  BY FS_CardinalityType
<1>3. ASSUME NEW r \in 1..n PROVE s[r] \in S /\ before(s[r]) = r - 1
  <2>1. \E d \in S : before(d) = r - 1
    BY RanksAreTaken
  <2>2. \E d \in S : <<d, r - 1>> \in ranked
    BY <2>1 DEF ByRank
  <2>3. s[r] \in S /\ <<s[r], r - 1>> \in ranked
    BY <2>2 DEF ByRank
  <2> QED BY <2>3 DEF ByRank
<1>4. ASSUME NEW i \in 1..n, NEW j \in 1..n PROVE <<s[i], s[j]>> \in R <=> i < j
  <2> HIDE DEF before, n
  <2>1. <<s[i], s[j]>> \in R => i < j
    <3>1. <<s[i], s[j]>> \in R => before(s[i]) < before(s[j])
      BY <1>1, <1>3
    <3> QED BY <1>2, <1>3, <3>1
  <2>2. ASSUME i < j PROVE <<s[i], s[j]>> \in R
    <3>1. s[i] # s[j]
      BY <1>2, <1>3, <2>2
    <3>2. <<s[j], s[i]>> \notin R
      <4>1. <<s[j], s[i]>> \in R => before(s[j]) < before(s[i])
        BY <1>1, <1>3
      <4> QED BY <1>2, <1>3, <2>2, <4>1
    <3> QED BY <1>3, <3>1, <3>2 DEF Orders
  <2> QED BY <2>1, <2>2
<1>5. ASSUME NEW d \in S PROVE \E i \in 1..n : s[i] = d
  <2> DEFINE f == [i \in 1..n |-> s[i]]
  <2>1. f \in Injection(1..n, S)
    <3> HIDE DEF before, n
    <3>1. f \in [1..n -> S]
      BY <1>3
    <3>2. ASSUME NEW i \in 1..n, NEW j \in 1..n, f[i] = f[j] PROVE i = j
      <4>1. s[i] = s[j]
        BY <3>2
      <4>2. <<s[i], s[j]>> \notin R /\ <<s[j], s[i]>> \notin R
        BY <1>3, <4>1 DEF Orders
      <4> QED BY <1>2, <1>4, <4>2
    <3> QED BY <3>1, <3>2 DEF Injection, IsInjective
  <2>2. Cardinality(1..n) = n
    <3> HIDE DEF n
    <3> QED BY <1>2, FS_Interval
  <2>3. f \in Surjection(1..n, S)
    <3> HIDE DEF f
    <3> QED BY <2>1, <2>2, FS_Injection
  <2>4. \E i \in 1..n : f[i] = d
    BY <2>3 DEF Surjection
  <2> HIDE DEF n
  <2> QED BY <2>4
<1>6. s \in [1..n -> S]
  <2> HIDE DEF before
  <2> QED BY <1>3 DEF ByRank
<1> HIDE DEF before
<1> QED BY <1>4, <1>5, <1>6 DEF InOrder

LEMMA InOrderNamesAll ==
  ASSUME NEW S, IsFiniteSet(S), NEW R, Orders(R, S), NEW s, InOrder(s, R, S)
  PROVE  /\ s \in Seq(S) /\ Len(s) = Cardinality(S) /\ ToSet(s) = S
         /\ IsInjective(s)
<1> DEFINE n == Cardinality(S)
<1>1. n \in Nat
  BY FS_CardinalityType
<1>2. s \in [1..n -> S] /\ \A d \in S : \E i \in 1..n : s[i] = d
  BY DEF InOrder
<1>3. ASSUME NEW i \in 1..n, NEW j \in 1..n, s[i] = s[j] PROVE i = j
  <2>1. /\ <<s[i], s[j]>> \in R <=> i < j
        /\ <<s[j], s[i]>> \in R <=> j < i
    BY DEF InOrder
  <2>2. <<s[i], s[j]>> \notin R /\ <<s[j], s[i]>> \notin R
    BY <1>2, <1>3 DEF Orders
  <2> HIDE DEF n
  <2> QED BY <1>1, <2>1, <2>2
<1> HIDE DEF n
<1>4. s \in Seq(S) /\ Len(s) = n /\ DOMAIN s = 1..n
  BY <1>1, <1>2
<1>5. ToSet(s) = S
  BY <1>2, <1>4 DEF ToSet
<1>6. IsInjective(s)
  BY <1>3, <1>4 DEF IsInjective
<1> QED BY <1>4, <1>5, <1>6 DEF n

(* Places, and the start of a sequence. *)
LEMMA PlacesAreNumbers ==
  ASSUME NEW A, NEW s \in Seq(A), NEW d
  PROVE  /\ Place(s, d) \in 1..(Len(s) + 1)
         /\ d \in ToSet(s) <=> Place(s, d) <= Len(s)
         /\ d \in ToSet(s) => s[Place(s, d)] = d
<1>1. DOMAIN s = 1..Len(s) /\ Len(s) \in Nat
  OBVIOUS
<1>2. CASE d \in ToSet(s)
  <2>1. \E i \in DOMAIN s : s[i] = d
    BY <1>2 DEF ToSet
  <2>2. Place(s, d) \in DOMAIN s /\ s[Place(s, d)] = d
    BY <1>2, <2>1 DEF Place
  <2> QED BY <1>1, <1>2, <2>2
<1>3. CASE d \notin ToSet(s)
  BY <1>1, <1>3 DEF Place
<1> QED BY <1>2, <1>3

LEMMA PlacesAreUnique ==
  ASSUME NEW A, NEW s \in Seq(A), IsInjective(s)
  PROVE  \A i \in 1..Len(s) : s[i] \in ToSet(s) /\ Place(s, s[i]) = i
<1>1. DOMAIN s = 1..Len(s)
  OBVIOUS
<1>2. ASSUME NEW i \in 1..Len(s) PROVE s[i] \in ToSet(s) /\ Place(s, s[i]) = i
  <2>1. s[i] \in ToSet(s)
    BY <1>1 DEF ToSet
  <2>2. Place(s, s[i]) \in 1..Len(s) /\ s[Place(s, s[i])] = s[i]
    BY <2>1, PlacesAreNumbers
  <2> QED BY <1>1, <2>1, <2>2 DEF IsInjective
<1> QED BY <1>2

LEMMA TopStarts ==
  ASSUME NEW A, NEW s \in Seq(A), NEW n \in Nat
  PROVE  /\ Top(s, n) \in Seq(A) /\ Len(Top(s, n)) = (IF Len(s) < n THEN Len(s) ELSE n)
         /\ \A i \in 1..Len(Top(s, n)) : Top(s, n)[i] = s[i]
<1> DEFINE m == IF Len(s) < n THEN Len(s) ELSE n
<1>1. m \in Nat /\ m <= Len(s)
  OBVIOUS
<1>2. Top(s, n) = SubSeq(s, 1, m)
  BY DEF Top
<1> HIDE DEF m
<1>3. /\ SubSeq(s, 1, m) \in Seq(A) /\ Len(SubSeq(s, 1, m)) = m
      /\ \A i \in 1..m : SubSeq(s, 1, m)[i] = s[i]
  BY <1>1
<1>4. Len(Top(s, n)) = m
  BY <1>2, <1>3
<1> QED BY <1>2, <1>3, <1>4 DEF m

LEMMA TopKeepsOrder ==
  ASSUME NEW A, NEW s \in Seq(A), NEW n \in Nat, IsInjective(s)
  PROVE  IsInjective(Top(s, n)) /\ ToSet(Top(s, n)) \subseteq ToSet(s)
<1> DEFINE t == Top(s, n)
<1>1. /\ t \in Seq(A) /\ Len(t) <= Len(s)
      /\ \A i \in 1..Len(t) : t[i] = s[i]
  BY TopStarts
<1> HIDE DEF t
<1>2. DOMAIN t = 1..Len(t) /\ DOMAIN s = 1..Len(s) /\ Len(t) \in Nat /\ Len(s) \in Nat
  BY <1>1
<1>3. DOMAIN t \subseteq DOMAIN s
  BY <1>1, <1>2
<1>4. IsInjective(t)
  BY <1>1, <1>2, <1>3 DEF IsInjective
<1>5. ToSet(t) \subseteq ToSet(s)
  BY <1>1, <1>2, <1>3 DEF ToSet
<1> QED BY <1>4, <1>5 DEF t

(* What the filter lets through of a ranking, in its order. *)
LEMMA RankedIsOrdered ==
  ASSUME NEW A, IsFiniteSet(A), NEW s \in Seq(A), NEW q
  PROVE  /\ Ranked(s, q) \in Seq(ToSet(s) \cap Eligible(q)) /\ IsInjective(Ranked(s, q))
         /\ ToSet(Ranked(s, q)) = ToSet(s) \cap Eligible(q)
<1> DEFINE S == ToSet(s) \cap Eligible(q)
           sooner(d, e) == Place(s, d) < Place(s, e)
           R == {x \in S \X S : sooner(x[1], x[2])}
           before == [d \in S |-> {e \in S : sooner(e, d)}]
           ranked == {<<d, Cardinality(before[d])>> : d \in S}
           r == [k \in 1..Cardinality(S) |-> CHOOSE d \in S : <<d, k - 1>> \in ranked]
<1>1. IsFiniteSet(S)
  <2>1. S \in SUBSET A
    BY DEF ToSet
  <2> HIDE DEF S
  <2> QED BY <2>1, FS_Subset
<1>2. Ranked(s, q) = r
  BY DEF Ranked, Ordered
<1>3. \A d \in S : Place(s, d) \in Nat /\ s[Place(s, d)] = d
  BY PlacesAreNumbers
<1>4. \A d, e : <<d, e>> \in R <=> d \in S /\ e \in S /\ sooner(d, e)
  OBVIOUS
<1>5. Orders(R, S)
  <2> HIDE DEF S, R
  <2>1. \A d, e \in S : d = e \/ sooner(d, e) \/ sooner(e, d)
    BY <1>3
  <2> QED BY <1>3, <1>4, <2>1 DEF Orders
<1>6. \A d \in S : \A k : <<d, k>> \in ranked <=> k = Cardinality(Preceding(R, S, d))
  <2> HIDE DEF S, R
  <2>1. \A d \in S : Preceding(R, S, d) = before[d]
    BY <1>4 DEF Preceding
  <2> HIDE DEF sooner, before
  <2> QED BY <2>1
<1>7. ByRank(r, ranked, R, S)
  <2> HIDE DEF ranked, R, S
  <2> QED BY <1>6 DEF ByRank
<1> HIDE DEF r, ranked, R, S
<1>8. InOrder(r, R, S)
  BY <1>1, <1>5, <1>7, ByRankIsInOrder
<1>9. r \in Seq(S) /\ ToSet(r) = S /\ IsInjective(r)
  BY <1>1, <1>5, <1>8, InOrderNamesAll
<1> QED BY <1>2, <1>9 DEF S

-----------------------------------------------------------------------------
(* Scores are fractions, compared by cross multiplication.                 *)
Fraction == Nat \X (Nat \ {0})

LEMMA Multiplied ==
  ASSUME NEW u \in Nat, NEW v \in Nat, NEW z \in Nat \ {0}
  PROVE  /\ u * z \in Nat /\ (u * z >= v * z <=> u >= v) /\ (u * z > v * z <=> u > v)
<1>1. u >= v => u * z >= v * z
  OBVIOUS
<1>2. u > v => u * z > v * z
  OBVIOUS
<1> QED BY <1>1, <1>2

(* a/x >= b/y and b/y >= c/z give a/x >= c/z. *)
LEMMA CrossMultiplied ==
  ASSUME NEW a \in Nat, NEW b \in Nat, NEW c \in Nat,
         NEW x \in Nat \ {0}, NEW y \in Nat \ {0}, NEW z \in Nat \ {0},
         a * y >= b * x, b * z >= c * y
  PROVE  /\ a * z >= c * x
         /\ a * y > b * x \/ b * z > c * y => a * z > c * x
<1> DEFINE ay == a * y
           bx == b * x
           bz == b * z
           cy == c * y
           az == a * z
           cx == c * x
<1>1. {ay, bx, bz, cy, az, cx} \subseteq Nat
  OBVIOUS
<1>2. az * y = ay * z /\ bx * z = bz * x /\ cy * x = cx * y
  OBVIOUS
<1>3. ay >= bx /\ bz >= cy
  OBVIOUS
<1> HIDE DEF ay, bx, bz, cy, az, cx
<1>4. ay * z >= bx * z /\ (ay > bx => ay * z > bx * z)
  BY <1>1, <1>3, Multiplied
<1>5. bz * x >= cy * x /\ (bz > cy => bz * x > cy * x)
  BY <1>1, <1>3, Multiplied
<1>6. az * y >= cx * y /\ (ay > bx \/ bz > cy => az * y > cx * y)
  BY <1>1, <1>2, <1>4, <1>5
<1>7. az >= cx /\ (ay > bx \/ bz > cy => az > cx)
  BY <1>1, <1>6, Multiplied
<1> QED BY <1>7 DEF ay, bx, bz, cy, az, cx

LEMMA ExceedsIsOrder ==
  ASSUME NEW a \in Fraction, NEW b \in Fraction, NEW c \in Fraction
  PROVE  /\ ~Exceeds(a, a)
         /\ Exceeds(a, b) => ~Exceeds(b, a)
         /\ ~Exceeds(b, a) /\ ~Exceeds(c, b) =>
              /\ ~Exceeds(c, a)
              /\ Exceeds(a, b) \/ Exceeds(b, c) => Exceeds(a, c)
<1> DEFINE a1 == a[1]
           a2 == a[2]
           b1 == b[1]
           b2 == b[2]
           c1 == c[1]
           c2 == c[2]
<1>1. {a1, b1, c1} \subseteq Nat /\ {a2, b2, c2} \subseteq Nat \ {0}
  BY DEF Fraction
<1>2. /\ Exceeds(a, a) <=> a1 * a2 > a1 * a2
      /\ Exceeds(a, b) <=> a1 * b2 > b1 * a2
      /\ Exceeds(b, a) <=> b1 * a2 > a1 * b2
      /\ Exceeds(b, c) <=> b1 * c2 > c1 * b2
      /\ Exceeds(c, b) <=> c1 * b2 > b1 * c2
      /\ Exceeds(a, c) <=> a1 * c2 > c1 * a2
      /\ Exceeds(c, a) <=> c1 * a2 > a1 * c2
  BY DEF Exceeds
<1> HIDE DEF a1, a2, b1, b2, c1, c2
<1>3. {a1 * a2, a1 * b2, b1 * a2, b1 * c2, c1 * b2, a1 * c2, c1 * a2} \subseteq Nat
  BY <1>1
<1>4. a1 * b2 >= b1 * a2 /\ b1 * c2 >= c1 * b2 =>
        /\ a1 * c2 >= c1 * a2
        /\ a1 * b2 > b1 * a2 \/ b1 * c2 > c1 * b2 => a1 * c2 > c1 * a2
  BY <1>1, CrossMultiplied
<1> QED BY <1>2, <1>3, <1>4

LEMMA SumRises ==
  ASSUME NEW a \in Fraction, NEW b \in Fraction, NEW c \in Fraction, NEW d \in Fraction,
         ~Exceeds(c, a), ~Exceeds(d, b), Exceeds(a, c) \/ Exceeds(b, d)
  PROVE  Exceeds(Sum2(a, b), Sum2(c, d))
<1> DEFINE a1 == a[1]
           a2 == a[2]
           b1 == b[1]
           b2 == b[2]
           c1 == c[1]
           c2 == c[2]
           d1 == d[1]
           d2 == d[2]
<1>1. {a1, b1, c1, d1} \subseteq Nat /\ {a2, b2, c2, d2} \subseteq Nat \ {0}
  BY DEF Fraction
<1>2. /\ Exceeds(Sum2(a, b), Sum2(c, d)) <=>
           (a1 * b2 + b1 * a2) * (c2 * d2) > (c1 * d2 + d1 * c2) * (a2 * b2)
      /\ Exceeds(a, c) <=> a1 * c2 > c1 * a2
      /\ Exceeds(c, a) <=> c1 * a2 > a1 * c2
      /\ Exceeds(b, d) <=> b1 * d2 > d1 * b2
      /\ Exceeds(d, b) <=> d1 * b2 > b1 * d2
  BY DEF Exceeds, Sum2
<1> HIDE DEF a1, a2, b1, b2, c1, c2, d1, d2
<1> DEFINE ac == a1 * c2
           ca == c1 * a2
           bd == b1 * d2
           db == d1 * b2
           x == b2 * d2
           y == a2 * c2
<1>3. /\ {ac, ca, bd, db} \subseteq Nat /\ {x, y} \subseteq Nat \ {0}
      /\ (a1 * b2 + b1 * a2) * (c2 * d2) = ac * x + bd * y
      /\ (c1 * d2 + d1 * c2) * (a2 * b2) = ca * x + db * y
  <2>1. {ac, ca, bd, db} \subseteq Nat
    BY <1>1
  <2>2. {x, y} \subseteq Nat \ {0}
    BY <1>1
  <2>3. (a1 * b2 + b1 * a2) * (c2 * d2) = ac * x + bd * y
    BY <1>1
  <2>4. (c1 * d2 + d1 * c2) * (a2 * b2) = ca * x + db * y
    BY <1>1
  <2> QED BY <2>1, <2>2, <2>3, <2>4
<1>4. ac >= ca /\ bd >= db /\ (ac > ca \/ bd > db)
  BY <1>2, <1>3
<1> HIDE DEF ac, ca, bd, db, x, y
<1>5. /\ ac * x \in Nat /\ ca * x \in Nat /\ ac * x >= ca * x
      /\ ac > ca => ac * x > ca * x
  BY <1>3, <1>4, Multiplied
<1>6. /\ bd * y \in Nat /\ db * y \in Nat /\ bd * y >= db * y
      /\ bd > db => bd * y > db * y
  BY <1>3, <1>4, Multiplied
<1>7. ac * x + bd * y > ca * x + db * y
  BY <1>4, <1>5, <1>6
<1> QED BY <1>2, <1>3, <1>7

LEMMA ReciprocalFalls ==
  ASSUME NEW A, NEW s \in Seq(A), NEW d, NEW e
  PROVE  /\ Reciprocal(s, d) \in Fraction
         /\ Place(s, d) <= Place(s, e) => ~Exceeds(Reciprocal(s, e), Reciprocal(s, d))
         /\ Place(s, d) < Place(s, e) => Exceeds(Reciprocal(s, d), Reciprocal(s, e))
<1> DEFINE p == Place(s, d)
           q == Place(s, e)
           n == Len(s)
<1>1. /\ n \in Nat /\ p \in 1..(n + 1) /\ q \in 1..(n + 1) /\ KRRF \in Nat
      /\ d \in ToSet(s) <=> p <= n
      /\ e \in ToSet(s) <=> q <= n
  BY PlacesAreNumbers, QueryConstants
<1>2. /\ Reciprocal(s, d) = IF d \in ToSet(s) THEN <<1, KRRF + p>> ELSE <<0, 1>>
      /\ Reciprocal(s, e) = IF e \in ToSet(s) THEN <<1, KRRF + q>> ELSE <<0, 1>>
  BY DEF Reciprocal
<1> HIDE DEF p, q, n
<1> DEFINE a == Reciprocal(s, d)
           b == Reciprocal(s, e)
           Falls == /\ a \in Fraction
                    /\ p <= q => ~Exceeds(b, a)
                    /\ p < q => Exceeds(a, b)
<1>3. /\ a[1] \in {0, 1} /\ a[2] \in Nat \ {0} /\ a = <<a[1], a[2]>>
      /\ p <= n => a[1] = 1 /\ a[2] = KRRF + p
      /\ ~(p <= n) => a[1] = 0 /\ a[2] = 1
  BY <1>1, <1>2
<1>4. /\ b[1] \in {0, 1} /\ b[2] \in Nat \ {0}
      /\ q <= n => b[1] = 1 /\ b[2] = KRRF + q
      /\ ~(q <= n) => b[1] = 0 /\ b[2] = 1
  BY <1>1, <1>2
<1> HIDE DEF a, b
<1>5. a \in Fraction
  BY <1>3 DEF Fraction
<1>6. /\ Exceeds(a, b) <=> a[1] * b[2] > b[1] * a[2]
      /\ Exceeds(b, a) <=> b[1] * a[2] > a[1] * b[2]
  BY DEF Exceeds
<1>7. /\ a[1] * b[2] = IF p <= n THEN b[2] ELSE 0
      /\ b[1] * a[2] = IF q <= n THEN a[2] ELSE 0
  BY <1>1, <1>3, <1>4
<1>8. Falls
  BY <1>1, <1>3, <1>4, <1>5, <1>6, <1>7
<1> QED BY <1>8 DEF p, q, a, b

(* What neither list ranks lower, and one ranks higher, scores more. *)
LEMMA ScoreFollowsRanks ==
  ASSUME NEW A, NEW D \in Seq(A), NEW L \in Seq(A), NEW d, NEW e
  PROVE  /\ Score(d, D, L) \in Fraction
         /\ (/\ Place(D, d) <= Place(D, e) /\ Place(L, d) <= Place(L, e)
             /\ Place(D, d) < Place(D, e) \/ Place(L, d) < Place(L, e))
            => Exceeds(Score(d, D, L), Score(e, D, L))
<1>1. Score(d, D, L) \in Fraction
  <2> DEFINE a == Reciprocal(D, d)
             b == Reciprocal(L, d)
  <2>1. a \in Fraction /\ b \in Fraction
    BY ReciprocalFalls
  <2> HIDE DEF a, b
  <2>2. a[1] \in Nat /\ b[1] \in Nat /\ a[2] \in Nat \ {0} /\ b[2] \in Nat \ {0}
    BY <2>1 DEF Fraction
  <2>3. a[1] * b[2] + b[1] * a[2] \in Nat /\ a[2] * b[2] \in Nat \ {0}
    <3>1. \A u, v \in Nat : u * v \in Nat
      OBVIOUS
    <3>2. \A u, v \in Nat \ {0} : u * v \in Nat \ {0}
      OBVIOUS
    <3>3. \A u, v \in Nat : u + v \in Nat
      OBVIOUS
    <3>4. a[1] * b[2] \in Nat /\ b[1] * a[2] \in Nat
      BY <2>2, <3>1
    <3> QED BY <2>2, <3>2, <3>3, <3>4
  <2>4. Sum2(a, b) \in Fraction
    BY <2>3 DEF Sum2, Fraction
  <2> QED BY <2>4 DEF Score, a, b
<1>2. /\ Reciprocal(D, d) \in Fraction /\ Reciprocal(L, d) \in Fraction
      /\ Reciprocal(D, e) \in Fraction /\ Reciprocal(L, e) \in Fraction
  BY ReciprocalFalls
<1>3. ASSUME Place(D, d) <= Place(D, e), Place(L, d) <= Place(L, e),
             Place(D, d) < Place(D, e) \/ Place(L, d) < Place(L, e)
      PROVE  Exceeds(Score(d, D, L), Score(e, D, L))
  <2>1. /\ ~Exceeds(Reciprocal(D, e), Reciprocal(D, d))
        /\ ~Exceeds(Reciprocal(L, e), Reciprocal(L, d))
        /\ \/ Exceeds(Reciprocal(D, d), Reciprocal(D, e))
           \/ Exceeds(Reciprocal(L, d), Reciprocal(L, e))
    <3>1. /\ Place(D, d) <= Place(D, e) => ~Exceeds(Reciprocal(D, e), Reciprocal(D, d))
          /\ Place(D, d) < Place(D, e) => Exceeds(Reciprocal(D, d), Reciprocal(D, e))
      BY ReciprocalFalls
    <3>2. /\ Place(L, d) <= Place(L, e) => ~Exceeds(Reciprocal(L, e), Reciprocal(L, d))
          /\ Place(L, d) < Place(L, e) => Exceeds(Reciprocal(L, d), Reciprocal(L, e))
      BY ReciprocalFalls
    <3> QED BY <1>3, <3>1, <3>2
  <2> QED BY <1>2, <2>1, SumRises DEF Score
<1> QED BY <1>1, <1>3

(* The fusion of two rankings: by score, and by place where scores agree. *)
LEMMA NamedByBoth ==
  ASSUME NEW A, NEW D \in Seq(A), NEW L \in Seq(A)
  PROVE  D \o L \in Seq(A) /\ ToSet(D \o L) = ToSet(D) \cup ToSet(L)
<1> DEFINE s == D \o L
<1>1. /\ s \in Seq(A) /\ Len(s) = Len(D) + Len(L)
      /\ \A i \in 1..Len(s) : s[i] = IF i <= Len(D) THEN D[i] ELSE L[i - Len(D)]
  BY ConcatProperties
<1>2. /\ DOMAIN D = 1..Len(D) /\ DOMAIN L = 1..Len(L)
      /\ Len(D) \in Nat /\ Len(L) \in Nat
  OBVIOUS
<1> HIDE DEF s
<1>3. DOMAIN s = 1..Len(s)
  BY <1>1
<1>4. ASSUME NEW i \in DOMAIN s PROVE s[i] \in ToSet(D) \cup ToSet(L)
  <2>1. CASE i <= Len(D)
    BY <1>1, <1>2, <1>3, <2>1 DEF ToSet
  <2>2. CASE ~(i <= Len(D))
    <3>1. i - Len(D) \in DOMAIN L /\ s[i] = L[i - Len(D)]
      BY <1>1, <1>2, <1>3, <2>2
    <3> QED BY <3>1 DEF ToSet
  <2> QED BY <2>1, <2>2
<1>5. ASSUME NEW i \in DOMAIN D PROVE D[i] \in ToSet(s)
  <2>1. i \in DOMAIN s /\ s[i] = D[i]
    BY <1>1, <1>2, <1>3
  <2> QED BY <2>1 DEF ToSet
<1>6. ASSUME NEW i \in DOMAIN L PROVE L[i] \in ToSet(s)
  <2>1. Len(D) + i \in DOMAIN s /\ s[Len(D) + i] = L[i]
    <3>1. /\ i \in 1..Len(L) /\ Len(D) + i \in 1..Len(s) /\ ~(Len(D) + i <= Len(D))
          /\ (Len(D) + i) - Len(D) = i
      BY <1>1, <1>2
    <3> QED BY <1>1, <1>3, <3>1
  <2> QED BY <2>1 DEF ToSet
<1>7. ToSet(s) \subseteq ToSet(D) \cup ToSet(L)
  BY <1>4 DEF ToSet
<1>8. ToSet(D) \subseteq ToSet(s) /\ ToSet(L) \subseteq ToSet(s)
  BY <1>5, <1>6 DEF ToSet
<1> QED BY <1>1, <1>7, <1>8 DEF s

LEMMA MergedIsOrdered ==
  ASSUME NEW A, IsFiniteSet(A), NEW D \in Seq(A), NEW L \in Seq(A)
  PROVE  /\ Merged(D, L) \in Seq(ToSet(D) \cup ToSet(L)) /\ IsInjective(Merged(D, L))
         /\ \A d, e \in ToSet(D) \cup ToSet(L) :
              Exceeds(Score(d, D, L), Score(e, D, L)) /\ e \in ToSet(Merged(D, L)) =>
                /\ d \in ToSet(Merged(D, L))
                /\ Place(Merged(D, L), d) < Place(Merged(D, L), e)
<1> DEFINE named == D \o L
           S == ToSet(named)
           score(d) == Score(d, D, L)
           ahead(d, e) ==
             LET a == score(d)
                 b == score(e)
             IN  \/ Exceeds(a, b)
                 \/ ~Exceeds(b, a) /\ Place(named, d) < Place(named, e)
           R == {x \in S \X S : ahead(x[1], x[2])}
           before == [d \in S |-> {e \in S : ahead(e, d)}]
           ranked == {<<d, Cardinality(before[d])>> : d \in S}
           r == [k \in 1..Cardinality(S) |-> CHOOSE d \in S : <<d, k - 1>> \in ranked]
<1>1. named \in Seq(A) /\ S = ToSet(D) \cup ToSet(L)
  BY NamedByBoth
<1>2. IsFiniteSet(S)
  <2>1. S \in SUBSET A
    BY <1>1 DEF ToSet
  <2> HIDE DEF S
  <2> QED BY <2>1, FS_Subset
<1>3. Merged(D, L) = Top(r, K)
  BY DEF Merged, Ordered
<1>4. \A d \in S : Place(named, d) \in Nat /\ named[Place(named, d)] = d
  <2> HIDE DEF named
  <2> QED BY <1>1, PlacesAreNumbers
<1>5. \A d : score(d) \in Fraction
  BY ScoreFollowsRanks
<1>6. \A d, e : ahead(d, e) <=>
        \/ Exceeds(score(d), score(e))
        \/ ~Exceeds(score(e), score(d)) /\ Place(named, d) < Place(named, e)
  OBVIOUS
<1>7. \A d, e : <<d, e>> \in R <=> d \in S /\ e \in S /\ ahead(d, e)
  OBVIOUS
<1> HIDE DEF named, S, score, ahead, R
<1>8. Orders(R, S)
  <2>1. ASSUME NEW d \in S PROVE ~ahead(d, d)
    BY <1>4, <1>5, <1>6, ExceedsIsOrder
  <2>2. ASSUME NEW d \in S, NEW e \in S, NEW f \in S, ahead(d, e), ahead(e, f)
        PROVE  ahead(d, f)
    <3>1. /\ Exceeds(score(d), score(e)) => ~Exceeds(score(e), score(d))
          /\ Exceeds(score(e), score(f)) => ~Exceeds(score(f), score(e))
      BY <1>5, ExceedsIsOrder
    <3>2. ~Exceeds(score(e), score(d)) /\ ~Exceeds(score(f), score(e))
      BY <1>6, <2>2, <3>1
    <3>3. /\ ~Exceeds(score(f), score(d))
          /\ Exceeds(score(d), score(e)) \/ Exceeds(score(e), score(f))
               => Exceeds(score(d), score(f))
      BY <1>5, <3>2, ExceedsIsOrder
    <3>4. CASE Exceeds(score(d), score(e)) \/ Exceeds(score(e), score(f))
      BY <1>6, <3>3, <3>4
    <3>5. CASE ~Exceeds(score(d), score(e)) /\ ~Exceeds(score(e), score(f))
      <4>1. Place(named, d) < Place(named, e) /\ Place(named, e) < Place(named, f)
        BY <1>6, <2>2, <3>5
      <4>2. Place(named, d) < Place(named, f)
        BY <1>4, <4>1
      <4> QED BY <1>6, <3>3, <4>2
    <3> QED BY <3>4, <3>5
  <2>3. ASSUME NEW d \in S, NEW e \in S, d # e PROVE ahead(d, e) \/ ahead(e, d)
    <3>1. Place(named, d) < Place(named, e) \/ Place(named, e) < Place(named, d)
      BY <1>4, <2>3
    <3> QED BY <1>6, <3>1
  <2> QED BY <1>7, <2>1, <2>2, <2>3 DEF Orders
<1>9. \A d \in S : \A k : <<d, k>> \in ranked <=> k = Cardinality(Preceding(R, S, d))
  <2>1. \A d \in S : Preceding(R, S, d) = before[d]
    BY <1>7 DEF Preceding
  <2> HIDE DEF before
  <2> QED BY <2>1
<1>10. ByRank(r, ranked, R, S)
  <2> HIDE DEF ranked
  <2> QED BY <1>9 DEF ByRank
<1> HIDE DEF r, ranked
<1>11. InOrder(r, R, S)
  BY <1>2, <1>8, <1>10, ByRankIsInOrder
<1>12. /\ r \in Seq(S) /\ ToSet(r) = S /\ IsInjective(r) /\ Len(r) = Cardinality(S)
       /\ \A i, j \in 1..Len(r) : <<r[i], r[j]>> \in R <=> i < j
  <2>1. r \in Seq(S) /\ ToSet(r) = S /\ IsInjective(r) /\ Len(r) = Cardinality(S)
    BY <1>2, <1>8, <1>11, InOrderNamesAll
  <2> QED BY <1>11, <2>1 DEF InOrder
<1> DEFINE t == Top(r, K)
<1>13. /\ t \in Seq(S) /\ IsInjective(t) /\ Len(t) \in Nat /\ Len(r) \in Nat
       /\ Len(t) <= Len(r) /\ \A i \in 1..Len(t) : t[i] = r[i]
       /\ Len(t) = IF Len(r) < K THEN Len(r) ELSE K
  <2>1. K \in Nat
    BY QueryConstants
  <2>2. /\ t \in Seq(S) /\ Len(t) = (IF Len(r) < K THEN Len(r) ELSE K)
        /\ \A i \in 1..Len(t) : t[i] = r[i]
    BY <1>12, <2>1, TopStarts
  <2>3. IsInjective(t)
    BY <1>12, <2>1, TopKeepsOrder
  <2> HIDE DEF t
  <2>4. Len(t) \in Nat /\ Len(r) \in Nat
    BY <1>12, <2>2
  <2> QED BY <2>1, <2>2, <2>3, <2>4
<1> HIDE DEF t
<1>14. ASSUME NEW d \in S, NEW e \in S, Exceeds(score(d), score(e)), e \in ToSet(t)
       PROVE  d \in ToSet(t) /\ Place(t, d) < Place(t, e)
  <2>1. Place(t, e) \in 1..Len(t) /\ t[Place(t, e)] = e
    BY <1>13, <1>14, PlacesAreNumbers
  <2>2. Place(r, d) \in 1..Len(r) /\ r[Place(r, d)] = d
    BY <1>12, PlacesAreNumbers
  <2> DEFINE i == Place(r, d)
             j == Place(t, e)
  <2> HIDE DEF i, j
  <2>3. i \in 1..Len(r) /\ j \in 1..Len(t) /\ j \in 1..Len(r) /\ r[i] = d /\ r[j] = e
    BY <1>13, <2>1, <2>2 DEF i, j
  <2>4. i < j
    BY <1>6, <1>7, <1>12, <1>14, <2>3
  <2>5. i \in 1..Len(t) /\ t[i] = d
    BY <1>13, <2>3, <2>4
  <2>6. d \in ToSet(t) /\ Place(t, d) = i
    BY <1>13, <2>5, PlacesAreUnique
  <2> QED BY <2>4, <2>6 DEF j
<1> QED BY <1>1, <1>3, <1>13, <1>14 DEF t, score

-----------------------------------------------------------------------------
(* The packet.                                                             *)

(* The total, read from the first document on. *)
LEMMA TotalRuns ==
  ASSUME NEW s \in Seq(Doc)
  PROVE  \E acc \in [0..Len(s) -> Nat] :
           /\ acc[0] = 0 /\ acc[Len(s)] = TotalBytes(s)
           /\ \A n \in 1..Len(s) : acc[n] = acc[n - 1] + Bytes[s[n]]
<1> DEFINE N == Len(s)
           V == Nat
           Op(v, c) == v + Bytes[c]
           step == [p \in V \X (1..N) |-> Op(p[1], s[p[2]])]
           Body(h, T) == IF T = {} THEN 0 ELSE Op(h[T \ {Max(T)}], s[Max(T)])
           Iter(h) == h = [T \in SUBSET (1..N) |-> Body(h, T)]
           h == CHOOSE g : Iter(g)
<1>1. DOMAIN s = 1..N /\ N \in Nat
  OBVIOUS
<1>2. TotalBytes(s) = h[1..N]
  BY <1>1 DEF TotalBytes, FoldLeft, MapThenFoldSet
<1>3. step \in [V \X (1..N) -> V] /\ 0 \in V
  BY QueryConstants
<1>4. \A v \in V : \A n \in 1..N : step[<<v, n>>] = Op(v, s[n])
  OBVIOUS
<1>5. PICK g : Folds(V, 0, step, g, N)
  <2> HIDE DEF step, V, N
  <2> QED BY <1>1, <1>3, FoldExists
<1>6. Iter(g)
  <2>1. ASSUME NEW T \in SUBSET (1..N) PROVE g[T] = Body(g, T)
    <3>1. CASE T = {} BY <1>5, <3>1 DEF Folds
    <3>2. CASE T # {}
      <4>1. Max(T) \in 1..N /\ g[T \ {Max(T)}] \in V
        BY <1>5, <3>2 DEF Folds
      <4> HIDE DEF Op, step, V, N
      <4> QED BY <1>4, <1>5, <3>2, <4>1 DEF Folds
    <3> QED BY <3>1, <3>2
  <2> HIDE DEF Body
  <2> QED BY <1>5, <2>1 DEF Folds
<1>7. Iter(h)
  <2> HIDE DEF Iter
  <2> QED BY <1>6
<1>8. FoldsTyped(V, 0, step, h, N)
  <2>1. \A T \in SUBSET (1..N) : h[T] = Body(h, T)
    BY <1>7
  <2>2. \A T \in SUBSET (1..N) : T # {} => Max(T) \in 1..N
    BY <1>5 DEF Folds
  <2>3. h[{}] = 0
    BY <2>1
  <2> HIDE DEF h, Op, step, V, N
  <2>4. ASSUME NEW T \in SUBSET (1..N), T # {}, h[T \ {Max(T)}] \in V
        PROVE  h[T] = step[<<h[T \ {Max(T)}], Max(T)>>]
    BY <1>4, <2>1, <2>2, <2>4
  <2> QED BY <2>3, <2>4 DEF FoldsTyped
<1>9. PICK acc : Runs(V, 0, step, acc, N, h[1..N])
  <2> DEFINE base == 0
  <2>1. base \in V /\ FoldsTyped(V, base, step, h, N)
    BY <1>3, <1>8
  <2> HIDE DEF base, h, step, V, N
  <2>2. \E acc : Runs(V, base, step, acc, N, h[1..N])
    BY <1>1, <1>3, <2>1, FoldRuns
  <2> QED BY <2>2 DEF base
<1>10. \A n \in 1..N : acc[n] = Op(acc[n - 1], s[n])
  <2>1. \A n \in 1..N : acc[n - 1] \in V
    BY <1>9 DEF Runs
  <2> HIDE DEF step, Op, V
  <2> QED BY <1>4, <1>9, <2>1 DEF Runs
<1> HIDE DEF h, step
<1> QED BY <1>2, <1>9, <1>10 DEF Runs

LEMMA TotalAdds ==
  /\ TotalBytes(<<>>) = 0
  /\ \A s \in Seq(Doc) : \A d \in Doc :
       TotalBytes(s) \in Nat /\ TotalBytes(Append(s, d)) = TotalBytes(s) + Bytes[d]
<1>1. TotalBytes(<<>>) = 0
  <2> DEFINE e == <<>>
  <2>1. e \in Seq(Doc) /\ Len(e) = 0
    OBVIOUS
  <2> HIDE DEF e
  <2>2. PICK acc \in [0..Len(e) -> Nat] : acc[0] = 0 /\ acc[Len(e)] = TotalBytes(e)
    BY <2>1, TotalRuns
  <2>3. TotalBytes(e) = 0
    BY <2>1, <2>2
  <2> QED BY <2>3 DEF e
<1>2. ASSUME NEW s \in Seq(Doc), NEW d \in Doc
      PROVE  TotalBytes(s) \in Nat /\ TotalBytes(Append(s, d)) = TotalBytes(s) + Bytes[d]
  <2> DEFINE t == Append(s, d)
             N == Len(s)
  <2>1. /\ t \in Seq(Doc) /\ Len(t) = N + 1 /\ N \in Nat
        /\ \A i \in 1..N : t[i] = s[i]
        /\ t[N + 1] = d
    OBVIOUS
  <2>2. PICK a \in [0..N -> Nat] :
          /\ a[0] = 0 /\ a[N] = TotalBytes(s)
          /\ \A n \in 1..N : a[n] = a[n - 1] + Bytes[s[n]]
    BY TotalRuns
  <2> HIDE DEF t
  <2>3. PICK b \in [0..(N + 1) -> Nat] :
          /\ b[0] = 0 /\ b[N + 1] = TotalBytes(t)
          /\ \A n \in 1..(N + 1) : b[n] = b[n - 1] + Bytes[t[n]]
    BY <2>1, TotalRuns
  <2> HIDE DEF N
  <2> DEFINE G == {n \in 0..N : a[n] = b[n]}
  <2>4. 0 \in G
    BY <2>1, <2>2, <2>3
  <2>5. ASSUME NEW n \in 0..(N - 1), n \in G PROVE n + 1 \in G
    <3>1. n + 1 \in 1..N /\ n + 1 \in 1..(N + 1) /\ (n + 1) - 1 = n /\ a[n] = b[n]
      BY <2>1, <2>5
    <3>2. a[n + 1] = a[n] + Bytes[s[n + 1]] /\ b[n + 1] = b[n] + Bytes[t[n + 1]]
      BY <2>2, <2>3, <3>1
    <3>3. a[n + 1] = b[n + 1]
      BY <2>1, <3>1, <3>2
    <3> QED BY <2>1, <3>1, <3>3
  <2>6. N \in G
    <3>1. Inductive(G, N)
      <4> HIDE DEF G
      <4> QED BY <2>4, <2>5 DEF Inductive
    <3> HIDE DEF G
    <3>2. \A n \in 0..N : n \in G
      BY <2>1, <3>1, NatInductionUpTo
    <3> QED BY <2>1, <3>2
  <2>7. N + 1 \in 1..(N + 1) /\ (N + 1) - 1 = N /\ N \in 0..N
    BY <2>1
  <2>8. b[N + 1] = b[N] + Bytes[d]
    BY <2>1, <2>3, <2>7
  <2> QED BY <2>2, <2>3, <2>6, <2>7, <2>8 DEF t
<1> QED BY <1>1, <1>2

(* The packet, read from the first hit on. *)
PacketValues == [supplied : Seq(Doc), bytes : Nat]

LEMMA ExtendedIsPacket ==
  /\ Packet0 \in PacketValues
  /\ \A p \in PacketValues : \A d \in Doc : Extended(p, d) \in PacketValues
<1>1. Packet0 \in PacketValues
  BY QueryConstants DEF Packet0, PacketValues
<1>2. ASSUME NEW p \in PacketValues, NEW d \in Doc PROVE Extended(p, d) \in PacketValues
  <2>1. /\ p.supplied \in Seq(Doc) /\ p.bytes \in Nat /\ Bytes[d] \in Nat
        /\ Append(p.supplied, d) \in Seq(Doc) /\ p.bytes + Bytes[d] \in Nat
    BY QueryConstants DEF PacketValues
  <2> QED BY <2>1 DEF PacketValues, Extended
<1> QED BY <1>1, <1>2

LEMMA PacketRuns ==
  ASSUME NEW s \in Seq(Doc)
  PROVE  \E acc \in [0..Len(s) -> PacketValues] :
           /\ acc[0] = Packet0 /\ acc[Len(s)] = PacketOf(s)
           /\ \A n \in 1..Len(s) : acc[n] = Extended(acc[n - 1], s[n])
<1> DEFINE N == Len(s)
           V == PacketValues
           step == [p \in V \X (1..N) |-> Extended(p[1], s[p[2]])]
           Body(h, T) == IF T = {} THEN Packet0 ELSE Extended(h[T \ {Max(T)}], s[Max(T)])
           Iter(h) == h = [T \in SUBSET (1..N) |-> Body(h, T)]
           h == CHOOSE g : Iter(g)
<1>1. DOMAIN s = 1..N /\ N \in Nat
  OBVIOUS
<1>2. PacketOf(s) = h[1..N]
  BY <1>1 DEF PacketOf, FoldLeft, MapThenFoldSet
<1>3. step \in [V \X (1..N) -> V] /\ Packet0 \in V
  <2>1. \A p \in V \X (1..N) : p[1] \in V /\ s[p[2]] \in Doc
    BY <1>1
  <2>2. \A p \in V \X (1..N) : Extended(p[1], s[p[2]]) \in V
    <3> HIDE DEF V
    <3> QED BY <2>1, ExtendedIsPacket DEF V
  <2> HIDE DEF V, N
  <2> QED BY <2>2, ExtendedIsPacket DEF V
<1>4. \A v \in V : \A n \in 1..N : step[<<v, n>>] = Extended(v, s[n])
  <2> HIDE DEF V, N
  <2> QED OBVIOUS
<1>5. PICK g : Folds(V, Packet0, step, g, N)
  <2> HIDE DEF step, V, N
  <2> QED BY <1>1, <1>3, FoldExists
<1>6. Iter(g)
  <2>1. ASSUME NEW T \in SUBSET (1..N) PROVE g[T] = Body(g, T)
    <3>1. CASE T = {} BY <1>5, <3>1 DEF Folds
    <3>2. CASE T # {}
      <4>1. Max(T) \in 1..N /\ g[T \ {Max(T)}] \in V
        BY <1>5, <3>2 DEF Folds
      <4> HIDE DEF step, V, N
      <4> QED BY <1>4, <1>5, <3>2, <4>1 DEF Folds
    <3> QED BY <3>1, <3>2
  <2> HIDE DEF Body
  <2> QED BY <1>5, <2>1 DEF Folds
<1>7. Iter(h)
  <2> HIDE DEF Iter
  <2> QED BY <1>6
<1>8. FoldsTyped(V, Packet0, step, h, N)
  <2>1. \A T \in SUBSET (1..N) : h[T] = Body(h, T)
    BY <1>7
  <2>2. \A T \in SUBSET (1..N) : T # {} => Max(T) \in 1..N
    BY <1>5 DEF Folds
  <2>3. h[{}] = Packet0
    BY <2>1
  <2> HIDE DEF h, step, V, N
  <2>4. ASSUME NEW T \in SUBSET (1..N), T # {}, h[T \ {Max(T)}] \in V
        PROVE  h[T] = step[<<h[T \ {Max(T)}], Max(T)>>]
    BY <1>4, <2>1, <2>2, <2>4
  <2> QED BY <2>3, <2>4 DEF FoldsTyped
<1>9. PICK acc : Runs(V, Packet0, step, acc, N, h[1..N])
  <2> HIDE DEF h, step, V, N
  <2> QED BY <1>1, <1>3, <1>8, FoldRuns
<1>10. \A n \in 1..N : acc[n] = Extended(acc[n - 1], s[n])
  <2>1. \A n \in 1..N : acc[n - 1] \in V
    BY <1>9 DEF Runs
  <2> HIDE DEF step, V
  <2> QED BY <1>4, <1>9, <2>1 DEF Runs
<1> HIDE DEF h, step
<1> QED BY <1>2, <1>9, <1>10 DEF Runs

(* What has been supplied of the first n hits, and what not.               *)
Packs(p, s, n) ==
  /\ p \in PacketValues
  /\ p.bytes = QuestionBytes + TotalBytes(p.supplied) /\ p.bytes <= ContextLimit
  /\ \A d \in ToSet(p.supplied) : \E i \in 1..n : s[i] = d
  /\ \A i \in 1..n : s[i] \in Addressed /\ s[i] \notin ToSet(p.supplied) =>
                       p.bytes + Bytes[s[i]] > ContextLimit

(* One more hit: it is taken, has no identity, or does not fit.            *)
LEMMA ExtendingPacks ==
  ASSUME NEW s \in Seq(Doc), NEW n \in Nat, n + 1 \in 1..Len(s), NEW p, Packs(p, s, n)
  PROVE  Packs(Extended(p, s[n + 1]), s, n + 1)
<1> DEFINE d == s[n + 1]
           q == Extended(p, d)
<1>1. /\ d \in Doc /\ p \in PacketValues /\ p.supplied \in Seq(Doc) /\ p.bytes \in Nat
      /\ \A i \in 1..n : s[i] \in Doc
      /\ \A e \in Doc : Bytes[e] \in Nat
  BY QueryConstants DEF Packs, PacketValues
<1>2. q \in PacketValues
  BY <1>1, ExtendedIsPacket
<1>3. CASE d \in Addressed /\ Fits(p, d)
  <2>1. q.supplied = Append(p.supplied, d) /\ q.bytes = p.bytes + Bytes[d]
    BY <1>3 DEF Extended
  <2>2. ToSet(q.supplied) = ToSet(p.supplied) \cup {d}
    BY <1>1, <2>1, AppendAdds
  <2>3. TotalBytes(q.supplied) = TotalBytes(p.supplied) + Bytes[d] /\ TotalBytes(p.supplied) \in Nat
    BY <1>1, <2>1, TotalAdds
  <2>4. q.bytes = QuestionBytes + TotalBytes(q.supplied) /\ q.bytes <= ContextLimit
    <3>1. QuestionBytes \in Nat /\ ContextLimit \in Nat /\ Bytes[d] \in Nat
      BY <1>1, QueryConstants
    <3>2. p.bytes = QuestionBytes + TotalBytes(p.supplied) /\ p.bytes + Bytes[d] <= ContextLimit
      BY <1>3 DEF Packs, Fits
    <3> HIDE DEF q, d
    <3> QED BY <1>1, <2>1, <2>3, <3>1, <3>2
  <2>5. ASSUME NEW e \in ToSet(q.supplied) PROVE \E i \in 1..(n + 1) : s[i] = e
    <3>1. CASE e = d BY <3>1
    <3>2. CASE e \in ToSet(p.supplied)
      <4>1. PICK i \in 1..n : s[i] = e BY <3>2 DEF Packs
      <4> QED BY <4>1
    <3> QED BY <2>2, <3>1, <3>2
  <2>6. ASSUME NEW i \in 1..(n + 1), s[i] \in Addressed, s[i] \notin ToSet(q.supplied)
        PROVE  q.bytes + Bytes[s[i]] > ContextLimit
    <3>1. i \in 1..n /\ s[i] \notin ToSet(p.supplied)
      BY <2>2, <2>6
    <3>2. p.bytes + Bytes[s[i]] > ContextLimit
      BY <2>6, <3>1 DEF Packs
    <3>3. Bytes[s[i]] \in Nat /\ Bytes[d] \in Nat /\ ContextLimit \in Nat
      BY <1>1, <3>1, QueryConstants
    <3> HIDE DEF q, d
    <3> QED BY <1>1, <2>1, <3>2, <3>3
  <2> HIDE DEF q, d
  <2> QED BY <1>2, <2>4, <2>5, <2>6 DEF Packs, q, d
<1>4. CASE ~(d \in Addressed /\ Fits(p, d))
  <2>1. q = p
    BY <1>4 DEF Extended
  <2>2. \A e \in ToSet(p.supplied) : \E i \in 1..(n + 1) : s[i] = e
    BY DEF Packs
  <2>3. ASSUME NEW i \in 1..(n + 1), s[i] \in Addressed, s[i] \notin ToSet(p.supplied)
        PROVE  p.bytes + Bytes[s[i]] > ContextLimit
    <3>1. CASE i \in 1..n BY <2>3, <3>1 DEF Packs
    <3>2. CASE i = n + 1
      <4>1. Bytes[d] \in Nat /\ ContextLimit \in Nat BY <1>1, QueryConstants
      <4> QED BY <1>1, <1>4, <2>3, <3>2, <4>1 DEF Fits
    <3> QED BY <3>1, <3>2
  <2> HIDE DEF q, d
  <2> QED BY <2>1, <2>2, <2>3 DEF Packs, q, d
<1> QED BY <1>3, <1>4

(* The whole packet: within the limit, and no hit left out would fit.      *)
LEMMA PacketPacks ==
  ASSUME NEW s \in Seq(Doc)
  PROVE  Packs(PacketOf(s), s, Len(s))
<1> DEFINE N == Len(s)
<1>1. N \in Nat
  OBVIOUS
<1> HIDE DEF N
<1>2. PICK acc \in [0..N -> PacketValues] :
        /\ acc[0] = Packet0 /\ acc[N] = PacketOf(s)
        /\ \A n \in 1..N : acc[n] = Extended(acc[n - 1], s[n])
  BY PacketRuns DEF N
<1> DEFINE G == {n \in 0..N : Packs(acc[n], s, n)}
<1>3. 0 \in G
  <2>1. /\ Packet0.supplied = <<>> /\ Packet0.bytes = QuestionBytes
        /\ ToSet(<<>>) = {} /\ TotalBytes(<<>>) = 0 /\ 1..0 = {}
    BY TotalAdds DEF Packet0, ToSet
  <2>2. Packs(Packet0, s, 0)
    BY <2>1, ExtendedIsPacket, QueryConstants DEF Packs
  <2> QED BY <1>1, <1>2, <2>2
<1>4. ASSUME NEW n \in 0..(N - 1), n \in G PROVE n + 1 \in G
  <2>1. n \in Nat /\ n + 1 \in 1..N /\ (n + 1) - 1 = n /\ n + 1 \in 0..N /\ Packs(acc[n], s, n)
    BY <1>1, <1>4
  <2>2. acc[n + 1] = Extended(acc[n], s[n + 1])
    BY <1>2, <2>1
  <2>3. Packs(Extended(acc[n], s[n + 1]), s, n + 1)
    BY <2>1, ExtendingPacks DEF N
  <2> QED BY <2>1, <2>2, <2>3
<1>5. Inductive(G, N)
  <2> HIDE DEF G
  <2> QED BY <1>3, <1>4 DEF Inductive
<1>6. N \in G
  <2> HIDE DEF G
  <2>1. \A n \in 0..N : n \in G
    BY <1>1, <1>5, NatInductionUpTo
  <2> QED BY <1>1, <2>1
<1> QED BY <1>2, <1>6 DEF N

-----------------------------------------------------------------------------
(* What a search finds, and what a reply takes from it.                    *)

Replied == reply.status \in {"answered", "abstained"}

CachedAreEligible ==
  \A i \in DOMAIN cache : cache[i].hits \in Seq(Eligible(cache[i].key))

FoundAreEligible == (pc = "found" \/ Replied) => hits \in Seq(Eligible(query))

FoundByFusion ==
  (pc = "found" /\ mode = "hybrid") => hits = Merged(DenseHits(query), LexicalHits(query))

RepliesFromThePacket ==
  Replied =>
    LET p == PacketOf(hits)
    IN  /\ reply.supplied = p.supplied /\ reply.omitted = Omitted(hits, p)
        /\ reply.cited \subseteq ToSet(p.supplied)
        /\ reply.status = "answered" => reply.cited # {}

Serving ==
  /\ nearest \in Seq(Doc) /\ lexical \in Seq(Doc) /\ index \subseteq Doc
  /\ CachedAreEligible /\ FoundAreEligible /\ FoundByFusion /\ RepliesFromThePacket

(* Both searches respect the filter, and the fusion adds nothing.          *)
LEMMA EligibleResults ==
  ASSUME Serving, NEW q
  PROVE  /\ DenseHits(q) \in Seq(Eligible(q)) /\ LexicalHits(q) \in Seq(Eligible(q))
         /\ Merged(DenseHits(q), LexicalHits(q)) \in Seq(Eligible(q))
         /\ Merged(<<>>, LexicalHits(q)) \in Seq(Eligible(q))
<1> DEFINE E == Eligible(q)
           a == 2 * K
           b == 3 * K
<1>1. IsFiniteSet(E) /\ IsFiniteSet(Doc)
  <2>1. E \in SUBSET Doc /\ IsFiniteSet(Doc)
    BY QueryConstants DEF Eligible, Serving
  <2> HIDE DEF E
  <2> QED BY <2>1, FS_Subset
<1>2. a \in Nat /\ b \in Nat
  BY QueryConstants
<1>3. ASSUME NEW s \in Seq(Doc) PROVE Ranked(s, q) \in Seq(E)
  <2>1. Ranked(s, q) \in Seq(ToSet(s) \cap E)
    BY <1>1, RankedIsOrdered
  <2> QED BY <2>1, SeqMonotonic
<1>4. nearest \in Seq(Doc) /\ lexical \in Seq(Doc)
  BY DEF Serving
<1> HIDE DEF E, a, b
<1>5. Ranked(nearest, q) \in Seq(E) /\ Ranked(lexical, q) \in Seq(E)
  BY <1>3, <1>4
<1>6. Top(Ranked(nearest, q), a) \in Seq(E) /\ Top(Ranked(lexical, q), b) \in Seq(E)
  <2>1. Top(Ranked(nearest, q), a) \in Seq(E)
    BY <1>2, <1>5, TopStarts
  <2>2. Top(Ranked(lexical, q), b) \in Seq(E)
    BY <1>2, <1>5, TopStarts
  <2> QED BY <2>1, <2>2
<1>7. DenseHits(q) \in Seq(E) /\ LexicalHits(q) \in Seq(E)
  BY <1>6 DEF DenseHits, LexicalHits, a, b
<1>8. ASSUME NEW D \in Seq(E), NEW L \in Seq(E) PROVE Merged(D, L) \in Seq(E)
  <2>1. Merged(D, L) \in Seq(ToSet(D) \cup ToSet(L))
    BY <1>1, MergedIsOrdered
  <2>2. ToSet(D) \cup ToSet(L) \subseteq E
    BY DEF ToSet
  <2> QED BY <2>1, <2>2, SeqMonotonic
<1>9. <<>> \in Seq(E)
  OBVIOUS
<1> QED BY <1>7, <1>8, <1>9 DEF E

(* The cache keeps what was found, under the question it was found for.    *)
LEMMA StoringKeepsHits ==
  ASSUME TypeOK, CachedAreEligible, index' = index, NEW q, NEW found \in Seq(Eligible(q)), NEW m,
         StoreResult(q, found, m)
  PROVE  CachedAreEligible'
<1>1. CASE CacheSize = 0
  BY <1>1 DEF StoreResult, CachedAreEligible, Eligible
<1>2. CASE CacheSize # 0
  <2> DEFINE e == [key |-> q, hits |-> found, dense |-> (m = "hybrid")]
             S == {x \in ToSet(cache) \cup {e} : x.hits \in Seq(Eligible(x.key))}
             c == Append(cache, e)
  <2>1. cache' = Kept(c)
    BY <1>2 DEF StoreResult
  <2>2. e \in S
    OBVIOUS
  <2>3. cache \in Seq(S)
    <3>1. /\ cache \in Seq(ToSet(cache)) /\ DOMAIN cache = 1..Len(cache)
          /\ Len(cache) \in Nat
      BY LenProperties DEF TypeOK
    <3>2. \A i \in 1..Len(cache) : cache[i] \in S
      BY <3>1 DEF CachedAreEligible, ToSet
    <3> HIDE DEF S
    <3>3. cache \in [1..Len(cache) -> S]
      BY <3>1, <3>2
    <3> QED BY <3>1, <3>3, SeqDef
  <2> HIDE DEF e, S
  <2>4. c \in Seq(S) /\ Len(c) = Len(cache) + 1 /\ Len(cache) \in Nat
    BY <2>2, <2>3, AppendProperties, LenProperties
  <2> HIDE DEF c
  <2>5. Kept(c) \in Seq(S)
    <3>1. CASE Len(c) > CacheSize
      <4>1. c # <<>>
        BY <2>4, EmptySeq
      <4> QED BY <2>4, <3>1, <4>1, HeadTailProperties DEF Kept
    <3>2. CASE ~(Len(c) > CacheSize) BY <2>4, <3>2 DEF Kept
    <3> QED BY <3>1, <3>2
  <2>6. \A i \in DOMAIN cache' : cache'[i] \in S
    BY <2>1, <2>5, ElementOfSeq, LenProperties
  <2>7. \A i \in DOMAIN cache' : cache'[i].hits \in Seq(Eligible(cache'[i].key))
    BY <2>6 DEF S
  <2> QED BY <2>7 DEF CachedAreEligible, Eligible
<1> QED BY <1>1, <1>2

(* A new search. *)
LEMMA SearchingServes ==
  ASSUME TypeOK, Serving, NEW q, NEW found \in Seq(Eligible(q)), NEW m,
         m = "hybrid" => found = Merged(DenseHits(q), LexicalHits(q)), NEW v,
         Found(q, found, m, "none", v), StoreResult(q, found, m)
  PROVE  Serving'
<1>1. UNCHANGED store /\ query' = q /\ hits' = found /\ mode' = m /\ reply' = NoReply
  BY DEF Found
<1>2. nearest' = nearest /\ lexical' = lexical /\ index' = index
  BY <1>1 DEF store
<1>3. CachedAreEligible'
  BY <1>2, StoringKeepsHits DEF Serving
<1>4. FoundAreEligible'
  BY <1>1, <1>2 DEF FoundAreEligible, Eligible
<1>5. FoundByFusion'
  <2>1. DenseHits(query)' = DenseHits(q) /\ LexicalHits(query)' = LexicalHits(q)
    BY <1>1, <1>2 DEF DenseHits, LexicalHits, Ranked, Ordered, Eligible
  <2> QED BY <1>1, <2>1 DEF FoundByFusion
<1>6. RepliesFromThePacket'
  BY <1>1 DEF RepliesFromThePacket, Replied, NoReply
<1> QED BY <1>2, <1>3, <1>4, <1>5, <1>6 DEF Serving

(* An answer. *)
LEMMA AnsweringServes ==
  ASSUME Serving, Answer
  PROVE  Serving'
<1>1. pc = "found" /\ pc' = "idle" /\ UNCHANGED <<store, search>>
  BY DEF Answer, AnswerWithoutEvidence, AnswerFromEvidence, AnswerFails
<1>2. /\ nearest' = nearest /\ lexical' = lexical /\ index' = index /\ cache' = cache
      /\ query' = query /\ hits' = hits
  BY <1>1 DEF store, search
<1>3. CachedAreEligible'
  BY <1>2 DEF Serving, CachedAreEligible, Eligible
<1>4. FoundAreEligible'
  BY <1>1, <1>2 DEF Serving, FoundAreEligible, Eligible
<1>5. FoundByFusion'
  BY <1>1 DEF FoundByFusion
<1>6. RepliesFromThePacket'
  <2> DEFINE p == PacketOf(hits)
             Failed == reply' = [NoReply EXCEPT !.status = "failed"]
             Told == /\ reply'.supplied = p.supplied /\ reply'.omitted = Omitted(hits, p)
                     /\ reply'.cited \subseteq ToSet(p.supplied)
                     /\ reply'.status = "answered" => reply'.cited # {}
  <2>1. ASSUME NEW how \in {"answered", "abstained"}, NEW cited, Reply(how, p, cited),
               cited \subseteq ToSet(p.supplied), how = "answered" => cited # {}
        PROVE  Told
    <3> HIDE DEF p
    <3> QED BY <2>1 DEF Reply
  <2>2. ASSUME AnswerWithoutEvidence PROVE Told
    <3>1. Reply("abstained", p, {})
      BY <2>2 DEF AnswerWithoutEvidence
    <3> HIDE DEF p, Told
    <3> QED BY <2>1, <3>1
  <2>3. ASSUME NEW cited \in SUBSET Doc, NEW abstained \in BOOLEAN,
               AnswerFromEvidence(cited, abstained)
        PROVE  Failed \/ Told
    <3>1. \/ Failed
          \/ /\ Reply(IF abstained THEN "abstained" ELSE "answered", p, cited)
             /\ Valid(p, cited, abstained)
      BY <2>3 DEF AnswerFromEvidence
    <3> HIDE DEF p, Failed, Told
    <3>2. CASE Reply("abstained", p, cited) /\ Valid(p, cited, abstained)
      BY <2>1, <3>2 DEF Valid
    <3>3. CASE ~abstained /\ Reply("answered", p, cited) /\ Valid(p, cited, abstained)
      BY <2>1, <3>3 DEF Valid
    <3> QED BY <3>1, <3>2, <3>3
  <2>4. ASSUME AnswerFails PROVE Failed
    <3> HIDE DEF p, Told
    <3> QED BY <2>4 DEF AnswerFails
  <2>5. Failed \/ Told
    <3> HIDE DEF p, Failed, Told
    <3> QED BY <2>2, <2>3, <2>4 DEF Answer
  <2>6. PacketOf(hits)' = p
    BY <1>2
  <2>7. CASE Failed
    BY <2>7 DEF RepliesFromThePacket, Replied, NoReply
  <2> HIDE DEF p, Failed
  <2> QED BY <1>2, <2>5, <2>6, <2>7 DEF RepliesFromThePacket, Replied, Omitted
<1> QED BY <1>2, <1>3, <1>4, <1>5, <1>6 DEF Serving

(* The hits and what is told of them only change with a search or a reply; *)
(* a commit widens what is eligible.                                       *)
LEMMA StepsServe ==
  ASSUME TypeOK, Serving, [Next]_vars
  PROVE  Serving'
<1>1. ASSUME UNCHANGED <<store, cache, query, hits, mode, pc, reply>> PROVE Serving'
  <2>1. /\ nearest' = nearest /\ lexical' = lexical /\ index' = index /\ cache' = cache
        /\ query' = query /\ hits' = hits /\ mode' = mode /\ pc' = pc /\ reply' = reply
    BY <1>1 DEF store
  <2>2. CachedAreEligible' BY <2>1 DEF Serving, CachedAreEligible, Eligible
  <2>3. FoundAreEligible' BY <2>1 DEF Serving, FoundAreEligible, Eligible, Replied
  <2>4. FoundByFusion'
    <3>1. DenseHits(query)' = DenseHits(query) /\ LexicalHits(query)' = LexicalHits(query)
      BY <2>1 DEF DenseHits, LexicalHits, Ranked, Ordered, Eligible
    <3> QED BY <2>1, <3>1 DEF Serving, FoundByFusion
  <2>5. RepliesFromThePacket'
    <3>1. PacketOf(hits)' = PacketOf(hits)
      BY <2>1
    <3> QED BY <2>1, <3>1 DEF Serving, RepliesFromThePacket, Replied, Omitted
  <2> QED BY <2>1, <2>2, <2>3, <2>4, <2>5 DEF Serving
<1>2. ASSUME NEW q \in Query, SearchCached(q) PROVE Serving'
  <2>1. PICK i \in DOMAIN cache :
          /\ cache[i].key = q
          /\ cache' = Append(RemoveAt(cache, i), cache[i])
          /\ Found(q, cache[i].hits, "cache", telemetry[q], cache[i].dense)
    BY <1>2 DEF SearchCached, Cached
  <2>2. /\ nearest' = nearest /\ lexical' = lexical /\ index' = index /\ query' = q
        /\ hits' = cache[i].hits /\ mode' = "cache" /\ reply' = NoReply
    BY <2>1 DEF Found, store
  <2>3. \A j \in DOMAIN cache' : cache'[j] \in ToSet(cache)
    <3>1. cache \in Seq(ToSet(cache))
      BY DEF TypeOK
    <3>2. cache' \in Seq(ToSet(cache))
      BY <2>1, <3>1, MovingToTheEnd
    <3> QED BY <3>2, ElementOfSeq, LenProperties
  <2>4. CachedAreEligible'
    BY <2>2, <2>3 DEF Serving, CachedAreEligible, Eligible, ToSet
  <2>5. FoundAreEligible'
    BY <2>1, <2>2 DEF Serving, FoundAreEligible, CachedAreEligible, Eligible
  <2>6. FoundByFusion' /\ RepliesFromThePacket'
    BY <2>2 DEF FoundByFusion, RepliesFromThePacket, Replied, NoReply
  <2> QED BY <2>2, <2>4, <2>5, <2>6 DEF Serving
<1>3. ASSUME NEW q \in Query, SearchSkipsVectors(q) PROVE Serving'
  <2> DEFINE found == Merged(<<>>, LexicalHits(q))
  <2>1. found \in Seq(Eligible(q))
    BY EligibleResults
  <2> HIDE DEF found
  <2>2. Found(q, found, "bm25_only", "none", FALSE) /\ StoreResult(q, found, "bm25_only")
    BY <1>3 DEF SearchSkipsVectors, found
  <2> QED BY <2>1, <2>2, SearchingServes
<1>4. ASSUME NEW q \in Query, SearchHybrid(q) PROVE Serving'
  <2> DEFINE found == Merged(DenseHits(q), LexicalHits(q))
  <2>1. found \in Seq(Eligible(q))
    BY EligibleResults
  <2> HIDE DEF found
  <2>2. Found(q, found, "hybrid", "none", TRUE) /\ StoreResult(q, found, "hybrid")
    BY <1>4 DEF SearchHybrid, found
  <2> QED BY <2>1, <2>2, SearchingServes DEF found
<1>5. ASSUME NEW q \in Query, NEW error, SearchFallsBack(q, error) PROVE Serving'
  <2> DEFINE found == Merged(<<>>, LexicalHits(q))
  <2>1. found \in Seq(Eligible(q))
    BY EligibleResults
  <2> HIDE DEF found
  <2>2. Found(q, found, "bm25_fallback", "none", FALSE) /\ StoreResult(q, found, "bm25_fallback")
    BY <1>5 DEF SearchFallsBack, found
  <2> QED BY <2>1, <2>2, SearchingServes
<1>6. ASSUME NEW q \in Query, SearchFails(q) PROVE Serving'
  <2>1. /\ nearest' = nearest /\ lexical' = lexical /\ index' = index /\ cache' = cache
        /\ pc' = "idle" /\ reply'.status = "failed"
    BY <1>6 DEF SearchFails, TriesVectors, store, NoReply
  <2>2. CachedAreEligible' BY <2>1 DEF Serving, CachedAreEligible, Eligible
  <2>3. FoundAreEligible' /\ FoundByFusion' /\ RepliesFromThePacket'
    BY <2>1 DEF FoundAreEligible, FoundByFusion, RepliesFromThePacket, Replied
  <2> QED BY <2>1, <2>2, <2>3 DEF Serving
<1>7. CASE Answer BY <1>7, AnsweringServes
<1>8. ASSUME NEW added \in SUBSET Doc, Commit(added) PROVE Serving'
  <2>1. /\ nearest' = nearest /\ lexical' = lexical /\ index' = index \cup added
        /\ cache' = <<>> /\ query' = query /\ hits' = hits
        /\ pc' = "idle" /\ reply' = reply
    BY <1>8 DEF Commit
  <2>2. CachedAreEligible' BY <2>1 DEF CachedAreEligible
  <2>3. FoundAreEligible'
    <3>1. ASSUME Replied PROVE hits \in Seq(Eligible(query)')
      <4>1. hits \in Seq(Eligible(query)) BY <3>1 DEF Serving, FoundAreEligible
      <4>2. Eligible(query) \subseteq Eligible(query)' BY <2>1 DEF Eligible
      <4> QED BY <4>1, <4>2, SeqMonotonic
    <3> QED BY <2>1, <3>1 DEF FoundAreEligible, Replied
  <2>4. FoundByFusion' BY <2>1 DEF FoundByFusion
  <2>5. RepliesFromThePacket'
    <3>1. PacketOf(hits)' = PacketOf(hits) BY <2>1
    <3> QED BY <2>1, <3>1 DEF Serving, RepliesFromThePacket, Replied, Omitted
  <2> QED BY <2>1, <2>2, <2>3, <2>4, <2>5 DEF Serving
<1>9. CASE CooldownPasses BY <1>1, <1>9 DEF CooldownPasses
<1>10. CASE UNCHANGED vars BY <1>1, <1>10 DEF vars, search
<1> QED BY <1>2, <1>3, <1>4, <1>5, <1>6, <1>7, <1>8, <1>9, <1>10 DEF Next, Serve

LEMMA StartsServing == Init => Serving
<1> SUFFICES ASSUME Init PROVE Serving
  OBVIOUS
<1>1. nearest \in Seq(Doc) /\ index \subseteq Doc
  BY QueryConstants DEF Init
<1>2. lexical \in Seq(Doc)
  <2>1. PICK S \in SUBSET Doc : lexical \in SetToSeqs(S)
    BY DEF Init
  <2>2. lexical \in [1..Cardinality(S) -> S]
    BY <2>1 DEF SetToSeqs
  <2>3. IsFiniteSet(S)
    BY QueryConstants, FS_Subset
  <2>4. Cardinality(S) \in Nat
    BY <2>3, FS_CardinalityType
  <2> DEFINE n == Cardinality(S)
  <2>5. n \in Nat /\ lexical \in [1..n -> S]
    BY <2>2, <2>4
  <2> HIDE DEF n
  <2>6. lexical \in [1..n -> Doc]
    BY <2>5
  <2> QED BY <2>5, <2>6, SeqDef
<1>3. cache = <<>> /\ pc = "idle" /\ reply = NoReply
  BY DEF Init
<1>4. CachedAreEligible /\ FoundAreEligible /\ FoundByFusion /\ RepliesFromThePacket
  BY <1>3 DEF CachedAreEligible, FoundAreEligible, FoundByFusion, RepliesFromThePacket,
              Replied, NoReply
<1> QED BY <1>1, <1>2, <1>4 DEF Serving

LEMMA ServingIsInvariant == Spec => []Serving
<1>1. TypeOK /\ Serving /\ [Next]_vars => Serving' BY StepsServe
<1> QED BY StartsServing, <1>1, QueryTypesHold, PTL DEF Spec

-----------------------------------------------------------------------------
(* A hybrid search returns each document once, and a document that neither *)
(* ranking puts behind another and one puts ahead of it comes before it in *)
(* the results, for every pair of rankings, filter and size of the search. *)
THEOREM FusionAlwaysRespectsRankings == Spec => []FusionRespectsRankings
<1>1. Serving => FusionRespectsRankings
  <2> SUFFICES ASSUME Serving, pc = "found", mode = "hybrid"
               PROVE  FusionRespectsRankings
    BY DEF FusionRespectsRankings
  <2> DEFINE D == DenseHits(query)
             L == LexicalHits(query)
             E == Eligible(query)
  <2>1. D \in Seq(E) /\ L \in Seq(E) /\ hits = Merged(D, L)
    BY EligibleResults DEF Serving, FoundByFusion
  <2>2. IsFiniteSet(E)
    <3>1. E \in SUBSET Doc /\ IsFiniteSet(Doc)
      BY QueryConstants DEF Eligible, Serving
    <3> HIDE DEF E
    <3> QED BY <3>1, FS_Subset
  <2> HIDE DEF D, L, E
  <2>3. /\ IsInjective(Merged(D, L))
        /\ \A d, e \in ToSet(D) \cup ToSet(L) :
             Exceeds(Score(d, D, L), Score(e, D, L)) /\ e \in ToSet(Merged(D, L)) =>
               /\ d \in ToSet(Merged(D, L))
               /\ Place(Merged(D, L), d) < Place(Merged(D, L), e)
    BY <2>1, <2>2, MergedIsOrdered
  <2>4. ASSUME NEW d \in ToSet(D) \cup ToSet(L), NEW e \in ToSet(D) \cup ToSet(L),
               ~(Place(D, d) > Place(D, e)), ~(Place(L, d) > Place(L, e)),
               Place(D, e) > Place(D, d) \/ Place(L, e) > Place(L, d),
               e \in ToSet(hits)
        PROVE  d \in ToSet(hits) /\ Place(hits, d) < Place(hits, e)
    <3>1. /\ Place(D, d) \in 1..(Len(D) + 1) /\ Place(D, e) \in 1..(Len(D) + 1)
          /\ Place(L, d) \in 1..(Len(L) + 1) /\ Place(L, e) \in 1..(Len(L) + 1)
      BY <2>1, PlacesAreNumbers
    <3>2. /\ Place(D, d) <= Place(D, e) /\ Place(L, d) <= Place(L, e)
          /\ Place(D, d) < Place(D, e) \/ Place(L, d) < Place(L, e)
      BY <2>4, <3>1
    <3>3. Exceeds(Score(d, D, L), Score(e, D, L))
      BY <2>1, <3>2, ScoreFollowsRanks
    <3> QED BY <2>1, <2>3, <2>4, <3>3
  <2>5. IsInjective(hits)
    BY <2>1, <2>3
  <2> QED BY <2>4, <2>5 DEF FusionRespectsRankings, D, L
<1> QED BY ServingIsInvariant, <1>1, PTL

(* Every packet is within its limit and accounts for every hit, and none   *)
(* that was left out despite its identity would still have fitted: for     *)
(* every size of the documents and of the limit.                           *)
THEOREM PacketIsAlwaysMaximal == Spec => []PacketIsMaximal
<1>1. Serving => PacketIsMaximal
  <2> SUFFICES ASSUME Serving, Replied PROVE PacketIsMaximal
    BY DEF PacketIsMaximal, Replied
  <2> DEFINE p == PacketOf(hits)
             n == Len(hits)
  <2>1. hits \in Seq(Doc)
    <3>1. hits \in Seq(Eligible(query)) /\ Eligible(query) \subseteq Doc
      BY DEF Serving, FoundAreEligible, Eligible
    <3> QED BY <3>1, SeqMonotonic
  <2>2. Packs(p, hits, n)
    BY <2>1, PacketPacks
  <2>3. reply.supplied = p.supplied /\ reply.omitted = ToSet(hits) \ ToSet(p.supplied)
    BY DEF Serving, RepliesFromThePacket, Omitted
  <2>4. \A d : d \in ToSet(hits) <=> \E i \in 1..n : hits[i] = d
    BY <2>1 DEF ToSet
  <2> HIDE DEF p, n
  <2>5. ToSet(p.supplied) \subseteq ToSet(hits)
    BY <2>2, <2>4 DEF Packs
  <2>6. \A d \in ToSet(hits) \ ToSet(p.supplied) :
          d \in Addressed => p.bytes + Bytes[d] > ContextLimit
    BY <2>2, <2>4 DEF Packs
  <2>7. p.bytes = QuestionBytes + TotalBytes(p.supplied) /\ p.bytes <= ContextLimit
    BY <2>2 DEF Packs
  <2> QED BY <2>3, <2>5, <2>6, <2>7 DEF PacketIsMaximal
<1> QED BY ServingIsInvariant, <1>1, PTL

(* A reply cites what the model was given, and the model was only given    *)
(* what is committed and what the caller's filter admits: whether the hits *)
(* come from a search or from the cache, across evictions and commits.     *)
THEOREM CitationsAreAlwaysGrounded == Spec => []CitationsAreGrounded
<1>1. Serving => CitationsAreGrounded
  <2> SUFFICES ASSUME Serving, Replied PROVE CitationsAreGrounded
    BY DEF CitationsAreGrounded, Replied
  <2> DEFINE p == PacketOf(hits)
             n == Len(hits)
  <2>1. hits \in Seq(Eligible(query)) /\ Eligible(query) \subseteq Doc
    BY DEF Serving, FoundAreEligible, Eligible
  <2>2. hits \in Seq(Doc)
    BY <2>1, SeqMonotonic
  <2>3. Packs(p, hits, n)
    BY <2>2, PacketPacks
  <2>4. \A i \in 1..n : hits[i] \in Eligible(query)
    BY <2>1
  <2>5. /\ reply.supplied = p.supplied /\ reply.cited \subseteq ToSet(p.supplied)
        /\ reply.status = "answered" => reply.cited # {}
    BY DEF Serving, RepliesFromThePacket
  <2> HIDE DEF p, n
  <2>6. ToSet(p.supplied) \subseteq Eligible(query)
    BY <2>3, <2>4 DEF Packs
  <2> QED BY <2>5, <2>6 DEF CitationsAreGrounded
<1> QED BY ServingIsInvariant, <1>1, PTL
=============================================================================
