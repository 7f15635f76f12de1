----------------------------- MODULE QueryService -----------------------------
(***************************************************************************)
(* The query path of the default application: one scoped hybrid search     *)
(* (search, its result cache and the capacity cooldown in                  *)
(* src/storage/vector_store.py, the rank fusion in search_merge.py), the   *)
(* evidence packet and the checked answer (src/agent/simple_rag.py), and   *)
(* the disclosure of a degraded search (src/api/financial_router.py).      *)
(*                                                                         *)
(* The operation lock admits one query or ingest at a time; what an ingest *)
(* does to the files is FilingStore's subject, here it commits documents.  *)
(***************************************************************************)
EXTENDS Naturals, FiniteSets, SequencesExt

CONSTANTS
  Query,         \* a question with its report scope: one cache key each
  Doc,           \* source documents
  Scope,         \* Scope[q]: documents the scope filter of q admits
  Addressed,     \* documents with a source identity and text
  Bytes,         \* Bytes[d]: what d adds to the encoded packet
  QuestionBytes, \* the packet without documents
  ContextLimit,  \* max_context_bytes
  K,             \* search size (8 in the application)
  KRRF,          \* rank constant of the fusion (60)
  CacheSize,     \* search_cache_size
  Fallback,      \* allow_query_embedding_fallback
  Bm25Only,      \* force_bm25_only
  Cools,         \* vector_capacity_cooldown_sec > 0
  StartIndex,    \* documents committed at startup
  Rankings       \* orders in which the vector search may rank documents

ASSUME QueryConstants ==
  /\ Query # {}
  /\ IsFiniteSet(Doc) /\ Addressed \subseteq Doc /\ StartIndex \subseteq Doc
  /\ Scope \in [Query -> SUBSET Doc]
  /\ Bytes \in [Doc -> Nat] /\ QuestionBytes \in Nat
  /\ ContextLimit \in Nat /\ QuestionBytes <= ContextLimit
  /\ K \in Nat \ {0} /\ KRRF \in Nat /\ CacheSize \in Nat
  /\ \A s \in Rankings : s \in Seq(Doc) /\ IsInjective(s) /\ ToSet(s) = Doc
  /\ Fallback \in BOOLEAN /\ Bm25Only \in BOOLEAN /\ Cools \in BOOLEAN

VARIABLES
  nearest,     \* all documents, nearest vector first
  lexical,     \* documents BM25 scores above zero, best first
  index,       \* documents committed to the store
  cooling,     \* the capacity cooldown has not yet passed
  cache,       \* search results by key, least recently used first
  telemetry,   \* the retrieval mode kept for each key, or "none"
  pc,          \* "idle" or "found": hits wait for their answer
  query,       \* the query being served, or the last one
  hits,        \* its search results
  mode,        \* retrieval_mode of last_search_telemetry
  cachedMode,  \* its cached_retrieval_mode
  dense,       \* history: the results of hits used the vector search
  reply        \* the last reply

store  == <<nearest, lexical, index>>
search == <<cooling, cache, telemetry, query, hits, mode, cachedMode, dense>>
vars   == <<store, search, pc, reply>>

Degraded == {"bm25_only", "bm25_fallback"}
Modes    == {"hybrid", "none"} \cup Degraded

NoReply == [status |-> "none", degraded |-> FALSE, supplied |-> <<>>,
            omitted |-> {}, cited |-> {}]

-----------------------------------------------------------------------------
(* The two rankings a search reads, and their fusion.                      *)

Eligible(q) == index \cap Scope[q]

(* The members of S one after the other; ahead[d] are those ahead of d. *)
Ordered(S, ahead) ==
  LET ranked == {<<d, Cardinality(ahead[d])>> : d \in S}
  IN  [r \in 1..Cardinality(S) |-> CHOOSE d \in S : <<d, r - 1>> \in ranked]

(* Where s has d; past its end if it does not. *)
Place(s, d) ==
  IF d \in ToSet(s) THEN CHOOSE i \in DOMAIN s : s[i] = d ELSE Len(s) + 1

Ranked(s, q) ==
  LET S == ToSet(s) \cap Eligible(q)
  IN  Ordered(S, [d \in S |-> {e \in S : Place(s, e) < Place(s, d)}])

Top(s, n) == SubSeq(s, 1, IF Len(s) < n THEN Len(s) ELSE n)

DenseHits(q)   == Top(Ranked(nearest, q), 2 * K)
LexicalHits(q) == Top(Ranked(lexical, q), 3 * K)

(* Reciprocal ranks as fractions <<numerator, denominator>>. *)
Reciprocal(s, d) == IF d \in ToSet(s) THEN <<1, KRRF + Place(s, d)>> ELSE <<0, 1>>

Exceeds(a, b) == a[1] * b[2] > b[1] * a[2]

Sum2(a, b) == <<a[1] * b[2] + b[1] * a[2], a[2] * b[2]>>

\* Mutant: the lexical score replaces the dense one instead of adding to it.
Score_LexicalWins(d, dlist, llist) ==
  IF d \in ToSet(llist) THEN Reciprocal(llist, d) ELSE Reciprocal(dlist, d)

Score(d, dlist, llist) == Sum2(Reciprocal(dlist, d), Reciprocal(llist, d))

(* merge_rrf_results: by falling score; equal scores stay in the order the *)
(* lists name them, vector results first.                                  *)
Merged(dlist, llist) ==
  LET named    == dlist \o llist
      S        == ToSet(named)
      score(d) == Score(d, dlist, llist)
      ahead(d, e) ==
        LET a == score(d)
            b == score(e)
        IN  \/ Exceeds(a, b)
            \/ ~Exceeds(b, a) /\ Place(named, d) < Place(named, e)
  IN  Top(Ordered(S, [d \in S |-> {e \in S : ahead(e, d)}]), K)

-----------------------------------------------------------------------------
(* The result cache: an ordered dictionary and its mode dictionary.        *)

Cached(q) == {i \in DOMAIN cache : cache[i].key = q}

(* Evict the least recently used entry above search_cache_size. *)
Kept(c) == IF Len(c) > CacheSize THEN Tail(c) ELSE c

ModesKept(q, m) ==
  LET evicted == IF Len(cache) >= CacheSize /\ cache # <<>>
                 THEN {cache[1].key} ELSE {}
  IN  [p \in Query |-> IF p = q THEN m
                       ELSE IF p \in evicted THEN "none" ELSE telemetry[p]]

(* _store_cached_search, for a key that is not cached. *)
StoreResult(q, found, m) ==
  IF CacheSize = 0 THEN UNCHANGED <<cache, telemetry>>
  ELSE /\ cache' = Kept(Append(cache, [key   |-> q,
                                       hits  |-> found,
                                       dense |-> (m = "hybrid")]))
       /\ telemetry' = ModesKept(q, m)

-----------------------------------------------------------------------------
(* The evidence packet: documents in rank order, each taken if it still    *)
(* fits.                                                                   *)

TotalBytes(ds) == FoldLeft(LAMBDA sum, d : sum + Bytes[d], 0, ds)

Packet0 == [supplied |-> <<>>, bytes |-> QuestionBytes]

Fits(p, d) == p.bytes + Bytes[d] <= ContextLimit

Extended(p, d) ==
  IF d \in Addressed /\ Fits(p, d)
  THEN [supplied |-> Append(p.supplied, d), bytes |-> p.bytes + Bytes[d]]
  ELSE p

\* Mutant: assembly stops at the first document that does not fit.
PacketOf_Stops(found) ==
  LET named  == SelectSeq(found, LAMBDA d : d \in Addressed)
      size(n) == QuestionBytes + TotalBytes(SubSeq(named, 1, n))
      most   == CHOOSE n \in 0..Len(named) :
                  /\ size(n) <= ContextLimit
                  /\ n < Len(named) => size(n + 1) > ContextLimit
  IN  [supplied |-> SubSeq(named, 1, most), bytes |-> size(most)]

PacketOf(found) == FoldLeft(Extended, Packet0, found)

-----------------------------------------------------------------------------
(* BM25 may score any of the documents above zero, in any order.           *)
Init ==
  /\ nearest \in Rankings
  /\ lexical \in UNION {SetToSeqs(S) : S \in SUBSET Doc}
  /\ index = StartIndex
  /\ cooling = FALSE /\ cache = <<>> /\ telemetry = [q \in Query |-> "none"]
  /\ pc = "idle" /\ query = (CHOOSE q \in Query : TRUE) /\ hits = <<>>
  /\ mode = "none" /\ cachedMode = "none" /\ dense = FALSE
  /\ reply = NoReply

Found(q, results, m, fromCache, vector) ==
  /\ pc' = "found" /\ query' = q /\ hits' = results /\ dense' = vector
  /\ mode' = m /\ cachedMode' = fromCache
  /\ reply' = NoReply
  /\ UNCHANGED store

SearchCached(q) ==
  /\ pc = "idle"
  /\ \E i \in Cached(q) :
       /\ cache' = Append(RemoveAt(cache, i), cache[i])
       /\ Found(q, cache[i].hits, "cache", telemetry[q], cache[i].dense)
  /\ UNCHANGED <<cooling, telemetry>>

(* A search without vectors, because it is configured or cooling down.     *)
SearchSkipsVectors(q) ==
  /\ pc = "idle" /\ Cached(q) = {}
  /\ Bm25Only \/ (Fallback /\ cooling)
  /\ LET found == Merged(<<>>, LexicalHits(q))
     IN  /\ Found(q, found, "bm25_only", "none", FALSE)
         /\ StoreResult(q, found, "bm25_only")
  /\ UNCHANGED cooling

TriesVectors(q) ==
  /\ pc = "idle" /\ Cached(q) = {}
  /\ ~Bm25Only /\ ~(Fallback /\ cooling)

SearchHybrid(q) ==
  /\ TriesVectors(q)
  /\ LET found == Merged(DenseHits(q), LexicalHits(q))
     IN  /\ Found(q, found, "hybrid", "none", TRUE)
         /\ StoreResult(q, found, "hybrid")
  /\ UNCHANGED cooling

(* A capacity error, which opens the cooldown, or a vector store read      *)
(* error falls back to BM25 under the same filter.                         *)
SearchFallsBack(q, error) ==
  /\ TriesVectors(q) /\ Fallback
  /\ LET found == Merged(<<>>, LexicalHits(q))
     IN  /\ Found(q, found, "bm25_fallback", "none", FALSE)
         /\ StoreResult(q, found, "bm25_fallback")
  /\ cooling' = (cooling \/ (error = "capacity" /\ Cools))

(* Any other error, or any error without fallback, fails the request: no   *)
(* result is kept and the last telemetry stays as it was.                  *)
SearchFails(q) ==
  /\ TriesVectors(q)
  /\ query' = q
  /\ reply' = [NoReply EXCEPT !.status = "failed"]
  /\ UNCHANGED <<store, cooling, cache, telemetry, hits, mode, cachedMode,
                 dense, pc>>

CooldownPasses ==
  /\ cooling
  /\ cooling' = FALSE
  /\ UNCHANGED <<store, cache, telemetry, query, hits, mode, cachedMode,
                 dense, pc, reply>>

-----------------------------------------------------------------------------
\* Mutant: a cached result is reported by the mode of the lookup itself.
RetrievalMode_LookupOnly == mode

RetrievalMode == IF mode = "cache" THEN cachedMode ELSE mode

Omitted(found, p) == ToSet(found) \ ToSet(p.supplied)

Reply(how, p, cited) ==
  reply' = [status   |-> how,
            degraded |-> RetrievalMode \in Degraded,
            supplied |-> p.supplied,
            omitted  |-> Omitted(hits, p),
            cited    |-> cited]

\* Mutant: citations are not compared with what was supplied.
Valid_AnyCitation(p, cited, abstained) == abstained \/ cited # {}

(* The answer's checks: only supplied sources are cited, and an answer     *)
(* that does not abstain cites at least one.                               *)
Valid(p, cited, abstained) ==
  /\ cited \subseteq ToSet(p.supplied)
  /\ abstained \/ cited # {}

(* Nothing supplied: the request abstains without calling the model.       *)
AnswerWithoutEvidence ==
  /\ pc = "found"
  /\ PacketOf(hits).supplied = <<>>
  /\ Reply("abstained", PacketOf(hits), {})
  /\ pc' = "idle"
  /\ UNCHANGED <<store, search>>

(* The model may cite anything; an invalid answer fails the request. *)
AnswerFromEvidence(cited, abstained) ==
  /\ pc = "found"
  /\ PacketOf(hits).supplied # <<>>
  /\ IF Valid(PacketOf(hits), cited, abstained)
     THEN Reply(IF abstained THEN "abstained" ELSE "answered",
                PacketOf(hits), cited)
     ELSE reply' = [NoReply EXCEPT !.status = "failed"]
  /\ pc' = "idle"
  /\ UNCHANGED <<store, search>>

(* The model call itself fails. *)
AnswerFails ==
  /\ pc = "found"
  /\ PacketOf(hits).supplied # <<>>
  /\ reply' = [NoReply EXCEPT !.status = "failed"]
  /\ pc' = "idle"
  /\ UNCHANGED <<store, search>>

(* An ingest commits documents to the graph: both caches are emptied.      *)
Commit(added) ==
  /\ pc = "idle"
  /\ added # {} /\ added \cap index = {}
  /\ index' = index \cup added
  /\ cache' = <<>>
  /\ telemetry' = [q \in Query |-> "none"]
  /\ UNCHANGED <<nearest, lexical, cooling, query, hits, mode, cachedMode,
                 dense, pc, reply>>

-----------------------------------------------------------------------------
Serve(q) ==
  \/ SearchCached(q) \/ SearchSkipsVectors(q) \/ SearchHybrid(q)
  \/ \E error \in {"capacity", "read"} : SearchFallsBack(q, error)
  \/ SearchFails(q)

Answer ==
  \/ AnswerWithoutEvidence
  \/ \E cited \in SUBSET Doc, abstained \in BOOLEAN :
       AnswerFromEvidence(cited, abstained)
  \/ AnswerFails

Next ==
  \/ \E q \in Query : Serve(q)
  \/ Answer
  \/ CooldownPasses
  \/ \E added \in SUBSET Doc : Commit(added)

Spec == Init /\ [][Next]_vars

-----------------------------------------------------------------------------
(* The type of every variable but the results themselves.                  *)
TypeOK ==
  /\ index \subseteq Doc /\ cooling \in BOOLEAN
  /\ cache \in Seq(ToSet(cache))
  /\ \A i \in DOMAIN cache : cache[i].key \in Query /\ cache[i].dense \in BOOLEAN
  /\ telemetry \in [Query -> Modes]
  /\ pc \in {"idle", "found"} /\ query \in Query
  /\ mode \in Modes \cup {"cache"} /\ cachedMode \in Modes
  /\ dense \in BOOLEAN

(* Every reply drawn from results that no vector search took part in says  *)
(* so, and no other does: also when those results come from the cache long *)
(* after the cooldown, survived evictions and follow failed requests.      *)
DegradedAnswerDisclosed ==
  reply.status \in {"answered", "abstained"} => (reply.degraded <=> ~dense)

(* The mode dictionary has exactly the keys of the result cache, so it is  *)
(* bounded with it and a hit always knows how its results were computed.   *)
TelemetryFollowsCache ==
  /\ Len(cache) <= CacheSize
  /\ \A q \in Query :
       telemetry[q] # "none" <=> \E i \in DOMAIN cache : cache[i].key = q

(* The fusion respects the rankings: it names no document twice, and one   *)
(* that neither list ranks behind another, and one ranks ahead of it, is   *)
(* never returned after it nor cut off while the other is returned.        *)
FusionRespectsRankings ==
  (pc = "found" /\ mode = "hybrid") =>
    LET behind(s, d, e) == Place(s, d) > Place(s, e)
        D == DenseHits(query)
        L == LexicalHits(query)
    IN  IsInjective(hits) /\ \A d, e \in ToSet(D) \cup ToSet(L) :
          (/\ ~behind(D, d, e) /\ ~behind(L, d, e)
           /\ behind(D, e, d) \/ behind(L, e, d)
           /\ e \in ToSet(hits))
          => /\ d \in ToSet(hits)
             /\ Place(hits, d) < Place(hits, e)

(* Every search hit is supplied or reported as omitted, and a document     *)
(* omitted although it has an identity would not have fitted beside what   *)
(* was supplied.                                                           *)
PacketIsMaximal ==
  reply.status \in {"answered", "abstained"} =>
    LET used == QuestionBytes + TotalBytes(reply.supplied)
    IN  /\ used <= ContextLimit
        /\ ToSet(reply.supplied) \cup reply.omitted = ToSet(hits)
        /\ \A d \in reply.omitted \cap Addressed : used + Bytes[d] > ContextLimit

(* A reply cites only sources the model was given, which are committed and *)
(* inside the caller's scope; an answer cites at least one of them.        *)
CitationsAreGrounded ==
  reply.status \in {"answered", "abstained"} =>
    /\ reply.cited \subseteq ToSet(reply.supplied)
    /\ ToSet(reply.supplied) \subseteq Eligible(query)
    /\ reply.status = "answered" => reply.cited # {}
=============================================================================
