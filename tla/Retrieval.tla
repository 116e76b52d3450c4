------------------------------ MODULE Retrieval ------------------------------
(***************************************************************************)
(* RetrievalService.query (RAG/rag_system/services/retrieval.py): from a   *)
(* question to the documents the answer may be based on.  Requests run in  *)
(* worker threads of rag-api on one cached service, so they share the two  *)
(* stores, from which a document can be deleted while a request holds its  *)
(* hits.                                                                   *)
(*                                                                         *)
(* What a search finds relevant is the environment's choice: a ranking of  *)
(* the stored rows and of the BM25 chunks for every text searched for.     *)
(***************************************************************************)
EXTENDS Integers, SequencesExt

CONSTANTS
  Request, LawArticle, Number,
  Corpus,        \* corpus_sources: the markdown files, in order
  SourceOf,      \* the file an article stands in
  Mentions,      \* the article numbers its text has in digits, its own or another's
  Beginning,     \* its first 100 characters, which tell the candidates apart
  Opening,       \* its first 80, which tell the documents of the answer apart
  Rankings,      \* orders in which a vector search may rank the rows
  KeywordOrders, \* orders in which BM25 may rank the articles
  Questions,     \* the article numbers each request's question may name
  TopN,          \* rerank_top_n
  SummaryTopK,   \* summary_top_k
  MaxPool,       \* MAX_BM25_K
  MaxFaults      \* bound: failing searches and fetches

\* A row of the vector store is a piece of an article and carries the id of its parent
\* document; a BM25 chunk is a whole article without an id.
Document == [kind : {"row", "chunk", "parent"}, article : LawArticle, part : {"head", "tail"}]

ASSUME RetrievalAssumption ==
  /\ Corpus \in Seq(STRING) /\ SourceOf \in [LawArticle -> ToSet(Corpus)]
  /\ Mentions \in [LawArticle -> SUBSET Number]
  /\ LawArticle \subseteq DOMAIN Beginning /\ LawArticle \subseteq DOMAIN Opening
  /\ \A a, b \in LawArticle : Beginning[a] = Beginning[b] => Opening[a] = Opening[b]
  /\ \A s \in Rankings : s \in Seq(Document)
  /\ \A s \in KeywordOrders : s \in Seq(LawArticle)
  /\ Questions \in [Request -> SUBSET (SUBSET Number)]
  /\ TopN \in Nat \ {0} /\ SummaryTopK \in Nat /\ MaxPool \in Nat /\ MaxFaults \in Nat

VARIABLES
  stored,  \* the articles still in the vector store and the docstore
  faults,  \* searches and fetches that failed so far
  req      \* the locals of each request

retrievalVars == <<stored, faults, req>>

\* What a text searched for ranks high.
Search == [order : Rankings, words : KeywordOrders]

Local == [pc : {"new", "pin", "hybrid", "scoped", "draft", "draft hybrid", "draft scoped",
                "filters", "rerank", "respond", "done"},
          asked : SUBSET Number,        \* article_numbers
          question : Search,
          text : Search,                \* the text searched for: the question or hyde_text
          missed : BOOLEAN,             \* history: the search for article numbers failed
          pinned : Seq(Document), found : Seq(Document),   \* summaries
          scoped : Seq(Document),       \* source_fallback_candidates
          best : Seq(Document), answer : Seq(Document),
          reached : SUBSET ToSet(Corpus),  \* history: where the question found something
          verdict : {"none", "all", "ranked", "invalid", "rejected"}]

RetrievalInit ==
  /\ stored = LawArticle /\ faults = 0
  /\ \E asked \in [Request -> SUBSET Number], question \in [Request -> Search] :
       /\ \A r \in Request : asked[r] \in Questions[r]
       /\ req = [r \in Request |->
                   [pc |-> "new", asked |-> asked[r], question |-> question[r],
                    text |-> question[r], missed |-> FALSE, pinned |-> <<>>, found |-> <<>>,
                    scoped |-> <<>>, best |-> <<>>, answer |-> <<>>, reached |-> {},
                    verdict |-> "none"]]

(* ------------------------------- documents ------------------------------- *)

At(r, l) == req[r].pc = l
Larger(a, b) == IF a > b THEN a ELSE b
First(s, n) == SubSeq(s, 1, IF n < Len(s) THEN n ELSE Len(s))

\* What deduplication compares: the first characters of the text, of the length it looks at.
TextOf(d, start) == IF d.part = "head" THEN start[d.article] ELSE d.article
Source(d) == SourceOf[d.article]
Sources(s) == {Source(d) : d \in ToSet(s)}

\* The members of a finite set in a strict order, and what a sequence has in some places.
InOrder(S, before) ==
  [n \in 1..Cardinality(S) |-> CHOOSE x \in S : Cardinality({y \in S : <<y, x>> \in before}) = n - 1]

Picked(s, places) ==
  LET turns == InOrder(places, {p \in places \X places : p[1] < p[2]})
  IN [n \in 1..Cardinality(places) |-> s[turns[n]]]

\* Of documents that start alike the first stays.
Distinct(s, start) ==
  Picked(s, {i \in DOMAIN s : \A j \in 1..(i - 1) : TextOf(s[j], start) # TextOf(s[i], start)})

\* _merge_summary_lists
Merged(primary, secondary) == Distinct(primary \o secondary, Beginning)

\* _merge_results: the sources take turns, in the order in which they turn up.
Turn(s, i) == Cardinality({j \in 1..i : Source(s[j]) = Source(s[i])})
Bucket(s, i) == CHOOSE j \in 1..i : /\ Source(s[j]) = Source(s[i])
                                    /\ \A k \in 1..(j - 1) : Source(s[k]) # Source(s[i])
Sooner(s, i, j) == \/ Turn(s, i) < Turn(s, j)
                   \/ Turn(s, i) = Turn(s, j) /\ Bucket(s, i) < Bucket(s, j)

RoundRobin(hits) ==
  LET s == Distinct(hits, Beginning)
      places == 1..Len(s)
      turns == InOrder(places, {p \in places \X places : Sooner(s, p[1], p[2])})
  IN [n \in places |-> s[turns[n]]]

Chunk(a) == [kind |-> "chunk", article |-> a, part |-> "head"]
Chunks(s) == [i \in 1..Len(s) |-> Chunk(s[i])]
Parent(a) == [kind |-> "parent", article |-> a, part |-> "head"]

\* similarity_search over what is stored, and restricted to one source
Rows(text, articles) ==
  Picked(text.order, {i \in DOMAIN text.order : text.order[i].article \in articles})
Vector(text, k) == First(Rows(text, stored), k)
VectorIn(text, s, k) == First(Rows(text, {a \in stored : SourceOf[a] = s}), k)

\* At most n more operations fail.
Failing(n) == faults + n <= MaxFaults /\ faults' = faults + n

\* _fetch_multiple_parent_docs: chunks as they are, every parent once; the parents of
\* lost could not be read, and those no longer stored are dropped silently.
Fetched(hits, lost) ==
  LET Repeats(i) == \E j \in 1..(i - 1) : hits[j].kind = "row" /\ hits[j].article = hits[i].article
      got == Picked(hits, {i \in DOMAIN hits : hits[i].kind = "row" =>
                                                 hits[i].article \in stored \ lost /\ ~Repeats(i)})
  IN [n \in DOMAIN got |-> IF got[n].kind = "row" THEN Parent(got[n].article) ELSE got[n]]

\* mutant: parents that cannot be fetched leave nothing
FetchedOnly(hits, lost) == Fetched(hits, lost)

\* The hits themselves when no parent could be fetched.
FetchedOrHits(hits, lost) == IF Fetched(hits, lost) = <<>> THEN hits ELSE Fetched(hits, lost)

(* --------------------------------- stages -------------------------------- *)

Detect(r) ==
  /\ At(r, "new")
  /\ req' = [req EXCEPT ![r].pc = IF req[r].asked = {} THEN "hybrid" ELSE "pin"]
  /\ UNCHANGED <<stored, faults>>

\* On a copy of the shared retriever with a pool of MaxPool.
ArticleHits(words, asked) ==
  LET found == First(words, MaxPool)
  IN Chunks(Picked(found, {i \in DOMAIN found : Mentions[found[i]] \cap asked # {}}))

\* The article-number fast path.
Pin(r) ==
  /\ At(r, "pin")
  /\ \/ /\ req' = [req EXCEPT ![r].pc = "hybrid",
                              ![r].pinned = ArticleHits(req[r].question.words, req[r].asked)]
        /\ UNCHANGED faults
     \/ req' = [req EXCEPT ![r].pc = "hybrid", ![r].missed = TRUE] /\ Failing(1)
  /\ UNCHANGED stored

\* Vector and keyword search of the question or of the drafted text; either may fail.
Hybrid(r) ==
  /\ req[r].pc \in {"hybrid", "draft hybrid"}
  /\ \E vector, keyword \in BOOLEAN :
       LET rows == IF vector THEN Vector(req[r].text, SummaryTopK) ELSE <<>>
           chunks == IF keyword THEN Chunks(First(req[r].text.words, SummaryTopK)) ELSE <<>>
       IN /\ Failing(Cardinality({i \in 1..2 : ~<<vector, keyword>>[i]}))
          /\ req' = [req EXCEPT
               ![r].pc = IF At(r, "hybrid") THEN "scoped" ELSE "draft scoped",
               ![r].found = Merged(@, RoundRobin(rows \o chunks))]
  /\ UNCHANGED stored

\* A search in every source of the corpus.
ScopedHits(r, failed) ==
  RoundRobin(FlattenSeq([i \in 1..Len(Corpus) |->
               IF Corpus[i] \in failed THEN <<>> ELSE VectorIn(req[r].text, Corpus[i], TopN)]))

\* mutant: the hits by source go behind the others
AskedFirst(scoped, found) == Merged(found, scoped)

SourcesFirst(scoped, found) == Merged(scoped, found)

Scoped(r) ==
  /\ At(r, "scoped")
  /\ \E failed \in SUBSET ToSet(Corpus) :
       /\ Failing(Cardinality(failed))
       /\ req' = [req EXCEPT ![r].pc = IF req[r].asked = {} THEN "draft" ELSE "rerank",
                         ![r].scoped = ScopedHits(r, failed),
                         ![r].reached = Sources(ScopedHits(r, failed)),
                         ![r].found = SourcesFirst(ScopedHits(r, failed), @)]
  /\ UNCHANGED stored

\* HyDE: the model drafts a text to search for, or nothing usable.
DraftText(r) ==
  /\ At(r, "draft")
  /\ \/ \E draft \in Search : req' = [req EXCEPT ![r].pc = "draft hybrid", ![r].text = draft]
     \/ req' = [req EXCEPT ![r].pc = "filters"]
  /\ UNCHANGED <<stored, faults>>

DraftScoped(r) ==
  /\ At(r, "draft scoped")
  /\ \E failed \in SUBSET ToSet(Corpus) :
       LET hits == ScopedHits(r, failed) IN
       /\ Failing(Cardinality(failed))
       /\ req' = [req EXCEPT ![r].pc = "filters",
                         ![r].text = req[r].question,
                         ![r].found = Merged(@, hits),
                         ![r].scoped = IF hits = <<>> THEN @ ELSE hits]
  /\ UNCHANGED stored

\* The files of the laws that the model says are compared: none when it says nothing usable.
Compared == SUBSET ToSet(Corpus)

\* Self-query: a question that compares laws is searched for, as it was asked, in each of them.
Filters(r) ==
  /\ At(r, "filters")
  /\ \E laws \in Compared :
       LET hits == [i \in 1..Len(Corpus) |->
                      IF Corpus[i] \in laws THEN VectorIn(req[r].question, Corpus[i], SummaryTopK)
                      ELSE <<>>]
       IN req' = [req EXCEPT ![r].pc = "rerank", ![r].found = Merged(@, FlattenSeq(hits))]
  /\ UNCHANGED <<stored, faults>>

(* ------------------------------ the choice ------------------------------- *)

Wanted(r) == Larger(1, IF Len(req[r].pinned) < TopN THEN TopN - Len(req[r].pinned) ELSE 0)

Chosen(r, verdict, hits) ==
  req' = [req EXCEPT ![r].pc = "respond", ![r].verdict = verdict, ![r].best = hits]

\* Few candidates are all taken, without asking the model.
RerankNothing(r) ==
  /\ At(r, "rerank")
  /\ Len(req[r].found) <= Wanted(r)
  /\ Chosen(r, IF req[r].found = <<>> THEN "none" ELSE "all", req[r].found)
  /\ UNCHANGED <<stored, faults>>

Picks(r) == {p \in UNION {[1..n -> 1..Len(req[r].found)] : n \in 1..Wanted(r)} : IsInjective(p)}

RerankPicks(r) ==
  /\ At(r, "rerank")
  /\ Len(req[r].found) > Wanted(r)
  /\ \E p \in Picks(r) : Chosen(r, "ranked", [i \in DOMAIN p |-> req[r].found[p[i]]])
  /\ UNCHANGED <<stored, faults>>

\* The model answers without a number, or not at all.
RerankInvalid(r) ==
  /\ At(r, "rerank")
  /\ Len(req[r].found) > Wanted(r)
  /\ Chosen(r, "invalid", First(req[r].found, Wanted(r)))
  /\ UNCHANGED <<stored, faults>>

\* The model answers 0.  With an article pinned nothing else is needed; without one the
\* hits by source go on to the answer.
RerankRejects(r) ==
  /\ At(r, "rerank")
  /\ Len(req[r].found) > Wanted(r)
  /\ Chosen(r, "rejected", IF req[r].pinned # <<>> THEN <<>>
                           ELSE First(req[r].scoped, Larger(TopN, Len(Corpus) * TopN)))
  /\ UNCHANGED <<stored, faults>>

\* mutant: pinned articles share the places with the background
CombinedWithin(pinned, background) == First(Distinct(background \o pinned, Opening), TopN)

Combined(pinned, background) == Distinct(pinned \o background, Opening)

Respond(r) ==
  /\ At(r, "respond")
  /\ \E lost \in SUBSET {d.article : d \in ToSet(req[r].best)} :
       LET docs == FetchedOrHits(req[r].best, lost) IN
       /\ Failing(Cardinality(lost))
       /\ req' = [req EXCEPT ![r].pc = "done",
                         ![r].answer = IF req[r].pinned = <<>> THEN docs
                                       ELSE Combined(req[r].pinned, docs)]
  /\ UNCHANGED stored

(* ------------------------------ environment ------------------------------ *)

\* A file is deleted from the index; the service, with its BM25 chunks, lives on.
Delete(s) ==
  /\ stored = LawArticle       \* bound: one deletion
  /\ stored' = {a \in LawArticle : SourceOf[a] # s}
  /\ UNCHANGED <<faults, req>>

Step(r) == \/ Detect(r) \/ Pin(r) \/ Hybrid(r) \/ Scoped(r)
           \/ DraftText(r) \/ DraftScoped(r) \/ Filters(r)
           \/ RerankNothing(r) \/ RerankPicks(r) \/ RerankInvalid(r) \/ RerankRejects(r)
           \/ Respond(r)

RetrievalNext == \/ \E r \in Request : Step(r)
                 \/ \E s \in ToSet(Corpus) : Delete(s)

RetrievalSpec == RetrievalInit /\ [][RetrievalNext]_retrievalVars

(* ------------------------------- properties ------------------------------ *)

Replied(r) == At(r, "done")

\* From the question to the answer: an article that names a number the question asks for and
\* ranks among the first MaxPool of the keyword search is in the answer as a whole, unless
\* that search failed, or another such article with the same opening is there instead;
\* whatever the model makes of the candidates, whatever else fails or is deleted meanwhile,
\* and however many articles were named.
NamedArticleAnswered ==
  \A r \in Request : Replied(r) /\ ~req[r].missed =>
    LET named == {a \in ToSet(First(req[r].question.words, MaxPool)) :
                    Mentions[a] \cap req[r].asked # {}}
        whole == {d.article : d \in {x \in ToSet(req[r].answer) : x.kind # "row"}}
    IN \A a \in named : \E b \in named \cap whole : Opening[b] = Opening[a]

\* What the docstring of query says of it: the targeted article is always present in the
\* answer.  It is not where another one opens like it, as TLC shows on the same instance.
NamedArticlePresent ==
  \A r \in Request : Replied(r) => ToSet(req[r].pinned) \subseteq ToSet(req[r].answer)

\* What the comment beside the merging says of it: every source that was found is represented
\* when the ranking is invalid.  It is not with more of them than rerank_top_n, as TLC shows
\* on the same instance.
SourcesRepresented ==
  \A r \in Request :
    req[r].verdict = "invalid" /\ req[r].pinned = <<>> => req[r].reached \subseteq Sources(req[r].best)

\* When the model gives no usable ranking, its candidates are cut so that every source the
\* question's own search by source reached stays, or where they are more than rerank_top_n,
\* that many of them, however the drafted text and the comparison of laws added to the
\* candidates; when it rejects them all, every source that the last search by source reached
\* stays.
SourcesHeard ==
  \A r \in Request : req[r].pinned = <<>> =>
    /\ req[r].verdict = "invalid" =>
         \/ req[r].reached \subseteq Sources(req[r].best)
         \/ Cardinality(Sources(req[r].best)) = TopN
    /\ req[r].verdict = "rejected" => Sources(req[r].best) = Sources(req[r].scoped)

\* An answer is empty only if nothing was found, or the model rejected what was found and
\* no search by source reached anything; documents deleted or unreadable by the time they
\* are fetched do not empty it.
FoundIsAnswered ==
  \A r \in Request : Replied(r) /\ req[r].answer = <<>> =>
    /\ req[r].pinned = <<>>
    /\ \/ req[r].found = <<>>
       \/ req[r].verdict = "rejected" /\ req[r].scoped = <<>>

(* -------------------------- the inductive invariant ---------------------- *)

RetrievalTypeOK == /\ stored \subseteq LawArticle /\ faults \in 0..MaxFaults
                   /\ req \in [Request -> Local]

\* No two documents begin alike.
NoRepeats(s) ==
  \A i, j \in DOMAIN s : TextOf(s[i], Beginning) = TextOf(s[j], Beginning) => i = j

\* The list begins with one document of each of the sources.
Heads(s, sources) == /\ Cardinality(sources) <= Len(s)
                     /\ {Source(s[n]) : n \in 1..Cardinality(sources)} = sources

\* What a search by source found begins with every source, and whatever is added to the
\* candidates leaves that beginning alone.
SourcesLead ==
  \A r \in Request : /\ NoRepeats(req[r].found)
                     /\ Heads(req[r].found, req[r].reached)
                     /\ Heads(req[r].scoped, Sources(req[r].scoped))

\* What is pinned is what the keyword search found of the articles asked for.
PinnedFound ==
  \A r \in Request :
    req[r].pc \notin {"new", "pin"} /\ req[r].asked # {} /\ ~req[r].missed =>
      req[r].pinned = ArticleHits(req[r].question.words, req[r].asked)

\* Nothing is decided before the reranking; it is left with nothing for a reason.
Decided ==
  \A r \in Request :
    IF req[r].pc \in {"respond", "done"}
      THEN req[r].best = <<>> => \/ req[r].pinned # <<>>
                                 \/ req[r].found = <<>>
                                 \/ req[r].verdict = "rejected" /\ req[r].scoped = <<>>
      ELSE req[r].verdict = "none"

RetrievalInv == /\ RetrievalTypeOK /\ SourcesLead /\ PinnedFound /\ Decided
                /\ SourcesHeard /\ NamedArticleAnswered /\ FoundIsAnswered
=============================================================================
