--------------------------- MODULE WorkflowCache ---------------------------
(***************************************************************************)
(* The cached retrieval workflows of rag-api: a compiled workflow closes   *)
(* over a RetrievalService whose BM25 index and source list were read from *)
(* converted_md/ when it was built.  The cache is keyed by the generation  *)
(* marker on disk; every corpus mutation publishes a new generation, the   *)
(* mutations of rag-api itself also drop the cache                         *)
(* (RAG/rag_system/core/retrieval_generation.py, agent/graph.py,           *)
(* agent/react_workflow.py, api.py, scripts/reindex.py).                   *)
(*                                                                         *)
(* The ReAct cache is a second copy of the same protocol; a process uses   *)
(* one of the two (REACT_MODE), so one is modelled.                        *)
(***************************************************************************)
EXTENDS Naturals

CONSTANTS
  Query,     \* queries in flight: worker threads and streaming requests
  Handler,   \* upload, delete and reindex requests inside rag-api
  Script,    \* an operator editing converted_md/ and running scripts/reindex.py
  Doc,       \* the documents of converted_md/
  MaxRev,    \* bound: revisions of one document
  MaxGen,    \* bound: generations published
  NoApp,     \* "no workflow cached under this key"
  NoQuery    \* "the cache lock is free"

Rev      == 0..MaxRev
Gen      == 0..MaxGen
Writer   == Handler \cup Script
Corpus   == [Doc -> Rev]

ASSUME CacheAssumption ==
  /\ MaxRev \in Nat
  /\ MaxGen \in Nat
  /\ Handler \cap Script = {}
  /\ NoApp \notin Corpus
  /\ NoQuery \notin Query

VARIABLES
  md,       \* md[d]: revision of document d on disk (a deletion is a revision too)
  marker,   \* the generation in the marker file
  cache,    \* cache[g]: what the workflow cached under generation g was built from
  lock,     \* the holder of _WORKFLOW_CACHE_LOCK
  pc,       \* pc[q]: where query q is in create_rag_workflow
  gen,      \* gen[q]: the generation it read
  app,      \* app[q]: what its workflow was built from, document by document
  unread,   \* unread[q]: documents its build has still to read
  floor,    \* history: what completed mutations had written when q began
  stage,    \* stage[w]: how far writer w is with its mutation
  wrote,    \* history: the newest revision writer w wrote of each document
  acked,    \* history: the revisions written by mutations that completed
  covered,  \* history: covered[g], the corpus when generation g was published
  cleared   \* history: generations below this one were dropped by a clear

queryVars   == <<pc, gen, app, unread, floor>>
writerVars  == <<stage, wrote, acked>>
vars == <<md, marker, cache, lock, queryVars, writerVars, covered, cleared>>

Covers(c, b) == \A d \in Doc : b[d] <= c[d]
Larger(m, n) == IF m < n THEN n ELSE m
Join(b, c) == [d \in Doc |-> Larger(b[d], c[d])]
Blank == [d \in Doc |-> 0]

Init ==
  /\ md = Blank
  /\ marker = 0
  /\ cache = [g \in Gen |-> NoApp]
  /\ lock = NoQuery
  /\ pc = [q \in Query |-> "idle"]
  /\ gen = [q \in Query |-> 0]
  /\ app = [q \in Query |-> Blank]
  /\ unread = [q \in Query |-> {}]
  /\ floor = [q \in Query |-> Blank]
  /\ stage = [w \in Writer |-> "idle"]
  /\ wrote = [w \in Writer |-> Blank]
  /\ acked = Blank
  /\ covered = [g \in Gen |-> Blank]
  /\ cleared = 0

-----------------------------------------------------------------------------
(* create_rag_workflow                                                      *)

\* The call ends and its locals with it.
Return(q) ==
  /\ pc' = [pc EXCEPT ![q] = "idle"]
  /\ gen' = [gen EXCEPT ![q] = 0]
  /\ app' = [app EXCEPT ![q] = Blank]
  /\ unread' = [unread EXCEPT ![q] = {}]
  /\ floor' = [floor EXCEPT ![q] = Blank]

Begin(q) ==
  /\ pc[q] = "idle"
  /\ pc' = [pc EXCEPT ![q] = "starting"]
  /\ floor' = [floor EXCEPT ![q] = acked]
  /\ UNCHANGED <<md, marker, cache, lock, gen, app, unread, writerVars, covered, cleared>>

\* current_retrieval_generation(), outside the lock.
ReadMarker(q) ==
  /\ pc[q] = "starting"
  /\ gen' = [gen EXCEPT ![q] = marker]
  /\ pc' = [pc EXCEPT ![q] = "lookup"]
  /\ UNCHANGED <<md, marker, cache, lock, app, unread, floor, writerVars, covered, cleared>>

\* The locked _WORKFLOW_CACHE.get: a hit answers, a miss builds.
Lookup(q) ==
  /\ pc[q] = "lookup"
  /\ lock = NoQuery
  /\ IF cache[gen[q]] # NoApp
     THEN /\ app' = [app EXCEPT ![q] = cache[gen[q]]]
          /\ pc' = [pc EXCEPT ![q] = "answering"]
          /\ UNCHANGED unread
     ELSE /\ unread' = [unread EXCEPT ![q] = Doc]
          /\ pc' = [pc EXCEPT ![q] = "building"]
          /\ UNCHANGED app
  /\ UNCHANGED <<md, marker, cache, lock, gen, floor, writerVars, covered, cleared>>

\* _build_bm25_index reads the directory and then file after file.  A document
\* counts as read when the directory scan misses it or its file is opened.
BuildRead(q, d) ==
  /\ pc[q] = "building"
  /\ d \in unread[q]
  /\ app' = [app EXCEPT ![q][d] = md[d]]
  /\ unread' = [unread EXCEPT ![q] = @ \ {d}]
  /\ UNCHANGED <<md, marker, cache, lock, pc, gen, floor, writerVars, covered, cleared>>

\* config.validate, the LLM or the vector store refuses: the query ends in an error.
BuildFails(q) ==
  /\ pc[q] = "building"
  /\ Return(q)
  /\ UNCHANGED <<md, marker, cache, lock, writerVars, covered, cleared>>

\* Mutant: the lock stays held when the generation turns out to be stale.
CheckCurrentKeepsLock(q) ==
  /\ pc[q] = "building"
  /\ unread[q] = {}
  /\ lock = NoQuery
  /\ lock' = q
  /\ pc' = [pc EXCEPT ![q] = IF marker = gen[q] THEN "insert" ELSE "answering"]
  /\ UNCHANGED <<md, marker, cache, gen, app, unread, floor, writerVars, covered, cleared>>

\* Under the lock: cache the workflow only if its generation is still current.
\* The marker file is not protected by the lock and may move before the insert.
CheckCurrent(q) ==
  /\ pc[q] = "building"
  /\ unread[q] = {}
  /\ lock = NoQuery
  /\ IF marker = gen[q]
     THEN /\ lock' = q
          /\ pc' = [pc EXCEPT ![q] = "insert"]
     ELSE /\ pc' = [pc EXCEPT ![q] = "answering"]
          /\ UNCHANGED lock
  /\ UNCHANGED <<md, marker, cache, gen, app, unread, floor, writerVars, covered, cleared>>

\* Mutant: the key is computed again when inserting.
InsertUnderMarker(q) ==
  /\ pc[q] = "insert"
  /\ cache' = [cache EXCEPT ![marker] = app[q]]
  /\ lock' = NoQuery
  /\ pc' = [pc EXCEPT ![q] = "answering"]
  /\ UNCHANGED <<md, marker, gen, app, unread, floor, writerVars, covered, cleared>>

Insert(q) ==
  /\ pc[q] = "insert"
  /\ cache' = [cache EXCEPT ![gen[q]] = app[q]]
  /\ lock' = NoQuery
  /\ pc' = [pc EXCEPT ![q] = "answering"]
  /\ UNCHANGED <<md, marker, gen, app, unread, floor, writerVars, covered, cleared>>

Answered(q) ==
  /\ pc[q] = "answering"
  /\ Return(q)
  /\ UNCHANGED <<md, marker, cache, lock, writerVars, covered, cleared>>

-----------------------------------------------------------------------------
(* Corpus mutations                                                         *)

\* A mutation writes, replaces or removes one or more markdown files.
Edit(w, d) ==
  /\ stage[w] \in {"idle", "editing"}
  /\ md[d] < MaxRev
  /\ md' = [md EXCEPT ![d] = @ + 1]
  /\ wrote' = [wrote EXCEPT ![w][d] = md[d] + 1]
  /\ stage' = [stage EXCEPT ![w] = "editing"]
  /\ UNCHANGED <<marker, cache, lock, queryVars, acked, covered, cleared>>

\* The request or the script raises, or is killed, before it publishes.
Abandon(w) ==
  /\ stage[w] = "editing"
  /\ stage' = [stage EXCEPT ![w] = "idle"]
  /\ wrote' = [wrote EXCEPT ![w] = Blank]
  /\ UNCHANGED <<md, marker, cache, lock, queryVars, acked, covered, cleared>>

\* Mutation w is complete.
Complete(w) ==
  /\ stage' = [stage EXCEPT ![w] = "idle"]
  /\ acked' = Join(acked, wrote[w])
  /\ wrote' = [wrote EXCEPT ![w] = Blank]

\* The script ends with the bump, a handler goes on to the cache of its own process.
Leave(w) ==
  IF w \in Handler
  THEN stage' = [stage EXCEPT ![w] = "clearing"] /\ UNCHANGED <<wrote, acked>>
  ELSE Complete(w)

\* Mutant: a handler drops the cache without publishing a generation.
PublishInMemoryOnly(w) ==
  /\ stage[w] = "editing"
  /\ Leave(w)
  /\ UNCHANGED <<md, marker, cache, lock, queryVars, covered, cleared>>

\* bump_retrieval_generation: os.replace of the marker by a name never used before.
Publish(w) ==
  /\ stage[w] = "editing"
  /\ marker < MaxGen
  /\ marker' = marker + 1
  /\ covered' = [covered EXCEPT ![marker + 1] = md]
  /\ Leave(w)
  /\ UNCHANGED <<md, cache, lock, queryVars, cleared>>

\* invalidate_workflow_cache after the bump: _WORKFLOW_CACHE.clear() under the lock.
Clear(h) ==
  /\ stage[h] = "clearing"
  /\ lock = NoQuery
  /\ cache' = [g \in Gen |-> NoApp]
  /\ cleared' = marker
  /\ Complete(h)
  /\ UNCHANGED <<md, marker, lock, queryVars, covered>>

\* rag-api is killed and starts again: the marker and the files remain.
Restart ==
  /\ cache' = [g \in Gen |-> NoApp]
  /\ lock' = NoQuery
  /\ pc' = [q \in Query |-> "idle"]
  /\ gen' = [q \in Query |-> 0]
  /\ app' = [q \in Query |-> Blank]
  /\ unread' = [q \in Query |-> {}]
  /\ floor' = [q \in Query |-> Blank]
  /\ stage' = [w \in Writer |-> IF w \in Handler THEN "idle" ELSE stage[w]]
  /\ wrote' = [w \in Writer |-> IF w \in Handler THEN Blank ELSE wrote[w]]
  /\ UNCHANGED <<md, marker, acked, covered, cleared>>

-----------------------------------------------------------------------------
QueryStep(q) ==
  \/ ReadMarker(q)
  \/ Lookup(q)
  \/ \E d \in Doc : BuildRead(q, d)
  \/ CheckCurrent(q)
  \/ Insert(q)

Next ==
  \/ \E q \in Query : Begin(q) \/ QueryStep(q) \/ BuildFails(q) \/ Answered(q)
  \/ \E w \in Writer : Publish(w) \/ Abandon(w) \/ \E d \in Doc : Edit(w, d)
  \/ \E h \in Handler : Clear(h)
  \/ Restart

Spec == Init /\ [][Next]_vars

\* A thread inside create_rag_workflow runs on, and whoever waits for the cache
\* lock gets it: it is only ever held for a dictionary operation.
FairSpec == Spec /\ \A q \in Query : SF_vars(QueryStep(q))

-----------------------------------------------------------------------------
(* Properties                                                               *)

Place == {"idle", "starting", "lookup", "building", "insert", "answering"}

\* Every variable keeps its type; a query never answers with a missing workflow
\* and the lock is free or held by a query about to insert.
TypeOK ==
  /\ md \in Corpus
  /\ marker \in Gen
  /\ cache \in [Gen -> Corpus \cup {NoApp}]
  /\ lock \in Query \cup {NoQuery}
  /\ pc \in [Query -> Place]
  /\ gen \in [Query -> Gen]
  /\ app \in [Query -> Corpus]
  /\ unread \in [Query -> SUBSET Doc]
  /\ floor \in [Query -> Corpus]
  /\ stage \in [Writer -> {"idle", "editing", "clearing"}]
  /\ wrote \in [Writer -> Corpus]
  /\ acked \in Corpus
  /\ covered \in [Gen -> Corpus]
  /\ cleared \in Gen

\* A cached workflow is at least as new as the corpus its generation was
\* published for: no build that began earlier gets in under a later key.
CachedCovers ==
  \A g \in Gen : cache[g] # NoApp => Covers(cache[g], covered[g])

\* A query that begins after an upload, deletion or reindex has completed is
\* answered from an index that includes it, whether the workflow was cached or
\* built, whatever builds were in flight and whatever crashed meanwhile.
FreshAnswer ==
  \A q \in Query : pc[q] = "answering" => Covers(app[q], floor[q])

\* Once an invalidation inside rag-api has completed, no workflow of an earlier
\* generation is left in memory or put back by a build that was in flight.
NoDeadEntry ==
  \A g \in Gen : cache[g] # NoApp => g >= cleared

\* The inductive invariant behind CachedCovers, FreshAnswer and NoDeadEntry.

\* Exactly the query about to insert holds the lock, for a generation no
\* completed clear has passed.
LockHeld ==
  \A q \in Query :
    /\ pc[q] = "insert" <=> lock = q
    /\ pc[q] = "insert" => gen[q] >= cleared

\* Nothing refers to a generation that is not yet published.
PastOnly ==
  /\ cleared <= marker
  /\ \A q \in Query : gen[q] <= marker
  /\ \A g \in Gen : cache[g] # NoApp => g <= marker

\* Generations are published for ever newer revisions.
CoveredGrows ==
  /\ Covers(md, covered[marker])
  /\ \A g, h \in Gen : g <= h /\ h <= marker => Covers(covered[h], covered[g])

\* What a completed mutation wrote, the current generation covers; what an
\* unfinished one wrote is on disk, and covered too once it is published.
WritesCovered ==
  /\ Covers(covered[marker], acked)
  /\ \A w \in Writer :
       /\ Covers(md, wrote[w])
       /\ stage[w] = "clearing" => Covers(covered[marker], wrote[w])

\* A query reads a generation that covers what it must see, and what it has
\* read of the corpus is at least what that generation covers.
FloorCovered ==
  \A q \in Query :
    /\ pc[q] = "starting" => Covers(covered[marker], floor[q])
    /\ pc[q] \in {"lookup", "building", "insert"} => Covers(covered[gen[q]], floor[q])

BuildCovers ==
  \A q \in Query :
    /\ pc[q] = "building" => \A d \in Doc \ unread[q] : covered[gen[q]][d] <= app[q][d]
    /\ pc[q] = "insert" => Covers(app[q], covered[gen[q]])

CacheInv ==
  /\ TypeOK
  /\ LockHeld
  /\ PastOnly
  /\ CoveredGrows
  /\ WritesCovered
  /\ FloorCovered
  /\ BuildCovers
  /\ CachedCovers
  /\ FreshAnswer
  /\ NoDeadEntry

\* A query gets a workflow or an error, whoever else holds or awaits the lock.
QueryServed ==
  \A q \in Query : pc[q] = "starting" ~> pc[q] \in {"answering", "idle"}
=============================================================================
