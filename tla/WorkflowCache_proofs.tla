----------------------- MODULE WorkflowCache_proofs -----------------------
(***************************************************************************)
(* Proofs about WorkflowCache: for any number of queries, handlers,        *)
(* scripts, documents, revisions and generations a query that begins after *)
(* a mutation completed is answered from an index that includes it, and no *)
(* workflow of a cleared generation stays in memory.                       *)
(***************************************************************************)
EXTENDS WorkflowCache, TLAPS

\* "At least as new as" is a partial order on corpora, and Join its upper bound.
LEMMA CoversOrder ==
  ASSUME NEW a \in Corpus, NEW b \in Corpus, NEW c \in Corpus
  PROVE  /\ Covers(a, a)
         /\ Covers(a, b) /\ Covers(b, c) => Covers(a, c)
         /\ Join(b, c) \in Corpus
         /\ Covers(a, b) /\ Covers(a, c) => Covers(a, Join(b, c))
<1>1. Rev \subseteq Nat
  BY CacheAssumption DEF Rev
<1>2. \A d \in Doc : a[d] \in Nat /\ b[d] \in Nat /\ c[d] \in Nat
  BY <1>1 DEF Corpus
<1>3. Covers(a, a) /\ (Covers(a, b) /\ Covers(b, c) => Covers(a, c))
  BY <1>2 DEF Covers
<1>4. \A d \in Doc : Larger(b[d], c[d]) \in {b[d], c[d]}
  BY DEF Larger
<1>5. Join(b, c) \in Corpus
  BY <1>4 DEF Join, Corpus
<1>6. Covers(a, b) /\ Covers(a, c) => Covers(a, Join(b, c))
  BY <1>4 DEF Covers, Join
<1>7. QED
  BY <1>3, <1>5, <1>6

\* A corpus that grows in one document covers what it covered before.
LEMMA BlankCovered ==
  /\ Blank \in Corpus
  /\ \A c \in Corpus : Covers(c, Blank)
<1>1. 0 \in Rev /\ Rev \subseteq Nat
  BY CacheAssumption DEF Rev
<1>2. Blank \in Corpus
  BY <1>1 DEF Blank, Corpus
<1>3. ASSUME NEW c \in Corpus PROVE Covers(c, Blank)
  <2>1. \A d \in Doc : c[d] \in Nat
    BY <1>1 DEF Corpus
  <2>2. QED
    BY <2>1 DEF Covers, Blank
<1>4. QED
  BY <1>2, <1>3

LEMMA InitCache == Init => CacheInv
<1> SUFFICES ASSUME Init PROVE CacheInv
  OBVIOUS
<1>1. 0 \in Gen /\ Gen \subseteq Nat
  BY CacheAssumption DEF Gen
<1>2. TypeOK
  BY <1>1, BlankCovered DEF Init, TypeOK, Place
<1>3. LockHeld
  BY CacheAssumption DEF Init, LockHeld
<1>4. PastOnly
  BY <1>1 DEF Init, PastOnly
<1>5. CoveredGrows
  BY <1>1, BlankCovered DEF Init, CoveredGrows
<1>6. WritesCovered
  BY <1>1, BlankCovered DEF Init, WritesCovered
<1>7. FloorCovered /\ BuildCovers /\ CachedCovers /\ FreshAnswer /\ NoDeadEntry
  BY DEF Init, FloorCovered, BuildCovers, CachedCovers, FreshAnswer, NoDeadEntry
<1>8. QED
  BY <1>2, <1>3, <1>4, <1>5, <1>6, <1>7 DEF CacheInv

\* Steps of a query that leave the disk, the cache and the lock alone.
LEMMA QueryBegins ==
  ASSUME CacheInv, NEW q \in Query, Begin(q) \/ ReadMarker(q)
  PROVE  CacheInv'
<1> USE DEF CacheInv
<1>1. CASE Begin(q)
  <2>1. TypeOK'
    BY <1>1 DEF TypeOK, Begin, writerVars, Place
  <2>2. LockHeld' /\ PastOnly'
    BY <1>1 DEF TypeOK, Begin, LockHeld, PastOnly, writerVars
  <2>3. CoveredGrows' /\ WritesCovered'
    BY <1>1 DEF Begin, CoveredGrows, WritesCovered, Covers, writerVars
  <2>4. FloorCovered'
    BY <1>1 DEF TypeOK, Begin, FloorCovered, WritesCovered, Covers, writerVars
  <2>5. BuildCovers' /\ FreshAnswer'
    BY <1>1 DEF TypeOK, Begin, BuildCovers, FreshAnswer, Covers, writerVars
  <2>6. CachedCovers' /\ NoDeadEntry'
    BY <1>1 DEF Begin, CachedCovers, NoDeadEntry, Covers, writerVars
  <2>7. QED
    BY <2>1, <2>2, <2>3, <2>4, <2>5, <2>6
<1>2. CASE ReadMarker(q)
  <2>1. TypeOK'
    BY <1>2 DEF TypeOK, ReadMarker, writerVars, Place
  <2>2. LockHeld'
    BY <1>2 DEF TypeOK, ReadMarker, LockHeld, writerVars
  <2>3. PastOnly'
    <3>1. marker <= marker
      BY CacheAssumption DEF TypeOK, Gen
    <3>2. QED
      BY <1>2, <3>1 DEF TypeOK, ReadMarker, PastOnly, writerVars
  <2>4. CoveredGrows' /\ WritesCovered'
    BY <1>2 DEF ReadMarker, CoveredGrows, WritesCovered, Covers, writerVars
  <2>5. FloorCovered'
    BY <1>2 DEF TypeOK, ReadMarker, FloorCovered, Covers, writerVars
  <2>6. BuildCovers' /\ FreshAnswer'
    BY <1>2 DEF TypeOK, ReadMarker, BuildCovers, FreshAnswer, Covers, writerVars
  <2>7. CachedCovers' /\ NoDeadEntry'
    BY <1>2 DEF ReadMarker, CachedCovers, NoDeadEntry, Covers, writerVars
  <2>8. QED
    BY <2>1, <2>2, <2>3, <2>4, <2>5, <2>6, <2>7
<1>3. QED
  BY <1>1, <1>2

\* A hit answers from an entry that covers the floor, a miss starts a build.
LEMMA LookupKeeps ==
  ASSUME CacheInv, NEW q \in Query, Lookup(q)
  PROVE  CacheInv'
<1> USE DEF CacheInv
<1>1. gen[q] \in Gen /\ floor[q] \in Corpus /\ covered[gen[q]] \in Corpus
  BY DEF TypeOK
<1>2. cache[gen[q]] # NoApp => cache[gen[q]] \in Corpus
  BY <1>1 DEF TypeOK
<1>3. TypeOK'
  BY <1>2 DEF TypeOK, Lookup, writerVars, Place
<1>4. LockHeld' /\ PastOnly'
  BY DEF TypeOK, Lookup, LockHeld, PastOnly, writerVars
<1>5. CoveredGrows' /\ WritesCovered'
  BY DEF Lookup, CoveredGrows, WritesCovered, Covers, writerVars
<1>6. FloorCovered'
  BY DEF TypeOK, Lookup, FloorCovered, Covers, writerVars
<1>7. BuildCovers'
  BY DEF TypeOK, Lookup, BuildCovers, Covers, writerVars
<1>8. FreshAnswer'
  <2>1. cache[gen[q]] # NoApp => Covers(cache[gen[q]], floor[q])
    BY <1>1, <1>2, CoversOrder DEF Lookup, CachedCovers, FloorCovered
  <2>2. QED
    BY <2>1 DEF TypeOK, Lookup, FreshAnswer, Covers, writerVars
<1>9. CachedCovers' /\ NoDeadEntry'
  BY DEF Lookup, CachedCovers, NoDeadEntry, Covers, writerVars
<1>10. QED
  BY <1>3, <1>4, <1>5, <1>6, <1>7, <1>8, <1>9

\* What a build reads from disk is at least what its generation covers.
LEMMA BuildReadKeeps ==
  ASSUME CacheInv, NEW q \in Query, NEW d \in Doc, BuildRead(q, d)
  PROVE  CacheInv'
<1> USE DEF CacheInv
<1>1. TypeOK'
  BY DEF TypeOK, BuildRead, writerVars, Corpus
<1>2. LockHeld' /\ PastOnly'
  BY DEF TypeOK, BuildRead, LockHeld, PastOnly, writerVars
<1>3. CoveredGrows' /\ WritesCovered'
  BY DEF BuildRead, CoveredGrows, WritesCovered, Covers, writerVars
<1>4. FloorCovered'
  BY DEF TypeOK, BuildRead, FloorCovered, Covers, writerVars
<1>5. covered[gen[q]][d] <= md[d]
  <2>1. gen[q] \in Gen /\ marker \in Gen /\ gen[q] <= marker /\ marker <= marker
    BY CacheAssumption DEF TypeOK, PastOnly, Gen
  <2>2. covered[gen[q]] \in Corpus /\ covered[marker] \in Corpus /\ md \in Corpus
    BY <2>1 DEF TypeOK
  <2>3. Covers(md, covered[marker]) /\ Covers(covered[marker], covered[gen[q]])
    BY <2>1 DEF CoveredGrows
  <2>4. Covers(md, covered[gen[q]])
    BY <2>2, <2>3, CoversOrder
  <2>5. QED
    BY <2>4 DEF Covers
<1>6. BuildCovers'
  BY <1>5 DEF TypeOK, BuildRead, BuildCovers, Covers, writerVars, Corpus
<1>7. FreshAnswer'
  BY DEF TypeOK, BuildRead, FreshAnswer, Covers, writerVars
<1>8. CachedCovers' /\ NoDeadEntry'
  BY DEF BuildRead, CachedCovers, NoDeadEntry, Covers, writerVars
<1>9. QED
  BY <1>1, <1>2, <1>3, <1>4, <1>6, <1>7, <1>8

\* A call that ends takes its locals along.
LEMMA ReturnKeeps ==
  ASSUME CacheInv, NEW q \in Query, BuildFails(q) \/ Answered(q)
  PROVE  CacheInv'
<1> USE DEF CacheInv
<1>1. /\ pc[q] # "insert"
      /\ Return(q)
      /\ UNCHANGED <<md, marker, cache, lock, stage, wrote, acked, covered, cleared>>
  BY DEF BuildFails, Answered, writerVars
<1>2. 0 \in Gen /\ Gen \subseteq Nat
  BY CacheAssumption DEF Gen
<1>3. TypeOK'
  BY <1>1, <1>2, BlankCovered DEF TypeOK, Return, Place
<1>4. LockHeld'
  BY <1>1 DEF TypeOK, Return, LockHeld
<1>5. PastOnly'
  BY <1>1, <1>2 DEF TypeOK, Return, PastOnly
<1>6. CoveredGrows' /\ WritesCovered'
  BY <1>1 DEF CoveredGrows, WritesCovered, Covers
<1>7. FloorCovered'
  BY <1>1 DEF TypeOK, Return, FloorCovered, Covers
<1>8. BuildCovers' /\ FreshAnswer'
  BY <1>1 DEF TypeOK, Return, BuildCovers, FreshAnswer, Covers
<1>9. CachedCovers' /\ NoDeadEntry'
  BY <1>1 DEF CachedCovers, NoDeadEntry, Covers
<1>10. QED
  BY <1>3, <1>4, <1>5, <1>6, <1>7, <1>8, <1>9

\* A finished build covers its generation, so it may answer, and be cached
\* while that generation is the current one.
LEMMA CheckKeeps ==
  ASSUME CacheInv, NEW q \in Query, CheckCurrent(q)
  PROVE  CacheInv'
<1> USE DEF CacheInv
<1>1. gen[q] \in Gen /\ floor[q] \in Corpus /\ covered[gen[q]] \in Corpus /\ app[q] \in Corpus
  BY DEF TypeOK
<1>2. TypeOK'
  BY DEF TypeOK, CheckCurrent, writerVars, Place
<1>3. LockHeld'
  <2>1. marker = gen[q] => gen[q] >= cleared
    BY CacheAssumption DEF TypeOK, PastOnly, Gen
  <2>2. CASE marker = gen[q]
    BY <2>1, <2>2, CacheAssumption DEF TypeOK, CheckCurrent, LockHeld, writerVars
  <2>3. CASE marker # gen[q]
    BY <2>3, CacheAssumption DEF TypeOK, CheckCurrent, LockHeld, writerVars
  <2>4. QED
    BY <2>2, <2>3
<1>4. PastOnly' /\ CoveredGrows' /\ WritesCovered'
  BY DEF CheckCurrent, PastOnly, CoveredGrows, WritesCovered, Covers, writerVars
<1>5. FloorCovered'
  BY DEF TypeOK, CheckCurrent, FloorCovered, Covers, writerVars
<1>6. Covers(app[q], covered[gen[q]])
  BY DEF CheckCurrent, BuildCovers, Covers
<1>7. BuildCovers'
  BY <1>6 DEF TypeOK, CheckCurrent, BuildCovers, Covers, writerVars
<1>8. FreshAnswer'
  <2>1. Covers(app[q], floor[q])
    BY <1>1, <1>6, CoversOrder DEF CheckCurrent, FloorCovered
  <2>2. QED
    BY <2>1 DEF TypeOK, CheckCurrent, FreshAnswer, Covers, writerVars
<1>9. CachedCovers' /\ NoDeadEntry'
  BY DEF CheckCurrent, CachedCovers, NoDeadEntry, Covers, writerVars
<1>10. QED
  BY <1>2, <1>3, <1>4, <1>5, <1>7, <1>8, <1>9

LEMMA InsertKeeps ==
  ASSUME CacheInv, NEW q \in Query, Insert(q)
  PROVE  CacheInv'
<1> USE DEF CacheInv
<1>1. gen[q] \in Gen /\ floor[q] \in Corpus /\ covered[gen[q]] \in Corpus /\ app[q] \in Corpus
  BY DEF TypeOK
<1>2. Covers(app[q], covered[gen[q]]) /\ gen[q] >= cleared /\ gen[q] <= marker
  BY DEF Insert, BuildCovers, LockHeld, PastOnly
<1>3. TypeOK'
  BY <1>1 DEF TypeOK, Insert, writerVars, Place
<1>4. LockHeld'
  BY CacheAssumption DEF TypeOK, Insert, LockHeld, writerVars
<1>5. PastOnly'
  BY <1>1, <1>2 DEF TypeOK, Insert, PastOnly, writerVars
<1>6. CoveredGrows' /\ WritesCovered'
  BY DEF Insert, CoveredGrows, WritesCovered, Covers, writerVars
<1>7. FloorCovered' /\ BuildCovers'
  BY DEF TypeOK, Insert, FloorCovered, BuildCovers, Covers, writerVars
<1>8. FreshAnswer'
  <2>1. Covers(app[q], floor[q])
    BY <1>1, <1>2, CoversOrder DEF Insert, FloorCovered
  <2>2. QED
    BY <2>1 DEF TypeOK, Insert, FreshAnswer, Covers, writerVars
<1>9. CachedCovers'
  BY <1>1, <1>2 DEF TypeOK, Insert, CachedCovers, Covers, writerVars
<1>10. NoDeadEntry'
  BY <1>1, <1>2 DEF TypeOK, Insert, NoDeadEntry, writerVars
<1>11. QED
  BY <1>3, <1>4, <1>5, <1>6, <1>7, <1>8, <1>9, <1>10

\* A revision written to disk only grows what later builds read.
LEMMA EditKeeps ==
  ASSUME CacheInv, NEW w \in Writer, NEW d \in Doc, Edit(w, d)
  PROVE  CacheInv'
<1> USE DEF CacheInv
<1>1. md[d] + 1 \in Rev /\ Rev \subseteq Nat
  BY CacheAssumption DEF TypeOK, Corpus, Rev, Edit
<1>2. md' \in Corpus /\ wrote' \in [Writer -> Corpus]
  <2>1. md' \in Corpus
    BY <1>1 DEF TypeOK, Corpus, Edit
  <2>2. wrote[w] \in Corpus
    BY DEF TypeOK
  <2>3. [wrote[w] EXCEPT ![d] = md[d] + 1] \in Corpus
    BY <1>1, <2>2 DEF Corpus
  <2>4. wrote' = [wrote EXCEPT ![w] = [wrote[w] EXCEPT ![d] = md[d] + 1]]
    BY DEF Edit
  <2>5. wrote' \in [Writer -> Corpus]
    BY <2>3, <2>4 DEF TypeOK
  <2>6. QED
    BY <2>1, <2>5
<1>3. TypeOK'
  BY <1>2 DEF TypeOK, Edit, queryVars
<1>4. Covers(md', md)
  <2>1. \A c \in Doc : md'[c] = IF c = d THEN md[c] + 1 ELSE md[c]
    BY DEF TypeOK, Corpus, Edit
  <2>2. \A c \in Doc : md[c] \in Nat
    BY <1>1 DEF TypeOK, Corpus
  <2>3. QED
    BY <2>1, <2>2 DEF Covers
<1>5. LockHeld' /\ PastOnly'
  BY DEF Edit, LockHeld, PastOnly, queryVars
<1>6. CoveredGrows'
  <2>1. Covers(md', covered[marker])
    BY <1>2, <1>4, CoversOrder DEF TypeOK, CoveredGrows
  <2>2. QED
    BY <2>1 DEF Edit, CoveredGrows, Covers, queryVars
<1>7. WritesCovered'
  <2>1. ASSUME NEW v \in Writer PROVE Covers(md', wrote'[v])
    <3>1. Covers(md, wrote[v]) /\ wrote[v] \in Corpus /\ md \in Corpus
      BY DEF WritesCovered, TypeOK
    <3>2. Covers(md', wrote[v])
      BY <1>2, <1>4, <3>1, CoversOrder
    <3>3. md'[d] = md[d] + 1 /\ md[d] \in Nat
      BY <1>1 DEF TypeOK, Corpus, Edit
    <3>4. QED
      BY <3>2, <3>3 DEF Covers, Edit, TypeOK, Corpus
  <2>2. \A v \in Writer : stage'[v] = "clearing" => stage[v] = "clearing" /\ wrote'[v] = wrote[v]
    BY DEF Edit, TypeOK
  <2>3. covered' = covered /\ marker' = marker /\ acked' = acked
    BY DEF Edit
  <2>4. QED
    BY <2>1, <2>2, <2>3 DEF WritesCovered, Covers
<1>8. FloorCovered' /\ BuildCovers' /\ FreshAnswer'
  BY DEF Edit, FloorCovered, BuildCovers, FreshAnswer, Covers, queryVars
<1>9. CachedCovers' /\ NoDeadEntry'
  BY DEF Edit, CachedCovers, NoDeadEntry, Covers, queryVars
<1>10. QED
  BY <1>3, <1>5, <1>6, <1>7, <1>8, <1>9

LEMMA AbandonKeeps ==
  ASSUME CacheInv, NEW w \in Writer, Abandon(w)
  PROVE  CacheInv'
<1> USE DEF CacheInv
<1>1. TypeOK'
  BY BlankCovered DEF TypeOK, Abandon, queryVars
<1>2. LockHeld' /\ PastOnly' /\ CoveredGrows'
  BY DEF Abandon, LockHeld, PastOnly, CoveredGrows, Covers, queryVars
<1>3. WritesCovered'
  <2>1. Covers(md, Blank)
    BY BlankCovered DEF TypeOK
  <2>2. QED
    BY <2>1 DEF TypeOK, Abandon, WritesCovered, Covers, queryVars
<1>4. FloorCovered' /\ BuildCovers' /\ FreshAnswer'
  BY DEF Abandon, FloorCovered, BuildCovers, FreshAnswer, Covers, queryVars
<1>5. CachedCovers' /\ NoDeadEntry'
  BY DEF Abandon, CachedCovers, NoDeadEntry, Covers, queryVars
<1>6. QED
  BY <1>1, <1>2, <1>3, <1>4, <1>5

\* Publishing covers everything on disk, the writer's own revisions included.
LEMMA PublishKeeps ==
  ASSUME CacheInv, NEW w \in Writer, Publish(w)
  PROVE  CacheInv'
<1> USE DEF CacheInv
<1>1. /\ marker \in Nat /\ marker' = marker + 1 /\ marker' \in Gen /\ Gen \subseteq Nat
      /\ cleared \in Nat
  BY CacheAssumption DEF TypeOK, Publish, Gen
<1>2. /\ \A q \in Query : gen[q] \in Gen /\ gen[q] <= marker
      /\ \A g \in Gen : g # marker' => covered'[g] = covered[g]
      /\ covered'[marker'] = md
      /\ md' = md /\ cache' = cache /\ cleared' = cleared /\ lock' = lock
      /\ UNCHANGED queryVars
  BY <1>1 DEF TypeOK, PastOnly, Publish
<1>3. md \in Corpus /\ acked \in Corpus /\ covered[marker] \in Corpus
  BY DEF TypeOK
<1>4. Covers(md, covered[marker]) /\ Covers(md, md)
  BY <1>3, CoversOrder DEF CoveredGrows
<1>5. /\ acked' \in Corpus /\ Covers(md, acked')
      /\ wrote' \in [Writer -> Corpus] /\ \A v \in Writer : Covers(md, wrote'[v])
      /\ stage' \in [Writer -> {"idle", "editing", "clearing"}]
  <2>1. Covers(covered[marker], acked)
    BY DEF WritesCovered
  <2>2. Covers(md, acked)
    BY <1>3, <1>4, <2>1, CoversOrder
  <2>3. wrote[w] \in Corpus /\ Covers(md, wrote[w])
    BY DEF TypeOK, WritesCovered
  <2>4. Join(acked, wrote[w]) \in Corpus /\ Covers(md, Join(acked, wrote[w]))
    BY <1>3, <2>2, <2>3, CoversOrder
  <2>5. Covers(md, Blank)
    BY <1>3, BlankCovered
  <2>6. CASE w \in Handler
    BY <1>3, <2>2, <2>6 DEF Publish, Leave, TypeOK, WritesCovered
  <2>7. CASE w \notin Handler
    BY <2>4, <2>5, <2>7, BlankCovered DEF Publish, Leave, Complete, TypeOK, WritesCovered
  <2>8. QED
    BY <2>6, <2>7
<1>6. TypeOK'
  <2>1. covered' \in [Gen -> Corpus]
    BY <1>3 DEF TypeOK, Publish
  <2>2. QED
    BY <1>1, <1>2, <1>5, <2>1 DEF TypeOK, queryVars
<1>7. LockHeld'
  BY <1>2 DEF LockHeld, queryVars
<1>8. PastOnly'
  <2>1. cleared' <= marker'
    BY <1>1, <1>2 DEF PastOnly
  <2>2. \A q \in Query : gen'[q] <= marker'
    <3>1. gen' = gen
      BY <1>2 DEF queryVars
    <3>2. ASSUME NEW q \in Query PROVE gen[q] <= marker'
      <4>1. gen[q] \in Nat /\ gen[q] <= marker
        BY <1>1, <1>2
      <4>2. QED
        BY <1>1, <4>1
    <3>3. QED
      BY <3>1, <3>2
  <2>3. \A g \in Gen : cache'[g] # NoApp => g <= marker'
    BY <1>1, <1>2 DEF PastOnly
  <2>4. QED
    BY <2>1, <2>2, <2>3 DEF PastOnly
<1>9. CoveredGrows'
  <2>1. ASSUME NEW g \in Gen, NEW h \in Gen, g <= h, h <= marker'
        PROVE  Covers(covered'[h], covered'[g])
    <3>1. CASE h # marker'
      BY <1>1, <1>2, <2>1, <3>1 DEF CoveredGrows
    <3>2. CASE h = marker' /\ g = marker'
      BY <1>2, <1>4, <3>2
    <3>3. CASE h = marker' /\ g # marker'
      <4>1. g <= marker /\ marker \in Gen /\ marker <= marker /\ covered[g] \in Corpus
        BY <1>1, <2>1, <3>3 DEF TypeOK
      <4>2. Covers(covered[marker], covered[g])
        BY <4>1 DEF CoveredGrows
      <4>3. QED
        BY <1>2, <1>3, <1>4, <3>3, <4>1, <4>2, CoversOrder
    <3>4. QED
      BY <3>1, <3>2, <3>3
  <2>2. QED
    BY <1>2, <1>4, <2>1 DEF CoveredGrows
<1>10. WritesCovered'
  BY <1>2, <1>5 DEF WritesCovered
<1>11. \A q \in Query : gen[q] \in Gen /\ gen[q] # marker'
  <2>1. ASSUME NEW q \in Query PROVE gen[q] \in Gen /\ gen[q] # marker'
    <3>1. gen[q] \in Nat /\ gen[q] <= marker /\ gen[q] \in Gen
      BY <1>1, <1>2
    <3>2. QED
      BY <1>1, <3>1
  <2>2. QED
    BY <2>1
<1>12. FloorCovered'
  <2>1. ASSUME NEW q \in Query, pc[q] = "starting" PROVE Covers(md, floor[q])
    BY <1>3, <1>4, <2>1, CoversOrder DEF FloorCovered, TypeOK
  <2>2. \A q \in Query : covered'[gen[q]] = covered[gen[q]]
    BY <1>2, <1>11
  <2>3. QED
    BY <1>2, <2>1, <2>2 DEF FloorCovered, queryVars
<1>13. BuildCovers' /\ FreshAnswer'
  <2>1. \A q \in Query : covered'[gen[q]] = covered[gen[q]]
    BY <1>2, <1>11
  <2>2. BuildCovers'
    BY <1>2, <2>1 DEF BuildCovers, Covers, queryVars
  <2>3. FreshAnswer'
    BY <1>2 DEF FreshAnswer, Covers, queryVars
  <2>4. QED
    BY <2>2, <2>3
<1>14. CachedCovers' /\ NoDeadEntry'
  <2>1. \A g \in Gen : cache[g] # NoApp => covered'[g] = covered[g]
    BY <1>1, <1>2 DEF PastOnly
  <2>2. QED
    BY <1>2, <2>1 DEF CachedCovers, NoDeadEntry
<1>15. QED
  BY <1>6, <1>7, <1>8, <1>9, <1>10, <1>12, <1>13, <1>14

\* A clear finds nobody about to insert, so nothing older comes back after it.
LEMMA ClearKeeps ==
  ASSUME CacheInv, NEW h \in Handler, Clear(h)
  PROVE  CacheInv'
<1> USE DEF CacheInv
<1>1. h \in Writer /\ wrote[h] \in Corpus /\ acked \in Corpus /\ covered[marker] \in Corpus
  BY DEF Writer, TypeOK
<1>2. Join(acked, wrote[h]) \in Corpus /\ Covers(covered[marker], Join(acked, wrote[h]))
  BY <1>1, CoversOrder DEF Clear, WritesCovered
<1>3. TypeOK'
  BY <1>1, <1>2, BlankCovered DEF TypeOK, Clear, Complete, queryVars
<1>4. LockHeld'
  BY CacheAssumption DEF TypeOK, Clear, LockHeld, queryVars
<1>5. PastOnly'
  BY CacheAssumption DEF TypeOK, Clear, PastOnly, queryVars, Gen
<1>6. CoveredGrows' /\ FloorCovered' /\ BuildCovers' /\ FreshAnswer'
  BY DEF Clear, CoveredGrows, FloorCovered, BuildCovers, FreshAnswer, Covers, queryVars
<1>7. WritesCovered'
  <2>1. Covers(md, Blank)
    BY BlankCovered DEF TypeOK
  <2>2. QED
    BY <1>1, <1>2, <2>1 DEF TypeOK, Clear, Complete, WritesCovered, Covers
<1>8. CachedCovers' /\ NoDeadEntry'
  BY DEF Clear, CachedCovers, NoDeadEntry
<1>9. QED
  BY <1>3, <1>4, <1>5, <1>6, <1>7, <1>8

\* A restart forgets the cache and every call, and keeps the marker and the files.
LEMMA RestartKeeps ==
  ASSUME CacheInv, Restart
  PROVE  CacheInv'
<1> USE DEF CacheInv
<1>1. 0 \in Gen /\ Gen \subseteq Nat
  BY CacheAssumption DEF Gen
<1>2. TypeOK'
  BY <1>1, BlankCovered DEF TypeOK, Restart, Place
<1>3. LockHeld'
  BY CacheAssumption DEF Restart, LockHeld
<1>4. PastOnly'
  BY <1>1 DEF TypeOK, Restart, PastOnly
<1>5. CoveredGrows'
  BY DEF Restart, CoveredGrows, Covers
<1>6. WritesCovered'
  <2>1. Covers(md, Blank)
    BY BlankCovered DEF TypeOK
  <2>2. QED
    BY <2>1 DEF TypeOK, Restart, WritesCovered, Covers
<1>7. FloorCovered' /\ BuildCovers' /\ FreshAnswer'
  BY DEF Restart, FloorCovered, BuildCovers, FreshAnswer
<1>8. CachedCovers' /\ NoDeadEntry'
  BY DEF Restart, CachedCovers, NoDeadEntry
<1>9. QED
  BY <1>2, <1>3, <1>4, <1>5, <1>6, <1>7, <1>8

\* Every step of every query, writer and restart keeps the invariant.
THEOREM CacheInvariant == Spec => []CacheInv
<1>1. CacheInv /\ [Next]_vars => CacheInv'
  <2> SUFFICES ASSUME CacheInv, [Next]_vars PROVE CacheInv'
    OBVIOUS
  <2>1. CASE \E q \in Query : Begin(q) \/ ReadMarker(q)
    BY <2>1, QueryBegins
  <2>2. CASE \E q \in Query : Lookup(q)
    BY <2>2, LookupKeeps
  <2>3. CASE \E q \in Query, d \in Doc : BuildRead(q, d)
    BY <2>3, BuildReadKeeps
  <2>4. CASE \E q \in Query : CheckCurrent(q)
    BY <2>4, CheckKeeps
  <2>5. CASE \E q \in Query : Insert(q)
    BY <2>5, InsertKeeps
  <2>6. CASE \E q \in Query : BuildFails(q) \/ Answered(q)
    BY <2>6, ReturnKeeps
  <2>7. CASE \E w \in Writer, d \in Doc : Edit(w, d)
    BY <2>7, EditKeeps
  <2>8. CASE \E w \in Writer : Abandon(w)
    BY <2>8, AbandonKeeps
  <2>9. CASE \E w \in Writer : Publish(w)
    BY <2>9, PublishKeeps
  <2>10. CASE \E h \in Handler : Clear(h)
    BY <2>10, ClearKeeps
  <2>11. CASE Restart
    BY <2>11, RestartKeeps
  <2>12. CASE UNCHANGED vars
    BY <2>12 DEF CacheInv, vars, queryVars, writerVars, TypeOK, LockHeld, PastOnly,
                 CoveredGrows, WritesCovered, FloorCovered, BuildCovers, CachedCovers,
                 FreshAnswer, NoDeadEntry, Covers
  <2>13. QED
    BY <2>1, <2>2, <2>3, <2>4, <2>5, <2>6, <2>7, <2>8, <2>9, <2>10, <2>11, <2>12
       DEF Next, QueryStep
<1>2. QED
  BY <1>1, InitCache, PTL DEF Spec

\* A query that begins after a corpus mutation completed is answered from an
\* index that includes it.
THEOREM AnswersStayFresh == Spec => []FreshAnswer
<1>1. CacheInv => FreshAnswer
  BY DEF CacheInv
<1>2. QED
  BY <1>1, CacheInvariant, PTL

\* What is cached under a generation is as new as the corpus it was published for.
THEOREM CacheStaysCurrent == Spec => []CachedCovers
<1>1. CacheInv => CachedCovers
  BY DEF CacheInv
<1>2. QED
  BY <1>1, CacheInvariant, PTL

\* No workflow of a generation that a completed clear has passed is in memory.
THEOREM DeadEntriesGone == Spec => []NoDeadEntry
<1>1. CacheInv => NoDeadEntry
  BY DEF CacheInv
<1>2. QED
  BY <1>1, CacheInvariant, PTL

\* Every variable keeps its type, and a miss never answers.
THEOREM CacheTypes == Spec => []TypeOK
<1>1. CacheInv => TypeOK
  BY DEF CacheInv
<1>2. QED
  BY <1>1, CacheInvariant, PTL
=============================================================================
