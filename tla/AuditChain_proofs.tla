------------------------- MODULE AuditChain_proofs -------------------------
(***************************************************************************)
(* Proofs about AuditChain: every variable keeps its type, and the chain   *)
(* of a file no write tore stays intact and the log implements the ledger  *)
(* of AuditLedger, for any number of threads, events, days and faults, as  *)
(* long as the writers share one process and nobody empties a file between *)
(* the tip read and the append of a record.                                *)
(***************************************************************************)
EXTENDS AuditChain, WellFoundedInduction, TLAPS

LEMMA LineType ==
  ASSUME NEW p \in Hash, NEW e \in Event
  PROVE  /\ RecordLine(p, e) \in Line
         /\ [RecordLine(p, e) EXCEPT !.kind = "open"] \in Line
         /\ Digest(p, e) \in Hash
  BY DEF Hash, Line, RecordLine, Digest

LEMMA AppendedType ==
  ASSUME NEW f \in Seq(Line), NEW l \in Line
  PROVE  Appended(f, l) \in Seq(Line)
<1>1. CASE f # <<>> /\ f[Len(f)].kind = "open"
  <2>1. [l EXCEPT !.kind = "garbled"] \in Line
    BY DEF Line
  <2>2. Len(f) \in 1..Len(f)
    BY <1>1
  <2>3. QED
    BY <1>1, <2>1, <2>2 DEF Appended
<1>2. CASE ~(f # <<>> /\ f[Len(f)].kind = "open")
  BY <1>2 DEF Appended
<1>3. QED
  BY <1>1, <1>2

LEMMA TipType ==
  ASSUME NEW f \in Seq(Line)
  PROVE  TipOf(f) \in Hash /\ ColdTip(f) \in Hash
<1>1. Genesis \in Hash
  BY DEF Genesis, Hash
<1>2. ASSUME f # <<>>
      PROVE  f[Len(f)].hash \in Hash
  <2>1. f[Len(f)] \in Line
    BY <1>2
  <2>2. QED
    BY <2>1 DEF Line
<1>3. QED
  BY <1>1, <1>2 DEF TipOf, ColdTip

LEMMA PrevHashType ==
  ASSUME TypeOK, NEW p \in Proc, NEW d \in Day
  PROVE  PrevHash(p, d) \in Hash
<1>1. Genesis \in Hash
  BY DEF Genesis, Hash
<1>2. cache[p][d] \in Hash \cup {NoHash}
  BY DEF TypeOK
<1>3. ColdTip(file[d]) \in Hash
  BY TipType DEF TypeOK
<1>4. QED
  BY <1>1, <1>2, <1>3 DEF PrevHash

\* Every reachable state is well typed: a stored prev_hash is a digest, a lock's
\* holder is a thread, the fault budget is never exceeded.
THEOREM TypeCorrect == Spec => []TypeOK
<1>1. Init => TypeOK
  <2>1. Genesis \in Hash /\ (CHOOSE e \in Event : TRUE) \in Event /\ 1 \in Day
    BY ChainAssumption DEF Genesis, Hash, Day
  <2>2. QED
    BY <2>1, ChainAssumption DEF Init, TypeOK, FreshCall, IdleCheck
<1>2. TypeOK /\ [Next]_vars => TypeOK'
  <2> SUFFICES ASSUME TypeOK, [Next]_vars
               PROVE  TypeOK'
    OBVIOUS
  <2>1. ASSUME NEW t \in Thread, NEW e \in Event, BeginWrite(t, e)
        PROVE  TypeOK'
    <3>1. Genesis \in Hash
      BY DEF Genesis, Hash
    <3>2. QED
      BY <2>1, <3>1 DEF TypeOK, BeginWrite, checkVars
  <2>2. ASSUME NEW t \in Thread, Acquire(t)
        PROVE  TypeOK'
    <3>1. ProcOf[t] \in Proc /\ call[t].day \in Day
      BY ChainAssumption DEF TypeOK
    <3>2. PrevHash(ProcOf[t], call[t].day) \in Hash
      BY <3>1, PrevHashType
    <3>3. cache' \in [Proc -> [Day -> Hash \cup {NoHash}]]
      <4>1. cache' = CacheAfterRead(ProcOf[t], call[t].day)
        BY <2>2 DEF Acquire
      <4>2. CacheAfterRead(ProcOf[t], call[t].day) \in [Proc -> [Day -> Hash \cup {NoHash}]]
        BY <3>1 DEF TypeOK, CacheAfterRead
      <4>3. QED
        BY <4>1, <4>2
    <3>4. call' \in [Thread -> [day : Day, event : Event, prev : Hash]]
      <4>1. call' = [call EXCEPT ![t].prev = PrevHash(ProcOf[t], call[t].day)]
        BY <2>2 DEF Acquire
      <4>2. call \in [Thread -> [day : Day, event : Event, prev : Hash]]
        BY DEF TypeOK
      <4>3. [call[t] EXCEPT !.prev = PrevHash(ProcOf[t], call[t].day)]
              \in [day : Day, event : Event, prev : Hash]
        BY <3>2, <4>2, Zenon
      <4>4. QED
        BY <4>1, <4>2, <4>3, Zenon
    <3>5. lock' \in [Proc -> Thread \cup {NoThread}]
      BY <2>2, <3>1 DEF TypeOK, Acquire
    <3>6. QED
      BY <2>2, <3>3, <3>4, <3>5 DEF TypeOK, Acquire, checkVars
  <2>3. ASSUME NEW t \in Thread, AppendLine(t)
        PROVE  TypeOK'
    <3>1. call[t].day \in Day /\ call[t].prev \in Hash /\ call[t].event \in Event
      BY DEF TypeOK
    <3>2. Appended(file[call[t].day], RecordLine(call[t].prev, call[t].event)) \in Seq(Line)
      BY <3>1, LineType, AppendedType DEF TypeOK
    <3>3. QED
      BY <2>3, <3>1, <3>2 DEF TypeOK, AppendLine, checkVars
  <2>4. ASSUME NEW t \in Thread, AppendFails(t)
        PROVE  TypeOK'
    <3>1. call[t].day \in Day /\ call[t].prev \in Hash /\ call[t].event \in Event
      BY DEF TypeOK
    <3>2. Appended(file[call[t].day],
                   [RecordLine(call[t].prev, call[t].event) EXCEPT !.kind = "open"]) \in Seq(Line)
      BY <3>1, LineType, AppendedType DEF TypeOK
    <3>3. file' \in [Day -> Seq(Line)]
      BY <2>4, <3>1, <3>2 DEF TypeOK, AppendFails
    <3>4. faults' \in 0..MaxFaults
      BY <2>4, ChainAssumption DEF TypeOK, AppendFails
    <3>5. QED
      BY <2>4, <3>3, <3>4, ChainAssumption DEF TypeOK, AppendFails, checkVars
  <2>5. ASSUME NEW t \in Thread, Publish(t)
        PROVE  TypeOK'
    <3>1. call[t].day \in Day /\ Digest(call[t].prev, call[t].event) \in Hash
      BY LineType DEF TypeOK
    <3>2. QED
      BY <2>5, <3>1, ChainAssumption DEF TypeOK, Publish, checkVars
  <2>6. ASSUME NEW p \in Proc, Crash(p)
        PROVE  TypeOK'
    <3>1. \A t \in Thread :
            /\ call[t].day \in Day
            /\ Appended(file[call[t].day],
                 [RecordLine(call[t].prev, call[t].event) EXCEPT !.kind = "open"]) \in Seq(Line)
      BY LineType, AppendedType DEF TypeOK
    <3>2. file' \in [Day -> Seq(Line)]
      <4>1. CASE file' = file
        BY <4>1 DEF TypeOK
      <4>2. ASSUME NEW t \in Thread,
                   file' = [file EXCEPT ![call[t].day] = Appended(@,
                     [RecordLine(call[t].prev, call[t].event) EXCEPT !.kind = "open"])]
            PROVE  file' \in [Day -> Seq(Line)]
        BY <3>1, <4>2 DEF TypeOK
      <4>3. QED
        BY <2>6, <4>1, <4>2 DEF Crash
    <3>3. faults' \in 0..MaxFaults
      BY <2>6, ChainAssumption DEF TypeOK, Crash
    <3>4. QED
      BY <2>6, <3>2, <3>3 DEF TypeOK, Crash, checkVars
  <2>7. ASSUME NEW d \in Day, Clear(d)
        PROVE  TypeOK'
    BY <2>7, ChainAssumption DEF TypeOK, Clear, checkVars
  <2>8. CASE Midnight
    BY <2>8, ChainAssumption DEF TypeOK, Midnight, logVars, checkVars, Day
  <2>9. ASSUME NEW d \in Day, NEW s \in {"yesterday", "write"}, VerifyDay(d, s)
        PROVE  /\ alerts' \in SUBSET Day
               /\ check' \in [step : {"idle", "yesterday", "write"}, day : Day, broken : BOOLEAN]
    <3>1. IdleCheck \in [step : {"idle", "yesterday", "write"}, day : Day, broken : BOOLEAN]
      BY ChainAssumption DEF IdleCheck, Day
    <3>2. PICK v \in VerifyOutcomes(d) :
            /\ alerts' = IF v = "broken" THEN alerts \cup {d} ELSE alerts
            /\ check' = IF v = "raises" THEN IdleCheck
                        ELSE [check EXCEPT !.step = s, !.day = d,
                                           !.broken = @ \/ v = "broken"]
      BY <2>9 DEF VerifyDay
    <3>3. (check.broken \/ v = "broken") \in BOOLEAN
      OBVIOUS
    <3>4. QED
      BY <3>1, <3>2, <3>3 DEF TypeOK
  <2>10. CASE CheckToday
    BY <2>9, <2>10 DEF TypeOK, CheckToday, logVars
  <2>11. CASE CheckYesterday
    <3>1. CASE check.day > 1
      <4>1. check.day - 1 \in Day
        BY <3>1, ChainAssumption DEF TypeOK, Day
      <4>2. QED
        BY <2>9, <2>11, <3>1, <4>1 DEF TypeOK, CheckYesterday, logVars
    <3>2. CASE ~(check.day > 1)
      <4>1. /\ check' = [check EXCEPT !.step = "write"] /\ alerts' = alerts
            /\ UNCHANGED <<today, logVars, faults, status>>
        BY <2>11, <3>2 DEF CheckYesterday
      <4>2. check' \in [step : {"idle", "yesterday", "write"}, day : Day, broken : BOOLEAN]
        BY <4>1, Zenon DEF TypeOK
      <4>3. QED
        BY <4>1, <4>2 DEF TypeOK, logVars
    <3>3. QED
      BY <3>1, <3>2
  <2>12. CASE WriteStatus
    <3>1. 1 \in Day
      BY ChainAssumption DEF Day
    <3>2. IdleCheck \in [step : {"idle", "yesterday", "write"}, day : Day, broken : BOOLEAN]
      BY <3>1 DEF IdleCheck
    <3>3. check' = IdleCheck /\ status' \in {"none", "intact", "broken"}
      BY <2>12 DEF WriteStatus
    <3>4. QED
      BY <2>12, <3>2, <3>3 DEF TypeOK, WriteStatus, logVars
  <2>13. CASE UNCHANGED vars
    BY <2>13 DEF TypeOK, vars, logVars, checkVars
  <2>14. QED
    BY <2>1, <2>2, <2>3, <2>4, <2>5, <2>6, <2>7, <2>8, <2>10, <2>11, <2>12, <2>13
       DEF Next, WriteStep, CheckStep
<1>3. QED
  BY <1>1, <1>2, PTL DEF Spec

-----------------------------------------------------------------------------
\* If the file is not torn after a whole line was appended, it was not torn before,
\* and its tip is the digest of that line.
LEMMA AppendRecord ==
  ASSUME NEW f \in Seq(Line), NEW p \in Hash, NEW e \in Event,
         TornFree(Appended(f, RecordLine(p, e)))
  PROVE  /\ TornFree(f)
         /\ Appended(f, RecordLine(p, e)) = Append(f, RecordLine(p, e))
         /\ TipOf(Appended(f, RecordLine(p, e))) = Digest(p, e)
<1> DEFINE l == RecordLine(p, e)
<1>1. l \in Line
  BY LineType
<1>2. ~(f # <<>> /\ f[Len(f)].kind = "open")
  <2> SUFFICES ASSUME f # <<>>, f[Len(f)].kind = "open"
               PROVE  FALSE
    OBVIOUS
  <2>1. Appended(f, l) = [f EXCEPT ![Len(f)] = [l EXCEPT !.kind = "garbled"]]
    BY DEF Appended
  <2>2. Len(f) \in DOMAIN f
    OBVIOUS
  <2>3. Appended(f, l)[Len(f)].kind = "garbled" /\ Len(f) \in DOMAIN Appended(f, l)
    BY <1>1, <2>1, <2>2 DEF Line
  <2>4. QED
    BY <2>3 DEF TornFree
<1>3. Appended(f, l) = Append(f, l)
  BY <1>2 DEF Appended
<1>4. TornFree(f)
  <2> SUFFICES ASSUME NEW i \in DOMAIN f
               PROVE  f[i].kind = "record"
    BY DEF TornFree
  <2>1. i \in DOMAIN Append(f, l) /\ Append(f, l)[i] = f[i]
    BY <1>1
  <2>2. QED
    BY <2>1, <1>3 DEF TornFree
<1>5. TipOf(Append(f, l)) = l.hash
  <2>1. Append(f, l) # <<>> /\ Append(f, l)[Len(Append(f, l))] = l
    BY <1>1
  <2>2. QED
    BY <2>1 DEF TipOf
<1>6. l.hash = Digest(p, e)
  BY DEF RecordLine
<1>7. QED
  BY <1>3, <1>4, <1>5, <1>6

\* A part of a line always leaves a torn file.
LEMMA AppendOpen ==
  ASSUME NEW f \in Seq(Line), NEW p \in Hash, NEW e \in Event
  PROVE  ~TornFree(Appended(f, [RecordLine(p, e) EXCEPT !.kind = "open"]))
<1> DEFINE l == [RecordLine(p, e) EXCEPT !.kind = "open"]
<1>1. l \in Line /\ l.kind = "open"
  BY LineType DEF RecordLine
<1>2. CASE f # <<>> /\ f[Len(f)].kind = "open"
  <2>1. Appended(f, l) = [f EXCEPT ![Len(f)] = [l EXCEPT !.kind = "garbled"]]
    BY <1>2 DEF Appended
  <2>2. Len(f) \in DOMAIN f
    BY <1>2
  <2>3. Appended(f, l)[Len(f)].kind = "garbled" /\ Len(f) \in DOMAIN Appended(f, l)
    BY <1>1, <2>1, <2>2 DEF Line
  <2>4. QED
    BY <2>3 DEF TornFree
<1>3. CASE ~(f # <<>> /\ f[Len(f)].kind = "open")
  <2>1. Appended(f, l) = Append(f, l)
    BY <1>3 DEF Appended
  <2>2. Len(f) + 1 \in DOMAIN Append(f, l) /\ Append(f, l)[Len(f) + 1] = l
    BY <1>1
  <2>3. QED
    BY <1>1, <2>1, <2>2 DEF TornFree
<1>4. QED
  BY <1>2, <1>3

\* A line hashed over the tip of a valid file extends the valid file.
LEMMA ExtendChain ==
  ASSUME NEW f \in Seq(Line), NEW e \in Event, ChainValid(f)
  PROVE  ChainValid(Append(f, RecordLine(TipOf(f), e)))
<1> DEFINE l == RecordLine(TipOf(f), e)
           g == Append(f, l)
<1>1. TipOf(f) \in Hash /\ l \in Line
  BY TipType, LineType
<1>2. g \in Seq(Line) /\ Len(g) = Len(f) + 1 /\ g[Len(f) + 1] = l
  BY <1>1
<1>3. \A i \in DOMAIN f : i \in 1..Len(f) /\ g[i] = f[i]
  BY <1>1
<1>4. ASSUME NEW i \in DOMAIN g, i # Len(f) + 1
      PROVE  LineAccepted(g, i)
  <2>1. i \in DOMAIN f /\ g[i] = f[i] /\ LineAccepted(f, i)
    BY <1>2, <1>3, <1>4 DEF ChainValid
  <2>2. i # 1 => (i - 1 \in DOMAIN f /\ g[i - 1] = f[i - 1])
    BY <2>1, <1>3
  <2>3. QED
    BY <2>1, <2>2 DEF LineAccepted
<1>5. LineAccepted(g, Len(f) + 1)
  <2>1. l.kind = "record" /\ l.prev = TipOf(f) /\ l.event = e /\ l.hash = Digest(TipOf(f), e)
    BY DEF RecordLine
  <2>2. CASE f = <<>>
    BY <1>2, <2>1, <2>2 DEF LineAccepted, TipOf
  <2>3. CASE f # <<>>
    <3>1. Len(f) \in DOMAIN f /\ Len(f) + 1 # 1 /\ (Len(f) + 1) - 1 = Len(f)
      BY <2>3
    <3>2. TipOf(f) = g[Len(f)].hash
      BY <2>3, <1>3, <3>1 DEF TipOf
    <3>3. QED
      BY <1>2, <2>1, <3>1, <3>2 DEF LineAccepted
  <2>4. QED
    BY <2>2, <2>3
<1>6. QED
  BY <1>4, <1>5 DEF ChainValid

-----------------------------------------------------------------------------
\* What every reader of the tip gets is the tip: by the cache when the file has
\* content, from the last line on a cold start, genesis for an emptied file.
LEMMA PrevHashIsTip ==
  ASSUME TypeOK, TipCached, NEW t \in Thread, NEW d \in Day, TornFree(file[d]),
         \A u \in Thread : pc[u] # "publish"
  PROVE  PrevHash(ProcOf[t], d) = TipOf(file[d])
<1>1. CASE file[d] = <<>>
  BY <1>1 DEF PrevHash, TipOf, ColdTip
<1>2. CASE file[d] # <<>> /\ cache[ProcOf[t]][d] # NoHash
  BY <1>2 DEF PrevHash, TipCached
<1>3. CASE file[d] # <<>> /\ cache[ProcOf[t]][d] = NoHash
  <2>1. Len(file[d]) \in DOMAIN file[d]
    BY <1>3 DEF TypeOK
  <2>2. file[d][Len(file[d])].kind = "record"
    BY <2>1 DEF TornFree
  <2>3. QED
    BY <1>3, <2>2 DEF PrevHash, ColdTip, TipOf
<1>4. QED
  BY <1>1, <1>2, <1>3

\* With one process, whoever is in the critical section is alone there.
LEMMA Alone ==
  ASSUME OneProcess, LockHeld, NEW t \in Thread, NEW u \in Thread,
         pc[t] \in {"append", "publish"}, pc[u] \in {"append", "publish"}
  PROVE  t = u
  BY DEF OneProcess, LockHeld

LEMMA InitChain == Init => ChainInv
<1> SUFFICES ASSUME Init
             PROVE  ChainInv
  OBVIOUS
<1>1. LockHeld
  BY ChainAssumption DEF Init, LockHeld
<1>2. TipRead /\ TipWritten
  BY DEF Init, TipRead, TipWritten
<1>3. TipCached
  BY ChainAssumption DEF Init, TipCached
<1>4. ChainIntact
  BY DEF Init, ChainIntact, ChainValid
<1>5. QED
  BY <1>1, <1>2, <1>3, <1>4 DEF ChainInv

\* Each step keeps the chain invariant. The premises are the deployment the code is
\* written for: one interpreter, no clear in the middle of a write.
LEMMA NextChain ==
  ASSUME OneProcess, ClearDuringWrite = FALSE, TypeOK, ChainInv, [Next]_vars
  PROVE  ChainInv'
<1> USE DEF ChainInv
<1>1. ASSUME NEW t \in Thread, NEW e \in Event, BeginWrite(t, e)
      PROVE  ChainInv'
  <2>1. /\ file' = file /\ cache' = cache /\ lock' = lock
        /\ pc' = [pc EXCEPT ![t] = "waiting"] /\ pc[t] = "idle"
        /\ \A u \in Thread : u # t => call'[u] = call[u]
    BY <1>1 DEF BeginWrite, TypeOK
  <2>2. \A u \in Thread : pc'[u] \in {"append", "publish"}
                           => u # t /\ pc'[u] = pc[u] /\ call'[u] = call[u]
    BY <2>1 DEF TypeOK
  <2>3. \A u \in Thread : pc[u] \in {"append", "publish"}
                           => pc'[u] = pc[u] /\ call'[u] = call[u]
    BY <2>1 DEF TypeOK
  <2>4. LockHeld'
    BY <2>1, <2>2, <2>3 DEF LockHeld
  <2>5. TipRead' /\ TipWritten'
    BY <2>1, <2>2 DEF TipRead, TipWritten
  <2>6. TipCached'
    BY <2>1, <2>3 DEF TipCached
  <2>7. ChainIntact'
    BY <2>1 DEF ChainIntact
  <2>8. QED
    BY <2>4, <2>5, <2>6, <2>7
<1>2. ASSUME NEW t \in Thread, Acquire(t)
      PROVE  ChainInv'
  <2> DEFINE d == call[t].day
             p == ProcOf[t]
  <2>1. /\ p \in Proc /\ d \in Day /\ lock[p] = NoThread /\ NoThread \notin Thread
        /\ \A u \in Thread : ProcOf[u] = p
    BY <1>2, ChainAssumption DEF TypeOK, Acquire, OneProcess
  <2>2. \A u \in Thread : pc[u] \notin {"append", "publish"}
    BY <2>1 DEF LockHeld
  <2>3. /\ file' = file /\ lock' = [lock EXCEPT ![p] = t]
        /\ pc' = [pc EXCEPT ![t] = "append"]
        /\ call' = [call EXCEPT ![t].prev = PrevHash(p, d)]
        /\ cache' = CacheAfterRead(p, d)
    BY <1>2 DEF Acquire
  <2>4. \A u \in Thread : pc'[u] \in {"append", "publish"} => u = t /\ pc'[u] = "append"
    BY <2>2, <2>3 DEF TypeOK
  <2>5. pc'[t] = "append" /\ lock'[p] = t /\ call'[t].prev = PrevHash(p, d) /\ call'[t].day = d
    BY <2>1, <2>3 DEF TypeOK
  <2>6. LockHeld'
    BY <2>1, <2>4, <2>5 DEF LockHeld
  <2>7. TipRead'
    BY <2>1, <2>2, <2>3, <2>4, <2>5, PrevHashIsTip DEF TipRead
  <2>8. TipWritten'
    BY <2>4 DEF TipWritten
  <2>9. \A c \in Day : file[c] # <<>> => cache'[p][c] = cache[p][c]
    BY <2>1, <2>3 DEF CacheAfterRead, TypeOK
  <2>10. TipCached'
    BY <2>1, <2>2, <2>3, <2>9 DEF TipCached
  <2>11. ChainIntact'
    BY <2>3 DEF ChainIntact
  <2>12. QED
    BY <2>6, <2>7, <2>8, <2>10, <2>11
<1>3. ASSUME NEW t \in Thread, AppendLine(t)
      PROVE  ChainInv'
  <2> DEFINE d == call[t].day
             l == RecordLine(call[t].prev, call[t].event)
  <2>1. /\ d \in Day /\ call[t].prev \in Hash /\ call[t].event \in Event
        /\ file[d] \in Seq(Line)
    BY DEF TypeOK
  <2>2. /\ cache' = cache /\ lock' = lock /\ call' = call /\ pc[t] = "append"
        /\ pc' = [pc EXCEPT ![t] = "publish"]
        /\ file' = [file EXCEPT ![d] = Appended(@, l)]
    BY <1>3 DEF AppendLine
  <2>3. /\ file'[d] = Appended(file[d], l)
        /\ \A c \in Day : c # d => file'[c] = file[c]
    BY <2>1, <2>2 DEF TypeOK
  <2>4. \A u \in Thread : u # t => pc[u] \notin {"append", "publish"} /\ pc'[u] = pc[u]
    BY <2>2, Alone DEF TypeOK
  <2>5. pc'[t] = "publish"
    BY <2>2 DEF TypeOK
  <2>6. LockHeld'
    BY <2>2, <2>4, <2>5 DEF LockHeld
  <2>7. TipRead'
    BY <2>4, <2>5 DEF TipRead
  <2>8. TornFree(file'[d]) => /\ TornFree(file[d])
                              /\ file'[d] = Append(file[d], l)
                              /\ TipOf(file'[d]) = Digest(call[t].prev, call[t].event)
    BY <2>1, <2>3, AppendRecord
  <2>9. TipWritten'
    BY <2>2, <2>4, <2>5, <2>8 DEF TipWritten
  <2>10. TipCached'
    BY <2>2, <2>3, <2>4, <2>5 DEF TipCached
  <2>11. TornFree(file'[d]) => ChainValid(file'[d])
    BY <2>1, <2>2, <2>8, ExtendChain DEF TipRead, ChainIntact
  <2>12. ChainIntact'
    BY <2>3, <2>11 DEF ChainIntact
  <2>13. QED
    BY <2>6, <2>7, <2>9, <2>10, <2>12
<1>4. ASSUME NEW t \in Thread, AppendFails(t)
      PROVE  ChainInv'
  <2> DEFINE d == call[t].day
             o == [RecordLine(call[t].prev, call[t].event) EXCEPT !.kind = "open"]
  <2>1. d \in Day /\ call[t].prev \in Hash /\ call[t].event \in Event /\ file[d] \in Seq(Line)
    BY DEF TypeOK
  <2>2. /\ cache' = cache /\ call' = call /\ pc[t] = "append"
        /\ lock' = [lock EXCEPT ![ProcOf[t]] = NoThread]
        /\ pc' = [pc EXCEPT ![t] = "idle"]
        /\ file' = file \/ file' = [file EXCEPT ![d] = Appended(@, o)]
    BY <1>4 DEF AppendFails
  <2>3. \A c \in Day : file'[c] = file[c] \/ ~TornFree(file'[c])
    BY <2>1, <2>2, AppendOpen DEF TypeOK
  <2>4. \A u \in Thread : pc'[u] \notin {"append", "publish"} /\ pc[u] # "publish"
    BY <2>2, Alone DEF TypeOK
  <2>5. LockHeld'
    <3>1. \A u \in Thread : ProcOf[u] = ProcOf[t] /\ ProcOf[u] \in Proc
      BY ChainAssumption DEF OneProcess
    <3>2. lock'[ProcOf[t]] = NoThread
      BY <2>2, <3>1 DEF TypeOK
    <3>3. \A u \in Thread : lock'[ProcOf[u]] # u
      BY <3>1, <3>2, ChainAssumption
    <3>4. QED
      BY <2>4, <3>3 DEF LockHeld
  <2>6. TipRead' /\ TipWritten'
    BY <2>4 DEF TipRead, TipWritten
  <2>7. TipCached'
    BY <2>2, <2>3, <2>4 DEF TipCached
  <2>8. ChainIntact'
    BY <2>3 DEF ChainIntact
  <2>9. QED
    BY <2>5, <2>6, <2>7, <2>8
<1>5. ASSUME NEW t \in Thread, Publish(t)
      PROVE  ChainInv'
  <2> DEFINE d == call[t].day
             h == Digest(call[t].prev, call[t].event)
             p == ProcOf[t]
  <2>1. p \in Proc /\ d \in Day /\ \A u \in Thread : ProcOf[u] = p
    BY ChainAssumption DEF TypeOK, OneProcess
  <2>2. /\ file' = file /\ call' = call /\ pc[t] = "publish"
        /\ lock' = [lock EXCEPT ![p] = NoThread]
        /\ pc' = [pc EXCEPT ![t] = "idle"]
        /\ cache' = [cache EXCEPT ![p][d] = h]
    BY <1>5 DEF Publish
  <2>3. \A u \in Thread : /\ pc'[u] \notin {"append", "publish"}
                          /\ pc[u] = "publish" => u = t
    BY <2>2, Alone DEF TypeOK
  <2>4. LockHeld'
    BY <2>1, <2>2, <2>3, ChainAssumption DEF LockHeld, TypeOK
  <2>5. TipRead' /\ TipWritten'
    BY <2>3 DEF TipRead, TipWritten
  <2>6. cache'[p][d] = h /\ \A c \in Day : c # d => cache'[p][c] = cache[p][c]
    BY <2>1, <2>2 DEF TypeOK
  <2>7. (file[d] # <<>> /\ TornFree(file[d])) => h = TipOf(file[d])
    BY <2>2 DEF TipWritten
  <2>8. TipCached'
    BY <2>1, <2>2, <2>3, <2>6, <2>7 DEF TipCached
  <2>9. ChainIntact'
    BY <2>2 DEF ChainIntact
  <2>10. QED
    BY <2>4, <2>5, <2>8, <2>9
<1>6. ASSUME NEW p \in Proc, Crash(p)
      PROVE  ChainInv'
  <2>1. \A u \in Thread : call[u].day \in Day /\ call[u].prev \in Hash
                           /\ call[u].event \in Event /\ file[call[u].day] \in Seq(Line)
    BY DEF TypeOK
  <2>2. /\ call' = call
        /\ lock' = [lock EXCEPT ![p] = NoThread]
        /\ pc' = [u \in Thread |-> IF ProcOf[u] = p THEN "idle" ELSE pc[u]]
        /\ cache' = [cache EXCEPT ![p] = [c \in Day |-> NoHash]]
    BY <1>6 DEF Crash
  <2>3. \A c \in Day : file'[c] = file[c] \/ ~TornFree(file'[c])
    <3>1. CASE file' = file
      BY <3>1
    <3>2. ASSUME NEW u \in Thread,
                 file' = [file EXCEPT ![call[u].day] = Appended(@,
                   [RecordLine(call[u].prev, call[u].event) EXCEPT !.kind = "open"])]
          PROVE  \A c \in Day : file'[c] = file[c] \/ ~TornFree(file'[c])
      BY <2>1, <3>2, AppendOpen DEF TypeOK
    <3>3. QED
      BY <1>6, <3>1, <3>2 DEF Crash
  <2>4. CASE \E u \in Thread : ProcOf[u] = p
    <3>1. \A u \in Thread : ProcOf[u] = p /\ pc'[u] = "idle"
      BY <2>2, <2>4 DEF OneProcess
    <3>2. lock'[p] = NoThread /\ \A c \in Day : cache'[p][c] = NoHash
      BY <2>2 DEF TypeOK
    <3>3. LockHeld' /\ TipRead' /\ TipWritten'
      BY <3>1, <3>2, ChainAssumption DEF LockHeld, TipRead, TipWritten
    <3>4. TipCached'
      BY <3>1, <3>2 DEF TipCached
    <3>5. ChainIntact'
      BY <2>3 DEF ChainIntact
    <3>6. QED
      BY <3>3, <3>4, <3>5
  <2>5. CASE \A u \in Thread : ProcOf[u] # p
    <3>1. \A u \in Thread : ProcOf[u] \in Proc /\ pc'[u] = pc[u]
                             /\ lock'[ProcOf[u]] = lock[ProcOf[u]]
                             /\ cache'[ProcOf[u]] = cache[ProcOf[u]]
      BY <2>2, <2>5, ChainAssumption DEF TypeOK
    <3>2. LockHeld'
      BY <3>1 DEF LockHeld
    <3>3. file' = file
      BY <1>6, <2>5 DEF Crash
    <3>4. TipRead' /\ TipWritten' /\ ChainIntact'
      BY <2>2, <3>1, <3>3 DEF TipRead, TipWritten, ChainIntact
    <3>5. TipCached'
      BY <2>2, <3>1, <3>3 DEF TipCached
    <3>6. QED
      BY <3>2, <3>4, <3>5
  <2>6. QED
    BY <2>4, <2>5
<1>7. ASSUME NEW d \in Day, Clear(d)
      PROVE  ChainInv'
  <2>1. /\ cache' = cache /\ lock' = lock /\ pc' = pc /\ call' = call
        /\ \A t \in Thread : pc[t] = "append" => call[t].day # d
    BY <1>7 DEF Clear
  <2>2. file'[d] = <<>> /\ \A c \in Day : c # d => file'[c] = file[c]
    BY <1>7 DEF Clear, TypeOK
  <2>3. LockHeld'
    BY <2>1 DEF LockHeld
  <2>4. TipRead'
    BY <2>1, <2>2 DEF TipRead, TypeOK
  <2>5. TipWritten'
    BY <2>1, <2>2 DEF TipWritten, TypeOK
  <2>6. TipCached'
    BY <2>1, <2>2 DEF TipCached
  <2>7. ChainValid(file'[d])
    BY <2>2 DEF ChainValid
  <2>8. ChainIntact'
    BY <2>2, <2>7 DEF ChainIntact
  <2>9. QED
    BY <2>3, <2>4, <2>5, <2>6, <2>8
<1>8. ASSUME UNCHANGED logVars
      PROVE  ChainInv'
  BY <1>8 DEF logVars, LockHeld, TipRead, TipWritten, TipCached, ChainIntact
<1>9. CASE Midnight \/ CheckStep \/ UNCHANGED vars
  BY <1>8, <1>9 DEF Midnight, CheckStep, CheckToday, CheckYesterday, WriteStatus, vars, logVars
<1>10. QED
  BY <1>1, <1>2, <1>3, <1>4, <1>5, <1>6, <1>7, <1>9 DEF Next, WriteStep

\* AuditLogger's promise: with one writer process, a file that no write tore always
\* passes verify_integrity, through restarts, midnights, lost records and resets.
THEOREM ChainStaysIntact ==
  ASSUME OneProcess, ClearDuringWrite = FALSE
  PROVE  Spec => []ChainIntact
<1>1. TypeOK /\ ChainInv /\ [Next]_vars => ChainInv'
  BY NextChain
<1>2. ChainInv => ChainIntact
  BY DEF ChainInv
<1>3. QED
  BY <1>1, <1>2, InitChain, TypeCorrect, PTL DEF Spec

\* A chain-break alert is only raised over a file that a torn write damaged: neither
\* a data reset nor a restart is ever reported as tampering.
THEOREM NoFalseAlarmEver ==
  ASSUME OneProcess, ClearDuringWrite = FALSE
  PROVE  Spec => NoFalseAlarm
<1>1. ASSUME TypeOK, ChainIntact, [Next]_vars, NEW d \in alerts' \ alerts
      PROVE  ~TornFree(file[d])
  <2>1. ASSUME NEW c \in Day, NEW s \in {"yesterday", "write"}, VerifyDay(c, s)
        PROVE  ~TornFree(file[d])
    <3>1. d = c /\ "broken" \in VerifyOutcomes(c)
      BY <1>1, <2>1 DEF VerifyDay
    <3>2. ~ChainValid(file[c])
      BY <3>1 DEF VerifyOutcomes, Verdict
    <3>3. QED
      BY <1>1, <3>1, <3>2 DEF ChainIntact
  <2>2. CASE CheckToday
    BY <1>1, <2>1, <2>2 DEF CheckToday, TypeOK
  <2>3. CASE CheckYesterday
    <3>1. CASE check.day > 1
      <4>1. check.day - 1 \in Day
        BY <1>1, <3>1, ChainAssumption DEF TypeOK, Day
      <4>2. QED
        BY <2>1, <2>3, <3>1, <4>1 DEF CheckYesterday
    <3>2. CASE ~(check.day > 1)
      BY <1>1, <2>3, <3>2 DEF CheckYesterday
    <3>3. QED
      BY <3>1, <3>2
  <2>4. CASE alerts' = alerts
    BY <1>1, <2>4
  <2>5. CheckToday \/ CheckYesterday \/ alerts' = alerts
    BY <1>1 DEF Next, WriteStep, CheckStep, BeginWrite, Acquire, AppendLine, AppendFails,
       Publish, Crash, Clear, Midnight, WriteStatus, vars, checkVars
  <2>6. QED
    BY <2>2, <2>3, <2>4, <2>5
<1>2. TypeOK /\ ChainIntact /\ [Next]_vars
        => [\A d \in alerts' \ alerts : ~TornFree(file[d])]_vars
  BY <1>1
<1>3. QED
  BY <1>2, ChainStaysIntact, TypeCorrect, PTL DEF Spec, NoFalseAlarm

-----------------------------------------------------------------------------
\* A nonempty set of naturals has a least element.
LEMMA LeastNat ==
  ASSUME NEW T, T \subseteq Nat, T # {}
  PROVE  \E x \in T : \A y \in T : x <= y
<1>1. \E R : IsWellFoundedOn(R, Nat) /\ \A x, y \in Nat : y < x => <<y, x>> \in R
  <2> DEFINE R == {r \in Nat \X Nat : r[1] < r[2]}
  <2>1. R = OpToRel(<, Nat)
    BY DEF OpToRel
  <2>2. IsWellFoundedOn(R, Nat)
    BY <2>1, NatLessThanWellFounded
  <2>3. \A x, y \in Nat : y < x => <<y, x>> \in R
    OBVIOUS
  <2>4. QED
    BY <2>2, <2>3
<1>2. PICK R : IsWellFoundedOn(R, Nat) /\ \A x, y \in Nat : y < x => <<y, x>> \in R
  BY <1>1
<1>3. PICK x \in T : \A y \in T : ~ (<<y, x>> \in R)
  BY <1>2, WFMin
<1>4. ASSUME NEW y \in T
      PROVE  x <= y
  <2>1. x \in Nat /\ y \in Nat /\ ~(y < x)
    BY <1>2, <1>3
  <2>2. QED
    BY <2>1
<1>5. QED
  BY <1>4

\* A damaged file has a first damaged line.
LEMMA HasFirstDamaged ==
  ASSUME NEW f \in Seq(Line), ~TornFree(f)
  PROVE  \E i \in DOMAIN f : FirstDamaged(f, i)
<1> DEFINE T == {i \in DOMAIN f : f[i].kind # "record"}
<1>1. T \subseteq Nat /\ T # {}
  BY DEF TornFree
<1>2. PICK i \in T : \A j \in T : i <= j
  BY <1>1, LeastNat
<1>3. ASSUME NEW j \in 1..(i - 1)
      PROVE  f[j].kind = "record"
  <2>1. j \in DOMAIN f /\ ~(i <= j)
    OBVIOUS
  <2>2. QED
    BY <1>2, <2>1
<1>4. QED
  BY <1>2, <1>3 DEF FirstDamaged

\* Whichever line is damaged first, the book ends before it.
LEMMA CertifiedAt ==
  ASSUME NEW f \in Seq(Line), NEW i \in DOMAIN f, FirstDamaged(f, i)
  PROVE  /\ ~TornFree(f)
         /\ Certified(f) = IF i = 1 THEN Genesis ELSE f[i - 1].hash
<1>1. ~TornFree(f)
  BY DEF TornFree, FirstDamaged
<1>2. \A j \in DOMAIN f : FirstDamaged(f, j) => j = i
  <2> SUFFICES ASSUME NEW j \in DOMAIN f, FirstDamaged(f, j), j # i
               PROVE  FALSE
    OBVIOUS
  <2>1. i \in Nat /\ j \in Nat /\ 1 <= i /\ 1 <= j
    OBVIOUS
  <2>2. i \in 1..(j - 1) \/ j \in 1..(i - 1)
    BY <2>1
  <2>3. QED
    BY <2>2 DEF FirstDamaged
<1>3. (CHOOSE j \in DOMAIN f : FirstDamaged(f, j)) = i
  BY <1>2
<1>4. QED
  BY <1>1, <1>3 DEF Certified

LEMMA CertifiedType ==
  ASSUME NEW f \in Seq(Line)
  PROVE  Certified(f) \in Seq(Event)
<1>1. CASE TornFree(f)
  BY <1>1, TipType DEF Certified, Hash
<1>2. CASE ~TornFree(f)
  <2>1. PICK i \in DOMAIN f : FirstDamaged(f, i)
    BY <1>2, HasFirstDamaged
  <2>2. i # 1 => i - 1 \in DOMAIN f
    OBVIOUS
  <2>3. i # 1 => f[i - 1] \in Line
    BY <2>2
  <2>4. Certified(f) = IF i = 1 THEN Genesis ELSE f[i - 1].hash
    BY <2>1, CertifiedAt
  <2>5. i # 1 => f[i - 1].hash \in Hash
    BY <2>3 DEF Line
  <2>6. Genesis \in Hash
    BY DEF Genesis, Hash
  <2>7. QED
    BY <2>4, <2>5, <2>6 DEF Hash
<1>3. QED
  BY <1>1, <1>2

\* What is appended behind a damaged line changes neither the book nor the damage.
LEMMA CertifiedFrozen ==
  ASSUME NEW f \in Seq(Line), NEW l \in Line, ~TornFree(f)
  PROVE  ~TornFree(Appended(f, l)) /\ Certified(Appended(f, l)) = Certified(f)
<1> DEFINE g == Appended(f, l)
<1>1. PICK i \in DOMAIN f : FirstDamaged(f, i)
  BY HasFirstDamaged
<1>2. g \in Seq(Line)
  BY AppendedType
<1>3. i \in 1..Len(f) /\ Len(f) \in Nat
  OBVIOUS
<1>4. /\ i \in DOMAIN g /\ g[i].kind # "record"
      /\ \A j \in 1..(i - 1) : g[j] = f[j]
  <2>1. CASE f # <<>> /\ f[Len(f)].kind = "open"
    <3>1. g = [f EXCEPT ![Len(f)] = [l EXCEPT !.kind = "garbled"]]
      BY <2>1 DEF Appended
    <3>2. [l EXCEPT !.kind = "garbled"].kind = "garbled"
      BY DEF Line
    <3>3. DOMAIN g = DOMAIN f /\ \A j \in 1..(i - 1) : g[j] = f[j]
      BY <1>3, <3>1
    <3>4. g[i] = f[i] \/ g[i].kind = "garbled"
      BY <1>3, <3>1, <3>2
    <3>5. QED
      BY <1>1, <3>3, <3>4 DEF FirstDamaged
  <2>2. CASE ~(f # <<>> /\ f[Len(f)].kind = "open")
    <3>1. g = Append(f, l)
      BY <2>2 DEF Appended
    <3>2. i \in DOMAIN g /\ \A j \in 1..i : g[j] = f[j]
      BY <1>3, <3>1
    <3>3. QED
      BY <1>1, <1>3, <3>2 DEF FirstDamaged
  <2>3. QED
    BY <2>1, <2>2
<1>5. FirstDamaged(g, i)
  BY <1>1, <1>4 DEF FirstDamaged
<1>6. i # 1 => i - 1 \in 1..(i - 1)
  BY <1>3
<1>7. QED
  BY <1>1, <1>2, <1>4, <1>5, <1>6, CertifiedAt

\* A whole file's book survives a part of a line, and grows by a whole one.
LEMMA CertifiedGrows ==
  ASSUME NEW f \in Seq(Line), NEW p \in Hash, NEW e \in Event, TornFree(f)
  PROVE  /\ Certified(Appended(f, [RecordLine(p, e) EXCEPT !.kind = "open"])) = Certified(f)
         /\ TornFree(Appended(f, RecordLine(p, e)))
         /\ Certified(Appended(f, RecordLine(p, e))) = Digest(p, e)
<1> DEFINE l == RecordLine(p, e)
           o == [RecordLine(p, e) EXCEPT !.kind = "open"]
<1>1. l \in Line /\ l.kind = "record" /\ o \in Line /\ o.kind = "open"
  BY LineType DEF RecordLine
<1>2. ~(f # <<>> /\ f[Len(f)].kind = "open")
  <2>1. f # <<>> => Len(f) \in DOMAIN f
    OBVIOUS
  <2>2. QED
    BY <2>1 DEF TornFree
<1>3. Appended(f, l) = Append(f, l) /\ Appended(f, o) = Append(f, o)
  BY <1>2 DEF Appended
<1>4. \A x \in Line : /\ DOMAIN Append(f, x) = 1..(Len(f) + 1)
                      /\ Append(f, x)[Len(f) + 1] = x
                      /\ \A j \in 1..Len(f) : Append(f, x)[j] = f[j] /\ f[j].kind = "record"
  BY DEF TornFree
<1>5. TornFree(Append(f, l))
  BY <1>1, <1>4 DEF TornFree
<1>6. Certified(Appended(f, l)) = Digest(p, e)
  BY <1>3, <1>5, AppendRecord DEF Certified
<1>7. Certified(Append(f, o)) = Certified(f)
  <2>1. Append(f, o) \in Seq(Line) /\ Len(f) + 1 \in DOMAIN Append(f, o) /\ Len(f) \in Nat
    BY <1>1
  <2>2. FirstDamaged(Append(f, o), Len(f) + 1)
    BY <1>1, <1>4, <2>1 DEF FirstDamaged
  <2>3. Certified(Append(f, o)) =
          IF Len(f) + 1 = 1 THEN Genesis ELSE Append(f, o)[(Len(f) + 1) - 1].hash
    BY <2>1, <2>2, CertifiedAt
  <2>4. CASE f = <<>>
    BY <2>3, <2>4 DEF Certified, TipOf
  <2>5. CASE f # <<>>
    <3>1. Len(f) \in 1..Len(f) /\ Len(f) + 1 # 1 /\ (Len(f) + 1) - 1 = Len(f)
      BY <2>5
    <3>2. Certified(Append(f, o)) = f[Len(f)].hash
      BY <1>1, <1>4, <2>3, <3>1
    <3>3. Certified(f) = f[Len(f)].hash
      BY <2>5 DEF Certified, TipOf
    <3>4. QED
      BY <3>2, <3>3
  <2>6. QED
    BY <2>4, <2>5
<1>8. QED
  BY <1>3, <1>5, <1>6, <1>7

-----------------------------------------------------------------------------
DamagedDays == {d \in Day : ~TornFree(file[d])}

\* The books and the damage depend on the files only.
LEMMA SameBooks ==
  ASSUME file' = file
  PROVE  CertifiedBook' = CertifiedBook /\ DamagedDays' = DamagedDays
BY DEF CertifiedBook, DamagedDays

\* One file changed: so does at most its book, and at most its damage.
LEMMA OneBook ==
  ASSUME TypeOK, NEW d \in Day, NEW f, file' = [file EXCEPT ![d] = f]
  PROVE  /\ CertifiedBook' = [CertifiedBook EXCEPT ![d] = Certified(f)]
         /\ DamagedDays' = IF TornFree(f) THEN DamagedDays \ {d} ELSE DamagedDays \cup {d}
<1>1. file'[d] = f /\ \A c \in Day : c # d => file'[c] = file[c]
  BY DEF TypeOK
<1>2. CertifiedBook' = [CertifiedBook EXCEPT ![d] = Certified(f)]
  <2>1. CertifiedBook' = [c \in Day |-> Certified(file'[c])]
    BY DEF CertifiedBook
  <2>2. CertifiedBook = [c \in Day |-> Certified(file[c])]
    BY DEF CertifiedBook
  <2>3. \A c \in Day : Certified(file'[c]) = IF c = d THEN Certified(f) ELSE Certified(file[c])
    BY <1>1
  <2>4. QED
    BY <2>1, <2>2, <2>3
<1>3. DamagedDays' = IF TornFree(f) THEN DamagedDays \ {d} ELSE DamagedDays \cup {d}
  BY <1>1 DEF DamagedDays
<1>4. QED
  BY <1>2, <1>3

\* What may become of the books: nothing, damage, an operator's reset, or the event of a
\* thread that appends.
Keeps == CertifiedBook' = CertifiedBook /\ DamagedDays' = DamagedDays
Damages == \E d \in Day : CertifiedBook' = CertifiedBook /\ DamagedDays' = DamagedDays \cup {d}
Resets == \E d \in Day : /\ CertifiedBook' = [CertifiedBook EXCEPT ![d] = <<>>]
                         /\ DamagedDays' = DamagedDays \ {d}
Enters(t) == \E d \in Day :
               /\ d \notin DamagedDays /\ DamagedDays' = DamagedDays
               /\ CertifiedBook' = [CertifiedBook EXCEPT ![d] = Append(@, call[t].event)]

\* A part of a line damages the file and leaves its book.
LEMMA TornAppend ==
  ASSUME TypeOK, NEW t \in Thread,
         file' = [file EXCEPT ![call[t].day] = Appended(@,
                    [RecordLine(call[t].prev, call[t].event) EXCEPT !.kind = "open"])]
  PROVE  Damages
<1> DEFINE d == call[t].day
           o == [RecordLine(call[t].prev, call[t].event) EXCEPT !.kind = "open"]
<1>1. d \in Day /\ call[t].prev \in Hash /\ call[t].event \in Event /\ file[d] \in Seq(Line)
  BY DEF TypeOK
<1>2. ~TornFree(Appended(file[d], o))
  BY <1>1, AppendOpen
<1>3. Certified(Appended(file[d], o)) = Certified(file[d])
  BY <1>1, LineType, CertifiedFrozen, CertifiedGrows
<1>4. file' = [file EXCEPT ![d] = Appended(file[d], o)]
  BY <1>1 DEF TypeOK
<1>5. /\ CertifiedBook' = [CertifiedBook EXCEPT ![d] = Certified(file[d])]
      /\ DamagedDays' = DamagedDays \cup {d}
  BY <1>1, <1>2, <1>3, <1>4, OneBook
<1>6. CertifiedBook' = CertifiedBook
  BY <1>1, <1>5 DEF CertifiedBook
<1>7. QED
  BY <1>1, <1>5, <1>6 DEF Damages

\* A whole line goes into the book of a file that is whole, and nowhere else.
LEMMA WholeAppend ==
  ASSUME TypeOK, TipRead, NEW t \in Thread, AppendLine(t)
  PROVE  Keeps \/ Enters(t)
<1> DEFINE d == call[t].day
           l == RecordLine(call[t].prev, call[t].event)
           g == Appended(file[d], l)
<1>1. d \in Day /\ call[t].prev \in Hash /\ call[t].event \in Event /\ file[d] \in Seq(Line)
  BY DEF TypeOK
<1>2. file' = [file EXCEPT ![d] = g] /\ pc[t] = "append"
  BY <1>1 DEF AppendLine, TypeOK
<1>3. CASE TornFree(file[d])
  <2>1. TornFree(g) /\ Certified(g) = Digest(call[t].prev, call[t].event)
    BY <1>1, <1>3, CertifiedGrows
  <2>2. call[t].prev = TipOf(file[d]) /\ CertifiedBook[d] = TipOf(file[d])
    BY <1>1, <1>2, <1>3 DEF TipRead, CertifiedBook, Certified
  <2>3. Certified(g) = Append(CertifiedBook[d], call[t].event)
    BY <2>1, <2>2 DEF Digest
  <2>4. d \notin DamagedDays /\ DamagedDays' = DamagedDays
    BY <1>1, <1>2, <1>3, <2>1, OneBook DEF DamagedDays
  <2>5. CertifiedBook' = [CertifiedBook EXCEPT ![d] = Append(@, call[t].event)]
    <3>1. CertifiedBook' = [CertifiedBook EXCEPT ![d] = Certified(g)]
      BY <1>1, <1>2, OneBook
    <3>2. QED
      BY <1>1, <2>3, <3>1 DEF CertifiedBook
  <2>6. QED
    BY <1>1, <2>4, <2>5 DEF Enters
<1>4. CASE ~TornFree(file[d])
  <2>1. ~TornFree(g) /\ Certified(g) = Certified(file[d])
    BY <1>1, <1>4, LineType, CertifiedFrozen
  <2>2. DamagedDays' = DamagedDays
    BY <1>1, <1>2, <1>4, <2>1, OneBook DEF DamagedDays
  <2>3. CertifiedBook' = CertifiedBook
    BY <1>1, <1>2, <2>1, OneBook DEF CertifiedBook
  <2>4. QED
    BY <2>2, <2>3 DEF Keeps
<1>5. QED
  BY <1>3, <1>4

\* Only an append enters an event; it is the event of the appending thread.
LEMMA BookStep ==
  ASSUME TypeOK, TipRead, [Next]_vars
  PROVE  Keeps \/ Damages \/ Resets \/ \E t \in Thread : AppendLine(t) /\ Enters(t)
<1>1. CASE file' = file
  BY <1>1, SameBooks DEF Keeps
<1>2. CASE \E t \in Thread : AppendLine(t)
  BY <1>2, WholeAppend
<1>3. CASE \E t \in Thread : AppendFails(t)
  BY <1>1, <1>3, TornAppend DEF AppendFails
<1>4. CASE \E p \in Proc : Crash(p)
  <2>1. PICK p \in Proc : Crash(p)
    BY <1>4
  <2>2. \/ file' = file
        \/ \E t \in Thread : file' = [file EXCEPT ![call[t].day] = Appended(@,
             [RecordLine(call[t].prev, call[t].event) EXCEPT !.kind = "open"])]
    BY <2>1 DEF Crash
  <2>3. QED
    BY <1>1, <2>2, TornAppend
<1>5. CASE \E d \in Day : Clear(d)
  <2>1. PICK d \in Day : Clear(d)
    BY <1>5
  <2>2. TornFree(<<>>) /\ Certified(<<>>) = <<>>
    BY DEF TornFree, Certified, TipOf, Genesis
  <2>3. /\ CertifiedBook' = [CertifiedBook EXCEPT ![d] = <<>>]
        /\ DamagedDays' = DamagedDays \ {d}
    BY <2>1, <2>2, OneBook DEF Clear
  <2>4. QED
    BY <2>3 DEF Resets
<1>6. QED
  BY <1>1, <1>2, <1>3, <1>4, <1>5 DEF Next, WriteStep, CheckStep, BeginWrite, Acquire,
     Publish, Midnight, CheckToday, CheckYesterday, WriteStatus, vars, logVars

\* Which events are in the books after a step.
LEMMA BookEvents ==
  ASSUME TypeOK, TipRead, [Next]_vars, NEW e \in Booked'
  PROVE  e \in Booked \/ \E t \in Thread : AppendLine(t) /\ e = call[t].event
<1>1. PICK d \in Day : e \in Event /\ \E j \in DOMAIN (CertifiedBook'[d]) : CertifiedBook'[d][j] = e
  BY DEF Booked
<1>2. PICK i \in DOMAIN (CertifiedBook'[d]) : CertifiedBook'[d][i] = e
  BY <1>1
<1>3. DOMAIN CertifiedBook = Day /\ \A c \in Day : CertifiedBook[c] \in Seq(Event)
  BY CertifiedType DEF TypeOK, CertifiedBook
<1>4. CASE CertifiedBook' = CertifiedBook
  BY <1>2, <1>4 DEF Booked
<1>5. CASE Resets
  <2>1. PICK c \in Day : CertifiedBook' = [CertifiedBook EXCEPT ![c] = <<>>]
    BY <1>5 DEF Resets
  <2>2. d # c
    BY <1>2, <1>3, <2>1
  <2>3. QED
    BY <1>2, <1>3, <2>1, <2>2 DEF Booked
<1>6. ASSUME NEW t \in Thread, AppendLine(t), Enters(t)
      PROVE  e \in Booked \/ e = call[t].event
  <2>1. PICK c \in Day :
          CertifiedBook' = [CertifiedBook EXCEPT ![c] = Append(@, call[t].event)]
    BY <1>6 DEF Enters
  <2>2. CASE d # c
    BY <1>2, <1>3, <2>1, <2>2 DEF Booked
  <2>3. CASE d = c
    <3>1. CertifiedBook'[d] = Append(CertifiedBook[d], call[t].event)
      BY <1>3, <2>1, <2>3
    <3>2. CertifiedBook[d] \in Seq(Event) /\ call[t].event \in Event
      BY <1>3 DEF TypeOK
    <3>3. \/ i \in DOMAIN CertifiedBook[d] /\ CertifiedBook[d][i] = e
          \/ call[t].event = e
      BY <1>2, <3>1, <3>2
    <3>4. QED
      BY <3>3 DEF Booked
  <2>4. QED
    BY <2>2, <2>3
<1>7. QED
  BY <1>4, <1>5, <1>6, BookStep DEF Keeps, Damages

-----------------------------------------------------------------------------
LEMMA InitOnce ==
  ASSUME Init
  PROVE  EventsOnce /\ Ledger!LedgerInit
<1>1. TornFree(<<>>) /\ Certified(<<>>) = <<>>
  BY DEF TornFree, Certified, TipOf, Genesis
<1>2. \A d \in Day : CertifiedBook[d] = <<>>
  BY <1>1 DEF Init, CertifiedBook
<1>3. CertifiedBook = [d \in Day |-> <<>>] /\ {d \in Day : ~TornFree(file[d])} = {}
  BY <1>1, <1>2 DEF Init, CertifiedBook
<1>4. EventsOnce
  BY <1>2 DEF Init, EventsOnce, Booked, Unwritten
<1>5. QED
  BY <1>3, <1>4 DEF Ledger!LedgerInit, Ledger!Day, Day

\* An event stays out of the books until its one thread appends it.
LEMMA NextOnce ==
  ASSUME TypeOK, TipRead, EventsOnce, [Next]_vars
  PROVE  EventsOnce'
<1>1. ASSUME NEW t \in Thread, NEW e \in Event, BeginWrite(t, e)
      PROVE  EventsOnce'
  <2>1. /\ e \notin issued /\ issued' = issued \cup {e} /\ file' = file
        /\ call'[t].event = e
        /\ \A u \in Thread : u # t => call'[u] = call[u] /\ pc'[u] = pc[u]
    BY <1>1 DEF BeginWrite, TypeOK
  <2>2. Booked' = Booked
    BY <2>1, SameBooks DEF Booked
  <2>3. \A u \in Unwritten' : u # t => u \in Unwritten /\ call'[u].event = call[u].event
    BY <2>1 DEF Unwritten
  <2>4. \A u \in Unwritten' : u # t => call'[u].event \in issued /\ call'[u].event # e
    BY <2>1, <2>3 DEF EventsOnce
  <2>5. e \notin Booked
    BY <2>1 DEF EventsOnce
  <2>6. Booked' \subseteq issued'
    BY <2>1, <2>2 DEF EventsOnce
  <2>7. \A u \in Unwritten' : call'[u].event \in issued' \ Booked'
    BY <2>1, <2>2, <2>3, <2>4, <2>5 DEF EventsOnce
  <2>8. \A u, v \in Unwritten' : call'[u].event = call'[v].event => u = v
    BY <2>1, <2>3, <2>4 DEF EventsOnce
  <2>9. QED
    BY <2>6, <2>7, <2>8 DEF EventsOnce
<1>2. ASSUME ~ \E t \in Thread, e \in Event : BeginWrite(t, e)
      PROVE  EventsOnce'
  <2>1. issued' = issued
    BY <1>2 DEF Next, WriteStep, CheckStep, Acquire, AppendLine, AppendFails, Publish, Crash,
       Clear, Midnight, CheckToday, CheckYesterday, WriteStatus, vars, logVars
  <2>2. \A t \in Unwritten' : /\ t \in Unwritten /\ call'[t].event = call[t].event
                              /\ ~AppendLine(t)
    <3> SUFFICES ASSUME NEW t \in Unwritten'
                 PROVE  /\ t \in Unwritten /\ call'[t].event = call[t].event
                        /\ ~AppendLine(t)
      OBVIOUS
    <3>1. t \in Thread /\ pc'[t] \in {"waiting", "append"}
      BY DEF Unwritten
    <3>2. CASE \E u \in Thread : Acquire(u)
      BY <3>1, <3>2 DEF Acquire, AppendLine, TypeOK, Unwritten
    <3>3. CASE \E u \in Thread : AppendLine(u) \/ AppendFails(u) \/ Publish(u)
      BY <3>1, <3>3 DEF AppendLine, AppendFails, Publish, TypeOK, Unwritten
    <3>4. CASE \E p \in Proc : Crash(p)
      BY <3>1, <3>4 DEF Crash, AppendLine, TypeOK, Unwritten
    <3>5. CASE pc' = pc /\ call' = call
      BY <3>1, <3>5 DEF AppendLine, TypeOK, Unwritten
    <3>6. QED
      BY <1>2, <3>2, <3>3, <3>4, <3>5 DEF Next, WriteStep, CheckStep, Clear, Midnight,
         CheckToday, CheckYesterday, WriteStatus, vars, logVars
  <2>3. \A t \in Thread : AppendLine(t) => t \in Unwritten
    BY DEF AppendLine, Unwritten
  <2>4. Booked' \subseteq issued'
    BY <2>1, <2>3, BookEvents DEF EventsOnce
  <2>5. ASSUME NEW t \in Unwritten', call'[t].event \in Booked'
        PROVE  FALSE
    <3>1. t \in Unwritten /\ call'[t].event = call[t].event /\ ~AppendLine(t)
      BY <2>2
    <3>2. call[t].event \in Event \ Booked
      BY <3>1 DEF EventsOnce, TypeOK, Unwritten
    <3>3. PICK u \in Thread : AppendLine(u) /\ call[t].event = call[u].event
      BY <2>5, <3>1, <3>2, BookEvents
    <3>4. u = t
      BY <2>3, <3>1, <3>3 DEF EventsOnce
    <3>5. QED
      BY <3>1, <3>3, <3>4
  <2>6. \A t \in Unwritten' : call'[t].event \in issued'
    BY <2>1, <2>2 DEF EventsOnce
  <2>7. \A t, u \in Unwritten' : call'[t].event = call'[u].event => t = u
    BY <2>2 DEF EventsOnce
  <2>8. QED
    BY <2>4, <2>5, <2>6, <2>7 DEF EventsOnce
<1>3. QED
  BY <1>1, <1>2

\* Each step of the log is a step of the ledger or leaves it as it is.
LEMMA LedgerStep ==
  ASSUME TypeOK, TipRead, EventsOnce, [Next]_vars
  PROVE  [Ledger!LedgerNext]_(Ledger!ledgerVars)
<1> USE DEF Ledger!Day, Day
<1>1. {d \in Day : ~TornFree(file[d])} = DamagedDays
  BY DEF DamagedDays
<1>2. {d \in Day : ~TornFree(file'[d])} = DamagedDays'
  BY DEF DamagedDays
<1>3. CASE Keeps
  BY <1>1, <1>2, <1>3 DEF Keeps, Ledger!ledgerVars
<1>4. CASE Damages
  BY <1>1, <1>2, <1>4 DEF Damages, Ledger!LedgerNext, Ledger!Damage
<1>5. CASE Resets
  BY <1>1, <1>2, <1>5 DEF Resets, Ledger!LedgerNext, Ledger!Reset
<1>6. ASSUME NEW t \in Thread, AppendLine(t), Enters(t)
      PROVE  Ledger!LedgerNext
  <2>1. call[t].event \in Event \ Booked
    BY <1>6 DEF AppendLine, EventsOnce, TypeOK, Unwritten
  <2>2. PICK d \in Day :
          /\ d \notin DamagedDays /\ DamagedDays' = DamagedDays
          /\ CertifiedBook' = [CertifiedBook EXCEPT ![d] = Append(@, call[t].event)]
    BY <1>6 DEF Enters
  <2>3. Ledger!Record(d, call[t].event)
    BY <1>1, <1>2, <2>1, <2>2 DEF Ledger!Record, Booked
  <2>4. QED
    BY <2>1, <2>3 DEF Ledger!LedgerNext
<1>7. QED
  BY <1>3, <1>4, <1>5, <1>6, BookStep

\* The log implements the ledger: with one writer process and no clear in the middle of a
\* write, an undamaged day's book grows at its end only, by an event that is in no book
\* yet, and only an operator's clear takes anything out of it.
THEOREM LogIsLedger ==
  ASSUME OneProcess, ClearDuringWrite = FALSE
  PROVE  Spec => ImplementsLedger
<1>1. Init => EventsOnce /\ Ledger!LedgerInit
  BY InitOnce
<1>2. ChainInv => TipRead
  BY DEF ChainInv
<1>3. TypeOK /\ ChainInv /\ [Next]_vars => ChainInv'
  BY NextChain
<1>4. TypeOK /\ TipRead /\ EventsOnce /\ [Next]_vars => EventsOnce'
  BY NextOnce
<1>5. TypeOK /\ TipRead /\ EventsOnce /\ [Next]_vars
        => [Ledger!LedgerNext]_(Ledger!ledgerVars)
  BY LedgerStep
<1>6. QED
  BY <1>1, <1>2, <1>3, <1>4, <1>5, InitChain, TypeCorrect, PTL
     DEF Spec, ImplementsLedger, Ledger!LedgerSpec
=============================================================================
