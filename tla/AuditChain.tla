----------------------------- MODULE AuditChain -----------------------------
(***************************************************************************)
(* The tamper-evident audit log: AuditLogger._write, its in-memory tip     *)
(* cache and its lock (RAG/rag_system/core/audit_logger.py), and the       *)
(* monitoring container's IntegrityChecker that verifies the files         *)
(* (monitoring_addon/monitoring/alert_checkers.py).                        *)
(*                                                                         *)
(* A digest is modelled by the sequence of events it was computed over:    *)
(* SHA-256 over (prev_hash + record) is collision free exactly when two    *)
(* equal digests were computed over the same chain of records.             *)
(***************************************************************************)
EXTENDS Naturals, Sequences, FiniteSets

CONSTANTS
  Proc,              \* processes that log: rag-api, a CLI query in another shell
  Thread,            \* threads that call AuditLogger._write
  ProcOf,            \* the process a thread lives in
  Event,             \* the records handed to _write, each once
  MaxDay,            \* the calendar days (UTC+8) are 1..MaxDay
  MaxFaults,         \* bound: crashes, failed and torn appends, operator clears
  ClearDuringWrite,  \* may an operator empty the file between tip read and append?
  NoHash,            \* "no entry in _LAST_HASH"
  NoThread           \* "the lock is free"

Day  == 1..MaxDay
Hash == Seq(Event)
Genesis == <<>>
Digest(prev, e) == Append(prev, e)

ASSUME ChainAssumption ==
  /\ ProcOf \in [Thread -> Proc]
  /\ Event # {}
  /\ MaxDay \in Nat \ {0}
  /\ MaxFaults \in Nat
  /\ ClearDuringWrite \in BOOLEAN
  /\ NoHash \notin Hash
  /\ NoThread \notin Thread

\* The deployment the class comment of _LAST_HASH and _LOCK has in mind: every
\* writer shares one interpreter.
OneProcess == \A t, u \in Thread : ProcOf[t] = ProcOf[u]

VARIABLES
  today,    \* the wall clock's calendar day
  file,     \* file[d]: the lines of audit_<d>.jsonl; missing and empty alike are <<>>
  cache,    \* cache[p][d]: _LAST_HASH of process p
  lock,     \* lock[p]: the holder of process p's _LOCK
  pc,       \* pc[t]: where thread t is in _write
  call,     \* call[t]: the locals of that _write
  issued,   \* the events already handed to _write
  faults,   \* faults spent so far (bounded by MaxFaults)
  check,    \* the locals of IntegrityChecker.check
  status,   \* last_integrity_status in integrity_state.json
  alerts    \* the days a chain-break alert was emitted for

logVars   == <<file, cache, lock, pc, call, issued>>
checkVars == <<check, status, alerts>>
vars == <<today, logVars, faults, checkVars>>

-----------------------------------------------------------------------------
(* Lines, files and verify_integrity                                        *)

\* "open": the bytes of an append cut short, still without a newline.
\* "garbled": an open tail that a later append ran into; it never parses.
Line == [kind : {"record", "open", "garbled"}, prev : Hash, event : Event, hash : Hash]

RecordLine(prev, e) ==
  [kind |-> "record", prev |-> prev, event |-> e, hash |-> Digest(prev, e)]

TornFree(f) == \A i \in DOMAIN f : f[i].kind = "record"

TipOf(f) == IF f = <<>> THEN Genesis ELSE f[Len(f)].hash

\* The loop body of verify_integrity accepts line i.
LineAccepted(f, i) ==
  /\ f[i].kind = "record"
  /\ f[i].prev = IF i = 1 THEN Genesis ELSE f[i - 1].hash
  /\ f[i].hash = Digest(f[i].prev, f[i].event)

ChainValid(f) == \A i \in DOMAIN f : LineAccepted(f, i)

\* The first line verify_integrity does not accept decides: json.loads raises on
\* one that is no record, a hash mismatch is reported as broken.
Verdict(f) ==
  IF ChainValid(f) THEN "valid"
  ELSE LET first == CHOOSE i \in DOMAIN f :
                      /\ ~LineAccepted(f, i)
                      /\ \A j \in 1..(i - 1) : LineAccepted(f, j)
       IN  IF f[first].kind = "record" THEN "broken" ELSE "raises"

\* open(log_file, "a") and one line: it joins an unterminated tail.
Appended(f, line) ==
  IF f # <<>> /\ f[Len(f)].kind = "open"
  THEN [f EXCEPT ![Len(f)] = [line EXCEPT !.kind = "garbled"]]
  ELSE Append(f, line)

-----------------------------------------------------------------------------
(* The initial state: fresh files, no caches, everybody idle                *)

FreshCall == [day |-> 1, event |-> CHOOSE e \in Event : TRUE, prev |-> Genesis]
IdleCheck == [step |-> "idle", day |-> 1, broken |-> FALSE]

Init ==
  /\ today = 1
  /\ file = [d \in Day |-> <<>>]
  /\ cache = [p \in Proc |-> [d \in Day |-> NoHash]]
  /\ lock = [p \in Proc |-> NoThread]
  /\ pc = [t \in Thread |-> "idle"]
  /\ call = [t \in Thread |-> FreshCall]
  /\ issued = {}
  /\ faults = 0
  /\ check = IdleCheck
  /\ status = "none"
  /\ alerts = {}

-----------------------------------------------------------------------------
(* AuditLogger._write                                                       *)

\* The record gets its timestamp and its file before the lock is taken.
BeginWrite(t, e) ==
  /\ pc[t] = "idle"
  /\ e \notin issued
  /\ issued' = issued \cup {e}
  /\ call' = [call EXCEPT ![t] = [day |-> today, event |-> e, prev |-> Genesis]]
  /\ pc' = [pc EXCEPT ![t] = "waiting"]
  /\ UNCHANGED <<today, file, cache, lock, faults, checkVars>>

\* The cold start of _get_prev_hash: the last line's entry_hash, or genesis when
\* there is none or it does not parse.
ColdTip(f) ==
  IF f # <<>> /\ f[Len(f)].kind = "record" THEN f[Len(f)].hash ELSE Genesis

\* Mutant: _get_prev_hash without the self-heal after an external clear.
PrevHashNoHeal(p, d) ==
  IF cache[p][d] # NoHash THEN cache[p][d] ELSE ColdTip(file[d])

PrevHash(p, d) ==
  IF cache[p][d] # NoHash
  THEN IF file[d] # <<>> THEN cache[p][d] ELSE Genesis
  ELSE ColdTip(file[d])

\* The tip cached for an emptied file is dropped while reading it.
CacheAfterRead(p, d) ==
  IF file[d] = <<>> THEN [cache EXCEPT ![p][d] = NoHash] ELSE cache

\* Mutant: every AuditLogger instance has a lock of its own.
AcquireOwnLock(t) ==
  LET p == ProcOf[t] IN
  /\ pc[t] = "waiting"
  /\ lock' = [lock EXCEPT ![p] = t]
  /\ call' = [call EXCEPT ![t].prev = PrevHash(p, call[t].day)]
  /\ cache' = CacheAfterRead(p, call[t].day)
  /\ pc' = [pc EXCEPT ![t] = "append"]
  /\ UNCHANGED <<today, file, issued, faults, checkVars>>

\* `with self._LOCK`, then _get_prev_hash.
Acquire(t) ==
  LET p == ProcOf[t] IN
  /\ pc[t] = "waiting"
  /\ lock[p] = NoThread
  /\ lock' = [lock EXCEPT ![p] = t]
  /\ call' = [call EXCEPT ![t].prev = PrevHash(p, call[t].day)]
  /\ cache' = CacheAfterRead(p, call[t].day)
  /\ pc' = [pc EXCEPT ![t] = "append"]
  /\ UNCHANGED <<today, file, issued, faults, checkVars>>

\* The hash is computed and the line appended.
AppendLine(t) ==
  LET d == call[t].day IN
  /\ pc[t] = "append"
  /\ file' = [file EXCEPT ![d] = Appended(@, RecordLine(call[t].prev, call[t].event))]
  /\ pc' = [pc EXCEPT ![t] = "publish"]
  /\ UNCHANGED <<today, cache, lock, call, issued, faults, checkVars>>

\* Mutant: the exception handler returns with the lock still held.
AppendFailsHolding(t) ==
  /\ pc[t] = "append"
  /\ faults < MaxFaults
  /\ faults' = faults + 1
  /\ file' \in {file, [file EXCEPT ![call[t].day] =
                        Appended(@, [RecordLine(call[t].prev, call[t].event)
                                       EXCEPT !.kind = "open"])]}
  /\ pc' = [pc EXCEPT ![t] = "idle"]
  /\ UNCHANGED <<today, cache, lock, call, issued, checkVars>>

\* open or write raises (disk full, permissions): nothing or a part of the line
\* is in the file, the exception is swallowed, the record is lost.
AppendFails(t) ==
  /\ pc[t] = "append"
  /\ faults < MaxFaults
  /\ faults' = faults + 1
  /\ file' \in {file, [file EXCEPT ![call[t].day] =
                        Appended(@, [RecordLine(call[t].prev, call[t].event)
                                       EXCEPT !.kind = "open"])]}
  /\ lock' = [lock EXCEPT ![ProcOf[t]] = NoThread]
  /\ pc' = [pc EXCEPT ![t] = "idle"]
  /\ UNCHANGED <<today, cache, call, issued, checkVars>>

\* Mutant: one cached tip for whatever file is written, not one per file.
PublishOneTip(t) ==
  LET p == ProcOf[t] IN
  /\ pc[t] = "publish"
  /\ cache' = [cache EXCEPT ![p] = [d \in Day |-> Digest(call[t].prev, call[t].event)]]
  /\ lock' = [lock EXCEPT ![p] = NoThread]
  /\ pc' = [pc EXCEPT ![t] = "idle"]
  /\ UNCHANGED <<today, file, call, issued, faults, checkVars>>

\* The new tip is cached and the lock released.
Publish(t) ==
  LET p == ProcOf[t] IN
  /\ pc[t] = "publish"
  /\ cache' = [cache EXCEPT ![p][call[t].day] = Digest(call[t].prev, call[t].event)]
  /\ lock' = [lock EXCEPT ![p] = NoThread]
  /\ pc' = [pc EXCEPT ![t] = "idle"]
  /\ UNCHANGED <<today, file, call, issued, faults, checkVars>>

-----------------------------------------------------------------------------
(* The environment: midnight, restarts, data resets                         *)

Midnight ==
  /\ today < MaxDay
  /\ today' = today + 1
  /\ UNCHANGED <<logVars, faults, checkVars>>

\* The process dies: threads, lock and cache are gone; a killed append may leave
\* a part of its line.
Crash(p) ==
  LET mine == {t \in Thread : ProcOf[t] = p} IN
  /\ faults < MaxFaults
  /\ faults' = faults + 1
  /\ file' \in {file} \cup
       {[file EXCEPT ![call[t].day] =
           Appended(@, [RecordLine(call[t].prev, call[t].event) EXCEPT !.kind = "open"])]
          : t \in {u \in mine : pc[u] = "append"}}
  /\ cache' = [cache EXCEPT ![p] = [d \in Day |-> NoHash]]
  /\ lock' = [lock EXCEPT ![p] = NoThread]
  /\ pc' = [t \in Thread |-> IF t \in mine THEN "idle" ELSE pc[t]]
  /\ UNCHANGED <<today, call, issued, checkVars>>

\* reset_data.sh, or an operator, empties or deletes a day's file.
Clear(d) ==
  /\ faults < MaxFaults
  /\ file[d] # <<>>
  /\ ClearDuringWrite \/ \A t \in Thread : pc[t] = "append" => call[t].day # d
  /\ faults' = faults + 1
  /\ file' = [file EXCEPT ![d] = <<>>]
  /\ UNCHANGED <<today, cache, lock, pc, call, issued, checkVars>>

-----------------------------------------------------------------------------
(* IntegrityChecker.check, run every ALERT_INTEGRITY_INTERVAL_SEC           *)

\* A long line reaches the file in several write(2) calls, so a reader can meet a
\* part of a line that is being appended.
VerifyOutcomes(d) ==
  {Verdict(file[d])} \cup
    (IF \E t \in Thread : pc[t] = "append" /\ call[t].day = d THEN {"raises"} ELSE {})

\* One iteration of the loop over (today, yesterday): an exception leaves check().
\* exists() and the read are one step: reset_data.sh stops the monitoring container
\* before it removes a file.
VerifyDay(d, next) ==
  \E v \in VerifyOutcomes(d) :
    /\ alerts' = IF v = "broken" THEN alerts \cup {d} ELSE alerts
    /\ check' = IF v = "raises" THEN IdleCheck
                ELSE [check EXCEPT !.step = next, !.day = d,
                                   !.broken = @ \/ v = "broken"]

CheckToday ==
  /\ check.step = "idle"
  /\ VerifyDay(today, "yesterday")
  /\ UNCHANGED <<today, logVars, faults, status>>

CheckYesterday ==
  /\ check.step = "yesterday"
  /\ IF check.day > 1
     THEN VerifyDay(check.day - 1, "write")
     ELSE check' = [check EXCEPT !.step = "write"] /\ UNCHANGED alerts
  /\ UNCHANGED <<today, logVars, faults, status>>

WriteStatus ==
  /\ check.step = "write"
  /\ status' = IF check.broken THEN "broken" ELSE "intact"
  /\ check' = IdleCheck
  /\ UNCHANGED <<today, logVars, faults, alerts>>

-----------------------------------------------------------------------------
WriteStep(t) == Acquire(t) \/ AppendLine(t) \/ AppendFails(t) \/ Publish(t)
CheckStep == CheckToday \/ CheckYesterday \/ WriteStatus

Next ==
  \/ \E t \in Thread : \E e \in Event : BeginWrite(t, e)
  \/ \E t \in Thread : WriteStep(t)
  \/ \E p \in Proc : Crash(p)
  \/ \E d \in Day : Clear(d)
  \/ Midnight
  \/ CheckStep

Spec == Init /\ [][Next]_vars

\* A thread inside _write keeps running, and the monitoring loop survives every
\* exception of a check. Nobody is obliged to log, crash or clear.
FairSpec == Spec /\ (\A t \in Thread : WF_vars(WriteStep(t))) /\ WF_vars(CheckStep)

-----------------------------------------------------------------------------
(* Properties                                                               *)

\* The values every variable ranges over; in particular a stored prev_hash is
\* always a digest, never the "no entry" marker of the cache.
TypeOK ==
  /\ today \in Day
  /\ file \in [Day -> Seq(Line)]
  /\ cache \in [Proc -> [Day -> Hash \cup {NoHash}]]
  /\ lock \in [Proc -> Thread \cup {NoThread}]
  /\ pc \in [Thread -> {"idle", "waiting", "append", "publish"}]
  /\ call \in [Thread -> [day : Day, event : Event, prev : Hash]]
  /\ issued \in SUBSET Event
  /\ faults \in 0..MaxFaults
  /\ check \in [step : {"idle", "yesterday", "write"}, day : Day, broken : BOOLEAN]
  /\ status \in {"none", "intact", "broken"}
  /\ alerts \in SUBSET Day

\* Whatever the interleaving of writers, midnights, restarts, lost appends and
\* data resets: a day's file in which no line was torn passes verify_integrity.
ChainIntact == \A d \in Day : TornFree(file[d]) => ChainValid(file[d])

\* Why the chain stays intact: a thread is in the critical section exactly when it
\* holds its process's lock; what it read as the tip, what it wrote as the tip and
\* what is cached as the tip is the tip of a file that is not torn.
LockHeld ==
  \A t \in Thread : pc[t] \in {"append", "publish"} <=> lock[ProcOf[t]] = t

TipRead ==
  \A t \in Thread :
    (pc[t] = "append" /\ TornFree(file[call[t].day]))
      => call[t].prev = TipOf(file[call[t].day])

TipWritten ==
  \A t \in Thread :
    (pc[t] = "publish" /\ file[call[t].day] # <<>> /\ TornFree(file[call[t].day]))
      => Digest(call[t].prev, call[t].event) = TipOf(file[call[t].day])

TipCached ==
  \A t \in Thread : \A d \in Day :
    (cache[ProcOf[t]][d] # NoHash /\ file[d] # <<>> /\ TornFree(file[d]))
      => \/ \E u \in Thread : pc[u] = "publish" /\ call[u].day = d
         \/ cache[ProcOf[t]][d] = TipOf(file[d])

ChainInv == LockHeld /\ TipRead /\ TipWritten /\ TipCached /\ ChainIntact

\* A chain-break alert is only ever raised for a file that a torn write really
\* damaged: a reset or a restart alone never looks like tampering.
NoFalseAlarm ==
  [][\A d \in alerts' \ alerts : ~TornFree(file[d])]_vars

\* Every call of _write returns, whatever fails inside the critical section.
WriteReturns == \A t \in Thread : pc[t] = "waiting" ~> pc[t] = "idle"

\* The file's readers see the ledger of AuditLedger: the chain certifies the
\* events of the last line's digest, up to the first damaged line.
FirstDamaged(f, i) ==
  f[i].kind # "record" /\ \A j \in 1..(i - 1) : f[j].kind = "record"

Certified(f) ==
  IF TornFree(f) THEN TipOf(f)
  ELSE LET first == CHOOSE i \in DOMAIN f : FirstDamaged(f, i)
       IN  IF first = 1 THEN Genesis ELSE f[first - 1].hash

CertifiedBook == [d \in Day |-> Certified(file[d])]

Ledger == INSTANCE AuditLedger
  WITH book <- CertifiedBook, damaged <- {d \in Day : ~TornFree(file[d])}

\* The log implements the ledger: a book only grows by one fresh event at its
\* end, and only an operator's clear empties it.
ImplementsLedger == Ledger!LedgerSpec

\* Why an event is entered at most once: what is in a book has been issued, and what a
\* call has yet to append is in no book and in the hands of no other call.
Booked == {e \in Event : \E d \in Day : \E i \in DOMAIN CertifiedBook[d] : CertifiedBook[d][i] = e}
Unwritten == {t \in Thread : pc[t] \in {"waiting", "append"}}

EventsOnce ==
  /\ Booked \subseteq issued
  /\ \A t \in Unwritten : call[t].event \in issued \ Booked
  /\ \A t, u \in Unwritten : call[t].event = call[u].event => t = u
=============================================================================
