------------------------------ MODULE Alerting ------------------------------
(***************************************************************************)
(* The alert loops of the monitoring service (src/monitoring_addon) and    *)
(* the one sink they share: flags of the audit log, the availability of    *)
(* what rag-api depends on, and the health level with its memory of what   *)
(* was alerted before.                                                     *)
(*                                                                         *)
(* Each loop sleeps, checks in a thread of its own and sleeps again, so    *)
(* checks of different loops interleave and a check may come late.  The    *)
(* service may die at any step: what is in memory is gone, what is in      *)
(* files stays, or is cut short.  rag-api writes the audit log the scans   *)
(* read: a record has its time before it has the lock of the file.         *)
(***************************************************************************)
EXTENDS Integers, Sequences

CONSTANTS
  Chat,             \* sessions whose queries are flagged
  ScanEvery,        \* ALERT_ANOMALY_INTERVAL_SEC: how long the scans sleep
  Window,           \* how far a scan looks back: the same in whole minutes
  ProbeEvery,       \* PROBE_INTERVAL_SEC
  HealthEvery,      \* ALERT_DRIFT_INTERVAL_SEC
  DedupWindow,      \* ALERT_DEDUP_WINDOW_SEC
  FailConfirm,      \* PROBE_FAIL_CONFIRM
  ConfirmWindows,   \* DRIFT_CONFIRM_WINDOWS
  MaxTime,          \* bound: the clock
  Budgets           \* bounds: how often each bounded thing may happen in a behaviour

Bounded == {"flags", "scans", "probes", "runs", "crashes", "faults"}

ASSUME AlertingAssumption ==
  /\ ScanEvery \in Nat \ {0} /\ Window \in 0..ScanEvery
  /\ ProbeEvery \in Nat \ {0} /\ HealthEvery \in Nat \ {0}
  /\ DedupWindow \in Nat /\ FailConfirm \in Nat \ {0} /\ ConfirmWindows \in Nat \ {0}
  /\ MaxTime \in Nat /\ Budgets \subseteq [Bounded -> Nat]

VARIABLES
  now, left,   \* the clock; how often each bounded thing may still happen
  stamped,     \* records with a flag that have their time and wait for the file
  events,      \* records of the audit log that carry a flag
  dedup,       \* AlertSink._dedup: when each key was last let through
  out,         \* alerts.jsonl and the mails: what emit let through
  anomaly,     \* AnomalyChecker and its loop
  probe,       \* AvailabilityProbe and its loop
  plog,        \* availability_log.jsonl
  health,      \* HealthChecker and its loop
  state,       \* alerts_health_state.json
  runs,        \* history: the health runs
  noticed,     \* history: the flags some scan has handled, and when
  scanned      \* history: the flags on file when a scan began that read its files to the end

sink == <<dedup, out>>
scans == <<stamped, events, anomaly, noticed, scanned>>
probes == <<probe, plog>>
healths == <<health, state, runs>>
vars == <<now, left, stamped, events, dedup, out, anomaly, probe, plog, health, state, runs,
          noticed, scanned>>

Level == {"normal", "watch", "warning", "critical"}
Rank == [normal |-> 0, watch |-> 1, warning |-> 2, critical |-> 3]
Alerted == {"warning", "critical"}      \* _HEALTH_TO_ALERT
Key == [of : {"flag"}, session : Chat] \cup [of : {"down"}] \cup [of : {"health"}, level : Alerted]
Never == -1
Unsent == [k \in Key |-> Never]         \* AlertSink remembers nothing yet
Blank == [alerted |-> "normal", pending |-> "none", times |-> 0]

Asleep(t) == [at |-> "asleep", due |-> t]
Scan0(t) == [loop |-> Asleep(t), cutoff |-> 0, seen |-> {}, there |-> {}]
Probe0(t) == [loop |-> Asleep(t), ok |-> TRUE, fails |-> 0]
Health0(t) == [loop |-> Asleep(t), memory |-> Blank]

Init ==
  /\ now = 0 /\ left \in Budgets
  /\ stamped = {} /\ events = {}
  /\ dedup = Unsent /\ out = {}
  /\ anomaly = Scan0(0) /\ probe = Probe0(0) /\ health = Health0(0)
  /\ plog = <<>> /\ state = Blank /\ runs = <<>>
  /\ noticed = {} /\ scanned = {}

Spend(f) == left[f] > 0 /\ left' = [left EXCEPT ![f] = @ - 1]

\* What tells the lives of the service apart.
Boot == left.crashes

\* _periodic: a check begins when its time has come, or later.
Begin(loop) == loop.at = "asleep" /\ now >= loop.due

(* -------------------------------- the sink ------------------------------- *)

Suppressed(k) == dedup[k] # Never /\ now - dedup[k] < DedupWindow

\* mutant: a suppressed alert restarts the window of its key
EmitSliding(k) ==
  /\ dedup' = [dedup EXCEPT ![k] = now]
  /\ out' = IF Suppressed(k) THEN out ELSE out \cup {[key |-> k, at |-> now, boot |-> Boot]}

\* emit: the line, the mail and the push are attempted; nothing depends on their success.
Emit(k) ==
  IF Suppressed(k) THEN UNCHANGED sink
  ELSE /\ dedup' = [dedup EXCEPT ![k] = now]
       /\ out' = out \cup {[key |-> k, at |-> now, boot |-> Boot]}

(* ------------------------- flags of the audit log ------------------------ *)

FlagKey(s) == [of |-> "flag", session |-> s]

\* rag-api gives a record with a flag its time.
Stamped(s) ==
  /\ Spend("flags")
  /\ stamped' = stamped \cup {[at |-> now, session |-> s]}
  /\ UNCHANGED <<now, events, anomaly, noticed, scanned, sink, probes, healths>>

\* It has the lock, and appends; a record whose append fails stays out for ever.
Appended(e) ==
  /\ stamped' = stamped \ {e} /\ events' = events \cup {e}
  /\ UNCHANGED <<now, left, anomaly, noticed, scanned, sink, probes, healths>>

\* A scan begins: it will read what is not older than the window.
ScanStart ==
  /\ Begin(anomaly.loop) /\ Spend("scans")
  /\ anomaly' = [anomaly EXCEPT !.loop.at = "scan", !.cutoff = now - Window, !.there = events]
  /\ UNCHANGED <<now, stamped, events, noticed, scanned, sink, probes, healths>>

\* mutant: what lies on the edge of the window is left out
RecentOpen == {e \in events : e.at > anomaly.cutoff /\ e \notin anomaly.seen}

Recent == {e \in events : e.at >= anomaly.cutoff /\ e \notin anomaly.seen}

\* The file is read while it is being written; what was seen once is not looked at again,
\* also when the sink suppressed it.
ScanNext ==
  /\ anomaly.loop.at = "scan"
  /\ \E e \in Recent : /\ anomaly' = [anomaly EXCEPT !.seen = @ \cup {e}]
                       /\ noticed' = noticed \cup {[event |-> e, at |-> now, boot |-> Boot]}
                       /\ Emit(FlagKey(e.session))
  /\ UNCHANGED <<now, left, stamped, events, scanned, probes, healths>>

\* A scan takes time, and the loop sleeps from its end.
ScanSleeps ==
  /\ anomaly.loop.at = "scan" /\ now > anomaly.cutoff + Window
  /\ anomaly' = [anomaly EXCEPT !.loop = Asleep(now + ScanEvery)]

ScanEnd ==
  /\ ScanSleeps /\ Recent = {}
  /\ scanned' = scanned \cup {[event |-> e, cutoff |-> anomaly.cutoff] : e \in anomaly.there}
  /\ UNCHANGED <<now, left, stamped, events, noticed, sink, probes, healths>>

\* A file cannot be read on (a torn character is enough): that is logged, its rest is left
\* out, and the scan counts as done.
ScanCut ==
  /\ ScanSleeps /\ Spend("faults")
  /\ UNCHANGED <<now, stamped, events, noticed, scanned, sink, probes, healths>>

(* ----------------------------- availability ------------------------------ *)

\* A probe asks the critical dependencies and appends what it found; when the append
\* fails the check ends with an exception that the loop swallows.
Probe ==
  /\ Begin(probe.loop) /\ Spend("probes")
  /\ \E ok \in BOOLEAN :
       /\ plog' = Append(plog, [ok |-> ok, at |-> now, boot |-> Boot])
       /\ probe' = [probe EXCEPT !.loop.at = "count", !.ok = ok]
  /\ UNCHANGED <<now, sink, scans, healths>>

ProbeFails ==
  /\ Begin(probe.loop) /\ Spend("faults")
  /\ probe' = [probe EXCEPT !.loop = Asleep(now + ProbeEvery)]
  /\ UNCHANGED <<now, sink, scans, plog, healths>>

\* mutant: only the probe that confirms the outage alerts
ConfirmedOnce(n) == n = FailConfirm

Confirmed(n) == n >= FailConfirm

ProbeCount ==
  /\ probe.loop.at = "count"
  /\ LET n == IF probe.ok THEN 0 ELSE probe.fails + 1 IN
     /\ probe' = [probe EXCEPT !.loop = Asleep(now + ProbeEvery), !.fails = n]
     /\ IF Confirmed(n) THEN Emit([of |-> "down"]) ELSE UNCHANGED sink
  /\ UNCHANGED <<now, left, scans, plog, healths>>

(* -------------------------------- health --------------------------------- *)

Times(m, level) == IF m.pending = level THEN m.times + 1 ELSE 1

\* mutant: any worsened level counts for the one that is pending
ConfirmsAny(m, level) == /\ Rank[level] > Rank[m.alerted] /\ level \in Alerted
                         /\ m.times + 1 >= ConfirmWindows

\* A level above the alerted one that was found in enough runs in a row, and has an alert.
Confirms(m, level) == /\ Rank[level] > Rank[m.alerted] /\ level \in Alerted
                      /\ Times(m, level) >= ConfirmWindows

\* The watermark falls with the level at once and rises with an alert only.
Remember(m, level) ==
  IF Confirms(m, level) \/ Rank[level] < Rank[m.alerted] THEN [Blank EXCEPT !.alerted = level]
  ELSE IF Rank[level] > Rank[m.alerted]
  THEN [alerted |-> m.alerted, pending |-> level, times |-> Times(m, level)]
  ELSE [Blank EXCEPT !.alerted = m.alerted]

\* load_availability: one failure among the last probes leaves 67 % of them at most, which
\* scores 100; with none on record there is no such dimension.
RecentProbes == 3
Trailing(n) == {i \in 1..Len(plog) : i + n > Len(plog)}
FromProbes == IF \E i \in Trailing(RecentProbes) : ~plog[i].ok THEN "critical" ELSE "normal"

\* classify_health: the worst dimension decides.  Latency and faithfulness are anything.
Assessed == {level \in Level : Rank[level] >= Rank[FromProbes]}

\* The score of the report gives a level; the alert goes out before the state is saved.
HealthRun ==
  /\ Begin(health.loop) /\ Spend("runs")
  /\ \E level \in Assessed :
       /\ health' = [loop |-> [health.loop EXCEPT !.at = "save"], memory |-> Remember(state, level)]
       /\ runs' = Append(runs, [level |-> level, alert |-> Confirms(state, level), saved |-> FALSE])
       /\ IF Confirms(state, level) THEN Emit([of |-> "health", level |-> level])
          ELSE UNCHANGED sink
  /\ UNCHANGED <<now, scans, probes, state>>

\* The report cannot be built: that is logged, and neither alerted nor remembered.
HealthFails ==
  /\ Begin(health.loop) /\ Spend("faults")
  /\ health' = [health EXCEPT !.loop = Asleep(now + HealthEvery)]
  /\ UNCHANGED <<now, sink, scans, probes, state, runs>>

\* write_text empties the file first: a failure leaves the old state, or an unreadable file,
\* which counts as none.  It is logged and the loop goes on.
HealthSave ==
  /\ health.loop.at = "save"
  /\ \/ /\ state' = health.memory
        /\ runs' = [runs EXCEPT ![Len(runs)].saved = TRUE]
        /\ UNCHANGED left
     \/ Spend("faults") /\ state' \in {state, Blank} /\ UNCHANGED runs
  /\ health' = [health EXCEPT !.loop = Asleep(now + HealthEvery)]
  /\ UNCHANGED <<now, sink, scans, probes>>

(* ------------------------------ environment ------------------------------ *)

Tick == /\ now < MaxTime
        /\ now' = now + 1
        /\ UNCHANGED <<left, sink, scans, probes, healths>>

\* The service dies and starts again.
Crash ==
  /\ Spend("crashes")
  /\ dedup' = Unsent
  /\ anomaly' = Scan0(now) /\ probe' = Probe0(now) /\ health' = Health0(now)
  /\ state' \in IF health.loop.at = "save" THEN {state, Blank} ELSE {state}
  /\ UNCHANGED <<now, stamped, events, out, plog, runs, noticed, scanned>>

Writes == (\E s \in Chat : Stamped(s)) \/ (\E e \in stamped : Appended(e))

Checks == ScanStart \/ ScanNext \/ ScanEnd \/ ScanCut \/ Probe \/ ProbeFails \/ ProbeCount
          \/ HealthRun \/ HealthFails \/ HealthSave

Next == Writes \/ Checks \/ Tick \/ Crash

Spec == Init /\ [][Next]_vars

(* ------------------------------ properties ------------------------------- *)

Loop(at) == [at : {"asleep"} \cup at, due : Nat]
Event == [at : 0..MaxTime, session : Chat]
Memory == [alerted : Level, pending : Level \cup {"none"}, times : Nat]

\* Every variable has its type; in particular the state file always holds a level and a
\* count that the next run can start from.
TypeOK ==
  /\ now \in 0..MaxTime
  /\ left \in [Bounded -> Nat]
  /\ stamped \subseteq Event /\ events \subseteq Event
  /\ dedup \in [Key -> 0..MaxTime \cup {Never}]
  /\ out \subseteq [key : Key, at : 0..MaxTime, boot : Nat]
  /\ anomaly \in [loop : Loop({"scan"}), cutoff : Int, seen : SUBSET Event, there : SUBSET Event]
  /\ probe \in [loop : Loop({"count"}), ok : BOOLEAN, fails : Nat]
  /\ plog \in Seq([ok : BOOLEAN, at : 0..MaxTime, boot : Nat])
  /\ health \in [loop : Loop({"save"}), memory : Memory]
  /\ state \in Memory
  /\ runs \in Seq([level : Level, alert : BOOLEAN, saved : BOOLEAN])
  /\ noticed \subseteq [event : Event, at : 0..MaxTime, boot : Nat]
  /\ scanned \subseteq [event : Event, cutoff : Int]

\* An alert with the key went out in this boot less than a window before.
Recently(k, t, b) == \E o \in out : o.key = k /\ o.boot = b /\ o.at <= t /\ t - o.at < DedupWindow

\* Deduplication delays and never silences: whenever a flag was handled, an alert for its
\* session went out at that moment or less than a window before, however long the session
\* goes on raising flags.
FlagsNotSilenced == DedupWindow > 0 =>
                      \A n \in noticed : Recently(FlagKey(n.event.session), n.at, n.boot)

\* A scan that reads its files to the end answers for every flag that was there and in its
\* window when it began: some scan has handled it, this one or one before it, also before a
\* restart, and when it did an alert for its session was out for less than a window.
FlagsAlerted ==
  DedupWindow > 0 =>
    \A f \in scanned : f.event.at >= f.cutoff =>
      \E n \in noticed : n.event = f.event /\ Recently(FlagKey(n.event.session), n.at, n.boot)

\* What alert_checkers.py:54-61 supposes: recent events are scanned and the windows of two
\* scans overlap.  Then a flag raised since some scan began (g's), and on file when another
\* begins (f's), has been handled when that one has read its files.  It has not where its
\* append came after the one and its time is before the window of the other, as TLC shows
\* with MaxTime = 5.
FlagsNoticed ==
  \A f, g \in scanned : f.event.at >= g.cutoff + Window => \E n \in noticed : n.event = f.event

\* An outage is never quiet for longer than a window: when the last probes of this boot
\* that are on record all failed, an alert went out less than a window before the last.
DownIsAlerted ==
  /\ probe.loop.at = "asleep" /\ Len(plog) >= FailConfirm /\ DedupWindow > 0
  /\ \A i \in Trailing(FailConfirm) : ~plog[i].ok /\ plog[i].boot = Boot
  => \E o \in out : /\ o.key = [of |-> "down"] /\ o.boot = Boot
                    /\ o.at > plog[Len(plog)].at - DedupWindow

RunsBefore(i) == {j \in 1..(i - 1) : j + ConfirmWindows > i}
LastRuns == {j \in 1..Len(runs) : j + ConfirmWindows > Len(runs)}

\* A health alert is the last of enough runs in a row that found its level, and the level
\* was not alerted already: between two alerts of a level a run found a lower one.  Only a
\* state file that missed a run can tell otherwise.
HealthConfirmed ==
  \A i \in 1..Len(runs) : runs[i].alert =>
    /\ (\A j \in RunsBefore(i) : runs[j].saved) =>
         /\ i >= ConfirmWindows
         /\ \A j \in RunsBefore(i) : runs[j].level = runs[i].level
    /\ \A h \in 1..(i - 1) :
         /\ runs[h].alert /\ runs[h].level = runs[i].level
         /\ \A j \in h..(i - 1) : runs[j].saved
         => \E j \in h..(i - 1) : Rank[runs[j].level] < Rank[runs[i].level]

\* Once enough saved runs in a row have found a level that is alerted, the watermark is
\* that level: the system has alerted it, or came down to it from a worse one.
HealthTracks ==
  \A level \in Alerted :
    /\ Len(runs) >= ConfirmWindows
    /\ \A i \in LastRuns : runs[i].saved /\ runs[i].level = level
    => state.alerted = level

(* The inductive invariant: what the sink remembers is out; what a streak of probes or    *)
(* of health runs on record has left in memory and in the state file.                     *)

\* What a scan had before it is on file; what it has seen is noticed.
ScanInv == /\ anomaly.there \subseteq events
           /\ \A e \in anomaly.seen : \E n \in noticed : n.event = e
           /\ \A f \in scanned : f.event.at >= f.cutoff => \E n \in noticed : n.event = f.event

Out(k, t) == \E o \in out : o.key = k /\ o.boot = Boot /\ o.at = t

SinkInv == \A k \in Key : dedup[k] # Never => dedup[k] <= now /\ Out(k, dedup[k])

\* The probes that have been counted; the one under way is on record already.
Counted == IF probe.loop.at = "count" THEN Len(plog) - 1 ELSE Len(plog)
Failed(i) == ~plog[i].ok /\ plog[i].boot = Boot

OnRecord == /\ \A i \in 1..Len(plog) : plog[i].at <= now /\ plog[i].boot >= Boot
            /\ probe.loop.at = "count" =>
                 /\ Len(plog) > 0
                 /\ plog[Len(plog)].ok = probe.ok /\ plog[Len(plog)].boot = Boot

FailsCounted == \A n \in 1..Counted :
                  (\A i \in (Counted + 1 - n)..Counted : Failed(i)) => probe.fails >= n

OutageOut == probe.loop.at = "asleep" /\ DedupWindow > 0 /\ probe.fails >= FailConfirm =>
               \E o \in out : /\ o.key = [of |-> "down"] /\ o.boot = Boot
                             /\ o.at > plog[Len(plog)].at - DedupWindow

ProbeInv == OnRecord /\ FailsCounted /\ OutageOut

\* The runs whose memory was due to be saved.
Due == IF health.loop.at = "save" THEN Len(runs) - 1 ELSE Len(runs)
Streak(n, level) == \A i \in (Due + 1 - n)..Due : runs[i].saved /\ runs[i].level = level

Carried == health.loop.at = "save" =>
             /\ Len(runs) > 0 /\ ~runs[Len(runs)].saved
             /\ runs[Len(runs)].alert = Confirms(state, runs[Len(runs)].level)
             /\ health.memory = Remember(state, runs[Len(runs)].level)

\* A streak that has not raised the watermark yet is pending with its length.
Pending == \A level \in Level : \A n \in 1..Due : Streak(n, level) =>
             \/ state.alerted = level
             \/ /\ Rank[level] > Rank[state.alerted]
                /\ state.pending = level /\ state.times >= n
                /\ level \in Alerted => state.times < ConfirmWindows

HealthInv == Carried /\ Pending

\* The other way round: the count in the state file is of runs that found the pending level,
\* as far back as no save was missed.
Backed == \A n \in 1..state.times :
            (\A j \in 1..Due : j + n > Due => runs[j].saved)
            => n <= Due /\ \A j \in 1..Due : j + n > Due => runs[j].level = state.pending

\* The watermark has not fallen below an alert while no run found less and no save was missed.
Marked == \A h \in 1..Due :
            /\ runs[h].alert
            /\ \A j \in h..Due : runs[j].saved /\ Rank[runs[j].level] >= Rank[runs[h].level]
            => Rank[state.alerted] >= Rank[runs[h].level]

AlertsInv == Backed /\ Marked /\ HealthConfirmed

AlertingInv == /\ TypeOK /\ SinkInv /\ FlagsNotSilenced /\ ScanInv /\ ProbeInv /\ HealthInv
               /\ AlertsInv
=============================================================================
