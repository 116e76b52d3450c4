-------------------------- MODULE Alerting_proofs --------------------------
(***************************************************************************)
(* Proofs about Alerting: for any intervals, windows and number of checks, *)
(* deduplication never silences a flagged session, a scan answers for the  *)
(* flags in its window, an outage on record is alerted, the health         *)
(* watermark follows a level that lasts, and no health alert comes early   *)
(* or twice.                                                               *)
(***************************************************************************)
EXTENDS Alerting, TLAPS

(* ------------------------------- the basics ------------------------------ *)

LEMMA Spent ==
  ASSUME TypeOK, NEW f \in Bounded, Spend(f)
  PROVE  /\ left' \in [Bounded -> Nat]
         /\ f # "crashes" => Boot' = Boot
         /\ f = "crashes" => Boot' = Boot - 1
         /\ Boot \in Nat /\ Boot' \in Nat
<1>1. left \in [Bounded -> Nat] /\ left[f] > 0 /\ left' = [left EXCEPT ![f] = @ - 1]
  BY DEF TypeOK, Spend
<1>2. left' \in [Bounded -> Nat]
  BY <1>1
<1>3. "crashes" \in Bounded
  BY DEF Bounded
<1>4. QED
  BY <1>1, <1>2, <1>3 DEF Boot

LEMMA BootNat == TypeOK => Boot \in Nat
BY DEF TypeOK, Boot, Bounded

LEMMA KeyForms ==
  /\ \A s \in Chat : FlagKey(s) \in Key
  /\ [of |-> "down"] \in Key
  /\ \A level \in Alerted : [of |-> "health", level |-> level] \in Key
BY DEF FlagKey, Key

LEMMA Ranks ==
  /\ \A l \in Level : Rank[l] \in Nat
  /\ \A l, m \in Level : Rank[l] = Rank[m] => l = m
BY DEF Rank, Level

(* -------------------------------- the sink ------------------------------- *)

\* What Emit leaves: the sink still remembers only what is out, and an alert with the key
\* is less than a window old.
LEMMA Emitted ==
  ASSUME TypeOK, SinkInv, NEW k \in Key, Emit(k), now' = now, Boot' = Boot
  PROVE  /\ dedup' \in [Key -> 0..MaxTime \cup {Never}]
         /\ out' \subseteq [key : Key, at : 0..MaxTime, boot : Nat]
         /\ out \subseteq out'
         /\ SinkInv'
         /\ DedupWindow > 0 => \E o \in out' : /\ o.key = k /\ o.boot = Boot
                                               /\ o.at <= now /\ now - o.at < DedupWindow
<1> DEFINE new == [key |-> k, at |-> now, boot |-> Boot]
<1>1. /\ now \in 0..MaxTime /\ MaxTime \in Nat /\ DedupWindow \in Nat /\ Boot \in Nat
      /\ dedup \in [Key -> 0..MaxTime \cup {Never}]
      /\ out \subseteq [key : Key, at : 0..MaxTime, boot : Nat]
  BY BootNat, AlertingAssumption DEF TypeOK
<1>2. CASE Suppressed(k)
  <2>1. dedup' = dedup /\ out' = out
    BY <1>2 DEF Emit, sink
  <2>2. SinkInv'
    BY <2>1 DEF SinkInv, Out
  <2>3. dedup[k] # Never /\ now - dedup[k] < DedupWindow
    BY <1>2 DEF Suppressed
  <2>4. dedup[k] <= now /\ \E o \in out : o.key = k /\ o.boot = Boot /\ o.at = dedup[k]
    BY <2>3 DEF SinkInv, Out
  <2>5. QED
    BY <1>1, <2>1, <2>2, <2>3, <2>4
<1>3. CASE ~Suppressed(k)
  <2>1. dedup' = [dedup EXCEPT ![k] = now] /\ out' = out \cup {new}
    BY <1>3 DEF Emit
  <2>2. new \in out' /\ new.key = k /\ new.boot = Boot /\ new.at = now /\ out \subseteq out'
    BY <2>1
  <2>3. ASSUME NEW q \in Key, dedup'[q] # Never
        PROVE  dedup'[q] <= now /\ \E o \in out' : o.key = q /\ o.boot = Boot /\ o.at = dedup'[q]
    <3>1. CASE q = k
      <4>1. dedup'[q] = now /\ now <= now
        BY <1>1, <2>1, <3>1
      <4>2. QED
        BY <2>2, <3>1, <4>1
    <3>2. CASE q # k
      <4>1. dedup'[q] = dedup[q]
        BY <1>1, <2>1, <3>2
      <4>2. QED
        BY <2>2, <2>3, <4>1 DEF SinkInv, Out
    <3>3. QED
      BY <3>1, <3>2
  <2>4. SinkInv'
    BY <2>3 DEF SinkInv, Out
  <2>5. new \in [key : Key, at : 0..MaxTime, boot : Nat]
    BY <1>1
  <2>6. dedup' \in [Key -> 0..MaxTime \cup {Never}] /\ out' \subseteq [key : Key, at : 0..MaxTime, boot : Nat]
    BY <1>1, <2>1, <2>5
  <2>7. DedupWindow > 0 => now - now < DedupWindow
    BY <1>1
  <2>8. QED
    BY <1>1, <2>2, <2>4, <2>6, <2>7
<1>4. QED
  BY <1>2, <1>3

\* A step that leaves the sink alone.
LEMMA SinkStill ==
  ASSUME TypeOK, SinkInv, UNCHANGED sink, Boot' = Boot, now' \in Nat, now' >= now
  PROVE  SinkInv'
<1>1. dedup' = dedup /\ out' = out
  BY DEF sink
<1>2. \A k \in Key : dedup[k] # Never => dedup[k] \in 0..MaxTime
  BY DEF TypeOK
<1>3. now \in Nat
  BY DEF TypeOK
<1>4. QED
  BY <1>1, <1>2, <1>3, AlertingAssumption DEF SinkInv, Out

(* --------------------------------- types --------------------------------- *)

Scans == ScanStart \/ ScanNext \/ ScanEnd \/ ScanCut
Probes == Probe \/ ProbeFails \/ ProbeCount
Healths == HealthRun \/ HealthFails \/ HealthSave

LEMMA TypesWrites ==
  ASSUME TypeOK, SinkInv, Writes
  PROVE  TypeOK' /\ SinkInv' /\ Boot' = Boot
<1>1. /\ UNCHANGED <<now, dedup, out, anomaly, noticed, scanned, probe, plog, health, state, runs>>
      /\ UNCHANGED sink
  BY DEF Writes, Stamped, Appended, sink, probes, healths
<1>2. stamped' \subseteq Event /\ events' \subseteq Event
  BY DEF Writes, Stamped, Appended, TypeOK, Event
<1>3. left' \in [Bounded -> Nat] /\ Boot' = Boot
  BY Spent DEF Writes, Stamped, Appended, Bounded, TypeOK, Boot
<1>4. TypeOK'
  BY <1>1, <1>2, <1>3 DEF TypeOK
<1>5. now' \in Nat /\ now' >= now
  BY <1>1 DEF TypeOK
<1>6. QED
  BY <1>1, <1>3, <1>4, <1>5, SinkStill

\* The loops keep their type whatever they do next.
LEMMA LoopTimes == TypeOK => /\ now \in Nat /\ now + ScanEvery \in Nat /\ now + ProbeEvery \in Nat
                         /\ now + HealthEvery \in Nat /\ now - Window \in Int
BY AlertingAssumption DEF TypeOK

LEMMA TypesScan ==
  ASSUME TypeOK, SinkInv, Scans
  PROVE  TypeOK' /\ SinkInv' /\ Boot' = Boot
<1> DEFINE Scan == [loop : Loop({"scan"}), cutoff : Int, seen : SUBSET Event, there : SUBSET Event]
<1>0. /\ now \in Nat /\ now + ScanEvery \in Nat /\ now - Window \in Int
      /\ anomaly \in Scan /\ events \subseteq Event /\ Boot \in Nat /\ now \in 0..MaxTime
      /\ noticed \subseteq [event : Event, at : 0..MaxTime, boot : Nat]
      /\ scanned \subseteq [event : Event, cutoff : Int]
  BY LoopTimes, BootNat DEF TypeOK
<1>1. CASE ScanStart
  <2>1. /\ Spend("scans") /\ UNCHANGED sink
        /\ anomaly' = [anomaly EXCEPT !.loop.at = "scan", !.cutoff = now - Window, !.there = events]
        /\ UNCHANGED <<now, stamped, events, noticed, scanned, dedup, out, probe, plog, health, state, runs>>
    BY <1>1 DEF ScanStart, sink, probes, healths
  <2>2. left' \in [Bounded -> Nat] /\ Boot' = Boot
    BY <2>1, Spent DEF Bounded
  <2>3. anomaly' \in Scan
    BY <1>0, <2>1 DEF Loop
  <2>4. TypeOK'
    BY <2>1, <2>2, <2>3 DEF TypeOK
  <2>5. QED
    BY <1>0, <2>1, <2>2, <2>4, SinkStill
<1>2. CASE ScanNext
  <2>1. PICK e \in Recent :
               /\ anomaly' = [anomaly EXCEPT !.seen = @ \cup {e}]
               /\ noticed' = noticed \cup {[event |-> e, at |-> now, boot |-> Boot]}
               /\ Emit(FlagKey(e.session))
    BY <1>2 DEF ScanNext
  <2>2. UNCHANGED <<now, left, stamped, events, scanned, probe, plog, health, state, runs>> /\ Boot' = Boot
    BY <1>2 DEF ScanNext, probes, healths, Boot
  <2>3. e \in Event /\ e.session \in Chat
    BY <1>0 DEF Recent, Event
  <2>4. /\ dedup' \in [Key -> 0..MaxTime \cup {Never}]
        /\ out' \subseteq [key : Key, at : 0..MaxTime, boot : Nat]
        /\ SinkInv'
    BY <2>1, <2>2, <2>3, Emitted, KeyForms
  <2>5. anomaly' \in Scan
    BY <1>0, <2>1, <2>3
  <2>6. noticed' \subseteq [event : Event, at : 0..MaxTime, boot : Nat]
    BY <1>0, <2>1, <2>3
  <2>7. QED
    BY <2>2, <2>4, <2>5, <2>6 DEF TypeOK
<1>3. ASSUME ScanSleeps, UNCHANGED <<now, stamped, events, noticed, sink, probes, healths>>,
             left' \in [Bounded -> Nat], Boot' = Boot, scanned' \subseteq [event : Event, cutoff : Int]
      PROVE  TypeOK' /\ SinkInv' /\ Boot' = Boot
  <2>1. anomaly' = [anomaly EXCEPT !.loop = Asleep(now + ScanEvery)]
    BY <1>3 DEF ScanSleeps
  <2>2. anomaly' \in Scan
    BY <1>0, <2>1 DEF Loop, Asleep
  <2>3. TypeOK'
    BY <1>3, <2>2 DEF TypeOK, sink, probes, healths
  <2>4. QED
    BY <1>0, <1>3, <2>3, SinkStill
<1>4. CASE ScanEnd
  <2>1. scanned' = scanned \cup {[event |-> e, cutoff |-> anomaly.cutoff] : e \in anomaly.there}
    BY <1>4 DEF ScanEnd
  <2>2. scanned' \subseteq [event : Event, cutoff : Int]
    BY <1>0, <2>1
  <2>3. left' \in [Bounded -> Nat] /\ Boot' = Boot
    BY <1>4 DEF ScanEnd, Boot, TypeOK
  <2>4. QED
    BY <1>3, <1>4, <2>2, <2>3 DEF ScanEnd
<1>5. CASE ScanCut
  <2>1. left' \in [Bounded -> Nat] /\ Boot' = Boot /\ scanned' \subseteq [event : Event, cutoff : Int]
    BY <1>0, <1>5, Spent DEF ScanCut, Bounded
  <2>2. QED
    BY <1>3, <1>5, <2>1 DEF ScanCut
<1>6. QED
  BY <1>1, <1>2, <1>4, <1>5 DEF Scans

LEMMA TypesProbe ==
  ASSUME TypeOK, SinkInv, Probes
  PROVE  TypeOK' /\ SinkInv' /\ Boot' = Boot
<1>0. /\ now \in Nat /\ now + ProbeEvery \in Nat /\ Boot \in Nat /\ now \in 0..MaxTime
      /\ probe \in [loop : Loop({"count"}), ok : BOOLEAN, fails : Nat]
      /\ plog \in Seq([ok : BOOLEAN, at : 0..MaxTime, boot : Nat])
  BY LoopTimes, BootNat DEF TypeOK
<1>1. CASE Probe
  <2>1. PICK ok \in BOOLEAN :
          /\ plog' = Append(plog, [ok |-> ok, at |-> now, boot |-> Boot])
          /\ probe' = [probe EXCEPT !.loop.at = "count", !.ok = ok]
    BY <1>1, Zenon DEF Probe
  <2>2. /\ Spend("probes") /\ UNCHANGED sink
        /\ UNCHANGED <<now, dedup, out, stamped, events, anomaly, noticed, scanned, health, state, runs>>
    BY <1>1 DEF Probe, sink, scans, healths
  <2>3. left' \in [Bounded -> Nat] /\ Boot' = Boot
    BY <2>2, Spent DEF Bounded
  <2>4. probe' \in [loop : Loop({"count"}), ok : BOOLEAN, fails : Nat]
    BY <1>0, <2>1 DEF Loop
  <2>5. plog' \in Seq([ok : BOOLEAN, at : 0..MaxTime, boot : Nat])
    BY <1>0, <2>1
  <2>6. TypeOK'
    BY <2>2, <2>3, <2>4, <2>5 DEF TypeOK
  <2>7. QED
    BY <1>0, <2>2, <2>3, <2>6, SinkStill
<1>2. CASE ProbeFails
  <2>1. /\ Spend("faults") /\ UNCHANGED sink
        /\ probe' = [probe EXCEPT !.loop = Asleep(now + ProbeEvery)]
        /\ UNCHANGED <<now, dedup, out, stamped, events, anomaly, noticed, scanned, plog, health, state, runs>>
    BY <1>2 DEF ProbeFails, sink, scans, healths
  <2>2. left' \in [Bounded -> Nat] /\ Boot' = Boot
    BY <2>1, Spent DEF Bounded
  <2>3. probe' \in [loop : Loop({"count"}), ok : BOOLEAN, fails : Nat]
    BY <1>0, <2>1 DEF Loop, Asleep
  <2>4. TypeOK'
    BY <2>1, <2>2, <2>3 DEF TypeOK
  <2>5. QED
    BY <1>0, <2>1, <2>2, <2>4, SinkStill
<1>3. CASE ProbeCount
  <2> DEFINE n == IF probe.ok THEN 0 ELSE probe.fails + 1
  <2>1. /\ probe' = [probe EXCEPT !.loop = Asleep(now + ProbeEvery), !.fails = n]
        /\ Emit([of |-> "down"]) \/ UNCHANGED sink
        /\ UNCHANGED <<now, left, stamped, events, anomaly, noticed, scanned, plog, health, state, runs>>
    BY <1>3 DEF ProbeCount, scans, healths
  <2>2. Boot' = Boot
    BY <2>1 DEF Boot
  <2>3. probe' \in [loop : Loop({"count"}), ok : BOOLEAN, fails : Nat]
    <3>1. n \in Nat
      BY <1>0
    <3>2. Asleep(now + ProbeEvery) \in Loop({"count"})
      BY <1>0 DEF Loop, Asleep
    <3> HIDE DEF n
    <3>3. QED
      BY <1>0, <2>1, <3>1, <3>2
  <2>4. /\ dedup' \in [Key -> 0..MaxTime \cup {Never}]
        /\ out' \subseteq [key : Key, at : 0..MaxTime, boot : Nat]
        /\ SinkInv'
    <3>1. CASE Emit([of |-> "down"])
      BY <2>1, <2>2, <3>1, Emitted, KeyForms
    <3>2. CASE UNCHANGED sink
      <4>1. SinkInv'
        BY <1>0, <2>1, <2>2, <3>2, SinkStill
      <4>2. QED
        BY <3>2, <4>1 DEF sink, TypeOK
    <3>3. QED
      BY <2>1, <3>1, <3>2
  <2>5. QED
    BY <2>1, <2>2, <2>3, <2>4 DEF TypeOK
<1>4. QED
  BY <1>1, <1>2, <1>3 DEF Probes

\* What is remembered is a memory again.
LEMMA MemoryTyped ==
  ASSUME NEW m \in Memory, NEW level \in Level
  PROVE  Remember(m, level) \in Memory /\ Times(m, level) \in Nat /\ Blank \in Memory
<1>1. m.alerted \in Level /\ m.times \in Nat /\ "normal" \in Level
  BY DEF Memory, Level
<1>2. Times(m, level) \in Nat
  BY <1>1 DEF Times
<1>3. Blank \in Memory
  BY <1>1 DEF Blank, Memory
<1>4. \A l \in Level : [Blank EXCEPT !.alerted = l] \in Memory
  BY <1>3 DEF Memory
<1>5. [alerted |-> m.alerted, pending |-> level, times |-> Times(m, level)] \in Memory
  BY <1>1, <1>2 DEF Memory
<1>6. QED
  BY <1>1, <1>2, <1>3, <1>4, <1>5 DEF Remember

\* Marking the last run keeps the type of the runs.
LEMMA LastSaved ==
  ASSUME NEW rs \in Seq([level : Level, alert : BOOLEAN, saved : BOOLEAN])
  PROVE  [rs EXCEPT ![Len(rs)].saved = TRUE] \in Seq([level : Level, alert : BOOLEAN, saved : BOOLEAN])
<1> DEFINE Run == [level : Level, alert : BOOLEAN, saved : BOOLEAN]
           n == Len(rs)
           v == [rs[n] EXCEPT !.saved = TRUE]
           new == [rs EXCEPT ![n] = v]
<1>0. rs \in Seq(Run)
  OBVIOUS
<1> HIDE DEF Run
<1>1. n \in Nat /\ rs \in [1..n -> Run]
  BY <1>0
<1>2. n \in 1..n => v \in Run
  BY <1>1 DEF Run
<1>3. new = [rs EXCEPT ![Len(rs)].saved = TRUE]
  OBVIOUS
<1> HIDE DEF v
<1>4. new \in [1..n -> Run]
  BY <1>1, <1>2
<1> HIDE DEF new
<1>5. new \in Seq(Run)
  <2>1. \A f \in [1..n -> Run] : f \in Seq(Run)
    BY <1>1
  <2>2. QED
    BY <1>4, <2>1
<1>6. QED
  BY <1>3, <1>5 DEF Run

LEMMA TypesHealth ==
  ASSUME TypeOK, SinkInv, Healths
  PROVE  TypeOK' /\ SinkInv' /\ Boot' = Boot
<1> DEFINE Run == [level : Level, alert : BOOLEAN, saved : BOOLEAN]
<1>0. /\ now \in Nat /\ now + HealthEvery \in Nat /\ Boot \in Nat
      /\ health \in [loop : Loop({"save"}), memory : Memory]
      /\ state \in Memory /\ runs \in Seq(Run)
  BY LoopTimes, BootNat DEF TypeOK
<1>1. CASE HealthRun
  <2>1. PICK level \in Assessed :
          /\ health' = [loop |-> [health.loop EXCEPT !.at = "save"], memory |-> Remember(state, level)]
          /\ runs' = Append(runs, [level |-> level, alert |-> Confirms(state, level), saved |-> FALSE])
          /\ IF Confirms(state, level) THEN Emit([of |-> "health", level |-> level])
             ELSE UNCHANGED sink
    BY <1>1 DEF HealthRun
  <2> level \in Level
    BY DEF Assessed
  <2>2. /\ Spend("runs")
        /\ UNCHANGED <<now, stamped, events, anomaly, noticed, scanned, probe, plog, state>>
    BY <1>1 DEF HealthRun, scans, probes
  <2>3. left' \in [Bounded -> Nat] /\ Boot' = Boot
    BY <2>2, Spent DEF Bounded
  <2>4. health' \in [loop : Loop({"save"}), memory : Memory]
    BY <1>0, <2>1, MemoryTyped DEF Loop
  <2>5. runs' \in Seq(Run)
    <3>1. Confirms(state, level) \in BOOLEAN
      BY DEF Confirms
    <3>2. QED
      BY <1>0, <2>1, <3>1
  <2>6. /\ dedup' \in [Key -> 0..MaxTime \cup {Never}]
        /\ out' \subseteq [key : Key, at : 0..MaxTime, boot : Nat]
        /\ SinkInv'
    <3>1. CASE Confirms(state, level)
      <4>1. [of |-> "health", level |-> level] \in Key
        BY <3>1, KeyForms DEF Confirms
      <4>2. QED
        BY <2>1, <2>2, <2>3, <3>1, <4>1, Emitted
    <3>2. CASE ~Confirms(state, level)
      <4>1. UNCHANGED sink /\ SinkInv'
        BY <1>0, <2>1, <2>2, <2>3, <3>2, SinkStill
      <4>2. QED
        BY <4>1 DEF sink, TypeOK
    <3>3. QED
      BY <3>1, <3>2
  <2>7. QED
    BY <2>2, <2>3, <2>4, <2>5, <2>6 DEF TypeOK
<1>2. CASE HealthSave
  <2>1. /\ UNCHANGED sink
        /\ health' = [health EXCEPT !.loop = Asleep(now + HealthEvery)]
        /\ UNCHANGED <<now, dedup, out, stamped, events, anomaly, noticed, scanned, probe, plog>>
    BY <1>2 DEF HealthSave, sink, scans, probes
  <2>2. health' \in [loop : Loop({"save"}), memory : Memory]
    BY <1>0, <2>1 DEF Loop, Asleep
  <2>3. left' \in [Bounded -> Nat] /\ Boot' = Boot
    <3>1. UNCHANGED left \/ Spend("faults")
      BY <1>2 DEF HealthSave
    <3>2. CASE UNCHANGED left
      BY <3>2 DEF TypeOK, Boot
    <3>3. CASE Spend("faults")
      BY <3>3, Spent DEF Bounded
    <3>4. QED
      BY <3>1, <3>2, <3>3
  <2>4. state' \in Memory
    <3>1. state' \in {health.memory, state, Blank}
      BY <1>2 DEF HealthSave
    <3>2. Blank \in Memory
      BY DEF Blank, Memory, Level
    <3>3. QED
      BY <1>0, <3>1, <3>2
  <2>5. runs' \in Seq(Run)
    <3>1. runs' = runs \/ runs' = [runs EXCEPT ![Len(runs)].saved = TRUE]
      BY <1>2 DEF HealthSave
    <3>2. [runs EXCEPT ![Len(runs)].saved = TRUE] \in Seq(Run)
      BY <1>0, LastSaved
    <3>3. QED
      BY <1>0, <3>1, <3>2
  <2>6. TypeOK'
    BY <2>1, <2>2, <2>3, <2>4, <2>5 DEF TypeOK
  <2>7. QED
    BY <1>0, <2>1, <2>3, <2>6, SinkStill
<1>3. CASE HealthFails
  <2>1. /\ UNCHANGED sink
        /\ health' = [health EXCEPT !.loop = Asleep(now + HealthEvery)]
        /\ UNCHANGED <<now, dedup, out, stamped, events, anomaly, noticed, scanned, probe, plog, state, runs>>
    BY <1>3 DEF HealthFails, sink, scans, probes
  <2>2. health' \in [loop : Loop({"save"}), memory : Memory]
    BY <1>0, <2>1 DEF Loop, Asleep
  <2>3. left' \in [Bounded -> Nat] /\ Boot' = Boot
    BY <1>3, Spent DEF HealthFails, Bounded
  <2>4. TypeOK'
    BY <2>1, <2>2, <2>3 DEF TypeOK
  <2>5. QED
    BY <1>0, <2>1, <2>3, <2>4, SinkStill
<1>4. QED
  BY <1>1, <1>2, <1>3 DEF Healths

LEMMA TypesTick ==
  ASSUME TypeOK, SinkInv, Tick
  PROVE  TypeOK' /\ SinkInv' /\ Boot' = Boot
<1>1. /\ now < MaxTime /\ now' = now + 1 /\ UNCHANGED sink
      /\ UNCHANGED <<left, dedup, out, stamped, events, anomaly, noticed, scanned, probe, plog, health, state, runs>>
  BY DEF Tick, sink, scans, probes, healths
<1>2. now \in Nat /\ MaxTime \in Nat /\ now' \in 0..MaxTime
  BY <1>1, AlertingAssumption DEF TypeOK
<1>3. TypeOK' /\ Boot' = Boot
  BY <1>1, <1>2 DEF TypeOK, Boot
<1>4. QED
  BY <1>1, <1>2, <1>3, SinkStill

LEMMA TypesCrash ==
  ASSUME TypeOK, Crash
  PROVE  TypeOK' /\ SinkInv' /\ Boot' = Boot - 1 /\ Boot' \in Nat
<1>1. /\ Spend("crashes") /\ dedup' = [k \in Key |-> Never]
      /\ anomaly' = Scan0(now) /\ probe' = Probe0(now) /\ health' = Health0(now)
      /\ state' \in {state, Blank}
      /\ UNCHANGED <<now, stamped, events, out, plog, runs, noticed, scanned>>
  BY DEF Crash, Unsent
<1>2. left' \in [Bounded -> Nat] /\ Boot' = Boot - 1 /\ Boot' \in Nat
  BY <1>1, Spent DEF Bounded
<1>3. now \in Nat /\ Blank \in Memory
  BY LoopTimes DEF Blank, Memory, Level
<1>4. /\ anomaly' \in [loop : Loop({"scan"}), cutoff : Int, seen : SUBSET Event, there : SUBSET Event]
      /\ probe' \in [loop : Loop({"count"}), ok : BOOLEAN, fails : Nat]
      /\ health' \in [loop : Loop({"save"}), memory : Memory]
  BY <1>1, <1>3 DEF Scan0, Probe0, Health0, Asleep, Loop
<1>5. dedup' \in [Key -> 0..MaxTime \cup {Never}] /\ SinkInv'
  BY <1>1 DEF SinkInv
<1>6. QED
  BY <1>1, <1>2, <1>3, <1>4, <1>5 DEF TypeOK

(* ------------------------- nobody is silenced ---------------------------- *)

LEMMA FlagsKept ==
  ASSUME AlertingInv, [Next]_vars
  PROVE  FlagsNotSilenced'
<1>1. TypeOK /\ SinkInv /\ FlagsNotSilenced
  BY DEF AlertingInv
<1>2. ASSUME noticed' = noticed, out \subseteq out'
      PROVE  FlagsNotSilenced'
  BY <1>1, <1>2 DEF FlagsNotSilenced, Recently
<1>3. CASE ScanNext
  <2>1. PICK e \in Recent :
               /\ noticed' = noticed \cup {[event |-> e, at |-> now, boot |-> Boot]}
               /\ Emit(FlagKey(e.session))
    BY <1>3 DEF ScanNext
  <2>2. now' = now /\ Boot' = Boot
    BY <1>3 DEF ScanNext, Boot
  <2>3. FlagKey(e.session) \in Key
    BY <1>1, KeyForms DEF Recent, Event, TypeOK
  <2>4. /\ out \subseteq out'
        /\ DedupWindow > 0 => \E o \in out' : /\ o.key = FlagKey(e.session) /\ o.boot = Boot
                                              /\ o.at <= now /\ now - o.at < DedupWindow
    BY <1>1, <2>1, <2>2, <2>3, Emitted
  <2>5. ASSUME DedupWindow > 0, NEW n \in noticed'
        PROVE  \E o \in out' : /\ o.key = FlagKey(n.event.session) /\ o.boot = n.boot
                              /\ o.at <= n.at /\ n.at - o.at < DedupWindow
    <3>1. CASE n \in noticed
      BY <1>1, <2>4, <2>5, <3>1 DEF FlagsNotSilenced, Recently
    <3>2. CASE n = [event |-> e, at |-> now, boot |-> Boot]
      BY <2>4, <2>5, <3>2
    <3>3. QED
      BY <2>1, <3>1, <3>2
  <2>6. QED
    BY <2>5 DEF FlagsNotSilenced, Recently
<1>4. CASE ProbeCount \/ HealthRun
  <2>1. noticed' = noticed /\ Boot' = Boot
    BY <1>1, <1>4, TypesProbe, TypesHealth DEF ProbeCount, HealthRun, scans, Probes, Healths
  <2>2. out' = out \/ \E k \in Key : Emit(k)
    BY <1>4, KeyForms DEF ProbeCount, HealthRun, Confirms, sink
  <2>3. QED
    BY <1>2, <2>1, <2>2 DEF Emit, sink
<1>5. CASE \/ Writes
           \/ ScanStart \/ ScanEnd \/ ScanCut \/ Probe \/ ProbeFails \/ HealthFails \/ HealthSave \/ Tick \/ Crash
           \/ UNCHANGED vars
  <2>1. noticed' = noticed /\ out' = out
    <3>1. ASSUME Writes
          PROVE  noticed' = noticed /\ out' = out
      BY <3>1 DEF Writes, Stamped, Appended, sink
    <3>2. ASSUME ScanStart \/ ScanEnd \/ ScanCut
          PROVE  noticed' = noticed /\ out' = out
      BY <3>2 DEF ScanStart, ScanEnd, ScanCut, sink
    <3>3. ASSUME Probe \/ ProbeFails \/ HealthFails \/ HealthSave \/ Tick
          PROVE  noticed' = noticed /\ out' = out
      <4>1. UNCHANGED sink /\ UNCHANGED scans
        BY <3>3, Zenon DEF Probe, ProbeFails, HealthFails, HealthSave, Tick
      <4>2. QED
        BY <4>1 DEF sink, scans
    <3>4. ASSUME Crash \/ UNCHANGED vars
          PROVE  noticed' = noticed /\ out' = out
      BY <3>4 DEF Crash, vars
    <3>5. QED
      BY <1>5, <3>1, <3>2, <3>3, <3>4
  <2>2. QED
    BY <1>2, <2>1
<1>6. QED
  BY <1>3, <1>4, <1>5 DEF Next, Checks

(* ------------------- scans answer for their window ----------------------- *)

LEMMA ScanStill ==
  ASSUME ScanInv, UNCHANGED <<events, anomaly, noticed, scanned>>
  PROVE  ScanInv'
BY DEF ScanInv

\* The scan that ends has seen what was there and is not older than its cutoff.
LEMMA ScanEnds ==
  ASSUME TypeOK, ScanInv, ScanEnd
  PROVE  ScanInv'
<1>1. /\ anomaly' = [anomaly EXCEPT !.loop = Asleep(now + ScanEvery)]
      /\ scanned' = scanned \cup {[event |-> e, cutoff |-> anomaly.cutoff] : e \in anomaly.there}
      /\ Recent = {} /\ UNCHANGED <<events, noticed>>
  BY DEF ScanEnd, ScanSleeps
<1>2. anomaly'.seen = anomaly.seen /\ anomaly'.there = anomaly.there
  BY <1>1 DEF TypeOK
<1>3. ASSUME NEW e \in anomaly.there, e.at >= anomaly.cutoff
      PROVE  \E n \in noticed : n.event = e
  <2>1. e \in anomaly.seen
    BY <1>1, <1>3 DEF ScanInv, Recent
  <2>2. QED
    BY <2>1 DEF ScanInv
<1>4. ASSUME NEW f \in scanned', f.event.at >= f.cutoff
      PROVE  \E n \in noticed' : n.event = f.event
  <2>1. CASE f \in scanned
    BY <1>1, <1>4, <2>1 DEF ScanInv
  <2>2. CASE f \notin scanned
    <3>1. PICK e \in anomaly.there : f = [event |-> e, cutoff |-> anomaly.cutoff]
      BY <1>1, <2>2
    <3>2. f.event = e /\ f.cutoff = anomaly.cutoff
      BY <3>1
    <3>3. QED
      BY <1>1, <1>3, <1>4, <3>2
  <2>3. QED
    BY <2>1, <2>2
<1>5. QED
  BY <1>1, <1>2, <1>4 DEF ScanInv

LEMMA ScansKept ==
  ASSUME TypeOK, ScanInv, Scans
  PROVE  ScanInv'
<1>1. CASE ScanStart
  <2>1. /\ anomaly' = [anomaly EXCEPT !.loop.at = "scan", !.cutoff = now - Window, !.there = events]
        /\ UNCHANGED <<events, noticed, scanned>>
    BY <1>1 DEF ScanStart
  <2>2. anomaly'.there = events /\ anomaly'.seen = anomaly.seen
    BY <2>1 DEF TypeOK
  <2>3. QED
    BY <2>1, <2>2 DEF ScanInv
<1>2. CASE ScanNext
  <2>1. PICK e \in Recent : /\ anomaly' = [anomaly EXCEPT !.seen = @ \cup {e}]
                            /\ noticed' = noticed \cup {[event |-> e, at |-> now, boot |-> Boot]}
    BY <1>2 DEF ScanNext
  <2>2. UNCHANGED <<events, scanned>>
    BY <1>2 DEF ScanNext
  <2>3. anomaly'.there = anomaly.there /\ anomaly'.seen = anomaly.seen \cup {e}
    BY <2>1 DEF TypeOK
  <2>4. [event |-> e, at |-> now, boot |-> Boot].event = e
    OBVIOUS
  <2>5. \A x \in anomaly'.seen : \E n \in noticed' : n.event = x
    BY <2>1, <2>3, <2>4 DEF ScanInv
  <2>6. QED
    BY <2>1, <2>2, <2>3, <2>5 DEF ScanInv
<1>3. CASE ScanCut
  <2>1. /\ anomaly' = [anomaly EXCEPT !.loop = Asleep(now + ScanEvery)]
        /\ UNCHANGED <<events, noticed, scanned>>
    BY <1>3 DEF ScanCut, ScanSleeps
  <2>2. anomaly'.there = anomaly.there /\ anomaly'.seen = anomaly.seen
    BY <2>1 DEF TypeOK
  <2>3. QED
    BY <2>1, <2>2 DEF ScanInv
<1>4. QED
  BY <1>1, <1>2, <1>3, ScanEnds DEF Scans

LEMMA ScanKept ==
  ASSUME AlertingInv, [Next]_vars
  PROVE  ScanInv'
<1>1. TypeOK /\ ScanInv
  BY DEF AlertingInv
<1>2. CASE Probes \/ Healths \/ Tick \/ UNCHANGED vars
  <2>1. UNCHANGED scans
    <3>1. ASSUME Probes \/ Healths \/ Tick PROVE UNCHANGED scans
      BY <3>1, Zenon DEF Probes, Healths, Probe, ProbeFails, ProbeCount, HealthRun, HealthFails,
                         HealthSave, Tick
    <3>2. ASSUME UNCHANGED vars PROVE UNCHANGED scans
      BY <3>2 DEF vars, scans
    <3>3. QED
      BY <1>2, <3>1, <3>2
  <2>2. QED
    BY <1>1, <2>1, ScanStill DEF scans
<1>3. CASE Crash
  <2>1. anomaly' = Scan0(now) /\ UNCHANGED <<events, noticed, scanned>>
    BY <1>3 DEF Crash
  <2>2. anomaly'.there = {} /\ anomaly'.seen = {}
    BY <2>1 DEF Scan0
  <2>3. QED
    BY <1>1, <2>1, <2>2 DEF ScanInv
<1>4. CASE Writes
  <2>1. events \subseteq events' /\ UNCHANGED <<anomaly, noticed, scanned>>
    BY <1>4 DEF Writes, Stamped, Appended
  <2>2. QED
    BY <1>1, <2>1 DEF ScanInv
<1>5. QED
  BY <1>1, <1>2, <1>3, <1>4, ScansKept DEF Next, Checks, Probes, Scans, Healths

(* ------------------------------- outages --------------------------------- *)

LEMMA SeqItem ==
  ASSUME NEW R, NEW q \in Seq(R), NEW i \in 1..Len(q)
  PROVE  q[i] \in R
OBVIOUS

LEMMA SeqDomain ==
  ASSUME NEW R, NEW q \in Seq(R)
  PROVE  DOMAIN q = 1..Len(q) /\ Len(q) \in Nat
OBVIOUS

LEMMA ProbeRecord ==
  ASSUME TypeOK, NEW i \in 1..Len(plog)
  PROVE  plog[i].ok \in BOOLEAN /\ plog[i].at \in Nat /\ plog[i].boot \in Nat
<1>1. plog \in Seq([ok : BOOLEAN, at : 0..MaxTime, boot : Nat])
  BY DEF TypeOK
<1>2. plog[i] \in [ok : BOOLEAN, at : 0..MaxTime, boot : Nat]
  BY <1>1, SeqItem
<1>3. QED
  BY <1>2, AlertingAssumption

\* A step that leaves the probe and its log alone.
LEMMA ProbeStill ==
  ASSUME TypeOK, ProbeInv, UNCHANGED <<probe, plog>>, Boot' = Boot,
         now' \in Nat, now' >= now, out \subseteq out'
  PROVE  ProbeInv'
<1>1. now \in Nat /\ \A i \in 1..Len(plog) : plog[i].at \in Nat
  BY LoopTimes, ProbeRecord
<1>2. OnRecord'
  BY <1>1 DEF ProbeInv, OnRecord
<1>3. FailsCounted'
  BY DEF ProbeInv, FailsCounted, Counted, Failed
<1>4. OutageOut'
  BY DEF ProbeInv, OutageOut
<1>5. QED
  BY <1>2, <1>3, <1>4 DEF ProbeInv

LEMMA ProbeAppends ==
  ASSUME TypeOK, SinkInv, ProbeInv, Probe
  PROVE  ProbeInv'
<1>1. PICK ok \in BOOLEAN :
        /\ plog' = Append(plog, [ok |-> ok, at |-> now, boot |-> Boot])
        /\ probe' = [probe EXCEPT !.loop.at = "count", !.ok = ok]
  BY Zenon DEF Probe
<1>2. Boot' = Boot /\ now' = now /\ probe.loop.at = "asleep" /\ now \in Nat /\ Boot \in Nat
  <2>1. now' = now /\ Begin(probe.loop)
    BY DEF Probe
  <2>2. Boot' = Boot
    BY TypesProbe DEF Probes
  <2>3. QED
    BY <2>1, <2>2, LoopTimes, BootNat DEF Begin
<1>3. /\ probe \in [loop : Loop({"count"}), ok : BOOLEAN, fails : Nat]
      /\ plog \in Seq([ok : BOOLEAN, at : 0..MaxTime, boot : Nat])
  BY DEF TypeOK
<1> DEFINE L == Len(plog)
<1>4. /\ L \in Nat /\ Len(plog') = L + 1
      /\ \A i \in 1..L : plog'[i] = plog[i]
      /\ plog'[L + 1] = [ok |-> ok, at |-> now, boot |-> Boot]
  BY <1>1, <1>3
<1>5. probe'.loop.at = "count" /\ probe'.ok = ok /\ probe'.fails = probe.fails
  BY <1>1, <1>3 DEF Loop
<1>6. Counted = L /\ Counted' = L
  BY <1>2, <1>4, <1>5 DEF Counted
<1>7. OnRecord'
  BY <1>2, <1>4, <1>5 DEF ProbeInv, OnRecord
<1>8. \A i \in 1..L : Failed(i)' <=> Failed(i)
  BY <1>2, <1>4 DEF Failed
<1>9. FailsCounted'
  BY <1>4, <1>5, <1>6, <1>8 DEF ProbeInv, FailsCounted
<1>10. OutageOut'
  BY <1>5 DEF OutageOut
<1>11. QED
  BY <1>7, <1>9, <1>10 DEF ProbeInv

LEMMA ProbeCounts ==
  ASSUME TypeOK, SinkInv, ProbeInv, ProbeCount
  PROVE  ProbeInv'
<1> DEFINE n == IF probe.ok THEN 0 ELSE probe.fails + 1
           L == Len(plog)
<1>1. /\ probe.loop.at = "count" /\ UNCHANGED <<now, plog>> /\ Boot' = Boot
      /\ probe' = [probe EXCEPT !.loop = Asleep(now + ProbeEvery), !.fails = n]
      /\ IF Confirmed(n) THEN Emit([of |-> "down"]) ELSE UNCHANGED sink
  BY DEF ProbeCount, Boot
<1>2. probe \in [loop : Loop({"count"}), ok : BOOLEAN, fails : Nat] /\ now \in Nat /\ Boot \in Nat
  BY LoopTimes, BootNat DEF TypeOK
<1>3. n \in Nat
  BY <1>2
<1>4. probe'.loop.at = "asleep" /\ probe'.fails = n
  BY <1>1, <1>2, <1>3 DEF Asleep
<1>5. /\ L \in Nat \ {0} /\ plog[L].ok = probe.ok /\ plog[L].boot = Boot
      /\ plog[L].at <= now /\ plog[L].at \in Nat
      /\ \A i \in 1..L : plog[i].at <= now /\ plog[i].boot >= Boot
  <2>1. L \in Nat
    BY DEF TypeOK
  <2>2. L > 0
    BY <1>1 DEF ProbeInv, OnRecord
  <2>3. L \in 1..L
    BY <2>1, <2>2
  <2>4. QED
    BY <1>1, <2>1, <2>2, <2>3, ProbeRecord DEF ProbeInv, OnRecord
<1>6. Counted = L - 1 /\ Counted' = L
  BY <1>1, <1>4 DEF Counted
<1>7. \A i \in 1..L : Failed(i)' <=> Failed(i)
  BY <1>1 DEF Failed
<1>8. OnRecord'
  BY <1>1, <1>4, <1>5 DEF OnRecord
<1>9. ASSUME NEW m \in 1..L, \A i \in (L + 1 - m)..L : Failed(i)
      PROVE  n >= m
  <2>1. Failed(L) /\ ~probe.ok
    BY <1>5, <1>9 DEF Failed
  <2>2. n = probe.fails + 1
    BY <2>1
  <2>3. CASE m = 1
    BY <1>2, <2>2, <2>3
  <2>4. CASE m > 1
    <3>1. m - 1 \in 1..(L - 1)
      BY <1>5, <2>4
    <3>2. \A i \in (L - (m - 1))..(L - 1) : Failed(i)
      BY <1>5, <1>9
    <3>3. probe.fails >= m - 1
      BY <1>5, <1>6, <3>1, <3>2 DEF ProbeInv, FailsCounted
    <3>4. QED
      BY <1>2, <1>5, <2>2, <3>3
  <2>5. QED
    BY <1>5, <2>3, <2>4
<1>10. FailsCounted'
  BY <1>4, <1>5, <1>6, <1>7, <1>9 DEF FailsCounted
<1>11. OutageOut'
  <2>1. SUFFICES ASSUME DedupWindow > 0, n >= FailConfirm
                 PROVE  \E o \in out' : /\ o.key = [of |-> "down"] /\ o.boot = Boot
                                       /\ o.at > plog[L].at - DedupWindow
    BY <1>1, <1>4 DEF OutageOut
  <2>2. Emit([of |-> "down"])
    BY <1>1, <2>1 DEF Confirmed
  <2>3. PICK o \in out' : /\ o.key = [of |-> "down"] /\ o.boot = Boot
                         /\ o.at <= now /\ now - o.at < DedupWindow
    BY <1>1, <2>1, <2>2, Emitted, KeyForms
  <2>4. o.at \in Nat
    BY <1>1, <2>2, Emitted, KeyForms, AlertingAssumption
  <2>5. QED
    BY <1>2, <1>5, <2>3, <2>4, AlertingAssumption
<1>12. QED
  BY <1>8, <1>10, <1>11 DEF ProbeInv

LEMMA ProbeMisses ==
  ASSUME TypeOK, SinkInv, ProbeInv, ProbeFails
  PROVE  ProbeInv'
<1>1. /\ probe.loop.at = "asleep" /\ Boot' = Boot /\ UNCHANGED <<now, out, plog>>
      /\ probe' = [probe EXCEPT !.loop = Asleep(now + ProbeEvery)]
  BY TypesProbe DEF ProbeFails, Begin, Probes, sink
<1>2. probe'.loop.at = "asleep" /\ probe'.fails = probe.fails /\ probe'.ok = probe.ok
  BY <1>1 DEF TypeOK, Asleep
<1>3. OnRecord' /\ OutageOut'
  BY <1>1, <1>2 DEF ProbeInv, OnRecord, OutageOut
<1>4. FailsCounted'
  BY <1>1, <1>2 DEF ProbeInv, FailsCounted, Counted, Failed
<1>5. QED
  BY <1>3, <1>4 DEF ProbeInv

\* After a restart no record is of this boot yet.
LEMMA ProbeCrash ==
  ASSUME TypeOK, ProbeInv, Crash
  PROVE  ProbeInv'
<1>1. Boot' = Boot - 1 /\ Boot \in Nat /\ now' = now /\ plog' = plog /\ probe' = Probe0(now)
  BY TypesCrash, BootNat DEF Crash
<1>2. probe'.loop.at = "asleep" /\ probe'.fails = 0
  BY <1>1 DEF Probe0, Asleep
<1>3. Len(plog) \in Nat /\ \A i \in 1..Len(plog) : plog[i].boot \in Nat /\ plog[i].boot >= Boot
  <2>1. Len(plog) \in Nat
    BY DEF TypeOK
  <2>2. \A i \in 1..Len(plog) : plog[i].boot >= Boot
    BY DEF ProbeInv, OnRecord
  <2>3. QED
    BY <2>1, <2>2, ProbeRecord
<1>4. OnRecord'
  BY <1>1, <1>2, <1>3 DEF ProbeInv, OnRecord
<1>5. \A i \in 1..Len(plog) : ~Failed(i)'
  BY <1>1, <1>3 DEF Failed
<1>6. FailsCounted'
  <2>1. Counted' = Len(plog)
    BY <1>1, <1>2 DEF Counted
  <2>2. \A m \in 1..Len(plog) : Len(plog) \in (Len(plog) + 1 - m)..Len(plog) /\ Len(plog) \in 1..Len(plog)
    BY <1>3
  <2>3. QED
    BY <1>5, <2>1, <2>2 DEF FailsCounted
<1>7. OutageOut'
  BY <1>2, AlertingAssumption DEF OutageOut
<1>8. QED
  BY <1>4, <1>6, <1>7 DEF ProbeInv

LEMMA ProbeKept ==
  ASSUME AlertingInv, [Next]_vars
  PROVE  ProbeInv'
<1>1. TypeOK /\ SinkInv /\ ProbeInv /\ now \in Nat
  BY LoopTimes DEF AlertingInv
<1>2. CASE Probes
  BY <1>1, <1>2, ProbeAppends, ProbeCounts, ProbeMisses DEF Probes
<1>3. CASE Crash
  BY <1>1, <1>3, ProbeCrash
<1>4. CASE Tick \/ UNCHANGED vars
  <2>1. /\ UNCHANGED <<probe, plog>> /\ Boot' = Boot /\ out \subseteq out'
        /\ now' = now \/ now' = now + 1
    BY <1>4 DEF Tick, vars, probes, sink, Boot
  <2>2. now' \in Nat /\ now' >= now
    BY <1>1, <2>1
  <2>3. QED
    BY <1>1, <2>1, <2>2, ProbeStill
<1>5. ASSUME UNCHANGED probes, now' = now, Boot' = Boot, out' = out \/ \E k \in Key : Emit(k)
      PROVE  ProbeInv'
  <2>1. UNCHANGED <<probe, plog>> /\ now' \in Nat /\ now' >= now
    BY <1>1, <1>5 DEF probes
  <2>2. out \subseteq out'
    BY <1>5 DEF Emit, sink
  <2>3. QED
    BY <1>1, <1>5, <2>1, <2>2, ProbeStill
<1>6. CASE Writes
  <2>1. Boot' = Boot /\ UNCHANGED probes /\ now' = now /\ out' = out
    BY <1>1, <1>6, TypesWrites DEF Writes, Stamped, Appended, sink
  <2>2. QED
    BY <1>5, <2>1
<1>7. CASE Scans
  <2>1. Boot' = Boot
    BY <1>1, <1>7, TypesScan
  <2>2. CASE ScanStart \/ ScanEnd \/ ScanCut
    BY <1>5, <2>1, <2>2 DEF ScanStart, ScanEnd, ScanCut, sink
  <2>3. CASE ScanNext
    <3>1. PICK e \in Recent : Emit(FlagKey(e.session))
      BY <2>3 DEF ScanNext
    <3>2. FlagKey(e.session) \in Key
      BY <1>1, KeyForms DEF Recent, Event, TypeOK
    <3>3. UNCHANGED probes /\ now' = now
      BY <2>3 DEF ScanNext
    <3>4. QED
      BY <1>5, <2>1, <3>1, <3>2, <3>3
  <2>4. QED
    BY <1>7, <2>2, <2>3 DEF Scans
<1>8. CASE Healths
  <2>1. Boot' = Boot
    BY <1>1, <1>8, TypesHealth
  <2>2. CASE HealthFails \/ HealthSave
    BY <1>5, <2>1, <2>2 DEF HealthFails, HealthSave, sink
  <2>3. CASE HealthRun
    <3>1. UNCHANGED probes /\ now' = now
      BY <2>3 DEF HealthRun
    <3>2. out' = out \/ \E k \in Key : Emit(k)
      BY <2>3, KeyForms DEF HealthRun, Confirms, sink
    <3>3. QED
      BY <1>5, <2>1, <3>1, <3>2
  <2>4. QED
    BY <1>8, <2>2, <2>3 DEF Healths
<1>9. QED
  BY <1>2, <1>3, <1>4, <1>6, <1>7, <1>8 DEF Next, Checks, Probes, Scans, Healths

(* -------------------------------- health --------------------------------- *)

LEMMA HealthStill ==
  ASSUME HealthInv, UNCHANGED <<health, state, runs>>
  PROVE  HealthInv'
BY DEF HealthInv, Carried, Pending, Due, Streak

LEMMA RunItem ==
  ASSUME TypeOK, NEW i \in 1..Len(runs)
  PROVE  runs[i].level \in Level /\ runs[i].saved \in BOOLEAN
<1>1. runs \in Seq([level : Level, alert : BOOLEAN, saved : BOOLEAN])
  BY DEF TypeOK
<1>2. runs[i] \in [level : Level, alert : BOOLEAN, saved : BOOLEAN]
  BY <1>1, SeqItem
<1>3. QED
  BY <1>2

LEMMA HealthRuns ==
  ASSUME TypeOK, HealthInv, HealthRun
  PROVE  HealthInv'
<1> DEFINE Run == [level : Level, alert : BOOLEAN, saved : BOOLEAN]
           L == Len(runs)
<1>1. PICK level \in Assessed :
        /\ health' = [loop |-> [health.loop EXCEPT !.at = "save"], memory |-> Remember(state, level)]
        /\ runs' = Append(runs, [level |-> level, alert |-> Confirms(state, level), saved |-> FALSE])
  BY DEF HealthRun
<1> level \in Level
  BY DEF Assessed
<1>2. health.loop.at = "asleep" /\ state' = state
  BY DEF HealthRun, Begin
<1>3. runs \in Seq(Run) /\ health \in [loop : Loop({"save"}), memory : Memory]
  BY DEF TypeOK
<1> HIDE DEF Run
<1>4. /\ L \in Nat /\ Len(runs') = L + 1
      /\ \A i \in 1..L : runs'[i] = runs[i]
      /\ runs'[L + 1] = [level |-> level, alert |-> Confirms(state, level), saved |-> FALSE]
  BY <1>1, <1>3
<1>5. health'.loop.at = "save" /\ health'.memory = Remember(state, level)
  BY <1>1, <1>3 DEF Loop
<1>6. Due = L /\ Due' = L
  BY <1>2, <1>4, <1>5 DEF Due
<1>7. /\ runs'[Len(runs')].level = level /\ ~runs'[Len(runs')].saved /\ Len(runs') > 0
      /\ runs'[Len(runs')].alert = Confirms(state, level)
  BY <1>4
<1>8. Carried'
  <2>1. Confirms(state, level)' = Confirms(state, level) /\ Remember(state, level)' = Remember(state, level)
    BY <1>2 DEF Confirms, Times, Remember
  <2>2. QED
    BY <1>2, <1>5, <1>7, <2>1, Zenon DEF Carried
<1>9. \A n \in 1..L, l \in Level : Streak(n, l)' => Streak(n, l)
  BY <1>4, <1>6 DEF Streak
<1>10. Pending'
  BY <1>2, <1>6, <1>9 DEF HealthInv, Pending
<1>11. QED
  BY <1>8, <1>10 DEF HealthInv

\* A run that was not saved ends every streak.
LEMMA Unsaved ==
  ASSUME Len(runs) \in Nat \ {0}, ~runs[Len(runs)].saved, runs' = runs, health'.loop.at = "asleep"
  PROVE  HealthInv'
<1>1. Due' = Len(runs)
  BY DEF Due
<1>2. \A n \in 1..Len(runs) : Len(runs) \in (Len(runs) + 1 - n)..Len(runs)
  OBVIOUS
<1>3. \A n \in 1..Len(runs), l \in Level : ~Streak(n, l)'
  BY <1>1, <1>2 DEF Streak
<1>4. Pending'
  BY <1>1, <1>3 DEF Pending
<1>5. QED
  BY <1>4 DEF HealthInv, Carried

\* What Remember makes of a level.
LEMMA Remembered ==
  ASSUME NEW m \in Memory, NEW level \in Level
  PROVE  LET r == Remember(m, level) IN
         \/ r.alerted = level
         \/ /\ Rank[level] > Rank[m.alerted] /\ r.alerted = m.alerted
            /\ r.pending = level /\ r.times = Times(m, level) /\ ~Confirms(m, level)
<1>1. m.alerted \in Level
  BY DEF Memory
<1>2. Rank[level] \in Nat /\ Rank[m.alerted] \in Nat
  BY <1>1, Ranks
<1>3. CASE Confirms(m, level) \/ Rank[level] < Rank[m.alerted]
  BY <1>3 DEF Remember, Blank
<1>4. CASE ~Confirms(m, level) /\ Rank[level] > Rank[m.alerted]
  BY <1>2, <1>4 DEF Remember
<1>5. CASE ~Confirms(m, level) /\ Rank[level] = Rank[m.alerted]
  <2>1. level = m.alerted
    BY <1>1, <1>5, Ranks
  <2>2. QED
    BY <1>2, <1>5, <2>1 DEF Remember, Blank
<1>6. QED
  BY <1>2, <1>3, <1>4, <1>5

\* The save marks the last run and nothing else.
LEMMA RunsMarked ==
  ASSUME TypeOK, Len(runs) \in Nat \ {0}, runs' = [runs EXCEPT ![Len(runs)].saved = TRUE]
  PROVE  /\ Len(runs') = Len(runs)
         /\ \A i \in 1..Len(runs) : runs'[i].level = runs[i].level /\ runs'[i].alert = runs[i].alert
         /\ \A i \in 1..(Len(runs) - 1) : runs'[i].saved = runs[i].saved
<1> DEFINE L == Len(runs)
<1>1. runs \in Seq([level : Level, alert : BOOLEAN, saved : BOOLEAN])
  BY DEF TypeOK
<1>2. DOMAIN runs = 1..L /\ DOMAIN runs' = 1..L
  BY <1>1, SeqDomain
<1>3. Len(runs') = L
  <2>1. runs' \in Seq([level : Level, alert : BOOLEAN, saved : BOOLEAN])
    BY <1>1, LastSaved
  <2>2. DOMAIN runs' = 1..Len(runs') /\ Len(runs') \in Nat
    BY <2>1, SeqDomain
  <2>3. QED
    BY <1>2, <2>2
<1>4. runs[L] \in [level : Level, alert : BOOLEAN, saved : BOOLEAN]
  <2>1. L \in 1..Len(runs)
    OBVIOUS
  <2>2. QED
    BY <1>1, <2>1, SeqItem
<1>5. runs'[L] = [runs[L] EXCEPT !.saved = TRUE] /\ \A i \in 1..(L - 1) : runs'[i] = runs[i]
  <2>1. L \in 1..L /\ \A i \in 1..(L - 1) : i \in 1..L /\ i # L
    OBVIOUS
  <2>2. runs' = [runs EXCEPT ![L] = [runs[L] EXCEPT !.saved = TRUE]]
    OBVIOUS
  <2> HIDE DEF L
  <2>3. QED
    BY <1>2, <2>1, <2>2
<1>6. runs'[L].level = runs[L].level /\ runs'[L].alert = runs[L].alert
  BY <1>4, <1>5
<1>7. \A i \in 1..L : i = L \/ i \in 1..(L - 1)
  OBVIOUS
<1>8. QED
  BY <1>3, <1>5, <1>6, <1>7

LEMMA HealthSaves ==
  ASSUME TypeOK, HealthInv, HealthSave
  PROVE  HealthInv'
<1> DEFINE L == Len(runs)
           last == runs[L].level
<1>1. /\ health.loop.at = "save"
      /\ health' = [health EXCEPT !.loop = Asleep(now + HealthEvery)]
  BY DEF HealthSave
<1>2. health'.loop.at = "asleep"
  BY <1>1 DEF TypeOK, Asleep
<1>3. L \in Nat \ {0} /\ ~runs[L].saved /\ health.memory = Remember(state, last)
  <2>1. L \in Nat
    BY DEF TypeOK
  <2>2. QED
    BY <1>1, <2>1 DEF HealthInv, Carried
<1>4. CASE UNCHANGED runs
  BY <1>2, <1>3, <1>4, Unsaved
<1>5. CASE state' = health.memory /\ runs' = [runs EXCEPT ![Len(runs)].saved = TRUE]
  <2>1. state \in Memory /\ last \in Level
    BY <1>3, RunItem DEF TypeOK
  <2>2. /\ Len(runs') = L
        /\ \A i \in 1..L : runs'[i].level = runs[i].level
        /\ \A i \in 1..(L - 1) : runs'[i].saved = runs[i].saved
    BY <1>3, <1>5, RunsMarked
  <2>3. Due = L - 1 /\ Due' = L
    BY <1>1, <1>2, <2>2 DEF Due
  <2>4. ASSUME NEW l \in Level, NEW n \in 1..L, Streak(n, l)'
        PROVE  \/ state'.alerted = l
               \/ /\ Rank[l] > Rank[state'.alerted]
                  /\ state'.pending = l /\ state'.times >= n
                  /\ l \in Alerted => state'.times < ConfirmWindows
    <3>1. l = last
      BY <1>3, <2>2, <2>3, <2>4 DEF Streak
    <3>2. state' = Remember(state, l)
      BY <1>3, <1>5, <3>1
    <3>3. CASE state'.alerted = l
      BY <3>3
    <3>4. CASE /\ Rank[l] > Rank[state.alerted] /\ state'.alerted = state.alerted
               /\ state'.pending = l /\ state'.times = Times(state, l) /\ ~Confirms(state, l)
      <4>1. Times(state, l) \in Nat /\ Times(state, l) >= 1 /\ state.times \in Nat
        BY <2>1, MemoryTyped DEF Times, Memory
      <4>2. l \in Alerted => Times(state, l) < ConfirmWindows
        BY <3>4, <4>1, AlertingAssumption DEF Confirms
      <4>3. Times(state, l) >= n
        <5>1. CASE n = 1
          BY <4>1, <5>1
        <5>2. CASE n > 1
          <6>1. n - 1 \in 1..Due
            BY <1>3, <2>3, <5>2
          <6>2. Streak(n - 1, l)
            BY <1>3, <2>2, <2>3, <2>4, <5>2 DEF Streak
          <6>3. state.alerted # l
            BY <2>1, <3>4, Ranks
          <6>4. state.pending = l /\ state.times >= n - 1
            BY <6>1, <6>2, <6>3 DEF HealthInv, Pending
          <6>5. Times(state, l) = state.times + 1
            BY <6>4 DEF Times
          <6>6. QED
            BY <4>1, <6>4, <6>5
        <5>3. QED
          BY <5>1, <5>2
      <4>4. QED
        BY <3>4, <4>2, <4>3
    <3>5. QED
      BY <2>1, <3>2, <3>3, <3>4, Remembered
  <2>5. Pending'
    BY <2>3, <2>4 DEF Pending
  <2>6. QED
    BY <1>2, <2>5 DEF HealthInv, Carried
<1>6. QED
  BY <1>4, <1>5 DEF HealthSave

LEMMA HealthMisses ==
  ASSUME TypeOK, HealthInv, HealthFails
  PROVE  HealthInv'
<1>1. health.loop.at = "asleep" /\ UNCHANGED <<state, runs>>
      /\ health' = [health EXCEPT !.loop = Asleep(now + HealthEvery)]
  BY DEF HealthFails, Begin
<1>2. health'.loop.at = "asleep"
  BY <1>1 DEF TypeOK, Asleep
<1>3. QED
  BY <1>1, <1>2 DEF HealthInv, Carried, Pending, Due, Streak

LEMMA HealthCrash ==
  ASSUME TypeOK, HealthInv, Crash
  PROVE  HealthInv'
<1>1. health' = Health0(now) /\ runs' = runs
      /\ (health.loop.at # "save" => state' = state)
  BY DEF Crash
<1>2. health'.loop.at = "asleep" /\ Len(runs) \in Nat
  BY <1>1 DEF Health0, Asleep, TypeOK
<1>3. CASE health.loop.at = "save"
  BY <1>1, <1>2, <1>3, Unsaved DEF HealthInv, Carried
<1>4. CASE health.loop.at # "save"
  BY <1>1, <1>2, <1>4 DEF HealthInv, Carried, Pending, Due, Streak
<1>5. QED
  BY <1>3, <1>4

LEMMA HealthKept ==
  ASSUME AlertingInv, [Next]_vars
  PROVE  HealthInv'
<1>1. TypeOK /\ HealthInv
  BY DEF AlertingInv
<1>2. CASE Writes \/ ScanStart \/ ScanNext \/ ScanEnd \/ ScanCut \/ Tick
  <2>1. UNCHANGED healths
    BY <1>2, Zenon DEF Writes, Stamped, Appended, ScanStart, ScanNext, ScanEnd, ScanCut, Tick
  <2>2. QED
    BY <1>1, <2>1, HealthStill DEF healths
<1>3. CASE Probe \/ ProbeFails \/ ProbeCount
  <2>1. UNCHANGED healths
    BY <1>3, Zenon DEF Probe, ProbeFails, ProbeCount
  <2>2. QED
    BY <1>1, <2>1, HealthStill DEF healths
<1>4. CASE UNCHANGED vars
  BY <1>1, <1>4, HealthStill DEF vars
<1>5. QED
  BY <1>1, <1>2, <1>3, <1>4, HealthRuns, HealthMisses, HealthSaves, HealthCrash DEF Next, Checks

LEMMA TypesKept ==
  ASSUME AlertingInv, [Next]_vars
  PROVE  TypeOK' /\ SinkInv'
<1>1. TypeOK /\ SinkInv
  BY DEF AlertingInv
<1>2. CASE UNCHANGED vars
  <2>1. TypeOK'
    BY <1>1, <1>2 DEF vars, TypeOK
  <2>2. SinkInv'
    BY <1>1, <1>2 DEF vars, SinkInv, Out, Boot
  <2>3. QED
    BY <2>1, <2>2
<1>3. QED
  BY <1>1, <1>2, TypesWrites, TypesScan, TypesProbe, TypesHealth, TypesTick, TypesCrash
     DEF Next, Checks, Scans, Probes, Healths

(* --------------------------- confirmed alerts ---------------------------- *)

\* HealthConfirmed of one run.
ConfirmedAt(rs, i) ==
  /\ (\A j \in RunsBefore(i) : rs[j].saved) =>
       /\ i >= ConfirmWindows
       /\ \A j \in RunsBefore(i) : rs[j].level = rs[i].level
  /\ \A h \in 1..(i - 1) :
       /\ rs[h].alert /\ rs[h].level = rs[i].level
       /\ \A j \in h..(i - 1) : rs[j].saved
       => \E j \in h..(i - 1) : Rank[rs[j].level] < Rank[rs[i].level]

LEMMA ByRun == HealthConfirmed <=> \A i \in 1..Len(runs) : runs[i].alert => ConfirmedAt(runs, i)
BY DEF HealthConfirmed, ConfirmedAt

\* What is said of a run does not look past it, nor at whether it was saved itself.
Alike(rs, qs, n) ==
  /\ \A j \in 1..n : qs[j].level = rs[j].level /\ qs[j].alert = rs[j].alert
  /\ \A j \in 1..(n - 1) : qs[j].saved = rs[j].saved

LEMMA ConfirmedSame ==
  ASSUME NEW rs, NEW qs, NEW n \in Nat, NEW i \in 1..n, ConfirmedAt(rs, i), Alike(rs, qs, n)
  PROVE  ConfirmedAt(qs, i)
<1>0. /\ \A j \in 1..n : qs[j].level = rs[j].level /\ qs[j].alert = rs[j].alert
      /\ \A j \in 1..(n - 1) : qs[j].saved = rs[j].saved
  BY DEF Alike
<1>1. /\ i \in 1..n /\ \A j \in 1..(i - 1) : j \in 1..n /\ j \in 1..(n - 1)
      /\ RunsBefore(i) \subseteq 1..(i - 1) /\ \A h \in 1..(i - 1) : h..(i - 1) \subseteq 1..(i - 1)
  BY DEF RunsBefore
<1>2. ASSUME \A j \in RunsBefore(i) : qs[j].saved
      PROVE  i >= ConfirmWindows /\ \A j \in RunsBefore(i) : qs[j].level = qs[i].level
  <2>1. \A j \in RunsBefore(i) : rs[j].saved
    BY <1>0, <1>1, <1>2
  <2>2. i >= ConfirmWindows /\ \A j \in RunsBefore(i) : rs[j].level = rs[i].level
    BY <2>1 DEF ConfirmedAt
  <2>3. QED
    BY <1>0, <1>1, <2>2
<1>3. ASSUME NEW h \in 1..(i - 1), qs[h].alert /\ qs[h].level = qs[i].level,
             \A j \in h..(i - 1) : qs[j].saved
      PROVE  \E j \in h..(i - 1) : Rank[qs[j].level] < Rank[qs[i].level]
  <2>1. rs[h].alert /\ rs[h].level = rs[i].level
    BY <1>0, <1>1, <1>3
  <2>2. \A j \in h..(i - 1) : rs[j].saved
    BY <1>0, <1>1, <1>3
  <2>3. PICK j \in h..(i - 1) : Rank[rs[j].level] < Rank[rs[i].level]
    BY <2>1, <2>2 DEF ConfirmedAt
  <2>4. qs[j].level = rs[j].level /\ qs[i].level = rs[i].level
    BY <1>0, <1>1
  <2>5. QED
    BY <2>3, <2>4
<1>4. QED
  BY <1>2, <1>3 DEF ConfirmedAt

LEMMA AlertsStill ==
  ASSUME AlertsInv, UNCHANGED <<state, runs>>, Due' = Due
  PROVE  AlertsInv'
<1>1. Backed' /\ Marked'
  BY DEF AlertsInv, Backed, Marked
<1>2. HealthConfirmed'
  BY DEF AlertsInv, HealthConfirmed
<1>3. QED
  BY <1>1, <1>2 DEF AlertsInv

\* The run that alerts is the last of a streak, and tops the watermark.
LEMMA AlertsRun ==
  ASSUME TypeOK, HealthInv, AlertsInv, HealthRun
  PROVE  AlertsInv'
<1> DEFINE L == Len(runs)
<1>1. PICK level \in Assessed :
        /\ health' = [loop |-> [health.loop EXCEPT !.at = "save"], memory |-> Remember(state, level)]
        /\ runs' = Append(runs, [level |-> level, alert |-> Confirms(state, level), saved |-> FALSE])
  BY DEF HealthRun
<1> level \in Level
  BY DEF Assessed
<1>2. health.loop.at = "asleep" /\ state' = state /\ state \in Memory
  BY DEF HealthRun, Begin, TypeOK
<1>3. /\ L \in Nat /\ Len(runs') = L + 1
      /\ \A i \in 1..L : runs'[i] = runs[i]
      /\ runs'[L + 1] = [level |-> level, alert |-> Confirms(state, level), saved |-> FALSE]
  BY <1>1 DEF TypeOK
<1>4. health'.loop.at = "save"
  BY <1>1 DEF TypeOK, Loop
<1>5. Due = L /\ Due' = L
  BY <1>2, <1>3, <1>4 DEF Due
<1>6. Backed'
  <2>1. SUFFICES ASSUME NEW n \in 1..state.times, \A j \in 1..L : j + n > L => runs'[j].saved
                 PROVE  /\ n <= L
                        /\ \A j \in 1..L : j + n > L => runs'[j].level = state.pending
    BY <1>2, <1>5, Zenon DEF Backed
  <2>2. \A j \in 1..L : j + n > L => runs[j].saved
    BY <1>3, <2>1
  <2>3. n <= L /\ \A j \in 1..L : j + n > L => runs[j].level = state.pending
    BY <1>5, <2>2 DEF AlertsInv, Backed
  <2>4. QED
    BY <1>3, <2>3
<1>7. Marked'
  <2>1. SUFFICES ASSUME NEW h \in 1..L, runs'[h].alert,
                        \A j \in h..L : runs'[j].saved /\ Rank[runs'[j].level] >= Rank[runs'[h].level]
                 PROVE  Rank[state.alerted] >= Rank[runs'[h].level]
    BY <1>2, <1>5, Zenon DEF Marked
  <2>2. runs[h].alert /\ \A j \in h..L : runs[j].saved /\ Rank[runs[j].level] >= Rank[runs[h].level]
    BY <1>3, <2>1
  <2>3. QED
    BY <1>3, <1>5, <2>2 DEF AlertsInv, Marked
<1>8. ASSUME Confirms(state, level)
      PROVE  ConfirmedAt(runs', L + 1)
  <2>1. /\ Rank[level] > Rank[state.alerted] /\ Times(state, level) >= ConfirmWindows
        /\ state.times \in Nat /\ ConfirmWindows \in Nat \ {0}
        /\ Rank[level] \in Nat /\ Rank[state.alerted] \in Nat
    BY <1>2, <1>8, Ranks, AlertingAssumption DEF Confirms, Memory
  <2>2. RunsBefore(L + 1) = {j \in 1..L : j + (ConfirmWindows - 1) > L}
    BY <1>3, <2>1 DEF RunsBefore
  <2>3. ASSUME \A j \in RunsBefore(L + 1) : runs'[j].saved
        PROVE  /\ L + 1 >= ConfirmWindows
               /\ \A j \in RunsBefore(L + 1) : runs'[j].level = level
    <3>1. CASE ConfirmWindows = 1
      BY <1>3, <2>2, <3>1
    <3>2. CASE ConfirmWindows > 1
      <4>1. state.pending = level /\ ConfirmWindows - 1 \in 1..state.times
        BY <2>1, <3>2 DEF Times
      <4>2. \A j \in 1..L : j + (ConfirmWindows - 1) > L => runs[j].saved
        BY <1>3, <2>2, <2>3
      <4>3. /\ ConfirmWindows - 1 <= L
            /\ \A j \in 1..L : j + (ConfirmWindows - 1) > L => runs[j].level = state.pending
        BY <1>5, <4>1, <4>2 DEF AlertsInv, Backed
      <4>4. QED
        BY <1>3, <2>1, <2>2, <4>1, <4>3
    <3>3. QED
      BY <2>1, <3>1, <3>2
  <2>4. ASSUME NEW h \in 1..L, runs'[h].alert, runs'[h].level = level,
               \A j \in h..L : runs'[j].saved
        PROVE  \E j \in h..L : Rank[runs'[j].level] < Rank[level]
    <3>1. SUFFICES ASSUME \A j \in h..L : ~(Rank[runs'[j].level] < Rank[level]) PROVE FALSE
      OBVIOUS
    <3>2. /\ runs[h].alert /\ runs[h].level = level
          /\ \A j \in h..L : runs[j].saved /\ ~(Rank[runs[j].level] < Rank[level])
      BY <1>3, <2>4, <3>1
    <3>3. \A j \in h..L : Rank[runs[j].level] \in Nat
      <4>1. \A j \in h..L : j \in 1..L
        BY <1>3
      <4>2. QED
        BY <4>1, RunItem, Ranks
    <3>4. \A j \in h..L : runs[j].saved /\ Rank[runs[j].level] >= Rank[runs[h].level]
      BY <2>1, <3>2, <3>3
    <3>5. Rank[state.alerted] >= Rank[level]
      BY <1>5, <3>2, <3>4 DEF AlertsInv, Marked
    <3>6. QED
      BY <2>1, <3>5
  <2>5. runs'[L + 1].level = level /\ (L + 1) - 1 = L
    BY <1>3
  <2>6. QED
    BY <2>3, <2>4, <2>5 DEF ConfirmedAt
<1>9. HealthConfirmed'
  <2>1. SUFFICES ASSUME NEW i \in 1..(L + 1), runs'[i].alert
                 PROVE  ConfirmedAt(runs', i)
    <3>1. (\A i \in 1..Len(runs') : runs'[i].alert => ConfirmedAt(runs', i)) => HealthConfirmed'
      BY DEF HealthConfirmed, ConfirmedAt
    <3>2. QED
      BY <1>3, <3>1
  <2>2. CASE i = L + 1
    BY <1>3, <1>8, <2>1, <2>2
  <2>3. CASE i \in 1..L
    <3>1. runs[i].alert /\ ConfirmedAt(runs, i)
      BY <1>3, <2>1, <2>3, ByRun DEF AlertsInv
    <3>2. Alike(runs, runs', L)
      BY <1>3 DEF Alike
    <3>3. QED
      BY <1>3, <2>3, <3>1, <3>2, ConfirmedSame
  <2>4. QED
    BY <1>3, <2>2, <2>3
<1>10. QED
  BY <1>6, <1>7, <1>9 DEF AlertsInv

\* A run that was not saved ends every streak and every memory of an alert.
LEMMA AlertsUnsaved ==
  ASSUME AlertsInv, Len(runs) \in Nat \ {0}, ~runs[Len(runs)].saved, runs' = runs,
         health'.loop.at = "asleep", state' \in Memory
  PROVE  AlertsInv'
<1>1. Due' = Len(runs) /\ state'.times \in Nat
  BY DEF Due, Memory
<1>2. Backed'
  <2>1. \A n \in 1..state'.times : Len(runs) \in 1..Len(runs) /\ Len(runs) + n > Len(runs)
    BY <1>1
  <2>2. QED
    BY <1>1, <2>1 DEF Backed
<1>3. Marked'
  <2>1. \A h \in 1..Len(runs) : Len(runs) \in h..Len(runs)
    OBVIOUS
  <2>2. QED
    BY <1>1, <2>1 DEF Marked
<1>4. HealthConfirmed'
  BY DEF AlertsInv, HealthConfirmed
<1>5. QED
  BY <1>2, <1>3, <1>4 DEF AlertsInv

\* The save makes the memory of the last run the watermark and the count of its streak.
LEMMA AlertsSaved ==
  ASSUME TypeOK, HealthInv, AlertsInv, health.loop.at = "save", health'.loop.at = "asleep",
         state' = health.memory, Len(runs') = Len(runs),
         \A i \in 1..Len(runs) : runs'[i].level = runs[i].level /\ runs'[i].alert = runs[i].alert,
         \A i \in 1..(Len(runs) - 1) : runs'[i].saved = runs[i].saved
  PROVE  AlertsInv'
<1> DEFINE L == Len(runs)
           last == runs[L].level
<1>1. /\ L \in Nat \ {0} /\ health.memory = Remember(state, last)
      /\ runs[L].alert = Confirms(state, last)
  <2>1. L \in Nat
    BY DEF TypeOK
  <2>2. QED
    BY <2>1 DEF HealthInv, Carried
<1>2. state \in Memory /\ last \in Level
  <2>1. L \in 1..Len(runs)
    BY <1>1
  <2>2. QED
    BY <2>1, RunItem DEF TypeOK
<1>3. /\ Len(runs') = L
      /\ \A i \in 1..L : runs'[i].level = runs[i].level /\ runs'[i].alert = runs[i].alert
      /\ \A i \in 1..(L - 1) : runs'[i].saved = runs[i].saved
  OBVIOUS
<1>4. Due = L - 1 /\ Due' = L
  BY <1>3 DEF Due
<1>5. /\ \A i \in 1..L : runs[i].level \in Level /\ Rank[runs[i].level] \in Nat
      /\ state.times \in Nat /\ state.alerted \in Level /\ Rank[state.alerted] \in Nat
  BY <1>2, RunItem, Ranks DEF Memory
<1>6. \/ state'.alerted = last /\ state'.times = 0
      \/ Rank[state.alerted] = Rank[last] /\ state'.alerted = last /\ state'.times = 0
      \/ /\ Rank[last] > Rank[state.alerted] /\ state'.alerted = state.alerted
         /\ state'.pending = last /\ state'.times = Times(state, last) /\ ~Confirms(state, last)
  <2>1. CASE Confirms(state, last) \/ Rank[last] < Rank[state.alerted]
    BY <1>1, <2>1 DEF Remember, Blank
  <2>2. CASE ~Confirms(state, last) /\ Rank[last] > Rank[state.alerted]
    BY <1>1, <1>2, <1>5, <2>2 DEF Remember
  <2>3. CASE ~Confirms(state, last) /\ Rank[last] = Rank[state.alerted]
    <3>1. last = state.alerted
      BY <1>2, <1>5, <2>3, Ranks
    <3>2. QED
      BY <1>1, <1>5, <2>3, <3>1 DEF Remember, Blank
  <2>4. QED
    BY <1>1, <1>2, <1>5, <2>1, <2>2, <2>3, Ranks
<1>7. ASSUME NEW n \in 1..state'.times, \A j \in 1..L : j + n > L => runs'[j].saved
      PROVE  n <= L /\ \A j \in 1..L : j + n > L => runs'[j].level = state'.pending
  <2>1. /\ state'.pending = last /\ state'.times = Times(state, last)
        /\ n \in Nat \ {0} /\ n <= Times(state, last)
    BY <1>2, <1>6, <1>7, MemoryTyped
  <2>2. CASE n = 1
    BY <1>1, <1>3, <2>1, <2>2
  <2>3. CASE n > 1
    <3>1. state.pending = last /\ n - 1 \in 1..state.times
      BY <1>5, <2>1, <2>3 DEF Times
    <3>2. \A j \in 1..(L - 1) : j + (n - 1) > L - 1 => runs[j].saved
      <4>1. \A j \in 1..(L - 1) : /\ j \in 1..L /\ (j + (n - 1) > L - 1 => j + n > L)
                                  /\ runs'[j].saved = runs[j].saved
        BY <1>1, <1>3, <2>1
      <4>2. QED
        BY <1>7, <4>1
    <3>3. /\ n - 1 <= L - 1
          /\ \A j \in 1..(L - 1) : j + (n - 1) > L - 1 => runs[j].level = state.pending
      BY <1>4, <3>1, <3>2 DEF AlertsInv, Backed
    <3>4. \A j \in 1..L : j + n > L => runs'[j].level = last
      <4>1. SUFFICES ASSUME NEW j \in 1..L, j + n > L PROVE runs'[j].level = last
        OBVIOUS
      <4>2. CASE j = L
        BY <1>3, <4>2
      <4>3. CASE j \in 1..(L - 1)
        BY <1>1, <1>3, <2>1, <3>1, <3>3, <4>1, <4>3
      <4>4. QED
        BY <1>1, <4>2, <4>3
    <3>5. QED
      BY <1>1, <2>1, <3>3, <3>4
  <2>4. QED
    BY <2>1, <2>2, <2>3
<1>8. Backed'
  BY <1>4, <1>7, Zenon DEF Backed
<1>9. ASSUME NEW h \in 1..L, runs'[h].alert,
             \A j \in h..L : runs'[j].saved /\ Rank[runs'[j].level] >= Rank[runs'[h].level]
      PROVE  Rank[state'.alerted] >= Rank[runs'[h].level]
  <2>1. runs[h].alert /\ runs'[h].level = runs[h].level
    BY <1>3, <1>9
  <2>2. Rank[last] >= Rank[runs[h].level]
    <3>1. L \in h..L /\ L \in 1..L
      BY <1>1
    <3>2. QED
      BY <1>3, <1>9, <2>1, <3>1
  <2>3. CASE state'.alerted = last
    BY <2>1, <2>2, <2>3
  <2>4. CASE state'.alerted = state.alerted /\ ~Confirms(state, last)
    <3>1. h \in 1..(L - 1)
      BY <1>1, <2>1, <2>4
    <3>2. \A j \in h..(L - 1) : runs[j].saved /\ Rank[runs[j].level] >= Rank[runs[h].level]
      <4>1. SUFFICES ASSUME NEW j \in h..(L - 1)
                     PROVE  runs[j].saved /\ Rank[runs[j].level] >= Rank[runs[h].level]
        OBVIOUS
      <4>2. j \in h..L /\ j \in 1..L /\ j \in 1..(L - 1)
        BY <1>1, <3>1
      <4>3. runs'[j].saved /\ Rank[runs'[j].level] >= Rank[runs'[h].level]
        BY <1>9, <4>2
      <4>4. QED
        BY <1>3, <2>1, <4>2, <4>3
    <3>3. Rank[state.alerted] >= Rank[runs[h].level]
      BY <1>4, <2>1, <3>1, <3>2 DEF AlertsInv, Marked
    <3>4. QED
      BY <2>1, <2>4, <3>3
  <2>5. QED
    BY <1>6, <2>3, <2>4
<1>10. Marked'
  BY <1>4, <1>9, Zenon DEF Marked
<1>11. HealthConfirmed'
  <2>1. SUFFICES ASSUME NEW i \in 1..L, runs'[i].alert
                 PROVE  ConfirmedAt(runs', i)
    <3>1. (\A i \in 1..Len(runs') : runs'[i].alert => ConfirmedAt(runs', i)) => HealthConfirmed'
      BY DEF HealthConfirmed, ConfirmedAt
    <3>2. QED
      BY <1>3, <3>1
  <2>2. runs[i].alert /\ ConfirmedAt(runs, i)
    BY <1>3, <2>1, ByRun DEF AlertsInv
  <2>3. L \in Nat /\ Alike(runs, runs', L)
    BY <1>1, <1>3 DEF Alike
  <2>4. QED
    BY <2>2, <2>3, ConfirmedSame
<1>12. QED
  BY <1>8, <1>10, <1>11 DEF AlertsInv

LEMMA AlertsKept ==
  ASSUME AlertingInv, [Next]_vars
  PROVE  AlertsInv'
<1>1. TypeOK /\ HealthInv /\ AlertsInv
  BY DEF AlertingInv
<1>2. ASSUME UNCHANGED <<health, state, runs>>
      PROVE  AlertsInv'
  BY <1>1, <1>2, AlertsStill DEF Due
<1>3. CASE Writes \/ Scans \/ Probes \/ Tick
  <2>1. UNCHANGED healths
    BY <1>3, Zenon DEF Writes, Stamped, Appended, Scans, ScanStart, ScanNext, ScanEnd, ScanCut, Probes, Probe, ProbeFails,
                       ProbeCount, Tick
  <2>2. QED
    BY <1>2, <2>1 DEF healths
<1>4. CASE UNCHANGED vars
  BY <1>2, <1>4 DEF vars
<1>5. ASSUME health.loop.at = "save", health'.loop.at = "asleep", runs' = runs
      PROVE  AlertsInv'
  <2>1. Len(runs) \in Nat \ {0} /\ ~runs[Len(runs)].saved
    BY <1>1, <1>5 DEF HealthInv, Carried, TypeOK
  <2>2. state' \in Memory
    BY TypesKept DEF TypeOK
  <2>3. QED
    BY <1>1, <1>5, <2>1, <2>2, AlertsUnsaved
<1>6. CASE HealthFails
  <2>1. health.loop.at = "asleep" /\ UNCHANGED <<state, runs>>
        /\ health' = [health EXCEPT !.loop = Asleep(now + HealthEvery)]
    BY <1>6 DEF HealthFails, Begin
  <2>2. health'.loop.at = "asleep"
    BY <1>1, <2>1 DEF TypeOK, Asleep
  <2>3. QED
    BY <1>1, <2>1, <2>2, AlertsStill DEF Due
<1>7. CASE HealthSave
  <2>1. /\ health.loop.at = "save"
        /\ health' = [health EXCEPT !.loop = Asleep(now + HealthEvery)]
        /\ \/ state' = health.memory /\ runs' = [runs EXCEPT ![Len(runs)].saved = TRUE]
           \/ UNCHANGED runs
    BY <1>7 DEF HealthSave
  <2>2. health'.loop.at = "asleep"
    BY <1>1, <2>1 DEF TypeOK, Asleep
  <2>3. CASE state' = health.memory /\ runs' = [runs EXCEPT ![Len(runs)].saved = TRUE]
    <3>1. Len(runs) \in Nat \ {0}
      BY <1>1, <2>1 DEF HealthInv, Carried, TypeOK
    <3>2. /\ Len(runs') = Len(runs)
          /\ \A i \in 1..Len(runs) : runs'[i].level = runs[i].level /\ runs'[i].alert = runs[i].alert
          /\ \A i \in 1..(Len(runs) - 1) : runs'[i].saved = runs[i].saved
      BY <1>1, <2>3, <3>1, RunsMarked
    <3>3. QED
      BY <1>1, <2>1, <2>2, <2>3, <3>2, AlertsSaved
  <2>4. QED
    BY <1>5, <2>1, <2>2, <2>3
<1>8. CASE Crash
  <2>1. /\ health' = Health0(now) /\ runs' = runs
        /\ (health.loop.at # "save" => state' = state)
    BY <1>8 DEF Crash
  <2>2. health'.loop.at = "asleep"
    BY <2>1 DEF Health0, Asleep
  <2>3. CASE health.loop.at = "save"
    BY <1>5, <2>1, <2>2, <2>3
  <2>4. CASE health.loop.at # "save"
    BY <1>1, <2>1, <2>2, <2>4, AlertsStill DEF Due
  <2>5. QED
    BY <2>3, <2>4
<1>9. QED
  BY <1>1, <1>3, <1>4, <1>6, <1>7, <1>8, AlertsRun DEF Next, Checks, Probes, Scans

(* ------------------------------- theorems -------------------------------- *)

LEMMA AlertingInit == Init => AlertingInv
<1> SUFFICES ASSUME Init PROVE AlertingInv
  OBVIOUS
<1>1. 0 \in 0..MaxTime /\ Blank \in Memory /\ left \in [Bounded -> Nat]
  BY AlertingAssumption DEF Init, Blank, Memory, Level
<1>2. TypeOK
  BY <1>1 DEF Init, Unsent, TypeOK, Scan0, Probe0, Health0, Asleep, Loop
<1>3. SinkInv /\ FlagsNotSilenced
  BY DEF Init, Unsent, SinkInv, FlagsNotSilenced
<1>4. probe.loop.at = "asleep" /\ probe.fails = 0 /\ Len(plog) = 0
  BY DEF Init, Probe0, Asleep
<1>5. ProbeInv
  BY <1>4, AlertingAssumption DEF ProbeInv, OnRecord, FailsCounted, OutageOut, Counted
<1>6. health.loop.at = "asleep" /\ Len(runs) = 0
  BY DEF Init, Health0, Asleep
<1>7. HealthInv
  BY <1>6 DEF HealthInv, Carried, Pending, Due
<1>8. ScanInv
  BY DEF Init, ScanInv, Scan0
<1>9. state.times = 0
  BY DEF Init, Blank
<1>10. AlertsInv
  BY <1>6, <1>9 DEF AlertsInv, Backed, Marked, HealthConfirmed, Due
<1>11. QED
  BY <1>2, <1>3, <1>5, <1>7, <1>8, <1>10 DEF AlertingInv

LEMMA AlertingInvHolds == Spec => []AlertingInv
<1>1. AlertingInv /\ [Next]_vars => AlertingInv'
  BY TypesKept, FlagsKept, ProbeKept, HealthKept, ScanKept, AlertsKept DEF AlertingInv
<1>2. QED
  BY AlertingInit, <1>1, PTL DEF Spec

\* The sink, the loops, the log of probes and the state file keep their types, for any
\* periods and any number of crashes (alerting.py, alert_checkers.py, availability.py).
THEOREM AlertingTypes == Spec => []TypeOK
<1>1. AlertingInv => TypeOK
  BY DEF AlertingInv
<1>2. QED
  BY <1>1, AlertingInvHolds, PTL

\* Whenever a scan handles a flag, an alert for its session went out at that moment or less
\* than a dedup window before (AlertSink.emit under AnomalyChecker.check).
THEOREM FlagsAreNotSilenced == Spec => []FlagsNotSilenced
<1>1. AlertingInv => FlagsNotSilenced
  BY DEF AlertingInv
<1>2. QED
  BY <1>1, AlertingInvHolds, PTL

\* A scan that read its files to the end answers for every flag that was there and in its
\* window when it began, with an alert that was out, whatever is written while it runs, for
\* any number of unreadable files and restarts (AnomalyChecker.check, AlertSink.emit).
THEOREM FlagsAreAlerted == Spec => []FlagsAlerted
<1>1. ASSUME AlertingInv PROVE FlagsAlerted
  BY <1>1 DEF AlertingInv, ScanInv, FlagsNotSilenced, FlagsAlerted
<1>2. AlertingInv => FlagsAlerted
  BY <1>1
<1>3. QED
  BY <1>2, AlertingInvHolds, PTL

\* An outage that is on record for long enough has a recent alert, whatever the dedup
\* window does to the repetitions (AvailabilityProbe.probe).
THEOREM OutagesAreAlerted == Spec => []DownIsAlerted
<1>1. ASSUME AlertingInv PROVE DownIsAlerted
  <2>1. SUFFICES ASSUME probe.loop.at = "asleep", Len(plog) >= FailConfirm, DedupWindow > 0,
                        \A i \in Trailing(FailConfirm) : ~plog[i].ok /\ plog[i].boot = Boot
                 PROVE  \E o \in out : /\ o.key = [of |-> "down"] /\ o.boot = Boot
                                      /\ o.at > plog[Len(plog)].at - DedupWindow
    BY DEF DownIsAlerted
  <2>2. Len(plog) \in Nat /\ FailConfirm \in Nat \ {0} /\ Counted = Len(plog)
    BY <1>1, <2>1, AlertingAssumption DEF AlertingInv, TypeOK, Counted
  <2>3. FailConfirm \in 1..Counted
    BY <2>1, <2>2
  <2>4. \A i \in (Counted + 1 - FailConfirm)..Counted : Failed(i)
    BY <2>1, <2>2 DEF Trailing, Failed
  <2>5. probe.fails >= FailConfirm
    BY <1>1, <2>3, <2>4 DEF AlertingInv, ProbeInv, FailsCounted
  <2>6. QED
    BY <1>1, <2>1, <2>5 DEF AlertingInv, ProbeInv, OutageOut
<1>2. AlertingInv => DownIsAlerted
  BY <1>1
<1>3. QED
  BY <1>2, AlertingInvHolds, PTL

\* A level that enough saved runs in a row have found is the watermark, over lost saves and
\* restarts (HealthChecker.check).
THEOREM WatermarkTracks == Spec => []HealthTracks
<1>1. ASSUME AlertingInv PROVE HealthTracks
  <2>1. SUFFICES ASSUME NEW level \in Alerted, Len(runs) >= ConfirmWindows,
                        \A i \in LastRuns : runs[i].saved /\ runs[i].level = level
                 PROVE  state.alerted = level
    BY DEF HealthTracks
  <2>2. Len(runs) \in Nat /\ ConfirmWindows \in Nat \ {0}
    BY <1>1, AlertingAssumption DEF AlertingInv, TypeOK
  <2>3. Len(runs) \in LastRuns /\ runs[Len(runs)].saved
    BY <2>1, <2>2 DEF LastRuns
  <2>4. health.loop.at # "save" /\ Due = Len(runs)
    BY <1>1, <2>3 DEF AlertingInv, HealthInv, Carried, Due
  <2>5. ConfirmWindows \in 1..Due /\ level \in Level
    BY <2>1, <2>2, <2>4 DEF Alerted, Level
  <2>6. Streak(ConfirmWindows, level)
    BY <2>1, <2>2, <2>4 DEF Streak, LastRuns
  <2>7. \/ state.alerted = level
        \/ state.times >= ConfirmWindows /\ state.times < ConfirmWindows
    BY <1>1, <2>5, <2>6 DEF AlertingInv, HealthInv, Pending
  <2>8. state.times \in Nat
    BY <1>1 DEF AlertingInv, TypeOK, Memory
  <2>9. QED
    BY <2>2, <2>7, <2>8
<1>2. AlertingInv => HealthTracks
  BY <1>1
<1>3. QED
  BY <1>2, AlertingInvHolds, PTL

\* A health alert ends a streak of its level and does not repeat an alert that still stands,
\* for any number of confirming runs, lost saves and restarts (HealthChecker.check).
THEOREM AlertsAreConfirmed == Spec => []HealthConfirmed
<1>1. AlertingInv => HealthConfirmed
  BY DEF AlertingInv, AlertsInv
<1>2. QED
  BY <1>1, AlertingInvHolds, PTL
=============================================================================
