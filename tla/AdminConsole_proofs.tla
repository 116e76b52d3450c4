------------------------ MODULE AdminConsole_proofs ------------------------
(***************************************************************************)
(* Proofs about the operations console, signing in to it, and the gate its *)
(* jobs run.                                                               *)
(*                                                                         *)
(* AdminConsole: for any keys, values, forms, jobs, deaths of the console  *)
(* and failing calls, a complete configuration stays in reach, the settings*)
(* files and rag-api are in step, the change log accounts for .env, and    *)
(* jobs exclude each other and are reported truly.                         *)
(*                                                                         *)
(* RegressionGate: for any invocations, questions and reports, a PASS hides*)
(* no regression, and the ledger forgets no flip (GateInv, by what a gate  *)
(* asked again and by what the ledger and the copies of it tell of).       *)
(*                                                                         *)
(* AdminAccess: for any cards, bundles and damaged answers, a card signs in*)
(* on a fresh challenge that is then spent, and no sign-in goes unlogged   *)
(* (AccessInv, by the challenges that are there and those that are spent); *)
(* and climbing the bundle decides whether there is a chain (InReachIs     *)
(* unfolds the recursion, RankDescends and TrustedClimb take a least       *)
(* counterexample each).                                                   *)
(***************************************************************************)
EXTENDS AdminConsole, AdminAccess, RegressionGate, FiniteSetTheorems, WellFoundedInduction,
        TLAPS

(* ------------------------------- the basics ------------------------------ *)

Counts == [saves : 0..MaxOps, jobs : 0..MaxJobs, boots : 0..MaxOps,
           crashes : 0..MaxCrashes, faults : 0..MaxFaults]
Handlers == [at : HandlerAt, original : File, new : File, left : SUBSET Key]
Workers == [at : WorkerAt, code : {"none", "good", "bad"}]
Execs == [in : {"rag", "monitoring"}, state : {"none", "asked", "running", "ok", "failed"}]

LEMMA Numbers ==
  ASSUME TypeOK
  PROVE  /\ count \in Counts
         /\ count.saves \in Nat /\ count.jobs \in Nat /\ count.boots \in Nat
         /\ count.crashes \in Nat /\ count.faults \in Nat
         /\ MaxOps \in Nat /\ MaxJobs \in Nat /\ MaxCrashes \in Nat /\ MaxFaults \in Nat
BY ConsoleAssumption DEF TypeOK, Counts

LEMMA Faulted ==
  ASSUME TypeOK, Fault
  PROVE  /\ count' \in Counts /\ count'.saves = count.saves /\ count'.jobs = count.jobs
         /\ count'.boots = count.boots
<1>1. count' = [count EXCEPT !["faults"] = @ + 1] /\ count.faults < MaxFaults
  BY DEF Fault, Bump
<1>2. QED
  BY <1>1, Numbers DEF Counts

LEMMA Counted ==
  ASSUME TypeOK, MoreOps
  PROVE  /\ Bump("saves") => /\ count' \in Counts /\ count'.saves = count.saves + 1
                             /\ count'.jobs = count.jobs /\ count'.boots = count.boots
         /\ Bump("boots") => /\ count' \in Counts /\ count'.boots = count.boots + 1
                             /\ count'.jobs = count.jobs /\ count'.saves = count.saves
         /\ Bump("jobs") /\ count.jobs < MaxJobs =>
              /\ count' \in Counts /\ count'.jobs = count.jobs + 1
              /\ count'.saves = count.saves /\ count'.boots = count.boots
<1>1. count.saves < MaxOps /\ count.boots < MaxOps
  BY Numbers DEF MoreOps
<1>2. ASSUME Bump("saves")
      PROVE  /\ count' \in Counts /\ count'.saves = count.saves + 1
             /\ count'.jobs = count.jobs /\ count'.boots = count.boots
  BY <1>1, <1>2, Numbers DEF Counts, Bump
<1>3. ASSUME Bump("boots")
      PROVE  /\ count' \in Counts /\ count'.boots = count.boots + 1
             /\ count'.jobs = count.jobs /\ count'.saves = count.saves
  BY <1>1, <1>3, Numbers DEF Counts, Bump
<1>4. ASSUME Bump("jobs"), count.jobs < MaxJobs
      PROVE  /\ count' \in Counts /\ count'.jobs = count.jobs + 1
             /\ count'.saves = count.saves /\ count'.boots = count.boots
  BY <1>4, Numbers DEF Counts, Bump
<1>5. QED
  BY <1>2, <1>3, <1>4

LEMMA HandlerTyped ==
  ASSUME TypeOK
  PROVE  /\ handler \in Handlers
         /\ \A l \in HandlerAt : [handler EXCEPT !.at = l] \in Handlers
         /\ Idle \in Handlers
<1>1. handler \in Handlers
  BY DEF TypeOK, Handlers
<1>2. Idle \in Handlers
  BY DEF Idle, Empty, Handlers, HandlerAt, File, Vals
<1>3. QED
  BY <1>1, <1>2 DEF Handlers

\* A handler that only moves on keeps what it works on.
LEMMA Moved ==
  ASSUME TypeOK, NEW l \in HandlerAt, Goto(l)
  PROVE  /\ handler' \in Handlers /\ handler'.at = l /\ handler'.original = handler.original
         /\ handler'.new = handler.new /\ handler'.left = handler.left
BY HandlerTyped DEF Goto, Handlers

LEMMA Answered ==
  ASSUME TypeOK, NEW b \in {"none", "saved", "error", "500"}, Answer(b)
  PROVE  /\ handler' \in Handlers /\ handler'.at = "idle"
         /\ banner' \in {"none", "saved", "error", "500"}
BY HandlerTyped DEF Answer, Idle

LEMMA LoadedTyped ==
  ASSUME NEW vals \in Vals
  PROVE  Loaded(vals) \in [Key -> Value]
BY ConsoleAssumption DEF Vals, Loaded

(* --------------------------------- types --------------------------------- *)

LEMMA TypesInit == Init => TypeOK
<1> SUFFICES ASSUME Init PROVE TypeOK
  OBVIOUS
<1>1. Deployed \in Vals /\ Loaded(Deployed) \in [Key -> Value]
  BY ConsoleAssumption, LoadedTyped DEF Vals
<1>2. env \in File /\ complete \in File /\ backups \subseteq File /\ runtime \in Vals
  BY <1>1 DEF Init, File, Whole
<1>3. handler \in Handlers
  BY DEF Init, Idle, Empty, Handlers, HandlerAt, File, Vals
<1>4. /\ 0 \in 0..MaxOps /\ 0 \in 0..MaxJobs /\ 0 \in 0..MaxCrashes /\ 0 \in 0..MaxFaults
  BY ConsoleAssumption
<1>5. /\ eff \in [Key -> Value] /\ snap \in [boot : 0..MaxOps, vals : [Key -> Value]]
      /\ count \in Counts /\ job \in [n : 0..MaxJobs, state : {"none", "running", "done", "failed"}]
  BY <1>1, <1>4 DEF Init, Counts, NoJob
<1>6. worker \in [Jobs -> Workers] /\ exec \in [Jobs -> Execs]
  BY DEF Init, NoWorker, NoExec, Workers, Execs, WorkerAt
<1>7. /\ banner \in {"none", "saved", "error", "500"} /\ changes = {} /\ finished = {}
      /\ torn \in BOOLEAN /\ fresh \in BOOLEAN /\ lost = {}
  BY DEF Init
<1>8. QED
  BY <1>2, <1>3, <1>5, <1>6, <1>7 DEF TypeOK, Handlers, Counts, Workers, Execs

\* What a step of a save may touch.
LEMMA TypesOfSave ==
  ASSUME TypeOK, UNCHANGED <<rag, jobs>>,
         env' \in File, complete' \in File, backups' \subseteq File, runtime' \in Vals,
         handler' \in Handlers, banner' \in {"none", "saved", "error", "500"},
         changes' \subseteq Change, count' \in Counts, torn' \in BOOLEAN, fresh' \in BOOLEAN
  PROVE  TypeOK'
BY DEF TypeOK, rag, jobs, Counts, Handlers

LEMMA TypesSave ==
  ASSUME TypeOK, NEW form \in Forms, Save(form)
  PROVE  TypeOK'
<1>1. /\ UNCHANGED <<settings, rag, changes, jobs, fresh>> /\ Bump("saves") /\ MoreOps
  BY DEF Save
<1>2. count' \in Counts
  BY <1>1, Counted
<1>3. handler' \in Handlers /\ banner' \in {"none", "saved", "error", "500"}
  <2>1. CASE Answer("error") \/ Answer("saved")
    BY <2>1, Answered
  <2>2. CASE /\ ~\E k \in Key : form[k] = Bad
             /\ handler' = [at |-> "backup", original |-> env, left |-> Todo(form),
                            new |-> [env EXCEPT !.vals = [k \in Key |-> IF k \in Todo(form)
                                                            THEN form[k] ELSE env.vals[k]]]]
             /\ banner' = "none"
    <3> DEFINE vals == [k \in Key |-> IF k \in Todo(form) THEN form[k] ELSE env.vals[k]]
    <3>1. env \in File /\ form \in Form
      BY ConsoleAssumption DEF TypeOK
    <3>2. \A k \in Todo(form) : form[k] \in Value
      BY <2>2, <3>1 DEF Todo, Form
    <3>3. vals \in Vals
      BY <3>1, <3>2 DEF File, Vals
    <3> HIDE DEF vals
    <3>4. [env EXCEPT !.vals = vals] \in File
      BY <3>1, <3>3 DEF File
    <3>5. Todo(form) \subseteq Key /\ "backup" \in HandlerAt
      BY DEF Todo, HandlerAt
    <3>6. QED
      BY <2>2, <3>1, <3>4, <3>5 DEF Handlers, vals
  <2>3. QED
    BY <2>1, <2>2 DEF Save
<1>4. /\ env' = env /\ complete' = complete /\ backups' = backups /\ runtime' = runtime
      /\ torn' = torn /\ fresh' = fresh /\ changes' = changes
  BY <1>1 DEF settings
<1>5. QED
  BY <1>1, <1>2, <1>3, <1>4, TypesOfSave DEF TypeOK

LEMMA TypesBackup ==
  ASSUME TypeOK, Backup
  PROVE  TypeOK'
<1>1. UNCHANGED <<env, runtime, torn, complete, rag, changes, jobs, fresh>>
  BY DEF Backup
<1>2. CASE backups' = backups \cup {env} /\ Goto("truncate") /\ UNCHANGED <<count, banner>>
  <2>1. handler' \in Handlers
    BY <1>2, Moved DEF HandlerAt
  <2>2. QED
    BY <1>1, <1>2, <2>1, Numbers, TypesOfSave DEF TypeOK
<1>3. CASE Fault /\ Answer("500") /\ UNCHANGED backups
  <2>1. /\ handler' \in Handlers /\ banner' \in {"none", "saved", "error", "500"}
        /\ count' \in Counts
    BY <1>3, Answered, Faulted
  <2>2. QED
    BY <1>1, <1>3, <2>1, TypesOfSave DEF TypeOK
<1>4. QED
  BY <1>2, <1>3 DEF Backup

LEMMA TypesTruncate ==
  ASSUME TypeOK, Truncate
  PROVE  TypeOK'
<1>1. /\ env' = Empty /\ torn' = TRUE /\ fresh' = FALSE /\ Goto("write")
      /\ UNCHANGED <<backups, runtime, complete, rag, banner, changes, jobs, count>>
  BY DEF Truncate
<1>2. Empty \in File /\ handler' \in Handlers
  BY <1>1, Moved DEF Empty, File, Vals, HandlerAt
<1>3. QED
  BY <1>1, <1>2, Numbers, TypesOfSave DEF TypeOK

LEMMA PartTyped ==
  ASSUME TypeOK
  PROVE  Part \subseteq File
<1>1. handler.new.vals \in Vals
  BY DEF TypeOK, File
<1>2. \A K \in SUBSET Key : [k \in Key |-> IF k \in K THEN handler.new.vals[k] ELSE None] \in Vals
  BY <1>1 DEF Vals
<1>3. \A x \in Vals : [vals |-> x, whole |-> FALSE] \in File
  BY DEF File
<1>4. QED
  BY <1>2, <1>3, Zenon DEF Part

LEMMA TypesWrite ==
  ASSUME TypeOK, Write
  PROVE  TypeOK'
<1>1. UNCHANGED <<backups, runtime, torn, rag, changes, jobs, fresh>>
  BY DEF Write
<1>2. CASE /\ env' = handler.new /\ complete' = (IF env'.whole THEN env' ELSE complete)
           /\ Goto("sync") /\ UNCHANGED <<count, banner>>
  <2>1. handler' \in Handlers /\ handler.new \in File
    BY <1>2, Moved, HandlerTyped DEF HandlerAt, Handlers
  <2>2. QED
    BY <1>1, <1>2, <2>1, Numbers, TypesOfSave DEF TypeOK
<1>3. CASE Fault /\ env' \in Part /\ Answer("500") /\ UNCHANGED complete
  <2>1. /\ handler' \in Handlers /\ banner' \in {"none", "saved", "error", "500"}
        /\ count' \in Counts /\ env' \in File
    BY <1>3, Answered, Faulted, PartTyped
  <2>2. QED
    BY <1>1, <1>3, <2>1, TypesOfSave DEF TypeOK
<1>4. QED
  BY <1>2, <1>3 DEF Write

LEMMA TypesSync ==
  ASSUME TypeOK, Sync
  PROVE  TypeOK'
<1>1. UNCHANGED <<env, backups, complete, rag, changes, jobs>> /\ env.vals \in Vals
  BY DEF Sync, TypeOK, File
<1>2. CASE /\ runtime' = env.vals /\ torn' = FALSE /\ fresh' = FALSE
           /\ Goto("log") /\ UNCHANGED <<count, banner>>
  <2>1. handler' \in Handlers
    BY <1>2, Moved DEF HandlerAt
  <2>2. QED
    BY <1>1, <1>2, <2>1, Numbers, TypesOfSave DEF TypeOK
<1>3. CASE Fault /\ Answer("500") /\ UNCHANGED <<runtime, torn, fresh>>
  <2>1. /\ handler' \in Handlers /\ banner' \in {"none", "saved", "error", "500"}
        /\ count' \in Counts
    BY <1>3, Answered, Faulted
  <2>2. QED
    BY <1>1, <1>3, <2>1, TypesOfSave DEF TypeOK
<1>4. QED
  BY <1>2, <1>3 DEF Sync

LEMMA SettingChangeTyped ==
  ASSUME TypeOK, count.saves > 0, NEW k \in Key
  PROVE  /\ SettingChange(k) \in Change
         /\ SettingChange(k).kind = "setting" /\ SettingChange(k).key = k
         /\ SettingChange(k).n = count.saves /\ SettingChange(k).new = handler.new.vals[k]
<1>1. count.saves \in 1..MaxOps
  BY Numbers DEF Counts
<1>2. handler.original.vals[k] \in Value \cup {None} /\ handler.new.vals[k] \in Value \cup {None}
  BY HandlerTyped DEF Handlers, File, Vals
<1>3. QED
  BY <1>1, <1>2 DEF SettingChange, Change

LEMMA TypesLog ==
  ASSUME TypeOK, Counting, LogChange
  PROVE  TypeOK'
<1>1. /\ UNCHANGED <<env, backups, runtime, torn, complete, rag, jobs, fresh>>
      /\ count.saves > 0
  BY DEF LogChange, Counting, Saving
<1>2. ASSUME NEW k \in handler.left,
             changes' = changes \cup {SettingChange(k)}, UNCHANGED count,
             IF handler.left = {k} THEN Answer("saved")
             ELSE handler' = [handler EXCEPT !.left = @ \ {k}] /\ UNCHANGED banner
      PROVE  TypeOK'
  <2>1. k \in Key
    BY HandlerTyped DEF Handlers
  <2>2. changes' \subseteq Change
    BY <1>1, <1>2, <2>1, SettingChangeTyped DEF TypeOK
  <2>3. handler' \in Handlers /\ banner' \in {"none", "saved", "error", "500"}
    <3>1. CASE Answer("saved")
      BY <3>1, Answered
    <3>2. CASE handler' = [handler EXCEPT !.left = @ \ {k}] /\ UNCHANGED banner
      BY <3>2, HandlerTyped DEF Handlers, TypeOK
    <3>3. QED
      BY <1>2, <3>1, <3>2
  <2>4. QED
    BY <1>1, <1>2, <2>2, <2>3, Numbers, TypesOfSave DEF TypeOK
<1>3. CASE Fault /\ Answer("500") /\ UNCHANGED changes
  <2>1. /\ handler' \in Handlers /\ banner' \in {"none", "saved", "error", "500"}
        /\ count' \in Counts
    BY <1>3, Answered, Faulted
  <2>2. QED
    BY <1>1, <1>3, <2>1, TypesOfSave DEF TypeOK
<1>4. QED
  BY <1>2, <1>3 DEF LogChange

LEMMA ExecsBooted ==
  ASSUME TypeOK,
         exec' = [n \in Jobs |-> IF exec[n].in = "rag" /\ exec[n].state = "running"
                                 THEN [exec[n] EXCEPT !.state = "failed"] ELSE exec[n]]
  PROVE  /\ exec' \in [Jobs -> Execs]
         /\ \A n \in Jobs : \/ exec'[n] = exec[n]
                            \/ exec[n].state = "running" /\ exec'[n].state = "failed"
<1>1. exec \in [Jobs -> Execs]
  BY DEF TypeOK, Execs
<1>2. \A n \in Jobs : /\ exec'[n] \in Execs
                      /\ \/ exec'[n] = exec[n]
                         \/ exec[n].state = "running" /\ exec'[n].state = "failed"
  BY <1>1 DEF Execs
<1>3. QED
  BY <1>2

\* What a start of rag-api does.
LEMMA Booted ==
  ASSUME TypeOK, Boot
  PROVE  /\ eff' = Loaded(runtime) /\ eff' \in [Key -> Value] /\ fresh' = TRUE
         /\ count' \in Counts /\ count'.boots = count.boots + 1
         /\ count'.saves = count.saves /\ count'.jobs = count.jobs
         /\ \/ snap' = [boot |-> count.boots + 1, vals |-> eff']
            \/ snap' = snap
         /\ snap' \in [boot : 0..MaxOps, vals : [Key -> Value]]
         /\ exec' \in [Jobs -> Execs]
         /\ \A n \in Jobs : \/ exec'[n] = exec[n]
                            \/ exec[n].state = "running" /\ exec'[n].state = "failed"
<1>1. /\ eff' = Loaded(runtime) /\ fresh' = TRUE /\ MoreOps
      /\ exec' = [n \in Jobs |-> IF exec[n].in = "rag" /\ exec[n].state = "running"
                                 THEN [exec[n] EXCEPT !.state = "failed"] ELSE exec[n]]
  BY DEF Boot
<1>2. eff' \in [Key -> Value]
  BY <1>1, LoadedTyped DEF TypeOK
<1>3. CASE snap' = [boot |-> count.boots + 1, vals |-> eff'] /\ Bump("boots")
  <2>1. /\ count' \in Counts /\ count'.boots = count.boots + 1
        /\ count'.saves = count.saves /\ count'.jobs = count.jobs
    BY <1>1, <1>3, Counted
  <2>2. count.boots + 1 \in 0..MaxOps
    BY <2>1 DEF Counts
  <2>3. snap' \in [boot : 0..MaxOps, vals : [Key -> Value]]
    BY <1>2, <1>3, <2>2
  <2>4. QED
    BY <1>1, <1>2, <1>3, <2>1, <2>3, ExecsBooted
<1>4. CASE /\ count.faults < MaxFaults /\ UNCHANGED snap
           /\ count' = [count EXCEPT !.boots = @ + 1, !.faults = @ + 1]
  <2>1. count.boots < MaxOps
    BY <1>1, Numbers DEF MoreOps
  <2>2. /\ count' \in Counts /\ count'.boots = count.boots + 1
        /\ count'.saves = count.saves /\ count'.jobs = count.jobs
    <3>1. count.boots + 1 \in 0..MaxOps /\ count.faults + 1 \in 0..MaxFaults
      BY <1>4, <2>1, Numbers
    <3>2. count \in Counts
      BY Numbers
    <3>3. QED
      BY <1>4, <3>1, <3>2 DEF Counts
  <2>3. snap' \in [boot : 0..MaxOps, vals : [Key -> Value]]
    BY <1>4 DEF TypeOK
  <2>4. QED
    BY <1>1, <1>2, <1>4, <2>2, <2>3, ExecsBooted
<1>5. QED
  BY <1>3, <1>4 DEF Boot

LEMMA TypesRag ==
  ASSUME TypeOK, Counting, Restart \/ LogRestart \/ RagDies
  PROVE  TypeOK'
<1>1. CASE LogRestart
  <2>1. /\ handler.at = "restarted" /\ handler' = Idle
        /\ UNCHANGED <<settings, rag, banner, jobs, fresh>>
        /\ \/ /\ changes' = changes \cup {[kind |-> "restart", n |-> count.boots]}
              /\ UNCHANGED count
           \/ Fault /\ UNCHANGED changes
    BY <1>1 DEF LogRestart
  <2>2. count.boots \in 1..MaxOps
    BY <2>1, Numbers DEF Counting, Counts
  <2>3. changes' \subseteq Change /\ count' \in Counts
    BY <2>1, <2>2, Faulted, Numbers DEF TypeOK, Change
  <2>4. handler' \in Handlers
    BY <2>1, HandlerTyped
  <2>5. QED
    BY <2>1, <2>3, <2>4, TypesOfSave DEF TypeOK, settings
<1>2. CASE Restart \/ RagDies
  <2>1. /\ Boot /\ UNCHANGED <<settings, banner, changes, job, worker, finished, lost>>
        /\ UNCHANGED handler \/ Goto("restarted")
    BY <1>2 DEF Restart, RagDies
  <2>2. handler' \in Handlers
    BY <2>1, Moved, HandlerTyped DEF HandlerAt
  <2>3. QED
    BY <2>1, <2>2, Booted DEF TypeOK, settings, Counts, Execs, Handlers
<1>3. QED
  BY <1>1, <1>2

LEMMA TypesCrash ==
  ASSUME TypeOK, Crash
  PROVE  TypeOK'
<1>1. /\ count.crashes < MaxCrashes /\ Bump("crashes")
      /\ env' \in Part \cup {env}
      /\ handler' = Idle /\ banner' = "none" /\ job' = NoJob
      /\ worker' = [n \in Jobs |-> [worker[n] EXCEPT !.at = "none"]]
      /\ lost' = lost \cup {n \in Jobs : worker[n].at \in {"watch", "inspect"}}
      /\ UNCHANGED <<backups, runtime, torn, complete, rag, changes, exec, finished, fresh>>
  BY DEF Crash
<1>2. count' \in Counts
  BY <1>1, Numbers DEF Bump, Counts
<1>3. env' \in File /\ handler' \in Handlers
  BY <1>1, PartTyped, HandlerTyped DEF TypeOK
<1>4. worker' \in [Jobs -> Workers]
  <2>1. worker \in [Jobs -> Workers]
    BY DEF TypeOK, Workers
  <2>2. ASSUME NEW w \in Workers
        PROVE  [w EXCEPT !.at = "none"] \in Workers
    BY DEF Workers, WorkerAt
  <2>3. \A n \in Jobs : [worker[n] EXCEPT !.at = "none"] \in Workers
    BY <2>1, <2>2
  <2>4. QED
    BY <1>1, <2>3
<1>5. job' \in [n : 0..MaxJobs, state : {"none", "running", "done", "failed"}]
  <2>1. 0 \in 0..MaxJobs
    BY ConsoleAssumption
  <2>2. job' = NoJob
    BY <1>1
  <2>3. QED
    BY <2>1, <2>2 DEF NoJob
<1>6. /\ changes' \subseteq Change /\ eff' \in [Key -> Value]
      /\ snap' \in [boot : 0..MaxOps, vals : [Key -> Value]]
  BY <1>1 DEF TypeOK, rag
<1>7. /\ complete' \in File /\ backups' \subseteq File /\ runtime' \in Vals
      /\ torn' \in BOOLEAN /\ fresh' \in BOOLEAN
      /\ banner' \in {"none", "saved", "error", "500"}
  BY <1>1 DEF TypeOK
<1>8. /\ exec' \in [Jobs -> Execs] /\ lost' \subseteq Jobs
      /\ finished' \subseteq [n : Jobs, code : {"good", "bad"}]
  BY <1>1 DEF TypeOK, Execs
<1>9. QED
  BY <1>2, <1>3, <1>4, <1>5, <1>6, <1>7, <1>8 DEF TypeOK, Counts, Handlers, Workers, Execs

\* What a step of a job may touch.
LEMMA TypesOfJob ==
  ASSUME TypeOK, UNCHANGED <<settings, rag, banner, fresh>>,
         handler' \in Handlers, changes' \subseteq Change, count' \in Counts,
         job' \in [n : 0..MaxJobs, state : {"none", "running", "done", "failed"}],
         worker' \in [Jobs -> Workers], exec' \in [Jobs -> Execs],
         finished' \subseteq [n : Jobs, code : {"good", "bad"}], lost' \subseteq Jobs
  PROVE  TypeOK'
BY DEF TypeOK, settings, rag, Counts, Handlers, Workers, Execs

LEMMA JobsTyped ==
  ASSUME TypeOK
  PROVE  /\ job \in [n : 0..MaxJobs, state : {"none", "running", "done", "failed"}]
         /\ worker \in [Jobs -> Workers] /\ exec \in [Jobs -> Execs]
         /\ finished \subseteq [n : Jobs, code : {"good", "bad"}] /\ lost \subseteq Jobs
         /\ changes \subseteq Change
         /\ \A n \in Jobs : n \in Nat /\ Started(n) \in Change
  <1>1. \A n \in Jobs : n \in Nat
    BY ConsoleAssumption DEF Jobs
  <1>2. QED
    BY <1>1 DEF TypeOK, Workers, Execs, Started, Change

LEMMA TypesStart ==
  ASSUME TypeOK, NEW c \in {"rag", "monitoring"}, Start(c)
  PROVE  TypeOK'
<1>1. /\ MoreOps /\ count.jobs < MaxJobs /\ Bump("jobs")
      /\ job' = [n |-> count.jobs + 1, state |-> "running"]
      /\ exec' = [exec EXCEPT ![count.jobs + 1] = [in |-> c, state |-> "asked"]]
      /\ Goto("job")
      /\ UNCHANGED <<settings, rag, banner, changes, worker, finished, fresh, lost>>
  BY DEF Start
<1>2. count' \in Counts /\ handler' \in Handlers
  BY <1>1, Counted, Moved DEF HandlerAt
<1>3. job' \in [n : 0..MaxJobs, state : {"none", "running", "done", "failed"}]
  BY <1>1, Numbers
<1>4. exec' \in [Jobs -> Execs]
  BY <1>1, JobsTyped DEF Execs
<1>5. QED
  BY <1>1, <1>2, <1>3, <1>4, JobsTyped, TypesOfJob

LEMMA TypesLaunch ==
  ASSUME TypeOK, OneJob, Launch
  PROVE  TypeOK'
<1>1. /\ handler.at = "job" /\ handler' = Idle
      /\ UNCHANGED <<settings, rag, banner, job, exec, finished, fresh, lost>>
      /\ \/ /\ changes' = changes \cup {Started(job.n)}
            /\ worker' = [worker EXCEPT ![job.n].at = "create"]
            /\ UNCHANGED count
         \/ Fault /\ UNCHANGED <<changes, worker>>
  BY DEF Launch
<1>2. job.n \in Jobs
  BY <1>1 DEF OneJob
<1>3. changes' \subseteq Change /\ count' \in Counts
  BY <1>1, <1>2, JobsTyped, Faulted, Numbers
<1>4. worker' \in [Jobs -> Workers]
  BY <1>1, <1>2, JobsTyped DEF Workers, WorkerAt
<1>5. QED
  BY <1>1, <1>3, <1>4, JobsTyped, HandlerTyped, TypesOfJob

LEMMA MovedWorker ==
  ASSUME TypeOK, NEW n \in Jobs, NEW l \in WorkerAt, NEW c \in {"none", "good", "bad"}, Move(n, l, c)
  PROVE  /\ worker' \in [Jobs -> Workers]
         /\ worker'[n] = [at |-> l, code |-> c]
         /\ \A m \in Jobs \ {n} : worker'[m] = worker[m]
BY JobsTyped DEF Move, Workers

\* The steps of a thread, case by case.
LEMMA WorkerSteps ==
  ASSUME TypeOK, NEW n \in Jobs, Worker(n)
  PROVE  \/ /\ worker[n].at = "create" /\ UNCHANGED <<job, finished>>
            /\ \/ /\ exec' = [exec EXCEPT ![n].state = "running"]
                  /\ Move(n, "watch", "none") /\ UNCHANGED lost
               \/ Move(n, "settle", "bad") /\ UNCHANGED <<exec, lost>>
               \/ /\ Move(n, "settle", "bad")
                  /\ exec' = [exec EXCEPT ![n].state = "running"] /\ lost' = lost \cup {n}
         \/ /\ worker[n].at = "watch" /\ UNCHANGED <<job, finished, exec>>
            /\ \/ exec[n].state # "running" /\ Move(n, "inspect", "none") /\ UNCHANGED lost
               \/ /\ lost' = lost \cup {n}
                  /\ Move(n, "inspect", "none") \/ Move(n, "settle", "bad")
         \/ /\ worker[n].at = "inspect" /\ UNCHANGED <<job, finished, exec, lost>>
            /\ Move(n, "settle", ExitCode(n)) \/ Move(n, "settle", "bad")
         \/ /\ worker[n].at = "settle" /\ UNCHANGED <<finished, exec, lost>>
            /\ job' = [job EXCEPT !.state = IF worker[n].code = "good" THEN "done" ELSE "failed"]
            /\ Move(n, "append", worker[n].code)
         \/ /\ worker[n].at = "append" /\ UNCHANGED <<job, exec, lost>>
            /\ \/ finished' = finished \cup {[n |-> n, code |-> worker[n].code]}
               \/ UNCHANGED finished
            /\ Move(n, "none", worker[n].code)
BY Zenon DEF Worker, Create, StreamEnds, Inspect, Settle, RecordFinish

LEMMA WorkerRest ==
  ASSUME TypeOK, NEW n \in Jobs, Worker(n) \/ ExecEnds(n)
  PROVE  /\ UNCHANGED <<settings, rag, handler, banner, changes, fresh>>
         /\ count' \in Counts /\ count'.saves = count.saves /\ count'.jobs = count.jobs
         /\ count'.boots = count.boots
<1>1. UNCHANGED <<settings, rag, handler, banner, changes, fresh>>
  BY Zenon DEF Worker, Create, StreamEnds, Inspect, Settle, RecordFinish, ExecEnds
<1>2. UNCHANGED count \/ Fault
  BY Zenon DEF Worker, Create, StreamEnds, Inspect, Settle, RecordFinish, ExecEnds
<1>3. QED
  BY <1>1, <1>2, Faulted, Numbers

LEMMA TypesWorker ==
  ASSUME TypeOK, Outcomes, NEW n \in Jobs, Worker(n) \/ ExecEnds(n)
  PROVE  TypeOK'
<1>1. UNCHANGED <<settings, rag, handler, banner, changes, fresh>> /\ count' \in Counts
  BY WorkerRest
<1>2. handler' \in Handlers /\ changes' \subseteq Change
  BY <1>1, HandlerTyped, JobsTyped
<1>3. CASE ExecEnds(n)
  <2>1. PICK s \in {"ok", "failed"} : exec' = [exec EXCEPT ![n].state = s]
    BY <1>3 DEF ExecEnds
  <2>2. UNCHANGED <<job, worker, finished, lost>>
    BY <1>3 DEF ExecEnds
  <2>3. exec' \in [Jobs -> Execs]
    BY <2>1, JobsTyped DEF Execs
  <2>4. QED
    BY <1>1, <1>2, <2>2, <2>3, JobsTyped, TypesOfJob
<1>4. CASE Worker(n)
  <2>1. worker' \in [Jobs -> Workers]
    <3>1. worker[n].code \in {"none", "good", "bad"} /\ ExitCode(n) \in {"none", "good", "bad"}
      BY JobsTyped DEF Workers, ExitCode
    <3>2. \E l \in WorkerAt, c \in {"none", "good", "bad"} : Move(n, l, c)
      BY <1>4, <3>1, WorkerSteps DEF WorkerAt
    <3>3. QED
      BY <3>2, MovedWorker
  <2>2. exec' \in [Jobs -> Execs]
    <3>1. exec' = exec \/ exec' = [exec EXCEPT ![n].state = "running"]
      BY <1>4, WorkerSteps
    <3>2. QED
      BY <3>1, JobsTyped DEF Execs
  <2>3. job' \in [n : 0..MaxJobs, state : {"none", "running", "done", "failed"}]
    <3>1. job' = job \/ \E s \in {"done", "failed"} : job' = [job EXCEPT !.state = s]
      BY <1>4, WorkerSteps
    <3>2. QED
      BY <3>1, JobsTyped
  <2>4. finished' \subseteq [n : Jobs, code : {"good", "bad"}]
    <3>1. CASE finished' = finished
      BY <3>1, JobsTyped
    <3>2. CASE finished' # finished
      <4>1. worker[n].at = "append" /\ finished' = finished \cup {[n |-> n, code |-> worker[n].code]}
        BY <1>4, <3>2, WorkerSteps
      <4>2. worker[n].code \in {"good", "bad"}
        BY <4>1, JobsTyped DEF Outcomes, Workers
      <4>3. QED
        BY <4>1, <4>2, JobsTyped
    <3>3. QED
      BY <3>1, <3>2
  <2>5. lost' \subseteq Jobs
    <3>1. lost' = lost \/ lost' = lost \cup {n}
      BY <1>4, WorkerSteps
    <3>2. QED
      BY <3>1, JobsTyped
  <2>6. QED
    BY <1>1, <1>2, <2>1, <2>2, <2>3, <2>4, <2>5, TypesOfJob
<1>5. QED
  BY <1>3, <1>4

LEMMA TypesKept ==
  ASSUME ConsoleInv, [Next]_vars
  PROVE  TypeOK'
<1>1. TypeOK /\ Counting /\ OneJob /\ Outcomes
  BY DEF ConsoleInv, JobInv
<1>2. CASE UNCHANGED vars
  BY <1>1, <1>2 DEF vars, TypeOK
<1>3. CASE \E n \in Jobs : Worker(n) \/ ExecEnds(n)
  BY <1>1, <1>3, TypesWorker
<1>4. CASE (\E form \in Forms : Save(form)) \/ \E c \in {"rag", "monitoring"} : Start(c)
  BY <1>1, <1>4, TypesSave, TypesStart
<1>5. QED
  BY <1>1, <1>2, <1>3, <1>4, TypesBackup, TypesTruncate, TypesWrite, TypesSync, TypesLog, TypesRag,
     TypesLaunch, TypesCrash DEF Next, Handler


(* --------------------------- counters and lines -------------------------- *)

LEMMA SettingLines ==
  ASSUME TypeOK, NEW c \in changes, c.kind = "setting"
  PROVE  c.n \in Nat /\ c.key \in Key
<1>1. c \in Change
  BY DEF TypeOK
<1>2. "setting" # "restart" /\ "setting" # "job"
  OBVIOUS
<1>3. c \in [kind : {"setting"}, n : 1..MaxOps, key : Key, old : Value \cup {None},
             new : Value \cup {None}]
  BY <1>1, <1>2 DEF Change
<1>4. QED
  BY <1>3

LEMMA CountingSteady ==
  ASSUME TypeOK, Counting, snap' = snap,
         count'.saves \in Nat, count'.saves >= count.saves,
         count'.boots \in Nat, count'.boots >= count.boots,
         handler'.at \in Saving => handler.at \in Saving,
         handler'.at = "restarted" => handler.at = "restarted",
         \A c \in changes' : c.kind = "setting" => c \in changes \/ c.n = count.saves
  PROVE  Counting'
<1>1. /\ handler'.at \in Saving => count'.saves > 0
      /\ handler'.at = "restarted" => count'.boots > 0
  BY Numbers DEF Counting
<1>2. snap.boot \in Nat /\ snap'.boot <= count'.boots
  BY Numbers DEF Counting, TypeOK
<1>3. ASSUME NEW c \in changes', c.kind = "setting"
      PROVE  c.n <= count'.saves
  <2>1. CASE c \in changes
    BY <1>3, <2>1, SettingLines, Numbers DEF Counting
  <2>2. CASE c.n = count.saves
    BY <2>2, Numbers
  <2>3. QED
    BY <1>3, <2>1, <2>2
<1>4. QED
  BY <1>1, <1>2, <1>3 DEF Counting, Saving

LEMMA CountingSaving ==
  ASSUME TypeOK, Counting, Backup \/ Truncate \/ Write \/ Sync \/ LogChange
  PROVE  Counting'
<1>1. UNCHANGED count \/ Fault
  BY Zenon DEF Backup, Truncate, Write, Sync, LogChange
<1>2. count'.saves = count.saves /\ count'.boots = count.boots
  BY <1>1, Faulted
<1>3. snap' = snap /\ handler.at \in Saving
  BY DEF Backup, Truncate, Write, Sync, LogChange, rag, Saving
<1>4. handler'.at # "restarted"
  <2>1. (\E l \in {"truncate", "write", "sync", "log"} : Goto(l)) \/ (\E b \in {"saved", "500"} : Answer(b))
        \/ \E k \in handler.left : handler' = [handler EXCEPT !.left = @ \ {k}]
    BY Zenon DEF Backup, Truncate, Write, Sync, LogChange
  <2>2. QED
    BY <1>3, <2>1, Moved, Answered, HandlerTyped DEF Handlers, HandlerAt, Saving
<1>5. changes' = changes \/ \E k \in handler.left : changes' = changes \cup {SettingChange(k)}
  BY Zenon DEF Backup, Truncate, Write, Sync, LogChange
<1>6. \A k \in handler.left : SettingChange(k).n = count.saves
  BY DEF SettingChange
<1>7. QED
  BY <1>2, <1>3, <1>4, <1>5, <1>6, Numbers, CountingSteady

LEMMA CountingKept ==
  ASSUME ConsoleInv, [Next]_vars
  PROVE  Counting'
<1>1. TypeOK /\ Counting /\ OneJob
  BY DEF ConsoleInv, JobInv
<1>2. CASE Backup \/ Truncate \/ Write \/ Sync \/ LogChange
  BY <1>1, <1>2, CountingSaving
<1>3. ASSUME NEW form \in Forms, Save(form)
      PROVE  Counting'
  <2>1. /\ UNCHANGED <<settings, rag, changes, jobs, fresh>> /\ Bump("saves") /\ MoreOps
    BY <1>3 DEF Save
  <2>2. count'.saves = count.saves + 1 /\ count'.boots = count.boots
    BY <1>1, <2>1, Counted
  <2>3. handler'.at # "restarted"
    BY <1>3 DEF Save, Answer, Idle
  <2>4. snap.boot <= count.boots /\ \A c \in changes : c.kind = "setting" => c.n <= count.saves
    BY <1>1 DEF Counting
  <2>5. ASSUME NEW c \in changes, c.kind = "setting"
        PROVE  c.n <= count'.saves
    BY <1>1, <2>2, <2>4, <2>5, SettingLines, Numbers
  <2>6. snap' = snap /\ changes' = changes /\ count'.saves > 0
    BY <1>1, <2>1, <2>2, Numbers DEF rag
  <2>7. QED
    BY <2>2, <2>3, <2>4, <2>5, <2>6 DEF Counting
<1>4. CASE Restart \/ RagDies
  <2>1. /\ Boot /\ changes' = changes
        /\ UNCHANGED handler \/ (handler.at = "idle" /\ Goto("restarted"))
    BY <1>4 DEF Restart, RagDies
  <2>2. /\ count'.boots = count.boots + 1 /\ count'.saves = count.saves
        /\ snap' = [boot |-> count.boots + 1, vals |-> eff'] \/ snap' = snap
    BY <1>1, <2>1, Booted
  <2>3. snap.boot \in Nat /\ snap.boot <= count.boots
    BY <1>1 DEF TypeOK, Counting
  <2>4. snap'.boot <= count'.boots /\ count'.boots > 0
    BY <1>1, <2>2, <2>3, Numbers
  <2>5. handler'.at \in Saving => handler.at \in Saving
    BY <1>1, <2>1, Moved DEF HandlerAt, Saving
  <2>6. QED
    BY <1>1, <2>1, <2>2, <2>4, <2>5 DEF Counting, Saving
<1>5. ASSUME NEW n \in Jobs, Worker(n) \/ ExecEnds(n)
      PROVE  Counting'
  BY <1>1, <1>5, WorkerRest, Numbers, CountingSteady DEF rag
<1>6. CASE LogRestart \/ Launch \/ \E c \in {"rag", "monitoring"} : Start(c)
  <2>1. snap' = snap /\ (UNCHANGED count \/ Fault \/ (Bump("jobs") /\ MoreOps /\ count.jobs < MaxJobs))
    <3>1. ASSUME LogRestart \/ Launch
          PROVE  snap' = snap /\ (UNCHANGED count \/ Fault)
      BY <3>1 DEF LogRestart, Launch, rag
    <3>2. ASSUME NEW c \in {"rag", "monitoring"}, Start(c)
          PROVE  snap' = snap /\ Bump("jobs") /\ MoreOps /\ count.jobs < MaxJobs
      BY <3>2 DEF Start, rag
    <3>3. QED
      BY <1>6, <3>1, <3>2
  <2>2. count'.saves = count.saves /\ count'.boots = count.boots
    BY <1>1, <2>1, Faulted, Counted
  <2>3. handler'.at = "idle" \/ handler'.at = "job"
    BY <1>1, <1>6, Moved DEF LogRestart, Launch, Start, Idle, HandlerAt
  <2>4. /\ changes' \subseteq changes \cup {[kind |-> "restart", n |-> count.boots]} \cup {Started(job.n)}
        /\ Started(job.n).kind # "setting"
    BY <1>6 DEF LogRestart, Launch, Start, Started
  <2>5. \A c \in changes' : c.kind = "setting" => c \in changes
    BY <2>4
  <2>6. QED
    BY <1>1, <2>1, <2>2, <2>3, <2>5, Numbers, CountingSteady DEF Saving, rag
<1>7. CASE Crash
  <2>1. Bump("crashes") /\ handler'.at = "idle" /\ snap' = snap /\ changes' = changes
    BY <1>7 DEF Crash, Idle, rag
  <2>2. count'.saves = count.saves /\ count'.boots = count.boots
    BY <1>1, <2>1, Numbers DEF Bump, Counts
  <2>3. QED
    BY <1>1, <2>1, <2>2, Numbers, CountingSteady DEF Saving
<1>8. CASE UNCHANGED vars
  BY <1>1, <1>8 DEF vars, Counting
<1>9. QED
  BY <1>2, <1>3, <1>4, <1>5, <1>6, <1>7, <1>8 DEF Next, Handler


(* The lines of a key, as an operator of the set of lines. *)
LineIn(C, k, v) ==
  LET L == {c \in C : c.kind = "setting" /\ c.key = k}
  IN  \/ L = {} /\ v = Deployed[k]
      \/ \E c \in L : c.new = v /\ \A d \in L : d.n <= c.n

LEMMA LineForIsLineIn ==
  /\ \A k, v : LineFor(k, v) <=> LineIn(changes, k, v)
  /\ Logging <=>
       /\ handler.at \notin {"write", "sync", "log"} =>
            \A k \in Key \ unlogged : LineIn(changes, k, env.vals[k])
       /\ handler.at = "write" =>
            \A k \in Key \ unlogged : LineIn(changes, k, handler.original.vals[k])
       /\ handler.at \in {"sync", "log"} =>
            \A k \in Key \ (unlogged \cup handler.left) : LineIn(changes, k, env.vals[k])
BY Zenon DEF LineFor, Lines, LineIn, Logging

LEMMA LineForIsLineInNext ==
  Logging' <=>
       /\ handler'.at \notin {"write", "sync", "log"} =>
            \A k \in Key \ unlogged' : LineIn(changes', k, env'.vals[k])
       /\ handler'.at = "write" =>
            \A k \in Key \ unlogged' : LineIn(changes', k, handler'.original.vals[k])
       /\ handler'.at \in {"sync", "log"} =>
            \A k \in Key \ (unlogged' \cup handler'.left) : LineIn(changes', k, env'.vals[k])
BY Zenon DEF LineFor, Lines, LineIn, Logging

LEMMA LineKept ==
  ASSUME NEW C, NEW D, \A c \in D : c.kind = "setting" => c \in C, C \subseteq D,
         NEW k, NEW v, LineIn(C, k, v)
  PROVE  LineIn(D, k, v)
<1>1. {c \in C : c.kind = "setting" /\ c.key = k} = {c \in D : c.kind = "setting" /\ c.key = k}
  OBVIOUS
<1>2. QED
  BY <1>1 DEF LineIn

\* A new line speaks for its key and leaves the others alone.
LEMMA LineAdded ==
  ASSUME NEW C, NEW s, s.kind = "setting",
         s.n \in Nat, \A c \in C : c.kind = "setting" => c.n <= s.n
  PROVE  /\ LineIn(C \cup {s}, s.key, s.new)
         /\ \A k, v : k # s.key /\ LineIn(C, k, v) => LineIn(C \cup {s}, k, v)
<1>1. LineIn(C \cup {s}, s.key, s.new)
  BY DEF LineIn
<1>2. ASSUME NEW k, NEW v, k # s.key, LineIn(C, k, v)
      PROVE  LineIn(C \cup {s}, k, v)
  <2>1. {c \in C \cup {s} : c.kind = "setting" /\ c.key = k} = {c \in C : c.kind = "setting" /\ c.key = k}
    BY <1>2
  <2>2. QED
    BY <1>2, <2>1 DEF LineIn
<1>3. QED
  BY <1>1, <1>2


(* ----------------------------- the settings ------------------------------ *)

\* A step that leaves the settings files and rag-api alone, and adds no line of a setting.
LEMMA SaveInvAside ==
  ASSUME TypeOK, SaveInv, UNCHANGED <<settings, rag, fresh>>, count'.boots = count.boots,
         handler'.at \notin Saving \/ handler' = handler,
         handler.at \notin {"write", "sync", "log"} \/ handler' = handler,
         changes \subseteq changes', \A c \in changes' : c.kind = "setting" => c \in changes
  PROVE  SaveInv'
<1>1. /\ env' = env /\ backups' = backups /\ runtime' = runtime /\ torn' = torn
      /\ complete' = complete /\ unlogged' = unlogged /\ eff' = eff /\ snap' = snap /\ fresh' = fresh
  BY DEF settings, rag
<1>2. SavePath /\ EnvRecoverable /\ Running /\ Logging
  BY DEF SaveInv
<1>3. SavePath'
  BY <1>1, <1>2 DEF SavePath, Saving
<1>4. EnvRecoverable' /\ Running'
  BY <1>1, <1>2 DEF EnvRecoverable, Running, Loaded
<1>5. \A k, v : LineIn(changes, k, v) => LineIn(changes', k, v)
  BY LineKept
<1>6. Logging'
  <2>1. CASE handler' = handler
    BY <1>1, <1>2, <1>5, <2>1, LineForIsLineIn, LineForIsLineInNext
  <2>2. CASE handler'.at \notin Saving /\ handler.at \notin {"write", "sync", "log"}
    BY <1>1, <1>2, <1>5, <2>2, LineForIsLineIn, LineForIsLineInNext DEF Saving
  <2>3. QED
    BY <2>1, <2>2
<1>7. QED
  BY <1>3, <1>4, <1>6 DEF SaveInv

LEMMA SaveInvSave ==
  ASSUME TypeOK, SaveInv, NEW form \in Forms, Save(form)
  PROVE  SaveInv'
<1>1. /\ UNCHANGED <<settings, rag, changes, jobs, fresh>> /\ Bump("saves") /\ MoreOps
      /\ handler.at = "idle"
  BY DEF Save
<1>2. count'.boots = count.boots
  BY <1>1, Counted
<1>3. CASE Answer("error") \/ Answer("saved")
  <2>1. handler'.at = "idle"
    BY <1>3, Answered
  <2>2. QED
    BY <1>1, <1>2, <2>1, SaveInvAside DEF Saving
<1>4. CASE handler' = [at |-> "backup", original |-> env, left |-> Todo(form),
                       new |-> [env EXCEPT !.vals = [k \in Key |-> IF k \in Todo(form)
                                                       THEN form[k] ELSE env.vals[k]]]]
  <2>1. /\ handler'.at = "backup" /\ handler'.original = env /\ handler'.left = Todo(form)
        /\ handler'.new = [env EXCEPT !.vals = [k \in Key |-> IF k \in Todo(form)
                                                  THEN form[k] ELSE env.vals[k]]]
    BY <1>4
  <2>2. env \in File
    BY DEF TypeOK
  <2>3. handler'.new.vals = [k \in Key |-> IF k \in Todo(form) THEN form[k] ELSE env.vals[k]]
    BY <2>1, <2>2 DEF File
  <2>4. \A k \in Key \ handler'.left : handler'.new.vals[k] = handler'.original.vals[k]
    BY <2>1, <2>3
  <2>5. /\ env' = env /\ backups' = backups /\ runtime' = runtime /\ torn' = torn
        /\ complete' = complete /\ unlogged' = unlogged /\ eff' = eff /\ snap' = snap /\ fresh' = fresh
        /\ changes' = changes
    BY <1>1 DEF settings, rag
  <2>6. SavePath'
    BY <2>1, <2>4, <2>5 DEF SavePath, Saving
  <2>7. EnvRecoverable' /\ Running'
    BY <1>2, <2>5 DEF SaveInv, EnvRecoverable, Running, Loaded
  <2>8. Logging'
    BY <1>1, <2>1, <2>5, LineForIsLineIn, LineForIsLineInNext DEF SaveInv
  <2>9. QED
    BY <2>6, <2>7, <2>8 DEF SaveInv
<1>5. QED
  BY <1>3, <1>4 DEF Save

LEMMA SaveInvBackup ==
  ASSUME TypeOK, SaveInv, Backup
  PROVE  SaveInv'
<1>1. /\ handler.at = "backup"
      /\ env' = env /\ runtime' = runtime /\ torn' = torn
      /\ complete' = complete /\ unlogged' = unlogged /\ eff' = eff /\ snap' = snap /\ fresh' = fresh
      /\ changes' = changes
  BY DEF Backup, rag
<1>2. CASE backups' = backups \cup {env} /\ Goto("truncate") /\ UNCHANGED <<count, banner>>
  <2>1. /\ handler'.at = "truncate" /\ handler'.original = handler.original
        /\ handler'.new = handler.new /\ handler'.left = handler.left
    BY <1>2, Moved DEF HandlerAt
  <2>2. complete \in backups'
    BY <1>2 DEF SaveInv, EnvRecoverable
  <2>3. SavePath'
    BY <1>1, <2>1, <2>2 DEF SaveInv, SavePath, Saving
  <2>4. EnvRecoverable' /\ Running'
    BY <1>1, <1>2, <2>2 DEF SaveInv, EnvRecoverable, Running, Loaded
  <2>5. Logging'
    BY <1>1, <2>1, LineForIsLineIn, LineForIsLineInNext DEF SaveInv
  <2>6. QED
    BY <2>3, <2>4, <2>5 DEF SaveInv
<1>3. CASE Fault /\ Answer("500") /\ UNCHANGED backups
  <2>1. handler'.at = "idle" /\ count'.boots = count.boots
    BY <1>3, Answered, Faulted
  <2>2. UNCHANGED <<settings, rag, fresh>>
    BY <1>1, <1>3 DEF settings, rag
  <2>3. QED
    BY <1>1, <2>1, <2>2, SaveInvAside DEF Saving
<1>4. QED
  BY <1>2, <1>3 DEF Backup

LEMMA SaveInvTruncate ==
  ASSUME TypeOK, SaveInv, Truncate
  PROVE  SaveInv'
<1>1. /\ handler.at = "truncate" /\ torn' = TRUE /\ fresh' = FALSE /\ Goto("write")
      /\ UNCHANGED <<backups, runtime, complete, unlogged, count, changes>>
      /\ eff' = eff /\ snap' = snap
  BY DEF Truncate, rag
<1>2. /\ handler'.at = "write" /\ handler'.original = handler.original
      /\ handler'.new = handler.new /\ handler'.left = handler.left
  BY <1>1, Moved DEF HandlerAt
<1>3. SavePath'
  BY <1>1, <1>2 DEF SaveInv, SavePath, Saving
<1>4. EnvRecoverable' /\ Running'
  BY <1>1 DEF SaveInv, SavePath, EnvRecoverable, Running
<1>5. Logging'
  BY <1>1, <1>2, LineForIsLineIn, LineForIsLineInNext DEF SaveInv, SavePath
<1>6. QED
  BY <1>3, <1>4, <1>5 DEF SaveInv

LEMMA SaveInvWrite ==
  ASSUME TypeOK, SaveInv, Write
  PROVE  SaveInv'
<1>1. /\ handler.at = "write" /\ UNCHANGED <<backups, runtime, torn, changes, fresh>>
      /\ eff' = eff /\ snap' = snap
  BY DEF Write, rag
<1>2. torn = TRUE /\ complete \in backups
  BY <1>1 DEF SaveInv, SavePath, TypeOK
<1>3. CASE /\ env' = handler.new /\ complete' = (IF env'.whole THEN env' ELSE complete)
           /\ Goto("sync") /\ UNCHANGED <<count, banner, unlogged>>
  <2>1. /\ handler'.at = "sync" /\ handler'.original = handler.original
        /\ handler'.new = handler.new /\ handler'.left = handler.left
    BY <1>3, Moved DEF HandlerAt
  <2>2. SavePath'
    BY <1>1, <1>2, <1>3, <2>1 DEF SaveInv, SavePath, Saving
  <2>3. EnvRecoverable' /\ Running'
    BY <1>1, <1>2, <1>3 DEF SaveInv, EnvRecoverable, Running
  <2>4. \A k \in Key \ handler.left : env'.vals[k] = handler.original.vals[k]
    BY <1>1, <1>3 DEF SaveInv, SavePath, Saving
  <2>5. Logging'
    BY <1>1, <1>3, <2>1, <2>4, LineForIsLineIn, LineForIsLineInNext DEF SaveInv
  <2>6. QED
    BY <2>2, <2>3, <2>5 DEF SaveInv
<1>4. CASE Fault /\ unlogged' = Key /\ Answer("500") /\ UNCHANGED complete
  <2>1. handler'.at = "idle" /\ count'.boots = count.boots
    BY <1>4, Answered, Faulted
  <2>2. SavePath'
    BY <2>1 DEF SavePath, Saving
  <2>3. EnvRecoverable' /\ Running'
    BY <1>1, <1>2, <1>4, <2>1 DEF SaveInv, EnvRecoverable, Running
  <2>4. Logging'
    BY <1>4, <2>1, LineForIsLineInNext
  <2>5. QED
    BY <2>2, <2>3, <2>4 DEF SaveInv
<1>5. QED
  BY <1>3, <1>4 DEF Write

LEMMA SaveInvSync ==
  ASSUME TypeOK, SaveInv, Sync
  PROVE  SaveInv'
<1>1. /\ handler.at = "sync" /\ UNCHANGED <<env, backups, complete, changes>>
      /\ eff' = eff /\ snap' = snap
  BY DEF Sync, rag
<1>2. CASE /\ runtime' = env.vals /\ torn' = FALSE /\ fresh' = FALSE
           /\ Goto("log") /\ UNCHANGED <<count, banner, unlogged>>
  <2>1. /\ handler'.at = "log" /\ handler'.original = handler.original
        /\ handler'.new = handler.new /\ handler'.left = handler.left
    BY <1>2, Moved DEF HandlerAt
  <2>2. SavePath'
    BY <1>1, <1>2, <2>1 DEF SaveInv, SavePath, Saving
  <2>3. EnvRecoverable' /\ Running'
    BY <1>1, <1>2 DEF SaveInv, EnvRecoverable, Running
  <2>4. Logging'
    BY <1>1, <1>2, <2>1, LineForIsLineIn, LineForIsLineInNext DEF SaveInv
  <2>5. QED
    BY <2>2, <2>3, <2>4 DEF SaveInv
<1>3. CASE /\ Fault /\ unlogged' = unlogged \cup handler.left
           /\ Answer("500") /\ UNCHANGED <<runtime, torn, fresh>>
  <2>1. handler'.at = "idle" /\ count'.boots = count.boots
    BY <1>3, Answered, Faulted
  <2>2. SavePath'
    BY <2>1 DEF SavePath, Saving
  <2>3. EnvRecoverable' /\ Running'
    BY <1>1, <1>3, <2>1 DEF SaveInv, EnvRecoverable, Running, Loaded
  <2>4. Logging'
    BY <1>1, <1>3, <2>1, LineForIsLineIn, LineForIsLineInNext DEF SaveInv
  <2>5. QED
    BY <2>2, <2>3, <2>4 DEF SaveInv
<1>4. QED
  BY <1>2, <1>3 DEF Sync


LEMMA SaveInvLog ==
  ASSUME TypeOK, Counting, SaveInv, LogChange
  PROVE  SaveInv'
<1>1. /\ handler.at = "log" /\ UNCHANGED <<env, backups, runtime, torn, complete, fresh>>
      /\ eff' = eff /\ snap' = snap
  BY DEF LogChange, rag
<1>2. /\ env = handler.new /\ count.saves > 0
      /\ \A k \in Key \ (unlogged \cup handler.left) : LineIn(changes, k, env.vals[k])
  BY <1>1, LineForIsLineIn DEF SaveInv, SavePath, Counting, Saving
<1>3. ASSUME NEW k \in handler.left,
             changes' = changes \cup {SettingChange(k)}, unlogged' = unlogged \ {k}, UNCHANGED count,
             IF handler.left = {k} THEN Answer("saved")
             ELSE handler' = [handler EXCEPT !.left = @ \ {k}] /\ UNCHANGED banner
      PROVE  SaveInv'
  <2>1. k \in Key
    BY HandlerTyped DEF Handlers
  <2>2. /\ SettingChange(k).kind = "setting" /\ SettingChange(k).key = k
        /\ SettingChange(k).n = count.saves /\ SettingChange(k).new = env.vals[k]
    BY <1>2, <2>1, SettingChangeTyped
  <2>3. \A c \in changes : c.kind = "setting" => c.n <= SettingChange(k).n
    BY <2>2 DEF Counting
  <2>4. /\ LineIn(changes', k, env.vals[k])
        /\ \A j, v : j # k /\ LineIn(changes, j, v) => LineIn(changes', j, v)
    BY <1>3, <2>2, <2>3, LineAdded, Numbers
  <2>5. /\ handler'.at \in {"idle", "log"}
        /\ handler'.at = "idle" => handler.left = {k}
        /\ handler'.at = "log" => /\ handler'.new = handler.new /\ handler'.original = handler.original
                                  /\ handler'.left = handler.left \ {k}
    <3>1. CASE handler.left = {k}
      BY <1>3, <3>1, Answered
    <3>2. CASE handler.left # {k}
      BY <1>1, <1>3, <3>2, HandlerTyped DEF Handlers
    <3>3. QED
      BY <3>1, <3>2
  <2>6. SavePath'
    BY <1>1, <1>2, <2>5 DEF SavePath, Saving
  <2>7. EnvRecoverable' /\ Running'
    BY <1>1, <1>3 DEF SaveInv, EnvRecoverable, Running, Loaded
  <2>8. Logging'
    BY <1>1, <1>2, <1>3, <2>4, <2>5, LineForIsLineInNext
  <2>9. QED
    BY <2>6, <2>7, <2>8 DEF SaveInv
<1>4. CASE Fault /\ Answer("500") /\ unlogged' = unlogged \cup handler.left /\ UNCHANGED changes
  <2>1. handler'.at = "idle" /\ count'.boots = count.boots
    BY <1>4, Answered, Faulted
  <2>2. SavePath'
    BY <2>1 DEF SavePath, Saving
  <2>3. EnvRecoverable' /\ Running'
    BY <1>1, <2>1 DEF SaveInv, EnvRecoverable, Running, Loaded
  <2>4. Logging'
    BY <1>1, <1>2, <1>4, <2>1, LineForIsLineInNext
  <2>5. QED
    BY <2>2, <2>3, <2>4 DEF SaveInv
<1>5. QED
  BY <1>3, <1>4 DEF LogChange

LEMMA SaveInvBoot ==
  ASSUME TypeOK, Counting, SaveInv, Restart \/ RagDies
  PROVE  SaveInv'
<1>1. /\ Boot /\ UNCHANGED settings /\ changes' = changes
      /\ handler' = handler \/ (handler.at = "idle" /\ Goto("restarted"))
  BY DEF Restart, RagDies
<1>2. /\ env' = env /\ backups' = backups /\ runtime' = runtime /\ torn' = torn
      /\ complete' = complete /\ unlogged' = unlogged
  BY <1>1 DEF settings
<1>3. handler' = handler \/ (handler.at = "idle" /\ handler'.at = "restarted")
  BY <1>1, Moved DEF HandlerAt
<1>4. SavePath' /\ EnvRecoverable'
  BY <1>2, <1>3 DEF SaveInv, SavePath, EnvRecoverable, Saving
<1>5. Running'
  <2>1. /\ eff' = Loaded(runtime) /\ count'.boots = count.boots + 1
        /\ snap' = [boot |-> count.boots + 1, vals |-> eff'] \/ snap' = snap
    BY <1>1, Booted
  <2>2. snap.boot \in Nat /\ snap.boot <= count.boots
    BY DEF TypeOK, Counting
  <2>3. snap'.boot = count'.boots => snap'.vals = eff'
    <3>1. CASE snap' = [boot |-> count.boots + 1, vals |-> eff']
      BY <3>1
    <3>2. CASE snap' = snap
      BY <2>1, <2>2, <3>2, Numbers
    <3>3. QED
      BY <2>1, <3>1, <3>2
  <2>4. ~torn' => runtime' = env'.vals /\ eff' = Loaded(env'.vals)
    BY <1>2, <2>1 DEF SaveInv, Running
  <2>5. QED
    BY <2>3, <2>4 DEF Running, Loaded
<1>6. Logging'
  BY <1>1, <1>2, <1>3, LineForIsLineIn, LineForIsLineInNext DEF SaveInv
<1>7. QED
  BY <1>4, <1>5, <1>6 DEF SaveInv

LEMMA SaveInvCrash ==
  ASSUME TypeOK, SaveInv, Crash
  PROVE  SaveInv'
<1>1. /\ Bump("crashes") /\ handler'.at = "idle"
      /\ UNCHANGED <<backups, runtime, torn, complete, changes, fresh>> /\ eff' = eff /\ snap' = snap
  BY DEF Crash, Idle, rag
<1>2. count'.boots = count.boots
  BY <1>1, Numbers DEF Bump, Counts
<1>3. SavePath'
  BY <1>1 DEF SavePath, Saving
<1>4. CASE handler.at = "write"
  <2>1. unlogged' = Key /\ torn = TRUE /\ complete \in backups
    BY <1>4 DEF Crash, SaveInv, SavePath, TypeOK
  <2>2. EnvRecoverable' /\ Running'
    BY <1>1, <1>2, <2>1 DEF SaveInv, EnvRecoverable, Running
  <2>3. Logging'
    BY <1>1, <2>1, LineForIsLineInNext
  <2>4. QED
    BY <1>3, <2>2, <2>3 DEF SaveInv
<1>5. CASE handler.at # "write"
  <2>1. /\ env' = env
        /\ unlogged' = unlogged \cup (IF handler.at \in {"sync", "log"} THEN handler.left ELSE {})
    BY <1>5 DEF Crash
  <2>2. EnvRecoverable' /\ Running'
    BY <1>1, <1>2, <2>1 DEF SaveInv, EnvRecoverable, Running, Loaded
  <2>3. Logging'
    BY <1>1, <1>5, <2>1, LineForIsLineIn, LineForIsLineInNext DEF SaveInv
  <2>4. QED
    BY <1>3, <2>2, <2>3 DEF SaveInv
<1>6. QED
  BY <1>4, <1>5

LEMMA SaveInvKept ==
  ASSUME ConsoleInv, [Next]_vars
  PROVE  SaveInv'
<1>1. TypeOK /\ Counting /\ SaveInv
  BY DEF ConsoleInv
<1>2. ASSUME NEW n \in Jobs, Worker(n) \/ ExecEnds(n)
      PROVE  SaveInv'
  BY <1>1, <1>2, WorkerRest, SaveInvAside
<1>3. CASE LogRestart \/ Launch
  <2>1. /\ UNCHANGED <<settings, rag, fresh>> /\ (UNCHANGED count \/ Fault)
        /\ handler.at \in {"restarted", "job"} /\ handler'.at = "idle"
    BY <1>3 DEF LogRestart, Launch, Idle
  <2>2. /\ changes \subseteq changes'
        /\ changes' \subseteq changes \cup {[kind |-> "restart", n |-> count.boots]} \cup {Started(job.n)}
        /\ Started(job.n).kind # "setting"
    BY <1>3 DEF LogRestart, Launch, Started
  <2>3. count'.boots = count.boots
    BY <1>1, <2>1, Faulted
  <2>4. QED
    BY <1>1, <2>1, <2>2, <2>3, SaveInvAside DEF Saving
<1>4. ASSUME NEW c \in {"rag", "monitoring"}, Start(c)
      PROVE  SaveInv'
  <2>1. /\ UNCHANGED <<settings, rag, fresh, changes>> /\ handler.at = "idle" /\ Goto("job")
        /\ Bump("jobs") /\ MoreOps /\ count.jobs < MaxJobs
    BY <1>4 DEF Start
  <2>2. handler'.at = "job" /\ count'.boots = count.boots
    BY <1>1, <2>1, Moved, Counted DEF HandlerAt
  <2>3. QED
    BY <1>1, <2>1, <2>2, SaveInvAside DEF Saving
<1>5. CASE UNCHANGED vars
  BY <1>1, <1>5, SaveInvAside DEF vars, settings, rag
<1>6. QED
  BY <1>1, <1>2, <1>3, <1>4, <1>5, SaveInvSave, SaveInvBackup, SaveInvTruncate, SaveInvWrite,
     SaveInvSync, SaveInvLog, SaveInvBoot, SaveInvCrash DEF Next, Handler


(* -------------------------------- the jobs -------------------------------- *)

\* A step that leaves job, threads and processes alone and adds lines only.
LEMMA JobInvAside ==
  ASSUME TypeOK, JobInv, UNCHANGED jobs, count'.jobs = count.jobs, changes \subseteq changes',
         handler'.at = "job" => handler.at = "job"
  PROVE  JobInv'
<1>1. job' = job /\ worker' = worker /\ exec' = exec /\ finished' = finished /\ lost' = lost
  BY DEF jobs
<1>2. OneJob'
  BY <1>1 DEF JobInv, OneJob, Busy
<1>3. Asked' /\ Followed' /\ Outcomes'
  BY <1>1 DEF JobInv, Asked, Followed, Outcomes, DoneIsDone
<1>4. JobLines'
  BY <1>1 DEF JobInv, JobLines, Started
<1>5. QED
  BY <1>2, <1>3, <1>4 DEF JobInv

LEMMA JobInvBoot ==
  ASSUME TypeOK, JobInv, Restart \/ RagDies
  PROVE  JobInv'
<1>1. /\ Boot /\ changes' = changes /\ job' = job /\ worker' = worker
      /\ finished' = finished /\ lost' = lost
      /\ handler' = handler \/ Goto("restarted")
  BY DEF Restart, RagDies
<1>2. handler'.at = "job" => handler.at = "job"
  BY <1>1, Moved DEF HandlerAt
<1>3. /\ count'.jobs = count.jobs
      /\ \A n \in Jobs : exec'[n] = exec[n] \/ (exec[n].state = "running" /\ exec'[n].state = "failed")
  BY <1>1, Booted
<1>4. OneJob'
  BY <1>1, <1>2, <1>3 DEF JobInv, OneJob, Busy
<1>5. Asked' /\ Followed'
  BY <1>1, <1>2, <1>3 DEF JobInv, OneJob, Asked, Followed
<1>6. Outcomes'
  <2>1. \A n \in Jobs : exec[n].state = "ok" => exec'[n].state = "ok"
    BY <1>3
  <2>2. \A r \in finished : r.n \in Jobs
    BY JobsTyped
  <2>3. QED
    BY <1>1, <2>1, <2>2 DEF JobInv, Outcomes, DoneIsDone
<1>7. JobLines'
  BY <1>1, <1>3 DEF JobInv, JobLines, Started
<1>8. QED
  BY <1>4, <1>5, <1>6, <1>7 DEF JobInv

LEMMA JobInvStart ==
  ASSUME TypeOK, JobInv, NEW c \in {"rag", "monitoring"}, Start(c)
  PROVE  JobInv'
<1> DEFINE m == count.jobs + 1
<1>1. /\ handler.at = "idle" /\ ~Busy /\ count.jobs < MaxJobs /\ MoreOps /\ Bump("jobs")
      /\ job' = [n |-> m, state |-> "running"]
      /\ exec' = [exec EXCEPT ![m] = [in |-> c, state |-> "asked"]]
      /\ changes' = changes /\ worker' = worker /\ finished' = finished /\ lost' = lost
  BY DEF Start
<1>2. m \in Jobs /\ count'.jobs = m /\ count.jobs \in Nat
  BY <1>1, Counted, Numbers DEF Jobs
<1>3. /\ \A n \in Jobs \ {m} : exec'[n] = exec[n]
      /\ exec'[m].state = "asked" /\ exec[m].state = "none"
  BY <1>1, <1>2, JobsTyped DEF JobInv, OneJob
<1> HIDE DEF m
<1>4. \A n \in Jobs : worker'[n].at \notin Active
  BY <1>1 DEF JobInv, OneJob
<1>5. OneJob'
  <2>1. \A n \in Jobs : exec'[n].state # "none" => n <= m
    BY <1>2, <1>3, JobsTyped DEF JobInv, OneJob, m
  <2>2. job'.n = m /\ job'.state = "running"
    BY <1>1
  <2>3. m <= m
    BY <1>2 DEF m
  <2>4. QED
    BY <1>2, <1>4, <2>1, <2>2, <2>3 DEF OneJob, Busy
<1>6. Asked' /\ Followed'
  <2>1. job'.n = m /\ worker'[m].at # "create"
    BY <1>1, <1>2, <1>4 DEF Active
  <2>2. QED
    BY <1>1, <1>3, <2>1 DEF JobInv, Asked, Followed
<1>7. Outcomes'
  <2>1. \A n \in Jobs : exec[n].state = "ok" => exec'[n].state = "ok"
    BY <1>3
  <2>2. \A r \in finished : r.n \in Jobs
    BY JobsTyped
  <2>3. QED
    BY <1>1, <2>1, <2>2 DEF JobInv, Outcomes, DoneIsDone
<1>8. JobLines'
  <2>1. worker'[m].at # "create"
    BY <1>2, <1>4 DEF Active
  <2>2. QED
    BY <1>1, <1>3, <2>1 DEF JobInv, JobLines, Started
<1>9. QED
  BY <1>5, <1>6, <1>7, <1>8 DEF JobInv

LEMMA JobInvLaunch ==
  ASSUME TypeOK, JobInv, Launch
  PROVE  JobInv'
<1>1. /\ handler.at = "job" /\ handler'.at = "idle"
      /\ job' = job /\ exec' = exec /\ finished' = finished /\ lost' = lost
  BY DEF Launch, Idle
<1>2. /\ Busy /\ job.n \in Jobs /\ \A n \in Jobs : worker[n].at \notin Active
  BY <1>1 DEF JobInv, OneJob
<1>3. CASE /\ changes' = changes \cup {Started(job.n)}
           /\ worker' = [worker EXCEPT ![job.n].at = "create"] /\ UNCHANGED count
  <2>1. /\ worker'[job.n].at = "create"
        /\ \A n \in Jobs \ {job.n} : worker'[n] = worker[n]
    BY <1>2, <1>3, JobsTyped DEF Workers
  <2>2. OneJob'
    BY <1>1, <1>2, <1>3, <2>1 DEF JobInv, OneJob, Busy
  <2>3. Asked' /\ Followed'
    BY <1>1, <1>2, <2>1 DEF JobInv, Asked, Followed, Active
  <2>4. Outcomes'
    BY <1>1, <2>1 DEF JobInv, Outcomes, DoneIsDone
  <2>5. JobLines'
    BY <1>1, <1>3, <2>1 DEF JobInv, JobLines, Started
  <2>6. QED
    BY <2>2, <2>3, <2>4, <2>5 DEF JobInv
<1>4. CASE Fault /\ UNCHANGED <<changes, worker>>
  BY <1>1, <1>4, Faulted, JobInvAside DEF jobs
<1>5. QED
  BY <1>3, <1>4 DEF Launch

LEMMA JobInvCrash ==
  ASSUME TypeOK, JobInv, Crash
  PROVE  JobInv'
<1>1. /\ handler'.at = "idle" /\ job' = NoJob /\ exec' = exec /\ changes' = changes
      /\ worker' = [n \in Jobs |-> [worker[n] EXCEPT !.at = "none"]]
      /\ lost' = lost \cup {n \in Jobs : worker[n].at \in {"watch", "inspect"}}
      /\ finished' = finished /\ Bump("crashes")
  BY DEF Crash, Idle
<1>2. \A n \in Jobs : worker'[n].at = "none"
  BY <1>1, JobsTyped DEF Workers
<1>3. count'.jobs = count.jobs /\ job'.n = 0 /\ job'.state = "none" /\ 0 <= count.jobs
  BY <1>1, Numbers DEF Bump, Counts, NoJob
<1>4. OneJob'
  BY <1>1, <1>2, <1>3 DEF JobInv, OneJob, Active
<1>5. Asked' /\ Followed'
  BY <1>1, <1>2 DEF JobInv, Asked, Followed
<1>6. Outcomes'
  BY <1>1, <1>2, <1>3 DEF JobInv, Outcomes, DoneIsDone
<1>7. JobLines'
  BY <1>1, <1>2 DEF JobInv, JobLines, Started
<1>8. QED
  BY <1>4, <1>5, <1>6, <1>7 DEF JobInv

LEMMA JobInvExecEnds ==
  ASSUME TypeOK, JobInv, NEW n \in Jobs, ExecEnds(n)
  PROVE  JobInv'
<1>1. exec[n].state = "running" /\ UNCHANGED <<handler, changes, job, worker, finished, count, lost>>
  BY DEF ExecEnds
<1>2. PICK s \in {"ok", "failed"} : exec' = [exec EXCEPT ![n].state = s]
  BY DEF ExecEnds
<1>3. /\ exec'[n].state \in {"ok", "failed"}
      /\ \A m \in Jobs \ {n} : exec'[m] = exec[m]
  BY <1>2, JobsTyped DEF Execs
<1>4. OneJob'
  BY <1>1, <1>3 DEF JobInv, OneJob, Busy
<1>5. Asked' /\ Followed'
  BY <1>1, <1>3 DEF JobInv, OneJob, Asked, Followed
<1>6. Outcomes'
  <2>1. \A m \in Jobs : exec[m].state = "ok" => exec'[m].state = "ok"
    BY <1>1, <1>3
  <2>2. \A r \in finished : r.n \in Jobs
    BY JobsTyped
  <2>3. QED
    BY <1>1, <2>1, <2>2 DEF JobInv, Outcomes, DoneIsDone
<1>7. JobLines'
  BY <1>1, <1>3 DEF JobInv, JobLines, Started
<1>8. QED
  BY <1>4, <1>5, <1>6, <1>7 DEF JobInv


LEMMA JobInvWorker ==
  ASSUME TypeOK, JobInv, NEW n \in Jobs, Worker(n)
  PROVE  JobInv'
<1>1. /\ handler' = handler /\ changes' = changes /\ count'.jobs = count.jobs
  BY WorkerRest
<1>2. /\ OneJob /\ Asked /\ Followed /\ Outcomes /\ JobLines
      /\ \A r \in finished : r.n \in Jobs
      /\ job.n \in Nat /\ count.jobs \in Nat
  BY JobsTyped, Numbers DEF JobInv
<1>3. CASE /\ worker[n].at = "create" /\ UNCHANGED <<job, finished>>
           /\ \/ /\ exec' = [exec EXCEPT ![n].state = "running"]
                 /\ Move(n, "watch", "none") /\ UNCHANGED lost
              \/ Move(n, "settle", "bad") /\ UNCHANGED <<exec, lost>>
              \/ /\ Move(n, "settle", "bad")
                 /\ exec' = [exec EXCEPT ![n].state = "running"] /\ lost' = lost \cup {n}
  <2>1. /\ job.n = n /\ Busy /\ handler.at # "job" /\ exec[n].state = "asked" /\ n <= count.jobs
        /\ Started(n) \in changes
    BY <1>2, <1>3 DEF OneJob, Asked, JobLines, Active
  <2>2. \A m \in Jobs \ {n} : worker'[m] = worker[m] /\ exec'[m] = exec[m]
    BY <1>3, MovedWorker, JobsTyped DEF WorkerAt, Execs
  <2>3. \/ worker'[n] = [at |-> "watch", code |-> "none"] /\ exec'[n].state = "running"
        \/ worker'[n] = [at |-> "settle", code |-> "bad"] /\ exec'[n] = exec[n]
        \/ worker'[n] = [at |-> "settle", code |-> "bad"] /\ n \in lost'
           /\ exec'[n].state = "running"
    BY <1>3, MovedWorker, JobsTyped DEF WorkerAt, Execs
  <2>4. OneJob'
    BY <1>1, <1>2, <1>3, <2>1, <2>2, <2>3 DEF OneJob, Busy
  <2>3a. lost \subseteq lost'
    BY <1>3
  <2>5. Asked' /\ Followed'
    BY <1>1, <1>2, <1>3, <2>1, <2>2, <2>3, <2>3a DEF Asked, Followed
  <2>6. Outcomes'
    BY <1>2, <1>3, <2>1, <2>2, <2>3 DEF Outcomes, DoneIsDone, Busy
  <2>7. JobLines'
    BY <1>1, <1>2, <2>1, <2>2 DEF JobLines, Started
  <2>8. QED
    BY <2>4, <2>5, <2>6, <2>7 DEF JobInv
<1>4. CASE /\ worker[n].at = "watch" /\ UNCHANGED <<job, finished, exec>>
           /\ \/ exec[n].state # "running" /\ Move(n, "inspect", "none") /\ UNCHANGED lost
              \/ /\ lost' = lost \cup {n}
                 /\ Move(n, "inspect", "none") \/ Move(n, "settle", "bad")
  <2>1. job.n = n /\ Busy /\ handler.at # "job"
    BY <1>2, <1>4 DEF OneJob, Active
  <2>2. \A m \in Jobs \ {n} : worker'[m] = worker[m]
    BY <1>4, MovedWorker DEF WorkerAt
  <2>3. \/ worker'[n] = [at |-> "inspect", code |-> "none"]
        \/ worker'[n] = [at |-> "settle", code |-> "bad"]
    BY <1>4, MovedWorker DEF WorkerAt
  <2>4. lost \subseteq lost' /\ (exec[n].state # "running" \/ n \in lost')
    BY <1>4
  <2>5. OneJob'
    BY <1>1, <1>2, <1>4, <2>1, <2>2, <2>3 DEF OneJob, Busy
  <2>6. Asked' /\ Followed'
    BY <1>1, <1>2, <1>4, <2>1, <2>2, <2>3, <2>4 DEF Asked, Followed
  <2>7. Outcomes'
    BY <1>2, <1>4, <2>2, <2>3 DEF Outcomes, DoneIsDone
  <2>8. JobLines'
    BY <1>1, <1>2, <1>4, <2>2, <2>3 DEF JobLines, Started
  <2>9. QED
    BY <2>5, <2>6, <2>7, <2>8 DEF JobInv
<1>5. CASE /\ worker[n].at = "inspect" /\ UNCHANGED <<job, finished, exec, lost>>
           /\ Move(n, "settle", ExitCode(n)) \/ Move(n, "settle", "bad")
  <2>1. job.n = n /\ Busy /\ handler.at # "job"
    BY <1>2, <1>5 DEF OneJob, Active
  <2>2. /\ ExitCode(n) \in {"good", "bad"}
        /\ ExitCode(n) = "good" => exec[n].state = "ok"
    BY DEF ExitCode
  <2>3. \A m \in Jobs \ {n} : worker'[m] = worker[m]
    BY <1>5, <2>2, MovedWorker DEF WorkerAt
  <2>4. \/ worker'[n] = [at |-> "settle", code |-> ExitCode(n)]
        \/ worker'[n] = [at |-> "settle", code |-> "bad"]
    BY <1>5, <2>2, MovedWorker DEF WorkerAt
  <2>5. OneJob'
    BY <1>1, <1>2, <1>5, <2>1, <2>3, <2>4 DEF OneJob, Busy
  <2>6. Asked' /\ Followed'
    BY <1>1, <1>2, <1>5, <2>1, <2>3, <2>4 DEF Asked, Followed
  <2>7. Outcomes'
    BY <1>2, <1>5, <2>2, <2>3, <2>4 DEF Outcomes, DoneIsDone
  <2>8. JobLines'
    BY <1>1, <1>2, <1>5, <2>3, <2>4 DEF JobLines, Started
  <2>9. QED
    BY <2>5, <2>6, <2>7, <2>8 DEF JobInv
<1>6. CASE /\ worker[n].at = "settle" /\ UNCHANGED <<finished, exec, lost>>
           /\ job' = [job EXCEPT !.state = IF worker[n].code = "good" THEN "done" ELSE "failed"]
           /\ Move(n, "append", worker[n].code)
  <2>1. /\ job.n = n /\ handler.at # "job" /\ worker[n].code \in {"good", "bad"}
        /\ worker[n].code = "good" => exec[n].state = "ok"
    BY <1>2, <1>6, JobsTyped DEF OneJob, Outcomes, Active, Workers
  <2>2. /\ job'.n = n /\ job'.state = (IF worker[n].code = "good" THEN "done" ELSE "failed")
    BY <1>6, <2>1, JobsTyped
  <2>3. \A m \in Jobs \ {n} : worker'[m] = worker[m] /\ worker[m].at \notin Active
    BY <1>2, <1>6, <2>1, MovedWorker DEF WorkerAt, OneJob
  <2>4. worker'[n] = [at |-> "append", code |-> worker[n].code]
    BY <1>6, <2>1, MovedWorker DEF WorkerAt
  <2>5. OneJob'
    BY <1>1, <1>2, <1>6, <2>1, <2>2, <2>3, <2>4 DEF OneJob, Active
  <2>6. Asked' /\ Followed'
    BY <1>1, <1>2, <1>6, <2>1, <2>3, <2>4 DEF Asked, Followed
  <2>7. Outcomes'
    BY <1>2, <1>6, <2>1, <2>2, <2>3, <2>4 DEF Outcomes, DoneIsDone
  <2>8. JobLines'
    BY <1>1, <1>2, <1>6, <2>3, <2>4 DEF JobLines, Started
  <2>9. QED
    BY <2>5, <2>6, <2>7, <2>8 DEF JobInv
<1>7. CASE /\ worker[n].at = "append" /\ UNCHANGED <<job, exec, lost>>
           /\ \/ finished' = finished \cup {[n |-> n, code |-> worker[n].code]}
              \/ UNCHANGED finished
           /\ Move(n, "none", worker[n].code)
  <2>1. /\ worker[n].code \in {"good", "bad"}
        /\ worker[n].code = "good" => exec[n].state = "ok"
    BY <1>2, <1>7, JobsTyped DEF Outcomes, Workers
  <2>2. \A m \in Jobs \ {n} : worker'[m] = worker[m]
    BY <1>7, <2>1, MovedWorker DEF WorkerAt
  <2>3. worker'[n].at = "none"
    BY <1>7, <2>1, MovedWorker DEF WorkerAt
  <2>4. OneJob'
    BY <1>1, <1>2, <1>7, <2>2, <2>3 DEF OneJob, Active, Busy
  <2>5. Asked' /\ Followed'
    BY <1>1, <1>2, <1>7, <2>2, <2>3 DEF Asked, Followed
  <2>6. Outcomes'
    BY <1>2, <1>7, <2>1, <2>2, <2>3 DEF Outcomes, DoneIsDone
  <2>7. JobLines'
    BY <1>1, <1>2, <1>7, <2>2, <2>3 DEF JobLines, Started
  <2>8. QED
    BY <2>4, <2>5, <2>6, <2>7 DEF JobInv
<1>8. QED
  BY <1>3, <1>4, <1>5, <1>6, <1>7, WorkerSteps

LEMMA JobInvKept ==
  ASSUME ConsoleInv, [Next]_vars
  PROVE  JobInv'
<1>1. TypeOK /\ JobInv
  BY DEF ConsoleInv
<1>2. CASE Backup \/ Truncate \/ Write \/ Sync \/ LogChange
  <2>1. UNCHANGED jobs /\ changes \subseteq changes' /\ (UNCHANGED count \/ Fault)
    BY <1>2 DEF Backup, Truncate, Write, Sync, LogChange
  <2>2. handler'.at # "job"
    <3>1. (\E l \in {"truncate", "write", "sync", "log"} : Goto(l)) \/ (\E b \in {"saved", "500"} : Answer(b))
          \/ (handler.at = "log" /\ \E k \in handler.left : handler' = [handler EXCEPT !.left = @ \ {k}])
      BY <1>2, Zenon DEF Backup, Truncate, Write, Sync, LogChange
    <3>2. QED
      BY <1>1, <3>1, Moved, Answered, HandlerTyped DEF Handlers, HandlerAt
  <2>3. QED
    BY <1>1, <2>1, <2>2, Faulted, JobInvAside
<1>3. ASSUME NEW form \in Forms, Save(form)
      PROVE  JobInv'
  <2>1. /\ UNCHANGED jobs /\ changes' = changes /\ Bump("saves") /\ MoreOps
        /\ handler'.at # "job"
    BY <1>3 DEF Save, Answer, Idle
  <2>2. QED
    BY <1>1, <2>1, Counted, JobInvAside
<1>4. CASE LogRestart
  <2>1. UNCHANGED jobs /\ changes \subseteq changes' /\ handler'.at = "idle" /\ (UNCHANGED count \/ Fault)
    BY <1>4 DEF LogRestart, Idle
  <2>2. QED
    BY <1>1, <2>1, Faulted, JobInvAside
<1>5. CASE UNCHANGED vars
  BY <1>1, <1>5, JobInvAside DEF vars, jobs
<1>6. QED
  BY <1>1, <1>2, <1>3, <1>4, <1>5, JobInvBoot, JobInvStart, JobInvLaunch, JobInvCrash,
     JobInvExecEnds, JobInvWorker DEF Next, Handler

(* ------------------------------- theorems -------------------------------- *)

LEMMA ConsoleInvInit == Init => ConsoleInv
<1> SUFFICES ASSUME Init PROVE ConsoleInv
  OBVIOUS
<1>1. TypeOK
  BY TypesInit
<1>2. Counting
  BY DEF Init, Counting, Idle, Saving
<1>3. SavePath /\ EnvRecoverable /\ Running
  BY DEF Init, SavePath, EnvRecoverable, Running, Idle, Saving, Whole
<1>4. Logging
  BY DEF Init, Logging, LineFor, Lines, Idle, Whole
<1>5. \A n \in Jobs : worker[n].at = "none" /\ worker[n].code = "none" /\ exec[n].state = "none"
  BY DEF Init, NoWorker, NoExec
<1>6. JobInv
  BY <1>5 DEF Init, JobInv, OneJob, Asked, Followed, Outcomes, DoneIsDone, JobLines, NoJob, Idle, Active
<1>7. QED
  BY <1>1, <1>2, <1>3, <1>4, <1>6 DEF ConsoleInv, SaveInv

LEMMA ConsoleInvHolds == Spec => []ConsoleInv
<1>1. ConsoleInv /\ [Next]_vars => ConsoleInv'
  BY TypesKept, CountingKept, SaveInvKept, JobInvKept DEF ConsoleInv
<1>2. QED
  BY <1>1, ConsoleInvInit, PTL DEF Spec

\* Every variable keeps its type: whatever a crash or a full disk leaves of the files,
\* rag-api runs on a value for every key.
THEOREM ConsoleTypes == Spec => []TypeOK
<1>1. ConsoleInv => TypeOK
  BY DEF ConsoleInv
<1>2. QED
  BY <1>1, ConsoleInvHolds, PTL

\* However a save of .env is cut off, the last complete configuration is in .env or in a backup.
THEOREM ConsoleEnvRecoverable == Spec => []EnvRecoverable
<1>1. ConsoleInv => EnvRecoverable
  BY DEF ConsoleInv, SaveInv
<1>2. QED
  BY <1>1, ConsoleInvHolds, PTL

\* Outside of a save that was cut off, the runtime file is .env, a restarted rag-api runs on
\* it, and the panel marks the keys that are read differently.
THEOREM ConsoleSettingsInStep == Spec => []SettingsInStep
<1>1. ASSUME ConsoleInv PROVE SettingsInStep
  <2>1. TypeOK /\ Running
    BY <1>1 DEF ConsoleInv, SaveInv
  <2>2. SUFFICES ASSUME ~torn
                 PROVE  /\ runtime = env.vals
                        /\ fresh => /\ eff = Loaded(env.vals)
                                    /\ snap.boot = count.boots =>
                                         \A k \in Key : env.vals[k] # None =>
                                           (Dirty(k) <=> Parsed[env.vals[k]] # env.vals[k])
    BY DEF SettingsInStep
  <2>3. runtime = env.vals /\ (fresh => eff = Loaded(env.vals))
    BY <2>1, <2>2 DEF Running
  <2>4. ASSUME fresh, snap.boot = count.boots, NEW k \in Key, env.vals[k] # None
        PROVE  Dirty(k) <=> Parsed[env.vals[k]] # env.vals[k]
    <3>1. snap.vals[k] = Parsed[env.vals[k]]
      BY <2>1, <2>3, <2>4 DEF Running, Loaded
    <3>2. QED
      BY <2>4, <3>1 DEF Dirty, Shown
  <2>5. QED
    BY <2>3, <2>4
<1>2. QED
  BY <1>1, ConsoleInvHolds, PTL

\* Every value in .env is accounted for by the change log, except where a save was cut off,
\* and every script that was started has its line.
THEOREM ConsoleLogAccounts == Spec => []LogAccounts
<1>1. ASSUME ConsoleInv PROVE LogAccounts
  <2>1. Logging /\ JobLines
    BY <1>1 DEF ConsoleInv, SaveInv, JobInv
  <2>2. \A k : LineFor(k, env.vals[k]) => Accounted(k)
    BY DEF LineFor, Accounted
  <2>3. QED
    BY <2>1, <2>2 DEF Logging, JobLines, LogAccounts
<1>2. QED
  BY <1>1, ConsoleInvHolds, PTL

\* Of two scripts that run at once one was orphaned by a death of the console or a broken
\* stream.
THEOREM ConsoleJobsExclude == Spec => []JobsExclude
<1>1. ASSUME ConsoleInv PROVE JobsExclude
  <2>1. OneJob /\ Followed
    BY <1>1 DEF ConsoleInv, JobInv
  <2>2. SUFFICES ASSUME NEW m \in Jobs, NEW n \in Jobs, m # n, exec[m].state = "running",
                        exec[n].state = "running", m \notin lost, n \notin lost
                 PROVE  FALSE
    BY DEF JobsExclude
  <2>3. job.n = m /\ job.n = n
    BY <2>1, <2>2 DEF OneJob, Followed, Active
  <2>4. QED
    BY <2>2, <2>3
<1>2. QED
  BY <1>1, ConsoleInvHolds, PTL

\* A job is called done, in the panel and in jobs.jsonl, only when its script ended well.
THEOREM ConsoleDoneIsDone == Spec => []DoneIsDone
<1>1. ConsoleInv => DoneIsDone
  BY DEF ConsoleInv, JobInv, Outcomes
<1>2. QED
  BY <1>1, ConsoleInvHolds, PTL

(***************************************************************************)
(* The gate: any number of invocations, over any questions and reports.    *)
(***************************************************************************)

LEMMA FreshHeld ==
  ASSUME NEW how \in Place, NEW code \in 0..2
  PROVE  /\ Fresh \in Held({}) /\ Fresh.at = "new" /\ Fresh.reruns = <<>>
         /\ [Fresh EXCEPT !.at = how, !.exit = code] \in Held({})
         /\ [Fresh EXCEPT !.at = how, !.exit = code].at = how
<1>1. <<>> \in [{} -> Reruns] /\ Torn \in Ledger
  BY DEF Ledger
<1>2. PICK c : Fresh = [at |-> "new", call |-> c, reruns |-> <<>>, copy |-> Torn,
                        verdict |-> "none", exit |-> 0]
  BY DEF Fresh
<1>3. Fresh.call = c /\ Fresh.at = "new" /\ Fresh.reruns = <<>>
  BY <1>2
<1>4. Fresh \in Held({})
  BY <1>1, <1>2, <1>3 DEF Held, Place
<1>5. \A f \in Held({}) : /\ [f EXCEPT !.at = how, !.exit = code] \in Held({})
                          /\ [f EXCEPT !.at = how, !.exit = code].at = how
  BY DEF Held
<1>6. QED
  BY <1>3, <1>4, <1>5

\* One gate moves: what holds of it and of the others.
LEMMA OneMoves ==
  ASSUME GateTypeOK, NEW g \in Gate, NEW asked \in SUBSET Query, NEW r \in Held(asked),
         gate' = [gate EXCEPT ![g] = r], ledger' \in Ledger, overlapped' \in BOOLEAN
  PROVE  GateTypeOK' /\ gate'[g] = r /\ \A h \in Gate : h # g => gate'[h] = gate[h]
BY DEF GateTypeOK

LEMMA GoneMoves ==
  ASSUME GateTypeOK, NEW g \in Gate, NEW how \in Place, NEW code \in 0..2, Gone(g, how, code),
         ledger' \in Ledger, overlapped' \in BOOLEAN
  PROVE  GateTypeOK' /\ gate'[g].at = how /\ \A h \in Gate : h # g => gate'[h] = gate[h]
<1> DEFINE r == [Fresh EXCEPT !.at = how, !.exit = code]
<1>1. r \in Held({}) /\ r.at = how
  BY FreshHeld
<1>2. gate' = [gate EXCEPT ![g] = r]
  BY DEF Gone
<1> HIDE DEF r
<1>3. GateTypeOK' /\ gate'[g] = r /\ \A h \in Gate : h # g => gate'[h] = gate[h]
  BY <1>1, <1>2, OneMoves
<1>4. QED
  BY <1>1, <1>3

LEMMA EntersType ==
  ASSUME GateTypeOK, NEW g \in Gate, NEW records \in [Query -> Entry]
  PROVE  Entered(g, records) \in Ledger
<1>1. PICK asked \in SUBSET Query : gate[g] \in Held(asked)
  BY DEF GateTypeOK
<1>2. \A q \in asked : gate[g].reruns[q] \in Reruns
  BY <1>1 DEF Held
<1>3. DOMAIN gate[g].reruns = asked
  BY <1>1 DEF Held
<1>4. ASSUME NEW q \in Query
      PROVE  Observation(g, q) \in Observed
  BY <1>2, <1>3 DEF Observation, Observed
<1>5. ASSUME NEW q \in Query
      PROVE  Entered(g, records)[q] \in Entry
  <2>1. records[q] \in Entry /\ records[q].observations \in SUBSET Observed
    BY DEF Entry
  <2>2. records[q].observations \cup {Observation(g, q)} \in SUBSET Observed
    BY <1>4, <2>1
  <2>3. QED
    BY <2>1, <2>2 DEF Entered, Entry
<1>6. QED
  BY <1>5 DEF Entered, Ledger

(* ---- each action, as far as the invariant looks at it ---- *)

LEMMA BeginMoves ==
  ASSUME GateTypeOK, NEW g \in Gate, Begin(g)
  PROVE  /\ GateTypeOK' /\ \A h \in Gate : h # g => gate'[h] = gate[h]
         /\ gate[g].at = "new" /\ ledger' = ledger /\ overlapped' = overlapped
         /\ \/ gate'[g].at = "refused"
            \/ /\ gate'[g].call \in Calls /\ Common(gate'[g].call) # {}
               /\ gate'[g].reruns = gate[g].reruns
               /\ \/ gate'[g].at = "rerun"
                  \/ /\ gate'[g].at = "load"
                     /\ gate'[g].call.rerun => NewlyFailed(gate'[g].call) = {}
<1>1. /\ gate[g].at = "new" /\ ledger' = ledger /\ overlapped' = overlapped
      /\ ledger' \in Ledger /\ overlapped' \in BOOLEAN
  BY DEF Begin, GateTypeOK
<1>2. PICK c \in Calls :
        IF \/ c.override = "half"
           \/ DOMAIN c.baseline = {} \/ DOMAIN c.current = {} \/ Common(c) = {}
        THEN Gone(g, "refused", 2)
        ELSE gate' = [gate EXCEPT ![g].call = c,
                        ![g].at = IF c.rerun /\ NewlyFailed(c) # {} THEN "rerun" ELSE "load"]
  BY DEF Begin
<1>3. CASE Gone(g, "refused", 2)
  BY <1>1, <1>3, GoneMoves DEF Place
<1>4. CASE /\ Common(c) # {}
           /\ gate' = [gate EXCEPT ![g].call = c,
                         ![g].at = IF c.rerun /\ NewlyFailed(c) # {} THEN "rerun" ELSE "load"]
  <2> DEFINE l == IF c.rerun /\ NewlyFailed(c) # {} THEN "rerun" ELSE "load"
             r == [gate[g] EXCEPT !.call = c, !.at = l]
  <2>1. gate' = [gate EXCEPT ![g] = r]
    BY <1>4 DEF GateTypeOK
  <2>2. PICK asked \in SUBSET Query : gate[g] \in Held(asked)
    BY DEF GateTypeOK
  <2>3. r \in Held(asked) /\ r.call = c /\ r.at = l /\ r.reruns = gate[g].reruns
    BY <2>2 DEF Held, Place
  <2> HIDE DEF r
  <2>4. GateTypeOK' /\ gate'[g] = r /\ \A h \in Gate : h # g => gate'[h] = gate[h]
    BY <1>1, <2>1, <2>3, OneMoves
  <2>5. QED
    BY <1>1, <1>4, <2>3, <2>4
<1>5. QED
  BY <1>2, <1>3, <1>4

LEMMA RerunMoves ==
  ASSUME GateTypeOK, Reasked, NEW g \in Gate, NEW q \in Query, Rerun(g, q)
  PROVE  /\ GateTypeOK' /\ \A h \in Gate : h # g => gate'[h] = gate[h]
         /\ gate[g].at = "rerun" /\ ledger' = ledger /\ overlapped' = overlapped
         /\ gate'[g].call = gate[g].call
         /\ DOMAIN gate'[g].reruns = DOMAIN gate[g].reruns \cup {q}
         /\ q \in NewlyFailed(gate[g].call)
         /\ gate'[g].reruns[q] \in [1..gate[g].call.runs -> {"pass", "fail"}]
         /\ \A p \in DOMAIN gate[g].reruns : p # q => gate'[g].reruns[p] = gate[g].reruns[p]
         /\ gate'[g].at = IF DOMAIN gate'[g].reruns = NewlyFailed(gate[g].call)
                          THEN "load" ELSE "rerun"
<1> DEFINE more == DOMAIN gate[g].reruns \cup {q}
           l == IF more = NewlyFailed(gate[g].call) THEN "load" ELSE "rerun"
<1>1. PICK s \in [1..gate[g].call.runs -> {"pass", "fail"}] :
        gate' = [gate EXCEPT
         ![g].reruns = [p \in more |-> IF p = q THEN s ELSE gate[g].reruns[p]],
         ![g].at = l]
  BY DEF Rerun
<1> DEFINE f == [p \in more |-> IF p = q THEN s ELSE gate[g].reruns[p]]
           r == [gate[g] EXCEPT !.reruns = f, !.at = l]
<1>2. gate' = [gate EXCEPT ![g] = r]
  BY <1>1 DEF GateTypeOK
<1>3. PICK asked \in SUBSET Query : gate[g] \in Held(asked)
  BY DEF GateTypeOK
<1>4. gate[g].call.runs \in Nat
  <2>1. gate[g].at = "rerun"
    BY DEF Rerun
  <2>2. gate[g].call \in Call
    BY <2>1, GateAssumption DEF Reasked, ReaskedBy, Past
  <2>3. QED
    BY <2>2 DEF Call
<1>5. s \in Reruns
  BY <1>4 DEF Reruns
<1>6. more = asked \cup {q} /\ more \in SUBSET Query /\ f \in [more -> Reruns]
  BY <1>3, <1>5 DEF Held
<1> HIDE DEF more, f, l
<1>7. l \in Place
  BY DEF l, Place
<1>8. r \in Held(more) /\ r.at = l /\ r.call = gate[g].call /\ r.reruns = f
  BY <1>3, <1>6, <1>7 DEF Held
<1>9. ledger' = ledger /\ overlapped' = overlapped /\ gate[g].at = "rerun"
      /\ q \in NewlyFailed(gate[g].call)
  BY DEF Rerun
<1> HIDE DEF r
<1>10. GateTypeOK' /\ gate'[g] = r /\ \A h \in Gate : h # g => gate'[h] = gate[h]
  BY <1>2, <1>6, <1>8, <1>9, OneMoves DEF GateTypeOK
<1>11. DOMAIN f = more /\ f[q] = s /\ \A p \in DOMAIN gate[g].reruns : p # q => f[p] = gate[g].reruns[p]
  BY DEF f, more
<1>12. QED
  BY <1>8, <1>9, <1>10, <1>11 DEF l, more

LEMMA LoadMoves ==
  ASSUME GateTypeOK, NEW g \in Gate, Load(g)
  PROVE  /\ GateTypeOK' /\ \A h \in Gate : h # g => gate'[h] = gate[h]
         /\ gate[g].at = "load" /\ ledger' = ledger
         /\ overlapped' = (overlapped \/ \E h \in Gate : gate[h].at = "truncate")
         /\ \/ gate'[g].at = "refused"
            \/ /\ ledger # Torn /\ gate'[g].at = "truncate"
               /\ gate'[g].copy = Entered(g, ledger)
               /\ gate'[g].call = gate[g].call /\ gate'[g].reruns = gate[g].reruns
<1>1. /\ gate[g].at = "load" /\ ledger' = ledger
      /\ overlapped' = (overlapped \/ \E h \in Gate : gate[h].at = "truncate")
      /\ ledger' \in Ledger /\ overlapped' \in BOOLEAN
  BY DEF Load, GateTypeOK
<1>2. CASE Gone(g, "refused", 1)
  BY <1>1, <1>2, GoneMoves DEF Place
<1>3. CASE /\ ledger # Torn
           /\ gate' = [gate EXCEPT ![g].at = "truncate", ![g].copy = Entered(g, ledger)]
  <2> DEFINE r == [gate[g] EXCEPT !.at = "truncate", !.copy = Entered(g, ledger)]
  <2>1. gate' = [gate EXCEPT ![g] = r]
    BY <1>3 DEF GateTypeOK
  <2>2. Entered(g, ledger) \in Ledger
    BY <1>3, EntersType DEF GateTypeOK, Ledger
  <2>3. PICK asked \in SUBSET Query : gate[g] \in Held(asked)
    BY DEF GateTypeOK
  <2>4. /\ r \in Held(asked) /\ r.at = "truncate" /\ r.copy = Entered(g, ledger)
        /\ r.call = gate[g].call /\ r.reruns = gate[g].reruns
    BY <2>2, <2>3 DEF Held, Place
  <2> HIDE DEF r
  <2>5. GateTypeOK' /\ gate'[g] = r /\ \A h \in Gate : h # g => gate'[h] = gate[h]
    BY <1>1, <2>1, <2>4, OneMoves
  <2>6. QED
    BY <1>1, <1>3, <2>4, <2>5
<1>4. QED
  BY <1>2, <1>3 DEF Load, LedgerRead

LEMMA TruncateMoves ==
  ASSUME GateTypeOK, NEW g \in Gate, TruncateLedger(g)
  PROVE  /\ GateTypeOK' /\ \A h \in Gate : h # g => gate'[h] = gate[h]
         /\ gate[g].at = "truncate" /\ ledger' = Torn /\ overlapped' = overlapped
         /\ gate'[g].at = "dump" /\ gate'[g].copy = gate[g].copy
         /\ gate'[g].call = gate[g].call /\ gate'[g].reruns = gate[g].reruns
<1> DEFINE r == [gate[g] EXCEPT !.at = "dump"]
<1>1. /\ gate[g].at = "truncate" /\ ledger' = Torn /\ overlapped' = overlapped
      /\ ledger' \in Ledger /\ overlapped' \in BOOLEAN
      /\ gate' = [gate EXCEPT ![g] = r]
  BY DEF TruncateLedger, Put, GateTypeOK, Ledger
<1>2. PICK asked \in SUBSET Query : gate[g] \in Held(asked)
  BY DEF GateTypeOK
<1>3. /\ r \in Held(asked) /\ r.at = "dump" /\ r.copy = gate[g].copy
      /\ r.call = gate[g].call /\ r.reruns = gate[g].reruns
  BY <1>2 DEF Held, Place
<1> HIDE DEF r
<1>4. GateTypeOK' /\ gate'[g] = r /\ \A h \in Gate : h # g => gate'[h] = gate[h]
  BY <1>1, <1>3, OneMoves
<1>5. QED
  BY <1>1, <1>3, <1>4

LEMMA DumpMoves ==
  ASSUME GateTypeOK, NEW g \in Gate, DumpLedger(g)
  PROVE  /\ GateTypeOK' /\ \A h \in Gate : h # g => gate'[h] = gate[h]
         /\ gate[g].at = "dump" /\ ledger' = gate[g].copy /\ overlapped' = overlapped
         /\ gate'[g].at = "report"
         /\ gate'[g].call = gate[g].call /\ gate'[g].reruns = gate[g].reruns
<1> DEFINE r == [gate[g] EXCEPT !.at = "report", !.copy = Torn]
<1>1. /\ gate[g].at = "dump" /\ ledger' = gate[g].copy /\ overlapped' = overlapped
      /\ overlapped' \in BOOLEAN /\ gate' = [gate EXCEPT ![g] = r]
  BY DEF DumpLedger, GateTypeOK
<1>2. PICK asked \in SUBSET Query : gate[g] \in Held(asked)
  BY DEF GateTypeOK
<1>3. /\ r \in Held(asked) /\ r.at = "report" /\ gate[g].copy \in Ledger
      /\ r.call = gate[g].call /\ r.reruns = gate[g].reruns
  BY <1>2 DEF Held, Place, Ledger
<1> HIDE DEF r
<1>4. GateTypeOK' /\ gate'[g] = r /\ \A h \in Gate : h # g => gate'[h] = gate[h]
  BY <1>1, <1>3, OneMoves
<1>5. QED
  BY <1>1, <1>3, <1>4

LEMMA PublishMoves ==
  ASSUME GateTypeOK, NEW g \in Gate, Publish(g)
  PROVE  /\ GateTypeOK' /\ \A h \in Gate : h # g => gate'[h] = gate[h]
         /\ gate[g].at = "report" /\ ledger' = ledger /\ overlapped' = overlapped
         /\ gate'[g].at = "done"
         /\ gate'[g].call = gate[g].call /\ gate'[g].reruns = gate[g].reruns
         /\ gate'[g].verdict = Verdict(gate[g].call, gate[g].reruns)
<1> DEFINE v == Verdict(gate[g].call, gate[g].reruns)
           e == IF v = "PASS" \/ gate[g].call.override = "full" THEN 0 ELSE 1
           r == [gate[g] EXCEPT !.at = "done", !.verdict = v, !.exit = e]
<1>1. /\ gate[g].at = "report" /\ ledger' = ledger /\ overlapped' = overlapped
      /\ ledger' \in Ledger /\ overlapped' \in BOOLEAN
  BY DEF Publish, GateTypeOK
<1>2. gate' = [gate EXCEPT ![g] = r]
  BY DEF Publish, GateTypeOK
<1>3. v \in {"PASS", "FAIL"} /\ e \in 0..2
  BY DEF Verdict
<1> HIDE DEF v, e
<1>4. PICK asked \in SUBSET Query : gate[g] \in Held(asked)
  BY DEF GateTypeOK
<1>5. /\ r \in Held(asked) /\ r.at = "done" /\ r.verdict = v
      /\ r.call = gate[g].call /\ r.reruns = gate[g].reruns
  BY <1>3, <1>4 DEF Held, Place
<1> HIDE DEF r
<1>6. GateTypeOK' /\ gate'[g] = r /\ \A h \in Gate : h # g => gate'[h] = gate[h]
  BY <1>1, <1>2, <1>5, OneMoves
<1>7. QED
  BY <1>1, <1>5, <1>6 DEF v

LEMMA KilledMoves ==
  ASSUME GateTypeOK, NEW g \in Gate, Killed(g)
  PROVE  /\ GateTypeOK' /\ \A h \in Gate : h # g => gate'[h] = gate[h]
         /\ ledger' = ledger /\ overlapped' = overlapped /\ gate'[g].at = "killed"
<1>1. /\ ledger' = ledger /\ overlapped' = overlapped
      /\ ledger' \in Ledger /\ overlapped' \in BOOLEAN
  BY DEF Killed, GateTypeOK
<1>2. QED
  BY <1>1, GoneMoves DEF Killed, Place

(* ---- what was asked again ---- *)

LEMMA ReaskedStays ==
  ASSUME Reasked, NEW h \in Gate, gate'[h] = gate[h]
  PROVE  ReaskedBy(h)'
BY DEF Reasked, ReaskedBy

LEMMA NextReasked ==
  ASSUME GateTypeOK, Reasked, [GateNext]_gateVars
  PROVE  GateTypeOK' /\ Reasked'
<1>1. CASE UNCHANGED gateVars
  BY <1>1 DEF gateVars, GateTypeOK, Reasked, ReaskedBy
<1>2. ASSUME NEW g \in Gate, Begin(g)
      PROVE  GateTypeOK' /\ Reasked'
  <2>1. /\ GateTypeOK' /\ \A h \in Gate : h # g => gate'[h] = gate[h]
        /\ gate[g].at = "new"
        /\ \/ gate'[g].at = "refused"
           \/ /\ gate'[g].call \in Calls /\ Common(gate'[g].call) # {}
              /\ gate'[g].reruns = gate[g].reruns
              /\ \/ gate'[g].at = "rerun"
                 \/ /\ gate'[g].at = "load"
                    /\ gate'[g].call.rerun => NewlyFailed(gate'[g].call) = {}
    BY <1>2, BeginMoves
  <2>2. DOMAIN gate[g].reruns = {}
    BY <2>1 DEF Reasked, ReaskedBy
  <2>3. ReaskedBy(g)'
    BY <2>1, <2>2 DEF ReaskedBy, Past
  <2>4. QED
    BY <2>1, <2>3, ReaskedStays DEF Reasked
<1>3. ASSUME NEW g \in Gate, NEW q \in Query, Rerun(g, q)
      PROVE  GateTypeOK' /\ Reasked'
  <2>1. /\ GateTypeOK' /\ \A h \in Gate : h # g => gate'[h] = gate[h]
        /\ gate[g].at = "rerun" /\ gate'[g].call = gate[g].call
        /\ DOMAIN gate'[g].reruns = DOMAIN gate[g].reruns \cup {q}
        /\ q \in NewlyFailed(gate[g].call)
        /\ gate'[g].reruns[q] \in [1..gate[g].call.runs -> {"pass", "fail"}]
        /\ \A p \in DOMAIN gate[g].reruns : p # q => gate'[g].reruns[p] = gate[g].reruns[p]
        /\ gate'[g].at = IF DOMAIN gate'[g].reruns = NewlyFailed(gate[g].call)
                         THEN "load" ELSE "rerun"
    BY <1>3, RerunMoves
  <2>2. /\ gate[g].call \in Calls /\ Common(gate[g].call) # {}
        /\ DOMAIN gate[g].reruns \subseteq NewlyFailed(gate[g].call)
        /\ \A p \in DOMAIN gate[g].reruns :
             gate[g].reruns[p] \in [1..gate[g].call.runs -> {"pass", "fail"}]
    BY <2>1 DEF Reasked, ReaskedBy, Past
  <2>3. \A p \in DOMAIN gate'[g].reruns :
          gate'[g].reruns[p] \in [1..gate[g].call.runs -> {"pass", "fail"}]
    BY <2>1, <2>2
  <2>4. ReaskedBy(g)'
    BY <2>1, <2>2, <2>3 DEF ReaskedBy, Past
  <2>5. QED
    BY <2>1, <2>4, ReaskedStays DEF Reasked
<1>4. ASSUME NEW g \in Gate, GateTypeOK', \A h \in Gate : h # g => gate'[h] = gate[h],
             \/ gate'[g].at \in {"refused", "killed"}
             \/ /\ gate[g].at \in Past /\ gate'[g].at \in Past
                /\ gate'[g].call = gate[g].call /\ gate'[g].reruns = gate[g].reruns
                /\ gate'[g].at = "done"
                     => gate'[g].verdict = Verdict(gate[g].call, gate[g].reruns)
      PROVE  GateTypeOK' /\ Reasked'
  <2>1. ReaskedBy(g)'
    BY <1>4 DEF Reasked, ReaskedBy, Past
  <2>2. QED
    BY <1>4, <2>1, ReaskedStays DEF Reasked
<1>5. ASSUME NEW g \in Gate, Load(g)
      PROVE  GateTypeOK' /\ Reasked'
  BY <1>4, <1>5, LoadMoves DEF Past
<1>6. ASSUME NEW g \in Gate, TruncateLedger(g)
      PROVE  GateTypeOK' /\ Reasked'
  BY <1>4, <1>6, TruncateMoves DEF Past
<1>7. ASSUME NEW g \in Gate, DumpLedger(g)
      PROVE  GateTypeOK' /\ Reasked'
  BY <1>4, <1>7, DumpMoves DEF Past
<1>8. ASSUME NEW g \in Gate, Publish(g)
      PROVE  GateTypeOK' /\ Reasked'
  BY <1>4, <1>8, PublishMoves DEF Past
<1>9. ASSUME NEW g \in Gate, Killed(g)
      PROVE  GateTypeOK' /\ Reasked'
  BY <1>4, <1>9, KilledMoves
<1>10. QED
  BY <1>1, <1>2, <1>3, <1>5, <1>6, <1>7, <1>8, <1>9 DEF GateNext

(* ---- what the ledger tells of ---- *)

\* Observation and Holds, with the gates they are about named.
Told(gates, g, q) ==
  [gate |-> g,
   direction |-> IF q \in NewlyFailed(gates[g].call) THEN "newly_failed" ELSE "newly_passed",
   reruns |-> IF q \in DOMAIN gates[g].reruns THEN {gates[g].reruns[q]} ELSE {}]

TellsOf(gates, l, some) ==
  \A q \in Query :
    /\ Sound(l[q])
    /\ \A g \in some : q \in Flips(gates[g].call) => Told(gates, g, q) \in l[q].observations

\* What a ledger tells of gates that keep their call and their reruns, it goes on telling.
LEMMA TellsOn ==
  ASSUME NEW gates, NEW later, NEW l, NEW some, NEW fewer \in SUBSET some,
         TellsOf(gates, l, some),
         \A h \in fewer : later[h].call = gates[h].call /\ later[h].reruns = gates[h].reruns
  PROVE  TellsOf(later, l, fewer)
BY DEF TellsOf, Told

LEMMA SoundEntry ==
  ASSUME NEW e, Sound(e), NEW o, NEW n,
         n = [observations |-> e.observations \cup {o},
              unstable |-> \/ e.unstable
                           \/ \E s \in o.reruns : ~Unanimous(s)
                           \/ Cardinality(e.observations \cup {o}) >= 2]
  PROVE  Sound(n)
<1> DEFINE all == e.observations \cup {o}
<1>1. n.observations = all /\ (n.unstable <=> \/ e.unstable
                                              \/ \E s \in o.reruns : ~Unanimous(s)
                                              \/ Cardinality(all) >= 2)
  OBVIOUS
<1>2. IsFiniteSet(all)
  BY FS_AddElement DEF Sound
<1>3. ASSUME NEW x \in all, NEW y \in all, x # y
      PROVE  n.unstable
  <2>1. Cardinality({x, y}) = 2 /\ IsFiniteSet({x, y})
    <3>1. Cardinality({x}) = 1 /\ IsFiniteSet({x}) /\ y \notin {x} /\ {x} \cup {y} = {x, y}
      BY <1>3, FS_Singleton
    <3>2. IsFiniteSet({x} \cup {y}) /\ Cardinality({x} \cup {y}) = Cardinality({x}) + 1
      BY <3>1, FS_AddElement
    <3>3. QED
      BY <3>1, <3>2
  <2>2. Cardinality({x, y}) <= Cardinality(all) /\ Cardinality(all) \in Nat
    BY <1>2, <1>3, FS_Subset, FS_CardinalityType
  <2>3. QED
    BY <1>1, <2>1, <2>2
<1>4. ASSUME NEW x \in all, NEW s \in x.reruns, ~Unanimous(s)
      PROVE  n.unstable
  BY <1>1, <1>4 DEF Sound
<1>5. QED
  BY <1>1, <1>2, <1>3, <1>4 DEF Sound

\* What a gate enters keeps the ledger sound and is told of from then on.
LEMMA EntersTells ==
  ASSUME NEW g \in Gate, NEW l, NEW some, TellsOf(gate, l, some)
  PROVE  TellsOf(gate, Entered(g, l), some \cup {g})
<1> SUFFICES ASSUME NEW q \in Query
             PROVE  /\ Sound(Entered(g, l)[q])
                    /\ \A h \in some \cup {g} : q \in Flips(gate[h].call)
                         => Told(gate, h, q) \in Entered(g, l)[q].observations
  BY DEF TellsOf
<1>1. /\ Sound(l[q])
      /\ \A h \in some : q \in Flips(gate[h].call) => Told(gate, h, q) \in l[q].observations
  BY DEF TellsOf
<1>2. CASE q \notin Flips(gate[g].call)
  BY <1>1, <1>2 DEF Entered
<1>3. CASE q \in Flips(gate[g].call)
  <2> DEFINE o == Observation(g, q)
             n == [observations |-> l[q].observations \cup {o},
                   unstable |-> \/ l[q].unstable
                                \/ \E s \in o.reruns : ~Unanimous(s)
                                \/ Cardinality(l[q].observations \cup {o}) >= 2]
  <2>1. Entered(g, l)[q] = n
    BY <1>3 DEF Entered
  <2>2. o = Told(gate, g, q)
    BY DEF Observation, Told
  <2>3. Sound(n)
    BY <1>1, SoundEntry
  <2>4. n.observations = l[q].observations \cup {o}
    OBVIOUS
  <2>5. QED
    BY <1>1, <2>1, <2>2, <2>3, <2>4
<1>4. QED
  BY <1>2, <1>3

At(gates, places) == {g \in Gate : gates[g].at \in places}
Writing == {"truncate", "dump"}
Written == {"report", "done"}

\* Rewriting, with the gates and the ledger named.
WritesWell(gates, l) ==
  /\ \A g, h \in At(gates, Writing) : g = h
  /\ \A g \in At(gates, {"dump"}) : l = Torn
  /\ \A g \in At(gates, Writing) : TellsOf(gates, gates[g].copy, At(gates, Written) \cup {g})
  /\ l # Torn => TellsOf(gates, l, At(gates, Written))

LEMMA RewritingIs ==
  /\ Rewriting <=> (~overlapped => WritesWell(gate, ledger))
  /\ Rewriting' <=> (~overlapped' => WritesWell(gate', ledger'))
<1>1. Recorded = At(gate, Written) /\ Recorded' = At(gate', Written)
  BY DEF Recorded, At, Written
<1>2. \A l, some : TellsOf(gate, l, some) <=>
        \A q \in Query :
          /\ Sound(l[q])
          /\ \A g \in some : q \in Flips(gate[g].call) => Observation(g, q) \in l[q].observations
  BY DEF TellsOf, Observation, Told
<1>3. \A l, some : TellsOf(gate', l, some) <=>
        \A q \in Query :
          /\ Sound(l[q])
          /\ \A g \in some : q \in Flips(gate'[g].call) => Observation(g, q)' \in l[q].observations
  BY DEF TellsOf, Observation, Told
<1> DEFINE Well(gates, l) ==
             /\ \A g, h \in Gate :
                  gates[g].at \in {"truncate", "dump"} /\ gates[h].at \in {"truncate", "dump"}
                  => g = h
             /\ \A g \in Gate : gates[g].at = "dump" => l = Torn
             /\ \A g \in Gate : gates[g].at \in {"truncate", "dump"}
                  => TellsOf(gates, gates[g].copy, At(gates, Written) \cup {g})
             /\ l # Torn => TellsOf(gates, l, At(gates, Written))
<1>4. \A gates, l : WritesWell(gates, l) <=> Well(gates, l)
  <2> SUFFICES ASSUME NEW gates, NEW l
               PROVE  WritesWell(gates, l) <=> Well(gates, l)
    OBVIOUS
  <2>1. \A g : /\ g \in At(gates, Writing) <=> g \in Gate /\ gates[g].at \in {"truncate", "dump"}
               /\ g \in At(gates, {"dump"}) <=> g \in Gate /\ gates[g].at = "dump"
    BY DEF At, Writing
  <2>2. QED
    BY <2>1 DEF WritesWell
<1>5. Rewriting <=> (~overlapped => Well(gate, ledger))
  <2>1. Rewriting <=>
          (~overlapped =>
             /\ \A g, h \in Gate :
                  gate[g].at \in {"truncate", "dump"} /\ gate[h].at \in {"truncate", "dump"}
                  => g = h
             /\ \A g \in Gate : gate[g].at = "dump" => ledger = Torn
             /\ \A g \in Gate : gate[g].at \in {"truncate", "dump"}
                  => Holds(gate[g].copy, At(gate, Written) \cup {g})
             /\ ledger # Torn => Holds(ledger, At(gate, Written)))
    BY <1>1 DEF Rewriting
  <2>2. \A l, some : Holds(l, some) <=> TellsOf(gate, l, some)
    BY <1>2 DEF Holds
  <2>3. QED
    BY <2>1, <2>2
<1>6. Rewriting' <=> (~overlapped' => Well(gate', ledger'))
  <2>1. \A g \in Gate : Holds(gate[g].copy, Recorded \cup {g})' <=>
                          TellsOf(gate', gate'[g].copy, At(gate', Written) \cup {g})
    BY <1>1, <1>3 DEF Holds
  <2>2. Holds(ledger, Recorded)' <=> TellsOf(gate', ledger', At(gate', Written))
    BY <1>1, <1>3 DEF Holds
  <2>3. QED
    BY <2>1, <2>2 DEF Rewriting
<1>7. QED
  BY <1>4, <1>5, <1>6

\* A gate that neither writes nor has written by then disturbs nothing.
LEMMA QuietGate ==
  ASSUME NEW g \in Gate, WritesWell(gate, ledger), ledger' = ledger,
         \A h \in Gate : h # g => gate'[h] = gate[h],
         gate'[g].at \notin Writing,
         gate'[g].at \in Written =>
           /\ gate[g].at \in Written
           /\ gate'[g].call = gate[g].call /\ gate'[g].reruns = gate[g].reruns
  PROVE  WritesWell(gate', ledger')
<1>1. /\ At(gate', Writing) \subseteq At(gate, Writing)
      /\ At(gate', {"dump"}) \subseteq At(gate, {"dump"})
      /\ At(gate', Written) \subseteq At(gate, Written)
      /\ \A h \in At(gate', Writing) : h # g
  BY DEF At, Writing
<1>2. \A h \in At(gate', Writing) \cup At(gate', Written) :
        gate'[h].call = gate[h].call /\ gate'[h].reruns = gate[h].reruns
  BY DEF At, Writing
<1>3. \A h \in At(gate', Writing) : gate'[h].copy = gate[h].copy
  BY <1>1 DEF At
<1>4. ASSUME NEW h \in At(gate', Writing)
      PROVE  TellsOf(gate', gate'[h].copy, At(gate', Written) \cup {h})
  <2>1. TellsOf(gate, gate[h].copy, At(gate, Written) \cup {h})
    BY <1>1 DEF WritesWell
  <2>2. At(gate', Written) \cup {h} \in SUBSET (At(gate, Written) \cup {h})
    BY <1>1
  <2>3. QED
    BY <1>2, <1>3, <2>1, <2>2, TellsOn
<1>5. ledger # Torn => TellsOf(gate', ledger, At(gate', Written))
  BY <1>1, <1>2, TellsOn DEF WritesWell
<1>6. QED
  BY <1>1, <1>4, <1>5 DEF WritesWell

LEMMA NextRewriting ==
  ASSUME GateTypeOK, Reasked, Rewriting, [GateNext]_gateVars
  PROVE  Rewriting'
<1>0. \A g \in Gate : gate[g].at \in {"new", "rerun", "load"} =>
        gate[g].at \notin Writing /\ gate[g].at \notin Written
  BY DEF Writing, Written
<1>1. CASE UNCHANGED gateVars
  BY <1>1, RewritingIs DEF gateVars
<1>2. ASSUME NEW g \in Gate, ledger' = ledger, ~overlapped' => ~overlapped,
             \A h \in Gate : h # g => gate'[h] = gate[h],
             gate'[g].at \notin Writing,
             gate'[g].at \in Written =>
               /\ gate[g].at \in Written
               /\ gate'[g].call = gate[g].call /\ gate'[g].reruns = gate[g].reruns
      PROVE  Rewriting'
  BY <1>2, QuietGate, RewritingIs
<1>3. ASSUME NEW g \in Gate, Begin(g)
      PROVE  Rewriting'
  BY <1>2, <1>3, BeginMoves DEF Writing, Written
<1>4. ASSUME NEW g \in Gate, NEW q \in Query, Rerun(g, q)
      PROVE  Rewriting'
  BY <1>2, <1>4, RerunMoves DEF Writing, Written
<1>5. ASSUME NEW g \in Gate, Publish(g)
      PROVE  Rewriting'
  BY <1>2, <1>5, PublishMoves DEF Writing, Written
<1>6. ASSUME NEW g \in Gate, Killed(g)
      PROVE  Rewriting'
  BY <1>2, <1>6, KilledMoves DEF Writing, Written
<1>7. ASSUME NEW g \in Gate, Load(g)
      PROVE  Rewriting'
  <2>1. /\ \A h \in Gate : h # g => gate'[h] = gate[h]
        /\ gate[g].at = "load" /\ ledger' = ledger
        /\ overlapped' = (overlapped \/ \E h \in Gate : gate[h].at = "truncate")
    BY <1>7, LoadMoves
  <2>2. CASE gate'[g].at = "refused"
    BY <1>2, <2>1, <2>2 DEF Writing, Written
  <2>3. CASE /\ ledger # Torn /\ gate'[g].at = "truncate"
             /\ gate'[g].copy = Entered(g, ledger)
             /\ gate'[g].call = gate[g].call /\ gate'[g].reruns = gate[g].reruns
    <3> SUFFICES ASSUME ~overlapped'
                 PROVE  WritesWell(gate', ledger)
      BY <2>1, RewritingIs
    <3>1. WritesWell(gate, ledger) /\ \A h \in Gate : gate[h].at # "truncate"
      BY <2>1, RewritingIs
    <3>2. At(gate, Writing) = {}
      BY <2>3, <3>1 DEF WritesWell, At, Writing
    <3>3. /\ At(gate', Writing) = {g} /\ At(gate', {"dump"}) = {}
          /\ At(gate', Written) = At(gate, Written)
      BY <2>1, <2>3, <3>2 DEF At, Writing, Written
    <3>4. \A h \in Gate : gate'[h].call = gate[h].call /\ gate'[h].reruns = gate[h].reruns
      BY <2>1, <2>3
    <3>5. TellsOf(gate, ledger, At(gate, Written))
      BY <2>3, <3>1 DEF WritesWell
    <3>6. TellsOf(gate, Entered(g, ledger), At(gate, Written) \cup {g})
      BY <3>5, EntersTells
    <3>7. At(gate, Written) \cup {g} \subseteq Gate
      BY DEF At
    <3>8. TellsOf(gate', Entered(g, ledger), At(gate, Written) \cup {g})
      BY <3>4, <3>6, <3>7, TellsOn
    <3>9. TellsOf(gate', ledger, At(gate, Written))
      BY <3>4, <3>5, <3>7, TellsOn
    <3>10. QED
      BY <2>3, <3>3, <3>8, <3>9 DEF WritesWell
  <2>4. QED
    BY <1>7, <2>2, <2>3, LoadMoves
<1>8. ASSUME NEW g \in Gate, TruncateLedger(g)
      PROVE  Rewriting'
  <2>1. /\ \A h \in Gate : h # g => gate'[h] = gate[h]
        /\ gate[g].at = "truncate" /\ ledger' = Torn /\ overlapped' = overlapped
        /\ gate'[g].at = "dump" /\ gate'[g].copy = gate[g].copy
        /\ gate'[g].call = gate[g].call /\ gate'[g].reruns = gate[g].reruns
    BY <1>8, TruncateMoves
  <2> SUFFICES ASSUME ~overlapped
               PROVE  WritesWell(gate', Torn)
    BY <2>1, RewritingIs
  <2>2. WritesWell(gate, ledger)
    BY RewritingIs
  <2>3. At(gate', Writing) = At(gate, Writing) /\ At(gate', Written) = At(gate, Written)
    BY <2>1 DEF At, Writing, Written
  <2>4. \A h \in Gate : /\ gate'[h].call = gate[h].call /\ gate'[h].reruns = gate[h].reruns
                        /\ gate'[h].copy = gate[h].copy
    BY <2>1
  <2>5. ASSUME NEW h \in At(gate, Writing)
        PROVE  TellsOf(gate', gate'[h].copy, At(gate, Written) \cup {h})
    <3>1. TellsOf(gate, gate[h].copy, At(gate, Written) \cup {h})
      BY <2>2 DEF WritesWell
    <3>2. At(gate, Written) \cup {h} \subseteq Gate /\ h \in Gate
      BY DEF At
    <3>3. QED
      BY <2>4, <3>1, <3>2, TellsOn
  <2>6. QED
    BY <2>2, <2>3, <2>5 DEF WritesWell
<1>9. ASSUME NEW g \in Gate, DumpLedger(g)
      PROVE  Rewriting'
  <2>1. /\ \A h \in Gate : h # g => gate'[h] = gate[h]
        /\ gate[g].at = "dump" /\ ledger' = gate[g].copy /\ overlapped' = overlapped
        /\ gate'[g].at = "report"
        /\ gate'[g].call = gate[g].call /\ gate'[g].reruns = gate[g].reruns
    BY <1>9, DumpMoves
  <2> SUFFICES ASSUME ~overlapped
               PROVE  WritesWell(gate', gate[g].copy)
    BY <2>1, RewritingIs
  <2>2. WritesWell(gate, ledger) /\ g \in At(gate, Writing)
    BY <2>1, RewritingIs DEF At, Writing
  <2>3. At(gate, Writing) = {g}
    BY <2>2 DEF WritesWell
  <2>4. At(gate', Writing) = {} /\ At(gate', {"dump"}) = {}
    BY <2>1, <2>3 DEF At, Writing
  <2>5. At(gate', Written) \subseteq At(gate, Written) \cup {g}
    BY <2>1 DEF At, Written
  <2>6. \A h \in Gate : gate'[h].call = gate[h].call /\ gate'[h].reruns = gate[h].reruns
    BY <2>1
  <2>7. TellsOf(gate, gate[g].copy, At(gate, Written) \cup {g})
    BY <2>2 DEF WritesWell
  <2>8. At(gate', Written) \subseteq Gate
    BY DEF At
  <2>9. TellsOf(gate', gate[g].copy, At(gate', Written))
    BY <2>5, <2>6, <2>7, <2>8, TellsOn
  <2>10. QED
    BY <2>4, <2>9 DEF WritesWell
<1>10. QED
  BY <1>1, <1>3, <1>4, <1>5, <1>6, <1>7, <1>8, <1>9 DEF GateNext

LEMMA InitGate ==
  ASSUME GateInit
  PROVE  GateInv
<1>1. \A g \in Gate : gate[g] = Fresh
  BY DEF GateInit
<1>2. Fresh \in Held({}) /\ Fresh.at = "new" /\ DOMAIN Fresh.reruns = {}
  BY FreshHeld DEF Place
<1>3. NoEntry \in Entry /\ Sound(NoEntry)
  BY FS_EmptySet DEF NoEntry, Entry, Sound
<1>4. GateTypeOK
  BY <1>1, <1>2, <1>3 DEF GateTypeOK, GateInit, Ledger
<1>5. Reasked
  BY <1>1, <1>2 DEF Reasked, ReaskedBy, Past
<1>6. At(gate, Writing) = {} /\ At(gate, {"dump"}) = {} /\ At(gate, Written) = {}
  BY <1>1, <1>2 DEF At, Writing, Written
<1>7. TellsOf(gate, ledger, {})
  BY <1>3 DEF TellsOf, GateInit
<1>8. Rewriting
  BY <1>6, <1>7, RewritingIs DEF WritesWell
<1>9. QED
  BY <1>4, <1>5, <1>8 DEF GateInv

LEMMA GateInvariant == GateSpec => []GateInv
<1>1. GateInv /\ [GateNext]_gateVars => GateInv'
  BY NextReasked, NextRewriting DEF GateInv
<1>2. QED
  BY <1>1, InitGate, PTL DEF GateSpec

\* Two gates that flipped a question, or one whose reruns of it differ, mark it as unstable.
LEMMA FlipsShow ==
  ASSUME GateInv, ~overlapped, ledger # Torn, NEW q \in Query
  PROVE  /\ \A g \in FlippedIn(q) : Observation(g, q) \in ledger[q].observations
         /\ Cardinality(FlippedIn(q)) >= 2 \/ SplitIn(q) # {} => ledger[q].unstable
<1>1. /\ Sound(ledger[q])
      /\ \A g \in FlippedIn(q) : Observation(g, q) \in ledger[q].observations
  BY DEF GateInv, Rewriting, Holds, Recorded, FlippedIn, Done
<1>2. ASSUME Cardinality(FlippedIn(q)) >= 2
      PROVE  \E g, h \in FlippedIn(q) : g # h
  <2>1. IsFiniteSet(FlippedIn(q))
    BY GateAssumption, FS_Subset DEF FlippedIn, Done
  <2>2. FlippedIn(q) # {}
    BY <1>2, FS_EmptySet
  <2>3. PICK g \in FlippedIn(q) : TRUE
    BY <2>2
  <2>4. FlippedIn(q) # {g}
    BY <1>2, FS_Singleton
  <2>5. QED
    BY <2>3, <2>4
<1>3. ASSUME NEW g \in FlippedIn(q), NEW h \in FlippedIn(q), g # h
      PROVE  ledger[q].unstable
  <2>1. Observation(g, q) # Observation(h, q)
    BY <1>3 DEF Observation
  <2>2. QED
    BY <1>1, <2>1 DEF Sound
<1>4. ASSUME NEW g \in SplitIn(q)
      PROVE  ledger[q].unstable
  <2>1. g \in FlippedIn(q) /\ gate[g].reruns[q] \in Observation(g, q).reruns
        /\ ~Unanimous(gate[g].reruns[q])
    BY DEF SplitIn, Observation
  <2>2. QED
    BY <1>1, <2>1 DEF Sound
<1>5. QED
  BY <1>1, <1>2, <1>3, <1>4

\* Reruns that all passed, of which there is one: each of them passed.
LEMMA ClearedPassed ==
  ASSUME NEW n \in Nat, NEW s \in [1..n -> {"pass", "fail"}], Cleared(s)
  PROVE  n > 0 /\ \A i \in 1..n : s[i] = "pass"
<1>1. s \in Seq({"pass", "fail"}) /\ Len(s) = n /\ DOMAIN s = 1..n
  OBVIOUS
<1>2. n > 0
  BY <1>1 DEF Cleared
<1>3. \A i \in 1..n : s[i] \in {"pass"}
  BY <1>1 DEF Cleared, Range
<1>4. QED
  BY <1>2, <1>3

LEMMA PassConfirms ==
  ASSUME GateInv
  PROVE  PassIsConfirmed
<1> SUFFICES ASSUME NEW g \in Done, gate[g].verdict = "PASS"
             PROVE  LET c == gate[g].call IN
                    /\ Common(c) # {}
                    /\ \A q \in Common(c) :
                         /\ Passed(c.baseline[q]) /\ ~Skipped(c.current[q]) /\ ~Passed(c.current[q])
                         => /\ c.rerun /\ c.runs > 0
                            /\ \A i \in 1..c.runs : gate[g].reruns[q][i] = "pass"
  BY DEF PassIsConfirmed, Common
<1> DEFINE c == gate[g].call
<1>1. /\ g \in Gate /\ gate[g].at = "done"
      /\ c \in Calls /\ Common(c) # {} /\ gate[g].verdict = Verdict(c, gate[g].reruns)
      /\ c.rerun => DOMAIN gate[g].reruns = NewlyFailed(c)
      /\ \A q \in DOMAIN gate[g].reruns : gate[g].reruns[q] \in [1..c.runs -> {"pass", "fail"}]
  BY DEF GateInv, Reasked, ReaskedBy, Done, Past
<1>2. c.runs \in Nat
  BY <1>1, GateAssumption DEF Call
<1>3. \A q \in NewlyFailed(c) : c.rerun /\ Cleared(gate[g].reruns[q])
  BY <1>1 DEF Verdict
<1>4. ASSUME NEW q \in Common(c),
             Passed(c.baseline[q]), ~Skipped(c.current[q]), ~Passed(c.current[q])
      PROVE  c.rerun /\ c.runs > 0 /\ \A i \in 1..c.runs : gate[g].reruns[q][i] = "pass"
  <2>1. ~Skipped(c.baseline[q])
    BY <1>4 DEF Passed, Skipped
  <2>2. q \in NewlyFailed(c)
    BY <1>4, <2>1 DEF NewlyFailed, Flipped, Status
  <2> DEFINE n == c.runs
             s == gate[g].reruns[q]
  <2>3. c.rerun /\ n \in Nat /\ Cleared(s) /\ s \in [1..n -> {"pass", "fail"}]
    BY <1>1, <1>2, <1>3, <2>2
  <2> HIDE DEF n, s
  <2>4. n > 0 /\ \A i \in 1..n : s[i] = "pass"
    BY <2>3, ClearedPassed
  <2>5. QED
    BY <2>3, <2>4 DEF n, s
<1>5. QED
  BY <1>1, <1>4

(* The types of the ledger and of what a gate holds, whatever was killed: a ledger is one  *)
(* that can be read, entry by entry, or one that is torn.                                  *)
THEOREM GateTypes == GateSpec => []GateTypeOK
BY GateInvariant, PTL DEF GateInv

(* gate_verdict, rerun_verdict and _rerun_flips: a gate that says PASS had something to    *)
(* compare, and asked everything that newly failed again, as often as it was told and at   *)
(* least once, and it passed every time.                                                   *)
THEOREM GatePassIsConfirmed == GateSpec => []PassIsConfirmed
<1>1. GateInv => PassIsConfirmed
  BY PassConfirms
<1>2. QED
  BY <1>1, GateInvariant, PTL

(* record_flip_observation and save_stability_records: for any number of gates, as long as *)
(* none read the ledger while another was about to rewrite it, a ledger that can be read   *)
(* has every flip of every gate with a verdict, and what flipped twice, or was split by    *)
(* its reruns, is marked as unstable.                                                      *)
THEOREM GateLedgerRemembers == GateSpec => []LedgerRemembers
<1>1. GateInv => LedgerRemembers
  BY FlipsShow DEF LedgerRemembers
<1>2. QED
  BY <1>1, GateInvariant, PTL

(***************************************************************************)
(* Signing in: any cards, bundles, lists, damaged answers and restarts.    *)
(***************************************************************************)

(* ---- what a card that signs in has shown ---- *)

Answers(c, n) == {CardAnswer(c, n)} \cup Damaged(CardAnswer(c, n))

\* The signer is looked up among the certificates of the answer.
LEMMA SignersIs ==
  ASSUME NEW c, NEW m, m.certs = <<c>> \/ m.certs = <<>>
  PROVE  Signers(m) \subseteq {c}
<1> DEFINE same == {i \in DOMAIN m.certs : m.certs[i].serial = m.sid}
<1>1. \A i \in DOMAIN m.certs : m.certs[i] = c
  OBVIOUS
<1>2. DOMAIN m.certs = {1} \/ DOMAIN m.certs = {}
  <2>1. DOMAIN <<c>> = {1} /\ DOMAIN <<>> = {}
    OBVIOUS
  <2>2. QED
    BY <2>1
<1>3. same # {} => same = {1} /\ 1 \in DOMAIN m.certs
  BY <1>2
<1>4. Min({1}) = 1
  BY DEF Min
<1>5. QED
  BY <1>1, <1>3, <1>4 DEF Signers

\* However an answer is damaged: it carries no certificate but the card's, signed over n.
LEMMA AnswerIs ==
  ASSUME NEW c, NEW n, NEW m \in Answers(c, n)
  PROVE  /\ m.attrs /\ m.digest = n
         /\ Signers(m) \subseteq {c}
<1> DEFINE a == CardAnswer(c, n)
           Same == m.attrs /\ m.digest = n /\ (m.certs = <<c>> \/ m.certs = <<>>)
<1>1. /\ a = [readable |-> TRUE, content |-> n, signers |-> TRUE, certs |-> <<c>>, sid |-> c.serial,
              attrs |-> TRUE, digest |-> n, key |-> c.key, covers |-> n]
  BY DEF CardAnswer
<1>2. ASSUME m = a
      PROVE  Same
  BY <1>1, <1>2
<1>3. ASSUME m = [a EXCEPT !.readable = FALSE]
      PROVE  Same
  BY <1>1, <1>3
<1>4. ASSUME m = [a EXCEPT !.signers = FALSE]
      PROVE  Same
  BY <1>1, <1>4
<1>5. ASSUME m = [a EXCEPT !.certs = <<>>]
      PROVE  Same
  BY <1>1, <1>5
<1>6. ASSUME NEW k, m = [a EXCEPT !.content = k]
      PROVE  Same
  BY <1>1, <1>6
<1> HIDE DEF Same
<1>7. Same
  BY <1>2, <1>3, <1>4, <1>5, <1>6 DEF Answers, Damaged
<1>8. QED
  BY <1>7, SignersIs DEF Same

\* An answer that signs in: the card signed the nonce that was asked for, and is listed.
LEMMA SignsIn ==
  ASSUME NEW c, NEW n, NEW m \in Answers(c, n), NEW t, NEW b,
         Examined(m, t, b) = "signed in"
  PROVE  /\ ~SkipNonceBinding => n = t
         /\ c.employee \in serials
<1>1. /\ \/ SkipNonceBinding
         \/ m.content = t
      /\ \E d \in Signers(m) : Signed(m, d)
      /\ \E d \in Signers(m) : d.employee \in serials
  BY DEF Examined
<1>2. m.attrs /\ m.digest = n
  BY AnswerIs
<1>3. Signers(m) \subseteq {c}
  BY AnswerIs
<1>4. m.digest = m.content
  BY <1>1, <1>2 DEF Signed
<1>5. QED
  BY <1>1, <1>2, <1>3, <1>4

(* ---- the sessions ---- *)

LEMMA PlusOne ==
  ASSUME NEW S, IsFiniteSet(S), NEW x
  PROVE  /\ IsFiniteSet(S \cup {x}) /\ Cardinality(S \cup {x}) \in Nat /\ Cardinality(S) \in Nat
         /\ Cardinality(S \cup {x}) <= Cardinality(S) + 1
<1>1. Cardinality(S) \in Nat
  BY FS_CardinalityType
<1>2. IsFiniteSet(S \cup {x}) /\ Cardinality(S \cup {x}) \in {Cardinality(S), Cardinality(S) + 1}
  BY FS_AddElement
<1>3. QED
  BY <1>1, <1>2

LEMMA OneMore ==
  ASSUME AccessTypeOK, SignInsAccounted, NEW who \in Employee \cup {"password"}, NEW x,
         x.who = who, opened' = opened \cup {x}, lines' = [lines EXCEPT ![who] = @ + 1]
  PROVE  SignInsAccounted' /\ IsFiniteSet(opened')
         /\ lines' \in [Employee \cup {"password"} -> Nat]
<1>1. IsFiniteSet(opened')
  BY PlusOne DEF AccessTypeOK
<1>2. lines' \in [Employee \cup {"password"} -> Nat]
  BY DEF AccessTypeOK
<1>3. ASSUME NEW w \in Employee \cup {"password"}
      PROVE  Cardinality({s \in opened' : s.who = w}) <= lines'[w]
  <2> DEFINE had == {s \in opened : s.who = w}
  <2>1. IsFiniteSet(had) /\ Cardinality(had) \in Nat /\ lines[w] \in Nat /\ Cardinality(had) <= lines[w]
    BY FS_Subset, FS_CardinalityType DEF AccessTypeOK, SignInsAccounted
  <2>2. CASE w = who
    <3>1. {s \in opened' : s.who = w} = had \cup {x}
      BY <2>2
    <3>2. lines'[w] = lines[w] + 1
      BY <2>2 DEF AccessTypeOK
    <3> HIDE DEF had
    <3>3. Cardinality(had \cup {x}) \in Nat /\ Cardinality(had \cup {x}) <= Cardinality(had) + 1
      BY <2>1, PlusOne
    <3>4. Cardinality(had \cup {x}) <= lines'[w]
      BY <2>1, <3>2, <3>3
    <3>5. QED
      BY <3>1, <3>4
  <2>3. CASE w # who
    <3>1. {s \in opened' : s.who = w} = had /\ lines'[w] = lines[w]
      BY <2>3 DEF AccessTypeOK
    <3>2. QED
      BY <2>1, <3>1
  <2>4. QED
    BY <2>2, <2>3
<1>4. QED
  BY <1>1, <1>2, <1>3 DEF SignInsAccounted

Tallies == [tokens : 0..MaxTokens, logins : 0..MaxLogins, bundles : 0..MaxBundles,
            boots : 0..MaxBoots, faults : 0..MaxLogFaults]

\* A sign-in, by card or password: a line and a session, or a fault and neither.
LEMMA SignInKeeps ==
  ASSUME AccessInv, NEW who \in Employee \cup {"password"}, NEW grounds, NEW spent \in Tallies,
         spent.tokens = tally.tokens, spent.boots = tally.boots, spent.faults = tally.faults,
         SignIn(who, grounds, spent)
  PROVE  /\ SignInsAccounted' /\ IsFiniteSet(opened')
         /\ lines' \in [Employee \cup {"password"} -> Nat]
         /\ \A n \in sessions' : \E s \in opened' : s.n = n
         /\ tally' \in Tallies /\ tally'.tokens = tally.tokens /\ tally'.boots = tally.boots
         /\ \/ opened' = opened
            \/ \E x : /\ opened' = opened \cup {x}
                      /\ x.on = grounds /\ x.boot = tally.boots
<1> DEFINE x == Session(who, grounds)
<1>1. x.who = who /\ x.on = grounds /\ x.boot = tally.boots
  BY DEF Session
<1>2. CASE /\ lines' = [lines EXCEPT ![who] = @ + 1]
           /\ sessions' = sessions \cup {x.n}
           /\ opened' = opened \cup {x}
           /\ tally' = spent
  <2> HIDE DEF x
  <2>1. SignInsAccounted' /\ IsFiniteSet(opened') /\ lines' \in [Employee \cup {"password"} -> Nat]
    BY <1>1, <1>2, OneMore DEF AccessInv
  <2>2. \A n \in sessions' : \E s \in opened' : s.n = n
    BY <1>2 DEF AccessInv, AccessTypeOK
  <2>3. QED
    BY <1>1, <1>2, <2>1, <2>2
<1>3. CASE /\ tally.faults < MaxLogFaults
           /\ tally' = [spent EXCEPT !.faults = @ + 1]
           /\ UNCHANGED <<lines, sessions, opened>>
  <2>1. MaxLogFaults \in Nat /\ tally.faults \in Nat
    BY AccessAssumption DEF AccessInv, AccessTypeOK
  <2>2. tally' \in Tallies /\ tally'.tokens = tally.tokens /\ tally'.boots = tally.boots
    BY <1>3, <2>1 DEF Tallies
  <2>3. QED
    BY <1>3, <2>2 DEF AccessInv, AccessTypeOK, SignInsAccounted
<1>4. QED
  BY <1>2, <1>3 DEF SignIn

(* ---- the challenges they rest on ---- *)

\* Challenges that are spent stay spent.
LEMMA RestsStill ==
  ASSUME RestsOnSpent, opened' = opened,
         \A t \in DOMAIN issued : /\ t \in DOMAIN issued' /\ issued'[t] = issued[t]
                                  /\ t \in DOMAIN challenges' => t \in DOMAIN challenges
  PROVE  RestsOnSpent'
BY DEF RestsOnSpent

\* A new session rests on a challenge that was there and is spent with it.
LEMMA RestsToo ==
  ASSUME RestsOnSpent, issued' = issued, DOMAIN challenges' \subseteq DOMAIN challenges,
         NEW x, opened' = opened \cup {x},
         x.on # Nil =>
           /\ x.on.token \in DOMAIN issued /\ x.on.token \in DOMAIN challenges \ DOMAIN challenges'
           /\ ~SkipNonceBinding => x.on.nonce = x.on.token
           /\ issued[x.on.token].boot = x.boot
           /\ x.on.at < issued[x.on.token].at + Ttl
  PROVE  RestsOnSpent'
<1>1. ASSUME NEW s \in opened', s.on # Nil, NEW r \in opened', r.on # Nil, r.on.token = s.on.token
      PROVE  r = s
  BY <1>1 DEF RestsOnSpent
<1>2. ASSUME NEW s \in opened', s.on # Nil
      PROVE  /\ s.on.token \in DOMAIN issued \ DOMAIN challenges'
             /\ ~SkipNonceBinding => s.on.nonce = s.on.token
             /\ issued[s.on.token].boot = s.boot
             /\ s.on.at < issued[s.on.token].at + Ttl
  BY <1>2 DEF RestsOnSpent
<1>3. QED
  BY <1>1, <1>2 DEF RestsOnSpent

(* ---- the steps ---- *)

LEMMA Quantities ==
  ASSUME AccessTypeOK
  PROVE  /\ now \in Nat /\ Ttl \in Nat /\ MaxTokens \in Nat /\ MaxBoots \in Nat
         /\ MaxLogins \in Nat /\ MaxBundles \in Nat /\ MaxLogFaults \in Nat
         /\ tally \in Tallies /\ tally.tokens \in Nat /\ tally.boots \in Nat
         /\ tally.logins \in Nat /\ tally.bundles \in Nat
         /\ DOMAIN issued = 1..tally.tokens
         /\ \A t \in DOMAIN issued : issued[t].at \in Nat
         /\ DOMAIN challenges \subseteq Token
         /\ \A t \in DOMAIN challenges : challenges[t] \in Nat
<1>1. /\ now \in Nat /\ Ttl \in Nat /\ MaxTokens \in Nat /\ MaxBoots \in Nat
      /\ MaxLogins \in Nat /\ MaxBundles \in Nat /\ MaxLogFaults \in Nat
  BY AccessAssumption DEF AccessTypeOK
<1>2. /\ tally \in Tallies /\ tally.tokens \in Nat /\ tally.boots \in Nat
      /\ tally.logins \in Nat /\ tally.bundles \in Nat
  BY <1>1 DEF AccessTypeOK, Tallies
<1>3. DOMAIN issued = 1..tally.tokens /\ \A t \in DOMAIN issued : issued[t].at \in Nat
  <2> DEFINE R == [at : Nat, boot : 0..MaxBoots]
  <2>1. issued \in Seq(R) /\ Len(issued) = tally.tokens
    BY DEF AccessTypeOK
  <2>2. \A r \in R : r.at \in Nat
    OBVIOUS
  <2> HIDE DEF R
  <2>3. QED
    BY <2>1, <2>2
<1>4. PICK live \in SUBSET Token : challenges \in [live -> Nat]
  BY DEF AccessTypeOK
<1>5. QED
  BY <1>1, <1>2, <1>3, <1>4

LEMMA ChallengeKeeps ==
  ASSUME AccessInv, Challenge
  PROVE  AccessInv'
<1> DEFINE t == tally.tokens + 1
           kept == {k \in DOMAIN challenges : challenges[k] > now}
<1>1. /\ t \in Token /\ tally' = [tally EXCEPT !.tokens = t]
      /\ challenges' = [k \in kept \cup {t} |-> IF k = t THEN now + Ttl ELSE challenges[k]]
      /\ issued' = Append(issued, [at |-> now, boot |-> tally.boots])
      /\ UNCHANGED <<now, file, anchors, serials, sessions, lines, opened, verdict>>
  BY DEF Challenge
<1>2. /\ now \in Nat /\ Ttl \in Nat /\ tally \in Tallies /\ tally.tokens \in Nat
      /\ DOMAIN issued = 1..tally.tokens /\ DOMAIN challenges \subseteq Token
      /\ \A k \in DOMAIN challenges : challenges[k] \in Nat
      /\ MaxTokens \in Nat
  BY Quantities DEF AccessInv
<1>3. /\ issued' \in Seq([at : Nat, boot : 0..MaxBoots]) /\ Len(issued') = t
      /\ DOMAIN issued' = 1..t
      /\ issued'[t] = [at |-> now, boot |-> tally.boots]
      /\ \A k \in 1..tally.tokens : issued'[k] = issued[k]
  BY <1>1, <1>2 DEF AccessInv, AccessTypeOK
<1>4. tally' \in Tallies /\ tally'.tokens = t /\ tally'.boots = tally.boots
  <2>1. t \in 0..MaxTokens
    BY <1>1, <1>2 DEF Token
  <2> HIDE DEF t
  <2>2. QED
    BY <1>1, <1>2, <2>1 DEF Tallies
<1>5. challenges' \in [kept \cup {t} -> Nat] /\ kept \cup {t} \in SUBSET Token
  BY <1>1, <1>2
<1>6. AccessTypeOK'
  BY <1>1, <1>3, <1>4, <1>5 DEF AccessInv, AccessTypeOK, Tallies
<1>7. Outstanding'
  <2>1. \A k \in kept : k \in 1..tally.tokens /\ challenges[k] = issued[k].at + Ttl
                        /\ issued[k].boot = tally.boots
    BY <1>2 DEF AccessInv, Outstanding
  <2>2. ASSUME NEW k \in DOMAIN challenges'
        PROVE  /\ k \in DOMAIN issued' /\ challenges'[k] = issued'[k].at + Ttl
               /\ issued'[k].boot = tally'.boots
    <3>1. CASE k = t
      BY <1>1, <1>2, <1>3, <1>4, <3>1
    <3>2. CASE k # t
      <4>1. k \in kept /\ challenges'[k] = challenges[k]
        BY <1>1, <3>2
      <4>2. k \in 1..tally.tokens /\ k \in DOMAIN issued' /\ issued'[k] = issued[k]
        BY <1>2, <1>3, <2>1, <4>1
      <4>3. QED
        BY <1>4, <2>1, <4>1, <4>2
    <3>3. QED
      BY <3>1, <3>2
  <2>3. QED
    BY <2>2 DEF Outstanding
<1>8. RestsOnSpent'
  <2>1. \A k \in DOMAIN issued : /\ k \in DOMAIN issued' /\ issued'[k] = issued[k]
                                 /\ k \in DOMAIN challenges' => k \in DOMAIN challenges
    BY <1>1, <1>2, <1>3
  <2>2. QED
    BY <1>1, <2>1, RestsStill DEF AccessInv
<1>9. SignInsAccounted'
  BY <1>1 DEF AccessInv, SignInsAccounted
<1>10. QED
  BY <1>6, <1>7, <1>8, <1>9 DEF AccessInv

\* Nothing but the challenge is gone.
LEMMA SpentOnly ==
  ASSUME AccessInv, NEW t, issued' = issued, challenges' = [k \in Consumed(t) |-> challenges[k]],
         tally'.boots = tally.boots
  PROVE  /\ \E live \in SUBSET Token : challenges' \in [live -> Nat]
         /\ DOMAIN challenges' = DOMAIN challenges \ {t} /\ Outstanding'
<1>1. DOMAIN challenges \subseteq Token /\ \A k \in DOMAIN challenges : challenges[k] \in Nat
  BY Quantities DEF AccessInv
<1>2. challenges' \in [Consumed(t) -> Nat] /\ Consumed(t) \in SUBSET Token
  BY <1>1 DEF Consumed
<1>3. DOMAIN challenges' = DOMAIN challenges \ {t} /\ Outstanding'
  BY DEF Consumed, AccessInv, Outstanding
<1>4. QED
  BY <1>2, <1>3

LEMMA CardVerifyKeeps ==
  ASSUME AccessInv, NEW t \in Token, NEW c, NEW n, NEW m \in Answers(c, n), CardVerify(t, c, n, m)
  PROVE  AccessInv'
<1> DEFINE b == IF anchors # Nil THEN anchors ELSE IF Usable(file) THEN file ELSE Nil
           grounds == [token |-> t, card |-> c, nonce |-> n, at |-> now, bundle |-> b]
<1>1. /\ t \in DOMAIN challenges /\ challenges' = [k \in Consumed(t) |-> challenges[k]]
      /\ UNCHANGED <<now, file, serials, issued>>
      /\ anchors' = b \/ anchors' = anchors
      /\ \/ UNCHANGED <<sessions, lines, tally, opened>>
         \/ /\ challenges[t] > now /\ Examined(m, t, b) = "signed in"
            /\ SignIn(c.employee, grounds, tally)
  BY DEF CardVerify, Live
<1>2. tally \in Tallies /\ DOMAIN issued = 1..tally.tokens
  BY Quantities DEF AccessInv
<1>3. b \in Bundles \cup {Nil}
  BY DEF AccessInv, AccessTypeOK
<1> HIDE DEF b
<1>4. CASE UNCHANGED <<sessions, lines, tally, opened>>
  <2>1. /\ \E live \in SUBSET Token : challenges' \in [live -> Nat]
        /\ DOMAIN challenges' = DOMAIN challenges \ {t} /\ Outstanding'
    BY <1>1, <1>4, SpentOnly
  <2>2. AccessTypeOK'
    BY <1>1, <1>3, <1>4, <2>1 DEF AccessInv, AccessTypeOK
  <2>3. RestsOnSpent'
    BY <1>1, <1>4, <2>1, RestsStill DEF AccessInv
  <2>4. SignInsAccounted'
    BY <1>4 DEF AccessInv, SignInsAccounted
  <2>5. QED
    BY <2>1, <2>2, <2>3, <2>4 DEF AccessInv
<1>5. CASE /\ challenges[t] > now /\ Examined(m, t, b) = "signed in"
           /\ SignIn(c.employee, grounds, tally)
  <2>1. /\ ~SkipNonceBinding => n = t
        /\ c.employee \in serials
    BY <1>5, SignsIn
  <2>2. c.employee \in Employee
    BY <2>1, AccessAssumption DEF AccessInv, AccessTypeOK
  <2>3. grounds.token = t /\ grounds.nonce = n /\ grounds.at = now
    OBVIOUS
  <2> HIDE DEF grounds
  <2>4. /\ SignInsAccounted' /\ IsFiniteSet(opened')
        /\ lines' \in [Employee \cup {"password"} -> Nat]
        /\ \A k \in sessions' : \E s \in opened' : s.n = k
        /\ tally' \in Tallies /\ tally'.tokens = tally.tokens /\ tally'.boots = tally.boots
        /\ \/ opened' = opened
           \/ \E x : /\ opened' = opened \cup {x}
                     /\ x.on = grounds /\ x.boot = tally.boots
    BY <1>2, <1>5, <2>2, SignInKeeps
  <2>5. /\ \E live \in SUBSET Token : challenges' \in [live -> Nat]
        /\ DOMAIN challenges' = DOMAIN challenges \ {t} /\ Outstanding'
    BY <1>1, <2>4, SpentOnly
  <2>6. AccessTypeOK'
    BY <1>1, <1>3, <2>4, <2>5 DEF AccessInv, AccessTypeOK, Tallies
  <2>7. CASE opened' = opened
    BY <1>1, <2>4, <2>5, <2>6, <2>7, RestsStill DEF AccessInv
  <2>8. ASSUME NEW x, opened' = opened \cup {x}, x.on = grounds, x.boot = tally.boots
        PROVE  RestsOnSpent'
    <3>1. t \in DOMAIN issued /\ issued[t].boot = tally.boots /\ challenges[t] = issued[t].at + Ttl
      BY <1>1 DEF AccessInv, Outstanding
    <3>2. /\ x.on.token = t /\ x.on.nonce = n /\ x.on.at = now
      BY <2>3, <2>8
    <3>3. now < issued[t].at + Ttl
      <4>1. now \in Nat /\ challenges[t] \in Nat
        BY <1>1, Quantities DEF AccessInv
      <4>2. QED
        BY <1>5, <3>1, <4>1
    <3>4. QED
      BY <1>1, <2>1, <2>5, <2>8, <3>1, <3>2, <3>3, RestsToo DEF AccessInv
  <2>9. QED
    BY <2>4, <2>5, <2>6, <2>7, <2>8 DEF AccessInv
<1>6. QED
  BY <1>1, <1>4, <1>5

LEMMA LoginKeeps ==
  ASSUME AccessInv, Login
  PROVE  AccessInv'
<1> DEFINE spent == [tally EXCEPT !.logins = @ + 1]
<1>1. /\ SignIn("password", Nil, spent) /\ tally.logins < MaxLogins
      /\ UNCHANGED <<now, file, anchors, serials, challenges, issued, verdict>>
  BY DEF Login
<1>2. /\ spent \in Tallies /\ spent.tokens = tally.tokens /\ spent.boots = tally.boots
      /\ spent.faults = tally.faults
  <2>1. tally \in Tallies /\ tally.logins \in Nat /\ MaxLogins \in Nat
    BY Quantities DEF AccessInv
  <2>2. QED
    BY <1>1, <2>1 DEF Tallies
<1> HIDE DEF spent
<1>3. /\ SignInsAccounted' /\ IsFiniteSet(opened')
      /\ lines' \in [Employee \cup {"password"} -> Nat]
      /\ \A k \in sessions' : \E s \in opened' : s.n = k
      /\ tally' \in Tallies /\ tally'.tokens = tally.tokens /\ tally'.boots = tally.boots
      /\ \/ opened' = opened
         \/ \E x : /\ opened' = opened \cup {x}
                   /\ x.on = Nil /\ x.boot = tally.boots
  <2> DEFINE who == "password"
  <2>1. who \in Employee \cup {"password"} /\ SignIn(who, Nil, spent)
    BY <1>1
  <2> HIDE DEF who
  <2>2. QED
    BY <1>2, <2>1, SignInKeeps
<1>4. AccessTypeOK'
  BY <1>1, <1>3 DEF AccessInv, AccessTypeOK, Tallies
<1>5. Outstanding'
  BY <1>1, <1>3 DEF AccessInv, Outstanding
<1>6. CASE opened' = opened
  BY <1>1, <1>3, <1>4, <1>5, <1>6, RestsStill DEF AccessInv
<1>7. ASSUME NEW x, opened' = opened \cup {x}, x.on = Nil
      PROVE  RestsOnSpent'
  BY <1>1, <1>7, RestsToo DEF AccessInv
<1>8. QED
  BY <1>3, <1>4, <1>5, <1>6, <1>7 DEF AccessInv

LEMMA RebootKeeps ==
  ASSUME AccessInv, Reboot
  PROVE  AccessInv'
<1>1. /\ tally.boots < MaxBoots /\ tally' = [tally EXCEPT !.boots = @ + 1]
      /\ serials' \in Lists /\ anchors' = Nil /\ challenges' = <<>> /\ sessions' = {}
      /\ UNCHANGED <<now, file, lines, issued, opened, verdict>>
  BY DEF Reboot
<1>2. /\ tally' \in Tallies /\ tally'.tokens = tally.tokens
  <2>1. tally \in Tallies /\ tally.boots \in Nat /\ MaxBoots \in Nat
    BY Quantities DEF AccessInv
  <2>2. QED
    BY <1>1, <2>1 DEF Tallies
<1>3. challenges' \in [{} -> Nat] /\ DOMAIN challenges' = {}
  BY <1>1
<1>4. AccessTypeOK'
  BY <1>1, <1>2, <1>3 DEF AccessInv, AccessTypeOK, Tallies
<1>5. Outstanding'
  BY <1>3 DEF Outstanding
<1>6. RestsOnSpent'
  BY <1>1, <1>3, RestsStill DEF AccessInv
<1>7. SignInsAccounted'
  BY <1>1 DEF AccessInv, SignInsAccounted
<1>8. QED
  BY <1>4, <1>5, <1>6, <1>7 DEF AccessInv

\* The clock, the bundle on disk and the end of a session touch nothing of it.
LEMMA AsideKeeps ==
  ASSUME AccessInv, now' \in Nat, file' \in Bundles, sessions' \subseteq sessions,
         tally' \in Tallies, tally'.tokens = tally.tokens, tally'.boots = tally.boots,
         UNCHANGED <<anchors, serials, challenges, lines, issued, opened>>
  PROVE  AccessInv'
<1>1. AccessTypeOK'
  BY DEF AccessInv, AccessTypeOK, Tallies
<1>2. Outstanding' /\ SignInsAccounted'
  BY DEF AccessInv, Outstanding, SignInsAccounted
<1>3. RestsOnSpent'
  BY RestsStill DEF AccessInv
<1>4. QED
  BY <1>1, <1>2, <1>3 DEF AccessInv

LEMMA AccessNextKeeps ==
  ASSUME AccessInv, [AccessNext]_accessVars
  PROVE  AccessInv'
<1>0. now \in Nat /\ file \in Bundles /\ tally \in Tallies
  BY Quantities DEF AccessInv, AccessTypeOK
<1>1. CASE Challenge
  BY <1>1, ChallengeKeeps
<1>2. ASSUME NEW t \in Token, NEW c \in Cards, NEW n \in 1..tally.tokens,
             NEW m \in {CardAnswer(c, n)} \cup Damaged(CardAnswer(c, n)), CardVerify(t, c, n, m)
      PROVE  AccessInv'
  BY <1>2, CardVerifyKeeps DEF Answers
<1>3. CASE Login
  BY <1>3, LoginKeeps
<1>4. ASSUME NEW n \in sessions, Logout(n)
      PROVE  AccessInv'
  BY <1>0, <1>4, AsideKeeps DEF Logout
<1>5. CASE Tick
  BY <1>0, <1>5, AsideKeeps DEF Tick
<1>6. CASE Replace
  <2>1. tally' \in Tallies /\ tally'.tokens = tally.tokens /\ tally'.boots = tally.boots
    <3>1. tally.bundles \in Nat /\ MaxBundles \in Nat
      BY Quantities DEF AccessInv
    <3>2. QED
      BY <1>0, <1>6, <3>1 DEF Replace, Tallies
  <2>2. QED
    BY <1>0, <1>6, <2>1, AsideKeeps DEF Replace
<1>7. CASE Reboot
  BY <1>7, RebootKeeps
<1>8. CASE UNCHANGED accessVars
  BY <1>0, <1>8, AsideKeeps DEF accessVars
<1>9. QED
  BY <1>1, <1>2, <1>3, <1>4, <1>5, <1>6, <1>7, <1>8 DEF AccessNext

LEMMA AccessInitInv ==
  ASSUME AccessInit
  PROVE  AccessInv
<1>1. tally \in Tallies /\ tally.tokens = 0
  BY AccessAssumption DEF AccessInit, Tallies
<1>2. challenges \in [{} -> Nat] /\ DOMAIN challenges = {}
  BY DEF AccessInit
<1>3. issued \in Seq([at : Nat, boot : 0..MaxBoots]) /\ Len(issued) = 0
  BY DEF AccessInit
<1>4. IsFiniteSet(opened) /\ opened = {} /\ sessions = {}
  BY FS_EmptySet DEF AccessInit
<1>5. AccessTypeOK
  BY <1>1, <1>2, <1>3, <1>4 DEF AccessInit, AccessTypeOK, Tallies
<1>6. Outstanding /\ RestsOnSpent
  BY <1>2, <1>4 DEF Outstanding, RestsOnSpent
<1>7. SignInsAccounted
  <2>1. \A who \in Employee \cup {"password"} : /\ {s \in opened : s.who = who} = {}
                                                /\ lines[who] = 0
    BY <1>4 DEF AccessInit
  <2>2. QED
    BY <2>1, FS_EmptySet DEF SignInsAccounted
<1>8. QED
  BY <1>5, <1>6, <1>7 DEF AccessInv

LEMMA AccessInvariant == AccessSpec => []AccessInv
BY AccessInitInv, AccessNextKeeps, PTL DEF AccessSpec

(* The types of what the console keeps of challenges and sessions; every live session is   *)
(* one that was opened.                                                                    *)
THEOREM AccessTypes == AccessSpec => []AccessTypeOK
BY AccessInvariant, PTL DEF AccessInv

(* log_change before _new_session_response: whatever lines cannot be written, nobody has   *)
(* opened more sessions than changes.jsonl tells of.                                       *)
THEOREM AccessSignInsAccounted == AccessSpec => []SignInsAccounted
BY AccessInvariant, PTL DEF AccessInv

(* ChallengeStore.consume and the comparison with eContent, when the binding of the nonce  *)
(* is not switched off: a session of a card rests on a signature over the nonce of a       *)
(* challenge this process issued less than Ttl ago, and on no other session's, for any     *)
(* cards, bundles, damage, delays and restarts.                                            *)
THEOREM AccessAnswersAreFresh ==
  ASSUME ~SkipNonceBinding
  PROVE  AccessSpec => []AnswersAreFresh
<1>1. AccessInv => AnswersAreFresh
  BY DEF AccessInv, RestsOnSpent, AnswersAreFresh
<1>2. QED
  BY <1>1, AccessInvariant, PTL

(***************************************************************************)
(* The chain of certificates: the climb of _verify_chain against what a    *)
(* chain is, for any bundle.                                               *)
(***************************************************************************)

\* A nonempty set of naturals has a least element.
LEMMA LeastOf ==
  ASSUME NEW T, T \subseteq Nat, T # {}
  PROVE  \E x \in T : \A y \in T : x <= y
<1>1. \E R : IsWellFoundedOn(R, Nat) /\ \A x, y \in Nat : y < x => <<y, x>> \in R
  <2> DEFINE R == {r \in Nat \X Nat : r[1] < r[2]}
  <2>1. R = OpToRel(<, Nat)
    BY DEF OpToRel
  <2>2. IsWellFoundedOn(R, Nat)
    BY <2>1, NatLessThanWellFounded
  <2>3. \A x, y \in Nat : y < x => <<y, x>> \in R
    OBVIOUS
  <2>4. QED
    BY <2>2, <2>3
<1>2. PICK R : IsWellFoundedOn(R, Nat) /\ \A x, y \in Nat : y < x => <<y, x>> \in R
  BY <1>1
<1>3. PICK x \in T : \A y \in T : ~ (<<y, x>> \in R)
  BY <1>2, WFMin
<1>4. ASSUME NEW y \in T
      PROVE  x <= y
  <2>1. x \in Nat /\ y \in Nat /\ ~(y < x)
    BY <1>2, <1>3
  <2>2. QED
    BY <2>1
<1>5. QED
  BY <1>4

\* A nonempty set of places in a sequence has a last one.
LEMMA LastPlace ==
  ASSUME NEW n \in Nat, NEW T \in SUBSET (1..n), T # {}
  PROVE  Max(T) \in T
<1> DEFINE U == {n - i : i \in T}
<1>0. \A i \in T : i \in Nat /\ i <= n
  OBVIOUS
<1>1. U \subseteq Nat /\ U # {}
  <2>1. \A i \in T : n - i \in Nat
    BY <1>0
  <2>2. QED
    BY <2>1
<1>2. PICK x \in U : \A y \in U : x <= y
  BY <1>1, LeastOf
<1>3. PICK m \in T : x = n - m
  OBVIOUS
<1>4. ASSUME NEW i \in T
      PROVE  m >= i
  <2>1. n - m <= n - i
    BY <1>2, <1>3
  <2>2. QED
    BY <1>0, <2>1
<1>5. \E i \in T : \A j \in T : i >= j
  BY <1>4
<1> HIDE DEF U
<1>6. QED
  BY <1>5 DEF Max

\* What the climb looks at in n steps, from what it looks at in n - 1.
Climbed(b, at, card, n, below) ==
  IF n = 0 THEN {}
  ELSE {c \in {card} \cup ToSet(b) :
          /\ Valid(c, at)
          /\ \/ c \in SelfIssued(b)
             \/ \E p \in Anchor(b, c.issuer) : SignedBy(c, p) /\ p \in below}

\* The climb is what its recursion says, to any depth.
LEMMA InReachIs ==
  ASSUME AccessAssumption, NEW b, NEW at, NEW card
  PROVE  \A n \in 0..MaxDepth :
           InReach(b, at, card)[n] = Climbed(b, at, card, n, InReach(b, at, card)[n - 1])
<1> DEFINE S(f, n) == Climbed(b, at, card, n, f[n - 1])
           Rec(f, m) == f = [n \in 0..m |-> S(f, n)]
<1>0. MaxDepth \in Nat
  BY DEF AccessAssumption
<1>1. ASSUME NEW m \in Nat
      PROVE  \E f : Rec(f, m)
  <2> DEFINE bad == {k \in Nat : ~ \E f : Rec(f, k)}
  <2> SUFFICES ASSUME bad # {}
               PROVE  FALSE
    OBVIOUS
  <2>1. PICK k \in bad : \A j \in bad : k <= j
    BY LeastOf
  <2>2. CASE k = 0
    <3> DEFINE f == [n \in 0..0 |-> {}]
    <3>1. \A n \in 0..0 : S(f, n) = {}
      BY DEF Climbed
    <3>2. f = [n \in 0..0 |-> S(f, n)]
      BY <3>1
    <3>3. QED
      BY <2>2, <3>2
  <2>3. CASE k # 0
    <3>1. k - 1 \in Nat /\ k - 1 \notin bad
      BY <2>1, <2>3
    <3>2. PICK g : Rec(g, k - 1)
      BY <3>1
    <3>2a. \A n \in 0..(k - 1) : g[n] = S(g, n)
      <4> SUFFICES ASSUME NEW n \in 0..(k - 1)
                   PROVE  g[n] = S(g, n)
        OBVIOUS
      <4>1. g[n] = [j \in 0..(k - 1) |-> S(g, j)][n]
        BY <3>2
      <4>2. QED
        BY <4>1
    <3> DEFINE f == [n \in 0..k |-> IF n = k THEN S(g, k) ELSE g[n]]
    <3>3. ASSUME NEW n \in 0..k
          PROVE  f[n] = S(f, n)
      <4>1. CASE n = 0
        <5>1. 0 \in 0..(k - 1) /\ 0 # k
          BY <2>3, <3>1
        <5>2. f[0] = g[0] /\ g[0] = S(g, 0)
          BY <3>2a, <5>1
        <5>3. QED
          BY <4>1, <5>2 DEF Climbed
      <4>2. CASE n # 0
        <5>1. n - 1 \in 0..k /\ n - 1 # k
          BY <4>2
        <5>2. f[n - 1] = g[n - 1]
          BY <5>1
        <5>3. f[n] = S(g, n)
          <6>1. CASE n = k
            BY <6>1
          <6>2. CASE n # k
            <7>1. n \in 0..(k - 1) /\ f[n] = g[n]
              BY <6>2
            <7>2. QED
              BY <3>2a, <7>1
          <6>3. QED
            BY <6>1, <6>2
        <5>4. QED
          BY <5>2, <5>3
      <4>3. QED
        BY <4>1, <4>2
    <3>4. f = [n \in 0..k |-> f[n]]
      OBVIOUS
    <3> HIDE DEF f
    <3>5. Rec(f, k)
      BY <3>3, <3>4
    <3>6. QED
      BY <2>1, <3>5
  <2>4. QED
    BY <2>2, <2>3
<1>2. PICK f : Rec(f, MaxDepth)
  BY <1>0, <1>1
<1>3. InReach(b, at, card) = CHOOSE g : Rec(g, MaxDepth)
  BY DEF InReach, Climbed
<1>4. Rec(InReach(b, at, card), MaxDepth)
  BY <1>2, <1>3
<1>5. QED
  BY <1>4

\* The steps of the climb, for members: where it ends and where it goes on.
LEMMA ClimbStep ==
  ASSUME AccessAssumption, NEW b, NEW at, NEW card, NEW n \in 1..MaxDepth, NEW c
  PROVE  /\ n - 1 \in 0..MaxDepth
         /\ c \in InReach(b, at, card)[n] <=>
              /\ c \in {card} \cup ToSet(b) /\ Valid(c, at)
              /\ \/ c \in SelfIssued(b)
                 \/ \E p \in Anchor(b, c.issuer) :
                      SignedBy(c, p) /\ p \in InReach(b, at, card)[n - 1]
         /\ InReach(b, at, card)[0] = {}
<1>1. MaxDepth \in Nat /\ n \in 0..MaxDepth /\ n # 0 /\ 0 \in 0..MaxDepth /\ n - 1 \in 0..MaxDepth
  BY DEF AccessAssumption
<1> DEFINE R == InReach(b, at, card)
<1>2. \A j \in 0..MaxDepth : R[j] = Climbed(b, at, card, j, R[j - 1])
  BY InReachIs
<1> HIDE DEF R
<1>3. R[n] = Climbed(b, at, card, n, R[n - 1]) /\ R[0] = Climbed(b, at, card, 0, R[0 - 1])
  BY <1>1, <1>2
<1>4. /\ c \in R[n] <=> /\ c \in {card} \cup ToSet(b) /\ Valid(c, at)
                        /\ \/ c \in SelfIssued(b)
                           \/ \E p \in Anchor(b, c.issuer) : SignedBy(c, p) /\ p \in R[n - 1]
      /\ R[0] = {}
  BY <1>1, <1>3 DEF Climbed
<1>5. QED
  BY <1>1, <1>4 DEF R

\* An anchor is a certificate of the bundle with the name that was looked up.
LEMMA AnchorIs ==
  ASSUME NEW b, b \in Seq(ToSet(b)), NEW name, NEW p \in Anchor(b, name)
  PROVE  p \in ToSet(b) /\ p.subject = name
<1> DEFINE named == {i \in DOMAIN b : b[i].subject = name}
<1>1. Len(b) \in Nat /\ DOMAIN b = 1..Len(b)
  OBVIOUS
<1>2. named # {} /\ p = b[Max(named)]
  BY DEF Anchor
<1>3. named \in SUBSET (1..Len(b))
  BY <1>1
<1>4. Max(named) \in named
  BY <1>1, <1>2, <1>3, LastPlace
<1>5. QED
  BY <1>2, <1>4 DEF ToSet

LEMMA Interval ==
  ASSUME NEW n \in Nat
  PROVE  /\ IsFiniteSet(1..n) /\ Cardinality(1..n) = n
         /\ n > 1 => Cardinality(2..n) = n - 1
<1>1. IsFiniteSet(1..n) /\ Cardinality(1..n) = IF 1 > n THEN 0 ELSE n - 1 + 1
  BY FS_Interval
<1>2. Cardinality(2..n) = IF 2 > n THEN 0 ELSE n - 2 + 1
  BY FS_Interval
<1>3. QED
  BY <1>1, <1>2

\* In a bundle without two certificates of one name, it is the certificate of that name.
LEMMA AnchorOf ==
  ASSUME NEW b, b \in Seq(ToSet(b)), Cardinality({c.subject : c \in ToSet(b)}) = Len(b),
         NEW p \in ToSet(b)
  PROVE  p \in Anchor(b, p.subject)
<1> DEFINE T == {c.subject : c \in ToSet(b)}
           f == [i \in 1..Len(b) |-> b[i].subject]
           named == {i \in DOMAIN b : b[i].subject = p.subject}
<1>1. Len(b) \in Nat /\ DOMAIN b = 1..Len(b)
  OBVIOUS
<1>2. f \in Surjection(1..Len(b), T)
  BY <1>1 DEF Surjection, ToSet
<1>3. IsFiniteSet(1..Len(b)) /\ Cardinality(1..Len(b)) = Len(b)
  BY <1>1, Interval
<1>4. f \in Injection(1..Len(b), T)
  BY <1>2, <1>3, FS_Surjection
<1>5. \A i, j \in 1..Len(b) : b[i].subject = b[j].subject => i = j
  BY <1>4 DEF Injection, IsInjective
<1>6. PICK k \in 1..Len(b) : p = b[k]
  BY <1>1 DEF ToSet
<1>7. named = {k}
  BY <1>1, <1>5, <1>6
<1>8. Max(named) \in named
  BY <1>1, <1>7, LastPlace
<1>9. QED
  BY <1>6, <1>7, <1>8 DEF Anchor

(* ---- a climb that arrives: the certificates it passed, none of them twice ---- *)

\* Places in a chain, counted from the card and from the root.
LEMMA OneUp ==
  ASSUME NEW D \in Nat, NEW n \in 1..D, NEW j \in 0..(n - 2)
  PROVE  j + 1 \in 1..D /\ j + 1 \in 0..(n - 1) /\ (j + 1) - 1 = j
<1>1. n \in Nat /\ n <= D /\ j \in Nat /\ j <= n - 2
  OBVIOUS
<1>2. QED
  BY <1>1

LEMMA OneDown ==
  ASSUME NEW n \in Nat, NEW i \in 1..n, i # 1
  PROVE  i \in 2..n /\ i - 1 \in 1..(n - 1) /\ (n - 1) + 1 - (i - 1) = n + 1 - i
<1>1. i \in Nat /\ 2 <= i /\ i <= n
  OBVIOUS
<1>2. QED
  BY <1>1

LEMMA FartherUp ==
  ASSUME NEW n \in Nat, NEW i \in 1..n, NEW j \in 1..n, i < j
  PROVE  n + 1 - j \in 0..((n + 1 - i) - 1)
<1>1. i \in Nat /\ j \in Nat /\ 1 <= i /\ j <= n /\ i + 1 <= j
  OBVIOUS
<1>2. QED
  BY <1>1

\* The fewest certificates from which c is known to reach a root.
Rank(b, at, card, c, n) ==
  c \in InReach(b, at, card)[n] /\ \A j \in 0..(n - 1) : c \notin InReach(b, at, card)[j]

\* A chain from c, each certificate one nearer to the root than the one before.
Descends(b, at, card, c, n, p) ==
  /\ p \in [1..n -> {card} \cup ToSet(b)]
  /\ p[1] = c
  /\ p[n] \in SelfIssued(b)
  /\ \A i \in 1..n : Valid(p[i], at) /\ Rank(b, at, card, p[i], n + 1 - i)
  /\ \A i \in 1..(n - 1) :
       p[i + 1] \in ToSet(b) /\ p[i].issuer = p[i + 1].subject /\ SignedBy(p[i], p[i + 1])

\* Where the climb stands after the first step down.
LEMMA RankStep ==
  ASSUME AccessAssumption, NEW b, b \in Seq(ToSet(b)), NEW at, NEW card,
         NEW n \in 1..MaxDepth, NEW c, Rank(b, at, card, c, n)
  PROVE  /\ c \in {card} \cup ToSet(b) /\ Valid(c, at)
         /\ n = 1 => c \in SelfIssued(b)
         /\ n > 1 => \E q : /\ q \in ToSet(b) /\ q.subject = c.issuer /\ SignedBy(c, q)
                            /\ Rank(b, at, card, q, n - 1)
<1> DEFINE R == InReach(b, at, card)
<1>0. MaxDepth \in Nat /\ n \in Nat
  BY DEF AccessAssumption
<1>1. /\ c \in {card} \cup ToSet(b) /\ Valid(c, at)
      /\ \/ c \in SelfIssued(b)
         \/ \E q \in Anchor(b, c.issuer) : SignedBy(c, q) /\ q \in R[n - 1]
      /\ R[0] = {}
  BY ClimbStep DEF Rank
<1>2. ASSUME n = 1
      PROVE  c \in SelfIssued(b)
  BY <1>1, <1>2
<1>3. ASSUME n > 1
      PROVE  \E q : /\ q \in ToSet(b) /\ q.subject = c.issuer /\ SignedBy(c, q)
                    /\ Rank(b, at, card, q, n - 1)
  <2>1. c \notin SelfIssued(b)
    <3>1. 1 \in 1..MaxDepth /\ 1 \in 0..(n - 1)
      BY <1>0, <1>3
    <3>2. c \notin R[1]
      BY <3>1 DEF Rank
    <3>3. QED
      BY <1>1, <3>1, <3>2, ClimbStep
  <2>2. PICK q \in Anchor(b, c.issuer) : SignedBy(c, q) /\ q \in R[n - 1]
    BY <1>1, <2>1
  <2>3. q \in ToSet(b) /\ q.subject = c.issuer
    BY AnchorIs
  <2>4. ASSUME NEW j \in 0..(n - 2), q \in R[j]
        PROVE  FALSE
    <3>1. j + 1 \in 1..MaxDepth /\ j + 1 \in 0..(n - 1) /\ (j + 1) - 1 = j
      BY <1>0, OneUp
    <3>2. c \in R[j + 1]
      BY <1>1, <2>2, <2>4, <3>1, ClimbStep
    <3>3. QED
      BY <3>1, <3>2 DEF Rank
  <2>5. Rank(b, at, card, q, n - 1)
    <3>1. (n - 1) - 1 = n - 2
      BY <1>0
    <3>2. QED
      BY <2>2, <2>4, <3>1 DEF Rank
  <2>6. QED
    BY <2>2, <2>3, <2>5
<1>4. QED
  BY <1>1, <1>2, <1>3

LEMMA RankDescends ==
  ASSUME AccessAssumption, NEW b, b \in Seq(ToSet(b)), NEW at, NEW card
  PROVE  \A n \in 1..MaxDepth : \A c :
           Rank(b, at, card, c, n) => \E p : Descends(b, at, card, c, n, p)
<1> DEFINE bad == {n \in 1..MaxDepth : \E c : /\ Rank(b, at, card, c, n)
                                              /\ ~ \E p : Descends(b, at, card, c, n, p)}
<1>0. MaxDepth \in Nat
  BY DEF AccessAssumption
<1> SUFFICES ASSUME bad # {}
             PROVE  FALSE
  OBVIOUS
<1>1. bad \subseteq Nat
  BY <1>0
<1>2. PICK n \in bad : \A j \in bad : n <= j
  BY <1>1, LeastOf
<1>3. PICK c : /\ Rank(b, at, card, c, n)
               /\ ~ \E p : Descends(b, at, card, c, n, p)
  OBVIOUS
<1>4. n \in 1..MaxDepth /\ n \in Nat
  BY <1>0
<1>5. /\ c \in {card} \cup ToSet(b) /\ Valid(c, at)
      /\ n = 1 => c \in SelfIssued(b)
      /\ n > 1 => \E q : /\ q \in ToSet(b) /\ q.subject = c.issuer /\ SignedBy(c, q)
                         /\ Rank(b, at, card, q, n - 1)
  BY <1>3, <1>4, RankStep
<1>6. CASE n = 1
  <2> DEFINE p == [i \in 1..1 |-> c]
  <2>1. /\ p \in [1..1 -> {card} \cup ToSet(b)] /\ p[1] = c /\ 1..0 = {}
        /\ \A i \in 1..1 : p[i] = c /\ 1 + 1 - i = 1
    BY <1>5
  <2> HIDE DEF p
  <2>2. Descends(b, at, card, c, 1, p)
    BY <1>3, <1>5, <1>6, <2>1 DEF Descends
  <2>3. QED
    BY <1>3, <1>6, <2>2
<1>7. CASE n > 1
  <2>1. PICK q : /\ q \in ToSet(b) /\ q.subject = c.issuer /\ SignedBy(c, q)
                 /\ Rank(b, at, card, q, n - 1)
    BY <1>5, <1>7
  <2>2. n - 1 \in 1..MaxDepth /\ n - 1 \notin bad
    BY <1>2, <1>4, <1>7
  <2>3. PICK s : Descends(b, at, card, q, n - 1, s)
    BY <2>1, <2>2
  <2> DEFINE p == [i \in 1..n |-> IF i = 1 THEN c ELSE s[i - 1]]
  <2>4. p[1] = c /\ \A i \in 2..n : i - 1 \in 1..(n - 1) /\ p[i] = s[i - 1]
    BY <1>4
  <2>5. /\ s \in [1..(n - 1) -> {card} \cup ToSet(b)]
        /\ s[1] = q
        /\ s[n - 1] \in SelfIssued(b)
        /\ \A i \in 1..(n - 1) : Valid(s[i], at) /\ Rank(b, at, card, s[i], (n - 1) + 1 - i)
        /\ \A i \in 1..((n - 1) - 1) :
             s[i + 1] \in ToSet(b) /\ s[i].issuer = s[i + 1].subject /\ SignedBy(s[i], s[i + 1])
    BY <2>3 DEF Descends
  <2>6. p \in [1..n -> {card} \cup ToSet(b)]
    <3>1. ASSUME NEW i \in 1..n, i # 1
          PROVE  s[i - 1] \in {card} \cup ToSet(b)
      BY <1>4, <2>5, <3>1, OneDown
    <3>2. QED
      BY <1>5, <3>1
  <2> HIDE DEF p
  <2>7. p[n] \in SelfIssued(b)
    <3>1. n \in 2..n
      BY <1>4, <1>7
    <3>2. QED
      BY <2>4, <2>5, <3>1
  <2>8. ASSUME NEW i \in 1..n
        PROVE  Valid(p[i], at) /\ Rank(b, at, card, p[i], n + 1 - i)
    <3>1. CASE i = 1
      <4>1. n + 1 - i = n
        BY <1>4, <3>1
      <4>2. QED
        BY <1>3, <1>5, <2>4, <3>1, <4>1
    <3>2. CASE i # 1
      <4>1. i \in 2..n /\ i - 1 \in 1..(n - 1) /\ (n - 1) + 1 - (i - 1) = n + 1 - i
        BY <1>4, <3>2, OneDown
      <4>2. QED
        BY <2>4, <2>5, <4>1
    <3>3. QED
      BY <3>1, <3>2
  <2>9. ASSUME NEW i \in 1..(n - 1)
        PROVE  /\ p[i + 1] \in ToSet(b) /\ p[i].issuer = p[i + 1].subject
               /\ SignedBy(p[i], p[i + 1])
    <3>0. i + 1 \in 2..n /\ (i + 1) - 1 = i
      BY <1>4
    <3>1. CASE i = 1
      BY <2>1, <2>4, <2>5, <3>0, <3>1
    <3>2. CASE i # 1
      <4>1. i \in 2..n /\ i - 1 \in 1..((n - 1) - 1) /\ (i - 1) + 1 = i
        BY <1>4, <3>2
      <4>2. p[i] = s[i - 1] /\ p[i + 1] = s[(i - 1) + 1]
        BY <2>4, <3>0, <4>1
      <4>3. QED
        BY <2>5, <4>1, <4>2
    <3>3. QED
      BY <3>1, <3>2
  <2>10. Descends(b, at, card, c, n, p)
    BY <2>4, <2>6, <2>7, <2>8, <2>9 DEF Descends
  <2>11. QED
    BY <1>3, <2>10
<1>8. QED
  BY <1>4, <1>6, <1>7

\* It passed no certificate twice, so there are no more than the card and the bundle.
LEMMA DescentFits ==
  ASSUME AccessAssumption, NEW b, b \in Seq(ToSet(b)), NEW at, NEW card,
         NEW n \in 1..MaxDepth, NEW c, NEW p, Descends(b, at, card, c, n, p)
  PROVE  n <= Len(b) + 1
<1> DEFINE f == [i \in 2..n |-> CHOOSE k \in 1..Len(b) : b[k] = p[i]]
<1>0. n \in Nat /\ Len(b) \in Nat /\ DOMAIN b = 1..Len(b)
  OBVIOUS
<1>1. ASSUME NEW i \in 2..n
      PROVE  f[i] \in 1..Len(b) /\ b[f[i]] = p[i]
  <2>1. i - 1 \in 1..(n - 1) /\ (i - 1) + 1 = i
    BY <1>0
  <2>2. p[i] \in ToSet(b)
    BY <2>1 DEF Descends
  <2>3. \E k \in 1..Len(b) : b[k] = p[i]
    BY <1>0, <2>2 DEF ToSet
  <2>4. QED
    BY <2>3
<1>2. ASSUME NEW i \in 1..n, NEW j \in 1..n, i < j, p[i] = p[j]
      PROVE  FALSE
  <2>1. n + 1 - j \in 0..((n + 1 - i) - 1)
    BY <1>0, <1>2, FartherUp
  <2>2. Rank(b, at, card, p[i], n + 1 - i) /\ Rank(b, at, card, p[j], n + 1 - j)
    BY DEF Descends
  <2>3. QED
    BY <1>2, <2>1, <2>2 DEF Rank
<1> HIDE DEF f
<1>3. f \in [2..n -> 1..Len(b)]
  <2>1. f = [i \in 2..n |-> f[i]]
    BY DEF f
  <2>2. QED
    BY <1>1, <2>1
<1>4. \A i, j \in 2..n : f[i] = f[j] => i = j
  <2> SUFFICES ASSUME NEW i \in 2..n, NEW j \in 2..n, f[i] = f[j], i # j
               PROVE  FALSE
    OBVIOUS
  <2>1. p[i] = p[j]
    BY <1>1
  <2>2. i \in 1..n /\ j \in 1..n /\ (i < j \/ j < i)
    BY <1>0
  <2>3. QED
    BY <1>2, <2>1, <2>2
<1>5. f \in Injection(2..n, 1..Len(b))
  BY <1>3, <1>4 DEF Injection, IsInjective
<1>6. /\ IsFiniteSet(1..Len(b)) /\ Cardinality(1..Len(b)) = Len(b)
      /\ n > 1 => Cardinality(2..n) = n - 1
  BY <1>0, Interval
<1>7. Cardinality(2..n) <= Cardinality(1..Len(b))
  BY <1>5, <1>6, FS_Injection
<1>8. QED
  BY <1>0, <1>6, <1>7

\* A climb that arrives has a chain to show.
LEMMA ClimbTrusted ==
  ASSUME AccessAssumption, NEW b, b \in Seq(ToSet(b)), NEW at, NEW card, Climbs(b, at, card)
  PROVE  Trusted(b, at, card)
<1> DEFINE R == InReach(b, at, card)
           T == {n \in 0..MaxDepth : card \in R[n]}
<1>0. MaxDepth \in Nat
  BY DEF AccessAssumption
<1>1. T \subseteq Nat /\ T # {}
  BY <1>0 DEF Climbs
<1>2. PICK n \in T : \A j \in T : n <= j
  BY <1>1, LeastOf
<1>3. n \in Nat /\ n <= MaxDepth /\ card \in R[n]
  BY <1>0
<1>4. n # 0
  <2>1. R[0] = Climbed(b, at, card, 0, R[0 - 1])
    BY <1>0, InReachIs
  <2>2. QED
    BY <1>3, <2>1 DEF Climbed
<1>5. n \in 1..MaxDepth /\ Rank(b, at, card, card, n)
  <2>1. ASSUME NEW j \in 0..(n - 1)
        PROVE  card \notin R[j]
    <3>1. j \in 0..MaxDepth /\ ~(n <= j)
      BY <1>0, <1>3
    <3>2. QED
      BY <1>2, <3>1
  <2>2. QED
    BY <1>0, <1>3, <1>4, <2>1 DEF Rank
<1>6. PICK p : Descends(b, at, card, card, n, p)
  BY <1>5, RankDescends
<1>7. n \in 1..Len(b) + 1
  <2>1. Len(b) \in Nat
    OBVIOUS
  <2>2. n <= Len(b) + 1
    BY <1>5, <1>6, DescentFits
  <2>3. QED
    BY <1>3, <1>4, <2>1, <2>2
<1>8. /\ p \in [1..n -> {card} \cup ToSet(b)] /\ p[1] = card
      /\ p[n] \in ToSet(b) /\ p[n].subject = p[n].issuer
      /\ \A i \in 1..n : p[i].from <= at /\ at <= p[i].until
      /\ \A i \in 1..(n - 1) : /\ p[i + 1] \in ToSet(b)
                               /\ p[i].issuer = p[i + 1].subject /\ p[i].by = p[i + 1].key
  BY <1>6 DEF Descends, SelfIssued, Valid, SignedBy
<1>9. \E s \in [1..n -> {card} \cup ToSet(b)] :
        /\ s[1] = card
        /\ s[n] \in ToSet(b) /\ s[n].subject = s[n].issuer
        /\ \A i \in 1..n : s[i].from <= at /\ at <= s[i].until
        /\ \A i \in 1..(n - 1) : /\ s[i + 1] \in ToSet(b)
                                 /\ s[i].issuer = s[i + 1].subject /\ s[i].by = s[i + 1].key
  BY <1>8
<1>10. QED
  BY <1>7, <1>9 DEF Trusted

(* ---- a chain there is: the climb finds it ---- *)

LEMMA TrustedClimb ==
  ASSUME AccessAssumption, NEW b, b \in Seq(ToSet(b)), NEW at, NEW card,
         Cardinality({c.subject : c \in ToSet(b)}) = Len(b), Len(b) < MaxDepth,
         Trusted(b, at, card)
  PROVE  Climbs(b, at, card)
<1> DEFINE R == InReach(b, at, card)
<1>0. MaxDepth \in Nat /\ Len(b) \in Nat
  BY DEF AccessAssumption
<1>1. PICK k \in 1..Len(b) + 1 : \E p \in [1..k -> {card} \cup ToSet(b)] :
        /\ p[1] = card
        /\ p[k] \in ToSet(b) /\ p[k].subject = p[k].issuer
        /\ \A i \in 1..k : p[i].from <= at /\ at <= p[i].until
        /\ \A i \in 1..(k - 1) :
             /\ p[i + 1] \in ToSet(b)
             /\ p[i].issuer = p[i + 1].subject /\ p[i].by = p[i + 1].key
  BY DEF Trusted
<1>2. PICK p \in [1..k -> {card} \cup ToSet(b)] :
        /\ p[1] = card
        /\ p[k] \in ToSet(b) /\ p[k].subject = p[k].issuer
        /\ \A i \in 1..k : p[i].from <= at /\ at <= p[i].until
        /\ \A i \in 1..(k - 1) :
             /\ p[i + 1] \in ToSet(b)
             /\ p[i].issuer = p[i + 1].subject /\ p[i].by = p[i + 1].key
  BY <1>1
<1>3. k \in Nat /\ 1 <= k /\ k <= MaxDepth
  BY <1>0
<1> DEFINE bad == {d \in 1..k : \E n \in d..MaxDepth : p[k + 1 - d] \notin R[n]}
<1>4. bad = {}
  <2> SUFFICES ASSUME bad # {}
               PROVE  FALSE
    OBVIOUS
  <2>1. bad \subseteq Nat
    OBVIOUS
  <2>2. PICK d \in bad : \A j \in bad : d <= j
    BY <2>1, LeastOf
  <2>3. PICK n \in d..MaxDepth : p[k + 1 - d] \notin R[n]
    OBVIOUS
  <2> DEFINE i == k + 1 - d
  <2>3a. d \in 1..k /\ n \in d..MaxDepth
    OBVIOUS
  <2>4. d \in 1..k /\ i \in 1..k /\ n \in 1..MaxDepth /\ n \in Nat /\ d \in Nat
        /\ d <= n /\ n <= MaxDepth
    BY <1>0, <1>3, <2>3a
  <2> HIDE DEF i
  <2>5. p[i] \in {card} \cup ToSet(b) /\ Valid(p[i], at)
    BY <1>2, <2>4 DEF Valid
  <2>6. CASE d = 1
    <3>1. i = k
      BY <1>3, <2>6 DEF i
    <3>2. p[i] \in SelfIssued(b)
      BY <1>2, <3>1 DEF SelfIssued
    <3>3. p[i] \in R[n]
      BY <2>4, <2>5, <3>2, ClimbStep
    <3>4. QED
      BY <2>3, <3>3 DEF i
  <2>7. CASE d # 1
    <3>1. i \in 1..(k - 1) /\ d - 1 \in 1..k /\ n - 1 \in (d - 1)..MaxDepth
          /\ k + 1 - (d - 1) = i + 1 /\ ~(d <= d - 1)
      <4> HIDE DEF bad
      <4>1. i = k + 1 - d /\ k \in Nat /\ MaxDepth \in Nat /\ d # 1 /\ 1 <= d /\ d <= k
            /\ d \in Nat /\ n \in Nat /\ d <= n /\ n <= MaxDepth
        BY <1>0, <1>3, <2>4, <2>7 DEF i
      <4> HIDE DEF i
      <4>2. d >= 2
        BY <4>1
      <4>3. i \in 1..(k - 1)
        BY <4>1, <4>2
      <4>4. d - 1 \in 1..k /\ n - 1 \in (d - 1)..MaxDepth
        BY <4>1, <4>2
      <4>5. k + 1 - (d - 1) = i + 1 /\ ~(d <= d - 1)
        BY <4>1
      <4>6. QED
        BY <4>3, <4>4, <4>5
    <3>2. d - 1 \notin bad
      BY <2>2, <3>1
    <3>3. p[i + 1] \in R[n - 1]
      BY <3>1, <3>2
    <3>4. p[i + 1] \in ToSet(b) /\ p[i].issuer = p[i + 1].subject /\ SignedBy(p[i], p[i + 1])
      BY <1>2, <3>1 DEF SignedBy
    <3>5. p[i + 1] \in Anchor(b, p[i].issuer)
      BY <3>4, AnchorOf
    <3>6. p[i] \in R[n]
      <4>1. \E q \in Anchor(b, p[i].issuer) : SignedBy(p[i], q) /\ q \in R[n - 1]
        BY <3>3, <3>4, <3>5
      <4> HIDE DEF bad
      <4>2. QED
        BY <2>4, <2>5, <4>1, ClimbStep
    <3>7. QED
      BY <2>3, <3>6 DEF i
  <2>8. QED
    BY <2>6, <2>7
<1>5. k \in 1..k /\ MaxDepth \in k..MaxDepth /\ k + 1 - k = 1
  BY <1>0, <1>3
<1>6. p[1] \in R[MaxDepth]
  BY <1>4, <1>5
<1>7. QED
  BY <1>2, <1>6 DEF Climbs

(* ---- what the last answer was told ---- *)

\* The verdict on the last answer went by the climb.
ByClimb(v) ==
  v.code \in Decided =>
    /\ v.on.bundle \in Bundles
    /\ v.code \in {"claims", "unlisted", "signed in"} => Climbs(v.on.bundle, v.on.at, v.on.card)
    /\ v.code = "chain" => ~Climbs(v.on.bundle, v.on.at, v.on.card)

LEMMA ExaminedIs ==
  ASSUME NEW c, NEW n, NEW m \in Answers(c, n), NEW t, NEW b
  PROVE  /\ Examined(m, t, b) \in Decided => b # Nil
         /\ Examined(m, t, b) \in {"claims", "unlisted", "signed in"} => Climbs(b, now, c)
         /\ Examined(m, t, b) = "chain" => ~Climbs(b, now, c)
<1>1. Signers(m) \subseteq {c}
  BY AnswerIs
<1>2. ASSUME Examined(m, t, b) \in Decided
      PROVE  b # Nil /\ \E d \in Signers(m) : Signed(m, d)
  BY <1>2 DEF Examined, Decided
<1>3. ASSUME Examined(m, t, b) \in {"claims", "unlisted", "signed in"}
      PROVE  \E d \in Signers(m) : Climbs(b, now, d)
  BY <1>3 DEF Examined
<1>4. ASSUME Examined(m, t, b) = "chain"
      PROVE  \A d \in Signers(m) : ~Climbs(b, now, d)
  BY <1>4 DEF Examined
<1>5. QED
  BY <1>1, <1>2, <1>3, <1>4 DEF Decided

LEMMA CardVerifyTells ==
  ASSUME AccessInv, NEW t \in Token, NEW c, NEW n, NEW m \in Answers(c, n), CardVerify(t, c, n, m)
  PROVE  ByClimb(verdict')
<1> DEFINE b == IF anchors # Nil THEN anchors ELSE IF Usable(file) THEN file ELSE Nil
           grounds == [token |-> t, card |-> c, nonce |-> n, at |-> now, bundle |-> b]
           code == Examined(m, t, b)
<1>1. \/ verdict' = [code |-> "refused"]
      \/ /\ code \in Decided
         /\ verdict' = [code |-> code, on |-> grounds]
  BY DEF CardVerify
<1>2. b \in Bundles \cup {Nil}
  BY DEF AccessInv, AccessTypeOK
<1>3. grounds.card = c /\ grounds.at = now /\ grounds.bundle = b
  OBVIOUS
<1> HIDE DEF b, grounds, code
<1>4. CASE verdict' = [code |-> "refused"]
  BY <1>4 DEF ByClimb, Decided
<1>5. CASE code \in Decided /\ verdict' = [code |-> code, on |-> grounds]
  <2>1. verdict'.code = code /\ verdict'.on = grounds
    BY <1>5
  <2>2. /\ b # Nil
        /\ code \in {"claims", "unlisted", "signed in"} => Climbs(b, now, c)
        /\ code = "chain" => ~Climbs(b, now, c)
    BY <1>5, ExaminedIs DEF code
  <2>3. QED
    BY <1>2, <1>3, <2>1, <2>2 DEF ByClimb
<1>6. QED
  BY <1>1, <1>4, <1>5

LEMMA ByClimbKept ==
  ASSUME AccessInv, ByClimb(verdict), [AccessNext]_accessVars
  PROVE  ByClimb(verdict')
<1>1. ASSUME UNCHANGED verdict
      PROVE  ByClimb(verdict')
  BY <1>1
<1>2. ASSUME NEW t \in Token, NEW c \in Cards, NEW n \in 1..tally.tokens,
             NEW m \in {CardAnswer(c, n)} \cup Damaged(CardAnswer(c, n)), CardVerify(t, c, n, m)
      PROVE  ByClimb(verdict')
  BY <1>2, CardVerifyTells DEF Answers
<1>3. CASE Challenge \/ Login \/ (\E n \in sessions : Logout(n)) \/ Tick \/ Replace \/ Reboot
  BY <1>1, <1>3 DEF Challenge, Login, Logout, Tick, Replace, Reboot
<1>4. CASE UNCHANGED accessVars
  BY <1>1, <1>4 DEF accessVars
<1>5. QED
  BY <1>2, <1>3, <1>4 DEF AccessNext

LEMMA ByClimbAlways == AccessSpec => [](AccessInv /\ ByClimb(verdict))
<1>1. AccessInit => ByClimb(verdict)
  BY DEF AccessInit, ByClimb, Decided
<1>2. AccessInv /\ ByClimb(verdict) /\ [AccessNext]_accessVars => ByClimb(verdict)'
  BY ByClimbKept
<1>3. QED
  BY <1>1, <1>2, AccessInvariant, PTL DEF AccessSpec

\* What an answer that got past its certificates rests on.
OnlyTrusted ==
  verdict.code \in {"claims", "unlisted", "signed in"} =>
    Trusted(verdict.on.bundle, verdict.on.at, verdict.on.card)

(* _verify_chain, for any bundle, certificates and limit of depth: whatever gets past it,  *)
(* every sign-in by card included, has a chain of certificates, each signed by the next    *)
(* and within its dates at that moment, from the card to a self-issued certificate of the  *)
(* bundle.                                                                                 *)
THEOREM AccessOnlyTrusted == AccessSpec => []OnlyTrusted
<1>1. ByClimb(verdict) => OnlyTrusted
  BY ClimbTrusted, AccessAssumption DEF ByClimb, OnlyTrusted, Decided
<1>2. QED
  BY <1>1, ByClimbAlways, PTL

(* _verify_chain in both directions, for bundles of fewer certificates than it follows: an *)
(* answer is refused for its chain only when there is none, unless two certificates of the *)
(* bundle share a subject.                                                                 *)
THEOREM AccessChainDecided ==
  ASSUME \A b \in Bundles : Len(b) < MaxDepth
  PROVE  AccessSpec => []ChainDecided
<1>1. ByClimb(verdict) => ChainDecided
  <2> SUFFICES ASSUME ByClimb(verdict), verdict.code \in Decided
               PROVE  LET g == verdict.on IN
                      /\ verdict.code \in {"claims", "unlisted", "signed in"}
                           => Trusted(g.bundle, g.at, g.card)
                      /\ /\ verdict.code = "chain"
                         /\ Cardinality({c.subject : c \in ToSet(g.bundle)}) = Len(g.bundle)
                         => ~Trusted(g.bundle, g.at, g.card)
    BY DEF ChainDecided
  <2>1. /\ verdict.on.bundle \in Bundles /\ Len(verdict.on.bundle) < MaxDepth
        /\ verdict.on.bundle \in Seq(ToSet(verdict.on.bundle))
    BY AccessAssumption DEF ByClimb
  <2>2. QED
    BY <2>1, ClimbTrusted, TrustedClimb, AccessAssumption DEF ByClimb
<1>2. QED
  BY <1>1, ByClimbAlways, PTL

=============================================================================
