---------------------------- MODULE AdminConsole ----------------------------
(***************************************************************************)
(* The operations console (src/admin_console): saving settings into .env,  *)
(* making rag-api load them, and running evaluation and indexing scripts   *)
(* in the other containers, one at a time.                                 *)
(*                                                                         *)
(* Its handlers never await once they have read their form, so one handler *)
(* runs at a time; beside it run the worker threads of jobs, the execs in  *)
(* the other containers and rag-api itself.  The console can die between   *)
(* any two steps, and a write or an API call can fail.                     *)
(***************************************************************************)
EXTENDS Naturals

CONSTANTS
  Key, Value,
  Parsed,         \* what load_dotenv makes of a value (quotes, comments, $)
  Deployed,       \* Config.Env of the container and .env when it was created
  Forms,          \* the settings forms that may be posted
  None,           \* a key that is not there, a field left empty
  Bad,            \* a field that validate refuses
  MaxOps,         \* bound: saves, jobs and starts of rag-api together
  MaxJobs,        \* bound: jobs
  MaxCrashes,     \* bound: deaths of the console
  MaxFaults       \* bound: failing writes and API calls

Form == [Key -> Value \cup {None, Bad}]
Vals == [Key -> Value \cup {None}]
Jobs == 1..MaxJobs

ASSUME ConsoleAssumption ==
  /\ None \notin Value /\ Bad \notin Value \cup {None}
  /\ Parsed \in [Value -> Value]
  /\ Deployed \in [Key -> Value]
  /\ Forms \subseteq Form
  /\ MaxOps \in Nat /\ MaxJobs \in Nat
  /\ MaxCrashes \in Nat /\ MaxFaults \in Nat

VARIABLES
  env,       \* .env: the managed keys, and whether the rest of the file is there
  backups,   \* the files of backup_dir
  runtime,   \* rag-runtime.env
  eff,       \* the settings the rag-api process runs on
  snap,      \* rag-effective.env, and the boot that wrote it
  handler,   \* the handler under way: where it is and what it works on
  banner,    \* how the last save was answered
  changes,   \* changes.jsonl
  job,       \* JobManager._job
  worker,    \* the thread of each job: where it is and the exit code it saw
  exec,      \* the processes in the other containers
  finished,  \* jobs.jsonl
  count,     \* saves, jobs, starts of rag-api, deaths and faults so far
  torn,      \* history: .env may be ahead of rag-runtime.env
  fresh,     \* history: rag-api was started after the last write of .env
  complete,  \* history: the last content of .env that was written to the end
  unlogged,  \* history: keys whose value a save that was cut off left without a line
  lost       \* history: execs whose thread no longer follows them

settings == <<env, backups, runtime, torn, complete, unlogged>>
rag == <<eff, snap>>
jobs == <<job, worker, exec, finished, lost>>
vars == <<env, backups, runtime, eff, snap, handler, banner, changes, job, worker, exec,
          finished, count, torn, fresh, complete, unlogged, lost>>

Whole(v) == [vals |-> v, whole |-> TRUE]
Empty == [vals |-> [k \in Key |-> None], whole |-> FALSE]
Idle == [at |-> "idle", original |-> Empty, new |-> Empty, left |-> {}]
NoJob == [n |-> 0, state |-> "none"]
NoWorker == [at |-> "none", code |-> "none"]
NoExec == [in |-> "monitoring", state |-> "none"]

\* load_dotenv(rag-runtime.env, override=True) over the container's own environment
Loaded(file) == [k \in Key |-> IF file[k] = None THEN Deployed[k] ELSE Parsed[file[k]]]

Init ==
  /\ env = Whole(Deployed)
  /\ backups = {}
  /\ runtime = Deployed
  /\ eff = Loaded(Deployed)
  /\ snap = [boot |-> 0, vals |-> Loaded(Deployed)]
  /\ handler = Idle
  /\ banner = "none"
  /\ changes = {}
  /\ job = NoJob
  /\ worker = [n \in Jobs |-> NoWorker]
  /\ exec = [n \in Jobs |-> NoExec]
  /\ finished = {}
  /\ count = [saves |-> 0, jobs |-> 0, boots |-> 0, crashes |-> 0, faults |-> 0]
  /\ torn = FALSE
  /\ fresh = TRUE
  /\ complete = Whole(Deployed)
  /\ unlogged = {}
  /\ lost = {}

Bump(f) == count' = [count EXCEPT ![f] = @ + 1]
MoreOps == count.saves + count.jobs + count.boots < MaxOps
Fault == count.faults < MaxFaults /\ Bump("faults")
Goto(l) == handler' = [handler EXCEPT !.at = l]
Answer(b) == handler' = Idle /\ banner' = b

(* ------------------------------- settings -------------------------------- *)

Todo(form) == {k \in Key : form[k] # None /\ env.vals[k] # form[k]}

\* POST /api/settings: everything is validated before anything is written, and a form
\* that changes nothing writes nothing.
Save(form) ==
  /\ handler.at = "idle" /\ MoreOps
  /\ Bump("saves")
  /\ IF \E k \in Key : form[k] = Bad THEN Answer("error")
     ELSE IF Todo(form) = {} THEN Answer("saved")
     ELSE /\ handler' = [at |-> "backup", original |-> env, left |-> Todo(form),
                         new |-> [env EXCEPT !.vals = [k \in Key |-> IF k \in Todo(form)
                                                         THEN form[k] ELSE env.vals[k]]]]
          /\ banner' = "none"
  /\ UNCHANGED <<settings, rag, changes, jobs, fresh>>

\* mutant: a backup that cannot be written does not stop the save
BackupOptional ==
  /\ handler.at = "backup"
  /\ \/ backups' = backups \cup {env} /\ UNCHANGED count
     \/ Fault /\ UNCHANGED backups
  /\ Goto("truncate")
  /\ UNCHANGED <<env, runtime, torn, complete, unlogged, rag, banner, changes, jobs, fresh>>

\* _write_private_atomic: the backup is there whole or not at all.
Backup ==
  /\ handler.at = "backup"
  /\ \/ backups' = backups \cup {env} /\ Goto("truncate") /\ UNCHANGED <<count, banner>>
     \/ Fault /\ Answer("500") /\ UNCHANGED backups
  /\ UNCHANGED <<env, runtime, torn, complete, unlogged, rag, changes, jobs, fresh>>

\* write_text opens the file, which empties it: .env is a bind mount and keeps its inode.
Truncate ==
  /\ handler.at = "truncate"
  /\ env' = Empty
  /\ torn' = TRUE /\ fresh' = FALSE
  /\ Goto("write")
  /\ UNCHANGED <<backups, runtime, complete, unlogged, rag, banner, changes, jobs, count>>

\* What a write that stopped in the middle leaves behind.
Part == {[vals |-> [k \in Key |-> IF k \in K THEN handler.new.vals[k] ELSE None],
          whole |-> FALSE] : K \in SUBSET Key}

\* The lines of the original with the changed keys replaced; a file cut short before
\* stays without its other lines.
Write ==
  /\ handler.at = "write"
  /\ \/ /\ env' = handler.new
        /\ complete' = IF env'.whole THEN env' ELSE complete
        /\ Goto("sync")
        /\ UNCHANGED <<count, banner, unlogged>>
     \/ /\ Fault /\ env' \in Part /\ unlogged' = Key
        /\ Answer("500") /\ UNCHANGED complete
  /\ UNCHANGED <<backups, runtime, torn, rag, changes, jobs, fresh>>

\* mutant: only the changed keys reach the runtime file
SyncTodo ==
  /\ handler.at = "sync"
  /\ \/ /\ runtime' = [k \in Key |-> IF k \in handler.left THEN env.vals[k] ELSE None]
        /\ torn' = FALSE /\ fresh' = FALSE
        /\ Goto("log") /\ UNCHANGED <<count, banner, unlogged>>
     \/ /\ Fault /\ unlogged' = unlogged \cup handler.left
        /\ Answer("500") /\ UNCHANGED <<runtime, torn, fresh>>
  /\ UNCHANGED <<env, backups, complete, rag, changes, jobs>>

\* _sync_runtime_env replaces the file in one step with what .env now says.
Sync ==
  /\ handler.at = "sync"
  /\ \/ /\ runtime' = env.vals
        /\ torn' = FALSE /\ fresh' = FALSE
        /\ Goto("log") /\ UNCHANGED <<count, banner, unlogged>>
     \/ /\ Fault /\ unlogged' = unlogged \cup handler.left
        /\ Answer("500") /\ UNCHANGED <<runtime, torn, fresh>>
  /\ UNCHANGED <<env, backups, complete, rag, changes, jobs>>

SettingChange(k) == [kind |-> "setting", n |-> count.saves, key |-> k,
                     old |-> handler.original.vals[k], new |-> handler.new.vals[k]]

\* mutant: the first changed key is logged and the others are not
LogFirst ==
  /\ handler.at = "log"
  /\ \/ \E k \in handler.left :
          /\ changes' = changes \cup {SettingChange(k)}
          /\ unlogged' = unlogged \ {k}
          /\ Answer("saved") /\ UNCHANGED count
     \/ Fault /\ Answer("500") /\ unlogged' = unlogged \cup handler.left /\ UNCHANGED changes
  /\ UNCHANGED <<env, backups, runtime, torn, complete, rag, jobs, fresh>>

\* One line of changes.jsonl per changed key, then the redirect.
LogChange ==
  /\ handler.at = "log"
  /\ \/ \E k \in handler.left :
          /\ changes' = changes \cup {SettingChange(k)}
          /\ unlogged' = unlogged \ {k}
          /\ IF handler.left = {k} THEN Answer("saved")
             ELSE handler' = [handler EXCEPT !.left = @ \ {k}] /\ UNCHANGED banner
          /\ UNCHANGED count
     \/ Fault /\ Answer("500") /\ unlogged' = unlogged \cup handler.left /\ UNCHANGED changes
  /\ UNCHANGED <<env, backups, runtime, torn, complete, rag, jobs, fresh>>

(* ------------------------------- restarts -------------------------------- *)

\* rag-api starts: it loads the runtime file and writes the snapshot of what it runs on,
\* or fails to and only warns; the execs inside the container are gone.
Boot ==
  /\ MoreOps
  /\ eff' = Loaded(runtime)
  /\ \/ snap' = [boot |-> count.boots + 1, vals |-> eff'] /\ Bump("boots")
     \/ /\ count.faults < MaxFaults /\ UNCHANGED snap
        /\ count' = [count EXCEPT !.boots = @ + 1, !.faults = @ + 1]
  /\ fresh' = TRUE
  /\ exec' = [n \in Jobs |-> IF exec[n].in = "rag" /\ exec[n].state = "running"
                             THEN [exec[n] EXCEPT !.state = "failed"] ELSE exec[n]]

\* POST /api/restart
Restart ==
  /\ handler.at = "idle"
  /\ Boot
  /\ Goto("restarted")
  /\ UNCHANGED <<settings, banner, changes, job, worker, finished, lost>>

LogRestart ==
  /\ handler.at = "restarted"
  /\ \/ /\ changes' = changes \cup {[kind |-> "restart", n |-> count.boots]}
        /\ UNCHANGED count
     \/ Fault /\ UNCHANGED changes
  /\ handler' = Idle
  /\ UNCHANGED <<settings, rag, banner, jobs, fresh>>

\* restart: unless-stopped
RagDies ==
  /\ Boot
  /\ UNCHANGED <<settings, handler, banner, changes, job, worker, finished, lost>>

\* The console dies and is started again: it knows of no job, and nobody follows the
\* execs that are running.
Crash ==
  /\ count.crashes < MaxCrashes /\ Bump("crashes")
  /\ IF handler.at = "write" THEN env' \in Part /\ unlogged' = Key
     ELSE /\ UNCHANGED env
          /\ unlogged' = unlogged \cup (IF handler.at \in {"sync", "log"} THEN handler.left ELSE {})
  /\ handler' = Idle /\ banner' = "none"
  /\ job' = NoJob
  /\ worker' = [n \in Jobs |-> [worker[n] EXCEPT !.at = "none"]]
  /\ lost' = lost \cup {n \in Jobs : worker[n].at \in {"watch", "inspect"}}
  /\ UNCHANGED <<backups, runtime, torn, complete, rag, changes, exec, finished, fresh>>

(* --------------------------------- jobs ---------------------------------- *)

\* mutant: a job whose output is already streaming does not count
BusyWatching == job.state = "running" /\ worker[job.n].at # "watch"

Busy == job.state = "running"

Started(n) == [kind |-> "job", n |-> n]

\* POST /api/jobs/{name}: under the lock, the busy check and the new job; then the line of
\* changes.jsonl, and the thread only after it.  When that line cannot be written the job
\* stays "running" without a thread.
Start(c) ==
  /\ handler.at = "idle" /\ ~Busy
  /\ MoreOps /\ count.jobs < MaxJobs /\ Bump("jobs")
  /\ job' = [n |-> count.jobs + 1, state |-> "running"]
  /\ exec' = [exec EXCEPT ![count.jobs + 1] = [in |-> c, state |-> "asked"]]
  /\ Goto("job")
  /\ UNCHANGED <<settings, rag, banner, changes, worker, finished, fresh, lost>>

Launch ==
  /\ handler.at = "job"
  /\ \/ /\ changes' = changes \cup {Started(job.n)}
        /\ worker' = [worker EXCEPT ![job.n].at = "create"]
        /\ UNCHANGED count
     \/ Fault /\ UNCHANGED <<changes, worker>>
  /\ handler' = Idle
  /\ UNCHANGED <<settings, rag, banner, job, exec, finished, fresh, lost>>

Move(n, l, code) == worker' = [worker EXCEPT ![n] = [at |-> l, code |-> code]]

\* exec_create and exec_start.  Either may raise, exec_start also once the process runs,
\* and then nobody follows it.
Create(n) ==
  /\ worker[n].at = "create"
  /\ \/ /\ exec' = [exec EXCEPT ![n].state = "running"]
        /\ Move(n, "watch", "none") /\ UNCHANGED <<count, lost>>
     \/ /\ Fault /\ Move(n, "settle", "bad")
        /\ \/ UNCHANGED <<exec, lost>>
           \/ exec' = [exec EXCEPT ![n].state = "running"] /\ lost' = lost \cup {n}
  /\ UNCHANGED <<settings, rag, handler, banner, changes, job, finished, fresh>>

\* The output ends when the process does, or with the connection.
StreamEnds(n) ==
  /\ worker[n].at = "watch"
  /\ \/ exec[n].state # "running" /\ Move(n, "inspect", "none") /\ UNCHANGED <<count, lost>>
     \/ /\ Fault /\ lost' = lost \cup {n}
        /\ Move(n, "inspect", "none") \/ Move(n, "settle", "bad")
  /\ UNCHANGED <<settings, rag, handler, banner, changes, job, exec, finished, fresh>>

\* exec_inspect: None, which is a process that still runs, counts as -1.
ExitCode(n) == IF exec[n].state = "ok" THEN "good" ELSE "bad"

\* mutant: an exception of the API ends the thread without a result
InspectRaises(n) ==
  /\ worker[n].at = "inspect"
  /\ \/ Move(n, "settle", ExitCode(n)) /\ UNCHANGED count
     \/ Fault /\ Move(n, "none", "bad")
  /\ UNCHANGED <<settings, rag, handler, banner, changes, job, exec, finished, fresh, lost>>

Inspect(n) ==
  /\ worker[n].at = "inspect"
  /\ \/ Move(n, "settle", ExitCode(n)) /\ UNCHANGED count
     \/ Fault /\ Move(n, "settle", "bad")
  /\ UNCHANGED <<settings, rag, handler, banner, changes, job, exec, finished, fresh, lost>>

\* Under the lock: the outcome, whatever the runner raised.
Settle(n) ==
  /\ worker[n].at = "settle"
  /\ job' = [job EXCEPT !.state = IF worker[n].code = "good" THEN "done" ELSE "failed"]
  /\ Move(n, "append", worker[n].code)
  /\ UNCHANGED <<settings, rag, handler, banner, changes, exec, finished, count, fresh, lost>>

\* The line of jobs.jsonl is written after the lock is given back, or not at all.
RecordFinish(n) ==
  /\ worker[n].at = "append"
  /\ \/ finished' = finished \cup {[n |-> n, code |-> worker[n].code]} /\ UNCHANGED count
     \/ Fault /\ UNCHANGED finished
  /\ Move(n, "none", worker[n].code)
  /\ UNCHANGED <<settings, rag, handler, banner, changes, job, exec, fresh, lost>>

\* The script ends by itself.
ExecEnds(n) ==
  /\ exec[n].state = "running"
  /\ \E s \in {"ok", "failed"} : exec' = [exec EXCEPT ![n].state = s]
  /\ UNCHANGED <<settings, rag, handler, banner, changes, job, worker, finished, count, fresh, lost>>

(* ------------------------------------------------------------------------- *)

Handler == Backup \/ Truncate \/ Write \/ Sync \/ LogChange \/ LogRestart \/ Launch
Worker(n) == Create(n) \/ StreamEnds(n) \/ Inspect(n) \/ Settle(n) \/ RecordFinish(n)

Next == \/ \E form \in Forms : Save(form)
        \/ \E c \in {"rag", "monitoring"} : Start(c)
        \/ Restart \/ Handler
        \/ \E n \in Jobs : Worker(n) \/ ExecEnds(n)
        \/ RagDies \/ Crash

Spec == Init /\ [][Next]_vars

\* A handler and a thread that can go on do; nothing says that a script ever ends.
FairSpec == /\ Spec /\ WF_vars(Handler)
            /\ \A n \in Jobs : WF_vars(Worker(n))

(* ------------------------------ properties ------------------------------- *)

HandlerAt == {"idle", "backup", "truncate", "write", "sync", "log", "restarted", "job"}
WorkerAt == {"none", "create", "watch", "inspect", "settle", "append"}
File == [vals : Vals, whole : BOOLEAN]
Change == [kind : {"setting"}, n : 1..MaxOps, key : Key, old : Value \cup {None},
           new : Value \cup {None}]
          \cup [kind : {"restart"}, n : 1..MaxOps] \cup [kind : {"job"}, n : Jobs]

\* Every variable has its type; in particular what rag-api runs on is a value for every
\* key, whatever was cut off the files it is loaded from.
TypeOK ==
  /\ env \in File /\ complete \in File /\ backups \subseteq File
  /\ runtime \in Vals /\ eff \in [Key -> Value]
  /\ snap \in [boot : 0..MaxOps, vals : [Key -> Value]]
  /\ handler \in [at : HandlerAt, original : File, new : File, left : SUBSET Key]
  /\ banner \in {"none", "saved", "error", "500"}
  /\ changes \subseteq Change
  /\ job \in [n : 0..MaxJobs, state : {"none", "running", "done", "failed"}]
  /\ worker \in [Jobs -> [at : WorkerAt, code : {"none", "good", "bad"}]]
  /\ exec \in [Jobs -> [in : {"rag", "monitoring"},
                        state : {"none", "asked", "running", "ok", "failed"}]]
  /\ finished \subseteq [n : Jobs, code : {"good", "bad"}]
  /\ count \in [saves : 0..MaxOps, jobs : 0..MaxJobs, boots : 0..MaxOps,
                crashes : 0..MaxCrashes, faults : 0..MaxFaults]
  /\ torn \in BOOLEAN /\ fresh \in BOOLEAN /\ lost \subseteq Jobs

\* .env is overwritten in place, so it can be cut short by a crash or a full disk: the
\* last complete configuration is then still in a backup, also after later saves have
\* gone on from the damaged file.
EnvRecoverable == complete = env \/ complete \in backups

\* What the panel shows as in force, and whether it marks a key as not yet so.
Shown == snap.vals
Dirty(k) == env.vals[k] # None /\ env.vals[k] # Shown[k]

\* Unless a save was cut off between the two files, what rag-api will load next is what
\* .env says; once it has restarted it runs on those values, and the panel marks exactly
\* the keys that load_dotenv reads differently.
SettingsInStep ==
  ~torn => /\ runtime = env.vals
           /\ fresh => /\ eff = Loaded(env.vals)
                       /\ snap.boot = count.boots =>
                            \A k \in Key : env.vals[k] # None =>
                              (Dirty(k) <=> Parsed[env.vals[k]] # env.vals[k])

Lines(k) == {c \in changes : c.kind = "setting" /\ c.key = k}
Accounted(k) == \/ Lines(k) = {} /\ env.vals[k] = Deployed[k]
                \/ \E c \in Lines(k) : c.new = env.vals[k] /\ \A d \in Lines(k) : d.n <= c.n

\* changes.jsonl accounts for .env: every value in it is the one deployed or the one of the
\* key's last line, except where a save was cut off before its lines were written; and no
\* process was ever started in another container without a line.
LogAccounts ==
  /\ handler.at \notin {"write", "sync", "log"} => \A k \in Key \ unlogged : Accounted(k)
  /\ \A n \in Jobs : exec[n].state \notin {"none", "asked"} => Started(n) \in changes

\* Two scripts never run at once as long as the console follows what it has started: of
\* two that do, one was orphaned by a death of the console, a broken stream or a start
\* whose answer was lost.
JobsExclude == \A m, n \in Jobs : /\ m # n
                                  /\ exec[m].state = "running" /\ exec[n].state = "running"
                                  => m \in lost \/ n \in lost

\* What the console and jobs.jsonl say of a job is true: a job is only called done when
\* its script ended with exit code 0, even if the container was restarted under it.
DoneIsDone == /\ job.state = "done" => exec[job.n].state = "ok"
              /\ \A r \in finished : r.code = "good" => exec[r.n].state = "ok"

\* Once a job was recorded as started, the console becomes free for the next one as soon
\* as its script has ended, whatever fails meanwhile.
JobSettles == \A n \in Jobs : Started(n) \in changes ~>
                \/ exec[n].state = "running"
                \/ ~(job.n = n /\ Busy)

(* The inductive invariant: what a save has done to the two files and to the lines where   *)
(* it is, and how the manager's job, the threads and the processes belong together.        *)

Saving == {"backup", "truncate", "write", "sync", "log"}

Counting == /\ handler.at \in Saving => count.saves > 0
            /\ handler.at = "restarted" => count.boots > 0
            /\ snap.boot <= count.boots
            /\ \A c \in changes : c.kind = "setting" => c.n <= count.saves

SavePath == /\ handler.at \in {"truncate", "write"} => complete \in backups
            /\ handler.at \in {"write", "sync"} => torn
            /\ handler.at \in {"backup", "truncate"} => env = handler.original
            /\ handler.at \in {"sync", "log"} => env = handler.new
            /\ handler.at \in Saving \ {"log"} =>
                 \A k \in Key \ handler.left : handler.new.vals[k] = handler.original.vals[k]

Running == /\ ~torn => runtime = env.vals
           /\ ~torn /\ fresh => eff = Loaded(env.vals)
           /\ snap.boot = count.boots => snap.vals = eff

LineFor(k, v) == \/ Lines(k) = {} /\ v = Deployed[k]
                 \/ \E c \in Lines(k) : c.new = v /\ \A d \in Lines(k) : d.n <= c.n

Logging ==
  /\ handler.at \notin {"write", "sync", "log"} => \A k \in Key \ unlogged : LineFor(k, env.vals[k])
  /\ handler.at = "write" => \A k \in Key \ unlogged : LineFor(k, handler.original.vals[k])
  /\ handler.at \in {"sync", "log"} =>
       \A k \in Key \ (unlogged \cup handler.left) : LineFor(k, env.vals[k])

Active == {"create", "watch", "inspect", "settle"}

\* The thread that has work to do is the one of the manager's job.
OneJob == /\ \A n \in Jobs : worker[n].at \in Active => job.n = n /\ Busy
          /\ handler.at = "job" => Busy /\ job.n \in Jobs /\ \A n \in Jobs : worker[n].at \notin Active
          /\ job.n <= count.jobs
          /\ \A n \in Jobs : exec[n].state # "none" => n <= count.jobs

\* A script is not started before its thread does.
Asked == /\ \A n \in Jobs : worker[n].at = "create" => exec[n].state = "asked"
         /\ handler.at = "job" => exec[job.n].state = "asked"

Followed == \A n \in Jobs : exec[n].state = "running" /\ n \notin lost => worker[n].at = "watch"

Outcomes == /\ \A n \in Jobs : worker[n].at \in {"settle", "append"} =>
                 /\ worker[n].code # "none"
                 /\ worker[n].code = "good" => exec[n].state = "ok"
            /\ job.state = "done" => job.n \in Jobs
            /\ DoneIsDone

JobLines == \A n \in Jobs : worker[n].at = "create" \/ exec[n].state \notin {"none", "asked"}
                           => Started(n) \in changes

SaveInv == SavePath /\ EnvRecoverable /\ Running /\ Logging
JobInv == OneJob /\ Asked /\ Followed /\ Outcomes /\ JobLines
ConsoleInv == TypeOK /\ Counting /\ SaveInv /\ JobInv
=============================================================================
