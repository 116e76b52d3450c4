--------------------------- MODULE RegressionGate ---------------------------
(***************************************************************************)
(* The gate a change of prompts or retrieval has to pass                   *)
(* (monitoring/regression_gate.py, scripts/run_regression_gate.py): two    *)
(* evaluation reports are compared question by question, what newly fails  *)
(* is asked again, and every flip is entered in a ledger that lives on     *)
(* from gate to gate.                                                      *)
(*                                                                         *)
(* The console starts one gate at a time, a shell starts any number, and   *)
(* the ledger is read, changed and rewritten without a lock: gates         *)
(* interleave, and each can be killed at any step.                         *)
(***************************************************************************)
EXTENDS Naturals, Sequences, FiniteSets, Functions

CONSTANTS
  Gate,      \* the invocations of the script
  Query,     \* ids of the questions
  Calls,     \* the arguments a gate may be given
  Torn       \* a ledger that is not JSON

\* evaluate_one: a question out of scope is right when it was rejected, one with golden
\* articles when a citation hit, and one without is not comparable.
Record == [out : BOOLEAN, rejected : BOOLEAN, hits : {"none", "zero", "some"}]
Report == UNION {[Q -> Record] : Q \in SUBSET Query}

Call == [baseline : Report, current : Report, rerun : BOOLEAN, runs : Nat,
         override : {"none", "half", "full"}]    \* reason and operator: neither, one, both

ASSUME GateAssumption == Calls \subseteq Call /\ IsFiniteSet(Gate)

VARIABLES
  ledger,      \* stability_records.json
  gate,        \* each invocation: where it is and what it holds
  overlapped   \* history: a ledger was read while a gate was about to rewrite it

gateVars == <<ledger, gate, overlapped>>

NoEntry == [observations |-> {}, unstable |-> FALSE]
Fresh == [at |-> "new", call |-> CHOOSE c \in Calls : TRUE, reruns |-> <<>>,
          copy |-> Torn, verdict |-> "none", exit |-> 0]

GateInit ==
  /\ ledger = [q \in Query |-> NoEntry]
  /\ gate = [g \in Gate |-> Fresh]
  /\ overlapped = FALSE

(* ------------------------------ comparison ------------------------------- *)

Passed(r) == IF r.out THEN r.rejected ELSE r.hits = "some"
Skipped(r) == ~r.out /\ r.hits = "none"

\* query_status
Status(r) == IF Skipped(r) THEN "skipped" ELSE IF Passed(r) THEN "pass" ELSE "fail"

Common(c) == DOMAIN c.baseline \cap DOMAIN c.current

\* compare_reports: the bucket of the questions that went from one status to the other
Flipped(c, from, to) ==
  {q \in Common(c) : Status(c.baseline[q]) = from /\ Status(c.current[q]) = to}
NewlyFailed(c) == Flipped(c, "pass", "fail")
NewlyPassed(c) == Flipped(c, "fail", "pass")

\* mutant: the majority of the reruns clears a question
ClearedByMost(s) == 2 * Cardinality({i \in DOMAIN s : s[i] = "pass"}) > Len(s)

\* rerun_verdict: only reruns that all pass clear a question, and no rerun at all does not
Cleared(s) == Len(s) > 0 /\ Range(s) = {"pass"}
Unanimous(s) == Cardinality(Range(s)) <= 1

\* gate_verdict
Verdict(c, reruns) ==
  IF \A q \in NewlyFailed(c) : c.rerun /\ Cleared(reruns[q]) THEN "PASS" ELSE "FAIL"

(* -------------------------------- ledger --------------------------------- *)

\* record_flip_observation: the direction, and the reruns if there were any
Observation(g, q) ==
  [gate |-> g,
   direction |-> IF q \in NewlyFailed(gate[g].call) THEN "newly_failed" ELSE "newly_passed",
   reruns |-> IF q \in DOMAIN gate[g].reruns THEN {gate[g].reruns[q]} ELSE {}]

Flips(c) == NewlyFailed(c) \cup NewlyPassed(c)

\* Split reruns, or a second flip, mark a question as unstable for good.
Entered(g, records) ==
  [q \in Query |->
     IF q \notin Flips(gate[g].call) THEN records[q]
     ELSE LET o == Observation(g, q)
              all == records[q].observations \cup {o} IN
          [observations |-> all,
           unstable |-> \/ records[q].unstable
                        \/ \E s \in o.reruns : ~Unanimous(s)
                        \/ Cardinality(all) >= 2]]

(* --------------------------------- gate ---------------------------------- *)

Put(g, l) == gate' = [gate EXCEPT ![g].at = l]
\* A process that is gone: its memory went with it.
Gone(g, how, code) == gate' = [gate EXCEPT ![g] = [Fresh EXCEPT !.at = how, !.exit = code]]

\* main: half an override, an empty report and reports without a common question end it.
Begin(g) ==
  /\ gate[g].at = "new"
  /\ \E c \in Calls :
       IF \/ c.override = "half"
          \/ DOMAIN c.baseline = {} \/ DOMAIN c.current = {} \/ Common(c) = {}
       THEN Gone(g, "refused", 2)
       ELSE gate' = [gate EXCEPT ![g].call = c,
                       ![g].at = IF c.rerun /\ NewlyFailed(c) # {} THEN "rerun" ELSE "load"]
  /\ UNCHANGED <<ledger, overlapped>>

\* _rerun_flips: one question is asked again; no answer is a failure.
Rerun(g, q) ==
  /\ gate[g].at = "rerun"
  /\ q \in NewlyFailed(gate[g].call) \ DOMAIN gate[g].reruns
  /\ \E s \in [1..gate[g].call.runs -> {"pass", "fail"}] :
       LET asked == DOMAIN gate[g].reruns \cup {q} IN
       gate' = [gate EXCEPT
         ![g].reruns = [p \in asked |-> IF p = q THEN s ELSE gate[g].reruns[p]],
         ![g].at = IF asked = NewlyFailed(gate[g].call) THEN "load" ELSE "rerun"]
  /\ UNCHANGED <<ledger, overlapped>>

\* mutant: a ledger that cannot be read counts as none
LedgerReadOrNone(g) ==
  gate' = [gate EXCEPT ![g].at = "truncate",
             ![g].copy = Entered(g, IF ledger = Torn THEN [q \in Query |-> NoEntry] ELSE ledger)]

\* load_stability_records: a ledger that is not JSON ends the gate, without a verdict.
LedgerRead(g) ==
  IF ledger = Torn THEN Gone(g, "refused", 1)
  ELSE gate' = [gate EXCEPT ![g].at = "truncate", ![g].copy = Entered(g, ledger)]

Load(g) == /\ gate[g].at = "load"
           /\ LedgerRead(g)
           /\ overlapped' = (overlapped \/ \E h \in Gate : gate[h].at = "truncate")
           /\ UNCHANGED ledger

\* save_stability_records: open(path, "w") empties the file, json.dump fills it.
TruncateLedger(g) ==
  /\ gate[g].at = "truncate"
  /\ ledger' = Torn
  /\ Put(g, "dump")
  /\ UNCHANGED overlapped

DumpLedger(g) ==
  /\ gate[g].at = "dump"
  /\ ledger' = gate[g].copy
  /\ gate' = [gate EXCEPT ![g].at = "report", ![g].copy = Torn]
  /\ UNCHANGED overlapped

\* The report and the exit code; an override turns the code of a FAIL into 0.
Publish(g) ==
  /\ gate[g].at = "report"
  /\ LET v == Verdict(gate[g].call, gate[g].reruns) IN
     gate' = [gate EXCEPT ![g].at = "done", ![g].verdict = v,
                ![g].exit = IF v = "PASS" \/ gate[g].call.override = "full" THEN 0 ELSE 1]
  /\ UNCHANGED <<ledger, overlapped>>

\* The process is killed; what it had written stays.
Killed(g) == /\ gate[g].at \notin {"new", "refused", "done", "killed"}
             /\ Gone(g, "killed", 1)
             /\ UNCHANGED <<ledger, overlapped>>

GateNext ==
  \E g \in Gate :
    \/ Begin(g) \/ Load(g) \/ TruncateLedger(g) \/ DumpLedger(g) \/ Publish(g) \/ Killed(g)
    \/ \E q \in Query : Rerun(g, q)

GateSpec == GateInit /\ [][GateNext]_gateVars

(* ------------------------------ properties ------------------------------- *)

Done == {g \in Gate : gate[g].at = "done"}

\* A PASS hides no regression: whatever both reports can be compared on, passed before
\* and fails now was asked again at least once, and passed every time; a gate that had
\* nothing to compare gives no verdict.
PassIsConfirmed ==
  \A g \in Done : LET c == gate[g].call IN gate[g].verdict = "PASS" =>
    /\ DOMAIN c.baseline \cap DOMAIN c.current # {}
    /\ \A q \in DOMAIN c.baseline \cap DOMAIN c.current :
         /\ Passed(c.baseline[q]) /\ ~Skipped(c.current[q]) /\ ~Passed(c.current[q])
         => /\ c.rerun /\ c.runs > 0
            /\ \A i \in 1..c.runs : gate[g].reruns[q][i] = "pass"

FlippedIn(q) == {g \in Done : q \in Flips(gate[g].call)}
SplitIn(q) == {g \in FlippedIn(q) : q \in DOMAIN gate[g].reruns /\ ~Unanimous(gate[g].reruns[q])}

\* As long as no two gates overlapped, a ledger that can be read remembers every flip that
\* a gate with a verdict has seen, and marks what flipped twice or was split as unstable,
\* whatever was killed in between.
LedgerRemembers ==
  ~overlapped /\ ledger # Torn =>
    \A q \in Query :
      /\ \A g \in FlippedIn(q) : Observation(g, q) \in ledger[q].observations
      /\ Cardinality(FlippedIn(q)) >= 2 \/ SplitIn(q) # {} => ledger[q].unstable

(* The inductive invariant: what a gate holds where it is, and what the ledger and the     *)
(* copies of it must tell of.                                                              *)

Reruns == Seq({"pass", "fail"})
Observed == [gate : Gate, direction : {"newly_failed", "newly_passed"}, reruns : SUBSET Reruns]
Entry == [observations : SUBSET Observed, unstable : BOOLEAN]
Ledger == [Query -> Entry] \cup {Torn}

Place == {"new", "rerun", "load", "truncate", "dump", "report", "done", "refused", "killed"}
Held(asked) ==
  [at : Place, call : Calls \cup {Fresh.call}, reruns : [asked -> Reruns], copy : Ledger,
   verdict : {"none", "PASS", "FAIL"}, exit : 0..2]

GateTypeOK ==
  /\ ledger \in Ledger
  /\ gate = [g \in Gate |-> gate[g]]
  /\ \A g \in Gate : \E asked \in SUBSET Query : gate[g] \in Held(asked)
  /\ overlapped \in BOOLEAN

Past == {"load", "truncate", "dump", "report", "done"}

\* What was asked again is what newly failed, and by the time the ledger is read all of it.
ReaskedBy(g) ==
  LET c == gate[g].call
      asked == DOMAIN gate[g].reruns
  IN
  /\ gate[g].at = "new" => asked = {}
  /\ gate[g].at \in Past \cup {"rerun"} =>
       /\ c \in Calls /\ Common(c) # {} /\ asked \subseteq NewlyFailed(c)
       /\ \A q \in asked : gate[g].reruns[q] \in [1..c.runs -> {"pass", "fail"}]
  /\ gate[g].at \in Past /\ c.rerun => asked = NewlyFailed(c)
  /\ gate[g].at = "done" => gate[g].verdict = Verdict(c, gate[g].reruns)

Reasked == \A g \in Gate : ReaskedBy(g)

\* Two observations, or reruns that differ, mark an entry as unstable.
Sound(e) ==
  /\ IsFiniteSet(e.observations)
  /\ \A o, p \in e.observations : o # p => e.unstable
  /\ \A o \in e.observations : \A s \in o.reruns : ~Unanimous(s) => e.unstable

Holds(l, gates) ==
  \A q \in Query :
    /\ Sound(l[q])
    /\ \A g \in gates : q \in Flips(gate[g].call) => Observation(g, q) \in l[q].observations

Recorded == {g \in Gate : gate[g].at \in {"report", "done"}}

\* One gate rewrites at a time; the ledger it read and the one it writes are good.
Rewriting ==
  ~overlapped =>
    /\ \A g, h \in Gate :
         gate[g].at \in {"truncate", "dump"} /\ gate[h].at \in {"truncate", "dump"} => g = h
    /\ \A g \in Gate :
         /\ gate[g].at = "dump" => ledger = Torn
         /\ gate[g].at \in {"truncate", "dump"} => Holds(gate[g].copy, Recorded \cup {g})
    /\ ledger # Torn => Holds(ledger, Recorded)

GateInv == GateTypeOK /\ Reasked /\ Rewriting
=============================================================================
