---------------------------- MODULE ChatRequest ----------------------------
(***************************************************************************)
(* POST /v1/chat/completions of rag-api (RAG/api.py): who is let in, what  *)
(* is scanned, what reaches the question graph, what is remembered of the  *)
(* answer and what the audit log says about it.                            *)
(*                                                                         *)
(* Handlers run on one event loop: between two awaits a handler runs       *)
(* alone, but each INSERT of save_message commits by itself and the        *)
(* process can die between two of them.  The graph is the environment      *)
(* (RagGraph models it): what it returns is chosen freely.                 *)
(***************************************************************************)
EXTENDS Naturals, Sequences, FiniteSets

CONSTANTS
  Request, Session, Key,
  Inputs,        \* the inputs each request may carry
  AuthMode,      \* "keys", "intranet", or "closed": neither is configured
  HistoryLimit,  \* conversation_history_limit
  Limit,         \* RATE_LIMIT_PER_MINUTE
  MinuteTicks,   \* ticks of the clock in a minute
  MaxTime,       \* bound: last tick
  MaxCrashes,    \* bound: restarts of rag-api
  MaxFaults,     \* bound: failing database calls
  NoRequest

\* What the sanitizer and the wrapper test see in a text.  "task": an OpenWebUI task
\* with a known signature that quotes instructions; "probe": an injection, system probe
\* or role switch; "hard": SSRF, SQL, LDAP, CSRF or over-long, never exempt;
\* "empty": there is no user message.
Content == {"plain", "task", "probe", "hard", "empty"}

Input == [session : Session, key : Key, credential : {"good", "bad"},
          text : Content,                 \* the last user message
          others : SUBSET Content,        \* the other messages of the request
          long : BOOLEAN,                 \* it has more than two messages
          trusted : BOOLEAN,              \* the peer is in WRAPPER_TRUSTED_PEERS
          stream : BOOLEAN]

ASSUME ChatAssumption == /\ Inputs \in [Request -> SUBSET Input]
                         /\ AuthMode \in {"keys", "intranet", "closed"}
                         /\ HistoryLimit \in Nat /\ Limit \in Nat
                         /\ MinuteTicks \in Nat \ {0} /\ MaxTime \in Nat
                         /\ MaxCrashes \in Nat /\ MaxFaults \in Nat
                         /\ NoRequest \notin Request

VARIABLES
  now,       \* time.monotonic()
  boot,      \* restarts so far
  faults,    \* database calls that failed so far
  counters,  \* _counters, by key and minute
  store,     \* the rows of conversations, by session
  loop,      \* the handler that holds the event loop between two awaits
  pc,        \* where each request is
  input,     \* what it carries
  ctx,       \* the user messages handed to the graph with it
  reply,     \* the text the graph returned
  saved,     \* history: the saves that committed
  log,       \* audit records written for it, by kind
  arrival    \* history: when and in which boot it passed the limiter

vars == <<now, boot, faults, counters, store, loop, pc, input, ctx, reply, saved, log, arrival>>

Kinds == {"success", "failure", "alert", "query", "rejection"}
PC == {"new", "authed", "asked", "answered", "saving", "recording", "sending",
       "200", "blocked", "401", "503", "429", "500", "gone", "broken", "cut", "lost"}
Ended == {"200", "blocked", "401", "503", "429", "500", "gone", "broken", "cut", "lost"}
Row == [role : {"user", "assistant"}, by : Request, text : Content]
\* What the graph returned: an answer, or the rejection text.
Reply == {"none", "answer", "rejection"}
Minute == 0..MaxTime

Init ==
  /\ now = 0 /\ boot = 0 /\ faults = 0
  /\ counters = [k \in Key |-> [m \in Minute |-> 0]]
  /\ store = [s \in Session |-> <<>>]
  /\ loop = NoRequest
  /\ pc = [r \in Request |-> "new"]
  /\ input \in {f \in [Request -> UNION {Inputs[r] : r \in Request}] :
                  \A r \in Request : f[r] \in Inputs[r]}
  /\ ctx = [r \in Request |-> {}]
  /\ reply = [r \in Request |-> "none"]
  /\ saved = [r \in Request |-> {}]
  /\ log = [r \in Request |-> [e \in Kinds |-> 0]]
  /\ arrival = [r \in Request |-> [at |-> 0, boot |-> 0]]

Goto(r, l) == pc' = [pc EXCEPT ![r] = l]
Logged(r, e) == log' = [log EXCEPT ![r][e] = @ + 1]

(* ------------------------------- admission ------------------------------- *)

Admissible(i) == AuthMode = "intranet" \/ (AuthMode = "keys" /\ i.credential = "good")

\* A request arrives: get_api_key runs in a worker thread before the handler; a refusal
\* is audited by the exception handler.
Authenticate(r) ==
  /\ pc[r] = "new"
  /\ IF Admissible(input[r])
     THEN Goto(r, "authed") /\ UNCHANGED log
     ELSE /\ Goto(r, IF AuthMode = "closed" THEN "503" ELSE "401")
          /\ Logged(r, "failure")
  /\ UNCHANGED <<now, boot, faults, counters, store, loop, input, ctx, reply, saved, arrival>>

MinuteOf(t) == t \div MinuteTicks

Counted(k) == [counters EXCEPT ![k][MinuteOf(now)] = @ + 1]

\* mutant: the counter is compared before it is raised
OverLimitLate(k) == counters[k][MinuteOf(now)] > Limit

OverLimit(k) == Counted(k)[k][MinuteOf(now)] > Limit

\* The counter rises for a refused request too.
RateLimited(r) ==
  /\ pc[r] = "authed" /\ loop = NoRequest
  /\ OverLimit(input[r].key)
  /\ counters' = Counted(input[r].key)
  /\ Goto(r, "429")
  /\ UNCHANGED <<now, boot, faults, store, loop, input, ctx, reply, saved, log, arrival>>

Fault == faults < MaxFaults /\ faults' = faults + 1

\* get_history: the last rows of the session, none when the database fails.
History(s) == LET n == Len(store[s]) IN
              {store[s][i] : i \in {j \in 1..n : j + HistoryLimit > n}}
UserTexts(rows) == {row.text : row \in {x \in rows : x.role = "user"}}

Wrapper(text, trusted) == trusted /\ text = "task"

\* sanitize(text, is_wrapper)
Stopped(text, wrapper) == text = "hard" \/ (text \in {"task", "probe"} /\ ~wrapper)

\* mutant: one wrapper flag for the whole batch
BlockedBatch(i, texts) == \E t \in texts : Stopped(t, Wrapper(i.text, i.trusted))

\* Every text is scanned with a wrapper flag of its own.
Blocked(i, texts) == \E t \in texts : Stopped(t, Wrapper(t, i.trusted))

\* The stored user messages (assistant rows are exempt) and all of the request's own.
Scanned(i, rows) == UserTexts(rows) \cup i.others \cup {i.text}

\* A request that brings a conversation of its own is asked without the stored one.
Context(i, rows) == (IF i.long THEN {} ELSE UserTexts(rows)) \cup i.others \cup {i.text}

\* security_block_response: a fixed text, and the alert next to the record of the access.
Block(r) == /\ Goto(r, "blocked")
            /\ log' = [log EXCEPT ![r]["success"] = @ + 1, ![r]["alert"] = @ + 1]

\* check_rate_limit, the audit of the access, history, scan: no await in between.
Handle(r) ==
  LET i == input[r] IN
  /\ pc[r] = "authed" /\ loop = NoRequest
  /\ ~OverLimit(i.key)
  /\ counters' = Counted(i.key)
  /\ arrival' = [arrival EXCEPT ![r] = [at |-> now, boot |-> boot]]
  /\ \E rows \in {History(i.session), {}} :
    /\ IF rows = History(i.session) THEN UNCHANGED faults ELSE Fault
    /\ IF i.text = "empty"
       THEN /\ Goto(r, "500")     \* the 400 is raised inside the handler's own try
            /\ Logged(r, "success") /\ UNCHANGED ctx
       ELSE IF Blocked(i, Scanned(i, rows))
       THEN Block(r) /\ UNCHANGED ctx
       ELSE /\ Goto(r, "asked") /\ Logged(r, "success")
            /\ ctx' = [ctx EXCEPT ![r] = Context(i, rows)]
  /\ UNCHANGED <<now, boot, store, loop, input, reply, saved>>

(* -------------------------------- answer --------------------------------- *)

GraphAnswers(r) ==
  /\ pc[r] = "asked"
  /\ \E t \in Reply \ {"none"} : reply' = [reply EXCEPT ![r] = t]
  /\ Goto(r, "answered")
  /\ UNCHANGED <<now, boot, faults, counters, store, loop, input, ctx, saved, log, arrival>>

\* run_query raised.  On the stream path astream_query turns what its graph raises into a
\* text; when the graph cannot be built the stream breaks off, with nothing answered.
GraphRaises(r) ==
  /\ pc[r] = "asked"
  /\ \/ ~input[r].stream /\ Goto(r, "500") /\ UNCHANGED reply
     \/ input[r].stream /\ reply' = [reply EXCEPT ![r] = "answer"] /\ Goto(r, "answered")
     \/ input[r].stream /\ Goto(r, "broken") /\ UNCHANGED reply
  /\ UNCHANGED <<now, boot, faults, counters, store, loop, input, ctx, saved, log, arrival>>

UserRow(r) == [role |-> "user", by |-> r, text |-> input[r].text]
AnswerRow(r) == [role |-> "assistant", by |-> r, text |-> "plain"]

\* save_message commits, or fails and is logged.
Save(r, row) == \/ /\ store' = [store EXCEPT ![input[r].session] = Append(@, row)]
                   /\ saved' = [saved EXCEPT ![r] = @ \cup {row.role}]
                   /\ UNCHANGED faults
                \/ Fault /\ UNCHANGED <<store, saved>>

\* mutant: the question is saved in a turn of the loop of its own
SaveUserYielding(r) ==
  /\ pc[r] = "answered" /\ loop = NoRequest
  /\ loop' = NoRequest
  /\ Save(r, UserRow(r))
  /\ Goto(r, "saving")
  /\ UNCHANGED <<now, boot, counters, input, ctx, reply, log, arrival>>

SaveUser(r) ==
  /\ pc[r] = "answered" /\ loop = NoRequest
  /\ loop' = r
  /\ Save(r, UserRow(r))
  /\ Goto(r, "saving")
  /\ UNCHANGED <<now, boot, counters, input, ctx, reply, log, arrival>>

SaveAnswer(r) ==
  /\ pc[r] = "saving"
  /\ Save(r, AnswerRow(r))
  /\ Goto(r, "recording")
  /\ UNCHANGED <<now, boot, counters, loop, input, ctx, reply, log, arrival>>

\* log_rejection for the rejection text, log_query for an answer
AnswerKind(r) == IF reply[r] = "rejection" THEN "rejection" ELSE "query"

\* mutant: the loop is never given back on the stream path
RecordHolding(r) ==
  /\ pc[r] = "recording"
  /\ Logged(r, AnswerKind(r))
  /\ loop' = IF input[r].stream THEN r ELSE NoRequest
  /\ Goto(r, IF input[r].stream THEN "sending" ELSE "200")
  /\ UNCHANGED <<now, boot, faults, counters, store, input, ctx, reply, saved, arrival>>

\* mutant: the stream is sent first and recorded by nobody
RecordUnlessStream(r) ==
  /\ pc[r] = "recording"
  /\ IF input[r].stream THEN UNCHANGED log
     ELSE Logged(r, AnswerKind(r))
  /\ loop' = NoRequest
  /\ Goto(r, IF input[r].stream THEN "sending" ELSE "200")
  /\ UNCHANGED <<now, boot, faults, counters, store, input, ctx, reply, saved, arrival>>

\* One audit record, then the response; a stream sends its deltas from here on.
Record(r) ==
  /\ pc[r] = "recording"
  /\ Logged(r, AnswerKind(r))
  /\ loop' = NoRequest
  /\ Goto(r, IF input[r].stream THEN "sending" ELSE "200")
  /\ UNCHANGED <<now, boot, faults, counters, store, input, ctx, reply, saved, arrival>>

Sent(r) == /\ pc[r] = "sending" /\ loop = NoRequest
           /\ Goto(r, "200")
           /\ UNCHANGED <<now, boot, faults, counters, store, loop, input, ctx, reply, saved, log,
                          arrival>>

\* The client of a stream goes away at an await: the generator is cancelled there.
HangUp(r) ==
  /\ input[r].stream /\ pc[r] \in {"asked", "sending"}
  /\ Goto(r, IF pc[r] = "asked" THEN "gone" ELSE "cut")
  /\ UNCHANGED <<now, boot, faults, counters, store, loop, input, ctx, reply, saved, log, arrival>>

(* ------------------------------ environment ------------------------------ *)

Tick == /\ now < MaxTime
        /\ now' = now + 1
        /\ UNCHANGED <<boot, faults, counters, store, loop, pc, input, ctx, reply, saved, log, arrival>>

\* rag-api restarts: requests under way are lost, and so are the counters.
Crash ==
  /\ boot < MaxCrashes
  /\ boot' = boot + 1
  /\ pc' = [r \in Request |-> IF pc[r] \in {"new"} \cup Ended THEN pc[r] ELSE "lost"]
  /\ loop' = NoRequest
  /\ counters' = [k \in Key |-> [m \in Minute |-> 0]]
  /\ UNCHANGED <<now, faults, store, input, ctx, reply, saved, log, arrival>>

Step(r) == \/ RateLimited(r) \/ Handle(r)
           \/ GraphAnswers(r) \/ GraphRaises(r)
           \/ SaveUser(r) \/ SaveAnswer(r) \/ Record(r)
           \/ Sent(r)

Next == \/ \E r \in Request : Authenticate(r) \/ Step(r) \/ HangUp(r)
        \/ Tick \/ Crash

Spec == Init /\ [][Next]_vars

\* The loop runs every ready handler, and the graph's model calls have timeouts.
FairSpec == Spec /\ \A r \in Request : WF_vars(Step(r))

(* ------------------------------ properties ------------------------------- *)

\* Every variable has its type; in particular a request that goes on to save, record and
\* send has a text to do it with, also when the graph raised.
TypeOK ==
  /\ now \in 0..MaxTime /\ boot \in 0..MaxCrashes /\ faults \in 0..MaxFaults
  /\ counters \in [Key -> [Minute -> Nat]]
  /\ store \in [Session -> Seq(Row)]
  /\ loop \in Request \cup {NoRequest}
  /\ pc \in [Request -> PC]
  /\ input \in [Request -> Input]
  /\ ctx \in [Request -> SUBSET Content]
  /\ reply \in [Request -> Reply]
  /\ \A r \in Request : pc[r] \in {"answered", "saving", "recording", "sending"} => reply[r] # "none"
  /\ saved \in [Request -> SUBSET {"user", "assistant"}]
  /\ log \in [Request -> [Kinds -> Nat]]
  /\ arrival \in [Request -> [at : 0..MaxTime, boot : 0..MaxCrashes]]

\* However a conversation was built up, by trusted and untrusted peers in turn, no user
\* message that the sanitizer stops for the peer at hand is handed to the graph, whether
\* it comes with the request or out of the stored history.
ContextClean == \A r \in Request : pc[r] \in {"asked", "answered", "sending", "200"} =>
                  \A t \in ctx[r] : ~Stopped(t, Wrapper(t, input[r].trusted))

\* The two rows of a turn stand next to each other, question first, whatever other
\* requests of the session do meanwhile; a row stands alone only if the save of the
\* other failed or the process died between them.
TurnsPaired ==
  \A s \in Session : \A n \in 1..Len(store[s]) :
    LET row == store[s][n] IN
    /\ row.role = "assistant" /\ "user" \in saved[row.by] =>
         n > 1 /\ store[s][n - 1].role = "user" /\ store[s][n - 1].by = row.by
    /\ row.role = "user" /\ "assistant" \in saved[row.by] =>
         n < Len(store[s]) /\ store[s][n + 1].role = "assistant" /\ store[s][n + 1].by = row.by

AnswerRecords(r) == log[r]["query"] + log[r]["rejection"] + log[r]["alert"]

\* Text only goes out with exactly one record of it in the audit log, also when the
\* client hangs up in the middle; what is refused at the door, or breaks off before there
\* is an answer, has none.
AnsweredIsRecorded ==
  \A r \in Request :
    /\ pc[r] \in {"sending", "200", "cut", "blocked"} => AnswerRecords(r) = 1
    /\ pc[r] \in {"401", "503", "429", "broken"} => AnswerRecords(r) = 0

AdmittedIn(k, b, t) == {r \in Request : /\ log[r]["success"] > 0 /\ input[r].key = k
                                        /\ arrival[r].boot = b
                                        /\ arrival[r].at \in t..(t + MinuteTicks - 1)}

\* As long as rag-api is up, no stretch of a minute, wherever it begins, sees more than
\* twice the limit of one key's requests.
RateBound == \A k \in Key, b \in 0..MaxCrashes, t \in 0..MaxTime :
               Cardinality(AdmittedIn(k, b, t)) <= 2 * Limit

\* Every request gets its response or is lost with the process: no failing save, refused
\* neighbour or client that hung up keeps the loop from the others.
Served == \A r \in Request : pc[r] = "authed" ~> pc[r] \in Ended

(* The inductive invariant: what has been recorded and saved where a request is.   *)

Clean == \A r \in Request : \A t \in ctx[r] : ~Stopped(t, Wrapper(t, input[r].trusted))

Recorded == \A r \in Request :
  /\ pc[r] \in {"new", "authed", "asked", "answered", "saving", "recording", "401", "503", "429",
                "broken"} => AnswerRecords(r) = 0
  /\ pc[r] \in {"sending", "200", "cut", "blocked"} => AnswerRecords(r) = 1

LoopHeld == \A r \in Request : pc[r] \in {"saving", "recording"} <=> loop = r

SavedSoFar == \A r \in Request :
  /\ pc[r] \in {"new", "authed", "asked", "answered"} => saved[r] = {}
  /\ pc[r] = "saving" => "assistant" \notin saved[r]

RowsSaved == \A s \in Session : \A n \in 1..Len(store[s]) :
               store[s][n].role \in saved[store[s][n].by]

\* Between the two saves the request's only row is its question, the last of its session.
QuestionLast == \A r \in Request : pc[r] = "saving" =>
  /\ "user" \in saved[r] => LET rows == store[input[r].session] IN
                              /\ Len(rows) > 0
                              /\ rows[Len(rows)].role = "user" /\ rows[Len(rows)].by = r
  /\ \A s \in Session : \A n \in 1..Len(store[s]) :
       store[s][n].by = r => s = input[r].session /\ n = Len(store[s])

Turns == LoopHeld /\ SavedSoFar /\ RowsSaved /\ QuestionLast /\ TurnsPaired

\* The requests of a key that a boot let in during one minute of the clock.
LetIn(k, b, m) == {r \in Request : /\ log[r]["success"] > 0 /\ input[r].key = k
                                   /\ arrival[r].boot = b /\ MinuteOf(arrival[r].at) = m}

\* The counter of a minute covers whom this boot let in, and no boot let in more than the limit.
RateInv ==
  /\ \A k \in Key, m \in Minute :
       /\ \A b \in 0..MaxCrashes : IsFiniteSet(LetIn(k, b, m)) /\ Cardinality(LetIn(k, b, m)) <= Limit
       /\ Cardinality(LetIn(k, boot, m)) <= counters[k][m]
  /\ \A r \in Request : log[r]["success"] > 0 => arrival[r].boot <= boot

ChatInv == TypeOK /\ Clean /\ Recorded /\ Turns /\ RateInv
=============================================================================
