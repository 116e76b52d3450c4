# A formal model of ISO42001RAG

TLA+ specifications of the legal question-answering service in this repository, the
TLC configurations that model-check them, and TLAPS proofs of their main properties.
Paths are relative to the repository; line numbers refer to the commit modelled and
are repeated, definition by definition, in the `map` of `PROJECT.json`.

## 1. Inventory

| part | source | state it keeps | operations | talks to |
|---|---|---|---|---|
| audit log | `RAG/rag_system/core/audit_logger.py` | one JSONL file per UTC+8 day, hash chained; `_LAST_HASH` and `_LOCK` in memory | `_write` behind all `log_*` methods, `verify_integrity` | every endpoint and the security node write; monitoring reads |
| integrity checker | `monitoring_addon/monitoring/alert_checkers.py`, `service/app.py` | `integrity_state.json` | `check` every `ALERT_INTEGRITY_INTERVAL_SEC` | reads the audit files, emits to the alert sink |
| workflow cache | `RAG/rag_system/agent/graph.py`, `core/retrieval_generation.py` | `_WORKFLOW_CACHE`, its lock, the generation marker file | `create_rag_workflow`, `invalidate_workflow_cache`, `bump_retrieval_generation` | queries read; uploads, deletions, reindexing and `scripts/reindex.py` invalidate |
| knowledge index | `RAG/rag_system/services/ingestion.py`, `converter.py`, `RAG/api.py`, `RAG/scripts/reindex.py` | `converted_md/`, the parent docstore, the pgvector rows | upload, batch upload, delete, reindex, `--file`, `--delete` | retrieval reads all three |
| question graph | `RAG/rag_system/agent/graph.py`, `nodes.py`, `state.py` | `GraphState` of one question | classify, fixed texts, passthrough, retrieve, generate, verify | language model, retrieval, audit log |
| ReAct agent | `RAG/rag_system/agent/react_workflow.py` | one question's messages | sanitize, pre-classify, tool calls, citation check, verifier | stands in for the graph in `REACT_MODE` |
| retrieval | `RAG/rag_system/services/retrieval.py` | BM25 index and source list built from `converted_md/` | article fast path, hybrid search, search by source, reranking, fetching of parents | index, language model |
| chat endpoint | `RAG/api.py`, `core/auth.py`, `services/conversation_store.py` | conversations in the database | `/v1/chat/completions`, streamed or not | rate limiter, sanitizer, graph, audit log, store |
| rate limiter | `RAG/rag_system/core/rate_limiter.py` | counters by key and minute | `check_rate_limit` | chat endpoint |
| sanitizer, output filter | `core/input_sanitizer.py`, `canonicalize.py`, `output_filter.py` | none | pure text tests | graph, endpoint |
| summarizer, anomaly detector | `agent/memory.py`, `core/anomaly_detector.py` | none; windows of events | | graph; nothing creates a detector |
| alerting | `monitoring_addon/monitoring/alerting.py`, `alert_checkers.py`, `availability.py`, `service/app.py` | dedup times, flags seen, probe streak and log, `health_state.json` | `emit`, `AnomalyChecker`, `HealthChecker`, `AvailabilityProbe` | audit files, mail, dashboard |
| scores | `health_monitor.py`, `thresholds.py` | none | `classify_health` | alerting, reports |
| dashboard, reports | `monitoring_addon/monitoring/dashboard_*.py`, `audit_search.py` | none | read only | all monitoring files |
| admin console | `admin_console/service/app.py`, `admincore/jobs.py`, `envstore.py`, `dockerops.py` | `.env`, its backups, `rag-runtime.env`, `changes.jsonl`, `jobs.jsonl`, the one job | save settings, restart rag-api, start a job | docker, rag-api |
| admin sign-in | `admin_console/service/app.py`, `admincore/challenge_store.py`, `cardauth.py` | challenges, sessions, the CA bundle once read | challenge, card verify, login, logout | the employee's card |
| regression gate | `monitoring_addon/monitoring/regression_gate.py`, `scripts/run_regression_gate.py` | the stability ledger | compare, rerun, verdict | rag-api, the console that starts it |
| embedding proxy, shell scripts, other evaluation | `embed_proxy/`, `*.sh`, `RAG/scripts/` | none of their own | | |

What is hard here, and where:

* **threads and containers**: writers of one audit file share a lock inside one process
  and nothing across processes; the workflow cache is locked but its generation marker
  is a file that other containers replace; the three stores of the index, the settings
  files and the gate's ledger have no lock or transaction in common; a console job is a
  thread here and a process in another container;
* **failure half way**: an append that raises, parents stored whose children are not,
  a question saved whose answer is not, `.env` written whose runtime copy is not, a
  change whose log line cannot be written, a mutation killed before it publishes;
* **restarts**: a cold start reads the chain's tip from a file that may end in half a
  line; streaks, suppression times, counters, challenges and sessions are gone, state
  files are not;
* **ordering**: the tests of `classify` and `verify`, the merging of searches and the
  steps of a chat request each rely on the ones before them;
* **time**: midnight between choosing a file and writing it, a minute's end between two
  requests, a challenge that lapses under way, windows of scans and of suppression.

What makes each part correct: the chain of an undamaged file verifies and an alert
means damage (audit log); an answer reflects every completed change (cache); the stores
agree and a reported success is true (index); no unbacked citation and no blocked
question gets through, and every question ends (graph, agent); what was found and named
is in what the answer rests on (retrieval); nothing that is stopped reaches the graph,
what is sent is recorded once and turns stay together (chat endpoint); a key's requests
are bounded (rate limiter); suppression and scheduling swallow no alert (alerting);
settings can be had back and agree, the change log accounts for them, a job that ended
frees the console (admin console); a session rests on a fresh answer of a trusted card
and is logged (sign-in); a PASS hides no regression (gate).

`hazards` in `PROJECT.json` lists the concrete places, each with the property that
covers it or the reason why none does.

## 2. Modules

| module | role |
|---|---|
| `AuditLedger` | what the audit log promises: books that only grow by fresh events |
| `AuditChain` | `_write`, the tip cache and lock, and `IntegrityChecker.check` |
| `WorkflowCache` | cached workflows, the generation marker and the corpus mutations |
| `KnowledgeIndex` | files, parents and rows under upload, delete, update and reindex |
| `AnswerGate` | what the question graph promises of one question |
| `RagGraph` | the graph node by node |
| `ReactAgent` | the agent that takes the graph's place, under the same `AnswerGate` |
| `Retrieval` | `RetrievalService.query`, search by search, for requests side by side |
| `ChatRequest` | requests to the chat endpoint, with rate limiter, store and audit records |
| `Alerting` | the alert sink and the loops that feed it |
| `AdminConsole` | settings, change log and the one job of the console |
| `AdminAccess` | challenges, cards, certificate chains and sessions |
| `RegressionGate` | gates that run side by side over one stability ledger |
| `MC*` | the instances for TLC |
| `*_proofs` | the theorems, checked by TLAPS; those of `Retrieval` are in `RagGraph_proofs`, those of `AdminAccess` and `RegressionGate` in `AdminConsole_proofs` |

The modules meet where the code's parts do: `RagGraph` and `ReactAgent` implement the
same `AnswerGate`, so that `ChatRequest` may take from the graph any answer or rejection;
`Retrieval` chooses within what `RagGraph` leaves free; `WorkflowCache` treats a mutation
of `KnowledgeIndex` as a change of revisions; the jobs of `AdminConsole` are, among
others, the gates of `RegressionGate`, which is why those may be killed at any step.

### 2.1 AuditChain

`file[d]` is the day's file as a sequence of lines, `cache[p][d]` is `_LAST_HASH` of
process `p`, `lock[p]` its `_LOCK`; `pc` and `call` are where a thread is in `_write`
and its locals. The steps are those between which other threads, the checker or a
crash can be seen: `BeginWrite` (the file is chosen *before* the lock), `Acquire` (lock
and `_get_prev_hash`, self-heal and cold start included), `AppendLine`, `Publish`.
`AppendFails` is the swallowed exception: nothing or half a line is in the file. A line
that another append later runs into is `"garbled"`. `Crash` drops a process's memory and
may cut a line, `Clear` empties a file, `Midnight` moves the day. The checker reads
today's and yesterday's file in separate steps; a line being appended may be met half
written, which makes the verifier raise.

A digest is the sequence of events it was computed over. This is SHA-256 without
collisions and keeps every comparison the code makes.

Properties: `ChainIntact` (a file with no torn line verifies), `NoFalseAlarm` (an alert
only for a torn file), `WriteReturns` (no call waits for ever), `ImplementsLedger`
(refinement of `AuditLedger`, with `CertifiedBook` as the mapping).

### 2.2 WorkflowCache

A revision number stands for a document's content and a deletion is a revision. A
workflow is the revisions its BM25 build read, one document at a time (`BuildRead`)
while others edit. Generations are numbers because every `uuid4` is fresh. The locked
comparison and the insert are two steps: the marker is a file and may move between
them. Writers are request handlers, which publish and then clear, and scripts, which
only publish. `Restart` and `Abandon` may come anywhere. `floor`, `acked`, `wrote`,
`covered` and `cleared` are history variables: no guard reads them.

Properties: `CachedCovers`, `FreshAnswer` (a query that begins after a completed change
sees it), `QueryServed`; `NoDeadEntry` is proved with them. A change that is abandoned
before it publishes is *not* promised to be seen: cached workflows stay older than the
files until the next publication, and this is what the code does (`api.py:891`).

### 2.3 KnowledgeIndex

A document stands for one article, so `index_file` stores one parent and one row, or, for a
text of white space only (`Blank`), a parent and no row: the splitter finds nothing to split
(`ingestion.py:217`) and the file counts as indexed. A
text stands for its SHA-256. An operation's locals are in `op[a]` and its `stage` names
the next store it touches; between any two stages it may be killed. `Faults` says which
stores may refuse: parents (`mset`), children (`add`), the deletion of rows or parents,
the unlink, the conversion, the dropping of tables. A refused operation takes the way
the handler takes: `process_bytes` reports a partial upload, `index_directory` counts a
failure, `reindex.py --file` goes on with a warning.

Properties: `RowsHaveParents`, and of operations that report success: `DeleteForgets`,
`ReindexRebuilds`, `UpdateReplaces`; the last two promise one entry of a text that is not
blank, and none of one that is. In the passing run files are deleted under their
`.md` name and uploaded as text with LF line ends; the violation run shows what a
deletion under the uploaded name does. The file of its own that a `.txt` upload also leaves in
`converted_md/` is not in `md`: everything that lists the directory asks for `*.md`.

### 2.4 RagGraph

One question. Of a text the model keeps what the nodes look at: the article numbers it
names, those it only names as missing, whether it holds a no-information phrase, whether
it is short or structured. The model's words, the classifier's verdict and what
retrieval finds are chosen freely, so a property holds whatever the language model does.
Every node is an action with its failing variant. `exposed` records that the question
was sent to the model.

Properties: `CitesOnlyEvidence`, `BlockedStaysInside`, `Answered`, and `ImplementsGate`,
the refinement of `AnswerGate`. `NoEarlyContradiction` is proved with them.

`verify` is modelled as it is wired (`graph.py:134`: `llm=None`). The error text of
`GenerateFails` is assumed to name no article.

### 2.5 ReactAgent

One question in `REACT_MODE`. The prebuilt agent loop calls the tool any number of times
up to its recursion limit (`hops`), writes or writes nothing, or raises; `evidence` is
what the tool messages of *this* attempt name, and is gone at the next one, as the code
starts each attempt from fresh messages. `text` is what `run_react_query` takes for the
answer: the last message with content, which can be one of an earlier turn. `Check` is the
citation gate with its fail-safe, `Verify` the verifier, which is skipped for quick texts
and when no retry is left, and passes on any error.

Properties: `CitesOnlyShown`, `Settles`, and `ImplementsGate`: the same `AnswerGate` as
the graph's, with `retry` for its tries and the fail-safe text for its withheld answer.

### 2.6 Retrieval

Requests run side by side in worker threads, each with its locals in `req[r]`, and every
search or fetch is a step of its own that may fail (`MaxFaults` in all), while
documents are deleted from the two stores. Of an article the model keeps its source, the
numbers its text has and how it begins, since the code finds a named article by number,
merges candidates by their first 100 characters (`Beginning`) and the documents of the answer
by their first 80 (`Opening`). A request has its `question` and the `text` it searches for,
which is the drafted one between `DraftText` and `DraftScoped`; the comparison of laws
(`Filters`) searches with the question again. Rankings are chosen from a set. A vector
row is a piece of an article with a parent; a BM25 chunk is a whole article without one.
The model's reranking is any order, an unusable one, or a rejection. Lists are filtered and
ordered by place, without recursion: `Picked` is what a list has in some places, `InOrder`
puts a set in a strict order by counting who comes before; from them come `Distinct` and
`Merged` (`_merge_summary_lists`) and `RoundRobin` (`_merge_results`).

Properties: `NamedArticleAnswered`, from the question to the answer: an article that names
a number asked for, and that the keyword search ranks in its pool, is in the answer as a
whole, or one that opens alike and is named too. `SourcesHeard`: what is left when a ranking
is unusable has every source that was reached, or as many as there are places.
`FoundIsAnswered`: only named reasons empty an answer. What the docstring and the comment of
the code say beyond that, `NamedArticlePresent` and `SourcesRepresented`, is stated too and
does not hold (section 4).

### 2.7 ChatRequest

Handlers share one event loop: `loop` is the handler that runs between two awaits, so that
the two saves and the audit record of a turn are steps nobody interleaves, but between
which rag-api can die and a save can fail. Texts are the classes that the sanitizer and
the wrapper test tell apart. `Authenticate` runs in a worker thread before the handler,
`RateLimited` and `Handle` are its beginning up to the graph (history, scan of every
message for the peer at hand, context), `GraphAnswers` and `GraphRaises` what the graph
does, `SaveUser`, `SaveAnswer`, `Record`, `Sent` the rest, on both paths. A stream whose graph
cannot be built breaks off (`"broken"`): that happens before the `try` of `astream_query`
(`graph.py:280`), so there is no text, row or record. `HangUp` is a
client that leaves a stream at an await. `counters` go with the process, `store` does not.

Properties: `ContextClean`, `TurnsPaired`, `AnsweredIsRecorded`, `RateBound`, `Served`.

### 2.8 Alerting

Three loops that sleep, check in a thread and sleep again, so a check can be late and
checks interleave. `emit` is one step (a lock) that looks at `dedup` and lets an alert
`out` or not. rag-api gives a record its time (`Stamped`) before it has the lock of the file
and appends it (`Appended`). A scan reads its cutoff, handles one record after the other and
ends at least a tick later, or earlier in the files when one cannot be read on (`ScanCut`);
then the loop sleeps for `ScanEvery`, which is at least the window. A
probe writes its line and then counts; a health run decides and then saves its memory to
a file. Each write may fail, and the service may die at any step: `dedup`, `fails` and the
flags seen are gone, files stay. The level of a run is any one that `classify_health` can
give to the probes on record (`Assessed`). Times are ticks of the shortest period.

Properties: `FlagsNotSilenced`, `FlagsAlerted` (a scan that reads its files to the end answers
for every flag that was on file and in its window when it began), `DownIsAlerted`,
`HealthConfirmed`. That no flag falls between two scans is *not* among them: `FlagsNoticed`
says it and does not hold (section 4).

### 2.9 AdminConsole

A save is a sequence of steps over `.env`: backup, truncate, write, copy to the runtime
file, one log line per key; each may fail, and the console can die between any two. `torn`,
`complete`, `unlogged`, `fresh` and `lost` are history. `Boot` is rag-api's start, which
loads the runtime file over its container's environment and writes the snapshot the panel
compares with. A job is `start()` with its lock, its log line and its thread; the thread
creates a process in another container, follows its output, asks for the exit code, settles
the job and appends it to `jobs.jsonl`. The process may end well or badly, be killed with
its container, or lose its stream; when `exec_start` raises it may not run, or run with nobody
to follow it.

Properties: `EnvRecoverable`, `SettingsInStep`, `LogAccounts`, `JobsExclude`, `JobSettles`;
`DoneIsDone` is proved with them.

### 2.10 AdminAccess

A card's answer is what it signs: the nonce, the certificate and the key. `CardVerify` is the
whole handler: the challenge is consumed first, then the answer is examined test by test,
the last of them the climb of the chain over the CA bundle that this process has read. A
bundle can be replaced on disk at any time; the process keeps the one it read. Answers
come late, twice, for another challenge, or altered. `verdict` records what became of the
last one.

Properties: `SignInsAccounted`, `AnswersAreFresh`, `ChainDecided`. This is the correctness
of the protocol as coded; the strength of the cryptography is assumed.

### 2.11 RegressionGate

Gates run side by side, from the console or a shell. A gate compares two reports, asks
newly failing questions again, reads the ledger, truncates it, writes it, and publishes
verdict and exit code; it may be killed between any two of these. Reports are functions
from question to result, of which the model keeps what `query_status` looks at.

Properties: `PassIsConfirmed`, and `LedgerRemembers` under the premise that no gate read
the ledger while another was about to rewrite it: nothing in the code prevents that.

## 3. Runs

| run | question | size |
|---|---|---|
| `audit_chain` | chain, alerts, return and refinement with 2 threads, 3 records, 2 days, 2 faults | about 245,000 states |
| `workflow_cache` | 2 queries, 1 handler, 1 script, 2 documents, 2 generations | about 336,000 |
| `knowledge_index` | 1 actor, 2 documents, 2 texts and a blank one, 4 parent ids, all faults but `drop` | about 97,000 |
| `delete_by_original_name` | deletion of a PDF under its own name | violated |
| `rag_graph` | all questions, retrievals and three drafts over 2 articles | about 63,000 |
| `react_agent` | all runs of at most 2 tool calls, 3 attempts, 2 articles | about 9,800 |
| `chat_request` | 3 requests of one session and key, 2 ticks a minute, 1 restart, 1 failing save | about 183,000 |
| `retrieval` | 1 request, by number or without one, over 4 articles of 3 laws with 2 places, a deletion, 2 faults | about 95,000 |
| `alerting` | 4 ticks; each loop alone with its most checks, then all together | about 3,214,000 |

| `admin_console` | 3 saves, jobs or restarts, 2 jobs, 1 crash, 1 fault, 2 keys | about 191,000 |
| `admin_access` | 4 cards of 2 employees, 4 bundles, 2 challenges, 2 ticks, 1 restart, 1 fault | about 510,000 |
| `regression_gate` | 3 gates over 2 questions, 6 calls | about 528,000 |

**Bounds.** Two threads give every pairwise overlap; three records are needed for a
writer to meet a tip left by a failed append and one left by a success; two days give
one midnight and a yesterday; two faults allow a crash after a torn append or a clear
after a crash. Two documents let a build read one before and one after a change; two
generations let a build outlive a publication. Four ids let two documents be indexed
twice. Two articles tell a retrieved from a fabricated one, and `MaxRetries = 2` is the
code's value. Three requests let one write a history, a second read it while a third is
refused; a limit of one and minutes of two ticks put two requests on either side of a
boundary. Of the four articles three open alike, two of them begin alike too, and one refers
to another, so that both deduplications and the search by number meet; three laws with
two places are the least that a cut can leave a source out of. One request is enough, since a
request never touches what another one holds or what is stored: what others do to it is what
deletions and failures do, and these may come at any of its steps. Four ticks hold two windows
of suppression and four probes or health runs two confirmations; one crash or fault falls
between any two of them. Two jobs are one that runs and one that must wait; the value with a comment is one
that `load_dotenv` reads differently. Two challenges let an answer go to the wrong one;
the bundles have a certificate missing, one lapsed and two of one name. Three gates let a
ledger be torn, refused and read. `MaxFaults`, `MaxRev`, `MaxGen`, `MaxTime`, `MaxOps`,
`MaxJobs`, `MaxCrashes`, `MaxTokens`, `MaxLogins`, `MaxBundles`, `MaxBoots`, `Budgets` and
the set `Id` are bounds of the model and not of the code; the theorems hold for every
value of them. `SYMMETRY` is used in `knowledge_index` and `regression_gate`, which check
no liveness and only compare the values permuted.

**Deadlock** checking is off: when all records are written, the question is answered, the
clock is at its end or the operations are used up, the modelled part rests.

**Fairness.** `AuditChain`: weak for a thread inside `_write` (the operating system runs
it; the lock is released in all branches by `with`) and for the monitoring loop, which
survives every exception. Nobody has to log, fail or clear. `WorkflowCache`: strong for
the steps of a query, since a waiting thread competes for a lock that is only held for a
dictionary operation. `RagGraph` and `ReactAgent`: weak for the question, which is driven
step by step while every model call has a timeout. `ChatRequest`: weak for the steps of an
admitted request, which the event loop runs when they are ready; no client has to hang up
or stay. `AdminConsole`: weak for the handler under way and each job's thread; no script
has to end, so `JobSettles` allows one that runs for ever. The other modules are safety
only.

Each property of a passing run has a mutant in `PROJECT.json`: a definition with a
plausible bug (the self-heal removed, a lock per instance, parents dropped before rows,
an uncounted retry, one wrapper flag for all messages, a watermark by majority, a ledger
that is torn taken for empty) under which TLC finds that property violated.

## 4. Disagreements and oddities in the code

`delete_by_original_name` is a run of its own: *deleting by the uploaded name leaves the
chunks* (`DeleteForgets`). `report.md` goes, the answer is success, and the rows with
source `report.md` stay (`api.py:912, 923`).

Three more claims of the repository are stated as properties that no run checks, since TLC
violates them when they are named in a configuration instead: the first two in
`MCRetrieval.cfg`, the third in `MCAlerting.cfg` with `MaxTime = 5`.

* `NamedArticlePresent`: *the targeted article is always present*,
  says the docstring of `query` (`retrieval.py:249-251`), but the answer is deduplicated by
  80 characters with the pinned articles in it (`retrieval.py:390`), so that of two named
  articles that open alike one goes. `NamedArticleAnswered` is what holds.
* `SourcesRepresented`: *each corpus source remains represented* under the
  top-N fallback, says the comment (`retrieval.py:293-295`); the cut to `rerank_top_n`, 3 by
  default, leaves out the others of a larger corpus. `SourcesHeard` is what holds.
* `FlagsNoticed`: the check is written for windows that overlap
  (`alert_checkers.py:60-61`), but the loop sleeps an interval after each check and the window
  is that interval in whole minutes (`service/app.py:103, 119`), so two scans begin more than
  a window apart, and a record stamped before the second one's window and appended
  (`audit_logger.py:117, 131`) after the first has read the file is handled by neither.
  `FlagsAlerted` is what holds: a scan answers for the flags it could see.

Seen while modelling, without a run of their own. Question graph and agent:

* a source the token budget keeps out of the prompt grounds a citation (`nodes.py:428`,
  against the comment at 656); the fail-safe answer is logged with the draft's citation
  count (`nodes.py:684`, `AUDIT_LOG_SCHEMA.md:77`); `SAFETY_CONTROLS.md:198` says a retry
  returns to `retrieve`, the code returns to `generate` (`graph.py:85`);
* the agent's answer can be an earlier turn's message when it writes none
  (`react_workflow.py:404`); an empty reason of the verifier gives no correction;
  `_REACT_CACHE` is never filled, since `run_react_query` passes its own `llm`; the PRC test
  has no counterpart in `REACT_MODE`; the text of a passthrough is not filtered.

Audit log and index:

* a torn line makes `json.loads` raise in the verifier, `_periodic` swallows it: no alert,
  no state file, and yesterday's file is not checked either, although the alert's text
  lists truncation as a cause (`alert_checkers.py:356, 366`);
* binary uploads are never recognised as duplicates: bytes are hashed at `api.py:832`,
  converted text at `ingestion.py:184`;
* a file of white space counts as indexed without a row (`ingestion.py:217`), and its parent
  stays where no search leads; `reindex.py --file` on it deletes the rows the document had and
  reports success.

Chat endpoint:

* a stored answer is "what the user received" (`api.py:599`) also when the client hung up;
  a "task" row stored for a trusted peer blocks later requests of others in that session;
  the rate limiter's docstring says sliding window, the code counts by minute; 400 is
  turned into 500 (`api.py:472, 784`); `filter_output`'s docstring promises a
  `security_alert` that nothing logs; `memory.py` with nothing to keep returns everything;
  a stream whose graph cannot be built breaks off without a record (`graph.py:280`).

Monitoring:

* an interval under a minute gives `AnomalyChecker` a window of zero; the cap on
  flags seen drops arbitrary ones, not the oldest; a read error, for which half a UTF-8
  character is enough, ends the scan of a file with a line in the service's log only
  (`alert_checkers.py:139-140`);
* an alert whose append fails is suppressed for the window all the same; a level that flaps
  between warning and critical is never alerted; a suppressed health alert still moves the
  watermark; the comment that the numeric level "prevents double-emitting" is not true, as
  a hard outage makes the score itself critical; the detector of `anomaly_detector.py` is
  not wired in.

Console and gate:

* a job whose log line cannot be written stays "running" and blocks all others until the
  console restarts (`jobs.py:45`); a console crash, a broken stream or a start whose answer is
  lost (`dockerops.py:16-17`) lets two scripts run at once; a save whose copy failed and is posted again answers "saved" without effect, as
  nothing differs any more; `reset_data.sh` goes on after a failed step;
* the sign-in page says to retry after editing `ADMIN_CARD_SERIALS` (`service/app.py:167`),
  which is read at the start only; of two CA certificates of one subject the last counts,
  and the bundle is read once per process;
* two gates at once lose observations of one of them, a torn ledger ends every later gate,
  and reports of one date and tag overwrite each other.

## 5. Proofs

Each theorem has the form `Spec => []Inv` (or an action property, or a refinement) and
holds for every value of the constants that satisfies the module's `ASSUME`.

* **`AuditChain_proofs`**: `TypeCorrect`; `ChainStaysIntact` and `NoFalseAlarmEver` under
  two premises that are in the statements: one process, and no clear between the tip read
  and the append. `ChainIntact` alone is not inductive: a stale cached tip breaks it one
  write later. `ChainInv` adds what ties the locals and the cache to the file: the lock's
  holder is the one thread inside (`LockHeld`), the tip it read is the file's tip
  (`TipRead`), the digest it is about to cache is (`TipWritten`), and a cached tip is the
  file's unless someone is about to replace it or the file is empty or torn
  (`TipCached`). Without the premises the property is false: TLC finds it with
  `InTwoProcesses`, and with `ClearDuringWrite = TRUE`. `LogIsLedger` is the refinement of
  `AuditLedger` under the same premises, step by step: an append enters one fresh event at
  the end of an undamaged book, a torn one damages a book, a clear empties one, and every
  other step is a stutter. That an event is fresh needs `EventsOnce`: what is in a book was
  issued, and what a call has yet to append is in no book and in no other call's hands.
* **`WorkflowCache_proofs`**: `AnswersStayFresh`, `CacheStaysCurrent`, `DeadEntriesGone` and
  `CacheTypes` from `CacheInvariant`. The argument: what a completed mutation wrote is
  covered by the current generation (`WritesCovered`), generations cover ever more
  (`CoveredGrows`), a query's generation covers all it must see (`FloorCovered`), and a
  build that began under a generation reads at least what that covers (`BuildCovers`).
* **`KnowledgeIndex_proofs`**: `IndexTypes` under `OneAtATime`, and `ChildrenKeepParents` if
  also `DropWorks`. `IndexInv` adds that a parent belongs to one row (`ParentsUnshared`), that
  the parent of children about to be added is stored and unused (`AddingToFresh`), that
  parents about to be deleted are unused (`DeletingUnused`), and that the docstore is
  removed only when the rows are gone (`ClearingEmpty`). Both premises are needed; TLC
  violates `RowsHaveParents` with two actors and with the fault `"drop"`. The promises of
  operations that report success follow from `OutcomeInv`, which says stage by stage what an
  operation has achieved in the stores (`Staged`, `Named`, `AddingCurrent`, `Deleting`,
  `Updating`, `Rebuilding`): `DeletesForget` where deletions name the markdown file
  (`NamedByMd`; `delete_by_original_name` is the counterexample without it),
  `UpdatesReplace` with no further premise, `ReindexesRebuild` under `DropWorks`. Both say what
  becomes of a blank text too: no row.
* **`RagGraph_proofs`**: `GraphInvariant`, its parts as theorems of their own, and
  `GraphIsGate`: the graph implements `AnswerGate`. Each action maps to one abstract
  action or a stutter. The second half is about `Retrieval`: `RetrievalTypes`,
  `RetrievalNamedAnswered`, `RetrievalSourcesHeard` and `RetrievalFoundAnswered`. A strict
  order of a finite set numbers its members (`OrderRanks`), so that `Picked` keeps the chosen
  places in order (`PickedIs`), `Distinct` keeps every text once and the first of each
  (`DistinctIs`), and `RoundRobin` begins with one hit of every source (`RoundRobinIs`). In
  `RetrievalInv`, `PinnedFound` ties what is pinned to the keyword search of the question,
  through every stage up to the answer; `SourcesLead` carries this beginning (`Heads`) through everything merged
  behind it, so that a cut keeps as many sources as it has room for (`CutHeads`); `Decided`
  says why a request may be left with nothing.
* **`ReactAgent_proofs`**: `ReactTypes`, `ReactCites`, `ReactOwnWords` and `ReactIsGate`.
  `ReactInv` says which paths lead where (`Path`), whose words the text is, and that what
  is being verified has passed the citation test (`Words`). With `GraphIsGate` this shows
  that the two ways to answer keep one promise.
* **`ChatRequest_proofs`**: `ChatTypes`, `ChatContextClean`, `ChatAnsweredIsRecorded`,
  `ChatTurnsPaired`. `TurnsPaired` needs to know that the loop is held exactly while a
  turn is being saved (`LoopHeld`), what has been saved by then (`SavedSoFar`,
  `RowsSaved`), and that the question is the last row of its session until the answer
  follows (`QuestionLast`); `AnsweredIsRecorded` how many records there are at each place
  (`Recorded`). `ChatRateBound` is from `RateInv`: a minute's counter covers whom this boot
  let in during it, and a stretch of a minute touches two minutes of the clock at most.
* **`AdminConsole_proofs`**: `ConsoleTypes` and, from `ConsoleInv`, `ConsoleEnvRecoverable`,
  `ConsoleSettingsInStep`, `ConsoleLogAccounts`, `ConsoleJobsExclude`, `ConsoleDoneIsDone`.
  `SaveInv` follows a save: what is in backup, in `.env` and in hand at each step
  (`SavePath`), and which keys have their line (`Logging`). `JobInv` ties the manager's job,
  the threads and the processes together: at most one thread is at work and it is the
  job's (`OneJob`), a running process is followed by a watching thread unless it was lost
  (`Followed`), a good code means the script ended well (`Outcomes`).

  Of `RegressionGate` it has `GateTypes`, `GatePassIsConfirmed` and `GateLedgerRemembers`.
  In `GateInv`, `Reasked` says that by the time the ledger is read, all that newly failed was
  asked again; `Rewriting` that unless two gates overlapped, one rewrites at a time and both
  the copy in its hands and a readable ledger hold every recorded flip.

  Of `AdminAccess` it has `AccessTypes`, `AccessSignInsAccounted`, `AccessAnswersAreFresh`,
  `AccessChainDecided` and `AccessOnlyTrusted`. `AccessInv` ties a challenge in store to its
  issue (`Outstanding`) and a card's session to a spent challenge that no other session
  rests on (`RestsOnSpent`). Freshness supposes that the nonce is bound: with
  `SkipNonceBinding`, a setting of the code, the signed nonce is not compared. The climb is a
  recursive function of the depth, whose values are unfolded by way of a least
  counterexample. What it lets through has a chain to a root, whatever the bundle
  (`AccessOnlyTrusted`); that it refuses only what has none supposes bundles of fewer
  certificates than `MaxDepth`, since a longer chain is cut off.
* **`Alerting_proofs`**: `AlertingTypes`, `FlagsAreNotSilenced`, `OutagesAreAlerted`,
  `WatermarkTracks`. What the sink remembers went out (`SinkInv`); the streak in memory is
  at least what is on record and an alert went out once it was long enough (`ProbeInv`);
  a streak of health runs is pending with its length or has moved the watermark
  (`HealthInv`). `FlagsAreAlerted` needs that what a scan has seen was noticed, and that what
  was on file when it began still is (`ScanInv`); it assumes nothing about how far apart scans
  are or how late a record is appended. `AlertsAreConfirmed` the converse of
  `HealthInv`: the count in the state file is of runs that found the pending level
  (`Backed`), and the watermark stays at an alert until a run finds less (`Marked`), both as
  far back as no save was missed.

Every inductive invariant was first checked by TLC on the instances above, and so were
the type invariants and the properties that are only proved (`NoDeadEntry`,
`NoEarlyContradiction`, `OwnWords`, `DoneIsDone`, `HealthTracks`; `OnlyTrusted` is the
first half of `ChainDecided`).

**Only model-checked**: the liveness properties `WriteReturns`, `QueryServed`, `Answered`,
`Settles`, `Served` and `JobSettles`, which need fairness and `ENABLED`, out of the provers'
reach. Every other property of the passing runs is a theorem, some under the premises named
above. The provers cannot use the library's induction theorems, which take an operator as a
parameter; where a proof needs induction over numbers (the climb of a chain, the
concatenation of a list of hits, the numbering of an order), it takes a least
counterexample instead.

## 6. Not modelled

* Text processing: the patterns of sanitizer and filter, the words of prompts, tokenising
  and scoring. Their verdicts are inputs; unit tests reach them better.
* The history summarizer (`memory.py`): one model call with a fallback and no state.
* The LLM variant of `verify` (`nodes.py:755`): `graph.py:134` wires `llm=None`.
* Sending: SSE framing of answers, mail, the dashboard's server-sent events.
* Score arithmetic and threshold tables (`health_monitor.py`, `thresholds.py`): `Alerting`
  takes any level that the probes on record admit.
* Dashboard, reports and audit search: read-only rendering.
* The anomaly detector: nothing in the system creates one.
* Operator scripts (backup, restore, deploy, most of reset): run by hand over whole
  directories while the services are stopped.
* Evaluation other than the regression gate, version snapshots, the embedding proxy.
* A markdown file that cannot be opened for a moment is skipped by a build
  (`retrieval.py:110`); a half-written one counts as its new revision. The exists-then-read
  pair of the integrity checker is one step, since `reset_data.sh` stops monitoring before
  it deletes. A store that refuses a deletion leaves orphan parents, which are never
  searched; an upload of a changed document adds its text beside the old one's, and no
  document promises otherwise (`RAG/README.md` promises it for `reindex.py --file`,
  which is `UpdateReplaces`).

## 7. What could come next

One composition of `KnowledgeIndex` with `WorkflowCache`: an answer after a completed
upload is served from rows and a BM25 index that both have it. And the hazards of
`PROJECT.json` that no property covers yet.
