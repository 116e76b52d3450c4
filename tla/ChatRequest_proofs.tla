------------------------- MODULE ChatRequest_proofs -------------------------
(***************************************************************************)
(* Proofs about ChatRequest: for any number of requests, sessions, keys    *)
(* and restarts, no text that the sanitizer stops is handed to the graph,  *)
(* no text goes out unrecorded, the two rows of a turn stay together, and  *)
(* no minute sees more than twice the limit of a key's requests.           *)
(***************************************************************************)
EXTENDS ChatRequest, FiniteSetTheorems, TLAPS

(* --------------------------------- types --------------------------------- *)

\* Raising one entry of a table of counters keeps its type.
LEMMA Raised ==
  ASSUME NEW A, NEW B, NEW f \in [A -> [B -> Nat]], NEW a \in A, NEW b
  PROVE  [f EXCEPT ![a][b] = @ + 1] \in [A -> [B -> Nat]]
<1> DEFINE g == [f[a] EXCEPT ![b] = f[a][b] + 1]
<1>1. f[a] \in [B -> Nat]
  OBVIOUS
<1>2. g \in [B -> Nat]
  <2>1. \A x \in B : g[x] \in Nat
    BY <1>1
  <2>2. QED
    BY <1>1, <2>1
<1>3. [f EXCEPT ![a][b] = @ + 1] = [f EXCEPT ![a] = g]
  OBVIOUS
<1> HIDE DEF g
<1>4. QED
  BY <1>2, <1>3

LEMMA LoggedTyped ==
  ASSUME TypeOK, NEW r \in Request, NEW e \in Kinds, Logged(r, e)
  PROVE  log' \in [Request -> [Kinds -> Nat]]
BY Raised DEF TypeOK, Logged

LEMMA CountedTyped ==
  ASSUME TypeOK, NEW r \in Request
  PROVE  Counted(input[r].key) \in [Key -> [Minute -> Nat]]
<1>1. input[r].key \in Key
  BY DEF TypeOK, Input
<1>2. QED
  BY <1>1, Raised DEF TypeOK, Counted

LEMMA GotoTyped ==
  ASSUME TypeOK, NEW r \in Request, NEW l \in PC, Goto(r, l)
  PROVE  /\ pc' \in [Request -> PC]
         /\ pc'[r] = l
         /\ \A q \in Request \ {r} : pc'[q] = pc[q]
BY DEF TypeOK, Goto

LEMMA SaveTyped ==
  ASSUME TypeOK, NEW r \in Request, NEW row \in Row, Save(r, row)
  PROVE  /\ store' \in [Session -> Seq(Row)]
         /\ saved' \in [Request -> SUBSET {"user", "assistant"}]
         /\ faults' \in 0..MaxFaults
<1>1. CASE /\ store' = [store EXCEPT ![input[r].session] = Append(@, row)]
           /\ saved' = [saved EXCEPT ![r] = @ \cup {row.role}]
           /\ UNCHANGED faults
  <2>1. input[r].session \in Session /\ row.role \in {"user", "assistant"}
    BY DEF TypeOK, Input, Row
  <2>2. Append(store[input[r].session], row) \in Seq(Row)
    BY <2>1 DEF TypeOK
  <2>3. QED
    BY <1>1, <2>1, <2>2 DEF TypeOK
<1>2. CASE Fault /\ UNCHANGED <<store, saved>>
  BY <1>2, ChatAssumption DEF TypeOK, Fault
<1>3. QED
  BY <1>1, <1>2 DEF Save

\* The rows of a history are rows of the store.
LEMMA HistoryTyped ==
  ASSUME TypeOK, NEW r \in Request, NEW rows \in {History(input[r].session), {}}
  PROVE  Context(input[r], rows) \subseteq Content
<1>1. input[r] \in Input /\ input[r].session \in Session
  BY DEF TypeOK, Input
<1>2. store[input[r].session] \in Seq(Row)
  BY <1>1 DEF TypeOK
<1>3. rows \subseteq Row
  BY <1>2 DEF History
<1>4. UserTexts(rows) \subseteq Content
  BY <1>3 DEF UserTexts, Row
<1>5. QED
  BY <1>1, <1>4 DEF Context, Input

\* A place in which a request has a text.
HasText == {"answered", "saving", "recording", "sending"}

LEMMA TypesDoor ==
  ASSUME TypeOK, NEW r \in Request, Authenticate(r) \/ RateLimited(r)
  PROVE  TypeOK'
<1>1. CASE Authenticate(r)
  <2>1. /\ UNCHANGED <<now, boot, faults, counters, store, loop, input, ctx, reply, saved>>
        /\ UNCHANGED arrival
    BY <1>1 DEF Authenticate
  <2>2. PICK l \in {"authed", "503", "401"} : Goto(r, l)
    BY <1>1 DEF Authenticate
  <2>3. pc' \in [Request -> PC] /\ \A q \in Request : pc'[q] \in HasText => pc[q] = pc'[q]
    BY <2>2, GotoTyped DEF PC, HasText
  <2>4. log' \in [Request -> [Kinds -> Nat]]
    <3>1. "failure" \in Kinds
      BY DEF Kinds
    <3>2. Logged(r, "failure") \/ UNCHANGED log
      BY <1>1 DEF Authenticate
    <3>3. QED
      BY <3>1, <3>2, LoggedTyped DEF TypeOK
  <2>5. QED
    BY <2>1, <2>3, <2>4 DEF TypeOK, HasText
<1>2. CASE RateLimited(r)
  <2>1. /\ UNCHANGED <<now, boot, faults, store, loop, input, ctx, reply, saved, log>>
        /\ UNCHANGED arrival
    BY <1>2 DEF RateLimited
  <2>2. "429" \in PC /\ Goto(r, "429")
    BY <1>2 DEF RateLimited, PC
  <2>3. pc' \in [Request -> PC] /\ \A q \in Request : pc'[q] \in HasText => pc[q] = pc'[q]
    BY <2>2, GotoTyped DEF HasText
  <2>4. counters' \in [Key -> [Minute -> Nat]]
    BY <1>2, CountedTyped DEF RateLimited
  <2>5. QED
    BY <2>1, <2>3, <2>4 DEF TypeOK, HasText
<1>3. QED
  BY <1>1, <1>2

\* What Handle does: the 400, the block or the question to the graph.
LEMMA HandleCases ==
  ASSUME NEW r \in Request, Handle(r)
  PROVE  \E rows \in {History(input[r].session), {}} :
           /\ UNCHANGED faults \/ Fault
           /\ \/ Goto(r, "500") /\ Logged(r, "success") /\ UNCHANGED ctx
              \/ /\ Goto(r, "blocked") /\ UNCHANGED ctx
                 /\ log' = [log EXCEPT ![r]["success"] = @ + 1, ![r]["alert"] = @ + 1]
              \/ /\ Goto(r, "asked") /\ Logged(r, "success")
                 /\ ~Blocked(input[r], Scanned(input[r], rows))
                 /\ ctx' = [ctx EXCEPT ![r] = Context(input[r], rows)]
BY DEF Handle, Block

\* Two counters raised in one step are raised one after the other.
LEMMA BlockedLog ==
  ASSUME TypeOK, NEW r \in Request
  PROVE  LET one == [log EXCEPT ![r]["success"] = @ + 1]
             two == [log EXCEPT ![r]["success"] = @ + 1, ![r]["alert"] = @ + 1]
         IN  /\ two = [one EXCEPT ![r]["alert"] = @ + 1]
             /\ two \in [Request -> [Kinds -> Nat]]
<1> DEFINE one == [log EXCEPT ![r]["success"] = @ + 1]
           two == [log EXCEPT ![r]["success"] = @ + 1, ![r]["alert"] = @ + 1]
<1>1. two = [one EXCEPT ![r]["alert"] = @ + 1]
  OBVIOUS
<1>2. one \in [Request -> [Kinds -> Nat]]
  BY Raised DEF TypeOK
<1> HIDE DEF one, two
<1>3. two \in [Request -> [Kinds -> Nat]]
  BY <1>1, <1>2, Raised
<1>4. QED
  BY <1>1, <1>3 DEF one, two

LEMMA TypesHandle ==
  ASSUME TypeOK, NEW r \in Request, Handle(r)
  PROVE  TypeOK'
<1>1. UNCHANGED <<now, boot, store, loop, input, reply, saved>>
  BY DEF Handle, Block
<1>2. counters' \in [Key -> [Minute -> Nat]]
  BY CountedTyped DEF Handle, Block
<1>3. arrival' \in [Request -> [at : 0..MaxTime, boot : 0..MaxCrashes]]
  BY DEF Handle, Block, TypeOK
<1>4. PICK rows \in {History(input[r].session), {}} :
           /\ UNCHANGED faults \/ Fault
           /\ \/ Goto(r, "500") /\ Logged(r, "success") /\ UNCHANGED ctx
              \/ /\ Goto(r, "blocked") /\ UNCHANGED ctx
                 /\ log' = [log EXCEPT ![r]["success"] = @ + 1, ![r]["alert"] = @ + 1]
              \/ /\ Goto(r, "asked") /\ Logged(r, "success")
                 /\ ctx' = [ctx EXCEPT ![r] = Context(input[r], rows)]
  BY HandleCases
<1>5. faults' \in 0..MaxFaults
  BY <1>4, ChatAssumption DEF TypeOK, Fault
<1>6. {"500", "blocked", "asked"} \subseteq PC /\ "success" \in Kinds
  BY DEF PC, Kinds
<1>7. pc' \in [Request -> PC] /\ \A q \in Request : pc'[q] \in HasText => pc[q] = pc'[q]
  BY <1>4, <1>6, GotoTyped DEF HasText
<1>8. log' \in [Request -> [Kinds -> Nat]]
  BY <1>4, <1>6, LoggedTyped, BlockedLog
<1>9. ctx' \in [Request -> SUBSET Content]
  <2>1. Context(input[r], rows) \in SUBSET Content /\ ctx \in [Request -> SUBSET Content]
    BY HistoryTyped DEF TypeOK
  <2>2. ctx' = ctx \/ ctx' = [ctx EXCEPT ![r] = Context(input[r], rows)]
    BY <1>4
  <2>3. QED
    BY <2>1, <2>2
<1>10. QED
  BY <1>1, <1>2, <1>3, <1>5, <1>7, <1>8, <1>9 DEF TypeOK, HasText

LEMMA TypesGraph ==
  ASSUME TypeOK, NEW r \in Request, GraphAnswers(r) \/ GraphRaises(r)
  PROVE  TypeOK'
<1>1. /\ UNCHANGED <<now, boot, faults, counters, store, loop, input, ctx, saved, log, arrival>>
      /\ pc[r] = "asked"
      /\ \/ /\ reply' = [reply EXCEPT ![r] = "answer"] \/ reply' = [reply EXCEPT ![r] = "rejection"]
            /\ Goto(r, "answered")
         \/ UNCHANGED reply /\ (Goto(r, "500") \/ Goto(r, "broken"))
  BY DEF GraphAnswers, GraphRaises, Reply
<1>2. /\ reply' \in [Request -> Reply]
      /\ \A q \in Request \ {r} : reply'[q] = reply[q]
      /\ reply'[r] # "none" \/ Goto(r, "500") \/ Goto(r, "broken")
  BY <1>1 DEF TypeOK, Reply
<1>3. /\ pc' \in [Request -> PC]
      /\ \A q \in Request \ {r} : pc'[q] = pc[q]
      /\ Goto(r, "500") => pc'[r] = "500"
      /\ Goto(r, "broken") => pc'[r] = "broken"
  BY <1>1, GotoTyped DEF PC
<1>4. \A q \in Request : pc'[q] \in {"answered", "saving", "recording", "sending"}
                           => reply'[q] # "none"
  BY <1>2, <1>3 DEF TypeOK
<1>5. QED
  BY <1>1, <1>2, <1>3, <1>4 DEF TypeOK

LEMMA RowsTyped ==
  ASSUME TypeOK, NEW r \in Request
  PROVE  UserRow(r) \in Row /\ AnswerRow(r) \in Row
BY DEF TypeOK, UserRow, AnswerRow, Row, Input, Content

LEMMA TypesSave ==
  ASSUME TypeOK, NEW r \in Request, SaveUser(r) \/ SaveAnswer(r)
  PROVE  TypeOK'
<1>1. UNCHANGED <<now, boot, counters, input, ctx, reply, log, arrival>>
  BY DEF SaveUser, SaveAnswer
<1>2. loop' \in Request \cup {NoRequest}
  BY DEF TypeOK, SaveUser, SaveAnswer
<1>3. /\ store' \in [Session -> Seq(Row)]
      /\ saved' \in [Request -> SUBSET {"user", "assistant"}]
      /\ faults' \in 0..MaxFaults
  BY RowsTyped, SaveTyped DEF SaveUser, SaveAnswer
<1>4. {"saving", "recording"} \subseteq PC
  BY DEF PC
<1>5. pc[r] \in HasText /\ (Goto(r, "saving") \/ Goto(r, "recording"))
  BY DEF SaveUser, SaveAnswer, HasText
<1>6. /\ pc' \in [Request -> PC]
      /\ \A q \in Request : pc'[q] \in HasText => pc[q] \in HasText
  BY <1>4, <1>5, GotoTyped DEF HasText
<1>7. QED
  BY <1>1, <1>2, <1>3, <1>6 DEF TypeOK, HasText

LEMMA TypesRecord ==
  ASSUME TypeOK, NEW r \in Request, Record(r)
  PROVE  TypeOK'
<1>1. /\ UNCHANGED <<now, boot, faults, counters, store, input, ctx, reply, saved, arrival>>
      /\ loop' = NoRequest
  BY DEF Record
<1>2. {"query", "rejection"} \subseteq Kinds /\ {"sending", "200"} \subseteq PC
  BY DEF Kinds, PC
<1>3. log' \in [Request -> [Kinds -> Nat]]
  BY <1>2, LoggedTyped DEF Record, AnswerKind
<1>4. pc[r] \in HasText /\ (Goto(r, "sending") \/ Goto(r, "200"))
  BY DEF Record, HasText
<1>5. /\ pc' \in [Request -> PC]
      /\ \A q \in Request : pc'[q] \in HasText => pc[q] \in HasText
  BY <1>2, <1>4, GotoTyped DEF HasText
<1>6. QED
  BY <1>1, <1>3, <1>5 DEF TypeOK, HasText

LEMMA TypesRest ==
  ASSUME TypeOK, (\E r \in Request : Sent(r) \/ HangUp(r)) \/ Tick \/ Crash
  PROVE  TypeOK'
<1>1. CASE \E r \in Request : Sent(r)
  BY <1>1 DEF TypeOK, Sent, Goto, PC
<1>2. CASE \E r \in Request : HangUp(r)
  BY <1>2 DEF TypeOK, HangUp, Goto, PC
<1>3. CASE Tick
  BY <1>3, ChatAssumption DEF TypeOK, Tick
<1>4. CASE Crash
  BY <1>4, ChatAssumption DEF TypeOK, Crash, PC, Ended, Minute
<1>5. QED
  BY <1>1, <1>2, <1>3, <1>4

LEMMA TypesKept == TypeOK /\ [Next]_vars => TypeOK'
<1> SUFFICES ASSUME TypeOK, [Next]_vars PROVE TypeOK'
  OBVIOUS
<1>1. ASSUME NEW r \in Request, Authenticate(r) \/ Step(r) \/ HangUp(r)
      PROVE  TypeOK'
  BY <1>1, TypesDoor, TypesHandle, TypesGraph, TypesSave, TypesRecord, TypesRest DEF Step
<1>2. CASE Tick \/ Crash
  BY <1>2, TypesRest
<1>3. CASE UNCHANGED vars
  BY <1>3 DEF vars, TypeOK
<1>4. QED
  BY <1>1, <1>2, <1>3 DEF Next

LEMMA TypesInit == Init => TypeOK
<1> SUFFICES ASSUME Init PROVE TypeOK
  OBVIOUS
<1>1. input \in [Request -> Input]
  <2>1. input \in [Request -> UNION {Inputs[r] : r \in Request}]
    BY DEF Init
  <2>2. \A r \in Request : input[r] \in Inputs[r] /\ Inputs[r] \subseteq Input
    BY ChatAssumption DEF Init
  <2>3. QED
    BY <2>1, <2>2
<1>2. 0 \in 0..MaxTime /\ 0 \in 0..MaxCrashes /\ 0 \in 0..MaxFaults
  BY ChatAssumption
<1>3. store \in [Session -> Seq(Row)]
  BY DEF Init
<1>4. QED
  BY <1>1, <1>2, <1>3 DEF Init, TypeOK, PC, Reply

(* ------------------------------ what is asked ---------------------------- *)

LEMMA CleanHandle ==
  ASSUME TypeOK, Clean, NEW r \in Request, Handle(r)
  PROVE  Clean'
<1>1. PICK rows \in {History(input[r].session), {}} :
        \/ UNCHANGED ctx
        \/ /\ ~Blocked(input[r], Scanned(input[r], rows))
           /\ ctx' = [ctx EXCEPT ![r] = Context(input[r], rows)]
  BY HandleCases
<1>2. UNCHANGED input
  BY DEF Handle, Block
<1>3. Context(input[r], rows) \subseteq Scanned(input[r], rows)
  BY DEF Context, Scanned
<1>4. CASE UNCHANGED ctx
  BY <1>2, <1>4 DEF Clean
<1>5. CASE /\ ~Blocked(input[r], Scanned(input[r], rows))
           /\ ctx' = [ctx EXCEPT ![r] = Context(input[r], rows)]
  <2>1. \A t \in Context(input[r], rows) : ~Stopped(t, Wrapper(t, input[r].trusted))
    BY <1>3, <1>5 DEF Blocked
  <2>2. \A q \in Request : ctx'[q] = IF q = r THEN Context(input[r], rows) ELSE ctx[q]
    BY <1>5 DEF TypeOK
  <2>3. QED
    BY <1>2, <2>1, <2>2 DEF Clean
<1>6. QED
  BY <1>1, <1>4, <1>5

LEMMA CleanKept == TypeOK /\ Clean /\ [Next]_vars => Clean'
<1> SUFFICES ASSUME TypeOK, Clean, [Next]_vars PROVE Clean'
  OBVIOUS
<1>1. CASE \E r \in Request : Handle(r)
  BY <1>1, CleanHandle
<1>2. CASE UNCHANGED <<ctx, input>>
  BY <1>2 DEF Clean
<1>3. ASSUME NEW r \in Request, Authenticate(r) \/ Step(r) \/ HangUp(r)
      PROVE  Handle(r) \/ UNCHANGED <<ctx, input>>
  BY <1>3 DEF Step, Authenticate, HangUp, RateLimited, GraphAnswers, GraphRaises, SaveUser,
              SaveAnswer, Record, Sent
<1>4. CASE Tick \/ Crash \/ UNCHANGED vars
  BY <1>2, <1>4 DEF Tick, Crash, vars
<1>5. QED
  BY <1>1, <1>2, <1>3, <1>4 DEF Next

(* ---------------------------- what is recorded --------------------------- *)

LEMMA LogEffect ==
  ASSUME TypeOK, NEW r \in Request, NEW e \in Kinds, Logged(r, e)
  PROVE  /\ \A q \in Request \ {r} : AnswerRecords(q)' = AnswerRecords(q)
         /\ e \in {"success", "failure"} => AnswerRecords(r)' = AnswerRecords(r)
         /\ e \in {"query", "rejection"} => AnswerRecords(r)' = AnswerRecords(r) + 1
<1>1. log' = [log EXCEPT ![r] = [log[r] EXCEPT ![e] = log[r][e] + 1]]
  BY DEF Logged
<1>2. log \in [Request -> [Kinds -> Nat]]
  BY DEF TypeOK
<1>3. \A q \in Request \ {r} : log'[q] = log[q]
  BY <1>1, <1>2
<1>4. log'[r] = [log[r] EXCEPT ![e] = log[r][e] + 1] /\ log[r] \in [Kinds -> Nat]
  BY <1>1, <1>2
<1>5. \A k \in Kinds : log'[r][k] = IF k = e THEN log[r][k] + 1 ELSE log[r][k]
  BY <1>4
<1>6. {"query", "rejection", "alert"} \subseteq Kinds
  BY DEF Kinds
<1>7. \A k \in {"query", "rejection", "alert"} : log[r][k] \in Nat
  BY <1>4, <1>6
<1>8. QED
  BY <1>3, <1>5, <1>6, <1>7 DEF AnswerRecords

LEMMA BlockedEffect ==
  ASSUME TypeOK, NEW r \in Request,
         log' = [log EXCEPT ![r]["success"] = @ + 1, ![r]["alert"] = @ + 1]
  PROVE  /\ \A q \in Request \ {r} : AnswerRecords(q)' = AnswerRecords(q)
         /\ AnswerRecords(r)' = AnswerRecords(r) + 1
<1>1. log \in [Request -> [Kinds -> Nat]]
  BY DEF TypeOK
<1>2. \A q \in Request \ {r} : log'[q] = log[q]
  BY <1>1
<1>3. /\ log'[r]["query"] = log[r]["query"] /\ log'[r]["rejection"] = log[r]["rejection"]
      /\ log'[r]["alert"] = log[r]["alert"] + 1
  BY <1>1 DEF Kinds
<1>4. \A k \in {"query", "rejection", "alert"} : log[r][k] \in Nat
  BY <1>1 DEF Kinds
<1>5. \A q \in Request \ {r} : AnswerRecords(q)' = AnswerRecords(q)
  BY <1>2 DEF AnswerRecords
<1>6. AnswerRecords(r)' = AnswerRecords(r) + 1
  BY <1>3, <1>4 DEF AnswerRecords
<1>7. QED
  BY <1>5, <1>6

\* One request moves from a place where nothing was recorded to another, or to one where
\* its text was; the others stay.
NoneYet == {"new", "authed", "asked", "answered", "saving", "recording", "401", "503", "429",
            "broken"}
OneDone == {"sending", "200", "cut", "blocked"}

LEMMA RecordedMove ==
  ASSUME Recorded, NEW r \in Request,
         \A q \in Request \ {r} : pc'[q] = pc[q] /\ AnswerRecords(q)' = AnswerRecords(q),
         pc'[r] \in NoneYet => AnswerRecords(r)' = 0,
         pc'[r] \in OneDone => AnswerRecords(r)' = 1
  PROVE  Recorded'
BY DEF Recorded, NoneYet, OneDone

LEMMA RecordedStill ==
  ASSUME Recorded, UNCHANGED log,
         \A q \in Request : /\ pc'[q] \in NoneYet => pc[q] \in NoneYet
                            /\ pc'[q] \in OneDone => pc[q] \in OneDone
  PROVE  Recorded'
BY DEF Recorded, NoneYet, OneDone, AnswerRecords

LEMMA RecordedAuthenticate ==
  ASSUME TypeOK, Recorded, NEW r \in Request, Authenticate(r)
  PROVE  Recorded'
<1>1. PICK l \in {"authed", "503", "401"} : Goto(r, l)
  BY DEF Authenticate
<1>2. pc'[r] = l /\ (\A q \in Request \ {r} : pc'[q] = pc[q]) /\ pc[r] = "new"
  BY <1>1, GotoTyped DEF PC, Authenticate
<1>3. UNCHANGED log \/ Logged(r, "failure")
  BY DEF Authenticate
<1>4. CASE UNCHANGED log
  BY <1>2, <1>4, RecordedStill DEF NoneYet, OneDone
<1>5. CASE Logged(r, "failure")
  <2>1. /\ \A q \in Request \ {r} : AnswerRecords(q)' = AnswerRecords(q)
        /\ AnswerRecords(r)' = AnswerRecords(r)
    BY <1>5, LogEffect DEF Kinds
  <2>2. AnswerRecords(r) = 0
    BY <1>2 DEF Recorded
  <2>3. QED
    BY <1>1, <1>2, <2>1, <2>2, RecordedMove DEF OneDone
<1>6. QED
  BY <1>3, <1>4, <1>5

LEMMA RecordedHandle ==
  ASSUME TypeOK, Recorded, NEW r \in Request, Handle(r)
  PROVE  Recorded'
<1>1. AnswerRecords(r) = 0
  BY DEF Handle, Block, Recorded
<1>2. \/ Goto(r, "500") /\ Logged(r, "success")
      \/ /\ Goto(r, "blocked")
         /\ log' = [log EXCEPT ![r]["success"] = @ + 1, ![r]["alert"] = @ + 1]
      \/ Goto(r, "asked") /\ Logged(r, "success")
  BY HandleCases
<1>3. "success" \in Kinds /\ {"500", "blocked", "asked"} \subseteq PC
  BY DEF Kinds, PC
<1>4. CASE (Goto(r, "500") \/ Goto(r, "asked")) /\ Logged(r, "success")
  <2>1. pc'[r] \in {"500", "asked"} /\ \A q \in Request \ {r} : pc'[q] = pc[q]
    BY <1>3, <1>4, GotoTyped
  <2>2. /\ \A q \in Request \ {r} : AnswerRecords(q)' = AnswerRecords(q)
        /\ AnswerRecords(r)' = AnswerRecords(r)
    BY <1>3, <1>4, LogEffect
  <2>3. QED
    BY <1>1, <2>1, <2>2, RecordedMove DEF OneDone
<1>5. CASE /\ Goto(r, "blocked")
           /\ log' = [log EXCEPT ![r]["success"] = @ + 1, ![r]["alert"] = @ + 1]
  <2>1. pc'[r] = "blocked" /\ \A q \in Request \ {r} : pc'[q] = pc[q]
    BY <1>3, <1>5, GotoTyped
  <2>2. /\ \A q \in Request \ {r} : AnswerRecords(q)' = AnswerRecords(q)
        /\ AnswerRecords(r)' = AnswerRecords(r) + 1
    BY <1>5, BlockedEffect
  <2>3. QED
    BY <1>1, <2>1, <2>2, RecordedMove DEF NoneYet
<1>6. QED
  BY <1>2, <1>4, <1>5

LEMMA RecordedRecord ==
  ASSUME TypeOK, Recorded, NEW r \in Request, Record(r)
  PROVE  Recorded'
<1>1. AnswerRecords(r) = 0
  BY DEF Record, Recorded
<1>2. PICK e \in {"query", "rejection"}, l \in {"sending", "200"} : Logged(r, e) /\ Goto(r, l)
  BY DEF Record, AnswerKind
<1>3. e \in Kinds /\ l \in PC
  BY DEF Kinds, PC
<1>4. pc'[r] = l /\ \A q \in Request \ {r} : pc'[q] = pc[q]
  BY <1>2, <1>3, GotoTyped
<1>5. /\ \A q \in Request \ {r} : AnswerRecords(q)' = AnswerRecords(q)
      /\ AnswerRecords(r)' = AnswerRecords(r) + 1
  BY <1>2, <1>3, LogEffect
<1>6. QED
  BY <1>1, <1>4, <1>5, RecordedMove DEF NoneYet

LEMMA RecordedKept == TypeOK /\ Recorded /\ [Next]_vars => Recorded'
<1> SUFFICES ASSUME TypeOK, Recorded, [Next]_vars PROVE Recorded'
  OBVIOUS
<1>1. ASSUME NEW r \in Request,
             \/ RateLimited(r) \/ GraphAnswers(r) \/ GraphRaises(r) \/ SaveUser(r)
             \/ SaveAnswer(r) \/ Sent(r) \/ HangUp(r)
      PROVE  Recorded'
  <2>1. UNCHANGED log
    BY <1>1 DEF RateLimited, GraphAnswers, GraphRaises, SaveUser, SaveAnswer, Sent, HangUp
  <2>2. PICK l \in PC : /\ Goto(r, l)
                        /\ l \in NoneYet => pc[r] \in NoneYet
                        /\ l \in OneDone => pc[r] \in OneDone
    BY <1>1 DEF RateLimited, GraphAnswers, GraphRaises, SaveUser, SaveAnswer, Sent, HangUp,
                PC, NoneYet, OneDone
  <2>3. QED
    BY <2>1, <2>2, GotoTyped, RecordedStill
<1>2. ASSUME NEW r \in Request, Authenticate(r) \/ Step(r) \/ HangUp(r)
      PROVE  Recorded'
  BY <1>1, <1>2, RecordedAuthenticate, RecordedHandle, RecordedRecord DEF Step
<1>3. CASE Tick \/ UNCHANGED vars
  BY <1>3, RecordedStill DEF Tick, vars
<1>4. CASE Crash
  <2>1. UNCHANGED log
    BY <1>4 DEF Crash
  <2>2. \A q \in Request : pc'[q] = pc[q] \/ pc'[q] = "lost"
    BY <1>4 DEF Crash
  <2>3. QED
    BY <2>1, <2>2, RecordedStill DEF NoneYet, OneDone
<1>5. QED
  BY <1>2, <1>3, <1>4 DEF Next

(* ------------------------------ what is saved ---------------------------- *)

Before == {"new", "authed", "asked", "answered"}
Saving == {"saving", "recording"}

\* A step that saves nothing, and lets nobody begin to.
LEMMA TurnsStill ==
  ASSUME TypeOK, Turns, UNCHANGED <<store, saved, input>>, LoopHeld',
         \A q \in Request : /\ pc'[q] \in Before => pc[q] \in Before
                            /\ pc'[q] = "saving" => pc[q] = "saving"
  PROVE  Turns'
<1>1. SavedSoFar' /\ RowsSaved' /\ TurnsPaired'
  BY DEF Turns, SavedSoFar, RowsSaved, TurnsPaired, Before
<1>2. QuestionLast'
  BY DEF Turns, QuestionLast
<1>3. QED
  BY <1>1, <1>2 DEF Turns

LEMMA TurnsGoto ==
  ASSUME TypeOK, Turns, UNCHANGED <<store, saved, input, loop>>,
         NEW r \in Request, NEW l \in PC \ Saving, Goto(r, l), pc[r] \notin Saving,
         l \in Before => pc[r] \in Before
  PROVE  Turns'
<1>1. pc'[r] = l /\ \A q \in Request \ {r} : pc'[q] = pc[q]
  BY GotoTyped
<1>2. LoopHeld'
  BY <1>1 DEF Turns, LoopHeld, Saving
<1>3. QED
  BY <1>1, <1>2, TurnsStill DEF Saving

LEMMA TurnsRecord ==
  ASSUME TypeOK, Turns, NEW r \in Request, Record(r)
  PROVE  Turns'
<1>1. loop = r /\ loop' = NoRequest /\ UNCHANGED <<store, saved, input>>
  BY DEF Record, Turns, LoopHeld
<1>2. Goto(r, "sending") \/ Goto(r, "200")
  BY DEF Record
<1>3. pc'[r] \in {"sending", "200"} /\ \A q \in Request \ {r} : pc'[q] = pc[q]
  BY <1>2, GotoTyped DEF PC
<1>4. LoopHeld'
  BY <1>1, <1>3, ChatAssumption DEF Turns, LoopHeld
<1>5. QED
  BY <1>1, <1>3, <1>4, TurnsStill DEF Before

LEMMA TurnsCrash ==
  ASSUME TypeOK, Turns, Crash
  PROVE  Turns'
<1>1. /\ loop' = NoRequest /\ UNCHANGED <<store, saved, input>>
      /\ pc' = [r \in Request |-> IF pc[r] \in {"new"} \cup Ended THEN pc[r] ELSE "lost"]
  BY DEF Crash
<1>2. \A q \in Request : pc'[q] \notin Saving /\ (pc'[q] = pc[q] \/ pc'[q] = "lost")
  BY <1>1 DEF Saving, Ended
<1>3. LoopHeld'
  BY <1>1, <1>2, ChatAssumption DEF LoopHeld, Saving
<1>4. QED
  BY <1>1, <1>2, <1>3, TurnsStill DEF Before, Saving

\* The store after a row was appended to a session.
LEMMA Appended ==
  ASSUME TypeOK, NEW s0 \in Session, NEW row \in Row,
         store' = [store EXCEPT ![s0] = Append(@, row)]
  PROVE  /\ \A s \in Session \ {s0} : store'[s] = store[s]
         /\ Len(store'[s0]) = Len(store[s0]) + 1
         /\ \A n \in 1..Len(store[s0]) : store'[s0][n] = store[s0][n]
         /\ store'[s0][Len(store[s0]) + 1] = row
         /\ Len(store[s0]) \in Nat
<1>1. store[s0] \in Seq(Row) /\ store'[s0] = Append(store[s0], row)
  BY DEF TypeOK
<1>2. \A s \in Session \ {s0} : store'[s] = store[s]
  BY DEF TypeOK
<1>3. QED
  BY <1>1, <1>2

LEMMA RowType ==
  ASSUME TypeOK, NEW s \in Session, NEW n \in 1..Len(store[s])
  PROVE  store[s][n] \in Row /\ store[s][n].by \in Request
         /\ store[s][n].role \in {"user", "assistant"}
<1>1. store[s] \in Seq(Row)
  BY DEF TypeOK
<1>2. store[s][n] \in Row
  BY <1>1
<1>3. QED
  BY <1>2 DEF Row

\* Every session keeps its rows, and gets at most one more.
LEMMA StoreGrows ==
  ASSUME TypeOK, NEW s0 \in Session,
         \A s \in Session \ {s0} : store'[s] = store[s],
         Len(store'[s0]) = Len(store[s0]) + 1,
         \A n \in 1..Len(store[s0]) : store'[s0][n] = store[s0][n],
         NEW s \in Session
  PROVE  /\ Len(store[s]) \in Nat /\ Len(store'[s]) \in Nat
         /\ Len(store[s]) <= Len(store'[s])
         /\ \A m \in 1..Len(store[s]) : store'[s][m] = store[s][m]
<1>1. store[s] \in Seq(Row)
  BY DEF TypeOK
<1>2. Len(store[s]) \in Nat
  BY <1>1
<1>3. CASE s = s0
  BY <1>2, <1>3
<1>4. CASE s # s0
  BY <1>2, <1>4
<1>5. QED
  BY <1>3, <1>4

\* One row of TurnsPaired.
Paired(rows, kept, n) ==
  LET row == rows[n] IN
  /\ row.role = "assistant" /\ "user" \in kept[row.by] =>
       n > 1 /\ rows[n - 1].role = "user" /\ rows[n - 1].by = row.by
  /\ row.role = "user" /\ "assistant" \in kept[row.by] =>
       n < Len(rows) /\ rows[n + 1].role = "assistant" /\ rows[n + 1].by = row.by

\* A row keeps its neighbour when rows are only appended and its request saves nothing.
LEMMA PairedOld ==
  ASSUME NEW rows, NEW rows2, NEW kept, NEW kept2, NEW n \in 1..Len(rows),
         Len(rows) \in Nat, Len(rows2) \in Nat, Len(rows) <= Len(rows2),
         \A m \in 1..Len(rows) : rows2[m] = rows[m],
         kept2[rows[n].by] = kept[rows[n].by],
         Paired(rows, kept, n)
  PROVE  Paired(rows2, kept2, n)
<1>1. rows2[n] = rows[n] /\ n \in Nat
  OBVIOUS
<1>2. ASSUME rows[n].role = "assistant", "user" \in kept[rows[n].by]
      PROVE  n > 1 /\ rows2[n - 1].role = "user" /\ rows2[n - 1].by = rows[n].by
  <2>1. n > 1 /\ rows[n - 1].role = "user" /\ rows[n - 1].by = rows[n].by
    BY <1>2 DEF Paired
  <2>2. n - 1 \in 1..Len(rows)
    BY <1>1, <2>1
  <2>3. QED
    BY <2>1, <2>2
<1>3. ASSUME rows[n].role = "user", "assistant" \in kept[rows[n].by]
      PROVE  /\ n < Len(rows2) /\ rows2[n + 1].role = "assistant"
             /\ rows2[n + 1].by = rows[n].by
  <2>1. n < Len(rows) /\ rows[n + 1].role = "assistant" /\ rows[n + 1].by = rows[n].by
    BY <1>3 DEF Paired
  <2>2. n + 1 \in 1..Len(rows) /\ n < Len(rows2)
    BY <1>1, <2>1
  <2>3. QED
    BY <2>1, <2>2
<1>4. QED
  BY <1>1, <1>2, <1>3 DEF Paired

LEMMA TurnsSaveUser ==
  ASSUME TypeOK, Turns, NEW r \in Request, SaveUser(r)
  PROVE  Turns'
<1> DEFINE s0 == input[r].session
           L == Len(store[s0])
<1>1. /\ pc[r] = "answered" /\ loop = NoRequest /\ loop' = r /\ UNCHANGED input
      /\ Goto(r, "saving") /\ Save(r, UserRow(r))
  BY DEF SaveUser
<1>2. pc'[r] = "saving" /\ \A q \in Request \ {r} : pc'[q] = pc[q]
  BY <1>1, GotoTyped DEF PC
<1>3. saved[r] = {}
  BY <1>1 DEF Turns, SavedSoFar
<1>4. \A q \in Request \ {r} : pc[q] \notin Saving
  BY <1>1, ChatAssumption DEF Turns, LoopHeld, Saving
<1>5. LoopHeld'
  BY <1>1, <1>2, <1>4 DEF LoopHeld, Saving
<1>6. s0 \in Session /\ input'[r].session = s0
  BY <1>1 DEF TypeOK, Input
<1>7. \A s \in Session : \A n \in 1..Len(store[s]) : store[s][n].by # r
  <2>1. SUFFICES ASSUME NEW s \in Session, NEW n \in 1..Len(store[s]), store[s][n].by = r
                 PROVE  FALSE
    OBVIOUS
  <2>2. store[s][n].role \in saved[r]
    BY <2>1 DEF Turns, RowsSaved
  <2>3. QED
    BY <1>3, <2>2
<1>8. CASE Fault /\ UNCHANGED <<store, saved>>
  <2>1. SavedSoFar'
    BY <1>2, <1>3, <1>8 DEF Turns, SavedSoFar
  <2>2. RowsSaved' /\ TurnsPaired'
    BY <1>8 DEF Turns, RowsSaved, TurnsPaired
  <2>3. \A q \in Request : pc'[q] = "saving" => q = r
    BY <1>2, <1>4 DEF Saving
  <2>4. QuestionLast'
    BY <1>3, <1>7, <1>8, <2>3 DEF QuestionLast
  <2>5. QED
    BY <1>5, <2>1, <2>2, <2>4 DEF Turns
<1>9. CASE /\ store' = [store EXCEPT ![s0] = Append(@, UserRow(r))]
           /\ saved' = [saved EXCEPT ![r] = @ \cup {UserRow(r).role}]
  <2>1. UserRow(r) \in Row /\ UserRow(r).role = "user" /\ UserRow(r).by = r
    BY RowsTyped DEF UserRow
  <2>2. /\ \A s \in Session \ {s0} : store'[s] = store[s]
        /\ Len(store'[s0]) = L + 1
        /\ \A n \in 1..L : store'[s0][n] = store[s0][n]
        /\ store'[s0][L + 1] = UserRow(r)
        /\ L \in Nat
    BY <1>6, <1>9, <2>1, Appended
  <2>3. saved'[r] = {"user"} /\ \A q \in Request \ {r} : saved'[q] = saved[q]
    BY <1>3, <1>9, <2>1 DEF TypeOK
  <2>4. SavedSoFar'
    BY <1>2, <2>3 DEF Turns, SavedSoFar
  \* Every row is an old one of somebody else, or the new one.
  <2>5. ASSUME NEW s \in Session, NEW n \in 1..Len(store'[s])
        PROVE  \/ /\ n \in 1..Len(store[s]) /\ store'[s][n] = store[s][n]
                  /\ store[s][n].by \in Request \ {r}
               \/ s = s0 /\ n = L + 1 /\ store'[s][n] = UserRow(r)
    <3>1. CASE n \in 1..Len(store[s])
      BY <1>7, <2>2, <3>1, RowType
    <3>2. CASE n \notin 1..Len(store[s])
      BY <2>2, <3>2
    <3>3. QED
      BY <3>1, <3>2
  <2>6. RowsSaved'
    <3>1. SUFFICES ASSUME NEW s \in Session, NEW n \in 1..Len(store'[s])
                   PROVE  store'[s][n].role \in saved'[store'[s][n].by]
      BY DEF RowsSaved
    <3>2. CASE store'[s][n] = UserRow(r)
      BY <2>1, <2>3, <3>2
    <3>3. CASE /\ n \in 1..Len(store[s]) /\ store'[s][n] = store[s][n]
               /\ store[s][n].by \in Request \ {r}
      BY <2>3, <3>3 DEF Turns, RowsSaved
    <3>4. QED
      BY <2>5, <3>2, <3>3
  <2>7. QuestionLast'
    <3>1. \A q \in Request : pc'[q] = "saving" => q = r
      BY <1>2, <1>4 DEF Saving
    <3>2. LET rows == store'[s0] IN
            Len(rows) > 0 /\ rows[Len(rows)].role = "user" /\ rows[Len(rows)].by = r
      BY <2>1, <2>2
    <3>3. ASSUME NEW s \in Session, NEW n \in 1..Len(store'[s]), store'[s][n].by = r
          PROVE  s = s0 /\ n = Len(store'[s])
      BY <2>2, <2>5, <3>3
    <3>4. QED
      BY <1>6, <3>1, <3>2, <3>3 DEF QuestionLast
  <2>8. TurnsPaired'
    <3>1. SUFFICES ASSUME NEW s \in Session, NEW n \in 1..Len(store'[s])
                   PROVE  Paired(store'[s], saved', n)
      BY DEF TurnsPaired, Paired
    <3>2. CASE store'[s][n] = UserRow(r)
      BY <2>1, <2>3, <3>2 DEF Paired
    <3>3. CASE /\ n \in 1..Len(store[s]) /\ store'[s][n] = store[s][n]
               /\ store[s][n].by \in Request \ {r}
      <4>1. saved'[store[s][n].by] = saved[store[s][n].by]
        BY <2>3, <3>3
      <4>2. /\ Len(store[s]) \in Nat /\ Len(store'[s]) \in Nat
            /\ Len(store[s]) <= Len(store'[s])
            /\ \A m \in 1..Len(store[s]) : store'[s][m] = store[s][m]
        BY <1>6, <2>2, StoreGrows
      <4>3. Paired(store[s], saved, n)
        BY <3>3 DEF Turns, TurnsPaired, Paired
      <4>4. QED
        BY <3>3, <4>1, <4>2, <4>3, PairedOld
    <3>4. QED
      BY <2>5, <3>2, <3>3
  <2>9. QED
    BY <1>5, <2>4, <2>6, <2>7, <2>8 DEF Turns
<1>10. QED
  BY <1>1, <1>8, <1>9 DEF Save

LEMMA TurnsSaveAnswer ==
  ASSUME TypeOK, Turns, NEW r \in Request, SaveAnswer(r)
  PROVE  Turns'
<1> DEFINE s0 == input[r].session
           L == Len(store[s0])
<1>1. /\ pc[r] = "saving" /\ UNCHANGED <<input, loop>>
      /\ Goto(r, "recording") /\ Save(r, AnswerRow(r))
  BY DEF SaveAnswer
<1>2. pc'[r] = "recording" /\ \A q \in Request \ {r} : pc'[q] = pc[q]
  BY <1>1, GotoTyped DEF PC
<1>3. /\ "assistant" \notin saved[r]
      /\ "user" \in saved[r] =>
           L > 0 /\ store[s0][L].role = "user" /\ store[s0][L].by = r
      /\ \A s \in Session : \A n \in 1..Len(store[s]) :
           store[s][n].by = r => s = s0 /\ n = L
  BY <1>1 DEF Turns, SavedSoFar, QuestionLast
<1>4. \A q \in Request : pc'[q] # "saving"
  BY <1>1, <1>2 DEF Turns, LoopHeld
<1>5. LoopHeld'
  BY <1>1, <1>2 DEF Turns, LoopHeld
<1>6. s0 \in Session
  BY DEF TypeOK, Input
<1>7. QuestionLast'
  BY <1>4 DEF QuestionLast
<1>8. CASE Fault /\ UNCHANGED <<store, saved>>
  <2>1. SavedSoFar'
    BY <1>2, <1>4, <1>8 DEF Turns, SavedSoFar
  <2>2. RowsSaved' /\ TurnsPaired'
    BY <1>8 DEF Turns, RowsSaved, TurnsPaired
  <2>3. QED
    BY <1>5, <1>7, <2>1, <2>2 DEF Turns
<1>9. CASE /\ store' = [store EXCEPT ![s0] = Append(@, AnswerRow(r))]
           /\ saved' = [saved EXCEPT ![r] = @ \cup {AnswerRow(r).role}]
  <2>1. /\ AnswerRow(r) \in Row
        /\ AnswerRow(r).role = "assistant" /\ AnswerRow(r).by = r
    BY RowsTyped DEF AnswerRow
  <2>2. /\ \A s \in Session \ {s0} : store'[s] = store[s]
        /\ Len(store'[s0]) = L + 1
        /\ \A n \in 1..L : store'[s0][n] = store[s0][n]
        /\ store'[s0][L + 1] = AnswerRow(r)
        /\ L \in Nat
    BY <1>6, <1>9, <2>1, Appended
  <2>3. /\ saved'[r] = saved[r] \cup {"assistant"}
        /\ \A q \in Request \ {r} : saved'[q] = saved[q]
    BY <1>9, <2>1 DEF TypeOK
  <2>4. SavedSoFar'
    BY <1>2, <1>4, <2>3 DEF Turns, SavedSoFar
  \* Every row is an old one or the new one, and the only old one of r is its question.
  <2>5. ASSUME NEW s \in Session, NEW n \in 1..Len(store'[s])
        PROVE  \/ /\ n \in 1..Len(store[s]) /\ store'[s][n] = store[s][n]
                  /\ store[s][n].by \in Request
               \/ s = s0 /\ n = L + 1 /\ store'[s][n] = AnswerRow(r)
    <3>1. CASE n \in 1..Len(store[s])
      BY <2>2, <3>1, RowType
    <3>2. CASE n \notin 1..Len(store[s])
      BY <2>2, <3>2
    <3>3. QED
      BY <3>1, <3>2
  <2>6. RowsSaved'
    <3>1. SUFFICES ASSUME NEW s \in Session, NEW n \in 1..Len(store'[s])
                   PROVE  store'[s][n].role \in saved'[store'[s][n].by]
      BY DEF RowsSaved
    <3>2. CASE store'[s][n] = AnswerRow(r)
      BY <2>1, <2>3, <3>2
    <3>3. CASE /\ n \in 1..Len(store[s]) /\ store'[s][n] = store[s][n]
               /\ store[s][n].by \in Request
      <4>1. store[s][n].role \in saved[store[s][n].by]
        BY <3>3 DEF Turns, RowsSaved
      <4>2. saved[store[s][n].by] \subseteq saved'[store[s][n].by]
        BY <2>3, <3>3
      <4>3. QED
        BY <3>3, <4>1, <4>2
    <3>4. QED
      BY <2>5, <3>2, <3>3
  <2>7. TurnsPaired'
    <3>1. SUFFICES ASSUME NEW s \in Session, NEW n \in 1..Len(store'[s])
                   PROVE  Paired(store'[s], saved', n)
      BY DEF TurnsPaired, Paired
    <3>2. CASE s = s0 /\ n = L + 1 /\ store'[s][n] = AnswerRow(r)
      <4>1. ASSUME "user" \in saved'[r]
            PROVE  L > 0 /\ store'[s0][L].role = "user" /\ store'[s0][L].by = r
        <5>1. "user" \in saved[r]
          BY <2>3, <4>1
        <5>2. L > 0 /\ store[s0][L].role = "user" /\ store[s0][L].by = r
          BY <1>3, <5>1
        <5>3. L \in 1..L
          BY <2>2, <5>2
        <5>4. store'[s0][L] = store[s0][L]
          BY <2>2, <5>3
        <5>5. QED
          BY <5>2, <5>4
      <4>2. n - 1 = L /\ (L > 0 => n > 1)
        BY <2>2, <3>2
      <4>3. QED
        BY <2>1, <3>2, <4>1, <4>2 DEF Paired
    <3>3. CASE /\ n \in 1..Len(store[s]) /\ store'[s][n] = store[s][n]
               /\ store[s][n].by \in Request /\ store[s][n].by # r
      <4>1. saved'[store[s][n].by] = saved[store[s][n].by]
        BY <2>3, <3>3
      <4>2. /\ Len(store[s]) \in Nat /\ Len(store'[s]) \in Nat
            /\ Len(store[s]) <= Len(store'[s])
            /\ \A m \in 1..Len(store[s]) : store'[s][m] = store[s][m]
        BY <1>6, <2>2, StoreGrows
      <4>3. Paired(store[s], saved, n)
        BY <3>3 DEF Turns, TurnsPaired, Paired
      <4>4. QED
        BY <3>3, <4>1, <4>2, <4>3, PairedOld
    <3>4. CASE /\ n \in 1..Len(store[s]) /\ store'[s][n] = store[s][n]
               /\ store[s][n].by = r
      <4>1. s = s0 /\ n = L
        BY <1>3, <3>4
      <4>2. store[s][n].role \in saved[r] /\ store[s][n].role # "assistant"
        BY <1>3, <3>4 DEF Turns, RowsSaved
      <4>3. n < Len(store'[s]) /\ store'[s][n + 1] = AnswerRow(r)
        BY <2>2, <4>1
      <4>4. QED
        BY <2>1, <3>4, <4>2, <4>3 DEF Paired
    <3>5. QED
      BY <2>5, <3>2, <3>3, <3>4
  <2>8. QED
    BY <1>5, <1>7, <2>4, <2>6, <2>7 DEF Turns
<1>10. QED
  BY <1>1, <1>8, <1>9 DEF Save

LEMMA TurnsKept == TypeOK /\ Turns /\ [Next]_vars => Turns'
<1> SUFFICES ASSUME TypeOK, Turns, [Next]_vars PROVE Turns'
  OBVIOUS
<1>1. ASSUME NEW r \in Request,
             \/ Authenticate(r) \/ RateLimited(r) \/ Handle(r) \/ GraphAnswers(r)
             \/ GraphRaises(r) \/ Sent(r) \/ HangUp(r)
      PROVE  Turns'
  <2>1. UNCHANGED <<store, saved, input, loop>>
    BY <1>1 DEF Authenticate, RateLimited, Handle, GraphAnswers, GraphRaises, Sent, HangUp
  <2>2. PICK l \in PC \ Saving : Goto(r, l) /\ (l \in Before => pc[r] \in Before)
    <3>1. CASE Handle(r)
      <4>1. pc[r] = "authed" /\ (Goto(r, "500") \/ Goto(r, "blocked") \/ Goto(r, "asked"))
        BY <3>1, HandleCases DEF Handle, Block
      <4>2. /\ {"500", "blocked", "asked"} \subseteq PC \ Saving
            /\ pc[r] \in Before
        BY <4>1 DEF PC, Saving, Before
      <4>3. QED
        BY <4>1, <4>2
    <3>2. CASE ~Handle(r)
      BY <1>1, <3>2 DEF Authenticate, RateLimited, GraphAnswers, GraphRaises, Sent, HangUp,
                        PC, Saving, Before
    <3>3. QED
      BY <3>1, <3>2
  <2>3. pc[r] \notin Saving
    BY <1>1 DEF Authenticate, RateLimited, Handle, GraphAnswers, GraphRaises, Sent, HangUp, Saving
  <2>4. QED
    BY <2>1, <2>2, <2>3, TurnsGoto
<1>2. ASSUME NEW r \in Request, Authenticate(r) \/ Step(r) \/ HangUp(r)
      PROVE  Turns'
  BY <1>1, <1>2, TurnsSaveUser, TurnsSaveAnswer, TurnsRecord DEF Step
<1>3. CASE Tick \/ UNCHANGED vars
  <2>1. UNCHANGED <<store, saved, input, loop, pc>>
    BY <1>3 DEF Tick, vars
  <2>2. LoopHeld'
    BY <2>1 DEF Turns, LoopHeld
  <2>3. QED
    BY <2>1, <2>2, TurnsStill
<1>4. QED
  BY <1>2, <1>3, TurnsCrash DEF Next

LEMMA TurnsInit == Init => Turns
<1> SUFFICES ASSUME Init PROVE Turns
  OBVIOUS
<1>1. \A s \in Session : store[s] = <<>> /\ 1..Len(store[s]) = {}
  BY DEF Init
<1>2. RowsSaved /\ TurnsPaired
  BY <1>1 DEF RowsSaved, TurnsPaired
<1>3. LoopHeld /\ SavedSoFar /\ QuestionLast
  BY ChatAssumption DEF Init, LoopHeld, SavedSoFar, QuestionLast
<1>4. QED
  BY <1>2, <1>3 DEF Turns

(* ------------------------------ rate limit ------------------------------- *)

LEMMA MinuteTyped == \A t \in 0..MaxTime : MinuteOf(t) \in Minute
<1>1. ASSUME NEW M \in Nat \ {0}, NEW t \in Nat
      PROVE  t \div M \in Nat /\ t \div M <= t
  OBVIOUS
<1>2. QED
  BY <1>1, ChatAssumption DEF MinuteOf, Minute

\* A stretch of a minute touches two minutes of the clock.
LEMMA TwoMinutes ==
  ASSUME NEW t \in Nat, NEW u \in t..(t + MinuteTicks - 1)
  PROVE  MinuteOf(u) \in {MinuteOf(t), MinuteOf(t) + 1}
<1>1. ASSUME NEW M \in Nat \ {0}, NEW x \in Nat, NEW y \in x..(x + M - 1)
      PROVE  y \div M \in {x \div M, x \div M + 1}
  OBVIOUS
<1>2. QED
  BY <1>1, ChatAssumption DEF MinuteOf

\* What RateInv says of one key, boot and minute.
LEMMA LetInBounded ==
  ASSUME TypeOK, RateInv, NEW k \in Key, NEW m \in Minute
  PROVE  /\ \A b \in 0..MaxCrashes :
              /\ IsFiniteSet(LetIn(k, b, m)) /\ Cardinality(LetIn(k, b, m)) \in Nat
              /\ Cardinality(LetIn(k, b, m)) <= Limit
         /\ Cardinality(LetIn(k, boot, m)) <= counters[k][m]
         /\ boot \in 0..MaxCrashes /\ counters[k][m] \in Nat
<1>1. \A b \in 0..MaxCrashes : IsFiniteSet(LetIn(k, b, m)) /\ Cardinality(LetIn(k, b, m)) <= Limit
  BY DEF RateInv
<1>2. \A b \in 0..MaxCrashes : Cardinality(LetIn(k, b, m)) \in Nat
  BY <1>1, FS_CardinalityType
<1>3. Cardinality(LetIn(k, boot, m)) <= counters[k][m]
  BY DEF RateInv
<1>4. boot \in 0..MaxCrashes /\ counters[k][m] \in Nat
  BY DEF TypeOK
<1>5. QED
  BY <1>1, <1>2, <1>3, <1>4

\* A step that lets nobody in and lowers no counter.
LEMMA RateStill ==
  ASSUME TypeOK, RateInv, UNCHANGED <<boot, input, arrival>>,
         \A r \in Request : log'[r]["success"] = log[r]["success"],
         \A k \in Key, m \in Minute : counters'[k][m] \in Nat /\ counters'[k][m] >= counters[k][m]
  PROVE  RateInv'
<1>1. \A k, b, m : LetIn(k, b, m)' = LetIn(k, b, m)
  BY DEF LetIn
<1>2. ASSUME NEW k \in Key, NEW m \in Minute
      PROVE  /\ \A b \in 0..MaxCrashes : /\ IsFiniteSet(LetIn(k, b, m)')
                                         /\ Cardinality(LetIn(k, b, m)') <= Limit
             /\ Cardinality(LetIn(k, boot, m)') <= counters'[k][m]
  <2>1. /\ \A b \in 0..MaxCrashes : /\ IsFiniteSet(LetIn(k, b, m))
                                    /\ Cardinality(LetIn(k, b, m)) \in Nat
                                    /\ Cardinality(LetIn(k, b, m)) <= Limit
        /\ Cardinality(LetIn(k, boot, m)) <= counters[k][m]
        /\ boot \in 0..MaxCrashes /\ counters[k][m] \in Nat
    BY LetInBounded
  <2>2. LetIn(k, boot, m)' = LetIn(k, boot, m)
    BY <1>1
  <2>3. counters'[k][m] \in Nat /\ counters'[k][m] >= counters[k][m]
    OBVIOUS
  <2>4. Cardinality(LetIn(k, boot, m)') <= counters'[k][m]
    BY <2>1, <2>2, <2>3
  <2>5. QED
    BY <1>1, <2>1, <2>4
<1>3. \A r \in Request : log'[r]["success"] > 0 => arrival'[r].boot <= boot'
  BY DEF RateInv
<1>4. QED
  BY <1>2, <1>3 DEF RateInv

LEMMA CountedRaises ==
  ASSUME TypeOK, NEW r \in Request, counters' = Counted(input[r].key),
         NEW k \in Key, NEW m \in Minute
  PROVE  /\ counters'[k][m] = IF k = input[r].key /\ m = MinuteOf(now) THEN counters[k][m] + 1
                              ELSE counters[k][m]
         /\ counters'[k][m] \in Nat /\ counters'[k][m] >= counters[k][m]
<1>1. input[r].key \in Key /\ counters \in [Key -> [Minute -> Nat]]
  BY DEF TypeOK, Input
<1>2. counters[k][m] \in Nat
  BY <1>1
<1>3. counters'[k][m] = IF k = input[r].key /\ m = MinuteOf(now) THEN counters[k][m] + 1
                        ELSE counters[k][m]
  BY <1>1 DEF Counted
<1>4. QED
  BY <1>2, <1>3

\* The request that is let in joins one key, boot and minute, whose counter rose with it.
LEMMA RateHandle ==
  ASSUME TypeOK, RateInv, NEW r \in Request, Handle(r)
  PROVE  RateInv'
<1> SUFFICES ASSUME NEW k0, NEW m0, NEW b0, k0 = input[r].key, m0 = MinuteOf(now), b0 = boot
             PROVE  RateInv'
  OBVIOUS
<1>1. /\ UNCHANGED <<boot, input, now>> /\ counters' = Counted(k0)
      /\ arrival' = [arrival EXCEPT ![r] = [at |-> now, boot |-> boot]]
      /\ ~(Counted(k0)[k0][m0] > Limit)
  BY DEF Handle, Block, OverLimit
<1>2. \A q \in Request \ {r} : log'[q] = log[q]
  <2>1. \/ Logged(r, "success")
        \/ log' = [log EXCEPT ![r]["success"] = @ + 1, ![r]["alert"] = @ + 1]
    BY HandleCases
  <2>2. QED
    BY <2>1 DEF Logged, TypeOK
<1>3. \A q \in Request : arrival'[q] = IF q = r THEN [at |-> now, boot |-> boot] ELSE arrival[q]
  BY <1>1 DEF TypeOK
<1>4. k0 \in Key /\ m0 \in Minute
  BY MinuteTyped DEF TypeOK, Input
<1>5. ASSUME NEW k, NEW b, NEW m, ~(k = k0 /\ b = b0 /\ m = m0)
      PROVE  LetIn(k, b, m)' \subseteq LetIn(k, b, m)
  BY <1>1, <1>2, <1>3, <1>5 DEF LetIn
<1>6. LetIn(k0, b0, m0)' \subseteq LetIn(k0, b0, m0) \cup {r}
  BY <1>1, <1>2, <1>3 DEF LetIn
<1>7. counters'[k0][m0] = counters[k0][m0] + 1 /\ counters'[k0][m0] <= Limit
  <2>1. counters'[k0][m0] = counters[k0][m0] + 1 /\ counters'[k0][m0] \in Nat
    BY <1>1, <1>4, CountedRaises
  <2>2. QED
    BY <1>1, <2>1, ChatAssumption
<1>8. /\ IsFiniteSet(LetIn(k0, b0, m0)')
      /\ Cardinality(LetIn(k0, b0, m0)') \in Nat
      /\ Cardinality(LetIn(k0, b0, m0)') <= counters[k0][m0] + 1
  <2> DEFINE S == LetIn(k0, b0, m0)
             T == LetIn(k0, b0, m0)'
  <2>1. /\ IsFiniteSet(S) /\ Cardinality(S) \in Nat
        /\ Cardinality(S) <= counters[k0][m0] /\ counters[k0][m0] \in Nat
    BY <1>4, LetInBounded
  <2>2. T \subseteq S \cup {r}
    BY <1>6
  <2> HIDE DEF S, T
  <2>3. /\ IsFiniteSet(S \cup {r}) /\ Cardinality(S \cup {r}) \in Nat
        /\ Cardinality(S \cup {r}) <= Cardinality(S) + 1
    <3>1. /\ IsFiniteSet(S \cup {r})
          /\ Cardinality(S \cup {r}) = Cardinality(S) \/ Cardinality(S \cup {r}) = Cardinality(S) + 1
      BY <2>1, FS_AddElement
    <3>2. QED
      BY <2>1, <3>1
  <2>4. IsFiniteSet(T) /\ Cardinality(T) <= Cardinality(S \cup {r}) /\ Cardinality(T) \in Nat
    BY <2>2, <2>3, FS_Subset, FS_CardinalityType
  <2>5. Cardinality(T) <= counters[k0][m0] + 1
    BY <2>1, <2>3, <2>4
  <2>6. QED
    BY <2>4, <2>5 DEF T
<1>9. ASSUME NEW k \in Key, NEW m \in Minute, NEW b \in 0..MaxCrashes,
             ~(k = k0 /\ b = b0 /\ m = m0)
      PROVE  /\ IsFiniteSet(LetIn(k, b, m)') /\ Cardinality(LetIn(k, b, m)') \in Nat
             /\ Cardinality(LetIn(k, b, m)') <= Cardinality(LetIn(k, b, m))
             /\ Cardinality(LetIn(k, b, m)') <= Limit
  <2>1. /\ IsFiniteSet(LetIn(k, b, m)) /\ Cardinality(LetIn(k, b, m)) \in Nat
        /\ Cardinality(LetIn(k, b, m)) <= Limit
    BY LetInBounded
  <2>2. LetIn(k, b, m)' \subseteq LetIn(k, b, m)
    BY <1>5, <1>9
  <2>3. /\ IsFiniteSet(LetIn(k, b, m)')
        /\ Cardinality(LetIn(k, b, m)') <= Cardinality(LetIn(k, b, m))
    BY <2>1, <2>2, FS_Subset
  <2>4. Cardinality(LetIn(k, b, m)') \in Nat
    BY <2>3, FS_CardinalityType
  <2>5. QED
    BY <2>1, <2>3, <2>4, ChatAssumption
<1>10. ASSUME NEW k \in Key, NEW m \in Minute, NEW b \in 0..MaxCrashes
       PROVE  IsFiniteSet(LetIn(k, b, m)') /\ Cardinality(LetIn(k, b, m)') <= Limit
  <2>1. counters[k0][m0] + 1 <= Limit /\ counters[k0][m0] \in Nat
    BY <1>4, <1>7, LetInBounded
  <2>2. CASE k = k0 /\ b = b0 /\ m = m0
    BY <1>8, <2>1, <2>2, ChatAssumption
  <2>3. QED
    BY <1>9, <2>2
<1>11. ASSUME NEW k \in Key, NEW m \in Minute
       PROVE  Cardinality(LetIn(k, b0, m)') <= counters'[k][m]
  <2>1. CASE k = k0 /\ m = m0
    BY <1>7, <1>8, <2>1
  <2>2. CASE ~(k = k0 /\ m = m0)
    <3>1. /\ Cardinality(LetIn(k, b0, m)) <= counters[k][m] /\ counters[k][m] \in Nat
          /\ b0 \in 0..MaxCrashes /\ Cardinality(LetIn(k, b0, m)) \in Nat
      BY LetInBounded
    <3>2. /\ Cardinality(LetIn(k, b0, m)') \in Nat
          /\ Cardinality(LetIn(k, b0, m)') <= Cardinality(LetIn(k, b0, m))
      BY <1>9, <2>2, <3>1
    <3>3. counters'[k][m] \in Nat /\ counters'[k][m] >= counters[k][m]
      BY <1>1, CountedRaises
    <3>4. QED
      BY <3>1, <3>2, <3>3
  <2>3. QED
    BY <2>1, <2>2
<1>12. \A q \in Request : log'[q]["success"] > 0 => arrival'[q].boot <= boot'
  <2>1. boot \in Nat
    BY DEF TypeOK
  <2>2. \A q \in Request \ {r} : log'[q]["success"] > 0 => arrival'[q].boot <= boot
    BY <1>2, <1>3 DEF RateInv
  <2>3. arrival'[r].boot <= boot
    BY <1>3, <2>1
  <2>4. QED
    BY <1>1, <2>2, <2>3
<1>13. \A k \in Key, m \in Minute : Cardinality(LetIn(k, b0, m)') <= counters'[k][m]
  BY <1>11
<1>14. boot' = b0
  BY <1>1
<1>15. QED
  BY <1>10, <1>12, <1>13, <1>14 DEF RateInv

\* The counters start again with a boot that has let nobody in.
LEMMA RateCrash ==
  ASSUME TypeOK, RateInv, Crash
  PROVE  RateInv'
<1> SUFFICES ASSUME NEW b1, b1 = boot + 1
             PROVE  RateInv'
  OBVIOUS
<1>1. /\ boot' = b1 /\ UNCHANGED <<input, log, arrival>>
      /\ counters' = [k \in Key |-> [m \in Minute |-> 0]]
  BY DEF Crash
<1>2. \A k, b, m : LetIn(k, b, m)' = LetIn(k, b, m)
  BY <1>1 DEF LetIn
<1>3. boot \in Nat /\ \A r \in Request : arrival[r].boot \in Nat
  BY DEF TypeOK
<1>4. \A k, m : LetIn(k, b1, m) = {}
  BY <1>3 DEF LetIn, RateInv
<1>5. ASSUME NEW k \in Key, NEW m \in Minute
      PROVE  /\ \A b \in 0..MaxCrashes : /\ IsFiniteSet(LetIn(k, b, m)')
                                         /\ Cardinality(LetIn(k, b, m)') <= Limit
             /\ Cardinality(LetIn(k, b1, m)') <= counters'[k][m]
  <2>1. \A b \in 0..MaxCrashes : /\ IsFiniteSet(LetIn(k, b, m))
                                 /\ Cardinality(LetIn(k, b, m)) <= Limit
    BY LetInBounded
  <2>2. LetIn(k, b1, m)' = {}
    BY <1>2, <1>4
  <2>3. Cardinality({}) = 0 /\ counters'[k][m] = 0
    BY <1>1, FS_EmptySet
  <2>4. Cardinality(LetIn(k, b1, m)') <= counters'[k][m]
    BY <2>2, <2>3
  <2>5. QED
    BY <1>2, <2>1, <2>4
<1>6. \A r \in Request : log'[r]["success"] > 0 => arrival'[r].boot <= b1
  BY <1>1, <1>3 DEF RateInv
<1>7. QED
  BY <1>1, <1>5, <1>6 DEF RateInv

LEMMA RateKept == TypeOK /\ RateInv /\ [Next]_vars => RateInv'
<1> SUFFICES ASSUME TypeOK, RateInv, [Next]_vars PROVE RateInv'
  OBVIOUS
<1>1. counters \in [Key -> [Minute -> Nat]]
  BY DEF TypeOK
<1>2. CASE UNCHANGED <<boot, input, arrival, counters, log>>
  <2>1. \A k \in Key, m \in Minute : counters'[k][m] \in Nat /\ counters'[k][m] >= counters[k][m]
    BY <1>1, <1>2
  <2>2. QED
    BY <1>2, <2>1, RateStill
<1>3. ASSUME NEW r \in Request, RateLimited(r)
      PROVE  RateInv'
  <2>1. UNCHANGED <<boot, input, arrival, log>> /\ counters' = Counted(input[r].key)
    BY <1>3 DEF RateLimited
  <2>2. \A k \in Key, m \in Minute : counters'[k][m] \in Nat /\ counters'[k][m] >= counters[k][m]
    BY <2>1, CountedRaises
  <2>3. QED
    BY <2>1, <2>2, RateStill
<1>4. ASSUME NEW r \in Request, NEW e \in {"failure", "query", "rejection"},
             UNCHANGED <<boot, input, arrival, counters>>, Logged(r, e)
      PROVE  RateInv'
  <2>1. \A q \in Request : log'[q]["success"] = log[q]["success"]
    BY <1>4 DEF Logged, TypeOK, Kinds
  <2>2. \A k \in Key, m \in Minute : counters'[k][m] \in Nat /\ counters'[k][m] >= counters[k][m]
    BY <1>1, <1>4
  <2>3. QED
    BY <1>4, <2>1, <2>2, RateStill
<1>5. ASSUME NEW r \in Request, Authenticate(r)
      PROVE  RateInv'
  BY <1>2, <1>4, <1>5 DEF Authenticate
<1>6. ASSUME NEW r \in Request, Record(r)
      PROVE  RateInv'
  BY <1>4, <1>6 DEF Record, AnswerKind
<1>7. ASSUME NEW r \in Request,
             \/ GraphAnswers(r) \/ GraphRaises(r) \/ SaveUser(r) \/ SaveAnswer(r)
             \/ Sent(r) \/ HangUp(r)
      PROVE  RateInv'
  BY <1>2, <1>7 DEF GraphAnswers, GraphRaises, SaveUser, SaveAnswer, Sent, HangUp
<1>8. CASE Tick \/ UNCHANGED vars
  BY <1>2, <1>8 DEF Tick, vars
<1>9. QED
  BY <1>3, <1>5, <1>6, <1>7, <1>8, RateHandle, RateCrash DEF Next, Step

LEMMA RateInit == Init => RateInv
<1> SUFFICES ASSUME Init PROVE RateInv
  OBVIOUS
<1>1. \A r \in Request : log[r]["success"] = 0
  BY DEF Init, Kinds
<1>2. \A k, b, m : LetIn(k, b, m) = {}
  BY <1>1 DEF LetIn
<1>3. IsFiniteSet({}) /\ Cardinality({}) = 0
  BY FS_EmptySet
<1>4. \A k \in Key, m \in Minute : counters[k][m] = 0
  BY DEF Init
<1>5. ASSUME NEW k \in Key, NEW m \in Minute, NEW b
      PROVE  /\ IsFiniteSet(LetIn(k, b, m)) /\ Cardinality(LetIn(k, b, m)) <= Limit
             /\ Cardinality(LetIn(k, b, m)) <= counters[k][m]
  BY <1>2, <1>3, <1>4, ChatAssumption
<1>6. QED
  BY <1>1, <1>5 DEF RateInv

\* The stretch is covered by the minute it begins in and the next one.
LEMMA StretchBounded ==
  ASSUME TypeOK, RateInv, NEW k \in Key, NEW b \in 0..MaxCrashes, NEW t \in 0..MaxTime
  PROVE  Cardinality(AdmittedIn(k, b, t)) <= 2 * Limit
<1> DEFINE m == MinuteOf(t)
           S == LetIn(k, b, m)
           T == LetIn(k, b, m + 1)
           A == AdmittedIn(k, b, t)
<1>1. m \in Minute
  BY MinuteTyped
<1>2. A \subseteq S \cup T
  <2>1. SUFFICES ASSUME NEW r \in A PROVE r \in S \cup T
    OBVIOUS
  <2>2. /\ r \in Request /\ log[r]["success"] > 0 /\ input[r].key = k /\ arrival[r].boot = b
        /\ arrival[r].at \in t..(t + MinuteTicks - 1)
    BY DEF AdmittedIn
  <2>3. MinuteOf(arrival[r].at) \in {m, m + 1}
    BY <2>2, TwoMinutes
  <2>4. QED
    BY <2>2, <2>3 DEF LetIn
<1>3. IsFiniteSet(S) /\ Cardinality(S) \in Nat /\ Cardinality(S) <= Limit
  BY <1>1, LetInBounded
<1>4. IsFiniteSet(T) /\ Cardinality(T) \in Nat /\ Cardinality(T) <= Limit
  <2>1. CASE m + 1 \in Minute
    BY <2>1, LetInBounded
  <2>2. CASE m + 1 \notin Minute
    <3>1. T = {}
      <4>1. SUFFICES ASSUME NEW r \in T PROVE FALSE
        OBVIOUS
      <4>2. MinuteOf(arrival[r].at) = m + 1 /\ arrival[r].at \in 0..MaxTime
        BY DEF LetIn, TypeOK
      <4>3. QED
        BY <2>2, <4>2, MinuteTyped
    <3>2. QED
      BY <3>1, FS_EmptySet, ChatAssumption
  <2>3. QED
    BY <2>1, <2>2
<1> HIDE DEF S, T, A
<1>5. /\ IsFiniteSet(S \cup T) /\ Cardinality(S \cup T) \in Nat
      /\ Cardinality(S \cup T) <= Cardinality(S) + Cardinality(T)
  <2>1. Cardinality(S \cap T) \in Nat
    BY <1>3, FS_Intersection, FS_CardinalityType
  <2>2. /\ IsFiniteSet(S \cup T)
        /\ Cardinality(S \cup T) = Cardinality(S) + Cardinality(T) - Cardinality(S \cap T)
    BY <1>3, <1>4, FS_Union
  <2>3. Cardinality(S \cup T) \in Nat
    BY <2>2, FS_CardinalityType
  <2>4. QED
    BY <1>3, <1>4, <2>1, <2>2, <2>3
<1>6. Cardinality(A) \in Nat /\ Cardinality(A) <= Cardinality(S \cup T)
  BY <1>2, <1>5, FS_Subset, FS_CardinalityType
<1>7. Cardinality(A) <= 2 * Limit
  BY <1>3, <1>4, <1>5, <1>6, ChatAssumption
<1>8. QED
  BY <1>7 DEF A

(* ------------------------------- theorems -------------------------------- *)

LEMMA ChatInvInit == Init => ChatInv
<1> SUFFICES ASSUME Init PROVE ChatInv
  OBVIOUS
<1>1. Clean
  BY DEF Init, Clean
<1>2. Recorded
  BY DEF Init, Recorded, AnswerRecords, Kinds
<1>3. QED
  BY <1>1, <1>2, TypesInit, TurnsInit, RateInit DEF ChatInv

LEMMA ChatInvHolds == Spec => []ChatInv
<1>1. ChatInv /\ [Next]_vars => ChatInv'
  BY TypesKept, CleanKept, RecordedKept, TurnsKept, RateKept DEF ChatInv
<1>2. QED
  BY ChatInvInit, <1>1, PTL DEF Spec

\* The store, the counters, the records and the place of every request keep their types
\* for any set of requests; a request that saves, records or sends has a text (api.py,
\* the two paths of chat_completions).
THEOREM ChatTypes == Spec => []TypeOK
<1>1. ChatInv => TypeOK
  BY DEF ChatInv
<1>2. QED
  BY <1>1, ChatInvHolds, PTL

\* Whatever was stored by whom before, no user message that the sanitizer stops for the
\* peer at hand is handed to the graph (api.py, the scan over history and messages).
THEOREM ChatContextClean == Spec => []ContextClean
<1>1. ChatInv => ContextClean
  BY DEF ChatInv, Clean, ContextClean
<1>2. QED
  BY <1>1, ChatInvHolds, PTL

\* Exactly one audit record for each text that goes out, none for what is refused, over
\* any number of restarts and hang-ups (api.py, both paths of chat_completions).
THEOREM ChatAnsweredIsRecorded == Spec => []AnsweredIsRecorded
<1>1. ChatInv => AnsweredIsRecorded
  BY DEF ChatInv, Recorded, AnsweredIsRecorded
<1>2. QED
  BY <1>1, ChatInvHolds, PTL

\* Question and answer of a turn stand next to each other in the store, however many
\* requests of the session run at once (api.py with conversation_store.py).
THEOREM ChatTurnsPaired == Spec => []TurnsPaired
<1>1. ChatInv => TurnsPaired
  BY DEF ChatInv, Turns
<1>2. QED
  BY <1>1, ChatInvHolds, PTL

\* No stretch of a minute, wherever it begins and whatever number of requests race for it,
\* sees more than twice the limit of one key's requests within a boot (the fixed windows
\* of rate_limit.py: a stretch touches two of them, and each counter covers its window).
THEOREM ChatRateBound == Spec => []RateBound
<1>1. ChatInv => RateBound
  BY StretchBounded DEF ChatInv, RateBound
<1>2. QED
  BY <1>1, ChatInvHolds, PTL
=============================================================================
