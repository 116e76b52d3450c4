----------------------------- MODULE ReactAgent -----------------------------
(***************************************************************************)
(* One question in REACT_MODE (RAG/rag_system/agent/react_workflow.py):    *)
(* the sanitizer and a scope check, then an agent that calls the retrieval *)
(* tool as often as it likes and writes an answer, which is sent back as   *)
(* long as it cites what no tool has shown or the verifier dislikes it.    *)
(*                                                                         *)
(* The language model, the prebuilt agent loop and the knowledge base are  *)
(* the environment: what they return is chosen freely.                     *)
(***************************************************************************)
EXTENDS Naturals

CONSTANTS
  Article,     \* article numbers
  MaxRetries,  \* MAX_REACT_RETRIES
  MaxHops      \* the agent's recursion limit, in tool calls per attempt

ASSUME ReactAssumption == MaxRetries \in Nat /\ MaxHops \in Nat

VARIABLES
  at,        \* what runs next
  threat,    \* the sanitizer stops the question
  earlier,   \* the last assistant message of the conversation so far
  scope,     \* the scope of the result, "" before there is one
  retry,     \* retry_count
  text,      \* the last message of the model that has content; then the answer
  evidence,  \* articles named by or in the tool messages of this attempt
  hops,      \* tool calls of this attempt
  spoke      \* history: the agent wrote content in this attempt

vars == <<at, threat, earlier, scope, retry, text, evidence, hops, spoke>>

\* What the checks read off a text.  quick: it is under 50 characters, holds the rejection
\* text or a no-information phrase.
Text == [cites : SUBSET Article, quick : BOOLEAN,
         by : {"nobody", "earlier", "agent", "relay", "rule", "failsafe"}]
Blank(author) == [cites |-> {}, quick |-> TRUE, by |-> author]
Written(author) == {t \in Text : t.by = author}

Init ==
  /\ at = "sanitize" /\ threat \in BOOLEAN
  /\ earlier \in Written("earlier") \cup {Blank("nobody")}
  /\ scope = "" /\ retry = 0
  /\ text = Blank("nobody") /\ evidence = {} /\ hops = 0 /\ spoke = FALSE

attempt == <<text, evidence, hops, spoke>>
Return(s, t) == at' = "done" /\ scope' = s /\ text' = t

(* --------------------------- before the agent ---------------------------- *)

Sanitize ==
  /\ at = "sanitize"
  /\ IF threat THEN Return("security_block", Blank("rule"))
     ELSE at' = "classify" /\ UNCHANGED <<scope, text>>
  /\ UNCHANGED <<threat, earlier, retry, evidence, hops, spoke>>

\* _classify_pre_check: "legal" also for whatever cannot be read, and on any error.
Classify ==
  /\ at = "classify"
  /\ \/ Return("reject", Blank("rule"))
     \/ at' \in {"passthrough", "attempt"} /\ UNCHANGED <<scope, text>>
  /\ UNCHANGED <<threat, earlier, retry, evidence, hops, spoke>>

\* The task goes to the model as it is; when that raises, the agent takes it.
Passthrough ==
  /\ at = "passthrough"
  /\ \/ \E t \in Written("relay") : Return("passthrough", t)
     \/ at' = "attempt" /\ UNCHANGED <<scope, text>>
  /\ UNCHANGED <<threat, earlier, retry, evidence, hops, spoke>>

(* ------------------------------- the agent ------------------------------- *)

\* An attempt starts from the conversation, which has no tool messages, and the
\* reviewer's reason if it gave one (input of the model, which is left out).
Attempt ==
  /\ at = "attempt"
  /\ text' = earlier /\ evidence' = {} /\ hops' = 0 /\ spoke' = FALSE
  /\ at' = "agent"
  /\ UNCHANGED <<threat, earlier, scope, retry>>

\* A message of the model counts as the answer so far if it has content.
Says == \/ \E t \in Written("agent") : text' = t /\ spoke' = TRUE
        \/ UNCHANGED <<text, spoke>>

\* The model calls the tool, which shows some documents, none, or the failure of the query.
CallTool ==
  /\ at = "agent" /\ hops < MaxHops
  /\ Says
  /\ \E shown \in SUBSET Article : evidence' = evidence \cup shown
  /\ hops' = hops + 1
  /\ UNCHANGED <<at, threat, earlier, scope, retry>>

Answers ==
  /\ at = "agent"
  /\ Says
  /\ at' = "check"
  /\ UNCHANGED <<threat, earlier, scope, retry, evidence, hops>>

\* agent.invoke raises: a model call failed, or the recursion limit was reached.
AgentRaises ==
  /\ at = "agent"
  /\ at' = "raised"
  /\ UNCHANGED <<threat, earlier, scope, retry, attempt>>

(* ------------------------------- the review ------------------------------ *)

\* mutant: the quick passes come before the provenance test
UngroundedQuick(t) == IF t.quick THEN {} ELSE t.cites \ evidence

Ungrounded(t) == t.cites \ evidence

SendBack == /\ at' = "attempt" /\ retry' = retry + 1
            /\ UNCHANGED <<scope, text>>

\* mutant: the fail-safe comes one retry early
CheckEarly ==
  /\ at = "check"
  /\ IF Ungrounded(text) = {} THEN at' = "verify" /\ UNCHANGED <<scope, retry, text>>
     ELSE IF retry + 1 >= MaxRetries
     THEN Return("verified", Blank("failsafe")) /\ UNCHANGED retry
     ELSE SendBack
  /\ UNCHANGED <<threat, earlier, evidence, hops, spoke>>

Check ==
  /\ at = "check"
  /\ IF Ungrounded(text) = {} THEN at' = "verify" /\ UNCHANGED <<scope, retry, text>>
     ELSE IF retry >= MaxRetries
     THEN Return("verified", Blank("failsafe")) /\ UNCHANGED retry
     ELSE SendBack
  /\ UNCHANGED <<threat, earlier, evidence, hops, spoke>>

Accept == Return("verified", text) /\ UNCHANGED retry

\* mutant: a verifier that fails asks for another attempt, which is not counted
VerifyAgain ==
  /\ at = "verify"
  /\ \/ Accept
     \/ /\ ~text.quick /\ retry < MaxRetries
        /\ at' = "attempt" /\ UNCHANGED <<scope, retry, text>>
  /\ UNCHANGED <<threat, earlier, evidence, hops, spoke>>

\* The verifier is asked only while there are retries left and the text is not one to pass
\* at once; it passes on any error.
Verify ==
  /\ at = "verify"
  /\ \/ Accept
     \/ /\ ~text.quick /\ retry < MaxRetries
        /\ SendBack
  /\ UNCHANGED <<threat, earlier, evidence, hops, spoke>>

Next == \/ Sanitize \/ Classify \/ Passthrough
        \/ Attempt \/ CallTool \/ Answers \/ AgentRaises
        \/ Check \/ Verify

Spec == Init /\ [][Next]_vars

\* run_react_query is sequential, and its model calls have timeouts.
FairSpec == Spec /\ WF_vars(Next)

(* ------------------------------ properties ------------------------------- *)

Places == {"sanitize", "classify", "passthrough", "attempt", "agent", "check", "verify",
           "done", "raised"}

\* Every variable has its type; the retries and the tool calls keep to their limits.
TypeOK ==
  /\ at \in Places /\ threat \in BOOLEAN
  /\ earlier \in Text /\ text \in Text
  /\ scope \in {"", "security_block", "reject", "passthrough", "verified"}
  /\ retry \in 0..MaxRetries /\ hops \in 0..MaxHops
  /\ evidence \subseteq Article /\ spoke \in BOOLEAN

\* Whichever test let it out, a verified answer cites only articles that the tool showed in
\* the very attempt it was written in: what earlier attempts or turns had retrieved does
\* not count, and no short answer or fast path gets round it.
CitesOnlyShown == at = "done" /\ scope = "verified" => text.cites \subseteq evidence

\* An answer of an earlier turn of the conversation is only ever repeated when the agent
\* wrote no word of its own in the last attempt.
OwnWords == at = "done" /\ scope = "verified" /\ text.by \in {"earlier", "nobody"} => ~spoke

\* Every question comes to an end, whatever the agent and the verifier say.
Settles == <>(at \in {"done", "raised"})

(* The inductive invariant: what a question has been through where it is. *)

\* A question that is stopped goes nowhere else; before the agent nothing is written.
Path == /\ threat => at = "sanitize" \/ (at = "done" /\ scope = "security_block")
        /\ at \in {"sanitize", "classify", "passthrough"} => text = Blank("nobody") /\ retry = 0
        /\ at = "done" <=> scope # ""
        /\ scope \in {"security_block", "reject", "passthrough"} => retry = 0

\* Whose words the text is, and that what is being verified has been checked.
Words == /\ earlier.by \in {"earlier", "nobody"}
         /\ at # "done" => text.by \in {"earlier", "nobody", "agent"}
         /\ at \in {"agent", "check", "verify"} /\ spoke => text.by = "agent"
         /\ at = "verify" => Ungrounded(text) = {}

ReactInv == TypeOK /\ Path /\ Words /\ CitesOnlyShown /\ OwnWords

Verdict == IF at # "done" THEN "pending"
           ELSE IF scope = "passthrough" THEN "relayed"
           ELSE IF scope # "verified" THEN "refused"
           ELSE IF text.by = "failsafe" THEN "withheld" ELSE "answered"

\* The agent is an answer gate like the graph it stands in for.
Gate == INSTANCE AnswerGate
          WITH MaxTries <- MaxRetries,
               blocked <- threat,
               verdict <- Verdict,
               tries <- retry,
               sound <- scope = "passthrough" \/ Ungrounded(text) = {}

\* Refusals, retries and withheld answers happen as the gate promises: in particular an
\* answer is withheld only when the last of the retries was ungrounded too.
ImplementsGate == Gate!Spec
=============================================================================
