------------------------------ MODULE RagGraph ------------------------------
(***************************************************************************)
(* One question through the LangGraph workflow of rag-api                  *)
(* (RAG/rag_system/agent/graph.py, nodes.py):                              *)
(*                                                                         *)
(*    classify --> reject | capability | prc_block | security_block |      *)
(*                 passthrough --> END                                     *)
(*    classify --> retrieve --> generate --> verify --> END                *)
(*                                  ^           |                          *)
(*                                  +-----------+  needs_retry             *)
(*                                                                         *)
(* The language model and the knowledge base are the environment: what     *)
(* they return is chosen freely.  Of a text the model keeps what the nodes *)
(* look at, a record of the articles it names and the phrases it holds.    *)
(***************************************************************************)
EXTENDS Naturals, FiniteSets

CONSTANTS
  Article,     \* article numbers
  Plain,       \* what a document without an article id contributes as a source
  MaxRetries   \* MAX_RETRIES

ASSUME GraphAssumption == MaxRetries \in Nat /\ IsFiniteSet(Article) /\ Plain \notin Article

VARIABLES
  node,      \* the node that runs next
  asked,     \* state["question"]
  scope,     \* state["scope"]
  retry,     \* state["retry_count"]
  sources,   \* state["retrieved_sources"]
  docs,      \* articles named by or in the documents of state["retrieved_docs"]
  generation,\* state["generation"]
  count,     \* state["citation_count"]
  feedback,  \* state["feedback"]
  tail,      \* who wrote the last of state["messages"], which generate drops
  exposed    \* history: the question has been sent to the language model

vars == <<node, asked, scope, retry, sources, docs, generation, count, feedback,
          tail, exposed>>

\* What the nodes read off a question: the sanitizer's verdict, the PRC pattern, the
\* "### Task:" prefix, the articles it names.
Question == [threat : BOOLEAN, prc : BOOLEAN, task : BOOLEAN, articles : SUBSET Article]

\* What verify reads off an answer.  cites: its numbers in the 第N條 form; denied:
\* those it only names in a no-information clause; latin: it cites "article N";
\* noinfo: it holds a no-information phrase; form: "brief" is under 50 characters or
\* holds the rejection text, "structured" has the expected headings.
Text == [cites : SUBSET Article, denied : SUBSET Article, latin : BOOLEAN,
         noinfo : BOOLEAN, form : {"brief", "loose", "structured"},
         by : {"none", "rule", "model", "error", "failsafe"}]

Empty(author, form) == [cites |-> {}, denied |-> {}, latin |-> FALSE, noinfo |-> FALSE,
                        form |-> form, by |-> author]
Blank(author) == Empty(author, "loose")

\* The texts a language model may return.
Draft == {t \in Text : /\ t.by = "model"
                       /\ t.denied \subseteq t.cites
                       /\ t.denied # {} => t.noinfo}

Node == {"classify", "reject", "capability", "prc_block", "security_block",
         "passthrough", "retrieve", "generate", "verify", "END"}

Scope == {"", "legal", "reject", "capability", "passthrough", "prc_block",
          "security_block", "needs_retry", "verified"}

Init == /\ node = "classify"
        /\ asked \in Question
        /\ scope = "" /\ retry = 0
        /\ sources = {} /\ docs = {}
        /\ generation = Blank("none")
        /\ count = 0 /\ feedback = "" /\ tail = "user"
        /\ exposed = FALSE

(* ------------------------------- classify ------------------------------- *)

\* _route_after_classify
Route(s) == IF s = "legal" THEN "retrieve" ELSE s

Classified(s) == /\ scope' = s
                 /\ node' = Route(s)
                 /\ UNCHANGED <<asked, retry, sources, docs, generation, count, feedback, tail>>

\* mutant: the task prefix is looked at before the PRC pattern
RuledScopeTaskFirst(q) == IF q.threat THEN "security_block"
                          ELSE IF q.task THEN "passthrough"
                          ELSE IF q.prc THEN "prc_block" ELSE ""

\* The order of the deterministic checks: sanitizer, PRC pattern, task prefix.
RuledScope(q) == IF q.threat THEN "security_block"
                 ELSE IF q.prc THEN "prc_block"
                 ELSE IF q.task THEN "passthrough" ELSE ""

ClassifyByRule == /\ node = "classify"
                  /\ RuledScope(asked) # ""
                  /\ Classified(RuledScope(asked))
                  /\ UNCHANGED exposed

\* The model names the scope; anything unreadable is "legal".
ClassifyByModel == /\ node = "classify"
                   /\ RuledScope(asked) = ""
                   /\ \E s \in {"legal", "capability", "reject", "passthrough"} : Classified(s)
                   /\ exposed' = TRUE

\* The call raised: the words decide, small talk is rejected and the rest is legal.
ClassifyByWords == /\ node = "classify"
                   /\ RuledScope(asked) = ""
                   /\ \E s \in {"legal", "reject"} : Classified(s)
                   /\ exposed' = TRUE

(* ------------------------------ fixed texts ------------------------------ *)

\* A node's new text, its message, and where the edge leads.
Reply(t, next) == /\ generation' = t
                  /\ tail' = "model"
                  /\ node' = next

Refusal == /\ node \in {"reject", "capability", "prc_block", "security_block"}
           /\ Reply(Blank("rule"), "END")
           /\ UNCHANGED <<asked, scope, retry, sources, docs, count, feedback, exposed>>

\* The front end's own task goes to the model as it is; a failure yields "".
Passthrough == /\ node = "passthrough"
               /\ \E t \in Draft \cup {Empty("error", "brief")} : Reply(t, "END")
               /\ exposed' = TRUE
               /\ UNCHANGED <<asked, scope, retry, sources, docs, count, feedback>>

(* ------------------------------- retrieve ------------------------------- *)

\* The query raised, or nothing was found.
RetrieveNothing == /\ node = "retrieve"
                   /\ sources' = {} /\ docs' = {}
                   /\ node' = "generate"
                   /\ UNCHANGED <<asked, scope, retry, generation, count, feedback, tail, exposed>>

\* Documents enter the prompt until the token budget is used up (the first always
\* fits, perhaps cut); the one that did not fit is already listed as a source.
Retrieved(shown, cutOff, mentions) ==
  /\ sources' = shown \cup cutOff
  /\ docs' = (shown \ {Plain}) \cup mentions

Retrieve == /\ node = "retrieve"
            /\ \E shown \in SUBSET (Article \cup {Plain}) \ {{}}, mentions \in SUBSET Article :
                 \E cutOff \in {{}} \cup {{s} : s \in Article \cup {Plain}} :
                   Retrieved(shown, cutOff, mentions)
            /\ node' = "generate"
            /\ UNCHANGED <<asked, scope, retry, generation, count, feedback, tail, exposed>>

(* ------------------------------- generate ------------------------------- *)

Citations(t) == Cardinality(t.cites) + (IF t.latin THEN 1 ELSE 0)

Generate == /\ node = "generate"
            /\ \E t \in Draft : Reply(t, "verify") /\ count' = Citations(t)
            /\ exposed' = TRUE
            /\ UNCHANGED <<asked, scope, retry, sources, docs, feedback>>

\* The model raised: the answer is an apology with the exception's text.
GenerateFails == /\ node = "generate"
                 /\ \E f \in {"brief", "loose"} : Reply(Empty("error", f), "verify")
                 /\ count' = 0
                 /\ exposed' = TRUE
                 /\ UNCHANGED <<asked, scope, retry, sources, docs, feedback>>

(* -------------------------------- verify -------------------------------- *)

\* _retrieved_evidence_article_nums
Evidence == (sources \ {Plain}) \cup docs

\* mutant: any article the answer denies is taken for an honest gap
HonestlyMissingAny(t) == t.denied \cap (t.cites \ Evidence)

\* Articles the question asked for and the answer only says are not there.
HonestlyMissing(t) == t.denied \cap asked.articles \cap (t.cites \ Evidence)

Ungrounded(t) == (t.cites \ Evidence) \ HonestlyMissing(t)

\* It cites retrieved articles and says there is no information.
Contradictory(t) == t.noinfo /\ t.cites \cap Evidence # {} /\ sources # {}

HasCitation(t) == t.cites # {} \/ t.latin

\* The tests after the two gates, in order: nothing of substance, an honest "no
\* information", the budget is spent, citations and structure are present.
Passes(t, n) == \/ t.form = "brief"
                \/ t.noinfo /\ ~HasCitation(t)
                \/ n >= MaxRetries
                \/ HasCitation(t) /\ t.form = "structured"

\* Why verify sends a text back, "" when it does not; n is the retries so far.
Complaint(t, n) ==
  IF Ungrounded(t) # {} THEN (IF n < MaxRetries THEN "ungrounded" ELSE "")
  ELSE IF Contradictory(t) /\ n < MaxRetries THEN "contradictory"
  ELSE IF Passes(t, n) THEN "" ELSE "structure"

\* mutant: the fail-safe does not wait for the retries
WithheldAtOnce(t, n) == Ungrounded(t) # {}

Withheld(t, n) == Ungrounded(t) # {} /\ n >= MaxRetries

\* mutant: the retry is not counted
VerifyRetryUncounted == /\ node = "verify"
                        /\ Complaint(generation, retry) # ""
                        /\ scope' = "needs_retry"
                        /\ feedback' = Complaint(generation, retry)
                        /\ node' = "generate"
                        /\ UNCHANGED <<asked, retry, sources, docs, generation, count,
                                       tail, exposed>>

VerifyRetry == /\ node = "verify"
               /\ Complaint(generation, retry) # ""
               /\ scope' = "needs_retry"
               /\ retry' = retry + 1
               /\ feedback' = Complaint(generation, retry)
               /\ node' = "generate"
               /\ UNCHANGED <<asked, sources, docs, generation, count, tail, exposed>>

\* The fail-safe text replaces the answer; its message and citation count stay.
VerifyWithhold == /\ node = "verify"
                  /\ Withheld(generation, retry)
                  /\ scope' = "verified" /\ feedback' = ""
                  /\ generation' = Blank("failsafe")
                  /\ node' = "END"
                  /\ UNCHANGED <<asked, retry, sources, docs, count, tail, exposed>>

VerifyPass == /\ node = "verify"
              /\ Complaint(generation, retry) = ""
              /\ ~Withheld(generation, retry)
              /\ scope' = "verified" /\ feedback' = ""
              /\ node' = "END"
              /\ UNCHANGED <<asked, retry, sources, docs, generation, count, tail, exposed>>

Next == \/ ClassifyByRule \/ ClassifyByModel \/ ClassifyByWords
        \/ Refusal \/ Passthrough
        \/ RetrieveNothing \/ Retrieve
        \/ Generate \/ GenerateFails
        \/ VerifyRetry \/ VerifyWithhold \/ VerifyPass

Spec == Init /\ [][Next]_vars

\* LangGraph runs the next node until END; every model call is bounded by a timeout.
FairSpec == Spec /\ WF_vars(Next)

(* ------------------------------ properties ------------------------------ *)

\* Every variable has its type; the retry counter never passes MAX_RETRIES.
TypeOK == /\ node \in Node
          /\ asked \in Question
          /\ scope \in Scope
          /\ retry \in 0..MaxRetries
          /\ sources \subseteq Article \cup {Plain}
          /\ docs \subseteq Article
          /\ generation \in Text
          /\ count \in Nat
          /\ feedback \in {"", "ungrounded", "contradictory", "structure"}
          /\ tail \in {"user", "model"}
          /\ exposed \in BOOLEAN

\* However many drafts were written and whichever test ended the loop, a verified
\* answer cites an article only if it was retrieved, or if the question asked for
\* it and the answer says it is not there.
CitesOnlyEvidence == node = "END" /\ scope = "verified" =>
                       generation.cites \subseteq Evidence \cup (generation.denied \cap asked.articles)

\* A question the sanitizer or the PRC pattern stops never reaches the language
\* model on any path, a "### Task:" prefix and a failing classifier included, and
\* gets a fixed text.
BlockedStaysInside == asked.threat \/ asked.prc =>
                        /\ ~exposed
                        /\ node = "END" => generation.by = "rule"

\* An answer that cites retrieved articles and yet claims there is no information
\* goes out only when the retries are used up.
NoEarlyContradiction == node = "END" /\ scope = "verified" /\ Contradictory(generation)
                          => retry = MaxRetries

\* Every question gets its text: the retry loop ends whatever the model writes.
Answered == <>(node = "END")

(* The inductive invariant: which scopes belong to which node, what a blocked     *)
(* question can have touched, what a retry starts from, and the two               *)
(* promises about a verified text.                                                *)

Blocked(q) == q.threat \/ q.prc

Fresh == node = "classify" => /\ scope = "" /\ retry = 0 /\ tail = "user"
                              /\ ~exposed /\ generation = Blank("none")

FixedTextNodes == {"reject", "capability", "prc_block", "security_block", "passthrough"}

ScopeFits == /\ node \in FixedTextNodes => /\ scope = node /\ retry = 0 /\ tail = "user"
                                           /\ generation = Blank("none")
             /\ node \in {"retrieve", "generate", "verify"} => scope \in {"legal", "needs_retry"}
             /\ node = "retrieve" => retry = 0 /\ tail = "user" /\ generation = Blank("none")
             /\ node = "END" => scope \in FixedTextNodes \cup {"verified"}
             /\ node = "END" /\ scope \in FixedTextNodes => retry = 0

BlockedPath == Blocked(asked) => /\ node \in {"classify", "prc_block", "security_block", "END"}
                                 /\ node = "END" => scope \in {"prc_block", "security_block"}
                                 /\ ~exposed

FixedText == node = "END" /\ scope \in FixedTextNodes \ {"passthrough"} => generation = Blank("rule")

\* On a retry the last message is the draft that was sent back, not the question.
Drafting == /\ node = "generate" => (tail = "model" <=> retry > 0)
            /\ node = "generate" /\ retry = 0 => generation = Blank("none")
            /\ node = "verify" => tail = "model" /\ generation.by \in {"model", "error"}

GraphInv == /\ TypeOK /\ Fresh /\ ScopeFits /\ BlockedPath /\ FixedText /\ Drafting
            /\ CitesOnlyEvidence /\ NoEarlyContradiction

Verdict == IF node # "END" THEN "pending"
           ELSE IF scope = "passthrough" THEN "relayed"
           ELSE IF scope # "verified" THEN "refused"
           ELSE IF generation.by = "failsafe" THEN "withheld" ELSE "answered"

\* The graph is an answer gate: text that is not on the verified path is not a
\* draft, and a draft is sound when verify's own test finds nothing ungrounded.
Gate == INSTANCE AnswerGate
          WITH MaxTries <- MaxRetries,
               blocked <- Blocked(asked),
               verdict <- Verdict,
               tries <- retry,
               sound <- scope = "passthrough" \/ Ungrounded(generation) = {}

ImplementsGate == Gate!Spec

=============================================================================
