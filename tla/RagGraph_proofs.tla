--------------------------- MODULE RagGraph_proofs ---------------------------
(***************************************************************************)
(* Proofs about RagGraph and about the Retrieval its retrieve node calls.  *)
(* The graph: the inductive invariant GraphInv, what follows from it, and  *)
(* that the graph is an AnswerGate.  Retrieval: a finite set in a strict   *)
(* order is ranked without gaps (OrderRanks), hence what picking, dropping *)
(* repeated texts and taking turns do to a list (PickedIs, DistinctIs,     *)
(* RoundRobinIs), and from these that RetrievalInv is inductive.           *)
(***************************************************************************)
EXTENDS RagGraph, Retrieval, FiniteSetTheorems, WellFoundedInduction, TLAPS

\* Texts with nothing in them, and the drafts, are texts.
LEMMA TextsAreTyped ==
  /\ \A a \in {"none", "rule", "model", "error", "failsafe"} :
       \A f \in {"brief", "loose", "structured"} :
         Blank(a) \in Text /\ Empty(a, f) \in Text
  /\ \A t \in Draft : t \in Text /\ t.by = "model"
BY DEF Blank, Empty, Text, Draft

LEMMA CitationsAreCounted == \A t \in Text : Citations(t) \in Nat
<1> SUFFICES ASSUME NEW t \in Text PROVE Citations(t) \in Nat
  OBVIOUS
<1>1. t.cites \subseteq Article
  BY DEF Text
<1>2. Cardinality(t.cites) \in Nat
  BY <1>1, FS_Subset, FS_CardinalityType, GraphAssumption
<1> QED BY <1>2 DEF Citations

\* A rule decides exactly the questions that are blocked or are a front end's task.
LEMMA RuledScopes ==
  ASSUME NEW q \in Question
  PROVE  /\ RuledScope(q) \in {"", "security_block", "prc_block", "passthrough"}
         /\ Blocked(q) <=> RuledScope(q) \in {"security_block", "prc_block"}
BY DEF Question, RuledScope, Blocked

\* verify complains only while retries remain, and only in its own words.
LEMMA Complaints ==
  ASSUME NEW t, NEW n \in 0..MaxRetries
  PROVE  /\ Complaint(t, n) \in {"", "ungrounded", "contradictory", "structure"}
         /\ Complaint(t, n) # "" => n < MaxRetries
BY GraphAssumption DEF Complaint, Passes

\* What verify lets pass is grounded, and contradictory only at the end of the budget.
LEMMA PassedIsGrounded ==
  ASSUME NEW t \in Text, NEW n \in 0..MaxRetries,
         Complaint(t, n) = "", ~Withheld(t, n)
  PROVE  /\ Ungrounded(t) = {}
         /\ t.cites \subseteq Evidence \cup (t.denied \cap asked.articles)
         /\ Contradictory(t) => n = MaxRetries
<1>1. Ungrounded(t) = {}
  BY GraphAssumption DEF Complaint, Withheld
<1>2. t.cites \subseteq Evidence \cup (t.denied \cap asked.articles)
  BY <1>1 DEF Ungrounded, HonestlyMissing
<1>3. Contradictory(t) => n = MaxRetries
  BY <1>1, GraphAssumption DEF Complaint
<1> QED BY <1>1, <1>2, <1>3

\* A text that cites nothing is grounded and does not contradict itself.
LEMMA BlankIsGrounded ==
  ASSUME NEW a, NEW t, t = Blank(a)
  PROVE  Ungrounded(t) = {} /\ ~Contradictory(t) /\ t.cites = {}
BY DEF Blank, Empty, Ungrounded, Contradictory

\* One more retry, while some remain, stays within the budget.
LEMMA RetryFits ==
  ASSUME NEW n \in 0..MaxRetries, n < MaxRetries
  PROVE  n + 1 \in 0..MaxRetries /\ n + 1 # 0 /\ n + 1 > 0
BY GraphAssumption

LEMMA InitInv == Init => GraphInv
<1> SUFFICES ASSUME Init PROVE GraphInv
  OBVIOUS
<1>0. Blank("none") \in Text /\ 0 \in 0..MaxRetries
  BY TextsAreTyped, GraphAssumption
<1>1. TypeOK
  BY <1>0 DEF Init, TypeOK, Node, Scope
<1>2. Fresh /\ ScopeFits /\ BlockedPath /\ FixedText /\ Drafting
  BY DEF Init, Fresh, ScopeFits, BlockedPath, FixedText, Drafting, FixedTextNodes
<1>3. CitesOnlyEvidence /\ NoEarlyContradiction
  BY DEF Init, CitesOnlyEvidence, NoEarlyContradiction
<1> QED BY <1>1, <1>2, <1>3 DEF GraphInv

\* classify, whichever way the scope s was found.
LEMMA ClassifiedInv ==
  ASSUME GraphInv, node = "classify",
         NEW s \in {"legal", "capability", "reject", "passthrough", "security_block", "prc_block"},
         Classified(s),
         s \in {"security_block", "prc_block"} <=> Blocked(asked),
         exposed' \in BOOLEAN,
         Blocked(asked) => ~exposed',
         s \in FixedTextNodes \/ s = "legal"
  PROVE  GraphInv'
<1> USE DEF Classified, Route
<1>1. TypeOK'
  BY DEF GraphInv, TypeOK, Node, Scope
<1>2. Fresh' /\ ScopeFits' /\ FixedText' /\ Drafting'
  BY DEF GraphInv, Fresh, ScopeFits, FixedText, Drafting, FixedTextNodes
<1>3. BlockedPath'
  BY DEF GraphInv, BlockedPath, Blocked
<1>4. CitesOnlyEvidence' /\ NoEarlyContradiction'
  BY DEF CitesOnlyEvidence, NoEarlyContradiction
<1> QED BY <1>1, <1>2, <1>3, <1>4 DEF GraphInv

LEMMA NextInv == GraphInv /\ [Next]_vars => GraphInv'
<1> SUFFICES ASSUME GraphInv, [Next]_vars PROVE GraphInv'
  OBVIOUS
<1> USE DEF GraphInv
<1>1. CASE ClassifyByRule
  <2>1. asked \in Question /\ ~exposed
    BY <1>1 DEF ClassifyByRule, TypeOK, Fresh
  <2>2. RuledScope(asked) \in {"security_block", "prc_block", "passthrough"}
    BY <1>1, <2>1, RuledScopes DEF ClassifyByRule
  <2>3. Blocked(asked) <=> RuledScope(asked) \in {"security_block", "prc_block"}
    BY <2>1, RuledScopes
  <2>4. node = "classify" /\ Classified(RuledScope(asked)) /\ exposed' = FALSE
    BY <1>1, <2>1 DEF ClassifyByRule, TypeOK
  <2>5. RuledScope(asked) \in FixedTextNodes
    BY <2>2 DEF FixedTextNodes
  <2> QED BY <2>2, <2>3, <2>4, <2>5, ClassifiedInv
<1>2. CASE ClassifyByModel
  <2>1. asked \in Question
    BY DEF TypeOK
  <2>2. ~Blocked(asked)
    BY <1>2, <2>1, RuledScopes DEF ClassifyByModel
  <2> QED BY <1>2, <2>2, ClassifiedInv DEF ClassifyByModel, FixedTextNodes
<1>3. CASE ClassifyByWords
  <2>1. asked \in Question
    BY DEF TypeOK
  <2>2. ~Blocked(asked)
    BY <1>3, <2>1, RuledScopes DEF ClassifyByWords
  <2> QED BY <1>3, <2>2, ClassifiedInv DEF ClassifyByWords, FixedTextNodes
<1>4. CASE Refusal
  <2> USE <1>4 DEF Refusal, Reply
  <2>1. TypeOK'
    BY TextsAreTyped DEF TypeOK, Node, Blank, Empty, Text
  <2>2. Fresh' /\ ScopeFits' /\ FixedText' /\ Drafting'
    BY DEF Fresh, ScopeFits, FixedText, Drafting, FixedTextNodes
  <2>3. BlockedPath'
    BY DEF BlockedPath, ScopeFits, FixedTextNodes, Blocked
  <2>4. CitesOnlyEvidence' /\ NoEarlyContradiction'
    BY DEF CitesOnlyEvidence, NoEarlyContradiction, ScopeFits, FixedTextNodes
  <2> QED BY <2>1, <2>2, <2>3, <2>4
<1>5. CASE Passthrough
  <2> USE <1>5 DEF Passthrough, Reply
  <2>1. generation' \in Text
    BY TextsAreTyped
  <2>2. TypeOK'
    BY <2>1 DEF TypeOK, Node
  <2>3. Fresh' /\ ScopeFits' /\ FixedText' /\ Drafting'
    BY DEF Fresh, ScopeFits, FixedText, Drafting, FixedTextNodes
  <2>4. BlockedPath'
    BY DEF BlockedPath, Blocked
  <2>5. CitesOnlyEvidence' /\ NoEarlyContradiction'
    BY DEF CitesOnlyEvidence, NoEarlyContradiction, ScopeFits, FixedTextNodes
  <2> QED BY <2>2, <2>3, <2>4, <2>5
<1>6. CASE RetrieveNothing \/ Retrieve
  <2>1. /\ node = "retrieve" /\ node' = "generate"
        /\ sources' \subseteq Article \cup {Plain}
        /\ docs' \subseteq Article
        /\ UNCHANGED <<asked, scope, retry, generation, count, feedback, tail, exposed>>
    <3>1. CASE RetrieveNothing
      BY <3>1 DEF RetrieveNothing
    <3>2. CASE Retrieve
      BY <3>2 DEF Retrieve, Retrieved
    <3> QED BY <1>6, <3>1, <3>2
  <2>2. TypeOK'
    BY <2>1 DEF TypeOK, Node
  <2>3. Fresh' /\ ScopeFits' /\ FixedText' /\ Drafting'
    BY <2>1, GraphAssumption DEF Fresh, ScopeFits, FixedText, Drafting, FixedTextNodes
  <2>4. BlockedPath' /\ CitesOnlyEvidence' /\ NoEarlyContradiction'
    BY <2>1 DEF BlockedPath, Blocked, CitesOnlyEvidence, NoEarlyContradiction
  <2> QED BY <2>2, <2>3, <2>4
<1>7. CASE Generate \/ GenerateFails
  <2>1. /\ node = "generate" /\ node' = "verify"
        /\ generation' \in Text /\ generation'.by \in {"model", "error"}
        /\ tail' = "model" /\ count' \in Nat /\ exposed' = TRUE
        /\ UNCHANGED <<asked, scope, retry, sources, docs, feedback>>
    <3>1. CASE Generate
      <4>1. PICK t \in Draft : Reply(t, "verify") /\ count' = Citations(t)
        BY <3>1 DEF Generate
      <4>2. t \in Text /\ t.by = "model"
        BY TextsAreTyped
      <4>3. Citations(t) \in Nat
        BY <4>2, CitationsAreCounted
      <4> QED BY <3>1, <4>1, <4>2, <4>3 DEF Generate, Reply
    <3>2. CASE GenerateFails
      <4>1. PICK f \in {"brief", "loose"} : Reply(Empty("error", f), "verify")
        BY <3>2 DEF GenerateFails
      <4>2. Empty("error", f) \in Text
        BY TextsAreTyped
      <4>3. Empty("error", f).by = "error"
        BY DEF Blank, Empty
      <4> QED BY <3>2, <4>1, <4>2, <4>3 DEF GenerateFails, Reply
    <3> QED BY <1>7, <3>1, <3>2
  <2>2. TypeOK'
    BY <2>1 DEF TypeOK, Node
  <2>3. Fresh' /\ ScopeFits' /\ FixedText' /\ Drafting'
    BY <2>1 DEF Fresh, ScopeFits, FixedText, Drafting, FixedTextNodes
  <2>4. BlockedPath' /\ CitesOnlyEvidence' /\ NoEarlyContradiction'
    BY <2>1 DEF BlockedPath, Blocked, CitesOnlyEvidence, NoEarlyContradiction
  <2> QED BY <2>2, <2>3, <2>4
<1>8. CASE VerifyRetry
  <2> USE <1>8 DEF VerifyRetry
  <2>1. /\ retry \in 0..MaxRetries /\ retry < MaxRetries
        /\ Complaint(generation, retry) \in {"", "ungrounded", "contradictory", "structure"}
    BY Complaints DEF TypeOK
  <2>a. retry + 1 \in 0..MaxRetries /\ retry + 1 # 0 /\ retry + 1 > 0
    BY <2>1, RetryFits
  <2>2. TypeOK'
    BY <2>1, <2>a DEF TypeOK, Node, Scope
  <2>3. Fresh' /\ ScopeFits' /\ FixedText' /\ Drafting'
    <3>1. tail = "model" /\ retry' # 0 /\ retry' > 0
      BY <2>a DEF Drafting
    <3> QED BY <3>1 DEF Fresh, ScopeFits, FixedText, Drafting, FixedTextNodes
  <2>4. BlockedPath' /\ CitesOnlyEvidence' /\ NoEarlyContradiction'
    BY DEF BlockedPath, Blocked, CitesOnlyEvidence, NoEarlyContradiction
  <2> QED BY <2>2, <2>3, <2>4
<1>9. CASE VerifyWithhold
  <2> USE <1>9 DEF VerifyWithhold
  <2>1. TypeOK'
    BY TextsAreTyped DEF TypeOK, Node, Scope, Blank, Empty, Text
  <2>2. Fresh' /\ ScopeFits' /\ FixedText' /\ Drafting'
    BY DEF Fresh, ScopeFits, FixedText, Drafting, FixedTextNodes
  <2>3. BlockedPath'
    BY DEF BlockedPath, Blocked
  <2>4. CitesOnlyEvidence' /\ NoEarlyContradiction'
    BY DEF CitesOnlyEvidence, NoEarlyContradiction, Contradictory, Blank, Empty
  <2> QED BY <2>1, <2>2, <2>3, <2>4
<1>10. CASE VerifyPass
  <2> USE <1>10 DEF VerifyPass
  <2>1. TypeOK'
    BY DEF TypeOK, Node, Scope
  <2>2. Fresh' /\ ScopeFits' /\ FixedText' /\ Drafting'
    BY DEF Fresh, ScopeFits, FixedText, Drafting, FixedTextNodes
  <2>3. BlockedPath'
    BY DEF BlockedPath, Blocked
  <2>4. /\ generation.cites \subseteq Evidence \cup (generation.denied \cap asked.articles)
        /\ Contradictory(generation) => retry = MaxRetries
    BY PassedIsGrounded DEF TypeOK
  <2>5. CitesOnlyEvidence' /\ NoEarlyContradiction'
    BY <2>4 DEF CitesOnlyEvidence, NoEarlyContradiction, Contradictory, Evidence
  <2> QED BY <2>1, <2>2, <2>3, <2>5
<1>11. CASE UNCHANGED vars
  <2>1. /\ node' = node /\ asked' = asked /\ scope' = scope /\ retry' = retry
        /\ sources' = sources /\ docs' = docs /\ generation' = generation
        /\ count' = count /\ feedback' = feedback /\ tail' = tail /\ exposed' = exposed
    BY <1>11 DEF vars
  <2>2. TypeOK'
    BY <2>1 DEF TypeOK
  <2>3. Fresh' /\ ScopeFits'
    BY <2>1 DEF Fresh, ScopeFits
  <2>4. BlockedPath'
    BY <2>1 DEF BlockedPath, Blocked
  <2>5. FixedText' /\ Drafting'
    BY <2>1 DEF FixedText, Drafting
  <2>6. CitesOnlyEvidence'
    BY <2>1 DEF CitesOnlyEvidence, Evidence
  <2>7. NoEarlyContradiction'
    BY <2>1 DEF NoEarlyContradiction, Contradictory, Evidence
  <2> QED BY <2>2, <2>3, <2>4, <2>5, <2>6, <2>7
<1> QED BY <1>1, <1>2, <1>3, <1>4, <1>5, <1>6, <1>7, <1>8, <1>9, <1>10, <1>11 DEF Next

\* Whatever the model writes and the index returns, GraphInv holds throughout.
THEOREM GraphInvariant == Spec => []GraphInv
<1>1. Init => GraphInv
  BY InitInv
<1>2. GraphInv /\ [Next]_vars => GraphInv'
  BY NextInv
<1> QED BY <1>1, <1>2, PTL DEF Spec

\* The variables keep their types; verify never counts past MAX_RETRIES.
THEOREM GraphTypes == Spec => []TypeOK
<1>1. GraphInv => TypeOK
  BY DEF GraphInv
<1> QED BY <1>1, GraphInvariant, PTL

\* For any articles, any index and any number of retries, a verified answer cites
\* only what was retrieved or what it honestly reports missing.
THEOREM VerifiedIsGrounded == Spec => []CitesOnlyEvidence
<1>1. GraphInv => CitesOnlyEvidence
  BY DEF GraphInv
<1> QED BY <1>1, GraphInvariant, PTL

\* A question stopped by rule is never sent to the model and gets a fixed text.
THEOREM BlockedNeverExposed == Spec => []BlockedStaysInside
<1>1. GraphInv => BlockedStaysInside
  <2> SUFFICES ASSUME GraphInv, asked.threat \/ asked.prc
               PROVE  ~exposed /\ (node = "END" => generation.by = "rule")
    BY DEF BlockedStaysInside
  <2>1. ~exposed /\ (node = "END" => scope \in {"prc_block", "security_block"})
    BY DEF GraphInv, BlockedPath, Blocked
  <2>2. node = "END" => generation = Blank("rule")
    BY <2>1 DEF GraphInv, FixedText, FixedTextNodes
  <2> QED BY <2>1, <2>2 DEF Blank, Empty
<1> QED BY <1>1, GraphInvariant, PTL

\* A contradictory answer is accepted only when the retry budget is spent.
THEOREM ContradictionRetried == Spec => []NoEarlyContradiction
<1>1. GraphInv => NoEarlyContradiction
  BY DEF GraphInv
<1> QED BY <1>1, GraphInvariant, PTL

\* The gate's view of a step that neither ends the question nor touches the draft.
LEMMA QuietStep ==
  ASSUME node # "END", node' # "END",
         UNCHANGED <<asked, retry>>,
         (scope = "passthrough" \/ Ungrounded(generation) = {})
            <=> (scope = "passthrough" \/ Ungrounded(generation) = {})'
  PROVE  UNCHANGED Gate!vars
BY DEF Gate!vars, Verdict, Blocked

\* Every step of the graph is a step of the gate, or none.
LEMMA StepIsGateStep == GraphInv /\ GraphInv' /\ [Next]_vars => [Gate!Next]_(Gate!vars)
<1> DEFINE Sound == scope = "passthrough" \/ Ungrounded(generation) = {}
<1> SUFFICES ASSUME GraphInv, GraphInv', [Next]_vars
             PROVE  Gate!Next \/ UNCHANGED Gate!vars
  OBVIOUS
<1> USE DEF GraphInv
<1>b. \A a \in {"none", "rule", "model", "error", "failsafe"} : Ungrounded(Blank(a)) = {}
  BY BlankIsGrounded
<1>1. CASE ClassifyByRule \/ ClassifyByModel \/ ClassifyByWords
  <2>1. /\ node = "classify" /\ node' # "END"
        /\ generation = Blank("none") /\ generation' = generation
        /\ UNCHANGED <<asked, retry, sources, docs>>
    BY <1>1 DEF ClassifyByRule, ClassifyByModel, ClassifyByWords, Classified, Fresh,
                Route, RuledScope
  <2>2. Ungrounded(generation) = {} /\ Ungrounded(generation)' = {}
    BY <2>1, <1>b, BlankIsGrounded DEF Ungrounded, HonestlyMissing, Evidence, Blank, Empty
  <2> QED BY <2>1, <2>2, QuietStep
<1>2. CASE Refusal
  <2>1. /\ scope \in FixedTextNodes \ {"passthrough"} /\ retry = 0
        /\ node # "END" /\ node' = "END" /\ scope' = scope
        /\ generation = Blank("none") /\ generation' = Blank("rule")
        /\ UNCHANGED <<asked, retry, sources, docs>>
    BY <1>2 DEF Refusal, Reply, ScopeFits, FixedTextNodes
  <2>2. Ungrounded(generation) = {} /\ Ungrounded(generation)' = {}
    BY <2>1, <1>b, BlankIsGrounded DEF Ungrounded, HonestlyMissing, Evidence, Blank, Empty
  <2>3. Verdict = "pending" /\ Verdict' = "refused"
    BY <2>1 DEF Verdict, FixedTextNodes
  <2>4. Gate!Refuse
    BY <2>1, <2>2, <2>3 DEF Gate!Refuse, Blocked
  <2> QED BY <2>4 DEF Gate!Next
<1>3. CASE Passthrough
  <2>1. /\ node = "passthrough" /\ node' = "END" /\ scope = "passthrough" /\ scope' = scope
        /\ retry = 0 /\ UNCHANGED <<asked, retry>>
    BY <1>3 DEF Passthrough, Reply, ScopeFits, FixedTextNodes
  <2>2. ~Blocked(asked)
    BY <2>1 DEF BlockedPath
  <2>3. Verdict = "pending" /\ Verdict' = "relayed"
    BY <2>1 DEF Verdict
  <2>4. Gate!Relay
    BY <2>1, <2>2, <2>3 DEF Gate!Relay, Blocked
  <2> QED BY <2>4 DEF Gate!Next
<1>4. CASE RetrieveNothing \/ Retrieve
  <2>1. /\ node = "retrieve" /\ node' = "generate" /\ scope' = scope
        /\ generation = Blank("none") /\ generation' = generation
        /\ UNCHANGED <<asked, retry>>
    BY <1>4 DEF RetrieveNothing, Retrieve, ScopeFits
  <2>2. Ungrounded(generation) = {} /\ Ungrounded(generation)' = {}
    BY <2>1 DEF Ungrounded, Blank, Empty
  <2> QED BY <2>1, <2>2, QuietStep
<1>5. CASE Generate \/ GenerateFails
  <2>1. /\ node = "generate" /\ node' = "verify" /\ UNCHANGED <<asked, retry, scope>>
    BY <1>5 DEF Generate, GenerateFails, Reply
  <2>2. ~Blocked(asked)
    BY <2>1 DEF BlockedPath
  <2>3. Verdict = "pending" /\ Verdict' = "pending"
    BY <2>1 DEF Verdict
  <2>4. Gate!Draft
    BY <2>1, <2>2, <2>3 DEF Gate!Draft, Blocked
  <2> QED BY <2>4 DEF Gate!Next
<1>6. CASE VerifyRetry
  <2>1. /\ node = "verify" /\ node' = "generate" /\ retry' = retry + 1
        /\ scope # "passthrough" /\ scope' # "passthrough"
        /\ UNCHANGED <<asked, generation, sources, docs>>
    BY <1>6 DEF VerifyRetry, ScopeFits
  <2>2. retry < MaxRetries
    BY <1>6, Complaints DEF VerifyRetry, TypeOK
  <2>3. ~Blocked(asked)
    BY <2>1 DEF BlockedPath
  <2>4. Verdict = "pending" /\ Verdict' = "pending"
    BY <2>1 DEF Verdict
  <2>5. Ungrounded(generation)' = Ungrounded(generation)
    BY <2>1 DEF Ungrounded, HonestlyMissing, Evidence
  <2>6. Gate!SendBack
    BY <2>1, <2>2, <2>3, <2>4, <2>5 DEF Gate!SendBack, Blocked
  <2> QED BY <2>6 DEF Gate!Next
<1>7. CASE VerifyWithhold
  <2>1. /\ node = "verify" /\ node' = "END" /\ scope' = "verified" /\ scope # "passthrough"
        /\ generation' = Blank("failsafe") /\ Withheld(generation, retry)
        /\ UNCHANGED <<asked, retry, sources, docs>>
    BY <1>7 DEF VerifyWithhold, ScopeFits
  <2>2. retry = MaxRetries /\ Ungrounded(generation) # {}
    <3>1. retry \in 0..MaxRetries /\ retry >= MaxRetries /\ Ungrounded(generation) # {}
      BY <2>1 DEF Withheld, TypeOK
    <3>2. \A n \in 0..MaxRetries : n >= MaxRetries => n = MaxRetries
      BY GraphAssumption
    <3> QED BY <3>1, <3>2
  <2>3. Ungrounded(generation)' = {}
    BY <2>1 DEF Ungrounded, Blank, Empty
  <2>4. Verdict = "pending" /\ Verdict' = "withheld"
    BY <2>1 DEF Verdict, Blank, Empty
  <2>5. Gate!Withhold
    BY <2>1, <2>2, <2>3, <2>4 DEF Gate!Withhold, Blocked
  <2> QED BY <2>5 DEF Gate!Next
<1>8. CASE VerifyPass
  <2>1. /\ node = "verify" /\ node' = "END" /\ scope' = "verified" /\ scope # "passthrough"
        /\ Complaint(generation, retry) = "" /\ ~Withheld(generation, retry)
        /\ UNCHANGED <<asked, retry, generation, sources, docs>>
    BY <1>8 DEF VerifyPass, ScopeFits
  <2>2. Ungrounded(generation) = {}
    BY <2>1, PassedIsGrounded DEF TypeOK
  <2>3. Ungrounded(generation)' = {}
    BY <2>1, <2>2 DEF Ungrounded, HonestlyMissing, Evidence
  <2>4. ~Blocked(asked)
    BY <2>1 DEF BlockedPath
  <2>5. generation.by \in {"model", "error"}
    BY <2>1 DEF Drafting
  <2>6. Verdict = "pending" /\ Verdict' = "answered"
    BY <2>1, <2>5 DEF Verdict
  <2>7. Gate!Answer
    BY <2>1, <2>2, <2>3, <2>4, <2>6 DEF Gate!Answer, Blocked
  <2> QED BY <2>7 DEF Gate!Next
<1>9. CASE UNCHANGED vars
  BY <1>9 DEF vars, Gate!vars, Verdict, Blocked, Ungrounded, HonestlyMissing, Evidence
<1> QED BY <1>1, <1>2, <1>3, <1>4, <1>5, <1>6, <1>7, <1>8, <1>9 DEF Next

\* The graph implements the answer gate: refused, relayed, answered only when sound,
\* withheld only when unsound with every retry spent.
THEOREM GraphIsGate == Spec => ImplementsGate
<1>1. Init => Gate!Init
  <2> SUFFICES ASSUME Init PROVE Gate!Init
    OBVIOUS
  <2>1. Ungrounded(generation) = {}
    BY BlankIsGrounded DEF Init
  <2>2. Blocked(asked) \in BOOLEAN
    BY DEF Init, Question, Blocked
  <2> QED BY <2>1, <2>2 DEF Init, Gate!Init, Verdict
<1> QED BY <1>1, GraphInvariant, StepIsGateStep, PTL DEF Spec, ImplementsGate, Gate!Spec

(* ---------------------------- sets put in order -------------------------- *)

Below(S, before, x) == {y \in S : <<y, x>> \in before}
StrictOrder(S, before) ==
  /\ \A x \in S : <<x, x>> \notin before
  /\ \A x, y, z \in S : <<x, y>> \in before /\ <<y, z>> \in before => <<x, z>> \in before
  /\ \A x, y \in S : x = y \/ <<x, y>> \in before \/ <<y, x>> \in before

\* In a strict order of a finite set no two members have as many others before them, so
\* those numbers are the places of the members.
LEMMA OrderRanks ==
  ASSUME NEW S, IsFiniteSet(S), NEW before, StrictOrder(S, before)
  PROVE  /\ Cardinality(S) \in Nat
         /\ \A n \in 1..Cardinality(S) :
              /\ InOrder(S, before)[n] \in S
              /\ Cardinality(Below(S, before, InOrder(S, before)[n])) = n - 1
         /\ \A x \in S : /\ IsFiniteSet(Below(S, before, x))
                         /\ Cardinality(Below(S, before, x)) \in 0..(Cardinality(S) - 1)
                         /\ InOrder(S, before)[Cardinality(Below(S, before, x)) + 1] = x
         /\ \A m, n \in 1..Cardinality(S) :
              m < n => <<InOrder(S, before)[m], InOrder(S, before)[n]>> \in before
<1> DEFINE rank(x) == Cardinality(Below(S, before, x))
           size == Cardinality(S)
           o == InOrder(S, before)
<1>0. size \in Nat
  BY FS_CardinalityType
<1>1. ASSUME NEW x \in S
      PROVE  IsFiniteSet(Below(S, before, x)) /\ rank(x) \in 0..(size - 1)
  <2>1. IsFiniteSet(S \ {x}) /\ Cardinality(S \ {x}) = size - 1
    BY FS_RemoveElement
  <2>2. Below(S, before, x) \in SUBSET (S \ {x})
    BY DEF Below, StrictOrder
  <2>3. IsFiniteSet(Below(S, before, x)) /\ rank(x) <= size - 1
    BY <2>1, <2>2, FS_Subset
  <2>4. rank(x) \in Nat
    BY <2>3, FS_CardinalityType
  <2>5. QED
    BY <1>0, <2>3, <2>4
<1>2. ASSUME NEW x \in S, NEW y \in S, <<x, y>> \in before
      PROVE  rank(x) < rank(y)
  <2>1. x \notin Below(S, before, x) /\ Below(S, before, x) \cup {x} \in SUBSET Below(S, before, y)
    BY <1>2 DEF Below, StrictOrder
  <2>2. Cardinality(Below(S, before, x) \cup {x}) = rank(x) + 1
    BY <1>1, <2>1, FS_AddElement
  <2>3. rank(x) + 1 <= rank(y)
    BY <1>1, <2>1, <2>2, FS_Subset
  <2>4. QED
    BY <1>1, <2>3
<1>3. ASSUME NEW x \in S, NEW y \in S, rank(x) = rank(y)
      PROVE  x = y
  <2>1. rank(x) \in Nat /\ rank(y) \in Nat
    BY <1>0, <1>1
  <2>2. ~(rank(x) < rank(y)) /\ ~(rank(y) < rank(x))
    BY <1>3, <2>1
  <2>3. QED
    BY <1>2, <2>2 DEF StrictOrder
<1>4. ASSUME NEW k \in 0..(size - 1)
      PROVE  \E x \in S : rank(x) = k
  <2> DEFINE f == [x \in S |-> rank(x)]
             T == 0..(size - 1)
  <2>0. f \in [S -> T] /\ \A x \in S : f[x] = rank(x)
    BY <1>1
  <2>1. f \in Injection(S, T)
    BY <1>3, <2>0 DEF Injection, IsInjective
  <2>2. IsFiniteSet(T) /\ Cardinality(T) = size
    BY <1>0, FS_Interval
  <2>3. f \in Surjection(S, T)
    BY <2>1, <2>2, FS_Injection
  <2>4. QED
    BY <2>3 DEF Surjection
<1>5. ASSUME NEW n \in 1..size
      PROVE  o[n] \in S /\ rank(o[n]) = n - 1
  <2>1. \E x \in S : rank(x) = n - 1
    BY <1>0, <1>4
  <2>2. o[n] = CHOOSE x \in S : rank(x) = n - 1
    BY DEF InOrder, Below
  <2>3. QED
    BY <2>1, <2>2
<1>6. ASSUME NEW x \in S
      PROVE  o[rank(x) + 1] = x
  <2>1. rank(x) + 1 \in 1..size /\ (rank(x) + 1) - 1 = rank(x)
    BY <1>0, <1>1
  <2>2. QED
    BY <1>3, <1>5, <2>1
<1>7. ASSUME NEW m \in 1..size, NEW n \in 1..size, m < n
      PROVE  <<o[m], o[n]>> \in before
  <2>1. o[m] \in S /\ o[n] \in S /\ rank(o[m]) < rank(o[n]) /\ rank(o[m]) \in Nat /\ rank(o[n]) \in Nat
    BY <1>0, <1>5, <1>7
  <2>2. o[m] # o[n] /\ <<o[n], o[m]>> \notin before
    BY <1>2, <2>1
  <2>3. QED
    BY <2>1, <2>2 DEF StrictOrder
<1>8. QED
  BY <1>0, <1>1, <1>5, <1>6, <1>7

Places(n) == {p \in n \X n : p[1] < p[2]}

\* A list of what stands in some places of another, in that order.
PickOf(got, s, places) ==
  /\ Cardinality(places) \in Nat /\ Len(got) = Cardinality(places)
  /\ DOMAIN got = 1..Cardinality(places)
  /\ \A n \in DOMAIN got : \E i \in places : got[n] = s[i]
  /\ \A i \in places : \E n \in DOMAIN got : got[n] = s[i]
  /\ \A m, n \in DOMAIN got : m < n => \E i, j \in places : i < j /\ got[m] = s[i] /\ got[n] = s[j]
  /\ \A m \in Nat : 1..m \subseteq places =>
       m <= Cardinality(places) /\ \A n \in 1..m : got[n] = s[n]

\* What is picked from a sequence is what stands in the places picked, in that order, and
\* begins like the sequence when the first places are all among them.
LEMMA PickedIs ==
  ASSUME NEW X, NEW s \in Seq(X), NEW places \in SUBSET (1..Len(s))
  PROVE  Picked(s, places) \in Seq(X) /\ PickOf(Picked(s, places), s, places)
<1> DEFINE before == Places(places)
           o == InOrder(places, before)
           size == Cardinality(places)
           got == Picked(s, places)
<1>0. Len(s) \in Nat /\ \A i \in places : i \in 1..Len(s) /\ s[i] \in X
  OBVIOUS
<1>1. IsFiniteSet(places)
  <2>1. IsFiniteSet(1..Len(s))
    BY <1>0, FS_Interval
  <2>2. QED
    BY <2>1, FS_Subset
<1>2. StrictOrder(places, before)
  BY <1>0 DEF StrictOrder, Places
<1>3. /\ size \in Nat
      /\ \A n \in 1..size : o[n] \in places /\ Cardinality(Below(places, before, o[n])) = n - 1
      /\ \A x \in places : o[Cardinality(Below(places, before, x)) + 1] = x
      /\ \A m, n \in 1..size : m < n => <<o[m], o[n]>> \in before
  BY <1>1, <1>2, OrderRanks
<1>3a. \A x \in places : Cardinality(Below(places, before, x)) \in 0..(size - 1)
  BY <1>1, <1>2, OrderRanks
<1>4. got = [n \in 1..size |-> s[o[n]]]
  BY DEF Picked, Places
<1>5. got \in Seq(X) /\ Len(got) = size
  <2>1. \A n \in 1..size : s[o[n]] \in X
    BY <1>0, <1>3
  <2>2. QED
    BY <1>3, <1>4, <2>1
<1>6. \A n \in 1..size : \E i \in places : got[n] = s[i]
  BY <1>3, <1>4
<1>7. ASSUME NEW i \in places
      PROVE  \E n \in 1..size : got[n] = s[i]
  <2> DEFINE n == Cardinality(Below(places, before, i)) + 1
  <2>1. n \in 1..size /\ o[n] = i
    BY <1>3, <1>3a
  <2>2. QED
    BY <1>4, <2>1
<1>8. ASSUME NEW m \in 1..size, NEW n \in 1..size, m < n
      PROVE  \E i, j \in places : i < j /\ got[m] = s[i] /\ got[n] = s[j]
  <2>1. o[m] \in places /\ o[n] \in places /\ o[m] < o[n]
    BY <1>3, <1>8 DEF Places
  <2>2. QED
    BY <1>4, <2>1
<1>9. ASSUME NEW m \in Nat, 1..m \subseteq places
      PROVE  m <= size /\ \A n \in 1..m : got[n] = s[n]
  <2>0. Cardinality(1..m) = m
    BY FS_Interval
  <2>1. m <= size
    BY <1>1, <1>9, <2>0, FS_Subset
  <2>2. ASSUME NEW n \in 1..m
        PROVE  got[n] = s[n]
    <3>0. n \in places /\ 1..(n - 1) \subseteq places
      BY <1>9
    <3>1. Below(places, before, n) = 1..(n - 1)
      <4>1. \A y \in places : <<y, n>> \in before <=> y < n
        BY <3>0 DEF Places
      <4>2. \A y \in places : y < n <=> y \in 1..(n - 1)
        BY <1>0
      <4>3. QED
        BY <3>0, <4>1, <4>2 DEF Below
    <3>2. Cardinality(1..(n - 1)) = n - 1
      BY FS_Interval
    <3>3. o[n] = n
      BY <1>3, <1>9, <3>1, <3>2
    <3>4. QED
      BY <1>3, <1>4, <2>1, <3>3
  <2>3. QED
    BY <2>1, <2>2
<1>10. DOMAIN got = 1..size
  BY <1>4
<1>11. /\ \A n \in DOMAIN got : \E i \in places : got[n] = s[i]
       /\ \A i \in places : \E n \in DOMAIN got : got[n] = s[i]
  BY <1>6, <1>7, <1>10
<1>12. \A m, n \in DOMAIN got :
         m < n => \E i, j \in places : i < j /\ got[m] = s[i] /\ got[n] = s[j]
  BY <1>8, <1>10
<1>13. PickOf(got, s, places)
  <2> HIDE DEF got
  <2>1. QED
    BY <1>3, <1>5, <1>9, <1>10, <1>11, <1>12 DEF PickOf
<1>14. QED
  BY <1>5, <1>13

\* A set of natural numbers has a least one.
LEMMA LeastPlace ==
  ASSUME NEW T, T \subseteq Nat, T # {}
  PROVE  \E x \in T : \A y \in T : x <= y
<1>1. \E R : IsWellFoundedOn(R, Nat) /\ \A x, y \in Nat : y < x => <<y, x>> \in R
  <2> DEFINE R == {r \in Nat \X Nat : r[1] < r[2]}
  <2>1. R = OpToRel(<, Nat)
    BY DEF OpToRel
  <2>2. IsWellFoundedOn(R, Nat)
    BY <2>1, NatLessThanWellFounded
  <2>3. \A x, y \in Nat : y < x => <<y, x>> \in R
    OBVIOUS
  <2>4. QED
    BY <2>2, <2>3
<1>2. PICK R : IsWellFoundedOn(R, Nat) /\ \A x, y \in Nat : y < x => <<y, x>> \in R
  BY <1>1
<1>3. PICK x \in T : \A y \in T : ~ (<<y, x>> \in R)
  BY <1>2, WFMin
<1>4. ASSUME NEW y \in T
      PROVE  x <= y
  <2>1. x \in Nat /\ y \in Nat /\ ~(y < x)
    BY <1>2, <1>3
  <2>2. QED
    BY <2>1
<1>5. QED
  BY <1>4

(* ------------------------ documents of different texts ------------------- *)

\* Where the first document of each text stands.
FirstPlaces(s, start) ==
  {i \in DOMAIN s : \A j \in 1..(i - 1) : TextOf(s[j], start) # TextOf(s[i], start)}

\* Of documents that start alike one stays, the first.
LEMMA DistinctIs ==
  ASSUME NEW s \in Seq(Document), NEW start
  PROVE  /\ Distinct(s, start) \in Seq(Document)
         /\ start = Beginning => NoRepeats(Distinct(s, start))
         /\ \A i \in DOMAIN s : \E k \in DOMAIN s, n \in DOMAIN Distinct(s, start) :
              k <= i /\ Distinct(s, start)[n] = s[k] /\ TextOf(s[k], start) = TextOf(s[i], start)
         /\ s # <<>> => Distinct(s, start) # <<>>
<1> DEFINE places == FirstPlaces(s, start)
           d == Distinct(s, start)
           key(x) == TextOf(x, start)
<1>0. DOMAIN s = 1..Len(s) /\ Len(s) \in Nat
  OBVIOUS
<1>1. places \in SUBSET (1..Len(s)) /\ d = Picked(s, places)
  BY <1>0 DEF FirstPlaces, Distinct
<1>2. d \in Seq(Document) /\ PickOf(d, s, places)
  BY <1>1, PickedIs
<1>3. /\ DOMAIN d = 1..Len(d) /\ Len(d) \in Nat
      /\ \A n \in DOMAIN d : \E i \in places : d[n] = s[i]
      /\ \A i \in places : \E n \in DOMAIN d : d[n] = s[i]
      /\ \A m, n \in DOMAIN d : m < n =>
           \E i, j \in places : i < j /\ d[m] = s[i] /\ d[n] = s[j]
  BY <1>2 DEF PickOf
<1>4. start = Beginning => NoRepeats(d)
  <2>1. \A m, n \in DOMAIN d : m < n => key(d[m]) # key(d[n])
    <3> SUFFICES ASSUME NEW m \in DOMAIN d, NEW n \in DOMAIN d, m < n
                 PROVE  key(d[m]) # key(d[n])
      OBVIOUS
    <3>1. PICK i \in places, j \in places : i < j /\ d[m] = s[i] /\ d[n] = s[j]
      BY <1>3
    <3>2. i \in 1..(j - 1)
      BY <1>0, <1>1, <3>1
    <3>3. QED
      BY <3>1, <3>2 DEF FirstPlaces
  <2>2. \A m, n \in DOMAIN d : m < n \/ n < m \/ m = n
    BY <1>3
  <2>3. QED
    BY <2>1, <2>2 DEF NoRepeats
<1>5. ASSUME NEW i \in DOMAIN s
      PROVE  \E k \in places : k <= i /\ key(s[k]) = key(s[i])
  <2> DEFINE T == {k \in DOMAIN s : key(s[k]) = key(s[i])}
  <2>1. PICK k \in T : \A j \in T : k <= j
    <3>1. T \subseteq Nat /\ T # {}
      BY <1>0
    <3>2. QED
      BY <3>1, LeastPlace
  <2>2. \A j \in 1..(k - 1) : j \in DOMAIN s /\ ~(k <= j)
    BY <1>0
  <2>3. k <= i
    BY <2>1
  <2>4. k \in places
    BY <2>1, <2>2 DEF FirstPlaces
  <2>5. QED
    BY <2>1, <2>3, <2>4
<1>6. ASSUME NEW i \in DOMAIN s
      PROVE  \E k \in DOMAIN s, n \in DOMAIN d : k <= i /\ d[n] = s[k] /\ key(s[k]) = key(s[i])
  <2>1. PICK k \in places : k <= i /\ key(s[k]) = key(s[i])
    BY <1>5
  <2>2. PICK n \in DOMAIN d : d[n] = s[k]
    BY <1>3
  <2>3. k \in DOMAIN s
    BY <1>0, <1>1
  <2>4. QED
    BY <2>1, <2>2, <2>3
<1>8. ASSUME s # <<>>
      PROVE  d # <<>>
  <2>1. 1 \in DOMAIN s
    BY <1>0, <1>8
  <2>2. \E n \in DOMAIN d : TRUE
    BY <1>3, <1>5, <2>1
  <2>3. QED
    BY <2>2
<1>9. QED
  BY <1>2, <1>4, <1>6, <1>8

\* A list whose texts differ stays where it is when others are put behind it.
LEMMA DistinctKeeps ==
  ASSUME NEW s \in Seq(Document), NEW t \in Seq(Document), NoRepeats(s)
  PROVE  /\ Len(s) <= Len(Merged(s, t))
         /\ \A n \in 1..Len(s) : Merged(s, t)[n] = s[n]
<1> DEFINE u == s \o t
           places == FirstPlaces(u, Beginning)
           d == Distinct(u, Beginning)
<1>0. /\ u \in Seq(Document) /\ DOMAIN u = 1..Len(u) /\ Len(u) \in Nat
      /\ Len(s) \in Nat /\ DOMAIN s = 1..Len(s) /\ Len(s) <= Len(u)
      /\ \A n \in 1..Len(s) : u[n] = s[n]
  OBVIOUS
<1>1. places \in SUBSET (1..Len(u)) /\ d = Picked(u, places)
  BY <1>0 DEF FirstPlaces, Distinct
<1>2. 1..Len(s) \subseteq places
  <2> SUFFICES ASSUME NEW n \in 1..Len(s)
               PROVE  n \in places
    OBVIOUS
  <2>1. n \in DOMAIN u
    BY <1>0
  <2>2. \A j \in 1..(n - 1) : j \in 1..Len(s) /\ j # n
    BY <1>0
  <2>3. \A j \in 1..(n - 1) : TextOf(u[j], Beginning) # TextOf(u[n], Beginning)
    BY <1>0, <2>2 DEF NoRepeats
  <2>4. QED
    BY <2>1, <2>3 DEF FirstPlaces
<1>3. PickOf(d, u, places)
  BY <1>0, <1>1, PickedIs
<1>4. /\ Len(s) <= Len(d)
      /\ \A n \in 1..Len(s) : d[n] = u[n]
  BY <1>0, <1>2, <1>3 DEF PickOf
<1>5. QED
  BY <1>0, <1>4 DEF Merged

(* -------------------------- the sources take turns ----------------------- *)

Order(s) == {p \in (1..Len(s)) \X (1..Len(s)) : Sooner(s, p[1], p[2])}

\* Turns grow along a source, and a bucket belongs to one source.
LEMMA TurnsGrow ==
  ASSUME NEW s \in Seq(Document), NEW i \in 1..Len(s)
  PROVE  /\ Turn(s, i) \in Nat /\ Turn(s, i) > 0
         /\ Bucket(s, i) \in 1..i /\ Source(s[Bucket(s, i)]) = Source(s[i])
         /\ \A j \in 1..Len(s) : i < j /\ Source(s[i]) = Source(s[j]) => Turn(s, i) < Turn(s, j)
<1> DEFINE same(j) == {k \in 1..j : Source(s[k]) = Source(s[j])}
<1>1. ASSUME NEW j \in 1..Len(s)
      PROVE  IsFiniteSet(same(j)) /\ Turn(s, j) = Cardinality(same(j)) /\ Turn(s, j) \in Nat
  <2>1. IsFiniteSet(1..j)
    BY FS_Interval
  <2>2. IsFiniteSet(same(j))
    BY <2>1, FS_Subset
  <2>3. QED
    BY <2>2, FS_CardinalityType DEF Turn
<1>2. Turn(s, i) > 0
  <2>1. i \in same(i)
    OBVIOUS
  <2>2. Turn(s, i) # 0
    BY <1>1, <2>1, FS_EmptySet
  <2>3. Turn(s, i) \in Nat
    BY <1>1
  <2>4. QED
    BY <2>2, <2>3
<1>3. Bucket(s, i) \in 1..i /\ Source(s[Bucket(s, i)]) = Source(s[i])
  <2>1. same(i) \subseteq Nat /\ same(i) # {}
    OBVIOUS
  <2>2. PICK b \in same(i) : \A k \in same(i) : b <= k
    BY <2>1, LeastPlace
  <2>3. \A k \in 1..(b - 1) : k \in 1..i /\ ~(b <= k)
    OBVIOUS
  <2>4. \E c \in 1..i : /\ Source(s[c]) = Source(s[i])
                        /\ \A k \in 1..(c - 1) : Source(s[k]) # Source(s[i])
    BY <2>2, <2>3
  <2>5. QED
    BY <2>4 DEF Bucket
<1>4. ASSUME NEW j \in 1..Len(s), i < j, Source(s[i]) = Source(s[j])
      PROVE  Turn(s, i) < Turn(s, j)
  <2>0. /\ IsFiniteSet(same(i)) /\ Turn(s, i) = Cardinality(same(i)) /\ Turn(s, i) \in Nat
        /\ IsFiniteSet(same(j)) /\ Turn(s, j) = Cardinality(same(j)) /\ Turn(s, j) \in Nat
    BY <1>1
  <2>1. j \notin same(i) /\ same(i) \cup {j} \in SUBSET same(j)
    BY <1>4
  <2> HIDE DEF same
  <2>2. Cardinality(same(i) \cup {j}) = Turn(s, i) + 1
    BY <2>0, <2>1, FS_AddElement
  <2>3. Turn(s, i) + 1 <= Turn(s, j)
    BY <2>0, <2>1, <2>2, FS_Subset
  <2>4. QED
    BY <2>0, <2>3
<1>5. QED
  BY <1>1, <1>2, <1>3, <1>4

LEMMA TurnsOrder ==
  ASSUME NEW s \in Seq(Document)
  PROVE  StrictOrder(1..Len(s), Order(s))
<1> DEFINE places == 1..Len(s)
<1>1. \A i \in places : Turn(s, i) \in Nat /\ Bucket(s, i) \in Nat
  BY TurnsGrow
<1>2. \A i, j \in places : <<i, j>> \in Order(s) <=> Sooner(s, i, j)
  BY DEF Order
<1>3. \A i \in places : ~Sooner(s, i, i)
  BY <1>1 DEF Sooner
<1>4. \A i, j, k \in places : Sooner(s, i, j) /\ Sooner(s, j, k) => Sooner(s, i, k)
  BY <1>1 DEF Sooner
<1>5. ASSUME NEW i \in places, NEW j \in places, ~Sooner(s, i, j), ~Sooner(s, j, i)
      PROVE  i = j
  <2>1. Turn(s, i) = Turn(s, j) /\ Bucket(s, i) = Bucket(s, j)
    BY <1>1, <1>5 DEF Sooner
  <2>2. Source(s[i]) = Source(s[j])
    BY <2>1, TurnsGrow
  <2>3. ~(i < j) /\ ~(j < i)
    BY <1>1, <2>1, <2>2, TurnsGrow
  <2>4. QED
    BY <2>3
<1>6. QED
  BY <1>2, <1>3, <1>4, <1>5 DEF StrictOrder

\* Where a source has its first turn: in one place for each source.
FirstTurns(s) == {i \in 1..Len(s) : Turn(s, i) = 1}

LEMMA OneFirstTurn ==
  ASSUME NEW s \in Seq(Document)
  PROVE  /\ IsFiniteSet(FirstTurns(s)) /\ IsFiniteSet(Sources(s))
         /\ Cardinality(FirstTurns(s)) = Cardinality(Sources(s))
         /\ \A k \in Sources(s) : \E i \in FirstTurns(s) : Source(s[i]) = k
<1> DEFINE F == FirstTurns(s)
           K == Sources(s)
           f == [i \in F |-> Source(s[i])]
<1>0. IsFiniteSet(F)
  <2>1. IsFiniteSet(1..Len(s))
    BY FS_Interval
  <2>2. QED
    BY <2>1, FS_Subset DEF FirstTurns
<1>1. K = {Source(s[i]) : i \in 1..Len(s)}
  BY DEF Sources, ToSet
<1>2. ASSUME NEW k \in K
      PROVE  \E i \in F : Source(s[i]) = k
  <2> DEFINE T == {i \in 1..Len(s) : Source(s[i]) = k}
  <2>1. T \subseteq Nat /\ T # {}
    BY <1>1
  <2>2. PICK i \in T : \A j \in T : i <= j
    BY <2>1, LeastPlace
  <2>3. {j \in 1..i : Source(s[j]) = Source(s[i])} = {i}
    BY <2>2
  <2>4. Turn(s, i) = 1
    BY <2>3, FS_Singleton DEF Turn
  <2>5. QED
    BY <2>4 DEF FirstTurns
<1>3. f \in [F -> K]
  BY <1>1 DEF FirstTurns
<1>4. f \in Surjection(F, K)
  BY <1>2, <1>3 DEF Surjection
<1>5. \A i, j \in F : Source(s[i]) = Source(s[j]) => i = j
  <2>1. ASSUME NEW i \in F, NEW j \in F, Source(s[i]) = Source(s[j])
        PROVE  ~(i < j)
    BY <2>1, TurnsGrow DEF FirstTurns
  <2>2. \A i, j \in F : i < j \/ j < i \/ i = j
    BY DEF FirstTurns
  <2>3. QED
    BY <2>1, <2>2
<1>6. f \in Injection(F, K)
  BY <1>3, <1>5 DEF Injection, IsInjective
<1>7. IsFiniteSet(K) /\ Cardinality(K) = Cardinality(F)
  BY <1>0, <1>4, <1>6, FS_Surjection
<1>8. QED
  BY <1>0, <1>2, <1>7

\* Where the sources take turns, every text comes once and every source has its first
\* turn before any has its second.
LEMMA RoundRobinIs ==
  ASSUME NEW hits \in Seq(Document)
  PROVE  /\ RoundRobin(hits) \in Seq(Document) /\ NoRepeats(RoundRobin(hits))
         /\ Heads(RoundRobin(hits), Sources(RoundRobin(hits)))
<1> DEFINE s == Distinct(hits, Beginning)
           key(x) == TextOf(x, Beginning)
           places == 1..Len(s)
           o == InOrder(places, Order(s))
           t == RoundRobin(hits)
           F == FirstTurns(s)
           rank(i) == Cardinality(Below(places, Order(s), i))
<1>1. s \in Seq(Document) /\ NoRepeats(s) /\ DOMAIN s = places /\ Len(s) \in Nat
  BY DistinctIs
<1>2. IsFiniteSet(places) /\ Cardinality(places) = Len(s)
  <2>1. Len(s) \in Int /\ 1 \in Int /\ (IF 1 > Len(s) THEN 0 ELSE Len(s) - 1 + 1) = Len(s)
    BY <1>1
  <2>2. QED
    BY <2>1, FS_Interval
<1>3. /\ \A n \in places : o[n] \in places
      /\ \A i \in places : rank(i) \in 0..(Len(s) - 1) /\ o[rank(i) + 1] = i
      /\ \A m, n \in places : m < n => <<o[m], o[n]>> \in Order(s)
  BY <1>1, <1>2, TurnsOrder, OrderRanks
<1>4. t = [n \in places |-> s[o[n]]]
  BY DEF RoundRobin, Order
<1>5. t \in Seq(Document) /\ Len(t) = Len(s) /\ DOMAIN t = places
  <2>1. \A n \in places : s[o[n]] \in Document
    BY <1>1, <1>3
  <2>2. QED
    BY <1>1, <1>4, <2>1
<1>6. \A m, n \in places : o[m] = o[n] => m = n
  <2>1. \A m, n \in places : m < n => o[m] # o[n]
    BY <1>1, <1>3, TurnsOrder DEF StrictOrder
  <2>2. \A m, n \in places : m < n \/ n < m \/ m = n
    BY <1>1
  <2>3. QED
    BY <2>1, <2>2
<1>7. NoRepeats(t)
  <2>1. \A n \in places : t[n] = s[o[n]] /\ o[n] \in places
    BY <1>3, <1>4
  <2>2. \A i, j \in places : key(s[i]) = key(s[j]) => i = j
    BY <1>1 DEF NoRepeats
  <2>3. \A m, n \in places : key(t[m]) = key(t[n]) => m = n
    <3>1. ASSUME NEW m \in places, NEW n \in places, key(t[m]) = key(t[n])
          PROVE  m = n
      <4>1. key(s[o[m]]) = key(s[o[n]]) /\ o[m] \in places /\ o[n] \in places
        BY <2>1, <3>1
      <4>2. o[m] = o[n]
        BY <2>2, <4>1
      <4>3. QED
        BY <1>6, <4>2
    <3>2. QED
      BY <3>1
  <2>4. QED
    BY <1>5, <2>3 DEF NoRepeats
<1>8. Sources(t) = Sources(s)
  <2>1. \A i \in places : rank(i) + 1 \in places
    BY <1>1, <1>3
  <2>2. Sources(t) = {Source(t[n]) : n \in places} /\ Sources(s) = {Source(s[i]) : i \in places}
    BY <1>1, <1>5 DEF Sources, ToSet
  <2>3. /\ \A n \in places : \E i \in places : Source(t[n]) = Source(s[i])
        /\ \A i \in places : \E n \in places : Source(t[n]) = Source(s[i])
    <3>1. \A n \in places : t[n] = s[o[n]] /\ o[n] \in places
      BY <1>3, <1>4
    <3>2. \A i \in places : t[rank(i) + 1] = s[i]
      BY <1>3, <2>1, <3>1
    <3>3. QED
      BY <2>1, <3>1, <3>2
  <2>4. QED
    BY <2>2, <2>3
<1>9. /\ IsFiniteSet(F) /\ Cardinality(F) = Cardinality(Sources(s)) /\ Cardinality(F) \in Nat
      /\ \A k \in Sources(s) : \E i \in F : Source(s[i]) = k
      /\ F \in SUBSET places
  BY <1>1, OneFirstTurn, FS_CardinalityType DEF FirstTurns
<1>10. Cardinality(F) <= Len(t)
  BY <1>2, <1>5, <1>9, FS_Subset
<1>11. ASSUME NEW i \in F
       PROVE  rank(i) + 1 \in 1..Cardinality(F) /\ t[rank(i) + 1] = s[i]
  <2>1. Below(places, Order(s), i) \in SUBSET (F \ {i})
    <3>1. ASSUME NEW j \in places, <<j, i>> \in Order(s)
          PROVE  j \in F \ {i}
      <4>1. Sooner(s, j, i)
        BY <3>1 DEF Order
      <4>2. /\ Turn(s, i) = 1 /\ Turn(s, j) \in Nat /\ Turn(s, j) > 0
            /\ Bucket(s, i) \in Nat /\ Bucket(s, j) \in Nat
        BY <1>1, <1>9, TurnsGrow DEF FirstTurns
      <4>3. QED
        BY <4>1, <4>2 DEF Sooner, FirstTurns
    <3>2. QED
      BY <3>1 DEF Below
  <2>2. IsFiniteSet(F \ {i}) /\ Cardinality(F \ {i}) = Cardinality(F) - 1
    BY <1>9, FS_RemoveElement
  <2>3. rank(i) <= Cardinality(F) - 1
    BY <2>1, <2>2, FS_Subset
  <2>4. i \in places /\ rank(i) \in 0..(Len(s) - 1) /\ o[rank(i) + 1] = i
    BY <1>3, <1>9
  <2>5. QED
    BY <1>1, <1>4, <1>9, <2>3, <2>4
<1>12. {Source(t[n]) : n \in 1..Cardinality(F)} = Sources(s)
  <2>1. \A n \in 1..Cardinality(F) : Source(t[n]) \in Sources(t)
    BY <1>5, <1>9, <1>10 DEF Sources, ToSet
  <2>2. \A k \in Sources(s) : \E n \in 1..Cardinality(F) : Source(t[n]) = k
    BY <1>9, <1>11
  <2>3. QED
    BY <1>8, <2>1, <2>2
<1>13. QED
  BY <1>5, <1>7, <1>8, <1>9, <1>10, <1>12 DEF Heads

(* ------------------------------ cut and merged --------------------------- *)

LEMMA FirstIs ==
  ASSUME NEW X, NEW s \in Seq(X), NEW n \in Nat
  PROVE  /\ First(s, n) \in Seq(X)
         /\ n <= Len(s) => Len(First(s, n)) = n
         /\ n >= Len(s) => First(s, n) = s
         /\ DOMAIN First(s, n) = 1..Len(First(s, n)) /\ Len(First(s, n)) \in Nat
         /\ \A i \in DOMAIN First(s, n) : First(s, n)[i] = s[i] /\ i \in DOMAIN s
<1> DEFINE m == IF n < Len(s) THEN n ELSE Len(s)
<1>1. m \in Nat /\ m <= Len(s) /\ Len(s) \in Nat /\ DOMAIN s = 1..Len(s)
  OBVIOUS
<1>2. First(s, n) = [i \in 1..m |-> s[i]]
  BY <1>1 DEF First
<1>3. First(s, n) \in Seq(X) /\ Len(First(s, n)) = m
  BY <1>1, <1>2
<1>4. QED
  BY <1>1, <1>2, <1>3

\* Sources are among the files of the corpus.
LEMMA SourcesBounded ==
  ASSUME NEW s \in Seq(Document), RetrievalAssumption
  PROVE  /\ Sources(s) \in SUBSET ToSet(Corpus) /\ IsFiniteSet(ToSet(Corpus))
         /\ IsFiniteSet(Sources(s)) /\ Cardinality(Sources(s)) \in Nat
         /\ Cardinality(Sources(s)) <= Len(Corpus)
<1> DEFINE f == [i \in 1..Len(Corpus) |-> Corpus[i]]
<1>1. Len(Corpus) \in Nat /\ DOMAIN Corpus = 1..Len(Corpus)
  BY DEF RetrievalAssumption
<1>2. f \in Surjection(1..Len(Corpus), ToSet(Corpus))
  BY <1>1 DEF Surjection, ToSet
<1>3. IsFiniteSet(1..Len(Corpus)) /\ Cardinality(1..Len(Corpus)) = Len(Corpus)
  <2>1. 1 \in Int /\ Len(Corpus) \in Int
        /\ (IF 1 > Len(Corpus) THEN 0 ELSE Len(Corpus) - 1 + 1) = Len(Corpus)
    BY <1>1
  <2>2. QED
    BY <2>1, FS_Interval
<1>4. IsFiniteSet(ToSet(Corpus)) /\ Cardinality(ToSet(Corpus)) <= Len(Corpus)
  BY <1>2, <1>3, FS_Surjection
<1>5. Sources(s) \in SUBSET ToSet(Corpus)
  <2>0. \A i \in DOMAIN s : s[i] \in Document
    OBVIOUS
  <2>1. \A i \in DOMAIN s : s[i].article \in LawArticle
    BY <2>0 DEF Document
  <2>2. \A i \in DOMAIN s : SourceOf[s[i].article] \in ToSet(Corpus)
    BY <2>1 DEF RetrievalAssumption
  <2>3. QED
    BY <2>2 DEF Sources, Source, ToSet
<1>6. IsFiniteSet(Sources(s)) /\ Cardinality(Sources(s)) <= Cardinality(ToSet(Corpus))
  BY <1>4, <1>5, FS_Subset
<1>7. Cardinality(Sources(s)) \in Nat /\ Cardinality(ToSet(Corpus)) \in Nat
  BY <1>4, <1>6, FS_CardinalityType
<1>8. QED
  BY <1>1, <1>4, <1>5, <1>6, <1>7

\* Merging leaves each text once and the beginning of the first list as it is.
LEMMA MergedIs ==
  ASSUME NEW s \in Seq(Document), NEW t \in Seq(Document)
  PROVE  /\ Merged(s, t) \in Seq(Document) /\ NoRepeats(Merged(s, t))
         /\ \A K : IsFiniteSet(K) /\ NoRepeats(s) /\ Heads(s, K) => Heads(Merged(s, t), K)
<1>1. s \o t \in Seq(Document)
  OBVIOUS
<1>2. Merged(s, t) \in Seq(Document) /\ NoRepeats(Merged(s, t))
  BY <1>1, DistinctIs DEF Merged
<1>3. ASSUME NEW K, IsFiniteSet(K), NoRepeats(s), Heads(s, K)
      PROVE  Heads(Merged(s, t), K)
  <2>1. /\ Len(s) <= Len(Merged(s, t))
        /\ \A n \in 1..Len(s) : Merged(s, t)[n] = s[n]
    BY <1>3, DistinctKeeps
  <2>2. Cardinality(K) \in Nat /\ Len(s) \in Nat /\ Len(Merged(s, t)) \in Nat
    BY <1>2, <1>3, FS_CardinalityType
  <2>3. Cardinality(K) <= Len(s)
    BY <1>3 DEF Heads
  <2>4. \A n \in 1..Cardinality(K) : Merged(s, t)[n] = s[n]
    BY <2>1, <2>2, <2>3
  <2>5. {Source(Merged(s, t)[n]) : n \in 1..Cardinality(K)} = {Source(s[n]) : n \in 1..Cardinality(K)}
    BY <2>4
  <2>6. {Source(s[n]) : n \in 1..Cardinality(K)} = K
    BY <1>3 DEF Heads
  <2>7. Cardinality(K) <= Len(Merged(s, t))
    BY <2>1, <2>2, <2>3
  <2>8. QED
    BY <2>5, <2>6, <2>7 DEF Heads
<1>4. QED
  BY <1>2, <1>3

\* A list that begins with every source and is cut has them all, or as many as it has places.
LEMMA CutHeads ==
  ASSUME NEW s \in Seq(Document), NEW K, IsFiniteSet(K), Heads(s, K), NEW n \in Nat
  PROVE  /\ Cardinality(K) <= n => K \subseteq Sources(First(s, n))
         /\ n < Cardinality(K) => Cardinality(Sources(First(s, n))) = n
<1> DEFINE c == Cardinality(K)
           b == First(s, n)
<1>1. c \in Nat /\ Len(s) \in Nat /\ c <= Len(s) /\ K = {Source(s[i]) : i \in 1..c}
  BY FS_CardinalityType DEF Heads
<1>2. /\ b \in Seq(Document) /\ DOMAIN b = 1..Len(b) /\ Len(b) \in Nat
      /\ n <= Len(s) => Len(b) = n
      /\ n >= Len(s) => b = s
      /\ \A i \in DOMAIN b : b[i] = s[i]
  BY FirstIs
<1>3. Sources(b) = {Source(b[i]) : i \in DOMAIN b}
  BY DEF Sources, ToSet
<1>4. ASSUME c <= n
      PROVE  K \subseteq Sources(b)
  <2>0. c <= Len(b)
    <3>1. CASE n <= Len(s)
      BY <1>2, <1>4, <3>1
    <3>2. CASE n >= Len(s)
      BY <1>1, <1>2, <3>2
    <3>3. QED
      BY <1>1, <3>1, <3>2
  <2>1. \A i \in 1..c : i \in DOMAIN b /\ b[i] = s[i]
    <3>1. c \in Nat /\ Len(b) \in Nat
      BY <1>1, <1>2
    <3>2. \A i \in 1..c : i \in 1..Len(b)
      BY <2>0, <3>1
    <3>3. \A i \in 1..c : i \in DOMAIN b
      BY <1>2, <3>2
    <3>4. QED
      BY <1>2, <3>3
  <2>2. QED
    BY <1>1, <1>3, <2>1
<1>5. ASSUME n < c
      PROVE  Cardinality(Sources(b)) = n
  <2> DEFINE f == [i \in 1..c |-> Source(s[i])]
             g == [i \in 1..n |-> Source(b[i])]
  <2>1. Len(b) = n
    <3>1. n <= Len(s)
      BY <1>1, <1>5
    <3>2. QED
      BY <1>2, <3>1
  <2>2. f \in Surjection(1..c, K)
    BY <1>1 DEF Surjection
  <2>3. IsFiniteSet(1..c) /\ Cardinality(1..c) = c
    <3>1. (IF 1 > c THEN 0 ELSE c - 1 + 1) = c
      BY <1>1
    <3>2. QED
      BY <1>1, <3>1, FS_Interval
  <2>4. f \in Injection(1..c, K)
    BY <2>2, <2>3, FS_SurjSameCardinalityImpliesInj
  <2>5. \A i, j \in 1..c : Source(s[i]) = Source(s[j]) => i = j
    BY <2>4 DEF Injection, IsInjective
  <2>6. \A i \in 1..n : i \in 1..c /\ b[i] = s[i]
    BY <1>1, <1>2, <1>5, <2>1
  <2>7. g \in [1..n -> Sources(b)]
    BY <1>2, <1>3, <2>1
  <2>8. g \in Surjection(1..n, Sources(b))
    BY <1>2, <1>3, <2>1, <2>7 DEF Surjection
  <2>9. \A i, j \in 1..n : g[i] = g[j] => i = j
    BY <2>5, <2>6
  <2>10. g \in Injection(1..n, Sources(b))
    BY <2>7, <2>9 DEF Injection, IsInjective
  <2>11. IsFiniteSet(1..n) /\ Cardinality(1..n) = n
    <3>1. (IF 1 > n THEN 0 ELSE n - 1 + 1) = n
      OBVIOUS
    <3>2. QED
      BY <3>1, FS_Interval
  <2>12. QED
    BY <2>8, <2>10, <2>11, FS_Surjection
<1>6. QED
  BY <1>4, <1>5

(* --------------------------- one list after another ---------------------- *)

Joined(ss, f, i) == IF i = 1 THEN ss[i] ELSE f[i - 1] \o ss[i]

\* Lists of documents put one after another are a list of documents.
LEMMA FlattenIs ==
  ASSUME NEW ss \in Seq(Seq(Document))
  PROVE  FlattenSeq(ss) \in Seq(Document)
<1> DEFINE Rec(f, m) == f = [i \in 1..m |-> Joined(ss, f, i)]
<1>0. Len(ss) \in Nat /\ \A i \in 1..Len(ss) : ss[i] \in Seq(Document)
  OBVIOUS
<1>1. ASSUME NEW m \in Nat
      PROVE  \E f : Rec(f, m)
  <2> DEFINE bad == {k \in Nat : ~ \E f : Rec(f, k)}
  <2> SUFFICES ASSUME bad # {}
               PROVE  FALSE
    OBVIOUS
  <2>1. PICK k \in bad : \A j \in bad : k <= j
    BY LeastPlace
  <2>2. CASE k = 0
    <3> DEFINE f == [i \in 1..0 |-> <<>>]
    <3>1. f = [i \in 1..0 |-> Joined(ss, f, i)]
      OBVIOUS
    <3>2. QED
      BY <2>2, <3>1
  <2>3. CASE k # 0
    <3>1. k - 1 \in Nat /\ k - 1 \notin bad
      BY <2>1, <2>3
    <3>2. PICK g : Rec(g, k - 1)
      BY <3>1
    <3>3. \A i \in 1..(k - 1) : g[i] = Joined(ss, g, i)
      <4> SUFFICES ASSUME NEW i \in 1..(k - 1)
                   PROVE  g[i] = Joined(ss, g, i)
        OBVIOUS
      <4>1. g[i] = [j \in 1..(k - 1) |-> Joined(ss, g, j)][i]
        BY <3>2
      <4>2. QED
        BY <4>1
    <3> DEFINE f == [i \in 1..k |-> IF i = k THEN Joined(ss, g, k) ELSE g[i]]
    <3>4. ASSUME NEW i \in 1..k
          PROVE  f[i] = Joined(ss, f, i)
      <4>1. f[i] = Joined(ss, g, i)
        <5>1. CASE i = k
          BY <5>1
        <5>2. CASE i # k
          <6>1. i \in 1..(k - 1) /\ f[i] = g[i]
            BY <5>2
          <6>2. QED
            BY <3>3, <6>1
        <5>3. QED
          BY <5>1, <5>2
      <4>2. i # 1 => f[i - 1] = g[i - 1]
        OBVIOUS
      <4>3. QED
        BY <4>1, <4>2 DEF Joined
    <3>5. f = [i \in 1..k |-> Joined(ss, f, i)]
      BY <3>4
    <3>6. k \notin bad
      BY <3>5
    <3>7. QED
      BY <2>1, <3>6
  <2>4. QED
    BY <2>2, <2>3
<1>2. CASE Len(ss) = 0
  BY <1>0, <1>2 DEF FlattenSeq
<1>3. CASE Len(ss) # 0
  <2> DEFINE n == Len(ss)
             h == CHOOSE f : f = [i \in 1..n |-> IF i = 1 THEN ss[i] ELSE f[i - 1] \o ss[i]]
  <2>1. FlattenSeq(ss) = h[n]
    BY <1>3 DEF FlattenSeq
  <2>2. Rec(h, n)
    BY <1>0, <1>1 DEF Joined
  <2> HIDE DEF h
  <2>3. \A i \in 1..n : h[i] = Joined(ss, h, i)
    <3> SUFFICES ASSUME NEW i \in 1..n
                 PROVE  h[i] = Joined(ss, h, i)
      OBVIOUS
    <3>1. h[i] = [j \in 1..n |-> Joined(ss, h, j)][i]
      BY <2>2
    <3>2. QED
      BY <3>1
  <2> DEFINE bad == {i \in 1..n : h[i] \notin Seq(Document)}
  <2>4. bad = {}
    <3> SUFFICES ASSUME bad # {}
                 PROVE  FALSE
      OBVIOUS
    <3>1. PICK k \in bad : \A j \in bad : k <= j
      <4>1. bad \subseteq Nat
        BY <1>0
      <4>2. QED
        BY <4>1, LeastPlace
    <3>2. k \in 1..n /\ h[k] \notin Seq(Document) /\ ss[k] \in Seq(Document)
      BY <1>0
    <3>3. k # 1
      BY <2>3, <3>2 DEF Joined
    <3>4. k - 1 \in 1..n /\ k - 1 \notin bad
      BY <1>0, <3>1, <3>2, <3>3
    <3>5. h[k - 1] \in Seq(Document) /\ h[k] = h[k - 1] \o ss[k]
      BY <2>3, <3>2, <3>3, <3>4 DEF Joined
    <3>6. QED
      BY <3>2, <3>5
  <2>5. n \in 1..n
    BY <1>0, <1>3
  <2>6. QED
    BY <2>1, <2>4, <2>5
<1>4. QED
  BY <1>2, <1>3

(* ------------------------------- the searches ---------------------------- *)

\* What a request holds is typed.
LEMMA LocalTyped ==
  ASSUME RetrievalAssumption, NEW l \in Local
  PROVE  /\ \A t \in {l.question, l.text} :
              t \in Search /\ t.order \in Seq(Document) /\ t.words \in Seq(LawArticle)
         /\ l.pinned \in Seq(Document) /\ l.found \in Seq(Document)
         /\ l.scoped \in Seq(Document) /\ l.best \in Seq(Document) /\ l.answer \in Seq(Document)
         /\ l.reached \in SUBSET ToSet(Corpus) /\ IsFiniteSet(l.reached)
<1>1. /\ l.question \in Search /\ l.text \in Search
      /\ l.pinned \in Seq(Document) /\ l.found \in Seq(Document)
      /\ l.scoped \in Seq(Document) /\ l.best \in Seq(Document) /\ l.answer \in Seq(Document)
      /\ l.reached \in SUBSET ToSet(Corpus)
  BY DEF Local
<1>2. \A t \in Search : t.order \in Seq(Document) /\ t.words \in Seq(LawArticle)
  BY DEF RetrievalAssumption, Search
<1>3. IsFiniteSet(l.reached)
  BY <1>1, SourcesBounded, FS_Subset
<1>4. QED
  BY <1>1, <1>2, <1>3

\* Every search finds a list of documents.
LEMMA HitsTyped ==
  ASSUME RetrievalAssumption, NEW text \in Search, NEW k \in Nat
  PROVE  /\ Vector(text, k) \in Seq(Document) /\ \A s : VectorIn(text, s, k) \in Seq(Document)
         /\ Chunks(First(text.words, k)) \in Seq(Document)
<1>1. /\ text.order \in Seq(Document) /\ text.words \in Seq(LawArticle)
  BY DEF RetrievalAssumption, Search
<1>2. ASSUME NEW A
      PROVE  Rows(text, A) \in Seq(Document)
  <2>1. {i \in DOMAIN text.order : text.order[i].article \in A} \in SUBSET (1..Len(text.order))
    BY <1>1
  <2>2. QED
    BY <1>1, <2>1, PickedIs DEF Rows
<1>3. Vector(text, k) \in Seq(Document) /\ \A s : VectorIn(text, s, k) \in Seq(Document)
  BY <1>2, FirstIs DEF Vector, VectorIn
<1>4. ASSUME NEW w \in Seq(LawArticle)
      PROVE  Chunks(w) \in Seq(Document)
  <2>1. \A i \in 1..Len(w) : Chunk(w[i]) \in Document
    BY DEF Chunk, Document
  <2>2. QED
    BY <2>1 DEF Chunks
<1>5. First(text.words, k) \in Seq(LawArticle)
  BY <1>1, FirstIs
<1>6. QED
  BY <1>3, <1>4, <1>5

NamedBy(words, wanted) == {a \in ToSet(First(words, MaxPool)) : Mentions[a] \cap wanted # {}}

\* The search for article numbers finds a chunk of every article named, and nothing else.
LEMMA ArticleHitsAre ==
  ASSUME RetrievalAssumption, NEW words \in Seq(LawArticle), NEW wanted
  PROVE  LET hits == ArticleHits(words, wanted)
         IN /\ hits \in Seq(Document)
            /\ \A i \in DOMAIN hits : \E a \in NamedBy(words, wanted) : hits[i] = Chunk(a)
            /\ \A a \in NamedBy(words, wanted) : \E i \in DOMAIN hits : hits[i] = Chunk(a)
<1> DEFINE w == First(words, MaxPool)
           places == {i \in DOMAIN w : Mentions[w[i]] \cap wanted # {}}
           p == Picked(w, places)
<1>1. w \in Seq(LawArticle) /\ places \in SUBSET (1..Len(w)) /\ DOMAIN w = 1..Len(w)
  BY FirstIs DEF RetrievalAssumption
<1>2. p \in Seq(LawArticle) /\ PickOf(p, w, places)
  BY <1>1, PickedIs
<1>3. NamedBy(words, wanted) = {w[i] : i \in places}
  BY DEF NamedBy, ToSet
<1>4. ArticleHits(words, wanted) = [i \in 1..Len(p) |-> Chunk(p[i])]
  BY DEF ArticleHits, Chunks
<1> HIDE DEF w, places, p
<1>5. \A i \in 1..Len(p) : Chunk(p[i]) \in Document
  BY <1>2 DEF Chunk, Document
<1>6. /\ DOMAIN p = 1..Len(p) /\ Len(p) \in Nat
      /\ \A n \in DOMAIN p : \E i \in places : p[n] = w[i]
      /\ \A i \in places : \E n \in DOMAIN p : p[n] = w[i]
  BY <1>2 DEF PickOf
<1>7. QED
  BY <1>3, <1>4, <1>5, <1>6

\* The search by source finds each text once and begins with every source it finds.
LEMMA ScopedIs ==
  ASSUME RetrievalAssumption, RetrievalTypeOK, NEW r \in Request, NEW failed
  PROVE  /\ ScopedHits(r, failed) \in Seq(Document) /\ NoRepeats(ScopedHits(r, failed))
         /\ Heads(ScopedHits(r, failed), Sources(ScopedHits(r, failed)))
<1> DEFINE ss == [i \in 1..Len(Corpus) |->
                    IF Corpus[i] \in failed THEN <<>> ELSE VectorIn(req[r].text, Corpus[i], TopN)]
<1>1. Len(Corpus) \in Nat /\ TopN \in Nat /\ req[r].text \in Search
  BY LocalTyped DEF RetrievalAssumption, RetrievalTypeOK
<1>2. \A s : VectorIn(req[r].text, s, TopN) \in Seq(Document)
  BY <1>1, HitsTyped
<1>3. ss \in Seq(Seq(Document))
  BY <1>1, <1>2
<1>4. FlattenSeq(ss) \in Seq(Document)
  BY <1>3, FlattenIs
<1>5. QED
  BY <1>4, RoundRobinIs DEF ScopedHits

\* Fetching leaves nothing only where there was nothing.
LEMMA FetchedIs ==
  ASSUME RetrievalAssumption, RetrievalTypeOK, NEW hits \in Seq(Document), NEW lost
  PROVE  /\ FetchedOrHits(hits, lost) \in Seq(Document)
         /\ hits # <<>> => FetchedOrHits(hits, lost) # <<>>
<1> DEFINE Repeats(i) == \E j \in 1..(i - 1) : hits[j].kind = "row" /\ hits[j].article = hits[i].article
           places == {i \in DOMAIN hits : hits[i].kind = "row" =>
                                            hits[i].article \in stored \ lost /\ ~Repeats(i)}
           got == Picked(hits, places)
<1>1. places \in SUBSET (1..Len(hits))
  OBVIOUS
<1>2. got \in Seq(Document)
  BY <1>1, PickedIs
<1> HIDE DEF places
<1> HIDE DEF got
<1>3. \A n \in 1..Len(got) : got[n] \in Document
  BY <1>2
<1>4. \A n \in 1..Len(got) : (IF got[n].kind = "row" THEN Parent(got[n].article) ELSE got[n]) \in Document
  BY <1>3 DEF Document, Parent
<1>5. Fetched(hits, lost) = [n \in DOMAIN got |-> IF got[n].kind = "row" THEN Parent(got[n].article) ELSE got[n]]
  BY DEF Fetched, got, places
<1>6. Fetched(hits, lost) \in Seq(Document)
  <2>1. DOMAIN got = 1..Len(got) /\ Len(got) \in Nat
    BY <1>2
  <2>2. Fetched(hits, lost) = [n \in 1..Len(got) |-> IF got[n].kind = "row" THEN Parent(got[n].article) ELSE got[n]]
    BY <1>5, <2>1
  <2>3. QED
    BY <1>4, <2>1, <2>2
<1>7. QED
  BY <1>6 DEF FetchedOrHits

(* ------------------------ what holds of one request ---------------------- *)

Ended(l) == l.pc \in {"respond", "done"}

\* RetrievalInv, of the locals of one request.
LeadsOf(l) == /\ NoRepeats(l.found) /\ Heads(l.found, l.reached)
              /\ Heads(l.scoped, Sources(l.scoped))
PinnedOf(l) ==
  l.pc \notin {"new", "pin"} /\ l.asked # {} /\ ~l.missed =>
    l.pinned = ArticleHits(l.question.words, l.asked)
DecidedOf(l) ==
  IF Ended(l)
    THEN l.best = <<>> => \/ l.pinned # <<>> \/ l.found = <<>>
                          \/ l.verdict = "rejected" /\ l.scoped = <<>>
    ELSE l.verdict = "none"
HeardOf(l) ==
  l.pinned = <<>> =>
    /\ l.verdict = "invalid" => \/ l.reached \subseteq Sources(l.best)
                                \/ Cardinality(Sources(l.best)) = TopN
    /\ l.verdict = "rejected" => Sources(l.best) = Sources(l.scoped)
Whole(s) == {d.article : d \in {x \in ToSet(s) : x.kind # "row"}}
NamedOf(l) ==
  l.pc = "done" /\ ~l.missed =>
    LET named == NamedBy(l.question.words, l.asked)
    IN \A a \in named : \E b \in named \cap Whole(l.answer) : Opening[b] = Opening[a]
FoundOf(l) ==
  l.pc = "done" /\ l.answer = <<>> => /\ l.pinned = <<>>
                                      /\ \/ l.found = <<>>
                                         \/ l.verdict = "rejected" /\ l.scoped = <<>>
RequestInv(l) == l \in Local /\ LeadsOf(l) /\ PinnedOf(l) /\ DecidedOf(l) /\ HeardOf(l)
                 /\ NamedOf(l) /\ FoundOf(l)

\* What a step past the search for article numbers leaves alone of the locals.
Asked(l, m) == /\ m.asked = l.asked /\ m.question = l.question /\ m.missed = l.missed
               /\ m.pinned = l.pinned /\ l.pc \notin {"new", "pin"}

LEMMA InvByRequest ==
  RetrievalInv <=> /\ RetrievalTypeOK
                   /\ \A r \in Request : RequestInv(req[r])
<1>1. RetrievalTypeOK => \A r \in Request : req[r] \in Local
  BY DEF RetrievalTypeOK
<1>2. SourcesLead <=> \A r \in Request : LeadsOf(req[r])
  BY DEF SourcesLead, LeadsOf
<1>3. Decided <=> \A r \in Request : DecidedOf(req[r])
  BY DEF Decided, DecidedOf, Ended
<1>4. SourcesHeard <=> \A r \in Request : HeardOf(req[r])
  BY DEF SourcesHeard, HeardOf
<1>5. NamedArticleAnswered <=> \A r \in Request : NamedOf(req[r])
  BY DEF NamedArticleAnswered, NamedOf, NamedBy, Whole, Replied, At
<1>6. FoundIsAnswered <=> \A r \in Request : FoundOf(req[r])
  BY DEF FoundIsAnswered, FoundOf, Replied, At
<1>7. PinnedFound <=> \A r \in Request : PinnedOf(req[r])
  BY DEF PinnedFound, PinnedOf
<1>8. QED
  BY <1>1, <1>2, <1>3, <1>4, <1>5, <1>6, <1>7 DEF RetrievalInv, RequestInv

\* While a request searches, only the beginnings of its lists are at stake.
LEMMA Searching ==
  ASSUME NEW l \in Local, l.verdict = "none", ~Ended(l), LeadsOf(l), PinnedOf(l)
  PROVE  RequestInv(l)
BY DEF RequestInv, DecidedOf, HeardOf, NamedOf, FoundOf, Ended


(* --------------------------------- the steps ----------------------------- *)

RequestsKept == req' \in [Request -> Local] /\ \A r \in Request : RequestInv(req'[r])

\* A step of one request leaves the others alone.
LEMMA OneMoves ==
  ASSUME RetrievalInv, NEW r \in Request, NEW m, RequestInv(m), req' = [req EXCEPT ![r] = m]
  PROVE  RequestsKept
<1>1. req \in [Request -> Local] /\ \A o \in Request : RequestInv(req[o])
  BY InvByRequest DEF RetrievalTypeOK
<1>2. m \in Local
  BY DEF RequestInv
<1>3. req' \in [Request -> Local] /\ \A o \in Request : req'[o] = m \/ req'[o] = req[o]
  BY <1>1, <1>2
<1>4. QED
  BY <1>1, <1>3 DEF RequestsKept

LEMMA RequestHas ==
  ASSUME RetrievalAssumption, RetrievalInv, NEW r \in Request
  PROVE  /\ RetrievalTypeOK /\ RequestInv(req[r]) /\ req[r] \in Local
         /\ req[r].pinned \in Seq(Document) /\ req[r].found \in Seq(Document)
         /\ req[r].scoped \in Seq(Document) /\ req[r].best \in Seq(Document)
         /\ req[r].answer \in Seq(Document) /\ IsFiniteSet(req[r].reached)
         /\ ~Ended(req[r]) => req[r].verdict = "none"
         /\ LeadsOf(req[r]) /\ PinnedOf(req[r])
<1>1. RetrievalTypeOK /\ RequestInv(req[r]) /\ req[r] \in Local
  BY InvByRequest DEF RequestInv
<1>2. QED
  BY <1>1, LocalTyped DEF RequestInv, DecidedOf

LEMMA DetectKeeps ==
  ASSUME RetrievalAssumption, RetrievalInv, NEW r \in Request, Detect(r)
  PROVE  RequestsKept
<1> DEFINE l == req[r]
           m == [l EXCEPT !.pc = IF l.asked = {} THEN "hybrid" ELSE "pin"]
<1>1. req' = [req EXCEPT ![r] = m] /\ ~Ended(l)
  BY DEF Detect, At, Ended
<1>2. m \in Local /\ m.verdict = "none" /\ ~Ended(m) /\ LeadsOf(m) /\ PinnedOf(m)
  <2>1. l \in Local /\ l.verdict = "none" /\ LeadsOf(l)
    BY <1>1, RequestHas
  <2>2. m \in Local
    BY <2>1 DEF Local
  <2>3. /\ m.verdict = "none" /\ m.found = l.found /\ m.scoped = l.scoped
        /\ m.reached = l.reached /\ m.asked = l.asked
        /\ m.pc = IF l.asked = {} THEN "hybrid" ELSE "pin"
    BY <2>1 DEF Local
  <2>4. QED
    BY <2>1, <2>2, <2>3 DEF Ended, LeadsOf, PinnedOf
<1>3. RequestInv(m)
  BY <1>2, Searching
<1>4. QED
  BY <1>1, <1>3, OneMoves

LEMMA PinKeeps ==
  ASSUME RetrievalAssumption, RetrievalInv, NEW r \in Request, Pin(r)
  PROVE  RequestsKept
<1> DEFINE l == req[r]
           all == ArticleHits(l.question.words, l.asked)
<1>1. PICK hits \in Seq(Document), missed \in BOOLEAN :
        /\ req' = [req EXCEPT ![r] = [l EXCEPT !.pc = "hybrid", !.pinned = hits, !.missed = missed]]
        /\ missed \/ hits = all
  <2>0. l.pinned \in Seq(Document) /\ l \in Local /\ l.missed \in BOOLEAN
    BY RequestHas DEF Local
  <2>1. CASE req' = [req EXCEPT ![r].pc = "hybrid", ![r].pinned = all]
    <3>1. all \in Seq(Document)
      BY <2>0, LocalTyped, ArticleHitsAre
    <3> HIDE DEF all
    <3>2. [l EXCEPT !.pc = "hybrid", !.pinned = all]
            = [l EXCEPT !.pc = "hybrid", !.pinned = all, !.missed = l.missed]
      BY <2>0 DEF Local
    <3>3. req' = [req EXCEPT ![r] = [l EXCEPT !.pc = "hybrid", !.pinned = all, !.missed = l.missed]]
      BY <2>1, <3>2
    <3>4. QED
      BY <2>0, <3>1, <3>3
  <2>2. CASE req' = [req EXCEPT ![r].pc = "hybrid", ![r].missed = TRUE]
    <3>1. [l EXCEPT !.pc = "hybrid", !.missed = TRUE]
            = [l EXCEPT !.pc = "hybrid", !.pinned = l.pinned, !.missed = TRUE]
      BY <2>0 DEF Local
    <3>2. req' = [req EXCEPT ![r] = [l EXCEPT !.pc = "hybrid", !.pinned = l.pinned, !.missed = TRUE]]
      BY <2>2, <3>1
    <3> HIDE DEF all
    <3>3. QED
      BY <2>0, <3>2
  <2>3. QED
    BY <2>1, <2>2 DEF Pin
<1> DEFINE m == [l EXCEPT !.pc = "hybrid", !.pinned = hits, !.missed = missed]
<1>2. ~Ended(l)
  BY DEF Pin, At, Ended
<1>3. m \in Local /\ m.verdict = "none" /\ ~Ended(m) /\ LeadsOf(m) /\ PinnedOf(m)
  <2>1. l \in Local /\ l.verdict = "none" /\ LeadsOf(l)
    BY <1>2, RequestHas
  <2>2. m \in Local
    BY <2>1 DEF Local
  <2>3. /\ m.verdict = "none" /\ m.found = l.found /\ m.scoped = l.scoped
        /\ m.reached = l.reached /\ m.pc = "hybrid" /\ m.asked = l.asked
        /\ m.question = l.question /\ m.missed = missed /\ m.pinned = hits
    BY <2>1 DEF Local
  <2>4. LeadsOf(m) /\ ~Ended(m)
    BY <2>1, <2>3 DEF Ended, LeadsOf
  <2>5. PinnedOf(m)
    BY <1>1, <2>3 DEF PinnedOf
  <2>6. QED
    BY <2>2, <2>3, <2>4, <2>5
<1>4. RequestInv(m)
  BY <1>3, Searching
<1>5. QED
  BY <1>1, <1>4, OneMoves

\* What is added behind the candidates leaves their beginning.
LEMMA AddedBehind ==
  ASSUME RetrievalAssumption, RetrievalInv, NEW r \in Request,
         ~Ended(req[r]), req[r].pc \notin {"new", "pin"}, NEW text \in Search,
         NEW hits \in Seq(Document), NEW scoped \in Seq(Document), Heads(scoped, Sources(scoped)),
         NEW l \in {"scoped", "draft scoped", "filters", "rerank"},
         req' = [req EXCEPT ![r].pc = l, ![r].text = text, ![r].found = Merged(req[r].found, hits),
                            ![r].scoped = scoped]
  PROVE  RequestsKept
<1> DEFINE found == Merged(req[r].found, hits)
           m == [req[r] EXCEPT !.pc = l, !.text = text, !.found = found, !.scoped = scoped]
<1>1. found \in Seq(Document) /\ NoRepeats(found) /\ Heads(found, req[r].reached)
  BY RequestHas, MergedIs DEF LeadsOf
<1> HIDE DEF found
<1>2. m \in Local
  <2>1. req[r] \in Local
    BY RequestHas
  <2>2. QED
    BY <1>1, <2>1 DEF Local
<1>3. /\ m.verdict = "none" /\ ~Ended(m) /\ m.found = found /\ m.scoped = scoped
      /\ m.reached = req[r].reached /\ Asked(req[r], m)
  <2>1. req[r] \in Local /\ req[r].verdict = "none"
    BY RequestHas
  <2>2. /\ m.pc = l /\ m.verdict = req[r].verdict /\ m.found = found /\ m.scoped = scoped
        /\ m.reached = req[r].reached
    BY <2>1 DEF Local
  <2>3. /\ m.asked = req[r].asked /\ m.question = req[r].question
        /\ m.missed = req[r].missed /\ m.pinned = req[r].pinned
    BY <2>1 DEF Local
  <2>4. ~Ended(m)
    BY <2>2 DEF Ended
  <2> HIDE DEF m
  <2>5. QED
    BY <2>1, <2>2, <2>3, <2>4 DEF Asked
<1>3a. LeadsOf(m) /\ PinnedOf(m)
  BY <1>1, <1>3, RequestHas DEF LeadsOf, PinnedOf, Asked
<1>4. RequestInv(m)
  BY <1>2, <1>3, <1>3a, Searching
<1>5. req' = [req EXCEPT ![r] = m]
  BY DEF found
<1>6. QED
  BY <1>4, <1>5, OneMoves

LEMMA HybridKeeps ==
  ASSUME RetrievalAssumption, RetrievalInv, NEW r \in Request, Hybrid(r)
  PROVE  RequestsKept
<1> DEFINE l == req[r]
<1>1. PICK hits \in Seq(Document) :
        req' = [req EXCEPT ![r].pc = IF At(r, "hybrid") THEN "scoped" ELSE "draft scoped",
                           ![r].found = Merged(l.found, hits)]
  <2>1. PICK vector \in BOOLEAN, keyword \in BOOLEAN :
          LET rows == IF vector THEN Vector(l.text, SummaryTopK) ELSE <<>>
              chunks == IF keyword THEN Chunks(First(l.text.words, SummaryTopK)) ELSE <<>>
          IN req' = [req EXCEPT ![r].pc = IF At(r, "hybrid") THEN "scoped" ELSE "draft scoped",
                                ![r].found = Merged(l.found, RoundRobin(rows \o chunks))]
    BY DEF Hybrid
  <2> DEFINE rows == IF vector THEN Vector(l.text, SummaryTopK) ELSE <<>>
             chunks == IF keyword THEN Chunks(First(l.text.words, SummaryTopK)) ELSE <<>>
  <2>2. rows \in Seq(Document) /\ chunks \in Seq(Document)
    <3>1. SummaryTopK \in Nat /\ l.text \in Search
      BY RequestHas, LocalTyped DEF RetrievalAssumption
    <3>2. Vector(l.text, SummaryTopK) \in Seq(Document)
          /\ Chunks(First(l.text.words, SummaryTopK)) \in Seq(Document)
      BY <3>1, HitsTyped
    <3>3. QED
      BY <3>2
  <2>3. rows \o chunks \in Seq(Document)
    BY <2>2
  <2>4. RoundRobin(rows \o chunks) \in Seq(Document)
    BY <2>3, RoundRobinIs
  <2>5. QED
    BY <2>1, <2>4
<1>2. PICK pc \in {"scoped", "draft scoped"} :
        req' = [req EXCEPT ![r].pc = pc, ![r].found = Merged(l.found, hits)]
  BY <1>1
<1>3. /\ l.scoped \in Seq(Document) /\ Heads(l.scoped, Sources(l.scoped)) /\ l \in Local
      /\ l.text \in Search
  BY RequestHas, LocalTyped DEF LeadsOf
<1>4. [l EXCEPT !.pc = pc, !.found = Merged(l.found, hits)]
        = [l EXCEPT !.pc = pc, !.text = l.text, !.found = Merged(l.found, hits), !.scoped = l.scoped]
  BY <1>3 DEF Local
<1>5. req' = [req EXCEPT ![r].pc = pc, ![r].text = l.text, ![r].found = Merged(l.found, hits),
                         ![r].scoped = l.scoped]
  BY <1>2, <1>4
<1>6. ~Ended(l) /\ l.pc \notin {"new", "pin"}
  BY DEF Hybrid, Ended
<1>7. QED
  BY <1>3, <1>5, <1>6, AddedBehind

LEMMA ScopedKeeps ==
  ASSUME RetrievalAssumption, RetrievalInv, NEW r \in Request, Scoped(r)
  PROVE  RequestsKept
<1> DEFINE l == req[r]
<1>1. ~Ended(l) /\ l \in Local /\ RetrievalTypeOK /\ l.pc = "scoped" /\ PinnedOf(l)
  BY RequestHas DEF Scoped, At, Ended
<1>2. PICK failed \in SUBSET ToSet(Corpus) :
        req' = [req EXCEPT ![r].pc = IF l.asked = {} THEN "draft" ELSE "rerank",
                           ![r].scoped = ScopedHits(r, failed),
                           ![r].reached = Sources(ScopedHits(r, failed)),
                           ![r].found = SourcesFirst(ScopedHits(r, failed), @)]
  BY DEF Scoped
<1> DEFINE hits == ScopedHits(r, failed)
           found == SourcesFirst(hits, l.found)
           reached == Sources(hits)
           m == [l EXCEPT !.pc = IF l.asked = {} THEN "draft" ELSE "rerank", !.scoped = hits,
                          !.reached = reached, !.found = found]
<1>3. req' = [req EXCEPT ![r] = m]
  BY <1>2
<1>4. /\ hits \in Seq(Document) /\ NoRepeats(hits) /\ Heads(hits, reached)
      /\ IsFiniteSet(reached) /\ reached \in SUBSET ToSet(Corpus)
  BY <1>1, ScopedIs, SourcesBounded
<1>5. found \in Seq(Document) /\ NoRepeats(found) /\ Heads(found, reached)
  BY <1>4, RequestHas, MergedIs DEF SourcesFirst
<1>5a. Heads(hits, Sources(hits))
  BY <1>4
<1> HIDE DEF hits, found, reached
<1>6. m \in Local
  BY <1>1, <1>4, <1>5 DEF Local
<1>7. /\ m.verdict = "none" /\ ~Ended(m) /\ m.found = found /\ m.scoped = hits
      /\ m.reached = reached /\ Asked(l, m)
  <2>1. l.verdict = "none"
    BY <1>1, RequestHas
  <2>2. /\ m.pc \in {"draft", "rerank"} /\ m.verdict = l.verdict /\ m.found = found
        /\ m.scoped = hits /\ m.reached = reached
    BY <1>1 DEF Local
  <2>3. /\ m.asked = l.asked /\ m.question = l.question /\ m.missed = l.missed
        /\ m.pinned = l.pinned
    BY <1>1 DEF Local
  <2>4. ~Ended(m)
    BY <2>2 DEF Ended
  <2> HIDE DEF m
  <2>5. QED
    BY <1>1, <2>1, <2>2, <2>3, <2>4 DEF Asked
<1>8. LeadsOf(m) /\ PinnedOf(m)
  BY <1>1, <1>4, <1>5, <1>5a, <1>7 DEF LeadsOf, PinnedOf, Asked
<1>9. QED
  BY <1>3, <1>6, <1>7, <1>8, Searching, OneMoves

LEMMA DraftKeeps ==
  ASSUME RetrievalAssumption, RetrievalInv, NEW r \in Request, DraftText(r)
  PROVE  RequestsKept
<1> DEFINE l == req[r]
<1>1. /\ ~Ended(l) /\ l \in Local /\ l.verdict = "none" /\ LeadsOf(l) /\ PinnedOf(l)
      /\ l.pc = "draft"
  BY RequestHas DEF DraftText, At, Ended
<1>2. PICK pc \in {"draft hybrid", "filters"}, text \in Search :
        req' = [req EXCEPT ![r] = [l EXCEPT !.pc = pc, !.text = text]]
  <2>1. CASE req' = [req EXCEPT ![r].pc = "filters"]
    <3>1. l.text \in Search
      BY <1>1, LocalTyped
    <3>2. [l EXCEPT !.pc = "filters"] = [l EXCEPT !.pc = "filters", !.text = l.text]
      BY <1>1 DEF Local
    <3>3. QED
      BY <2>1, <3>1, <3>2
  <2>2. CASE \E draft \in Search : req' = [req EXCEPT ![r].pc = "draft hybrid", ![r].text = draft]
    <3>1. PICK draft \in Search : req' = [req EXCEPT ![r].pc = "draft hybrid", ![r].text = draft]
      BY <2>2
    <3>2. req' = [req EXCEPT ![r] = [l EXCEPT !.pc = "draft hybrid", !.text = draft]]
      BY <3>1
    <3>3. "draft hybrid" \in {"draft hybrid", "filters"}
      OBVIOUS
    <3>4. QED
      BY <3>2, <3>3
  <2>3. QED
    BY <2>1, <2>2 DEF DraftText
<1> DEFINE m == [l EXCEPT !.pc = pc, !.text = text]
<1>3. m \in Local
  BY <1>1 DEF Local
<1>4. /\ m.verdict = "none" /\ ~Ended(m) /\ m.found = l.found /\ m.scoped = l.scoped
      /\ m.reached = l.reached /\ Asked(l, m)
  BY <1>1 DEF Local, Ended, Asked
<1>5. LeadsOf(m) /\ PinnedOf(m)
  BY <1>1, <1>4 DEF LeadsOf, PinnedOf, Asked
<1>6. QED
  BY <1>2, <1>3, <1>4, <1>5, Searching, OneMoves

LEMMA DraftScopedKeeps ==
  ASSUME RetrievalAssumption, RetrievalInv, NEW r \in Request, DraftScoped(r)
  PROVE  RequestsKept
<1> DEFINE l == req[r]
<1>1. /\ ~Ended(l) /\ RetrievalTypeOK /\ l.pc \notin {"new", "pin"} /\ l.question \in Search
      /\ l.scoped \in Seq(Document) /\ Heads(l.scoped, Sources(l.scoped))
  BY RequestHas, LocalTyped DEF DraftScoped, At, Ended, LeadsOf
<1>2. PICK failed \in SUBSET ToSet(Corpus) :
        LET hits == ScopedHits(r, failed) IN
        req' = [req EXCEPT ![r].pc = "filters", ![r].text = l.question,
                           ![r].found = Merged(l.found, hits),
                           ![r].scoped = IF hits = <<>> THEN l.scoped ELSE hits]
  BY DEF DraftScoped
<1> DEFINE hits == ScopedHits(r, failed)
           scoped == IF hits = <<>> THEN l.scoped ELSE hits
<1>3. hits \in Seq(Document) /\ Heads(hits, Sources(hits))
  BY <1>1, ScopedIs
<1>4. scoped \in Seq(Document) /\ Heads(scoped, Sources(scoped))
  BY <1>1, <1>3
<1>5. req' = [req EXCEPT ![r].pc = "filters", ![r].text = l.question,
                         ![r].found = Merged(l.found, hits), ![r].scoped = scoped]
  BY <1>2
<1>6. QED
  BY <1>1, <1>3, <1>4, <1>5, AddedBehind

LEMMA FiltersKeeps ==
  ASSUME RetrievalAssumption, RetrievalInv, NEW r \in Request, Filters(r)
  PROVE  RequestsKept
<1> DEFINE l == req[r]
<1>1. /\ ~Ended(l) /\ RetrievalTypeOK /\ l \in Local /\ l.pc \notin {"new", "pin"}
      /\ l.question \in Search /\ l.text \in Search
      /\ l.scoped \in Seq(Document) /\ Heads(l.scoped, Sources(l.scoped))
  BY RequestHas, LocalTyped DEF Filters, At, Ended, LeadsOf
<1>2. PICK laws \in SUBSET ToSet(Corpus) :
        LET hits == [i \in 1..Len(Corpus) |->
                       IF Corpus[i] \in laws THEN VectorIn(l.question, Corpus[i], SummaryTopK)
                       ELSE <<>>]
        IN req' = [req EXCEPT ![r].pc = "rerank", ![r].found = Merged(l.found, FlattenSeq(hits))]
  BY DEF Filters, Compared
<1> DEFINE hits == [i \in 1..Len(Corpus) |->
                      IF Corpus[i] \in laws THEN VectorIn(l.question, Corpus[i], SummaryTopK)
                      ELSE <<>>]
           all == FlattenSeq(hits)
<1>3. all \in Seq(Document)
  <2>1. Len(Corpus) \in Nat /\ SummaryTopK \in Nat
    BY DEF RetrievalAssumption
  <2>2. \A s : VectorIn(l.question, s, SummaryTopK) \in Seq(Document)
    BY <1>1, <2>1, HitsTyped
  <2>3. hits \in Seq(Seq(Document))
    BY <2>1, <2>2
  <2>4. QED
    BY <2>3, FlattenIs
<1>4. req' = [req EXCEPT ![r].pc = "rerank", ![r].found = Merged(l.found, all)]
  BY <1>2
<1> HIDE DEF all
<1>5. [l EXCEPT !.pc = "rerank", !.found = Merged(l.found, all)]
        = [l EXCEPT !.pc = "rerank", !.text = l.text, !.found = Merged(l.found, all),
                    !.scoped = l.scoped]
  BY <1>1 DEF Local
<1>6. req' = [req EXCEPT ![r].pc = "rerank", ![r].text = l.text, ![r].found = Merged(l.found, all),
                         ![r].scoped = l.scoped]
  BY <1>4, <1>5
<1>7. QED
  BY <1>1, <1>3, <1>6, AddedBehind

\* A choice of documents keeps the invariant when it leaves something, or has a reason not
\* to, and when the sources are heard.
LEMMA ChosenKeeps ==
  ASSUME RetrievalAssumption, RetrievalInv, NEW r \in Request, req[r].pc = "rerank",
         NEW v \in {"none", "all", "ranked", "invalid", "rejected"}, NEW hits \in Seq(Document),
         Chosen(r, v, hits),
         hits = <<>> => \/ req[r].pinned # <<>> \/ req[r].found = <<>>
                        \/ v = "rejected" /\ req[r].scoped = <<>>,
         req[r].pinned = <<>> =>
           /\ v = "invalid" => \/ req[r].reached \subseteq Sources(hits)
                               \/ Cardinality(Sources(hits)) = TopN
           /\ v = "rejected" => Sources(hits) = Sources(req[r].scoped)
  PROVE  RequestsKept
<1> DEFINE l == req[r]
           m == [l EXCEPT !.pc = "respond", !.verdict = v, !.best = hits]
<1>1. l \in Local /\ LeadsOf(l) /\ PinnedOf(l)
  BY RequestHas
<1>2. req' = [req EXCEPT ![r] = m]
  BY DEF Chosen
<1>3. m \in Local
  BY <1>1 DEF Local
<1>4. /\ m.pc = "respond" /\ m.verdict = v /\ m.best = hits /\ m.pinned = l.pinned
      /\ m.found = l.found /\ m.scoped = l.scoped /\ m.reached = l.reached /\ Asked(l, m)
  BY <1>1 DEF Local, Asked
<1>5. LeadsOf(m) /\ PinnedOf(m)
  BY <1>1, <1>4 DEF LeadsOf, PinnedOf, Asked
<1>6. DecidedOf(m) /\ HeardOf(m) /\ NamedOf(m) /\ FoundOf(m)
  BY <1>4 DEF DecidedOf, HeardOf, NamedOf, FoundOf, Ended
<1>7. RequestInv(m)
  BY <1>3, <1>5, <1>6 DEF RequestInv
<1>8. QED
  BY <1>2, <1>7, OneMoves

\* The background has room for one document at least, and for TopN when nothing is pinned.
LEMMA WantedIs ==
  ASSUME RetrievalAssumption, RetrievalInv, NEW r \in Request
  PROVE  /\ Wanted(r) \in Nat /\ Wanted(r) > 0
         /\ req[r].pinned = <<>> => Wanted(r) = TopN
<1>1. req[r].pinned \in Seq(Document) /\ TopN \in Nat /\ TopN > 0
  BY RequestHas DEF RetrievalAssumption
<1>2. Len(req[r].pinned) \in Nat /\ (req[r].pinned = <<>> => Len(req[r].pinned) = 0)
  BY <1>1
<1> DEFINE rest == IF Len(req[r].pinned) < TopN THEN TopN - Len(req[r].pinned) ELSE 0
<1>3. rest \in Nat /\ (req[r].pinned = <<>> => rest = TopN)
  <2>1. \A k \in Nat : (IF k < TopN THEN TopN - k ELSE 0) \in Nat
    BY <1>1
  <2>2. rest \in Nat
    BY <1>2, <2>1
  <2>3. ASSUME req[r].pinned = <<>>
        PROVE  rest = TopN
    <3>1. Len(req[r].pinned) = 0
      BY <1>2, <2>3
    <3>2. QED
      BY <1>1, <3>1
  <2>4. QED
    BY <2>2, <2>3
<1>4. Wanted(r) = IF 1 > rest THEN 1 ELSE rest
  BY DEF Wanted, Larger
<1> HIDE DEF rest
<1>5. QED
  BY <1>1, <1>3, <1>4

LEMMA RerankNothingKeeps ==
  ASSUME RetrievalAssumption, RetrievalInv, NEW r \in Request, RerankNothing(r)
  PROVE  RequestsKept
<1>1. req[r].pc = "rerank" /\ req[r].found \in Seq(Document)
  BY RequestHas DEF RerankNothing, At
<1>2. CASE req[r].found = <<>>
  <2>1. Chosen(r, "none", req[r].found)
    BY <1>2 DEF RerankNothing
  <2>2. QED
    BY <1>1, <1>2, <2>1, ChosenKeeps
<1>3. CASE req[r].found # <<>>
  <2>1. Chosen(r, "all", req[r].found)
    BY <1>3 DEF RerankNothing
  <2>2. QED
    BY <1>1, <1>3, <2>1, ChosenKeeps
<1>4. QED
  BY <1>2, <1>3

LEMMA RerankPicksKeeps ==
  ASSUME RetrievalAssumption, RetrievalInv, NEW r \in Request, RerankPicks(r)
  PROVE  RequestsKept
<1> DEFINE found == req[r].found
<1>1. req[r].pc = "rerank" /\ found \in Seq(Document)
  BY RequestHas DEF RerankPicks, At
<1>2. PICK p \in Picks(r) : Chosen(r, "ranked", [i \in DOMAIN p |-> found[p[i]]])
  BY DEF RerankPicks
<1>3. PICK n \in 1..Wanted(r) : p \in [1..n -> 1..Len(found)]
  BY DEF Picks
<1>4. n \in Nat /\ n > 0
  BY WantedIs
<1> DEFINE hits == [i \in 1..n |-> found[p[i]]]
<1>5. \A i \in 1..n : found[p[i]] \in Document
  BY <1>1, <1>3
<1>6. hits \in Seq(Document) /\ hits # <<>>
  <2>1. hits \in Seq(Document) /\ Len(hits) = n
    BY <1>4, <1>5
  <2>2. QED
    BY <1>4, <2>1
<1>7. Chosen(r, "ranked", hits)
  BY <1>2, <1>3
<1> HIDE DEF hits
<1>8. QED
  BY <1>1, <1>6, <1>7, ChosenKeeps

\* A cut leaves one document at least, and every source the question reached, or TopN.
LEMMA RerankInvalidKeeps ==
  ASSUME RetrievalAssumption, RetrievalInv, NEW r \in Request, RerankInvalid(r)
  PROVE  RequestsKept
<1> DEFINE l == req[r]
           hits == First(l.found, Wanted(r))
<1>1. /\ l.pc = "rerank" /\ l.found \in Seq(Document) /\ IsFiniteSet(l.reached)
      /\ Heads(l.found, l.reached) /\ Len(l.found) > Wanted(r) /\ Chosen(r, "invalid", hits)
  BY RequestHas DEF RerankInvalid, At, LeadsOf
<1>2. Wanted(r) \in Nat /\ Wanted(r) > 0 /\ (l.pinned = <<>> => Wanted(r) = TopN)
  BY WantedIs
<1>3. hits \in Seq(Document) /\ hits # <<>>
  <2>1. Wanted(r) <= Len(l.found) /\ Len(l.found) \in Nat
    BY <1>1, <1>2
  <2>2. hits \in Seq(Document) /\ Len(hits) = Wanted(r)
    BY <1>1, <1>2, <2>1, FirstIs
  <2>3. QED
    BY <1>2, <2>2
<1>4. Cardinality(l.reached) \in Nat
  BY <1>1, FS_CardinalityType
<1>5. /\ Cardinality(l.reached) <= Wanted(r) => l.reached \subseteq Sources(hits)
      /\ Wanted(r) < Cardinality(l.reached) => Cardinality(Sources(hits)) = Wanted(r)
  BY <1>1, <1>2, CutHeads
<1>6. l.reached \subseteq Sources(hits) \/ Cardinality(Sources(hits)) = Wanted(r)
  BY <1>2, <1>4, <1>5
<1> HIDE DEF hits
<1>7. QED
  BY <1>1, <1>2, <1>3, <1>6, ChosenKeeps

\* The hits by source that go on to the answer are cut behind every source they have.
LEMMA RerankRejectsKeeps ==
  ASSUME RetrievalAssumption, RetrievalInv, NEW r \in Request, RerankRejects(r)
  PROVE  RequestsKept
<1> DEFINE l == req[r]
           n == Larger(TopN, Len(Corpus) * TopN)
           cut == First(l.scoped, n)
<1>1. /\ l.pc = "rerank" /\ l.scoped \in Seq(Document) /\ Heads(l.scoped, Sources(l.scoped))
      /\ Chosen(r, "rejected", IF l.pinned # <<>> THEN <<>> ELSE cut)
  BY RequestHas DEF RerankRejects, At, LeadsOf
<1>2. TopN \in Nat /\ TopN > 0 /\ Len(Corpus) \in Nat
  BY DEF RetrievalAssumption
<1>3. n \in Nat /\ n > 0 /\ Len(Corpus) <= n
  <2>1. Len(Corpus) * TopN \in Nat
    BY <1>2
  <2>2. Len(Corpus) <= Len(Corpus) * TopN
    BY <1>2
  <2>3. QED
    BY <1>2, <2>1, <2>2 DEF Larger
<1> HIDE DEF n
<1>4. IsFiniteSet(Sources(l.scoped)) /\ Cardinality(Sources(l.scoped)) \in Nat
      /\ Cardinality(Sources(l.scoped)) <= n
  <2>1. IsFiniteSet(Sources(l.scoped)) /\ Cardinality(Sources(l.scoped)) \in Nat
        /\ Cardinality(Sources(l.scoped)) <= Len(Corpus)
    BY <1>1, SourcesBounded
  <2>2. QED
    BY <1>2, <1>3, <2>1
<1>5. Sources(l.scoped) \subseteq Sources(cut)
  BY <1>1, <1>3, <1>4, CutHeads
<1>6. /\ cut \in Seq(Document) /\ DOMAIN cut = 1..Len(cut) /\ Len(cut) \in Nat
      /\ \A i \in DOMAIN cut : cut[i] = l.scoped[i] /\ i \in DOMAIN l.scoped
      /\ n <= Len(l.scoped) => Len(cut) = n
      /\ n >= Len(l.scoped) => cut = l.scoped
  BY <1>1, <1>3, FirstIs
<1>7. Sources(cut) \subseteq Sources(l.scoped)
  BY <1>6 DEF Sources, ToSet
<1>8. cut = <<>> => l.scoped = <<>>
  <2>1. Len(l.scoped) \in Nat
    BY <1>1
  <2>2. CASE n <= Len(l.scoped)
    BY <1>3, <1>6, <2>2
  <2>3. CASE n >= Len(l.scoped)
    BY <1>6, <2>3
  <2>4. QED
    BY <1>3, <2>1, <2>2, <2>3
<1> HIDE DEF cut
<1>9. CASE l.pinned = <<>>
  <2>1. Chosen(r, "rejected", cut)
    BY <1>1, <1>9
  <2>2. cut \in Seq(Document) /\ Sources(cut) = Sources(l.scoped)
    BY <1>5, <1>6, <1>7
  <2>3. cut = <<>> => "rejected" = "rejected" /\ l.scoped = <<>>
    BY <1>8
  <2>4. QED
    BY <1>1, <1>9, <2>1, <2>2, <2>3, ChosenKeeps
<1>10. CASE l.pinned # <<>>
  <2>1. Chosen(r, "rejected", <<>>) /\ <<>> \in Seq(Document)
    BY <1>1, <1>10
  <2>2. QED
    BY <1>1, <1>10, <2>1, ChosenKeeps
<1>11. QED
  BY <1>9, <1>10

\* What is pinned goes to the answer, or something that opens like it.
LEMMA CombinedIs ==
  ASSUME RetrievalAssumption, NEW words \in Seq(LawArticle), NEW wanted, NEW given \in Seq(Document)
  PROVE  LET named  == NamedBy(words, wanted)
             answer == Combined(ArticleHits(words, wanted), given)
         IN \A a \in named : \E b \in named \cap Whole(answer) : Opening[b] = Opening[a]
<1> DEFINE hits == ArticleHits(words, wanted)
           named == NamedBy(words, wanted)
           all == hits \o given
           answer == Combined(hits, given)
<1>1. /\ hits \in Seq(Document)
      /\ \A i \in DOMAIN hits : \E a \in named : hits[i] = Chunk(a)
      /\ \A a \in named : \E i \in DOMAIN hits : hits[i] = Chunk(a)
  BY ArticleHitsAre
<1> SUFFICES ASSUME NEW a \in named
             PROVE  \E b \in named \cap Whole(answer) : Opening[b] = Opening[a]
  OBVIOUS
<1>2. PICK i \in DOMAIN hits : hits[i] = Chunk(a)
  BY <1>1
<1> HIDE DEF hits, named
<1>3. /\ all \in Seq(Document) /\ DOMAIN hits \subseteq DOMAIN all
      /\ \A n \in DOMAIN hits : all[n] = hits[n]
      /\ \A n \in DOMAIN hits, k \in DOMAIN all : k <= n => k \in DOMAIN hits
  <2>1. ASSUME NEW s \in Seq(Document), NEW t \in Seq(Document)
        PROVE  /\ s \o t \in Seq(Document) /\ DOMAIN s \subseteq DOMAIN (s \o t)
               /\ \A n \in DOMAIN s : (s \o t)[n] = s[n]
               /\ \A n \in DOMAIN s, k \in DOMAIN (s \o t) : k <= n => k \in DOMAIN s
    OBVIOUS
  <2>2. QED
    BY <1>1, <2>1
<1>4. answer = Distinct(all, Opening)
  BY DEF Combined
<1> HIDE DEF all, answer
<1>5. PICK k \in DOMAIN all, n \in DOMAIN answer :
        k <= i /\ answer[n] = all[k] /\ TextOf(all[k], Opening) = TextOf(all[i], Opening)
  BY <1>2, <1>3, <1>4, DistinctIs
<1>6. PICK b \in named : hits[k] = Chunk(b)
  BY <1>1, <1>3, <1>5
<1>7. answer[n] = Chunk(b) /\ TextOf(Chunk(b), Opening) = TextOf(Chunk(a), Opening)
  BY <1>2, <1>3, <1>5, <1>6
<1>8. Opening[b] = Opening[a]
  BY <1>7 DEF TextOf, Chunk
<1>9. b \in Whole(answer)
  <2>1. Chunk(b) \in ToSet(answer)
    BY <1>5, <1>7 DEF ToSet
  <2>2. Chunk(b).kind # "row" /\ Chunk(b).article = b
    BY DEF Chunk
  <2>3. QED
    BY <2>1, <2>2 DEF Whole
<1>10. QED
  BY <1>8, <1>9

\* The answer has the articles named, and something when anything was chosen.
LEMMA RespondKeeps ==
  ASSUME RetrievalAssumption, RetrievalInv, NEW r \in Request, Respond(r)
  PROVE  RequestsKept
<1> DEFINE l == req[r]
<1>1. /\ l.pc = "respond" /\ l \in Local /\ RequestInv(l) /\ RetrievalTypeOK /\ PinnedOf(l)
      /\ l.question.words \in Seq(LawArticle)
      /\ l.best \in Seq(Document) /\ l.pinned \in Seq(Document)
  BY RequestHas, LocalTyped DEF Respond, At
<1>2. PICK lost :
        LET given == FetchedOrHits(l.best, lost)
        IN req' = [req EXCEPT ![r].pc = "done",
                              ![r].answer = IF l.pinned = <<>> THEN given ELSE Combined(l.pinned, given)]
  BY DEF Respond
<1> DEFINE given == FetchedOrHits(l.best, lost)
           answer == IF l.pinned = <<>> THEN given ELSE Combined(l.pinned, given)
           m == [l EXCEPT !.pc = "done", !.answer = answer]
<1>3. given \in Seq(Document) /\ (l.best # <<>> => given # <<>>)
  BY <1>1, FetchedIs
<1>4. l.pinned \o given \in Seq(Document)
  BY <1>1, <1>3
<1>5. /\ Combined(l.pinned, given) \in Seq(Document)
      /\ l.pinned \o given # <<>> => Combined(l.pinned, given) # <<>>
  BY <1>4, DistinctIs DEF Combined
<1>6. l.pinned # <<>> => l.pinned \o given # <<>>
  BY <1>1, <1>3
<1> HIDE DEF given
<1>7. answer \in Seq(Document) /\ (answer = <<>> => l.pinned = <<>> /\ l.best = <<>>)
  BY <1>3, <1>5, <1>6
<1>8. ASSUME ~l.missed, NEW a \in NamedBy(l.question.words, l.asked)
      PROVE  \E b \in NamedBy(l.question.words, l.asked) \cap Whole(answer) : Opening[b] = Opening[a]
  <2>1. l.asked # {}
    BY <1>8 DEF NamedBy
  <2>2. l.pinned = ArticleHits(l.question.words, l.asked)
    BY <1>1, <1>8, <2>1 DEF PinnedOf
  <2>3. l.pinned # <<>>
    BY <1>1, <1>8, <2>2, ArticleHitsAre
  <2>4. answer = Combined(ArticleHits(l.question.words, l.asked), given)
    BY <2>2, <2>3
  <2>5. QED
    BY <1>1, <1>3, <1>8, <2>4, CombinedIs
<1>10. req' = [req EXCEPT ![r] = m]
  BY <1>2 DEF given
<1> HIDE DEF answer
<1>11. m \in Local
  BY <1>1, <1>7 DEF Local
<1>12. /\ m.pc = "done" /\ m.answer = answer /\ m.verdict = l.verdict /\ m.best = l.best
       /\ m.pinned = l.pinned /\ m.found = l.found /\ m.scoped = l.scoped /\ m.reached = l.reached
       /\ Asked(l, m)
  BY <1>1 DEF Local, Asked
<1>13. LeadsOf(m) /\ PinnedOf(m) /\ HeardOf(m) /\ DecidedOf(m)
  BY <1>1, <1>12 DEF RequestInv, LeadsOf, PinnedOf, HeardOf, DecidedOf, Ended, Asked
<1>14. NamedOf(m) /\ FoundOf(m)
  <2>1. l.best = <<>> => \/ l.pinned # <<>> \/ l.found = <<>>
                         \/ l.verdict = "rejected" /\ l.scoped = <<>>
    BY <1>1 DEF RequestInv, DecidedOf, Ended
  <2>2. FoundOf(m)
    BY <1>7, <1>12, <2>1 DEF FoundOf
  <2>3. NamedOf(m)
    BY <1>8, <1>12 DEF NamedOf, Asked
  <2>4. QED
    BY <2>2, <2>3
<1>15. RequestInv(m)
  BY <1>11, <1>13, <1>14 DEF RequestInv
<1>16. QED
  BY <1>10, <1>15, OneMoves

(* ------------------------------- every step ------------------------------ *)

LEMMA RetrievalStart ==
  ASSUME RetrievalAssumption, RetrievalInit
  PROVE  RetrievalInv
<1>0. PICK asks \in [Request -> SUBSET Number], question \in [Request -> Search] :
        req = [r \in Request |->
                 [pc |-> "new", asked |-> asks[r], question |-> question[r],
                  text |-> question[r], missed |-> FALSE, pinned |-> <<>>, found |-> <<>>,
                  scoped |-> <<>>, best |-> <<>>, answer |-> <<>>, reached |-> {},
                  verdict |-> "none"]]
  BY DEF RetrievalInit
<1>1. stored = LawArticle /\ faults = 0 /\ MaxFaults \in Nat
  BY DEF RetrievalInit, RetrievalAssumption
<1>2. <<>> \in Seq(Document) /\ Sources(<<>>) = {} /\ NoRepeats(<<>>) /\ Heads(<<>>, {})
  <2>1. <<>> \in Seq(Document) /\ Sources(<<>>) = {} /\ NoRepeats(<<>>)
    BY DEF Sources, ToSet, NoRepeats
  <2>2. Cardinality({}) = 0 /\ Len(<<>>) = 0
    BY FS_EmptySet
  <2>3. Heads(<<>>, {})
    BY <2>2 DEF Heads
  <2>4. QED
    BY <2>1, <2>3
<1>3. ASSUME NEW r \in Request
      PROVE  RequestInv(req[r]) /\ req[r] \in Local
  <2>1. /\ req[r] \in Local /\ req[r].pc = "new" /\ req[r].verdict = "none"
        /\ req[r].found = <<>> /\ req[r].scoped = <<>> /\ req[r].reached = {}
    BY <1>0, <1>2 DEF Local
  <2>2. LeadsOf(req[r]) /\ PinnedOf(req[r]) /\ ~Ended(req[r])
    BY <1>2, <2>1 DEF LeadsOf, PinnedOf, Ended
  <2>3. QED
    BY <2>1, <2>2, Searching
<1>4. RetrievalTypeOK
  BY <1>0, <1>1, <1>3 DEF RetrievalTypeOK
<1>5. QED
  BY <1>3, <1>4, InvByRequest

\* Whatever a step does to the locals, the stores shrink and the failures stay in bounds.
LEMMA StoresTyped ==
  ASSUME RetrievalAssumption, RetrievalInv, NEW r \in Request, Step(r)
  PROVE  stored' \subseteq LawArticle /\ faults' \in 0..MaxFaults
<1> DEFINE Kept == stored' \subseteq LawArticle /\ faults' \in 0..MaxFaults
<1>0. /\ stored \subseteq LawArticle /\ faults \in 0..MaxFaults /\ MaxFaults \in Nat
      /\ req[r].best \in Seq(Document)
  BY RequestHas DEF RetrievalTypeOK, RetrievalAssumption
<1>1. ASSUME NEW n \in Nat, Failing(n), UNCHANGED stored
      PROVE  Kept
  BY <1>0, <1>1 DEF Failing
<1>2. ASSUME NEW S, IsFiniteSet(S), Failing(Cardinality(S)), UNCHANGED stored
      PROVE  Kept
  BY <1>1, <1>2, FS_CardinalityType
<1>3. ASSUME UNCHANGED <<stored, faults>>
      PROVE  Kept
  BY <1>0, <1>3
<1>4. IsFiniteSet(ToSet(Corpus))
  <2>1. <<>> \in Seq(Document)
    OBVIOUS
  <2>2. QED
    BY <2>1, SourcesBounded
<1>5. \A S \in SUBSET ToSet(Corpus) : IsFiniteSet(S)
  BY <1>4, FS_Subset
<1>6. CASE Detect(r)
  BY <1>3, <1>6 DEF Detect
<1>7. CASE Pin(r)
  <2>1. CASE Failing(1) /\ UNCHANGED stored
    BY <1>1, <2>1
  <2>2. CASE UNCHANGED <<stored, faults>>
    BY <1>3, <2>2
  <2>3. QED
    BY <1>7, <2>1, <2>2 DEF Pin
<1>8. CASE Hybrid(r)
  <2>1. PICK vector \in BOOLEAN, keyword \in BOOLEAN :
          Failing(Cardinality({i \in 1..2 : ~<<vector, keyword>>[i]})) /\ UNCHANGED stored
    BY <1>8 DEF Hybrid
  <2>2. IsFiniteSet({i \in 1..2 : ~<<vector, keyword>>[i]})
    <3>1. IsFiniteSet(1..2)
      <4>1. 1 \in Int /\ 2 \in Int
        OBVIOUS
      <4>2. QED
        BY <4>1, FS_Interval
    <3>2. QED
      BY <3>1, FS_Subset
  <2>3. QED
    BY <1>2, <2>1, <2>2
<1>9. CASE Scoped(r)
  <2>1. PICK failed \in SUBSET ToSet(Corpus) : Failing(Cardinality(failed)) /\ UNCHANGED stored
    BY <1>9 DEF Scoped
  <2>2. QED
    BY <1>2, <1>5, <2>1
<1>10. CASE DraftText(r)
  BY <1>3, <1>10 DEF DraftText
<1>11. CASE DraftScoped(r)
  <2>1. PICK failed \in SUBSET ToSet(Corpus) : Failing(Cardinality(failed)) /\ UNCHANGED stored
    BY <1>11 DEF DraftScoped
  <2>2. QED
    BY <1>2, <1>5, <2>1
<1>12. CASE Filters(r)
  BY <1>3, <1>12 DEF Filters
<1>13. CASE RerankNothing(r) \/ RerankPicks(r) \/ RerankInvalid(r) \/ RerankRejects(r)
  BY <1>3, <1>13 DEF RerankNothing, RerankPicks, RerankInvalid, RerankRejects
<1>14. CASE Respond(r)
  <2> DEFINE A == {d.article : d \in ToSet(req[r].best)}
             f == [i \in 1..Len(req[r].best) |-> req[r].best[i].article]
  <2>1. PICK lost \in SUBSET A : Failing(Cardinality(lost)) /\ UNCHANGED stored
    BY <1>14 DEF Respond
  <2>2. f \in Surjection(1..Len(req[r].best), A)
    <3>1. DOMAIN req[r].best = 1..Len(req[r].best)
      BY <1>0
    <3>2. A = {req[r].best[i].article : i \in 1..Len(req[r].best)}
      BY <3>1 DEF ToSet
    <3>3. QED
      BY <3>2 DEF Surjection
  <2>3. IsFiniteSet(1..Len(req[r].best))
    BY <1>0, FS_Interval
  <2>4. IsFiniteSet(lost)
    <3>1. IsFiniteSet(A)
      BY <2>2, <2>3, FS_Surjection
    <3>2. QED
      BY <3>1, FS_Subset
  <2>5. QED
    BY <1>2, <2>1, <2>4
<1>15. QED
  BY <1>6, <1>7, <1>8, <1>9, <1>10, <1>11, <1>12, <1>13, <1>14 DEF Step

LEMMA RetrievalSteps ==
  ASSUME RetrievalAssumption, RetrievalInv, [RetrievalNext]_retrievalVars
  PROVE  RetrievalInv'
<1>1. ASSUME stored' \subseteq LawArticle, faults' \in 0..MaxFaults, RequestsKept
      PROVE  RetrievalInv'
  <2>1. RetrievalTypeOK' /\ \A r \in Request : RequestInv(req'[r])
    BY <1>1 DEF RetrievalTypeOK, RequestsKept
  <2>2. SourcesLead'
    BY <2>1 DEF SourcesLead, RequestInv, LeadsOf
  <2>3. Decided'
    BY <2>1 DEF Decided, RequestInv, DecidedOf, Ended
  <2>4. SourcesHeard'
    BY <2>1 DEF SourcesHeard, RequestInv, HeardOf
  <2>5. NamedArticleAnswered' /\ FoundIsAnswered'
    BY <2>1 DEF NamedArticleAnswered, FoundIsAnswered, Replied, At, RequestInv, NamedOf, FoundOf,
                NamedBy, Whole
  <2>6. PinnedFound'
    BY <2>1 DEF PinnedFound, RequestInv, PinnedOf
  <2>7. QED
    BY <2>1, <2>2, <2>3, <2>4, <2>5, <2>6 DEF RetrievalInv
<1>2. ASSUME NEW r \in Request, Step(r)
      PROVE  RequestsKept
  BY <1>2, DetectKeeps, PinKeeps, HybridKeeps, ScopedKeeps, DraftKeeps, DraftScopedKeeps,
     FiltersKeeps, RerankNothingKeeps, RerankPicksKeeps, RerankInvalidKeeps,
     RerankRejectsKeeps, RespondKeeps DEF Step
<1>3. /\ stored \subseteq LawArticle /\ faults \in 0..MaxFaults /\ req \in [Request -> Local]
      /\ \A r \in Request : RequestInv(req[r])
  BY InvByRequest DEF RetrievalTypeOK
<1>4. CASE \E r \in Request : Step(r)
  BY <1>1, <1>2, <1>4, StoresTyped
<1>5. CASE \E s \in ToSet(Corpus) : Delete(s)
  <2>1. stored' \subseteq LawArticle /\ faults' = faults /\ req' = req
    BY <1>5 DEF Delete
  <2>2. QED
    BY <1>1, <1>3, <2>1 DEF RequestsKept
<1>6. CASE UNCHANGED retrievalVars
  <2>1. stored' = stored /\ faults' = faults /\ req' = req
    BY <1>6 DEF retrievalVars
  <2>2. QED
    BY <1>1, <1>3, <2>1 DEF RequestsKept
<1>7. QED
  BY <1>4, <1>5, <1>6 DEF RetrievalNext

\* RetrievalService.query keeps RetrievalInv, whatever is ranked, fails or is deleted.
THEOREM RetrievalInvariant == RetrievalSpec => []RetrievalInv
<1>1. RetrievalInit => RetrievalInv
  BY RetrievalAssumption, RetrievalStart
<1>2. RetrievalInv /\ [RetrievalNext]_retrievalVars => RetrievalInv'
  BY RetrievalAssumption, RetrievalSteps
<1>3. QED
  BY <1>1, <1>2, PTL DEF RetrievalSpec

\* What a request holds, and what is stored, is always of its type.
THEOREM RetrievalTypes == RetrievalSpec => []RetrievalTypeOK
BY RetrievalInvariant, PTL DEF RetrievalInv

\* query brings every article the question names, once the keyword search ranks it high
\* enough, into the answer as a whole, or another one named that opens like it.
THEOREM RetrievalNamedAnswered == RetrievalSpec => []NamedArticleAnswered
BY RetrievalInvariant, PTL DEF RetrievalInv

\* A reranking that fails costs no source that the search by source reached, as long as
\* there is room, and a rejection costs none.
THEOREM RetrievalSourcesHeard == RetrievalSpec => []SourcesHeard
BY RetrievalInvariant, PTL DEF RetrievalInv

\* Documents that cannot be fetched never empty an answer.
THEOREM RetrievalFoundAnswered == RetrievalSpec => []FoundIsAnswered
BY RetrievalInvariant, PTL DEF RetrievalInv

==============================================================================
