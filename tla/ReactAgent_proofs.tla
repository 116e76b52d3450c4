------------------------- MODULE ReactAgent_proofs -------------------------
(***************************************************************************)
(* Proofs about ReactAgent: for any set of articles and any limits on      *)
(* retries and tool calls a verified answer cites only what the tool       *)
(* showed in its own attempt, and the agent is an AnswerGate, the same     *)
(* promise that RagGraph_proofs shows of the graph it stands in for.       *)
(***************************************************************************)
EXTENDS ReactAgent, TLAPS

LEMMA BlankIsText == \A a \in {"nobody", "rule", "failsafe"} : Blank(a) \in Text
BY DEF Blank, Text

LEMMA InitReact == Init => ReactInv
<1> SUFFICES ASSUME Init PROVE ReactInv
  OBVIOUS
<1>5. earlier \in Text /\ earlier.by \in {"earlier", "nobody"}
  <2>1. CASE earlier \in Written("earlier")
    BY <2>1 DEF Written
  <2>2. CASE earlier = Blank("nobody")
    <3>1. Blank("nobody").by = "nobody"
      BY DEF Blank
    <3> QED BY <2>2, <3>1, BlankIsText
  <2> QED BY <2>1, <2>2 DEF Init
<1>6. text \in Text /\ text.by = "nobody"
  <2>1. Blank("nobody").by = "nobody"
    BY DEF Blank
  <2> QED BY <2>1, BlankIsText DEF Init
<1>1. TypeOK
  <2>1. 0 \in 0..MaxRetries /\ 0 \in 0..MaxHops
    BY ReactAssumption
  <2>2. retry \in 0..MaxRetries /\ hops \in 0..MaxHops /\ evidence \subseteq Article
    BY <2>1 DEF Init
  <2>3. at \in Places /\ scope \in {"", "security_block", "reject", "passthrough", "verified"}
    BY DEF Init, Places
  <2>4. threat \in BOOLEAN /\ spoke \in BOOLEAN
    BY DEF Init
  <2> QED
    BY <1>5, <1>6, <2>2, <2>3, <2>4 DEF TypeOK
<1>2. Path /\ Words
  BY <1>5, <1>6 DEF Init, Path, Words
<1>3. CitesOnlyShown /\ OwnWords
  BY DEF Init, CitesOnlyShown, OwnWords
<1>4. QED
  BY <1>1, <1>2, <1>3 DEF ReactInv

\* Until the agent is asked only the place and a fixed or relayed text change.
LEMMA BeforeAgent ==
  ASSUME ReactInv, Sanitize \/ Classify \/ Passthrough
  PROVE  ReactInv'
<1>1. TypeOK /\ Path /\ Words
  BY DEF ReactInv
<1>2. /\ threat' = threat /\ earlier' = earlier /\ retry' = retry /\ evidence' = evidence
      /\ hops' = hops /\ spoke' = spoke /\ scope = "" /\ retry = 0 /\ text = Blank("nobody")
  BY <1>1 DEF Sanitize, Classify, Passthrough, Path
<1>3. CASE /\ at' = "done" /\ text' \in Text
           /\ scope' \in {"security_block", "reject", "passthrough"}
           /\ threat => scope' = "security_block"
  <2>1. TypeOK' /\ Path'
    BY <1>1, <1>2, <1>3 DEF TypeOK, Path, Places
  <2>2. Words' /\ CitesOnlyShown' /\ OwnWords'
    BY <1>1, <1>2, <1>3 DEF Words, CitesOnlyShown, OwnWords
  <2>3. QED
    BY <2>1, <2>2 DEF ReactInv
<1>4. CASE /\ at' \in {"classify", "passthrough", "attempt"} /\ ~threat
           /\ scope' = scope /\ text' = text
  <2>1. TypeOK' /\ Path'
    BY <1>1, <1>2, <1>4 DEF TypeOK, Path, Places
  <2>2. text'.by = "nobody"
    BY <1>2, <1>4 DEF Blank
  <2>3. Words' /\ CitesOnlyShown' /\ OwnWords'
    BY <1>1, <1>2, <1>4, <2>2 DEF Words, CitesOnlyShown, OwnWords
  <2>4. QED
    BY <2>1, <2>3 DEF ReactInv
<1>5. CASE Sanitize
  BY <1>3, <1>4, <1>5, BlankIsText DEF Sanitize, Return
<1>6. CASE Classify
  BY <1>1, <1>3, <1>4, <1>6, BlankIsText DEF Classify, Return, Path
<1>7. CASE Passthrough
  <2>1. ~threat
    BY <1>1, <1>7 DEF Passthrough, Path
  <2>2. QED
    BY <1>3, <1>4, <1>7, <2>1 DEF Passthrough, Return, Written
<1>8. QED
  BY <1>5, <1>6, <1>7

\* What the agent says last is its own, or it says nothing.
LEMMA SaysOwn ==
  ASSUME Says
  PROVE  \/ text' \in Text /\ text'.by = "agent" /\ spoke' = TRUE
         \/ text' = text /\ spoke' = spoke
BY DEF Says, Written

LEMMA AttemptKeeps == ASSUME ReactInv, Attempt PROVE ReactInv'
<1>1. /\ at = "attempt" /\ at' = "agent" /\ text' = earlier
      /\ evidence' = {} /\ hops' = 0 /\ spoke' = FALSE
      /\ threat' = threat /\ earlier' = earlier /\ scope' = scope /\ retry' = retry
  BY DEF Attempt
<1>2. TypeOK /\ Path /\ Words
  BY DEF ReactInv
<1>3. hops' \in 0..MaxHops /\ evidence' \subseteq Article /\ at' \in Places
  BY <1>1, ReactAssumption DEF Places
<1>4. TypeOK'
  BY <1>1, <1>2, <1>3 DEF TypeOK
<1>5. Path'
  BY <1>1, <1>2 DEF Path, TypeOK
<1>6. Words'
  BY <1>1, <1>2 DEF Words
<1>7. CitesOnlyShown' /\ OwnWords'
  BY <1>1 DEF CitesOnlyShown, OwnWords
<1>8. QED
  BY <1>4, <1>5, <1>6, <1>7 DEF ReactInv

LEMMA CallToolKeeps == ASSUME ReactInv, CallTool PROVE ReactInv'
<1>1. /\ at = "agent" /\ at' = at /\ hops < MaxHops /\ hops' = hops + 1
      /\ threat' = threat /\ earlier' = earlier /\ scope' = scope /\ retry' = retry
  BY DEF CallTool
<1>2. Says
  BY DEF CallTool
<1>3. TypeOK /\ Path /\ Words
  BY DEF ReactInv
<1>4. text' \in Text /\ spoke' \in BOOLEAN
  BY <1>2, <1>3, SaysOwn DEF TypeOK
<1>5. evidence' \subseteq Article
  BY <1>3 DEF CallTool, TypeOK
<1>6. hops' \in 0..MaxHops
  <2>1. hops \in 0..MaxHops
    BY <1>3 DEF TypeOK
  <2>2. QED
    BY <1>1, <2>1, ReactAssumption
<1>7. TypeOK'
  BY <1>1, <1>3, <1>4, <1>5, <1>6 DEF TypeOK
<1>8. Path'
  BY <1>1, <1>3 DEF Path, TypeOK
<1>9. earlier'.by \in {"earlier", "nobody"} /\ text'.by \in {"earlier", "nobody", "agent"}
  BY <1>1, <1>2, <1>3, SaysOwn DEF Words
<1>10. spoke' => text'.by = "agent"
  BY <1>1, <1>2, <1>3, SaysOwn DEF Words
<1>11. Words'
  BY <1>1, <1>9, <1>10 DEF Words
<1>12. CitesOnlyShown' /\ OwnWords'
  BY <1>1 DEF CitesOnlyShown, OwnWords
<1>13. QED
  BY <1>7, <1>8, <1>11, <1>12 DEF ReactInv

LEMMA AnswersKeeps == ASSUME ReactInv, Answers PROVE ReactInv'
<1>1. /\ at = "agent" /\ at' = "check" /\ hops' = hops /\ evidence' = evidence
      /\ threat' = threat /\ earlier' = earlier /\ scope' = scope /\ retry' = retry
  BY DEF Answers
<1>2. Says
  BY DEF Answers
<1>3. TypeOK /\ Path /\ Words
  BY DEF ReactInv
<1>4. text' \in Text /\ spoke' \in BOOLEAN /\ at' \in Places
  BY <1>1, <1>2, <1>3, SaysOwn DEF TypeOK, Places
<1>5. TypeOK'
  BY <1>1, <1>3, <1>4 DEF TypeOK
<1>6. Path'
  BY <1>1, <1>3 DEF Path, TypeOK
<1>7. earlier'.by \in {"earlier", "nobody"} /\ text'.by \in {"earlier", "nobody", "agent"}
  BY <1>1, <1>2, <1>3, SaysOwn DEF Words
<1>8. spoke' => text'.by = "agent"
  BY <1>1, <1>2, <1>3, SaysOwn DEF Words
<1>9. Words'
  BY <1>1, <1>7, <1>8 DEF Words
<1>10. CitesOnlyShown' /\ OwnWords'
  BY <1>1 DEF CitesOnlyShown, OwnWords
<1>11. QED
  BY <1>5, <1>6, <1>9, <1>10 DEF ReactInv

LEMMA AgentRaisesKeeps == ASSUME ReactInv, AgentRaises PROVE ReactInv'
<1>1. /\ at = "agent" /\ at' = "raised" /\ UNCHANGED <<text, evidence, hops, spoke>>
      /\ UNCHANGED <<threat, earlier, scope, retry>>
  BY DEF AgentRaises, attempt
<1>2. TypeOK /\ Path /\ Words
  BY DEF ReactInv
<1>3. TypeOK'
  BY <1>1, <1>2 DEF TypeOK, Places
<1>4. Path' /\ Words'
  BY <1>1, <1>2 DEF Path, Words, TypeOK
<1>5. CitesOnlyShown' /\ OwnWords'
  BY <1>1 DEF CitesOnlyShown, OwnWords
<1>6. QED
  BY <1>3, <1>4, <1>5 DEF ReactInv

\* What a review does: it accepts the text, withholds it, sends it back or goes on.
LEMMA ReviewSteps ==
  ASSUME ReactInv, Check \/ Verify
  PROVE  /\ UNCHANGED <<threat, earlier, evidence, hops, spoke>>
         /\ at \in {"check", "verify"}
         /\ \/ /\ at' = "verify" /\ Ungrounded(text) = {} /\ UNCHANGED <<scope, retry, text>>
            \/ /\ at' = "done" /\ scope' = "verified" /\ UNCHANGED retry
               /\ \/ text' = Blank("failsafe")
                  \/ text' = text /\ at = "verify"
            \/ /\ at' = "attempt" /\ retry' = retry + 1 /\ UNCHANGED <<scope, text>>
               /\ ~(retry >= MaxRetries) \/ retry < MaxRetries
<1>1. CASE Check
  BY <1>1 DEF Check, Return, SendBack
<1>2. CASE Verify
  BY <1>2 DEF Verify, Accept, Return, SendBack
<1>3. QED
  BY <1>1, <1>2

LEMMA InReview == ASSUME ReactInv, Check \/ Verify PROVE ReactInv'
<1>1. TypeOK /\ Path /\ Words
  BY DEF ReactInv
<1>2. /\ threat' = threat /\ earlier' = earlier /\ evidence' = evidence
      /\ hops' = hops /\ spoke' = spoke
  BY ReviewSteps
<1>3. ~threat /\ scope = ""
  BY <1>1, ReviewSteps DEF Path
<1>4. CASE at' = "verify" /\ Ungrounded(text) = {} /\ UNCHANGED <<scope, retry, text>>
  <2>1. TypeOK' /\ Path'
    BY <1>1, <1>2, <1>3, <1>4 DEF TypeOK, Path, Places
  <2>2. text'.by \in {"earlier", "nobody", "agent"} /\ (spoke' => text'.by = "agent")
    BY <1>1, <1>2, <1>4, ReviewSteps DEF Words
  <2>3. Words'
    BY <1>1, <1>2, <1>4, <2>2 DEF Words, Ungrounded
  <2>4. QED
    BY <1>4, <2>1, <2>3 DEF ReactInv, CitesOnlyShown, OwnWords
<1>5. CASE at' = "done" /\ scope' = "verified" /\ retry' = retry /\ text' = Blank("failsafe")
  <2>1. text' \in Text /\ text'.cites = {} /\ text'.by = "failsafe"
    BY <1>5, BlankIsText DEF Blank
  <2>2. TypeOK' /\ Path'
    BY <1>1, <1>2, <1>3, <1>5, <2>1 DEF TypeOK, Path, Places
  <2>3. Words'
    BY <1>1, <1>2, <1>5 DEF Words
  <2>4. CitesOnlyShown' /\ OwnWords'
    BY <2>1 DEF CitesOnlyShown, OwnWords
  <2>5. QED
    BY <2>2, <2>3, <2>4 DEF ReactInv
<1>6. CASE /\ at' = "done" /\ scope' = "verified" /\ retry' = retry
           /\ text' = text /\ at = "verify"
  <2>1. TypeOK' /\ Path'
    BY <1>1, <1>2, <1>3, <1>6 DEF TypeOK, Path, Places
  <2>2. Words'
    BY <1>1, <1>2, <1>6 DEF Words
  <2>3. text.cites \subseteq evidence /\ (spoke => text.by = "agent")
    BY <1>1, <1>6 DEF Words, Ungrounded
  <2>4. CitesOnlyShown'
    BY <1>2, <1>6, <2>3 DEF CitesOnlyShown
  <2>5. OwnWords'
    BY <1>2, <1>6, <2>3 DEF OwnWords
  <2>6. QED
    BY <2>1, <2>2, <2>4, <2>5 DEF ReactInv
<1>7. CASE /\ at' = "attempt" /\ retry' = retry + 1 /\ UNCHANGED <<scope, text>>
           /\ ~(retry >= MaxRetries) \/ retry < MaxRetries
  <2>1. retry' \in 0..MaxRetries
    <3>1. retry \in 0..MaxRetries
      BY <1>1 DEF TypeOK
    <3>2. QED
      BY <1>7, <3>1, ReactAssumption
  <2>2. TypeOK' /\ Path'
    BY <1>1, <1>2, <1>3, <1>7, <2>1 DEF TypeOK, Path, Places
  <2>3. text'.by \in {"earlier", "nobody", "agent"}
    BY <1>1, <1>7, ReviewSteps DEF Words
  <2>4. Words'
    BY <1>1, <1>2, <1>7, <2>3 DEF Words
  <2>5. QED
    BY <1>7, <2>2, <2>4 DEF ReactInv, CitesOnlyShown, OwnWords
<1>8. QED
  BY <1>4, <1>5, <1>6, <1>7, ReviewSteps

LEMMA NextReact == ReactInv /\ [Next]_vars => ReactInv'
<1> SUFFICES ASSUME ReactInv, [Next]_vars PROVE ReactInv'
  OBVIOUS
<1>1. CASE Sanitize \/ Classify \/ Passthrough
  BY <1>1, BeforeAgent
<1>2. CASE Attempt \/ CallTool \/ Answers \/ AgentRaises
  BY <1>2, AttemptKeeps, CallToolKeeps, AnswersKeeps, AgentRaisesKeeps
<1>3. CASE Check \/ Verify
  BY <1>3, InReview
<1>4. CASE UNCHANGED vars
  BY <1>4 DEF ReactInv, vars, TypeOK, Path, Words, Ungrounded, CitesOnlyShown, OwnWords
<1>5. QED
  BY <1>1, <1>2, <1>3, <1>4 DEF Next

LEMMA ReactInvariant == Spec => []ReactInv
BY InitReact, NextReact, PTL DEF Spec

\* The retries and the tool calls keep to their limits, and every variable to its type.
THEOREM ReactTypes == Spec => []TypeOK
<1>1. ReactInv => TypeOK
  BY DEF ReactInv
<1>2. QED
  BY <1>1, ReactInvariant, PTL

\* A verified answer cites only what the tool showed in the attempt it was written in.
THEOREM ReactCites == Spec => []CitesOnlyShown
<1>1. ReactInv => CitesOnlyShown
  BY DEF ReactInv
<1>2. QED
  BY <1>1, ReactInvariant, PTL

\* An earlier turn's answer is repeated only by an agent that wrote nothing.
THEOREM ReactOwnWords == Spec => []OwnWords
<1>1. ReactInv => OwnWords
  BY DEF ReactInv
<1>2. QED
  BY <1>1, ReactInvariant, PTL

(* ------------------------------ refinement ------------------------------- *)

LEMMA ReactStepIsGateStep == ReactInv /\ [Next]_vars => [Gate!Next]_(Gate!vars)
<1> SUFFICES ASSUME ReactInv, [Next]_vars
             PROVE  Gate!Next \/ UNCHANGED Gate!vars
  OBVIOUS
<1> USE DEF ReactInv
<1>9. retry \in 0..MaxRetries
  BY DEF TypeOK
<1>1. CASE Sanitize
  <2>1. at = "sanitize" /\ scope = "" /\ text = Blank("nobody") /\ retry = 0
    BY <1>1 DEF Sanitize, Path
  <2>2. CASE threat
    <3>1. at' = "done" /\ scope' = "security_block" /\ text' = Blank("rule")
      BY <1>1, <2>2 DEF Sanitize, Return
    <3>2. Ungrounded(text) = {} /\ Ungrounded(text)' = {}
      BY <2>1, <3>1 DEF Ungrounded, Blank
    <3>3. Gate!Refuse
      BY <1>1, <2>1, <3>1, <3>2 DEF Gate!Refuse, Verdict, Sanitize
    <3> QED BY <3>3 DEF Gate!Next
  <2>3. CASE ~threat
    BY <1>1, <2>1, <2>3 DEF Sanitize, Gate!vars, Verdict, Ungrounded
  <2> QED BY <2>2, <2>3
<1>2. CASE Classify
  <2>1. at = "classify" /\ scope = "" /\ text = Blank("nobody") /\ retry = 0
    BY <1>2 DEF Classify, Path
  <2>2. CASE at' = "done"
    <3>1. scope' = "reject" /\ text' = Blank("rule")
      BY <1>2, <2>2 DEF Classify, Return
    <3>2. Ungrounded(text) = {} /\ Ungrounded(text)' = {}
      BY <2>1, <3>1 DEF Ungrounded, Blank
    <3>3. Gate!Refuse
      BY <1>2, <2>1, <2>2, <3>1, <3>2 DEF Gate!Refuse, Verdict, Classify
    <3> QED BY <3>3 DEF Gate!Next
  <2>3. CASE at' # "done"
    BY <1>2, <2>1, <2>3 DEF Classify, Return, Gate!vars, Verdict, Ungrounded
  <2> QED BY <2>2, <2>3
<1>3. CASE Passthrough
  <2>1. at = "passthrough" /\ scope = "" /\ text = Blank("nobody") /\ retry = 0 /\ ~threat
    BY <1>3 DEF Passthrough, Path
  <2>2. CASE at' = "done"
    <3>1. scope' = "passthrough"
      BY <1>3, <2>2 DEF Passthrough, Return
    <3>2. Ungrounded(text) = {}
      BY <2>1 DEF Ungrounded, Blank
    <3>3. Gate!Relay
      BY <1>3, <2>1, <2>2, <3>1, <3>2 DEF Gate!Relay, Verdict, Passthrough
    <3> QED BY <3>3 DEF Gate!Next
  <2>3. CASE at' # "done"
    BY <1>3, <2>1, <2>3 DEF Passthrough, Return, Gate!vars, Verdict, Ungrounded
  <2> QED BY <2>2, <2>3
<1>4. CASE Attempt \/ CallTool \/ Answers
  <2>1. at \in {"attempt", "agent"} /\ at' \in {"agent", "check"}
    BY <1>4 DEF Attempt, CallTool, Answers
  <2>2. ~threat /\ Verdict = "pending" /\ Verdict' = "pending"
    BY <2>1 DEF Path, Verdict
  <2>3. UNCHANGED <<threat, retry>>
    BY <1>4 DEF Attempt, CallTool, Answers
  <2>4. Gate!Draft
    BY <2>2, <2>3 DEF Gate!Draft
  <2> QED BY <2>4 DEF Gate!Next
<1>5. CASE AgentRaises
  BY <1>5 DEF AgentRaises, attempt, Gate!vars, Verdict, Ungrounded
<1>6. CASE Check
  <2>1. at = "check" /\ scope = "" /\ ~threat /\ UNCHANGED <<threat, evidence>>
    BY <1>6 DEF Check, Path
  <2>2. CASE Ungrounded(text) = {}
    BY <1>6, <2>1, <2>2 DEF Check, Gate!vars, Verdict, Ungrounded
  <2>3. CASE Ungrounded(text) # {} /\ retry >= MaxRetries
    <3>1. at' = "done" /\ scope' = "verified" /\ text' = Blank("failsafe") /\ retry' = retry
      BY <1>6, <2>3 DEF Check, Return
    <3>2. retry = MaxRetries
      BY <1>9, <2>3, ReactAssumption
    <3>3. Ungrounded(text)' = {} /\ text'.by = "failsafe"
      BY <3>1 DEF Ungrounded, Blank
    <3>4. Gate!Withhold
      BY <2>1, <2>3, <3>1, <3>2, <3>3 DEF Gate!Withhold, Verdict
    <3> QED BY <3>4 DEF Gate!Next
  <2>4. CASE Ungrounded(text) # {} /\ ~(retry >= MaxRetries)
    <3>1. at' = "attempt" /\ retry' = retry + 1 /\ UNCHANGED <<scope, text>>
      BY <1>6, <2>4 DEF Check, SendBack
    <3>2. retry < MaxRetries
      BY <1>9, <2>4, ReactAssumption
    <3>3. Gate!SendBack
      BY <2>1, <3>1, <3>2 DEF Gate!SendBack, Verdict, Ungrounded
    <3> QED BY <3>3 DEF Gate!Next
  <2> QED BY <2>2, <2>3, <2>4
<1>7. CASE Verify
  <2>1. at = "verify" /\ scope = "" /\ ~threat /\ UNCHANGED <<threat, evidence>>
    BY <1>7 DEF Verify, Path
  <2>2. Ungrounded(text) = {} /\ text.by # "failsafe"
    BY <2>1 DEF Words
  <2>3. CASE Accept
    <3>1. at' = "done" /\ scope' = "verified" /\ UNCHANGED <<text, retry>>
      BY <2>3 DEF Accept, Return
    <3>2. Ungrounded(text)' = {}
      BY <2>1, <2>2, <3>1 DEF Ungrounded
    <3>3. Gate!Answer
      BY <2>1, <2>2, <3>1, <3>2 DEF Gate!Answer, Verdict
    <3> QED BY <3>3 DEF Gate!Next
  <2>4. CASE retry < MaxRetries /\ SendBack
    <3>1. at' = "attempt" /\ retry' = retry + 1 /\ UNCHANGED <<scope, text>>
      BY <2>4 DEF SendBack
    <3>2. Gate!SendBack
      BY <2>1, <2>4, <3>1 DEF Gate!SendBack, Verdict, Ungrounded
    <3> QED BY <3>2 DEF Gate!Next
  <2> QED BY <1>7, <2>3, <2>4 DEF Verify
<1>8. CASE UNCHANGED vars
  BY <1>8 DEF vars, Gate!vars, Verdict, Ungrounded
<1> QED
  BY <1>1, <1>2, <1>3, <1>4, <1>5, <1>6, <1>7, <1>8 DEF Next

\* The agent of REACT_MODE keeps the promises of AnswerGate, as the graph does: whichever of
\* the two is switched on, callers get the same guarantees.
THEOREM ReactIsGate == Spec => ImplementsGate
<1>1. Init => Gate!Init
  <2> SUFFICES ASSUME Init PROVE Gate!Init
    OBVIOUS
  <2>1. Ungrounded(text) = {}
    BY DEF Init, Ungrounded, Blank
  <2>2. threat \in BOOLEAN /\ at = "sanitize" /\ retry = 0
    BY DEF Init
  <2>3. QED
    BY <2>1, <2>2 DEF Gate!Init, Verdict
<1>2. QED
  BY <1>1, ReactInvariant, ReactStepIsGateStep, PTL DEF Spec, ImplementsGate, Gate!Spec
=============================================================================
