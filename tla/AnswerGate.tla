----------------------------- MODULE AnswerGate -----------------------------
(***************************************************************************)
(* What the question-answering graph promises of one question, whatever    *)
(* the language model writes: a blocked question is only ever refused;     *)
(* an answer leaves the gate only when every article it cites is backed by *)
(* evidence; and an answer is withheld only when the retry budget is spent *)
(* on a draft that is still unbacked.                                      *)
(***************************************************************************)
EXTENDS Naturals

CONSTANT MaxTries   \* how often a draft may be sent back

VARIABLES
  blocked,  \* the question itself is refused by rule
  verdict,  \* what became of the question
  tries,    \* drafts sent back so far
  sound     \* every citation of the current text is backed

vars == <<blocked, verdict, tries, sound>>

Init == /\ blocked \in BOOLEAN
        /\ verdict = "pending"
        /\ tries = 0
        /\ sound = TRUE

\* A fixed text answers the question: the only way out for a blocked one.
Refuse == /\ verdict = "pending" /\ tries = 0
          /\ verdict' = "refused"
          /\ UNCHANGED <<blocked, tries, sound>>

\* The model's text is passed on as it is (a chat front end's own task).
Relay == /\ verdict = "pending" /\ tries = 0 /\ ~blocked
         /\ verdict' = "relayed"
         /\ UNCHANGED <<blocked, tries, sound>>

Draft == /\ verdict = "pending" /\ ~blocked
         /\ sound' \in BOOLEAN
         /\ UNCHANGED <<blocked, verdict, tries>>

SendBack == /\ verdict = "pending" /\ ~blocked /\ tries < MaxTries
            /\ tries' = tries + 1
            /\ UNCHANGED <<blocked, verdict, sound>>

Answer == /\ verdict = "pending" /\ ~blocked /\ sound
          /\ verdict' = "answered"
          /\ UNCHANGED <<blocked, tries, sound>>

Withhold == /\ verdict = "pending" /\ tries = MaxTries /\ ~sound
            /\ verdict' = "withheld"
            /\ sound' = TRUE
            /\ UNCHANGED <<blocked, tries>>

Next == Refuse \/ Relay \/ Draft \/ SendBack \/ Answer \/ Withhold

Spec == Init /\ [][Next]_vars
=============================================================================
