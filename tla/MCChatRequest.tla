--------------------------- MODULE MCChatRequest ---------------------------
EXTENDS ChatRequest, TLC

CONSTANTS r1, r2, r3, s1, k1

MCInput(text, others, trusted, stream) ==
  [session |-> s1, key |-> k1, credential |-> "good", text |-> text, others |-> others,
   long |-> FALSE, trusted |-> trusted, stream |-> stream]

Stranger == [MCInput("plain", {}, FALSE, FALSE) EXCEPT !.credential = "bad"]

\* A trusted front end runs its task, or sends no user message; another peer streams in the
\* same session; a third request quotes a probe under cover of a task, or has no key.
MCInputs == (r1 :> {MCInput("task", {}, TRUE, FALSE), MCInput("empty", {}, FALSE, FALSE)})
         @@ (r2 :> {MCInput("plain", {}, FALSE, TRUE)})
         @@ (r3 :> {MCInput("task", {"probe"}, TRUE, FALSE), Stranger})
=============================================================================
