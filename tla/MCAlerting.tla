----------------------------- MODULE MCAlerting -----------------------------
EXTENDS Alerting, TLC

CONSTANT s1

Budget(f, s, p, r, c, x) ==
  [flags |-> f, scans |-> s, probes |-> p, runs |-> r, crashes |-> c, faults |-> x]

\* One loop at a time with the most checks, then the loops together with few.
MCBudgets == {Budget(2, 2, 0, 0, 1, 1), Budget(3, 2, 0, 0, 0, 0),
              Budget(0, 0, 4, 0, 1, 1), Budget(0, 0, 0, 4, 1, 1), Budget(1, 1, 1, 1, 1, 0)}
=============================================================================
