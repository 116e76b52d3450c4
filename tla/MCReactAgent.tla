---------------------------- MODULE MCReactAgent ----------------------------
EXTENDS ReactAgent, TLC

CONSTANTS a1, a2
=============================================================================
