-------------------------- MODULE MCIntegrations ----------------------------
EXTENDS Integrations, TLC

CONSTANTS a1, a2, t1, t2, w1

MCMatch  == [w \in {w1} |-> {t1}]
Symmetry == Permutations(Slots) \cup Permutations(States) \cup Permutations(Accounts)
=============================================================================
