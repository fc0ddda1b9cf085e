-------------------------- MODULE MCGovernedActions --------------------------
EXTENDS GovernedActions

\* The plan of "summarize <file>": read the file, then summarize what was read.
MCPlanTools == [p \in Plans |-> <<"filesystem.read", "text.summarize">>]

Symmetry == Permutations(Clients)
=============================================================================
