---------------------------- MODULE MCAskRequests ----------------------------
\* Small instance of AskRequests.
EXTENDS AskRequests, TLC

CONSTANT Filters

\* Bodies with one question: they share a place in the answer cache.
Bodies == [question : {"q"}, filter : Filters]

Symmetry ==
    Permutations(Calls) \union Permutations(Keys) \union Permutations(Filters)

\* Once overlapping writes have met, the two idempotency properties say nothing more.
UntilClobbered == ~clobbered
=============================================================================
