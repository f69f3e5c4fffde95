------------------------------- MODULE MCLdbCache -------------------------------
(***************************************************************************)
(* Small instances of LdbCache, and the sum that its usage should be.      *)
(***************************************************************************)
EXTENDS LdbCache, FiniteSetsExt, TLC

Symmetry == Permutations(Clients) \cup Permutations(Keys) \cup Permutations(Entries)

\* usage_ is what the entries in the cache are charged with: it would drift
\* with an entry that is counted twice or never taken off.
UsageIsTheSum ==
    usage = MapThenSumSet(LAMBDA e : charge[e], {e \in Entries : inCache[e]})
=============================================================================
