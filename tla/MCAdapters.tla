----------------------------- MODULE MCAdapters -----------------------------
EXTENDS Adapters, TLC

\* Two pairs of a user and a hostname make the same key, as "a" with "bc" and "ab"
\* with "c" do.
const_KeyOf(u, h) == IF <<u, h>> \in {<<"a", "bc">>, <<"ab", "c">>} THEN <<"a", "bc">> ELSE <<u, h>>

symmetry == Permutations(Id) \cup Permutations(Event)
=============================================================================
