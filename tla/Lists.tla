------------------------------- MODULE Lists -------------------------------
(* Tables and lists.                                                       *)
EXTENDS Naturals, Sequences, FiniteSets

\* f with the entry k overwritten or added.
Put(f, k, v) == [j \in DOMAIN f \cup {k} |-> IF j = k THEN v ELSE f[j]]

Positions(s, S) == {k \in 1 .. Len(s) : s[k] \in S}

\* The elements of s that are in S, in their order: the q-th is the one with q
\* of them up to its place.
Kept(s, S) ==
    [q \in 1 .. Cardinality(Positions(s, S)) |->
        s[CHOOSE k \in Positions(s, S) : Cardinality(Positions(s, S) \cap 1 .. k) = q]]
=============================================================================
