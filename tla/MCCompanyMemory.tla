--------------------------- MODULE MCCompanyMemory ---------------------------
(* Instances of CompanyMemory for TLC. *)
EXTENDS CompanyMemory, TLC

CONSTANTS s1, s2, a1, a2, i1, i2

TwoSessions == {s1, s2}
TwoAnswers == {a1, a2}
TwoSources == {i1, i2}

\* One guess below the threshold and one above it, in tenths; and a percentage
\* given where a fraction is meant.
Guesses == {5, 8}
AnyNumber == {5, 8, 90}

Symmetric == Permutations(TwoSessions) \cup Permutations(TwoAnswers) \cup Permutations(TwoSources)
=============================================================================
