----------------------------- MODULE MCVectorSet -----------------------------
(* Small instances of VectorSet for TLC. *)
EXTENDS VectorSet, TLC

CONSTANTS s1, s2, s3, b1, b1x, d2, other, A, B, w1, w2, c1, r1

\* A base, its version published again with other bytes, a delta on it, and the
\* base of another model.
Base      == [id |-> s1, sha |-> b1, kind |-> "base", from |-> 0, to |-> 1, model |-> A]
Again     == [id |-> s1, sha |-> b1x, kind |-> "base", from |-> 0, to |-> 1, model |-> A]
Delta     == [id |-> s2, sha |-> d2, kind |-> "delta", from |-> 1, to |-> 2, model |-> A]
OtherBase == [id |-> s3, sha |-> other, kind |-> "base", from |-> 0, to |-> 2, model |-> B]

Updates       == {Base, Delta}
Repairs       == {Base, Again, Delta}
TwoBases      == {Base, OtherBase}
Bases         == {Base, Again}
SameModel     == {<<A, A>>, <<B, B>>}

=============================================================================
