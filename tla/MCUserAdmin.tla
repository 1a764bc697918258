---------------------------- MODULE MCUserAdmin ----------------------------
EXTENDS UserAdmin, TLC

\* All ids share their first eight digits.
SamePrefix == [u \in Users |-> "prefix"]

\* No two ids do.
OwnPrefix == [u \in Users |-> u]

Symmetry == Permutations(Users) \cup Permutations(Emails) \cup Permutations(Admins)
=============================================================================
