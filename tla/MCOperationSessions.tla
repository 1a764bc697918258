------------------------ MODULE MCOperationSessions ------------------------
(* TLC: the slots that serve polls are interchangeable.                    *)
EXTENDS OperationSessions, TLC

Symmetry == Permutations(Pollers) \cup Permutations(Consumers)
=============================================================================
