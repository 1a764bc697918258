-------------------------- MODULE MCHistoryDownload --------------------------
EXTENDS HistoryDownload, TLC

Symmetry == Permutations(Handlers)
=============================================================================
