--------------------------- MODULE MCMessageOrder ---------------------------
\* Values for TLC of the constants of MessageOrder that a .cfg cannot write.
EXTENDS MessageOrder, TLC

AllFailures == Failures
AllMessageFailures == MessageFailures
Symmetry == Permutations(Messages) \cup Permutations(Registered)
=============================================================================
