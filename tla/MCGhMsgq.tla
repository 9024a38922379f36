------------------------------ MODULE MCGhMsgq ------------------------------
\* TLC instances of GhMsgq: which directions the label has, and symmetric
\* threads for the runs without a liveness property.
EXTENDS GhMsgq, TLC

RxOnly == {"rx"}
TxOnly == {"tx"}
Duplex == {"tx", "rx"}

ThreadSymmetry == Permutations(Senders) \cup Permutations(Receivers)
=============================================================================
