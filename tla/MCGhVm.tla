------------------------------- MODULE MCGhVm -------------------------------
\* TLC instances of GhVm: vcpu ids, and the calls that may fail.
EXTENDS GhVm, TLC

TwoVcpus == {0, 1}

\* Behaviours in which anything may fail, and those whose failures are reported,
\* without and with requests that are not sent.
AnyOrReported == {FaultNames, Reported, Reported \cup {"unsent"}}
=============================================================================
