--------------------------- MODULE MCGhProxySched ---------------------------
\* TLC instances of GhProxySched: what the hypervisor answers for a vcpu of a
\* VM that has exited.
EXTENDS GhProxySched, TLC

OnlyError == {"ERROR"}
=============================================================================
