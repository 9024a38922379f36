-------------------------- MODULE MCGhVirtioBackend --------------------------
\* TLC instances of GhVirtioBackend: the guest drives the first device.
EXTENDS GhVirtioBackend, TLC

FirstDev == {1}
=============================================================================
