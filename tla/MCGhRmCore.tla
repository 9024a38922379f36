----------------------------- MODULE MCGhRmCore -----------------------------
\* TLC instances of GhRmCore.
EXTENDS GhRmCore
=============================================================================
