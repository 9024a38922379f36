----------------------------- MODULE MCGhIrqLend -----------------------------
\* The TLC instance of GhIrqLend.
EXTENDS GhIrqLend, TLC
=============================================================================
