--------------------------- MODULE MCGhMemParcel ---------------------------
\* The TLC instance of GhMemParcel.
EXTENDS GhMemParcel, TLC
=============================================================================
