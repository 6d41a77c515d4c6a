--------------------------- MODULE MCAccessCache ---------------------------
EXTENDS AccessCache
=============================================================================
