--------------------------- MODULE MCClientRuntime ---------------------------
EXTENDS ClientRuntime

CONSTANT c1
=============================================================================
