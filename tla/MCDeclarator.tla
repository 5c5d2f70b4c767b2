----------------------------- MODULE MCDeclarator -----------------------------
EXTENDS DeclaratorClient

\* The miners of an instance.
CONSTANTS m1, m2
===============================================================================
