--------------------------- MODULE MCAtomicDirectory ---------------------------
\* Small instances of AtomicDirectory for TLC.
EXTENDS AtomicDirectory

CONSTANTS c1, c2

MCCommitters == {c1, c2}
================================================================================
