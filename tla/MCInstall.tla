----------------------------- MODULE MCInstall -----------------------------
\* Small instances of Install for TLC.
EXTENDS Install

CONSTANTS c1, c2

\* A call with a digest and one without, each with a second candidate.
MCCalls == {c1, c2}
MCChecked == {c1}
MCCandidates == [c \in MCCalls |-> 2]
============================================================================
