----------------------------- MODULE MCAtomicFile -----------------------------
\* Small instances of AtomicFile for TLC.
EXTENDS AtomicFile

CONSTANTS w1, w2

MCWriters == {w1, w2}

\* One call has a block to copy, the other an empty reader.
MCPayload == [w \in MCWriters |-> IF w = w1 THEN 1 ELSE 0]

Replace == [overwrite_existing |-> TRUE, require_non_empty |-> FALSE,
            require_executable |-> FALSE, unix_mode |-> "none"]
Exclusive == [Replace EXCEPT !.overwrite_existing = FALSE]
Binary == [Replace EXCEPT !.require_non_empty = TRUE,
                          !.require_executable = TRUE, !.unix_mode = "exec"]
PlainBinary == [Binary EXCEPT !.require_non_empty = FALSE, !.unix_mode = "plain"]

MCOptionSets == {Exclusive, Binary, PlainBinary}
=============================================================================
