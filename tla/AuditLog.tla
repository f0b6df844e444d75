------------------------------ MODULE AuditLog ------------------------------
(***************************************************************************)
(* PreparedAuditSink::try_write_record (omne-execution-gateway,            *)
(* audit_log.rs): gateways in any number of processes and threads append   *)
(* records to one JSONL file.  The file is opened without O_APPEND, so a   *)
(* record goes where the handle's position is; the advisory lock around    *)
(* seek and write is what keeps records apart.  A record is several write  *)
(* calls, the last one for the newline; each may fail, and a process may   *)
(* be killed between any two of them.                                      *)
(***************************************************************************)
EXTENDS Naturals, Sequences

CONSTANTS
    Sinks,      \* the opened handles
    Records,    \* Records[s]: 2 for a prepared command, 1 for execute()
    Blocks,     \* write calls a record takes, without its newline
    Free        \* the lock is not held

ASSUME AuditLogAssumption ==
    /\ Records \in [Sinks -> {1, 2}]
    /\ Blocks \in Nat \ {0}
    /\ Free \notin Sinks

VARIABLES
    stage,         \* stage[s]: what the code holding s does next
    record,     \* record[s]: the number of the record being written
    position,   \* position[s]: cells before the handle's file position
    next,       \* next[s]: the block to write next
    written,    \* the records whose write calls all succeeded
    outcome,    \* outcome[s][r]: what the call that wrote record r returned
    lock,       \* the sink that holds the advisory lock, or Free
    content     \* the file

logVars == <<stage, record, position, next, written, outcome, lock, content>>

SinkStages == {"locking", "seeking", "writing", "unlocking", "held", "closed", "dead"}
Numbers == 1 .. 2
Newline == Blocks + 1
Cells == [sink : Sinks, record : Numbers, block : 1 .. Newline]

LogInit ==
    /\ stage = [s \in Sinks |-> "locking"]
    /\ record = [s \in Sinks |-> 1]
    /\ position = [s \in Sinks |-> 0]
    /\ next = [s \in Sinks |-> 1]
    /\ written = {}
    /\ outcome = [s \in Sinks |-> [r \in Numbers |-> "none"]]
    /\ lock = Free
    /\ content = << >>

-----------------------------------------------------------------------------
SinkAt(s, step) == stage[s] = step
SinkGoto(s, step) == stage' = [stage EXCEPT ![s] = step]

\* Mutant: the writer does not wait for the lock.
LockIgnored(s) == TRUE

LockFree(s) == lock = Free

AcquireLock(s) ==
    /\ SinkAt(s, "locking")
    /\ LockFree(s)
    /\ lock' = s
    /\ SinkGoto(s, "seeking")
    /\ UNCHANGED <<record, position, next, written, outcome, content>>

\* lock_exclusive blocks; when it fails, nothing is written.
LockFails(s) ==
    /\ SinkAt(s, "locking")
    /\ SinkGoto(s, "closed")
    /\ outcome' = [outcome EXCEPT ![s][record[s]] = "failed"]
    /\ UNCHANGED <<record, position, next, written, lock, content>>

\* Mutant: the position the last record left behind is taken for the end.
StalePosition(s) == position[s]

EndOfFile(s) == Len(content)

Seek(s) ==
    /\ SinkAt(s, "seeking")
    /\ \/ /\ position' = [position EXCEPT ![s] = EndOfFile(s)]
          /\ next' = [next EXCEPT ![s] = 1]
          /\ SinkGoto(s, "writing")
       \/ /\ SinkGoto(s, "unlocking")
          /\ UNCHANGED <<position, next>>
    /\ UNCHANGED <<record, written, outcome, lock, content>>

\* Write one cell at the handle's position.
Put(cell, at) ==
    IF at = Len(content) THEN Append(content, cell)
                         ELSE [content EXCEPT ![at + 1] = cell]

\* Mutant: the record ends without its newline.
LastBlockBody == Blocks

LastBlock == Newline

WriteBlock(s) ==
    /\ SinkAt(s, "writing")
    /\ \/ /\ content' = Put([sink |-> s, record |-> record[s], block |-> next[s]],
                            position[s])
          /\ position' = [position EXCEPT ![s] = @ + 1]
          /\ IF next[s] = LastBlock
             THEN /\ written' = written \cup {<<s, record[s]>>}
                  /\ SinkGoto(s, "unlocking")
                  /\ UNCHANGED next
             ELSE /\ next' = [next EXCEPT ![s] = @ + 1]
                  /\ UNCHANGED <<stage, written>>
       \/ /\ SinkGoto(s, "unlocking")
          /\ UNCHANGED <<position, next, written, content>>
    /\ UNCHANGED <<record, outcome, lock>>

\* Mutant: the lock is left for close to release.
LockKept(s) == lock

LockReleased(s) == Free

\* Mutant: only the unlock decides about the result.
WriteErrorIgnored(s) == TRUE

WriteSucceeded(s) == <<s, record[s]>> \in written

\* finish_locked_write: unlock is always tried, and its failure is one of the
\* write.  The sink is kept only after a prepare record that succeeded; else
\* it is dropped, and the close releases what unlock did not.
Unlock(s) ==
    /\ SinkAt(s, "unlocking")
    /\ \E ok \in {WriteSucceeded(s), FALSE} :
          LET kept == ok /\ record[s] < Records[s]
          IN  /\ outcome' = [outcome EXCEPT ![s][record[s]] =
                                IF ok THEN "ok" ELSE "failed"]
              /\ lock' = IF kept THEN LockReleased(s) ELSE Free
              /\ SinkGoto(s, IF kept THEN "held" ELSE "closed")
    /\ UNCHANGED <<record, position, next, written, content>>

SinkStep(s) == AcquireLock(s) \/ Seek(s) \/ WriteBlock(s) \/ Unlock(s)

\* The prepared command was spawned and came to an end: its terminal record.
WriteTerminalRecord(s) ==
    /\ SinkAt(s, "held")
    /\ SinkGoto(s, "locking")
    /\ record' = [record EXCEPT ![s] = 2]
    /\ UNCHANGED <<position, next, written, outcome, lock, content>>

\* The kernel releases a dead process's lock.
KillWriter(s) ==
    /\ stage[s] \notin {"closed", "dead"}
    /\ SinkGoto(s, "dead")
    /\ lock' = IF lock = s THEN Free ELSE lock
    /\ UNCHANGED <<record, position, next, written, outcome, content>>

LogNext ==
    \E s \in Sinks : SinkStep(s) \/ LockFails(s) \/ WriteTerminalRecord(s) \/ KillWriter(s)

\* The writing thread runs, and gets the lock once it stays free: there are
\* finitely many other records.  When the caller finishes a prepared command
\* is its own business; that the lock fails is never relied on.
Fairness == \A s \in Sinks : WF_logVars(SinkStep(s))

LogSpec == LogInit /\ [][LogNext]_logVars /\ Fairness

-----------------------------------------------------------------------------
\* Properties.

LogTypeOK ==
    /\ stage \in [Sinks -> SinkStages]
    /\ record \in [Sinks -> Numbers]
    /\ position \in [Sinks -> Nat]
    /\ next \in [Sinks -> 1 .. Newline]
    /\ written \subseteq Sinks \X Numbers
    /\ outcome \in [Sinks -> [Numbers -> {"none", "ok", "failed"}]]
    /\ lock \in Sinks \cup {Free}
    /\ content \in Seq(Cells)

\* The bytes of a record are contiguous and in order, whoever else writes,
\* fails or dies: records are never mixed.
RecordsContiguous ==
    \A i \in DOMAIN content :
        content[i].block > 1 =>
            i > 1 /\ content[i - 1] = [content[i] EXCEPT !.block = @ - 1]

\* A record reported as written is in the file with its newline.
AckedInFull ==
    \A s \in Sinks, r \in Numbers :
        outcome[s][r] = "ok" =>
            \E i \in DOMAIN content :
                content[i] = [sink |-> s, record |-> r, block |-> Newline]

StartsLine(i) == i = 1 \/ content[i - 1].block = Newline

\* Only a record whose write failed or whose writer died can be in front of
\* another record on its line.
OnlyTornRecordsSpoilLines ==
    \A i \in DOMAIN content :
        content[i].block = 1 /\ ~StartsLine(i) =>
            LET torn == content[i - 1]
            IN  \/ outcome[torn.sink][torn.record] = "failed"
                \/ stage[torn.sink] = "dead"

\* What is in the log stays there.
AppendOnly ==
    [][/\ Len(content) <= Len(content')
       /\ \A i \in DOMAIN content : content'[i] = content[i]]_logVars

\* A writer never waits for ever: every other writer lets go of the lock,
\* also when its write failed and while its caller keeps a prepared command.
WritersFinish ==
    \A s \in Sinks : SinkAt(s, "locking") ~> stage[s] \in {"held", "closed", "dead"}

\* JSONL: every record reported as written is a line of its own. The code does not have
\* this property (README, observed divergences): no run checks it.
AckedRecordIsLine ==
    \A s \in Sinks, r \in Numbers :
        outcome[s][r] = "ok" =>
            \A i \in DOMAIN content :
                content[i] = [sink |-> s, record |-> r, block |-> 1] => StartsLine(i)
=============================================================================
