------------------------------ MODULE MCAuditLog ------------------------------
\* Small instances of AuditLog for TLC.
EXTENDS AuditLog

CONSTANTS s1, s2, s3

MCSinks == {s1, s2, s3}

\* A prepared command and two execute() calls.
MCRecords == [s \in MCSinks |-> IF s = s1 THEN 2 ELSE 1]
===============================================================================
