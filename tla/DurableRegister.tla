--------------------------- MODULE DurableRegister ---------------------------
(***************************************************************************)
(* What one destination path promises the callers of the atomic writers of *)
(* omne-fs-primitives: the path always holds one whole value, a power loss *)
(* can only take it back to a value it held since it was last made         *)
(* durable, and a call that was acknowledged is never taken back.          *)
(*                                                                         *)
(* A state of the path is a record: the value it holds and the set of      *)
(* calls whose publication led to it (a later state includes the earlier   *)
(* ones).                                                                  *)
(***************************************************************************)
CONSTANTS
    Callers,    \* the calls that may publish a value
    Foreign,    \* the value other programs put at the path
    Absent      \* nothing is at the path

VARIABLES
    current,        \* the state readers see now
    recoverable,    \* the states a power loss may leave
    acked           \* the calls that returned success

vars == <<current, recoverable, acked>>

Values == Callers \cup {Foreign, Absent}
States == [value : Values, published : SUBSET Callers]

Init ==
    /\ current \in [value : {Foreign, Absent}, published : {{}}]
    /\ recoverable = {current}
    /\ acked = {}

\* The path moves to another state, which a power loss may or may not keep.
Become(state) ==
    /\ current' = state
    /\ recoverable' = recoverable \cup {state}
    /\ UNCHANGED acked

Publish(c) ==
    /\ c \notin acked
    /\ Become([value |-> c, published |-> current.published \cup {c}])

ForeignChange(value) ==
    Become([current EXCEPT !.value = value])

\* A call may be acknowledged once no recoverable state is without it.
Acknowledge(c) ==
    /\ c \in current.published
    /\ recoverable' = {current}
    /\ acked' = acked \cup {c}
    /\ UNCHANGED current

PowerLoss ==
    /\ current' \in recoverable
    /\ recoverable' = {current'}
    /\ UNCHANGED acked

Next ==
    \/ \E c \in Callers : Publish(c) \/ Acknowledge(c)
    \/ \E value \in {Foreign, Absent} : ForeignChange(value)
    \/ PowerLoss

Spec == Init /\ [][Next]_vars
=============================================================================
