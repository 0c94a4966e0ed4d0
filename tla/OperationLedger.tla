--------------------------- MODULE OperationLedger ---------------------------
(***************************************************************************)
(* What the operations table promises to everything that reads it, with    *)
(* every engine, goroutine and timeout left out (D-35).                    *)
(*                                                                         *)
(* An operation is opened on a subject that has no unfinished operation,   *)
(* makes progress, and is closed exactly once.  Several operations may     *)
(* close in one statement: the sweep closes every overdue row and a        *)
(* restart closes every row.  A closed row is never written again.         *)
(***************************************************************************)
CONSTANTS
    Ops,        \* operation ids
    SubjectOf   \* the subject (proxy, dongle, node) each id would be opened on

VARIABLE row    \* the state column of every row, "absent" before the INSERT

OpenStates   == {"pending", "running"}
ClosedStates == {"succeeded", "failed", "canceled", "stalled"}

\* finished_at IS NULL
Unfinished(o) == row[o] \in OpenStates
-----------------------------------------------------------------------------
LedgerInit == row = [o \in Ops |-> "absent"]

Open(o) ==
    /\ row[o] = "absent"
    /\ \A q \in Ops : SubjectOf[q] = SubjectOf[o] => ~Unfinished(q)
    /\ row' = [row EXCEPT ![o] = "pending"]

Advance(o) ==
    /\ Unfinished(o)
    /\ row' = [row EXCEPT ![o] = "running"]

Close(o, s) ==
    /\ Unfinished(o)
    /\ row' = [row EXCEPT ![o] = s]

CloseAll(S, s) ==
    /\ \A o \in S : Unfinished(o)
    /\ row' = [o \in Ops |-> IF o \in S THEN s ELSE row[o]]

LedgerNext ==
    \/ \E o \in Ops : Open(o) \/ Advance(o)
    \/ \E o \in Ops, s \in ClosedStates : Close(o, s)
    \/ \E S \in SUBSET Ops, s \in ClosedStates : CloseAll(S, s)

LedgerSpec == LedgerInit /\ [][LedgerNext]_row
=============================================================================
