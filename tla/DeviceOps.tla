------------------------------ MODULE DeviceOps ------------------------------
(***************************************************************************)
(* The tasks of internal/devops on one dongle: reboot by the admin, reboot *)
(* by the daemon itself (the last rung of a rotation, or the reconciler)   *)
(* and change of the network mode, beside the rotations of the proxy that  *)
(* sits on the dongle.                                                     *)
(*                                                                         *)
(* A task and a rotation write rows of different subjects, the dongle and  *)
(* the proxy, so the unique index does not keep them apart: devops reads   *)
(* the proxy's row before it inserts its own, and Rotate reads nothing of  *)
(* the dongle.  A rotation is only its row here, opened and closed as      *)
(* OperationLedger allows; RotateEngine.tla has its steps.                 *)
(*                                                                         *)
(* Instants are events as in RotateEngine: overdue (deadline_at), expired  *)
(* (the goroutine's context, twice the deadline), the end of the reboot    *)
(* cooldown (an operation leaves cooling) and midnight UTC (today ends).   *)
(***************************************************************************)
EXTENDS Naturals, FiniteSets

CONSTANTS
    Ops,        \* calls of the service and of Rotate; each opens at most one row
    KindOf,     \* what each call asks for
    Budget,     \* RebootBudgetPerDay (4 in production)
    Faults      \* what may go wrong besides a timeout

Kinds == {"rotate", "reboot", "auto", "net_mode"}

ASSUME DeviceAssumption ==
    /\ IsFiniteSet(Ops)
    /\ KindOf \in [Ops -> Kinds]
    /\ Budget \in Nat
    /\ Faults \subseteq {"switch", "shutdown", "crash", "database"}

VARIABLES
    row,        \* operations.state of each operation
    overdue,    \* operations whose deadline_at has passed
    today,      \* reboot rows with started_at since midnight UTC
    cooling,    \* reboot rows with started_at less than RebootCooldown ago
    pc,         \* where each call is
    outcome,    \* the state finishOp is going to write, "none" before
    offline,    \* mobile data of the dongle is switched off
    dataOff,    \* goroutines of runNetMode whose local dataOff is true
    expired,    \* goroutines whose context timed out
    closed,     \* Service.closed
    canceled,   \* shutdownCancel() was called
    drained,    \* Shutdown saw the wait group reach zero
    sweeping,   \* the reconcile engine has done its Recover
    told,       \* state carried by the op.done event, "none" before it
    writeLost,  \* history: open rows whose terminal write failed
    switchLost  \* history: switched off by a failed call or a crash

tables == <<row, overdue, today, cooling>>
dongle == <<offline, dataOff, switchLost>>
engine == <<expired, closed, canceled, drained, sweeping>>
vars   == <<tables, dongle, engine, pc, outcome, told, writeLost>>
-----------------------------------------------------------------------------
Calling   == {"conflict", "rotate_fence", "budget", "admit", "create", "register"}
Working   == {"precheck", "reboot", "wait_down", "wait_up", "data_on", "verify",
              "data_off", "wait_disconnect", "set_mode", "wait_connect", "restore"}
Goroutine == Working \cup {"finish", "leave"}
Over      == {"refused", "done", "dead"}
Pcs       == {"idle", "rotating"} \cup Calling \cup Goroutine \cup Over

OpenStates   == {"pending", "running"}
ClosedStates == {"succeeded", "failed", "canceled", "stalled"}
RowStates    == {"absent"} \cup OpenStates \cup ClosedStates

IsReboot(o)  == KindOf[o] \in {"reboot", "auto"}
SubjectOf    == [o \in Ops |-> IF KindOf[o] = "rotate" THEN "proxy" ELSE "dongle"]
Live(o)      == row[o] \in OpenStates
CtxDone(o)   == canceled \/ o \in expired

\* FindActive of a subject, and ux_operations_active.
SubjectFree(s) == \A q \in Ops : SubjectOf[q] = s => ~Live(q)

Goto(o, label) == pc' = [pc EXCEPT ![o] = label]

\* A wrong Finish: without finished_at IS NULL.
Bug_FinishedAnyRow(o, s) == [row EXCEPT ![o] = s]

\* Operations().Finish: UPDATE ... WHERE finished_at IS NULL.
Finished(o, s) == [row EXCEPT ![o] = IF Live(o) THEN s ELSE @]

\* A write of a task may fail in the database, or on a context that is over.
WriteFails(o) == "database" \in Faults \/ CtxDone(o)

\* A terminal write that fails: its error is dropped, an open row stays open.
LoseWrite(o) ==
    /\ writeLost' = IF Live(o) THEN writeLost \cup {o} ELSE writeLost
    /\ UNCHANGED row

\* Service.step: when Progress fails the step goes on, without an event.
Step(o) ==
    \/ ~CtxDone(o) /\ row' = [row EXCEPT ![o] = IF Live(o) THEN "running" ELSE @]
    \/ WriteFails(o) /\ UNCHANGED row

\* fn returns; a deferred restore of runNetMode comes before finishOp.
Return(o, s) ==
    /\ outcome' = [outcome EXCEPT ![o] = s]
    /\ Goto(o, "restore")

\* A step that goes on when its device call answers, and returns when it does not.
Proceed(o, label) ==
    \/ ~CtxDone(o) /\ Goto(o, label) /\ UNCHANGED outcome
    \/ Return(o, "failed")

Untimed  == UNCHANGED <<overdue, today, cooling>>
Outside  == UNCHANGED <<engine, told, writeLost>>
-----------------------------------------------------------------------------
(***************************************************************************)
(* Deliberately wrong variants of the definitions that follow, each the    *)
(* shape a plausible bug would have.  No specification uses them.          *)
(***************************************************************************)

\* The INSERT without ux_operations_active.
Bug_CreateWithoutIndex(o) ==
    /\ pc[o] = "create"
    /\ Goto(o, "register")
    /\ row' = [row EXCEPT ![o] = "pending"]
    /\ today' = IF IsReboot(o) THEN today \cup {o} ELSE today
    /\ cooling' = IF IsReboot(o) THEN cooling \cup {o} ELSE cooling
    /\ Outside /\ UNCHANGED <<overdue, dongle, outcome>>

\* No second look at closed before the goroutine starts.
Bug_RegisterUnchecked(o) ==
    /\ pc[o] = "register"
    /\ Goto(o, "precheck")
    /\ UNCHANGED <<tables, dongle, engine, outcome, told, writeLost>>

\* dataOff cleared before DataSwitch(true) is known to have succeeded.
Bug_SwitchOnForgets(o) ==
    /\ pc[o] = "data_on"
    /\ Step(o)
    /\ dataOff' = dataOff \ {o}
    /\ \/ /\ ~CtxDone(o)
          /\ offline' = FALSE /\ switchLost' = FALSE
          /\ Goto(o, "wait_connect")
          /\ UNCHANGED outcome
       \/ /\ "switch" \in Faults \/ CtxDone(o)
          /\ Return(o, "failed")
          /\ UNCHANGED <<offline, switchLost>>
    /\ Untimed /\ Outside

\* Only a success is written.
Bug_FinishOnlySuccess(o) ==
    /\ pc[o] = "finish"
    /\ Goto(o, "leave")
    /\ row' = IF outcome[o] = "succeeded" THEN Finished(o, "succeeded") ELSE row
    /\ Untimed /\ UNCHANGED <<dongle, engine, outcome, told, writeLost>>

\* A poll that does not look at its context waits for the dongle for ever.
Bug_WaitingForever(o, here, next) ==
    /\ pc[o] = here
    /\ Step(o)
    /\ ~CtxDone(o) /\ Goto(o, next)
    /\ Untimed /\ Outside /\ UNCHANGED <<dongle, outcome>>

\* A sweep that only looks at running rows.
Bug_StallOnlyRunning ==
    /\ sweeping
    /\ \E o \in Ops : row[o] = "running" /\ o \in overdue
    /\ row' = [o \in Ops |-> IF row[o] = "running" /\ o \in overdue THEN "stalled" ELSE row[o]]
    /\ Untimed /\ Outside /\ UNCHANGED <<dongle, pc, outcome>>
-----------------------------------------------------------------------------
(* Rotations of the proxy, seen from here. *)

\* Rotate looks at the proxy's row only, never at the dongle's.
RotateOpens(o) ==
    /\ KindOf[o] = "rotate" /\ pc[o] = "idle"
    /\ SubjectFree("proxy")
    /\ row' = [row EXCEPT ![o] = "pending"]
    /\ Goto(o, "rotating")
    /\ Untimed /\ Outside /\ UNCHANGED <<dongle, outcome>>

\* finish(): the row is closed, after the escalation if there is one.
RotateCloses(o) ==
    /\ pc[o] = "rotating"
    /\ \/ /\ \E s \in {"succeeded", "failed"} : row' = Finished(o, s)
          /\ UNCHANGED writeLost
       \/ "database" \in Faults /\ LoseWrite(o)
    /\ Goto(o, "done")
    /\ Untimed /\ UNCHANGED <<dongle, engine, outcome, told>>
-----------------------------------------------------------------------------
(* RebootAs, SetNetModeAs and start, on the caller's side.  Every query may *)
(* fail, which refuses the call.                                            *)

Call(o) ==
    /\ KindOf[o] # "rotate" /\ pc[o] = "idle"
    /\ (Goto(o, "conflict") \/ Goto(o, "refused"))   \* target rows missing
    /\ Outside /\ UNCHANGED <<tables, dongle, outcome>>

\* checkConflict on the dongle; what comes next depends on who asks.
CheckConflict(o) ==
    /\ pc[o] = "conflict"
    /\ \/ /\ SubjectFree("dongle")
          /\ Goto(o, IF KindOf[o] = "auto" THEN "budget" ELSE "rotate_fence")
       \/ Goto(o, "refused")
    /\ Outside /\ UNCHANGED <<tables, dongle, outcome>>

\* checkRotateFence: no unfinished operation of the proxy.
CheckRotateFence(o) ==
    /\ pc[o] = "rotate_fence"
    /\ \/ SubjectFree("proxy") /\ Goto(o, "admit")
       \/ Goto(o, "refused")
    /\ Outside /\ UNCHANGED <<tables, dongle, outcome>>

\* RebootAllowed reads the reboot rows since midnight, and only those.
RebootAllowed == Cardinality(today) < Budget /\ today \cap cooling = {}

CheckBudget(o) ==
    /\ pc[o] = "budget"
    /\ \/ RebootAllowed /\ Goto(o, "admit")
       \/ Goto(o, "refused")
    /\ Outside /\ UNCHANGED <<tables, dongle, outcome>>

\* start: the first look at closed.
Admit(o) ==
    /\ pc[o] = "admit"
    /\ Goto(o, IF closed THEN "refused" ELSE "create")
    /\ Outside /\ UNCHANGED <<tables, dongle, outcome>>

\* start: the INSERT.
Create(o) ==
    /\ pc[o] = "create"
    /\ \/ /\ SubjectFree("dongle")
          /\ Goto(o, "register")
          /\ row' = [row EXCEPT ![o] = "pending"]
          /\ today' = IF IsReboot(o) THEN today \cup {o} ELSE today
          /\ cooling' = IF IsReboot(o) THEN cooling \cup {o} ELSE cooling
       \/ Goto(o, "refused") /\ UNCHANGED <<row, today, cooling>>
    /\ Outside /\ UNCHANGED <<overdue, dongle, outcome>>

\* start: the second look at closed, under mu with the wait group.  The row of
\* a refused call is cancelled on the caller's context, which may be over.
Register(o) ==
    /\ pc[o] = "register"
    /\ \/ ~closed /\ Goto(o, "precheck") /\ UNCHANGED <<row, writeLost>>
       \/ /\ closed /\ Goto(o, "refused")
          /\ \/ row' = Finished(o, "canceled") /\ UNCHANGED writeLost
             \/ LoseWrite(o)
    /\ Untimed /\ UNCHANGED <<dongle, engine, outcome, told>>
-----------------------------------------------------------------------------
(* runReboot and runNetMode.                                               *)

\* ForSlot, and for the network mode the current mode: nothing to do ends here.
Precheck(o) ==
    /\ pc[o] = "precheck"
    /\ Step(o)
    /\ \/ Proceed(o, IF IsReboot(o) THEN "reboot" ELSE "data_off")
       \/ ~IsReboot(o) /\ ~CtxDone(o) /\ Return(o, "succeeded")
    /\ Untimed /\ Outside /\ UNCHANGED dongle

\* The order is given; a dongle that stops answering counts as obeying.
Reboot(o) ==
    /\ pc[o] = "reboot"
    /\ Step(o)
    /\ \/ Goto(o, "wait_down") /\ UNCHANGED outcome
       \/ Return(o, "failed")
    /\ Untimed /\ Outside /\ UNCHANGED dongle

\* waitDown only reports what it saw.
WaitDown(o) ==
    /\ pc[o] = "wait_down"
    /\ Step(o)
    /\ Goto(o, "wait_up")
    /\ Untimed /\ Outside /\ UNCHANGED <<dongle, outcome>>

\* waitUp, or in a network mode change the poll for the end of the session.
Waiting(o, here, next) ==
    /\ pc[o] = here
    /\ Step(o)
    /\ Proceed(o, next)
    /\ Untimed /\ Outside /\ UNCHANGED dongle

WaitUp(o)         == Waiting(o, "wait_up", "data_on")
WaitDisconnect(o) == Waiting(o, "wait_disconnect", "set_mode")
SetMode(o)        == Waiting(o, "set_mode", "data_on")
WaitConnect(o)    == Waiting(o, "wait_connect", "verify")

\* A switch call that answers an error may have been obeyed all the same.
SwitchOff(o) ==
    /\ pc[o] = "data_off"
    /\ Step(o)
    /\ \/ /\ ~CtxDone(o)
          /\ offline' = TRUE
          /\ dataOff' = dataOff \cup {o}
          /\ Goto(o, "wait_disconnect")
          /\ UNCHANGED <<outcome, switchLost>>
       \/ /\ "switch" \in Faults \/ CtxDone(o)
          /\ Return(o, "failed")
          /\ \/ offline' = TRUE /\ switchLost' = TRUE
             \/ UNCHANGED <<offline, switchLost>>
          /\ UNCHANGED dataOff
    /\ Untimed /\ Outside

SwitchOn(o) ==
    /\ pc[o] = "data_on"
    /\ Step(o)
    /\ \/ /\ ~CtxDone(o)
          /\ offline' = FALSE /\ switchLost' = FALSE
          /\ dataOff' = dataOff \ {o}
          /\ Goto(o, "wait_connect")
          /\ UNCHANGED outcome
       \/ /\ "switch" \in Faults \/ CtxDone(o)
          /\ Return(o, "failed")
          /\ \/ offline' = FALSE /\ switchLost' = FALSE
             \/ UNCHANGED <<offline, switchLost>>
          /\ UNCHANGED dataOff
    /\ Untimed /\ Outside

\* A reboot only notes the state it finds; a network mode change compares.
Verify(o) ==
    /\ pc[o] = "verify"
    /\ Step(o)
    /\ \/ (IsReboot(o) \/ ~CtxDone(o)) /\ Return(o, "succeeded")
       \/ ~IsReboot(o) /\ Return(o, "failed")
    /\ Untimed /\ Outside /\ UNCHANGED dongle

\* The deferred DataSwitch(true) of runNetMode, on a context of its own.
Restore(o) ==
    /\ pc[o] = "restore"
    /\ Goto(o, "finish")
    /\ dataOff' = dataOff \ {o}
    /\ \/ o \notin dataOff /\ UNCHANGED <<offline, switchLost>>
       \/ o \in dataOff /\ offline' = FALSE /\ switchLost' = FALSE
       \/ /\ o \in dataOff /\ "switch" \in Faults
          /\ switchLost' = TRUE
          /\ UNCHANGED offline
    /\ Outside /\ UNCHANGED <<tables, outcome>>

\* finishOp writes on the task's own context, and drops the error.
Finish(o) ==
    /\ pc[o] = "finish"
    /\ Goto(o, "leave")
    /\ \/ ~CtxDone(o) /\ row' = Finished(o, outcome[o]) /\ UNCHANGED writeLost
       \/ WriteFails(o) /\ LoseWrite(o)
    /\ Untimed /\ UNCHANGED <<dongle, engine, outcome, told>>

\* finishOp publishes op.done; the goroutine wakes its waiters and is over.
Leave(o) ==
    /\ pc[o] = "leave"
    /\ told' = [told EXCEPT ![o] = outcome[o]]
    /\ outcome' = [outcome EXCEPT ![o] = "none"]
    /\ expired' = expired \ {o}
    /\ Goto(o, "done")
    /\ UNCHANGED <<tables, dongle, closed, canceled, drained, sweeping, writeLost>>
-----------------------------------------------------------------------------
(* Time, the sweep, shutdown and crashes. *)

\* deadline_at passes.
Deadline(o) ==
    /\ o \notin overdue
    /\ Live(o) \/ pc[o] \in Goroutine
    /\ overdue' = overdue \cup {o}
    /\ Outside /\ UNCHANGED <<row, today, cooling, dongle, pc, outcome>>

\* The goroutine's context times out, twice the deadline after its start.
Expire(o) ==
    /\ pc[o] \in Goroutine /\ o \in overdue /\ o \notin expired
    /\ expired' = expired \cup {o}
    /\ UNCHANGED <<tables, dongle, closed, canceled, drained, sweeping>>
    /\ UNCHANGED <<pc, outcome, told, writeLost>>

CooldownEnds(o) ==
    /\ o \in cooling
    /\ cooling' = cooling \ {o}
    /\ Outside /\ UNCHANGED <<row, overdue, today, dongle, pc, outcome>>

Midnight ==
    /\ today # {}
    /\ today' = {}
    /\ Outside /\ UNCHANGED <<row, overdue, cooling, dongle, pc, outcome>>

MarkStalled ==
    /\ sweeping
    /\ \E o \in Ops : Live(o) /\ o \in overdue
    /\ row' = [o \in Ops |-> IF Live(o) /\ o \in overdue THEN "stalled" ELSE row[o]]
    /\ Untimed /\ Outside /\ UNCHANGED <<dongle, pc, outcome>>

ReconcileOrphans ==
    /\ ~sweeping
    /\ sweeping' = TRUE
    /\ row' = [o \in Ops |-> IF Live(o) THEN "failed" ELSE row[o]]
    /\ Untimed
    /\ UNCHANGED <<dongle, expired, closed, canceled, drained, pc, outcome, told, writeLost>>

Shutdown ==
    /\ "shutdown" \in Faults /\ ~closed
    /\ closed' = TRUE
    /\ UNCHANGED <<tables, dongle, expired, canceled, drained, sweeping>>
    /\ UNCHANGED <<pc, outcome, told, writeLost>>

\* wg.Wait() returned, or the grace period is over; either way shutdownCancel().
ShutdownEnds ==
    /\ closed /\ ~canceled
    /\ canceled' = TRUE
    /\ \/ (\A o \in Ops : pc[o] \notin Goroutine) /\ drained' = TRUE
       \/ UNCHANGED drained
    /\ UNCHANGED <<tables, dongle, expired, closed, sweeping>>
    /\ UNCHANGED <<pc, outcome, told, writeLost>>

\* The process ends, after Shutdown or killed at any point, and starts again.
Restart ==
    /\ canceled \/ "crash" \in Faults
    /\ pc' = [o \in Ops |-> IF pc[o] \in {"rotating"} \cup Calling \cup Goroutine
                            THEN "dead" ELSE pc[o]]
    /\ switchLost' = (switchLost \/ dataOff # {})
    /\ dataOff' = {} /\ expired' = {}
    /\ closed' = FALSE /\ canceled' = FALSE /\ drained' = FALSE
    /\ sweeping' = FALSE
    /\ outcome' = [o \in Ops |-> "none"]
    /\ UNCHANGED <<tables, offline, told, writeLost>>
-----------------------------------------------------------------------------
Init ==
    /\ row = [o \in Ops |-> "absent"]
    /\ overdue = {} /\ today = {} /\ cooling = {} /\ expired = {}
    /\ pc = [o \in Ops |-> "idle"]
    /\ outcome = [o \in Ops |-> "none"]
    /\ offline = FALSE /\ dataOff = {} /\ switchLost = FALSE
    /\ closed = FALSE /\ canceled = FALSE /\ drained = FALSE
    /\ sweeping = TRUE      \* Recover over an empty table changed nothing
    /\ told = [o \in Ops |-> "none"]
    /\ writeLost = {}

Caller(o) ==
    \/ Call(o) \/ CheckConflict(o) \/ CheckRotateFence(o) \/ CheckBudget(o)
    \/ Admit(o) \/ Create(o) \/ Register(o)

Task(o) ==
    \/ Precheck(o) \/ Reboot(o) \/ WaitDown(o) \/ WaitUp(o)
    \/ SwitchOff(o) \/ WaitDisconnect(o) \/ SetMode(o)
    \/ SwitchOn(o) \/ WaitConnect(o) \/ Verify(o)
    \/ Restore(o) \/ Finish(o) \/ Leave(o)

Rotation(o) == RotateOpens(o) \/ RotateCloses(o)
Clock(o)    == Deadline(o) \/ Expire(o) \/ CooldownEnds(o)

Next ==
    \/ \E o \in Ops : Rotation(o) \/ Caller(o) \/ Task(o) \/ Clock(o)
    \/ Midnight \/ MarkStalled \/ ReconcileOrphans
    \/ Shutdown \/ ShutdownEnds \/ Restart

Spec == Init /\ [][Next]_vars

(* Goroutines are scheduled, time passes, the sweep runs until shutdown    *)
(* stops it, and a stopped process is started again.  Nobody has to call,  *)
(* and no rotation and no device call has to succeed.                      *)
Fairness ==
    /\ \A o \in Ops : WF_vars(Task(o)) /\ WF_vars(Deadline(o)) /\ WF_vars(Expire(o))
    /\ WF_vars(~closed /\ MarkStalled)
    /\ WF_vars(ReconcileOrphans)
    /\ WF_vars(ShutdownEnds)
    /\ WF_vars(canceled /\ Restart)

FairSpec == Spec /\ Fairness
-----------------------------------------------------------------------------
TypeOK ==
    /\ row \in [Ops -> RowStates]
    /\ overdue \subseteq Ops /\ today \subseteq Ops /\ cooling \subseteq Ops
    /\ pc \in [Ops -> Pcs]
    /\ outcome \in [Ops -> {"none", "succeeded", "failed"}]
    /\ \A o \in Ops : pc[o] \in {"restore", "finish", "leave"} => outcome[o] # "none"
    /\ offline \in BOOLEAN /\ switchLost \in BOOLEAN
    /\ dataOff \subseteq Ops /\ expired \subseteq Ops
    /\ closed \in BOOLEAN /\ canceled \in BOOLEAN /\ drained \in BOOLEAN
    /\ sweeping \in BOOLEAN
    /\ told \in [Ops -> {"none", "succeeded", "failed"}]
    /\ writeLost \subseteq Ops

(* Mobile data is off only while a network mode change still owes          *)
(* switching it back on, or after a switch call failed or the process      *)
(* died: no return of runNetMode forgets the dongle.                       *)
DataIsOwed == offline => switchLost \/ dataOff # {}

(* The debt is settled before the row says how the task ended.             *)
DebtsSettledFirst == \A o \in dataOff : pc[o] \in Working

(* Shutdown that returned nil left no goroutine behind, and none starts    *)
(* afterwards, although a caller may have inserted its row before.         *)
NothingAfterDrain == drained => \A o \in Ops : pc[o] \notin Goroutine

(* Two tasks work on the dongle at once only when the table gave one of    *)
(* them up: its row was stalled by the sweep or failed by a recovery.      *)
TwoTasksMeanALostRow ==
    \A o, q \in Ops :
        pc[o] \in Working /\ pc[q] \in Working /\ o # q =>
            row[o] \in {"stalled", "failed"} \/ row[q] \in {"stalled", "failed"}

(* op.done never contradicts the table: the row closed as the event says,  *)
(* or the sweep or a recovery had given it up, or it is still open because *)
(* its terminal write failed, an error finishOp drops.                     *)
DoneTellsTheRow ==
    \A o \in Ops : told[o] # "none" =>
        \/ row[o] \in {told[o], "stalled", "failed"}
        \/ Live(o) /\ o \in writeLost

(* The operations table behaves as OperationLedger says, with two subjects.*)
Ledger == INSTANCE OperationLedger
ImplementsLedger == Ledger!LedgerSpec

(* Every task ends, also one whose dongle never comes back.                *)
EveryTaskEnds == \A o \in Ops : pc[o] \in Goroutine ~> pc[o] \in Over

(* No row stays open for ever, also when its terminal write was lost.      *)
EveryRowCloses == \A o \in Ops : Live(o) ~> ~Live(o)
-----------------------------------------------------------------------------
(* What the documents say and the code does not do. *)

(* D-45: between two reboots of a dongle lie thirty minutes, unless an     *)
(* admin asks for one.                                                     *)
CooldownIsKept ==
    [][\A o \in Ops : pc[o] = "budget" /\ pc'[o] = "admit" => cooling = {}]_vars
=============================================================================
