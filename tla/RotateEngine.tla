----------------------------- MODULE RotateEngine -----------------------------
(***************************************************************************)
(* The rotation engine of dongled (internal/rotate/rotate.go) together     *)
(* with the two tables it writes, the nft fence set, the mobile data       *)
(* switch of the dongles and the sweep that closes overdue rows.           *)
(*                                                                         *)
(* One element of Ops is one call of Engine.Rotate: the caller's checks,   *)
(* the row it inserts and the goroutine it starts.  pc[o] says where that  *)
(* call is; the names of the cycle's steps are the public step names of    *)
(* EVENTS.md.  Every action is what the code does between two points where *)
(* another goroutine, the sweep, a timeout or a crash can be observed.     *)
(*                                                                         *)
(* Time is not a number here.  What the engine tells apart is whether an   *)
(* instant has passed, so each of the three instants of an operation is an *)
(* event: its row's deadline_at (overdue), the timeout of its goroutine's  *)
(* context (expired, always later than deadline_at: RowDeadline() plus     *)
(* WaitConnect counted from a later start), and the end of min_interval    *)
(* after its requested_at (it leaves recent).  RotationVerdict.tla has the *)
(* clock.                                                                  *)
(***************************************************************************)
EXTENDS Naturals, FiniteSets

CONSTANTS
    Ops,            \* calls of Rotate; each becomes at most one operation
    Proxies,        \* proxies; a proxy has one slot, one dongle, one interface
    ProxyOf,        \* the proxy each call is about
    MaxConcurrent,  \* capacity of Engine.sem (farm wide cap, 4 in production)
    MaxAttempts,    \* rungs of the hold ladder (3 in production)
    Faults          \* what may go wrong besides a timeout, named in RotateAssumption

ASSUME RotateAssumption ==
    /\ IsFiniteSet(Ops)
    /\ ProxyOf \in [Ops -> Proxies]
    /\ MaxConcurrent \in Nat \ {0}
    /\ MaxAttempts \in Nat \ {0}
    /\ Faults \subseteq {"database", "nft", "switch", "recover", "shutdown", "crash"}

VARIABLES
    row,        \* operations.state of each operation
    rot,        \* rotations.result of each operation, "none" when not written
    recent,     \* operations that started less than min_interval ago
    overdue,    \* operations whose deadline_at has passed
    pc,         \* where each call of Rotate is
    attempt,    \* the attempt the goroutine is in, 0 before the first
    verdict,    \* result.Reason folded to the rotation result it stands for
    sem,        \* tokens in Engine.sem
    held,       \* goroutines whose deferred release() is registered
    guard,      \* goroutines whose fenceGuard.fenced is true
    dataOff,    \* goroutines whose local dataOff is true
    fenced,     \* proxies whose interface is in the nft set fenced_ifaces
    offline,    \* proxies whose dongle has mobile data switched off
    expired,    \* goroutines whose context timed out
    closed,     \* Engine.closed
    canceled,   \* shutdownCancel() was called
    drained,    \* Shutdown saw the wait group reach zero
    sweeper,    \* the reconcile engine: its Recover is due, it sweeps, it gave up
    told,       \* state carried by the op.done event, "none" before it
    writeLost,  \* history: operations whose Finish failed in the database
    fenceLost,  \* history: proxies fenced by a failed nft call or by a crash
    switchLost  \* history: proxies switched off by a failed call or a crash

tables  == <<row, rot, recent, overdue, writeLost>>
local   == <<attempt, verdict, guard, dataOff>>
devices == <<fenced, offline, fenceLost, switchLost>>
engine  == <<sem, held, closed, canceled, drained, expired>>
vars    == <<tables, local, devices, engine, pc, sweeper, told>>
-----------------------------------------------------------------------------
Calling    == {"interval", "conflict", "create", "register"}
\* Between taking a token and the end of the cycle: the dongle may be touched.
Working    == {"precheck", "fence", "data_off", "hold", "data_on", "wait_connect",
               "unfence", "verify", "restore", "release"}
Finishing  == {"record", "finish", "leave"}
Goroutine  == {"acquire", "jitter"} \cup Working \cup Finishing
Over       == {"refused", "done", "dead"}
Pcs        == {"idle"} \cup Calling \cup Goroutine \cup Over

OpenStates   == {"pending", "running"}
ClosedStates == {"succeeded", "failed", "canceled", "stalled"}
RowStates    == {"absent"} \cup OpenStates \cup ClosedStates
Verdicts     == {"none", "changed", "unchanged", "failed"}

Live(o)       == row[o] \in OpenStates
SameProxy(o)  == {q \in Ops : ProxyOf[q] = ProxyOf[o]}
CtxDone(o)    == canceled \/ o \in expired

\* finish(): a changed address is the only success (D-38).
FinalState(v) == IF v = "changed" THEN "succeeded" ELSE "failed"

\* A deliberately wrong Progressed: the UPDATE without finished_at IS NULL.
Bug_ProgressAnyRow(o) == [row EXCEPT ![o] = "running"]

\* Operations().Progress: UPDATE ... WHERE finished_at IS NULL.
Progressed(o) == [row EXCEPT ![o] = IF Live(o) THEN "running" ELSE @]

\* Operations().Finish: UPDATE ... WHERE finished_at IS NULL.
Finished(o, s) == [row EXCEPT ![o] = IF Live(o) THEN s ELSE @]

Goto(o, label) == pc' = [pc EXCEPT ![o] = label]
-----------------------------------------------------------------------------
(* What several actions share. *)

\* Engine.step ignores that Progress failed, on a dead context or in the database.
Step(o) ==
    \/ row' = Progressed(o)
    \/ ("database" \in Faults \/ CtxDone(o)) /\ UNCHANGED row

\* Finish failed; both callers ignore its error.
LoseFinal(o) ==
    /\ Live(o)
    /\ writeLost' = writeLost \cup {o}
    /\ UNCHANGED row

WriteFinal(o, s) ==
    \/ row' = Finished(o, s) /\ UNCHANGED writeLost
    \/ "database" \in Faults /\ LoseFinal(o)

Abort(o, label) ==
    /\ verdict' = [verdict EXCEPT ![o] = "failed"]
    /\ Goto(o, label)
    /\ UNCHANGED attempt

\* The attempt loop goes round: another rung, or no time left for it.
NextRung(o) ==
    /\ attempt[o] < MaxAttempts
    /\ \/ /\ attempt' = [attempt EXCEPT ![o] = @ + 1]
          /\ Goto(o, "fence")
          /\ UNCHANGED verdict
       \/ /\ verdict' = [verdict EXCEPT ![o] = "unchanged"]
          /\ Goto(o, "release")
          /\ UNCHANGED attempt

\* nft delete element; a failed call leaves the guard set and may have deleted it.
Unfenced(o) ==
    /\ fenced' = fenced \ {ProxyOf[o]}
    /\ fenceLost' = fenceLost \ {ProxyOf[o]}

-----------------------------------------------------------------------------
(***************************************************************************)
(* Deliberately wrong variants of the actions below, each the shape a      *)
(* plausible bug in the code would have.  No specification uses them; they *)
(* show that every property can fail.                                      *)
(***************************************************************************)

\* The INSERT without ux_operations_active.
Bug_CreateWithoutIndex(o) ==
    /\ pc[o] = "create"
    /\ Goto(o, "register")
    /\ row' = [row EXCEPT ![o] = "pending"]
    /\ UNCHANGED <<rot, recent, overdue, writeLost>>
    /\ UNCHANGED <<local, devices, engine, sweeper, told>>

\* No second look at closed before the goroutine starts.
Bug_RegisterUnchecked(o) ==
    /\ pc[o] = "register"
    /\ Goto(o, "acquire")
    /\ UNCHANGED <<tables, local, devices, engine, sweeper, told>>

\* The token is given back when acquire returns, not when the rotation ends.
Bug_JitterReleases(o) ==
    /\ pc[o] = "jitter"
    /\ recent' = recent \cup {o}
    /\ sem' = sem - 1
    /\ \/ Goto(o, "precheck") /\ UNCHANGED verdict
       \/ /\ CtxDone(o)
          /\ Goto(o, "record")
          /\ verdict' = [verdict EXCEPT ![o] = "failed"]
    /\ UNCHANGED <<row, rot, overdue, writeLost, attempt, guard, dataOff>>
    /\ UNCHANGED <<devices, held, closed, canceled, drained, expired, sweeper, told>>

\* dataOff cleared before DataSwitch(true) is known to have succeeded.
Bug_SwitchOnForgets(o) ==
    /\ pc[o] = "data_on"
    /\ Step(o)
    /\ dataOff' = dataOff \ {o}
    /\ \/ /\ ~CtxDone(o)
          /\ offline' = offline \ {ProxyOf[o]}
          /\ switchLost' = switchLost \ {ProxyOf[o]}
          /\ Goto(o, "wait_connect")
          /\ UNCHANGED <<verdict, attempt>>
       \/ /\ "switch" \in Faults \/ CtxDone(o)
          /\ Abort(o, "restore")
          /\ UNCHANGED <<offline, switchLost>>
    /\ UNCHANGED <<rot, recent, overdue, writeLost, guard>>
    /\ UNCHANGED <<fenced, fenceLost, engine, sweeper, told>>

\* fenceGuard.fenced cleared although nft refused to delete the element.
Bug_UnfenceForgets(o) ==
    /\ pc[o] = "unfence"
    /\ Step(o)
    /\ guard' = guard \ {o}
    /\ \/ /\ ~CtxDone(o)
          /\ Unfenced(o)
          /\ Goto(o, "verify")
          /\ UNCHANGED <<verdict, attempt>>
       \/ /\ "nft" \in Faults \/ CtxDone(o)
          /\ Abort(o, "release")
          /\ UNCHANGED <<fenced, fenceLost>>
    /\ UNCHANGED <<rot, recent, overdue, writeLost, dataOff>>
    /\ UNCHANGED <<offline, switchLost, engine, sweeper, told>>

\* An interrupted stagger sleep sends the goroutine back into the queue.
Bug_JitterQueuesAgain(o) ==
    /\ pc[o] = "jitter"
    /\ recent' = recent \cup {o}
    /\ \/ Goto(o, "precheck") /\ held' = held \cup {o} /\ UNCHANGED sem
       \/ CtxDone(o) /\ Goto(o, "acquire") /\ sem' = sem - 1 /\ UNCHANGED held
    /\ UNCHANGED <<row, rot, overdue, writeLost, local>>
    /\ UNCHANGED <<devices, closed, canceled, drained, expired, sweeper, told>>

\* A sweep that only looks at running rows.
Bug_StallOnlyRunning ==
    /\ sweeper = "sweeping"
    /\ \E o \in Ops : row[o] = "running" /\ o \in overdue
    /\ row' = [o \in Ops |-> IF row[o] = "running" /\ o \in overdue THEN "stalled" ELSE row[o]]
    /\ UNCHANGED <<rot, recent, overdue, writeLost, local, devices, engine, pc, sweeper, told>>

\* A recovery that fails every row of the table.
Bug_OrphanEveryRow ==
    /\ sweeper = "starting"
    /\ sweeper' = "sweeping"
    /\ row' = [o \in Ops |-> IF row[o] # "absent" THEN "failed" ELSE row[o]]
    /\ UNCHANGED <<rot, recent, overdue, writeLost, local, devices, engine, pc, told>>
-----------------------------------------------------------------------------
(* Engine.Rotate, the caller's side. *)

\* The first look at closed and the read of the target rows.
Call(o) ==
    /\ pc[o] = "idle"
    /\ \/ ~closed /\ Goto(o, "interval")
       \/ Goto(o, "refused")      \* closed, or a row of the target is missing
    /\ UNCHANGED <<tables, local, devices, engine, sweeper, told>>

\* Every query below runs on the caller's context: a client that went away, or
\* the database, makes it fail, and the call is refused with nothing changed.

\* checkInterval: the youngest rotations row of the proxy is too recent.
CheckInterval(o) ==
    /\ pc[o] = "interval"
    /\ \/ /\ \A q \in SameProxy(o) : rot[q] = "none" \/ q \notin recent
          /\ Goto(o, "conflict")
       \/ Goto(o, "refused")
    /\ UNCHANGED <<tables, local, devices, engine, sweeper, told>>

\* checkConflict: FindActive on the proxy.
CheckConflict(o) ==
    /\ pc[o] = "conflict"
    /\ \/ /\ \A q \in SameProxy(o) : ~Live(q)
          /\ Goto(o, "create")
       \/ Goto(o, "refused")
    /\ UNCHANGED <<tables, local, devices, engine, sweeper, told>>

\* Operations().Create: the INSERT may run into ux_operations_active.
Create(o) ==
    /\ pc[o] = "create"
    /\ \/ /\ \A q \in SameProxy(o) : ~Live(q)
          /\ Goto(o, "register")
          /\ row' = [row EXCEPT ![o] = "pending"]
       \/ Goto(o, "refused") /\ UNCHANGED row
    /\ UNCHANGED <<rot, recent, overdue, writeLost>>
    /\ UNCHANGED <<local, devices, engine, sweeper, told>>

\* The second look at closed, under mu: start the goroutine or cancel the row,
\* on the caller's context and with the error dropped.
Register(o) ==
    /\ pc[o] = "register"
    /\ \/ /\ ~closed
          /\ Goto(o, "acquire")
          /\ UNCHANGED <<row, writeLost>>
       \/ /\ closed
          /\ WriteFinal(o, "canceled") \/ LoseFinal(o)
          /\ Goto(o, "refused")
    /\ UNCHANGED <<rot, recent, overdue, local, devices, engine, sweeper, told>>
-----------------------------------------------------------------------------
(* Engine.run: the semaphore. *)

\* A select between a free token and ctx.Done(); Go takes either when both are ready.
Acquire(o) ==
    /\ pc[o] = "acquire"
    /\ \/ /\ sem < MaxConcurrent
          /\ sem' = sem + 1
          /\ Goto(o, "jitter")
          /\ UNCHANGED <<verdict, recent>>
       \/ /\ CtxDone(o)
          /\ Goto(o, "record")
          /\ verdict' = [verdict EXCEPT ![o] = "failed"]
          /\ recent' = recent \cup {o}
          /\ UNCHANGED sem
    /\ UNCHANGED <<row, rot, overdue, writeLost, attempt, guard, dataOff>>
    /\ UNCHANGED <<devices, held, closed, canceled, drained, expired, sweeper, told>>

\* The stagger sleep.  Cancelled, it gives the token back and nothing is deferred.
Jitter(o) ==
    /\ pc[o] = "jitter"
    /\ recent' = recent \cup {o}
    /\ \/ /\ Goto(o, "precheck")
          /\ held' = held \cup {o}
          /\ UNCHANGED <<sem, verdict>>
       \/ /\ CtxDone(o)
          /\ Goto(o, "record")
          /\ verdict' = [verdict EXCEPT ![o] = "failed"]
          /\ sem' = sem - 1
          /\ UNCHANGED held
    /\ UNCHANGED <<row, rot, overdue, writeLost, attempt, guard, dataOff>>
    /\ UNCHANGED <<devices, closed, canceled, drained, expired, sweeper, told>>
-----------------------------------------------------------------------------
(* Engine.execute and Engine.cycle. *)

\* Slot, device, SIM and egress are looked at before anything is touched.
Precheck(o) ==
    /\ pc[o] = "precheck"
    /\ Step(o)
    /\ \/ /\ ~CtxDone(o)
          /\ attempt' = [attempt EXCEPT ![o] = 1]
          /\ Goto(o, "fence")
          /\ UNCHANGED verdict
       \/ Abort(o, "release")
    /\ UNCHANGED <<rot, recent, overdue, writeLost, guard, dataOff>>
    /\ UNCHANGED <<devices, engine, sweeper, told>>

\* fenceGuard.fence, then KillSockets and FlushConntrack whose errors are notes.
\* Nft.Fence adds the element and then lists the set: it can fail with the element in.
Fence(o) ==
    /\ pc[o] = "fence"
    /\ Step(o)
    /\ \/ /\ ~CtxDone(o)
          /\ fenced' = fenced \cup {ProxyOf[o]}
          /\ guard' = guard \cup {o}
          /\ Goto(o, "data_off")
          /\ UNCHANGED <<verdict, attempt, fenceLost>>
       \/ /\ "nft" \in Faults \/ CtxDone(o)
          /\ Abort(o, "release")
          /\ \/ UNCHANGED <<fenced, fenceLost>>
             \/ /\ fenced' = fenced \cup {ProxyOf[o]}
                /\ fenceLost' = fenceLost \cup {ProxyOf[o]}
          /\ UNCHANGED guard
    /\ UNCHANGED <<rot, recent, overdue, writeLost, dataOff>>
    /\ UNCHANGED <<offline, switchLost, engine, sweeper, told>>

\* DataSwitch(false).  The call can fail after the dongle obeyed; cycle then
\* returns with dataOff still false.
SwitchOff(o) ==
    /\ pc[o] = "data_off"
    /\ Step(o)
    /\ \/ /\ ~CtxDone(o)
          /\ offline' = offline \cup {ProxyOf[o]}
          /\ dataOff' = dataOff \cup {o}
          /\ Goto(o, "hold")
          /\ UNCHANGED <<verdict, attempt, switchLost>>
       \/ /\ "switch" \in Faults \/ CtxDone(o)
          /\ Abort(o, "release")
          /\ \/ UNCHANGED <<offline, switchLost>>
             \/ /\ offline' = offline \cup {ProxyOf[o]}
                /\ switchLost' = switchLost \cup {ProxyOf[o]}
          /\ UNCHANGED dataOff
    /\ UNCHANGED <<rot, recent, overdue, writeLost, guard>>
    /\ UNCHANGED <<fenced, fenceLost, engine, sweeper, told>>

\* pollConn(disconnected), whose timeout is only a note, and the hold itself.
Hold(o) ==
    /\ pc[o] = "hold"
    /\ Step(o)
    /\ \/ /\ ~CtxDone(o)
          /\ Goto(o, "data_on")
          /\ UNCHANGED <<verdict, attempt>>
       \/ Abort(o, "restore")
    /\ UNCHANGED <<rot, recent, overdue, writeLost, guard, dataOff>>
    /\ UNCHANGED <<devices, engine, sweeper, told>>

SwitchOn(o) ==
    /\ pc[o] = "data_on"
    /\ Step(o)
    /\ \/ /\ ~CtxDone(o)
          /\ offline' = offline \ {ProxyOf[o]}
          /\ switchLost' = switchLost \ {ProxyOf[o]}
          /\ dataOff' = dataOff \ {o}
          /\ Goto(o, "wait_connect")
          /\ UNCHANGED <<verdict, attempt>>
       \/ /\ "switch" \in Faults \/ CtxDone(o)
          /\ Abort(o, "restore")
          /\ \/ UNCHANGED <<offline, switchLost>>
             \/ /\ offline' = offline \ {ProxyOf[o]}
                /\ switchLost' = switchLost \ {ProxyOf[o]}
          /\ UNCHANGED dataOff
    /\ UNCHANGED <<rot, recent, overdue, writeLost, guard>>
    /\ UNCHANGED <<fenced, fenceLost, engine, sweeper, told>>

\* The deferred restoreDataSession of cycle, on a context of its own.
Restore(o) ==
    /\ pc[o] = "restore"
    /\ dataOff' = dataOff \ {o}
    /\ Goto(o, "release")
    /\ \/ /\ offline' = offline \ {ProxyOf[o]}
          /\ switchLost' = switchLost \ {ProxyOf[o]}
       \/ /\ "switch" \in Faults
          /\ switchLost' = switchLost \cup {ProxyOf[o]}
          /\ UNCHANGED offline
    /\ UNCHANGED <<tables, attempt, verdict, guard>>
    /\ UNCHANGED <<fenced, fenceLost, engine, sweeper, told>>

\* pollConn(connected): connected, timed out on this rung, or a device error.
WaitConnect(o) ==
    /\ pc[o] = "wait_connect"
    /\ Step(o)
    /\ \/ /\ ~CtxDone(o) /\ ProxyOf[o] \notin offline
          /\ Goto(o, "unfence")
          /\ UNCHANGED <<verdict, attempt>>
       \/ NextRung(o)
       \/ Abort(o, "release")
    /\ UNCHANGED <<rot, recent, overdue, writeLost, guard, dataOff>>
    /\ UNCHANGED <<devices, engine, sweeper, told>>

Unfence(o) ==
    /\ pc[o] = "unfence"
    /\ Step(o)
    /\ \/ /\ ~CtxDone(o)
          /\ Unfenced(o)
          /\ guard' = guard \ {o}
          /\ Goto(o, "verify")
          /\ UNCHANGED <<verdict, attempt>>
       \/ /\ "nft" \in Faults \/ CtxDone(o)
          /\ Abort(o, "release")
          /\ Unfenced(o) \/ UNCHANGED <<fenced, fenceLost>>
          /\ UNCHANGED guard
    /\ UNCHANGED <<rot, recent, overdue, writeLost, dataOff>>
    /\ UNCHANGED <<offline, switchLost, engine, sweeper, told>>

\* The probe through the slot: a new address, the same one, an error or a leak.
Verify(o) ==
    /\ pc[o] = "verify"
    /\ Step(o)
    /\ \/ /\ ~CtxDone(o) /\ ProxyOf[o] \notin offline
          /\ verdict' = [verdict EXCEPT ![o] = "changed"]
          /\ Goto(o, "release")
          /\ UNCHANGED attempt
       \/ NextRung(o)
       \/ /\ ~CtxDone(o) /\ attempt[o] = MaxAttempts
          /\ verdict' = [verdict EXCEPT ![o] = "unchanged"]
          /\ Goto(o, "release")
          /\ UNCHANGED attempt
       \/ Abort(o, "release")
    /\ UNCHANGED <<rot, recent, overdue, writeLost, guard, dataOff>>
    /\ UNCHANGED <<devices, engine, sweeper, told>>

\* The deferred guard.release(): five seconds on a context of its own, error dropped.
Release(o) ==
    /\ pc[o] = "release"
    /\ Goto(o, "record")
    /\ \/ o \notin guard /\ UNCHANGED <<guard, fenced, fenceLost>>
       \/ /\ o \in guard
          /\ guard' = guard \ {o}
          /\ \/ Unfenced(o)
             \/ /\ "nft" \in Faults
                /\ fenceLost' = fenceLost \cup {ProxyOf[o]}
                /\ UNCHANGED fenced
    /\ UNCHANGED <<tables, attempt, verdict, dataOff>>
    /\ UNCHANGED <<offline, switchLost, engine, sweeper, told>>
-----------------------------------------------------------------------------
(* Engine.finish and the deferred calls of run and of the goroutine. *)

\* The escalation to a reboot is DeviceOps.tla's; a failed INSERT is ignored.
Record(o) ==
    /\ pc[o] = "record"
    /\ \/ rot' = [rot EXCEPT ![o] = verdict[o]]
       \/ "database" \in Faults /\ UNCHANGED rot
    /\ Goto(o, "finish")
    /\ UNCHANGED <<row, recent, overdue, writeLost>>
    /\ UNCHANGED <<local, devices, engine, sweeper, told>>

Finish(o) ==
    /\ pc[o] = "finish"
    /\ WriteFinal(o, FinalState(verdict[o]))
    /\ Goto(o, "leave")
    /\ UNCHANGED <<rot, recent, overdue, local, devices, engine, sweeper, told>>

\* op.done is published with the state finish() chose, and after it run's
\* release() if it was deferred; the waiters are woken and the wait group drops.
Leave(o) ==
    /\ pc[o] = "leave"
    /\ told' = [told EXCEPT ![o] = FinalState(verdict[o])]
    /\ sem' = IF o \in held THEN sem - 1 ELSE sem
    /\ held' = held \ {o}
    /\ expired' = expired \ {o}
    /\ attempt' = [attempt EXCEPT ![o] = 0]
    /\ verdict' = [verdict EXCEPT ![o] = "none"]
    /\ Goto(o, "done")
    /\ UNCHANGED <<tables, guard, dataOff, devices, closed, canceled, drained>>
    /\ UNCHANGED sweeper
-----------------------------------------------------------------------------
(* The sweep, time, shutdown and crashes. *)

\* deadline_at = created + RowDeadline() passes.
Deadline(o) ==
    /\ o \notin overdue
    /\ Live(o) \/ pc[o] \in Goroutine
    /\ overdue' = overdue \cup {o}
    /\ UNCHANGED <<row, rot, recent, writeLost, local, devices, engine, pc, sweeper, told>>

\* The goroutine's context times out, RowDeadline() + WaitConnect after its start.
Expire(o) ==
    /\ pc[o] \in Goroutine /\ o \in overdue /\ o \notin expired
    /\ expired' = expired \cup {o}
    /\ UNCHANGED <<tables, local, devices, sem, held, closed, canceled, drained>>
    /\ UNCHANGED <<pc, sweeper, told>>

\* min_interval has passed since requested_at.  Any rotation still in recent
\* makes checkInterval refuse, as the youngest one does in the code.
IntervalElapses(o) ==
    /\ o \in recent
    /\ recent' = recent \ {o}
    /\ UNCHANGED <<row, rot, overdue, writeLost, local, devices, engine, pc, sweeper, told>>

\* Operations().MarkStalled in reconcile.Engine.Once, one UPDATE over every row.
MarkStalled ==
    /\ sweeper = "sweeping"
    /\ \E o \in Ops : Live(o) /\ o \in overdue
    /\ row' = [o \in Ops |-> IF Live(o) /\ o \in overdue THEN "stalled" ELSE row[o]]
    /\ UNCHANGED <<rot, recent, overdue, writeLost, local, devices, engine, pc, sweeper, told>>

\* Engine.Recover of the reconciler, started beside the listeners.  When its
\* UPDATE fails, Engine.Run returns and this process never sweeps.
ReconcileOrphans ==
    /\ sweeper = "starting"
    /\ \/ /\ sweeper' = "sweeping"
          /\ row' = [o \in Ops |-> IF Live(o) THEN "failed" ELSE row[o]]
       \/ /\ "recover" \in Faults
          /\ sweeper' = "gone"
          /\ UNCHANGED row
    /\ UNCHANGED <<rot, recent, overdue, writeLost, local, devices, engine, pc, told>>

Shutdown ==
    /\ "shutdown" \in Faults /\ ~closed
    /\ closed' = TRUE
    /\ UNCHANGED <<tables, local, devices, sem, held, canceled, drained, expired>>
    /\ UNCHANGED <<pc, sweeper, told>>

\* wg.Wait() returned, or the grace period is over; either way shutdownCancel().
ShutdownEnds ==
    /\ closed /\ ~canceled
    /\ canceled' = TRUE
    /\ \/ (\A o \in Ops : pc[o] \notin Goroutine) /\ drained' = TRUE
       \/ UNCHANGED drained
    /\ UNCHANGED <<tables, local, devices, sem, held, closed, expired>>
    /\ UNCHANGED <<pc, sweeper, told>>

\* The process ends, by itself after Shutdown or killed at any point, and is
\* started again.  SQLite, nft and the dongles keep what they had.
Restart ==
    /\ canceled \/ "crash" \in Faults
    /\ pc' = [o \in Ops |-> IF pc[o] \in Calling \cup Goroutine THEN "dead" ELSE pc[o]]
    /\ fenceLost' = fenceLost \cup {ProxyOf[o] : o \in guard}
    /\ switchLost' = switchLost \cup {ProxyOf[o] : o \in dataOff}
    /\ guard' = {} /\ dataOff' = {}
    /\ sem' = 0 /\ held' = {} /\ expired' = {}
    /\ closed' = FALSE /\ canceled' = FALSE /\ drained' = FALSE
    /\ sweeper' = "starting"
    /\ attempt' = [o \in Ops |-> 0]
    /\ verdict' = [o \in Ops |-> "none"]
    /\ UNCHANGED <<tables, fenced, offline, told>>
-----------------------------------------------------------------------------
Init ==
    /\ row = [o \in Ops |-> "absent"]
    /\ rot = [o \in Ops |-> "none"]
    /\ recent = {} /\ overdue = {} /\ writeLost = {}
    /\ pc = [o \in Ops |-> "idle"]
    /\ attempt = [o \in Ops |-> 0]
    /\ verdict = [o \in Ops |-> "none"]
    /\ sem = 0 /\ held = {} /\ expired = {}
    /\ guard = {} /\ dataOff = {}
    /\ fenced = {} /\ offline = {} /\ fenceLost = {} /\ switchLost = {}
    /\ closed = FALSE /\ canceled = FALSE /\ drained = FALSE
    /\ sweeper = "sweeping"     \* Recover over an empty table changed nothing
    /\ told = [o \in Ops |-> "none"]

Caller(o) ==
    Call(o) \/ CheckInterval(o) \/ CheckConflict(o) \/ Create(o) \/ Register(o)

Cycle(o) ==
    \/ Precheck(o) \/ Fence(o) \/ SwitchOff(o) \/ Hold(o) \/ SwitchOn(o)
    \/ WaitConnect(o) \/ Unfence(o) \/ Verify(o) \/ Restore(o) \/ Release(o)

Run(o) ==
    \/ Acquire(o) \/ Jitter(o) \/ Cycle(o)
    \/ Record(o) \/ Finish(o) \/ Leave(o)

Clock(o) == Deadline(o) \/ Expire(o) \/ IntervalElapses(o)

Next ==
    \/ \E o \in Ops : Caller(o) \/ Run(o) \/ Clock(o)
    \/ MarkStalled \/ ReconcileOrphans
    \/ Shutdown \/ ShutdownEnds \/ Restart

Spec == Init /\ [][Next]_vars

(* Goroutines are scheduled, time passes, the sweep runs until shutdown    *)
(* stops it, Shutdown has a grace period, and a process whose Shutdown     *)
(* ended returns from main and is started again by systemd.  Nobody has to *)
(* call Rotate, and no device, database or nft call has to succeed.        *)
Fairness ==
    /\ \A o \in Ops :
         /\ WF_vars(Run(o))
         /\ WF_vars(pc[o] # "idle" /\ Caller(o))
         /\ WF_vars(Deadline(o)) /\ WF_vars(Expire(o))
    /\ WF_vars(~closed /\ MarkStalled)
    /\ WF_vars(ReconcileOrphans)
    /\ WF_vars(ShutdownEnds)
    /\ WF_vars(canceled /\ Restart)

FairSpec == Spec /\ Fairness
-----------------------------------------------------------------------------
TypeOK ==
    /\ row \in [Ops -> RowStates]
    /\ rot \in [Ops -> Verdicts]
    /\ recent \subseteq Ops /\ overdue \subseteq Ops /\ writeLost \subseteq Ops
    /\ pc \in [Ops -> Pcs]
    /\ attempt \in [Ops -> 0..MaxAttempts]
    /\ verdict \in [Ops -> Verdicts]
    /\ sem \in 0..MaxConcurrent
    /\ held \subseteq Ops /\ expired \subseteq Ops
    /\ guard \subseteq Ops /\ dataOff \subseteq Ops
    /\ fenced \subseteq Proxies /\ offline \subseteq Proxies
    /\ fenceLost \subseteq Proxies /\ switchLost \subseteq Proxies
    /\ closed \in BOOLEAN /\ canceled \in BOOLEAN /\ drained \in BOOLEAN
    /\ sweeper \in {"starting", "sweeping", "gone"}
    /\ told \in [Ops -> {"none"} \cup ClosedStates]

(* Two callers that both passed checkConflict still end with one row: at   *)
(* most one unfinished operation per proxy, whatever the sweep, the        *)
(* restart and late goroutines write (D-35, ux_operations_active).         *)
OneLivePerProxy ==
    \A o, q \in Ops : Live(o) /\ Live(q) /\ ProxyOf[o] = ProxyOf[q] => o = q

(* At most MaxConcurrent goroutines touch dongles at the same time, on     *)
(* every path in and out of the semaphore: the jitter that is cancelled,   *)
(* the acquire that never got a token, the deferred release (D-37).        *)
FarmCap == Cardinality({o \in Ops : pc[o] \in Working}) <= MaxConcurrent

(* An interface is fenced only while some rotation still owes an unfence,  *)
(* or after an nft call failed or the process died with the fence up.      *)
(* Every return of execute, early or late, goes through the guard.         *)
FenceIsOwed ==
    \A p \in fenced : p \in fenceLost \/ \E o \in guard : ProxyOf[o] = p

(* Mobile data is off only while some rotation still owes switching it     *)
(* back on, or after a switch call failed or the process died: no abort    *)
(* between data_off and data_on forgets the dongle.                        *)
DataIsOwed ==
    \A p \in offline : p \in switchLost \/ \E o \in dataOff : ProxyOf[o] = p

(* A rotation that is over owes nothing: its debts were settled before the *)
(* rotations row and the operation row were written.                       *)
DebtsSettledFirst ==
    \A o \in guard \cup dataOff : pc[o] \in Working

(* Shutdown that returned nil left no goroutine behind, and none starts    *)
(* afterwards, although a caller may have inserted its row before.         *)
NothingAfterDrain == drained => \A o \in Ops : pc[o] \notin Goroutine

(* Wait returns the row once the goroutine is over: it is finished by then *)
(* unless the database refused the write.                                  *)
WaitReadsAFinishedRow ==
    \A o \in Ops : pc[o] \in {"refused", "done"} => ~Live(o) \/ o \in writeLost

(* op.done is published after the row was closed, never before.            *)
DoneAfterClose ==
    \A o \in Ops : told[o] # "none" => row[o] \in ClosedStates \/ o \in writeLost

(* A closed row is never rewritten: a goroutine that finishes after the    *)
(* sweep stalled its row, or after a restart failed it, changes nothing.   *)
ClosedRowsAreFrozen ==
    [][\A o \in Ops : row[o] \in ClosedStates => row'[o] = row[o]]_vars

(* The operations table behaves as OperationLedger says.                   *)
Ledger == INSTANCE OperationLedger WITH SubjectOf <- ProxyOf
ImplementsLedger == Ledger!LedgerSpec

(* No row stays open for ever: a lost write, a goroutine cut by its        *)
(* context, a crash and a shutdown all end in a closed row.                *)
EveryRowCloses == \A o \in Ops : Live(o) ~> ~Live(o)

(* Every goroutine ends, also the ones that never get a token.             *)
EveryRotationEnds == \A o \in Ops : pc[o] \in Goroutine ~> pc[o] \in Over
-----------------------------------------------------------------------------
(* What the documents say and the code does not do. *)

(* D-36: a rotate while another rotation of the proxy is running is a 409. *)
NoSecondRotation ==
    \A o, q \in Ops :
        pc[o] \in Working /\ pc[q] \in Working /\ ProxyOf[o] = ProxyOf[q] => o = q

(* D-37: a rotate within min_interval of the last one is a 429.            *)
IntervalIsKept ==
    [][\A o \in Ops : row[o] = "absent" /\ row'[o] = "pending" =>
         \A q \in SameProxy(o) : ~(rot[q] # "none" /\ q \in recent)]_vars
=============================================================================
