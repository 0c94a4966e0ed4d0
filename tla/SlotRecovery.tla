----------------------------- MODULE SlotRecovery -----------------------------
(***************************************************************************)
(* What the reconcile engine does about a dongle that does not answer or   *)
(* has lost its data session (internal/reconcile): the poll with its       *)
(* backoff and its memory of the last answer, the budgets, the recovery    *)
(* part of the plan and the actions it starts, through rotate.Engine and   *)
(* devops.Service.  SlotSweep has the network part of the same sweep.      *)
(*                                                                         *)
(* Time is a sequence of ticks and every moment is kept as an age: the     *)
(* ticks since then, up to the threshold it is compared with.  A sweep is  *)
(* shorter than a tick.                                                    *)
(***************************************************************************)
EXTENDS Integers

CONSTANTS
    After,          \* UnreachableRebootAfter
    Grace,          \* StartupGrace
    Cooldown,       \* RebootCooldown
    PerDay,         \* RebootBudgetPerDay
    MinInterval,    \* MinRotateInterval
    MaxDelay,       \* BackoffMax
    SlowEvery       \* SlowPollEvery

ASSUME RecoveryAssumption ==
    /\ {After, Grace, Cooldown, PerDay, MinInterval} \subseteq Nat
    /\ {MaxDelay, SlowEvery} \subseteq Nat \ {0}

VARIABLES
    device,     \* what the dongle is: its state and its SIM lock
    live,       \* live operations: a reboot of the dongle, a rotation of its proxy
    past,       \* the rows: reboots since midnight, the age of the last one, of the last rotation
    uptime,     \* age of the process
    stage,      \* where the sweep is
    desired,     \* budgets and live operations as the sweep loaded them
    obs,      \* DeviceObservation of the slot
    back,       \* backoffState of the slot
    nth,        \* sweeps completed, modulo SlowEvery
    planned,       \* actions of the plan still to apply, in the order of the plan
    quiet       \* age of the last answer, or of the first question without one

recVars == <<device, live, past, uptime, stage, desired, obs, back, nth, planned, quiet>>
opRows == <<live, past>>
poller == <<obs, back, nth>>

Never == -1
Ages(limit) == 0 .. limit \cup {Never}
Older(age, limit) == IF age \in {Never, limit} THEN age ELSE age + 1
Unseen == [seen |-> FALSE, reachable |-> FALSE, connected |-> FALSE, locked |-> FALSE,
           observedAt |-> Never, failingSince |-> Never]
Nothing == [busy |-> {}, reboot |-> FALSE, rotate |-> FALSE]

RecTypeOK ==
    /\ device \in [state: {"dead", "dropped", "connected"}, locked: BOOLEAN]
    /\ live \subseteq {"reboot", "rotate"}
    /\ past \in [used: 0 .. PerDay, last: Ages(Cooldown), rotated: Ages(MinInterval)]
    /\ uptime \in 0 .. Grace /\ stage \in {"rest", "poll", "act"} /\ desired \in [busy: SUBSET {"reboot", "rotate"}, reboot: BOOLEAN, rotate: BOOLEAN]
    /\ obs \in [seen: BOOLEAN, reachable: BOOLEAN, connected: BOOLEAN, locked: BOOLEAN,
                  observedAt: Ages(After), failingSince: Ages(After)]
    /\ back \in [failures: Nat, wait: Nat] /\ nth \in 0 .. SlowEvery - 1
    /\ planned \in {"nothing", "reboot", "rotate"}
    /\ quiet \in Ages(After)

\* Engine.Run of a new process: an empty cache, every live operation failed.
Fresh ==
    /\ live' = {} /\ uptime' = 0 /\ stage' = "rest" /\ desired' = Nothing
    /\ obs' = Unseen /\ back' = [failures |-> 0, wait |-> 0] /\ nth' = 0 /\ planned' = "nothing" /\ quiet' = Never

RecInit ==
    /\ device \in [state: {"dead", "dropped", "connected"}, locked: {FALSE}]
    /\ live = {} /\ past = [used |-> 0, last |-> Never, rotated |-> Never]
    /\ uptime = 0 /\ stage = "rest" /\ desired = Nothing
    /\ obs = Unseen /\ back = [failures |-> 0, wait |-> 0] /\ nth = 0 /\ planned = "nothing" /\ quiet = Never
-----------------------------------------------------------------------------
(* The poll.                                                               *)

\* Backoff.Delay with a factor of 2 and a jitter of 0.3, in ticks; how far a
\* failure count is told apart is where the delay has reached its maximum.
Base(failures) == LET d == 2 ^ (failures - 1) IN IF d < MaxDelay THEN d ELSE MaxDelay
Delay(failures) == (Base(failures) * 7) \div 10 .. (Base(failures) * 13 + 9) \div 10

\* backoffState.ready, succeed and fail.
Ready == back.failures = 0 \/ back.wait = 0
Succeed == back' = [failures |-> 0, wait |-> 0]
Fail ==
    LET n == back.failures
        f == IF n > 0 /\ Base(n) = MaxDelay THEN n ELSE n + 1
    IN  \E d \in Delay(f) : back' = [failures |-> f, wait |-> d]

\* Poller.observeDevice: every slow sweep reads the SIM and the login too, and
\* a reading that fails keeps what it was.
Observed(slow, simRead) ==
    [obs EXCEPT !.seen = TRUE, !.reachable = TRUE, !.failingSince = Never, !.observedAt = 0,
                  !.connected = device.state = "connected",
                  !.locked = IF slow /\ simRead THEN device.locked ELSE @]

\* Every failure is the first one.
Bug_Unanswered == [obs EXCEPT !.seen = TRUE, !.reachable = FALSE, !.failingSince = 0]

\* Poller.pollDevice of a question without an answer.
Unanswered == [obs EXCEPT !.seen = TRUE, !.reachable = FALSE,
                            !.failingSince = IF @ = Never THEN 0 ELSE @]

\* Poller.pollDevice.
PollDevice ==
    \/ /\ Ready /\ device.state # "dead" /\ Succeed
       /\ \E simRead \in BOOLEAN : obs' = Observed(nth = 0, simRead)
       /\ quiet' = 0
    \/ /\ Ready /\ device.state = "dead" /\ Fail
       /\ obs' = Unanswered
       /\ quiet' = IF quiet = Never THEN 0 ELSE quiet
    \/ ~Ready /\ UNCHANGED <<obs, back, quiet>>
-----------------------------------------------------------------------------
(* The plan.                                                               *)

\* World.GraceUntil and InStartupGrace; the sweep counts itself as completed
\* before the plan is made, so that the cache is always warm.
InStartupGrace == uptime < Grace

\* Budgets.RebootAllowed, and devops.Service.RebootAllowed of the rows.
RebootAllowed(b) == b.used < PerDay /\ b.last \in {Never, Cooldown}

\* Budgets.RotateAllowed and rotate.Engine.checkInterval.
RotateAllowed(b) == b.rotated \in {Never, MinInterval}

\* The time a dongle was last seen is not looked at.
Bug_SilentTooLong(o) == TRUE

SilentTooLong(o) == After \in {IF o.observedAt = Never THEN o.failingSince ELSE o.observedAt}

\* planRecovery, of an active proxy and a dongle with auto recovery on.
PlanRecovery(o) ==
    IF ~o.seen \/ o.locked THEN "nothing"
    ELSE IF ~o.reachable THEN IF SilentTooLong(o) /\ desired.reboot THEN "reboot" ELSE "nothing"
    ELSE IF ~o.connected /\ desired.rotate THEN "rotate" ELSE "nothing"

\* planSlot: a live operation, as loaded, leaves the slot alone; and Plan with
\* dropDestructive.
PlanOf(o) == IF desired.busy # {} \/ InStartupGrace THEN "nothing" ELSE PlanRecovery(o)
-----------------------------------------------------------------------------
(* The sweep.                                                              *)

\* LoadActiveOps and LoadBudgets.
LoadBudgets ==
    desired' = [busy |-> live, reboot |-> RebootAllowed(past), rotate |-> RotateAllowed(past)]

\* Engine.Once up to the poll.
RecLoad ==
    /\ stage = "rest" /\ stage' = "poll" /\ LoadBudgets
    /\ UNCHANGED <<device, opRows, uptime, poller, planned, quiet>>

\* Poller.Sweep and Plan.
RecPoll ==
    /\ stage = "poll" /\ stage' = "act" /\ PollDevice
    /\ nth' = (nth + 1) % SlowEvery
    /\ planned' = PlanOf(obs')
    /\ UNCHANGED <<device, opRows, uptime, desired>>

\* Actuator.Apply.
Apply(a) == stage = "act" /\ planned = a /\ planned' = "nothing"

\* The row of an operation that begins.
RebootRow == [past EXCEPT !.used = IF @ < PerDay THEN @ + 1 ELSE @, !.last = 0]

\* Actuator.Apply and rebootDongle, with Engine.RebootDongle, RebootAuto and
\* RebootAs: the live reboot and the budget are asked once more.
RebootDongle ==
    /\ Apply("reboot")
    /\ IF "reboot" \notin live /\ RebootAllowed(past)
       THEN live' = live \cup {"reboot"} /\ past' = RebootRow
       ELSE UNCHANGED opRows
    /\ UNCHANGED <<device, uptime, stage, desired, poller, quiet>>

\* Actuator.Apply and recoverRotate, with rotate.Engine.RecoverRotate.
RecoverRotate ==
    /\ Apply("rotate")
    /\ IF "rotate" \notin live /\ RotateAllowed(past)
       THEN live' = live \cup {"rotate"} /\ past' = [past EXCEPT !.rotated = 0]
       ELSE UNCHANGED opRows
    /\ UNCHANGED <<device, uptime, stage, desired, poller, quiet>>

RecRests ==
    /\ stage = "act" /\ planned = "nothing" /\ stage' = "rest" /\ desired' = Nothing
    /\ UNCHANGED <<device, opRows, uptime, poller, planned, quiet>>

RecSweep == RecLoad \/ RecPoll \/ RebootDongle \/ RecoverRotate \/ RecRests
-----------------------------------------------------------------------------
(* The rest of the world.                                                  *)

Tick ==
    /\ stage = "rest" /\ uptime' = Older(uptime, Grace)
    /\ past' = [past EXCEPT !.last = Older(@, Cooldown), !.rotated = Older(@, MinInterval)]
    /\ obs' = [obs EXCEPT !.observedAt = Older(@, After), !.failingSince = Older(@, After)]
    /\ back' = [back EXCEPT !.wait = IF @ = 0 THEN 0 ELSE @ - 1]
    /\ quiet' = Older(quiet, After)
    /\ UNCHANGED <<device, live, stage, desired, nth, planned>>

\* startOfDay: the reboots of yesterday are not counted, nor their cooldown.
Midnight ==
    /\ past.used > 0 /\ past' = [past EXCEPT !.used = 0, !.last = Never]
    /\ UNCHANGED <<device, live, uptime, stage, desired, poller, planned, quiet>>

\* RebootAs of an administrator, and a rotation anybody else asked for.
AdminReboots ==
    /\ live = {} /\ live' = {"reboot"} /\ past' = RebootRow
    /\ UNCHANGED <<device, uptime, stage, desired, poller, planned, quiet>>

SomebodyRotates ==
    /\ "rotate" \notin live /\ RotateAllowed(past)
    /\ live' = live \cup {"rotate"} /\ past' = [past EXCEPT !.rotated = 0]
    /\ UNCHANGED <<device, uptime, stage, desired, poller, planned, quiet>>

\* runReboot, or a rotation, ends: with the session back or not.
OpEnds ==
    /\ \E o \in live : live' = live \ {o}
    /\ device' \in {device, [device EXCEPT !.state = "connected"]}
    /\ UNCHANGED <<past, uptime, stage, desired, poller, planned, quiet>>

\* The dongle dies, loses its session, comes back, or its SIM is locked or unlocked.
DongleChanges ==
    /\ \E s \in {"dead", "dropped", "connected"} :
        s # device.state /\ device' \in {[device EXCEPT !.state = s], [device EXCEPT !.state = s, !.locked = ~@]}
    /\ UNCHANGED <<opRows, uptime, stage, desired, poller, planned, quiet>>

RecRestart == Fresh /\ UNCHANGED <<device, past>>

RecNext ==
    RecSweep \/ Tick \/ Midnight \/ AdminReboots \/ SomebodyRotates \/ OpEnds \/ DongleChanges \/ RecRestart

\* The engine sweeps and time passes, operations have deadlines, a day ends.
RecFairness ==
    /\ WF_recVars(RecSweep) /\ SF_recVars(Tick) /\ WF_recVars(OpEnds) /\ WF_recVars(Midnight)

RecSpec == RecInit /\ [][RecNext]_recVars /\ RecFairness
-----------------------------------------------------------------------------
(* What the recovery promises.                                             *)

\* The sweep starts a reboot only of a dongle that did not answer the last
\* time it was asked and has not for UnreachableRebootAfter, whatever happened
\* in between to the rows, the operations and the clock (planRecovery).
RebootsTheSilent ==
    [][RebootDongle /\ live' # live => ~obs.reachable /\ quiet = After]_recVars

\* A dongle that stays dead while nobody touches it is rebooted again and
\* again, day after day; unless the SIM was seen locked (planRecovery,
\* pollDevice, Backoff).
DeadIsRebooted ==
    <>[][~DongleChanges /\ ~RecRestart /\ ~AdminReboots /\ ~SomebodyRotates]_recVars =>
        []<>(device.state # "dead" \/ obs.locked \/ "reboot" \in live)
=============================================================================
