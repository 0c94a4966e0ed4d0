--------------------------- MODULE RotationVerdict ---------------------------
(***************************************************************************)
(* One rotation with a clock: Engine.execute of internal/rotate, the hold  *)
(* ladder of policy.go, the polls, the probes and what they let the engine *)
(* say about the public address.  RotateEngine.tla has the concurrency of  *)
(* the same code and knows only that instants pass.                        *)
(*                                                                         *)
(* now counts from the INSERT of the operation's row.  Nothing moves the   *)
(* clock but the step that takes the time, so the actions of the carrier   *)
(* (a new address, a device that does not answer) are choices inside the   *)
(* steps.  run gives all of them one context, from the INSERT on; what is  *)
(* deferred, and finish, have contexts of their own.  A shutdown ends the  *)
(* context early: any step may fail before its time.                       *)
(***************************************************************************)
EXTENDS Naturals, Integers, Sequences

CONSTANTS
    HoldEscalate,   \* the hold ladder (6, 15, 40 in production)
    MaxAttempts,    \* 3
    WaitConnect,    \* 45
    DisconnectCap,  \* min(WaitConnect, waitDisconnectCap): 15
    VerifyTimeout,  \* 10
    HardDeadline,   \* 90
    PollInterval,   \* 1
    CallMax,        \* longest device or nft call: 20, two tries of a handshake
                    \* and a request, five seconds each
    ReleaseTimeout, \* fenceReleaseTimeout: 5
    FinishDeadline, \* 10
    Addresses,      \* public addresses the carrier hands out
    Nated           \* the dongle's own WanIP is not its public address

ASSUME PolicyAssumption ==
    /\ HoldEscalate \in Seq(Nat \ {0}) /\ HoldEscalate # <<>>
    /\ MaxAttempts \in Nat \ {0}
    /\ WaitConnect \in Nat \ {0} /\ DisconnectCap \in 0..WaitConnect
    /\ VerifyTimeout \in Nat \ {0} /\ HardDeadline \in Nat \ {0}
    /\ PollInterval \in Nat \ {0}
    /\ CallMax \in Nat /\ ReleaseTimeout \in Nat /\ FinishDeadline \in Nat
    /\ Nated \in BOOLEAN

ASSUME AddressAssumption == {"none", "private", "leaked"} \cap Addresses = {}

VARIABLES
    pc,         \* the step execute is in
    now,        \* seconds since the INSERT
    start,      \* when execute began
    attempt,    \* the attempt under way, 0 before the first
    public,     \* the address the world sees
    before,     \* history: that address when execute began
    old, new,   \* res.Old and res.New, "none" while not valid; "leaked" is
                \* the host's own address, of a probe that left the slot
    probed,     \* history: res.Old came from a probe
    measured,   \* history: the last attempt ended with a probe that answered
    verdict     \* res.Reason, "none" before the end

vars == <<pc, now, start, attempt, public, before, old, new, probed, measured, verdict>>
-----------------------------------------------------------------------------
Verdicts == {"none", "changed", "unchanged", "failed"}

\* Policy.HoldFor: the last rung serves every further attempt.
HoldFor(a) == HoldEscalate[IF a <= Len(HoldEscalate) THEN a ELSE Len(HoldEscalate)]

\* Policy.RowDeadline: deadline_at of the row.
RowDeadline == HardDeadline * 2

\* A wrong context: made when execute begins, after the wait for a token.
Bug_CtxEnd == start + RowDeadline + WaitConnect

\* run: the context of the wait for a token and of execute.
CtxEnd == RowDeadline + WaitConnect

Earliest(a, b) == IF a <= b THEN a ELSE b

Remaining == start + HardDeadline - now

\* Policy.AttemptFits
AttemptFits(a) == Remaining >= HoldFor(a) + VerifyTimeout

\* Status().WanIP: behind the carrier's NAT it is a private address.
WanIP == IF Nated THEN "private" ELSE public

\* A step under the context of run, and that it ended before the context did.
Lapse(most) == now' \in now..Earliest(now + most, CtxEnd)
InTime      == now' < CtxEnd

\* pollConn gives up at the first look after its budget, one sleep late at most.
PollMax(budget) == budget + PollInterval + CallMax

End(v) == pc' = "deferred" /\ verdict' = v

History == UNCHANGED <<start, before>>
-----------------------------------------------------------------------------
\* acquire: the wait for a token and the jitter, as long as the context lets it.
\* When it is canceled execute is never called.
Queue ==
    /\ pc = "queue"
    /\ Lapse(CtxEnd)
    /\ start' = now' /\ before' = public
    /\ \/ InTime /\ pc' = "precheck" /\ UNCHANGED verdict
       \/ pc' = "finish" /\ verdict' = "failed"
    /\ UNCHANGED <<attempt, public, old, new, probed, measured>>

\* Pin status and the first probe.  When the probe fails, res.Old is what the
\* dongle calls its address, or nothing.
Precheck ==
    /\ pc = "precheck"
    /\ Lapse(3 * CallMax + VerifyTimeout)
    /\ \/ End("failed") /\ new' \in {new, "leaked"} /\ UNCHANGED <<old, probed>>
       \/ /\ pc' = "ladder"
          /\ \/ InTime /\ old' = public /\ probed' = TRUE
             \/ old' \in {WanIP, "none"} /\ probed' = FALSE
          /\ UNCHANGED <<verdict, new>>
    /\ History /\ UNCHANGED <<attempt, public, measured>>

\* Top of the loop, and what follows it when there is no time or rung left.
Ladder ==
    /\ pc = "ladder"
    /\ \/ /\ attempt < MaxAttempts /\ AttemptFits(attempt + 1)
          /\ attempt' = attempt + 1 /\ measured' = FALSE
          /\ pc' = "fence"
          /\ UNCHANGED verdict
       \/ /\ attempt = MaxAttempts \/ ~AttemptFits(attempt + 1)
          /\ End(IF attempt = 0 THEN "failed" ELSE "unchanged")
          /\ UNCHANGED <<attempt, measured>>
    /\ History /\ UNCHANGED <<now, public, old, new, probed>>

\* Fence, KillSockets, FlushConntrack.
Fence ==
    /\ pc = "fence"
    /\ Lapse(3 * CallMax)
    /\ \/ InTime /\ pc' = "data_off" /\ UNCHANGED verdict
       \/ End("failed")
    /\ History /\ UNCHANGED <<attempt, public, old, new, probed, measured>>

\* DataSwitch(false) and the poll for the end of the session; a session that
\* does not end in time is only noted.
DataOff ==
    /\ pc = "data_off"
    /\ Lapse(CallMax + PollMax(DisconnectCap))
    /\ \/ InTime /\ pc' = "hold" /\ UNCHANGED verdict
       \/ End("failed")
    /\ History /\ UNCHANGED <<attempt, public, old, new, probed, measured>>

\* The hold, after which the carrier may hand out another address, and which
\* the context may cut short.
Hold ==
    /\ pc = "hold"
    /\ public' \in Addresses
    /\ \/ now' = now + HoldFor(attempt) /\ InTime /\ pc' = "data_on" /\ UNCHANGED verdict
       \/ Lapse(HoldFor(attempt)) /\ End("failed")
    /\ History /\ UNCHANGED <<attempt, old, new, probed, measured>>

\* DataSwitch(true) and the poll for a session: up, not up in time, or an error.
DataOn ==
    /\ pc = "data_on"
    /\ Lapse(CallMax + PollMax(WaitConnect))
    /\ \/ InTime /\ pc' = "verify" /\ UNCHANGED verdict
       \/ /\ InTime /\ attempt < MaxAttempts /\ now' >= now + WaitConnect
          /\ pc' = "ladder"
          /\ UNCHANGED verdict
       \/ End("failed")
    /\ History /\ UNCHANGED <<attempt, public, old, new, probed, measured>>

\* A wrong comparison: against the dongle's own idea of its address.
Bug_VerifyByStatus ==
    /\ pc = "verify"
    /\ Lapse(CallMax + VerifyTimeout)
    /\ new' = WanIP /\ measured' = TRUE
    /\ IF old # "none" /\ WanIP # old
       THEN End("changed")
       ELSE pc' = "ladder" /\ UNCHANGED verdict
    /\ History /\ UNCHANGED <<attempt, public, old, probed>>

\* Unfence and the probe through the slot.
Verify ==
    /\ pc = "verify"
    /\ Lapse(CallMax + VerifyTimeout)
    /\ \/ /\ InTime /\ new' = public /\ measured' = TRUE
          /\ IF old # "none" /\ public # old
             THEN End("changed")
             ELSE pc' = "ladder" /\ UNCHANGED verdict
       \/ /\ attempt < MaxAttempts
          /\ pc' = "ladder"
          /\ UNCHANGED <<verdict, new, measured>>
       \/ End("failed") /\ new' \in {new, "leaked"} /\ UNCHANGED measured
    /\ History /\ UNCHANGED <<attempt, public, old, probed>>

\* The deferred calls, on contexts of their own: mobile data back on, the
\* fence down.
Cleanup == Earliest(CallMax, WaitConnect) + Earliest(CallMax, ReleaseTimeout)

Deferred ==
    /\ pc = "deferred"
    /\ now' \in now..(now + Cleanup)
    /\ pc' = "finish"
    /\ History /\ UNCHANGED <<attempt, public, old, new, probed, measured, verdict>>

\* finish: the rotations row, an escalation, the terminal write and the event.
Finish ==
    /\ pc = "finish"
    /\ now' \in now..(now + FinishDeadline)
    /\ pc' = "done"
    /\ History /\ UNCHANGED <<attempt, public, old, new, probed, measured, verdict>>
-----------------------------------------------------------------------------
Init ==
    /\ pc = "queue" /\ now = 0 /\ start = 0 /\ attempt = 0
    /\ public \in Addresses /\ before = public
    /\ old = "none" /\ new = "none" /\ probed = FALSE /\ measured = FALSE
    /\ verdict = "none"

Next ==
    \/ Queue \/ Precheck \/ Ladder
    \/ Fence \/ DataOff \/ Hold \/ DataOn \/ Verify
    \/ Deferred \/ Finish

Spec == Init /\ [][Next]_vars
-----------------------------------------------------------------------------
TypeOK ==
    /\ pc \in {"queue", "precheck", "ladder", "fence", "data_off", "hold", "data_on",
               "verify", "deferred", "finish", "done"}
    /\ now \in Nat /\ start \in 0..now
    /\ attempt \in 0..MaxAttempts
    /\ public \in Addresses /\ before \in Addresses
    /\ old \in Addresses \cup {"none", "private"}
    /\ new \in Addresses \cup {"none", "leaked"}
    /\ probed \in BOOLEAN /\ measured \in BOOLEAN
    /\ verdict \in Verdicts
    /\ verdict # "none" <=> pc \in {"deferred", "finish", "done"}
    /\ pc \in {"fence", "data_off", "hold", "data_on", "verify"} => attempt > 0

(* What an attempt can last beyond its own hold and verification: the time *)
(* AttemptFits does not ask for.                                           *)
Overrun == PollMax(DisconnectCap) + PollMax(WaitConnect) + 8 * CallMax

(* The hard deadline bounds when an attempt may begin, not when it ends:   *)
(* execute is over within HardDeadline + Overrun (or its precheck).  With  *)
(* calls as long as the driver allows that is later than the context.      *)
ExecuteIsBounded ==
    pc = "finish" =>
        \/ now <= start + HardDeadline + Overrun
        \/ now <= start + 5 * CallMax + VerifyTimeout

(* A rotation may be at work when its row is already given up: deadline_at *)
(* does not stop it, and neither does the hard deadline.  But however long *)
(* it waited for its token, and whatever its calls take, it is over soon   *)
(* after: another rotation of the proxy, which the given-up row lets in,   *)
(* meets it no longer than this.                                           *)
OutlivesItsRowBriefly ==
    pc = "done" =>
        now <= RowDeadline + 2 * WaitConnect + ReleaseTimeout + FinishDeadline

(* When the first probe and the last one answered, the verdict is right:   *)
(* changed means a changed address, unchanged the address of the start.    *)
MeasuredVerdictsAreTrue ==
    probed /\ measured =>
        /\ verdict = "changed" => public # before
        /\ verdict = "unchanged" => public = before
-----------------------------------------------------------------------------
(* What the documents say and the code does not do. *)

(* D-38: unchanged is a rotation that worked and left the address as it    *)
(* was, so both ends of it were seen.                                      *)
UnchangedWasSeen == verdict = "unchanged" => measured /\ new = old
=============================================================================
