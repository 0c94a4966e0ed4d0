----------------------- MODULE RotationVerdict_proofs -----------------------
(***************************************************************************)
(* The clock and the verdict of a rotation, for every policy.              *)
(*                                                                         *)
(* AttemptFits leaves at least hold + VerifyTimeout before the hard        *)
(* deadline when an attempt begins.  Timely follows the clock through the  *)
(* steps of the attempt and gives each of them a latest moment; Truthful   *)
(* says what res.Old and res.New stand for.                                *)
(***************************************************************************)
EXTENDS RotationVerdict, TLAPS

\* The latest end of the first part of execute, and the latest moment of an attempt.
PrecheckEnd == start + 3 * CallMax + VerifyTimeout
AttemptBy(spent) == start + HardDeadline - VerifyTimeout + spent

Timely ==
    /\ start <= CtxEnd
    /\ pc \notin {"finish", "done"} => now <= CtxEnd
    /\ pc = "finish" => now <= CtxEnd + WaitConnect + ReleaseTimeout
    /\ pc = "queue" => now = 0
    /\ pc \in {"queue", "precheck"} => attempt = 0
    /\ pc = "precheck" => now = start
    /\ pc = "ladder" /\ attempt = 0 => now <= PrecheckEnd
    /\ pc = "fence" => now <= AttemptBy(0) - HoldFor(attempt)
    /\ pc = "data_off" => now <= AttemptBy(3 * CallMax) - HoldFor(attempt)
    /\ pc = "hold" =>
         now <= AttemptBy(4 * CallMax + PollMax(DisconnectCap)) - HoldFor(attempt)
    /\ pc = "data_on" => now <= AttemptBy(4 * CallMax + PollMax(DisconnectCap))
    /\ pc = "verify" =>
         now <= AttemptBy(5 * CallMax + PollMax(DisconnectCap) + PollMax(WaitConnect))
    /\ pc = "ladder" /\ attempt > 0 => now <= start + HardDeadline + Overrun - 2 * CallMax
    /\ pc = "deferred" =>
         \/ now <= PrecheckEnd
         \/ now <= start + HardDeadline + Overrun - 2 * CallMax
    /\ ExecuteIsBounded
    /\ OutlivesItsRowBriefly

Truthful ==
    /\ pc \in {"queue", "precheck"} => ~probed /\ ~measured
    /\ pc = "precheck" => public = before
    /\ probed => old = before
    /\ measured => new = public /\ pc \in {"ladder", "deferred", "finish", "done"}
    /\ pc = "ladder" /\ measured /\ probed => new = old
    /\ MeasuredVerdictsAreTrue

IInv == TypeOK /\ Timely /\ Truthful
-----------------------------------------------------------------------------
LEMMA PolicyNumbers ==
    /\ \A a \in Nat \ {0} : HoldFor(a) \in Nat \ {0}
    /\ PollMax(DisconnectCap) \in Nat /\ PollMax(WaitConnect) \in Nat
    /\ CallMax \in Nat /\ VerifyTimeout \in Nat /\ HardDeadline \in Nat
    /\ WaitConnect \in Nat /\ MaxAttempts \in Nat /\ CtxEnd \in Nat
    /\ Cleanup \in Nat /\ Cleanup <= 2 * CallMax /\ Cleanup <= WaitConnect + ReleaseTimeout
    /\ ReleaseTimeout \in Nat /\ FinishDeadline \in Nat
  <1>1. ASSUME NEW a \in Nat \ {0} PROVE HoldFor(a) \in Nat \ {0}
    <2>1. Len(HoldEscalate) \in Nat \ {0}
      BY PolicyAssumption
    <2>2. (IF a <= Len(HoldEscalate) THEN a ELSE Len(HoldEscalate)) \in 1..Len(HoldEscalate)
      BY <2>1
    <2> QED
      BY <2>2, PolicyAssumption DEF HoldFor
  <1>2. Cleanup \in Nat /\ Cleanup <= 2 * CallMax /\ Cleanup <= WaitConnect + ReleaseTimeout
    BY PolicyAssumption DEF Cleanup, Earliest
  <1> QED
    BY <1>1, <1>2, PolicyAssumption DEF PollMax, CtxEnd, RowDeadline

LEMMA CallsTakeTime == ASSUME NEW n \in Nat PROVE n <= n + 5 * CallMax + VerifyTimeout
  <1>1. CallMax \in Nat /\ VerifyTimeout \in Nat
    BY PolicyAssumption
  <1> QED
    BY <1>1

LEMMA InitIInv == Init => IInv
  <1> SUFFICES ASSUME Init PROVE IInv
    OBVIOUS
  <1>1. TypeOK
    <2>1. now \in Nat /\ start \in 0..now /\ attempt \in 0..MaxAttempts
      BY PolicyNumbers DEF Init
    <2>2. probed \in BOOLEAN /\ measured \in BOOLEAN
      BY Zenon DEF Init
    <2>3. /\ pc = "queue" /\ verdict = "none" /\ verdict \in Verdicts
          /\ public \in Addresses /\ before \in Addresses
          /\ old \in Addresses \cup {"none", "private"} /\ new \in Addresses \cup {"none", "leaked"}
      BY DEF Init, Verdicts
    <2> QED
      BY <2>1, <2>2, <2>3 DEF TypeOK
  <1>2. Timely
    BY PolicyNumbers DEF Init, Timely, ExecuteIsBounded, OutlivesItsRowBriefly
  <1>3. Truthful
    BY DEF Init, Truthful, MeasuredVerdictsAreTrue
  <1> QED
    BY <1>1, <1>2, <1>3 DEF IInv

LEMMA LapseKeeps ==
    ASSUME NEW most \in Nat, now \in Nat, Lapse(most)
    PROVE  now' \in Nat /\ now <= now' /\ now' <= now + most /\ now' <= CtxEnd
  BY PolicyNumbers DEF Lapse, Earliest

(* The clock in every step.                                                *)
LEMMA ClockStep ==
    ASSUME TypeOK, [Next]_vars
    PROVE  now' \in Nat /\ now <= now'
  <1> USE PolicyNumbers DEF TypeOK
  <1>1. ASSUME NEW most \in Nat, Lapse(most) PROVE now' \in Nat /\ now <= now'
    BY <1>1, LapseKeeps
  <1>2. CASE Queue
    BY <1>1, <1>2, PolicyNumbers DEF Queue
  <1>3. CASE Precheck
    <2>1. 3 * CallMax + VerifyTimeout \in Nat
      OBVIOUS
    <2> QED
      BY <1>1, <1>3, <2>1 DEF Precheck
  <1>4. CASE Ladder
    BY <1>4 DEF Ladder
  <1>5. CASE Fence
    <2>1. 3 * CallMax \in Nat
      OBVIOUS
    <2> QED
      BY <1>1, <1>5, <2>1 DEF Fence
  <1>6. CASE DataOff
    <2>1. CallMax + PollMax(DisconnectCap) \in Nat
      OBVIOUS
    <2> QED
      BY <1>1, <1>6, <2>1 DEF DataOff
  <1>7. CASE Hold
    <2>1. HoldFor(attempt) \in Nat
      BY <1>7 DEF Hold
    <2> QED
      BY <1>1, <1>7, <2>1 DEF Hold
  <1>8. CASE DataOn
    <2>1. CallMax + PollMax(WaitConnect) \in Nat
      OBVIOUS
    <2> QED
      BY <1>1, <1>8, <2>1 DEF DataOn
  <1>9. CASE Verify
    <2>1. CallMax + VerifyTimeout \in Nat
      OBVIOUS
    <2> QED
      BY <1>1, <1>9, <2>1 DEF Verify
  <1>10. CASE Deferred \/ Finish
    BY <1>10 DEF Deferred, Finish
  <1>11. CASE UNCHANGED vars
    BY <1>11 DEF vars
  <1> QED
    BY <1>2, <1>3, <1>4, <1>5, <1>6, <1>7, <1>8, <1>9, <1>10, <1>11 DEF Next

LEMMA TypeStep == TypeOK /\ [Next]_vars => TypeOK'
  <1> SUFFICES ASSUME TypeOK, [Next]_vars PROVE TypeOK'
    OBVIOUS
  <1>0. now' \in Nat /\ now <= now'
    BY ClockStep
  <1>00. MaxAttempts \in Nat
    BY PolicyNumbers
  <1> USE <1>0, <1>00, AddressAssumption DEF TypeOK, Verdicts
  <1>1. CASE Queue
    BY <1>1 DEF Queue
  <1>2. CASE Precheck
    <2>1. probed' \in BOOLEAN /\ measured' \in BOOLEAN
      BY <1>2 DEF Precheck, History
    <2>2. old' \in Addresses \cup {"none", "private"} /\ new' \in Addresses \cup {"none", "leaked"}
      BY <1>2 DEF Precheck, WanIP
    <2>3. /\ pc' \in {"ladder", "deferred"} /\ verdict' \in Verdicts
          /\ verdict' # "none" <=> pc' = "deferred"
      BY <1>2 DEF Precheck, End
    <2>4. UNCHANGED <<start, before, attempt, public>>
      BY <1>2 DEF Precheck, History
    <2> QED
      BY <2>1, <2>2, <2>3, <2>4
  <1>3. CASE Ladder
    <2>1. probed' \in BOOLEAN /\ measured' \in BOOLEAN
      BY <1>3 DEF Ladder, History
    <2>2. attempt' \in 0..MaxAttempts /\ (pc' = "fence" => attempt' > 0)
      BY <1>3 DEF Ladder, End
    <2>3. /\ pc' \in {"fence", "deferred"} /\ verdict' \in Verdicts
          /\ verdict' # "none" <=> pc' = "deferred"
      BY <1>3 DEF Ladder, End
    <2>4. UNCHANGED <<start, before, public, old, new>>
      BY <1>3 DEF Ladder, History
    <2> QED
      BY <2>1, <2>2, <2>3, <2>4
  <1>4. CASE Fence
    BY <1>4 DEF Fence, End, History
  <1>5. CASE DataOff
    BY <1>5 DEF DataOff, End, History
  <1>6. CASE Hold
    BY <1>6 DEF Hold, End, History
  <1>7. CASE DataOn
    BY <1>7 DEF DataOn, End, History
  <1>8. CASE Verify
    <2>1. probed' \in BOOLEAN /\ measured' \in BOOLEAN
      BY <1>8 DEF Verify
    <2>2. new' \in Addresses \cup {"none", "leaked"}
      BY <1>8 DEF Verify
    <2>3. /\ pc' \in {"ladder", "deferred"} /\ verdict' \in Verdicts
          /\ verdict' # "none" <=> pc' = "deferred"
      BY <1>8 DEF Verify, End
    <2>4. UNCHANGED <<start, before, attempt, public, old>>
      BY <1>8 DEF Verify, History
    <2> QED
      BY <2>1, <2>2, <2>3, <2>4
  <1>9. CASE Deferred \/ Finish
    BY <1>9 DEF Deferred, Finish, History
  <1>10. CASE UNCHANGED vars
    BY <1>10 DEF vars
  <1> QED
    BY <1>1, <1>2, <1>3, <1>4, <1>5, <1>6, <1>7, <1>8, <1>9, <1>10 DEF Next

(* Each step is as long as its bound says, so the latest moments add up.   *)
LEMMA TimelyStep == TypeOK /\ Timely /\ [Next]_vars => Timely'
  <1> SUFFICES ASSUME TypeOK, Timely, [Next]_vars PROVE Timely'
    OBVIOUS
  <1>0. attempt \in Nat /\ now \in Nat /\ start \in Nat
    BY PolicyNumbers DEF TypeOK
  <1>00. now' \in Nat => now' <= now' + 5 * CallMax + VerifyTimeout
    BY CallsTakeTime
  <1> USE <1>0, PolicyNumbers DEF Timely, ExecuteIsBounded, OutlivesItsRowBriefly, PrecheckEnd,
                                  AttemptBy, Overrun
  <1>1. CASE Queue
    <2>1. now' \in Nat /\ now' <= CtxEnd
      BY <1>1, LapseKeeps DEF Queue
    <2>2. pc' \in {"precheck", "finish"} /\ start' = now' /\ attempt' = 0
      BY <1>1 DEF Queue
    <2>4. now' <= CtxEnd + WaitConnect + ReleaseTimeout
      BY <2>1
    <2>5. start' <= CtxEnd /\ now' <= CtxEnd
      BY <2>1, <2>2
    <2> QED
      BY <1>00, <2>1, <2>2, <2>4, <2>5
  <1>2. CASE Precheck
    <2>1. now = start /\ start <= CtxEnd
      BY <1>2 DEF Precheck
    <2>2. now' \in Nat /\ now' <= now + (3 * CallMax + VerifyTimeout) /\ now' <= CtxEnd
      BY <1>2, LapseKeeps DEF Precheck
    <2>3. start' = start /\ attempt' = attempt /\ pc' \in {"ladder", "deferred"}
      BY <1>2 DEF Precheck, End, History
    <2>4. now' <= start' + 3 * CallMax + VerifyTimeout
      BY <2>1, <2>2, <2>3
    <2>5. attempt = 0
      BY <1>2 DEF Precheck
    <2> QED
      BY <2>1, <2>2, <2>3, <2>4, <2>5
  <1>3. CASE Ladder
    <2>1. attempt + 1 \in Nat \ {0}
      OBVIOUS
    <2>2. HoldFor(attempt + 1) \in Nat
      BY <2>1
    <2>3. CASE pc' = "fence"
      BY <1>3, <2>2, <2>3 DEF Ladder, End, History, AttemptFits, Remaining
    <2>4. CASE pc' = "deferred"
      BY <1>3, <2>4 DEF Ladder, End, History
    <2> QED
      BY <1>3, <2>3, <2>4 DEF Ladder, End
  <1>4. CASE Fence
    <2>1. HoldFor(attempt) \in Nat /\ attempt > 0
      BY <1>4 DEF Fence, TypeOK
    <2>2. now' \in Nat /\ now' <= now + 3 * CallMax /\ now' <= CtxEnd
      BY <1>4, LapseKeeps DEF Fence
    <2> QED
      BY <1>4, <2>1, <2>2 DEF Fence, End, History
  <1>5. CASE DataOff
    <2>1. HoldFor(attempt) \in Nat /\ attempt > 0
      BY <1>5 DEF DataOff, TypeOK
    <2>2. now' \in Nat /\ now' <= now + (CallMax + PollMax(DisconnectCap)) /\ now' <= CtxEnd
      BY <1>5, LapseKeeps DEF DataOff
    <2> QED
      BY <1>5, <2>1, <2>2 DEF DataOff, End, History
  <1>6. CASE Hold
    <2>1. HoldFor(attempt) \in Nat /\ attempt > 0
      BY <1>6 DEF Hold, TypeOK
    <2>2. now' \in Nat /\ now' <= now + HoldFor(attempt) /\ now' <= CtxEnd
      BY <1>6, <2>1, LapseKeeps DEF Hold, InTime
    <2>3. pc' \in {"data_on", "deferred"} /\ start' = start /\ attempt' = attempt
      BY <1>6 DEF Hold, End, History
    <2> QED
      BY <1>6, <2>1, <2>2, <2>3 DEF Hold
  <1>7. CASE DataOn
    <2>1. attempt > 0
      BY <1>7 DEF DataOn, TypeOK
    <2>2. now' \in Nat /\ now' <= now + (CallMax + PollMax(WaitConnect)) /\ now' <= CtxEnd
      BY <1>7, LapseKeeps DEF DataOn
    <2>3. pc' \in {"verify", "ladder", "deferred"} /\ start' = start /\ attempt' = attempt
      BY <1>7 DEF DataOn, End, History
    <2> QED
      BY <1>7, <2>1, <2>2, <2>3 DEF DataOn
  <1>8. CASE Verify
    <2>1. attempt > 0
      BY <1>8 DEF Verify, TypeOK
    <2>2. now' \in Nat /\ now' <= now + (CallMax + VerifyTimeout) /\ now' <= CtxEnd
      BY <1>8, LapseKeeps DEF Verify
    <2>3. pc' \in {"ladder", "deferred"} /\ start' = start /\ attempt' = attempt
      BY <1>8 DEF Verify, End, History
    <2> QED
      BY <1>8, <2>1, <2>2, <2>3 DEF Verify
  <1>9. CASE Deferred
    <2>1. now' \in Nat /\ now' <= now + Cleanup
      BY <1>9 DEF Deferred
    <2>2. pc' = "finish" /\ start' = start /\ attempt' = attempt
      BY <1>9 DEF Deferred, History
    <2> QED
      BY <1>9, <2>1, <2>2 DEF Deferred
  <1>10. CASE Finish
    <2>1. now' \in Nat /\ now' <= CtxEnd + WaitConnect + ReleaseTimeout + FinishDeadline
      BY <1>10 DEF Finish
    <2>2. pc' = "done" /\ start' = start /\ attempt' = attempt
      BY <1>10 DEF Finish, History
    <2> QED
      BY <2>1, <2>2 DEF CtxEnd, RowDeadline
  <1>11. CASE UNCHANGED vars
    BY <1>11 DEF vars
  <1> QED
    BY <1>1, <1>2, <1>3, <1>4, <1>5, <1>6, <1>7, <1>8, <1>9, <1>10, <1>11 DEF Next

(* Only a hold may change the address, and it begins with measured FALSE.  *)
LEMMA TruthfulStep == TypeOK /\ Truthful /\ [Next]_vars => Truthful'
  <1> SUFFICES ASSUME TypeOK, Truthful, [Next]_vars PROVE Truthful'
    OBVIOUS
  <1> USE AddressAssumption DEF Truthful, MeasuredVerdictsAreTrue, TypeOK
  <1>1. CASE Queue
    <2>1. ~probed /\ ~measured /\ UNCHANGED <<probed, measured>>
      BY <1>1 DEF Queue
    <2>2. pc' \in {"precheck", "finish"} /\ public' = before'
      BY <1>1 DEF Queue
    <2> QED
      BY <2>1, <2>2
  <1>2. CASE Precheck
    <2>1. ~probed /\ ~measured /\ ~measured'
      BY <1>2 DEF Precheck
    <2>2. probed' => old' = public /\ public = before
      BY <1>2, <2>1 DEF Precheck, History
    <2>3. UNCHANGED <<before, public>> /\ pc' \in {"ladder", "deferred"}
      BY <1>2 DEF Precheck, End, History
    <2> QED
      BY <2>1, <2>2, <2>3
  <1>3. CASE Ladder
    BY <1>3 DEF Ladder, End, History
  <1>4. CASE Fence \/ DataOff \/ Hold \/ DataOn
    BY <1>4 DEF Fence, DataOff, Hold, DataOn, End, History
  <1>5. CASE Verify
    BY <1>5 DEF Verify, End, History
  <1>6. CASE Deferred \/ Finish
    BY <1>6 DEF Deferred, Finish, History
  <1>7. CASE UNCHANGED vars
    BY <1>7 DEF vars
  <1> QED
    BY <1>1, <1>2, <1>3, <1>4, <1>5, <1>6, <1>7 DEF Next
-----------------------------------------------------------------------------
(* The inductive invariant holds in every reachable state.                 *)
THEOREM Invariance == Spec => []IInv
  <1>1. IInv /\ [Next]_vars => IInv'
    BY TypeStep, TimelyStep, TruthfulStep DEF IInv
  <1> QED
    BY InitIInv, <1>1, PTL DEF Spec

(* Every variable keeps its type.                                          *)
THEOREM TypeCorrect == Spec => []TypeOK
  <1>1. IInv => TypeOK
    BY DEF IInv
  <1> QED
    BY Invariance, <1>1, PTL

(* execute overruns the hard deadline by Overrun at most, whatever the     *)
(* ladder, the number of attempts and the timeouts of the carrier profile. *)
THEOREM BoundedExecution == Spec => []ExecuteIsBounded
  <1>1. IInv => ExecuteIsBounded
    BY DEF IInv, Timely
  <1> QED
    BY Invariance, <1>1, PTL

(* A rotation outlives its row by a fixed time at most: for every policy,  *)
(* every wait for a token and every length of a call.                      *)
THEOREM OutlivingHolds == Spec => []OutlivesItsRowBriefly
  <1>1. IInv => OutlivesItsRowBriefly
    BY DEF IInv, Timely
  <1> QED
    BY Invariance, <1>1, PTL

(* What two probes saw, the verdict reports.                               *)
THEOREM VerdictHolds == Spec => []MeasuredVerdictsAreTrue
  <1>1. IInv => MeasuredVerdictsAreTrue
    BY DEF IInv, Truthful
  <1> QED
    BY Invariance, <1>1, PTL
=============================================================================
