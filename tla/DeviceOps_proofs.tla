--------------------------- MODULE DeviceOps_proofs ---------------------------
(***************************************************************************)
(* Proofs about DeviceOps, for any finite set of calls of any kinds, any   *)
(* budget and any set of faults.                                           *)
(*                                                                         *)
(* TaskEffect, CallEffect and RotateEffect say once what a step of a call  *)
(* does to its place, its row and its event; the parts of the inductive    *)
(* invariant, and the refinement of the operations table, follow from them *)
(* without a look at the single actions.                                   *)
(***************************************************************************)
EXTENDS DeviceOps, TLAPS

\* Calls that have not inserted a row, and calls that work on one.
Before  == {"idle"} \cup (Calling \ {"register"})
Holding == {"register", "finish"} \cup Working

DrainIsFinal == drained => closed /\ \A o \in Ops : pc[o] \notin Goroutine

OneLivePerSubject ==
    \A o, q \in Ops : Live(o) /\ Live(q) /\ SubjectOf[o] = SubjectOf[q] => o = q

RowFollowsCall ==
    \A o \in Ops :
        /\ pc[o] \in Before => row[o] = "absent"
        /\ pc[o] \in Before \cup Holding \cup {"leave", "rotating"} => told[o] = "none"
        /\ pc[o] \in Holding => row[o] \in OpenStates \cup {"stalled", "failed"}
        /\ pc[o] = "leave" => \/ row[o] \in {outcome[o], "stalled", "failed"}
                              \/ Live(o) /\ o \in writeLost
        /\ pc[o] \in Calling \cup Goroutine => SubjectOf[o] = "dongle"

IInv ==
    /\ TypeOK
    /\ DataIsOwed
    /\ DebtsSettledFirst
    /\ DrainIsFinal
    /\ OneLivePerSubject
    /\ RowFollowsCall
    /\ DoneTellsTheRow
-----------------------------------------------------------------------------
\* A statement that writes at most o's row, and that only while it is open.
Touches(o) ==
    /\ row' \in [Ops -> RowStates]
    /\ \A q \in Ops \ {o} : row'[q] = row[q]
    /\ \/ row'[o] = row[o]
       \/ Live(o) /\ row'[o] \in {"running"} \cup ClosedStates

LEMMA FinishedTouches ==
  ASSUME row \in [Ops -> RowStates], NEW o \in Ops, NEW s \in ClosedStates, row' = Finished(o, s)
  PROVE  /\ Touches(o)
         /\ Live(o) => row'[o] = s
         /\ ~Live(o) => row'[o] = row[o]
<1> USE DEF Finished, Live, RowStates, OpenStates, ClosedStates
<1>1. CASE Live(o)
  BY <1>1 DEF Touches
<1>2. CASE ~Live(o)
  BY <1>2 DEF Touches
<1> QED
  BY <1>1, <1>2

LEMMA LostTouches ==
  ASSUME row \in [Ops -> RowStates], writeLost \subseteq Ops, NEW o \in Ops, LoseWrite(o)
  PROVE  /\ Touches(o)
         /\ row' = row /\ writeLost \subseteq writeLost' /\ writeLost' \subseteq Ops
         /\ Live(o) => o \in writeLost'
  BY DEF LoseWrite, Touches, Live

LEMMA StepTouches ==
  ASSUME row \in [Ops -> RowStates], NEW o \in Ops, Step(o)
  PROVE  /\ Touches(o)
         /\ row[o] \in OpenStates \cup {"stalled", "failed"}
              => row'[o] \in OpenStates \cup {"stalled", "failed"}
<1> USE DEF Live, RowStates, OpenStates, ClosedStates
<1>1. CASE Live(o) /\ row' = [row EXCEPT ![o] = "running"]
  BY <1>1 DEF Touches
<1>2. CASE row' = row
  BY <1>2 DEF Touches
<1>3. CASE ~Live(o) /\ row' = [row EXCEPT ![o] = row[o]]
  BY <1>3 DEF Touches
<1> QED
  BY <1>1, <1>2, <1>3 DEF Step

\* What a step of a goroutine does, seen from outside.
TaskEffect(o) ==
    /\ pc[o] \in Goroutine
    /\ \A q \in Ops \ {o} : pc'[q] = pc[q] /\ told'[q] = told[q] /\ outcome'[q] = outcome[q]
    /\ writeLost \subseteq writeLost' /\ UNCHANGED <<closed, canceled, drained>>
    /\ Touches(o)
    /\ \/ /\ pc[o] \in Working /\ pc'[o] \in Working \cup {"finish"}
          /\ told'[o] = told[o]
          /\ row[o] \in OpenStates \cup {"stalled", "failed"}
               => row'[o] \in OpenStates \cup {"stalled", "failed"}
       \/ /\ pc[o] = "finish" /\ pc'[o] = "leave"
          /\ told'[o] = told[o] /\ outcome'[o] = outcome[o]
          /\ Live(o) => row'[o] = outcome[o] \/ (Live(o)' /\ o \in writeLost')
          /\ ~Live(o) => row'[o] = row[o]
       \/ pc[o] = "leave" /\ pc'[o] = "done" /\ row' = row /\ told'[o] = outcome[o]

LEMMA TaskHasEffect ==
  ASSUME TypeOK, NEW o \in Ops, Task(o) PROVE TaskEffect(o)
<1> USE DEF Goto, Outside, engine, dongle, tables, Untimed
<1>1. row \in [Ops -> RowStates] /\ pc \in [Ops -> Pcs] /\ writeLost \in SUBSET Ops
      /\ told \in [Ops -> {"none", "succeeded", "failed"}]
      /\ outcome \in [Ops -> {"none", "succeeded", "failed"}]
      /\ (pc[o] = "finish" => outcome[o] # "none")
  BY DEF TypeOK
<1>2. ASSUME Precheck(o) \/ Reboot(o) \/ WaitDown(o) \/ WaitUp(o) \/ WaitDisconnect(o)
             \/ SetMode(o) \/ WaitConnect(o) \/ SwitchOff(o) \/ SwitchOn(o) \/ Verify(o)
      PROVE  TaskEffect(o)
  <2>1. pc[o] \in Working /\ Step(o)
    BY <1>2 DEF Precheck, Reboot, WaitDown, WaitUp, WaitDisconnect, SetMode, WaitConnect,
                Waiting, SwitchOff, SwitchOn, Verify, Working
  <2>2. \E label \in Working : Goto(o, label)
    BY <1>2 DEF Precheck, Reboot, WaitDown, WaitUp, WaitDisconnect, SetMode, WaitConnect,
                Waiting, SwitchOff, SwitchOn, Verify, Working, Proceed, Return
  <2>3. UNCHANGED <<told, writeLost, closed, canceled, drained>>
    BY <1>2 DEF Precheck, Reboot, WaitDown, WaitUp, WaitDisconnect, SetMode, WaitConnect,
                Waiting, SwitchOff, SwitchOn, Verify
  <2>4. outcome' = outcome \/ \E s \in {"succeeded", "failed"} :
                                outcome' = [outcome EXCEPT ![o] = s]
    BY <1>2 DEF Precheck, Reboot, WaitDown, WaitUp, WaitDisconnect, SetMode, WaitConnect,
                Waiting, SwitchOff, SwitchOn, Verify, Proceed, Return
  <2>5. \A q \in Ops \ {o} : outcome'[q] = outcome[q]
    BY <1>1, <2>4
  <2> QED
    BY <1>1, <2>1, <2>2, <2>3, <2>5, StepTouches DEF TaskEffect, Goroutine
<1>3. CASE Restore(o)
  <2>1. pc[o] = "restore" /\ pc' = [pc EXCEPT ![o] = "finish"]
        /\ UNCHANGED <<row, told, outcome, writeLost, closed, canceled, drained>>
    BY <1>3 DEF Restore
  <2> QED
    BY <1>1, <2>1 DEF TaskEffect, Goroutine, Working, Touches
<1>4. CASE Finish(o)
  <2>1. /\ pc[o] = "finish" /\ pc' = [pc EXCEPT ![o] = "leave"]
        /\ UNCHANGED <<told, outcome, closed, canceled, drained>>
    BY <1>4 DEF Finish
  <2>2. /\ Touches(o) /\ writeLost \subseteq writeLost'
        /\ Live(o) => row'[o] = outcome[o] \/ (Live(o)' /\ o \in writeLost')
        /\ ~Live(o) => row'[o] = row[o]
    <3>1. CASE row' = Finished(o, outcome[o]) /\ UNCHANGED writeLost
      <4>1. outcome[o] \in ClosedStates
        BY <1>1, <2>1 DEF ClosedStates
      <4> QED
        BY <1>1, <3>1, <4>1, FinishedTouches
    <3>2. CASE LoseWrite(o)
      BY <1>1, <3>2, LostTouches DEF Live
    <3> QED
      BY <1>4, <3>1, <3>2 DEF Finish
  <2> QED
    BY <1>1, <2>1, <2>2 DEF TaskEffect, Goroutine
<1>5. CASE Leave(o)
  BY <1>1, <1>5 DEF Leave, TaskEffect, Goroutine, Touches
<1> QED
  BY <1>2, <1>3, <1>4, <1>5 DEF Task

\* What a step of a caller does: it inserts a free row, or goes on without one.
CallEffect(o) ==
    /\ pc[o] = "idle" => SubjectOf[o] = "dongle"
    /\ \A q \in Ops \ {o} : pc'[q] = pc[q]
    /\ writeLost \subseteq writeLost' /\ UNCHANGED <<told, outcome, closed, canceled, drained>>
    /\ \/ /\ pc[o] \in Before /\ pc'[o] \in (Calling \ {"register"}) \cup {"refused"}
          /\ row' = row
       \/ /\ pc[o] = "create" /\ pc'[o] = "register"
          /\ SubjectFree("dongle") /\ row' = [row EXCEPT ![o] = "pending"]
       \/ pc[o] = "register" /\ ~closed /\ pc'[o] = "precheck" /\ row' = row
       \/ pc[o] = "register" /\ pc'[o] = "refused" /\ Touches(o)

LEMMA CallHasEffect ==
  ASSUME TypeOK, NEW o \in Ops, Caller(o) PROVE CallEffect(o)
<1> USE DEF Goto, Outside, engine, dongle, tables, Untimed, Before, Calling
<1>1. row \in [Ops -> RowStates] /\ pc \in [Ops -> Pcs] /\ writeLost \in SUBSET Ops
  BY DEF TypeOK
<1>2. CASE Call(o)
  BY <1>1, <1>2 DEF Call, CallEffect, SubjectOf
<1>3. CASE CheckConflict(o) \/ CheckRotateFence(o) \/ CheckBudget(o) \/ Admit(o)
  BY <1>1, <1>3 DEF CheckConflict, CheckRotateFence, CheckBudget, Admit, CallEffect
<1>4. CASE Create(o)
  BY <1>1, <1>4 DEF Create, CallEffect
<1>5. CASE Register(o)
  <2>1. CASE ~closed
    BY <1>1, <1>5, <2>1 DEF Register, CallEffect
  <2>2. CASE closed
    <3>1. pc[o] = "register" /\ pc' = [pc EXCEPT ![o] = "refused"]
          /\ UNCHANGED <<told, outcome, closed, canceled, drained>>
      BY <1>5, <2>2 DEF Register
    <3>2. Touches(o) /\ writeLost \subseteq writeLost'
      <4>1. CASE row' = Finished(o, "canceled") /\ UNCHANGED writeLost
        BY <1>1, <4>1, FinishedTouches DEF ClosedStates
      <4>2. CASE LoseWrite(o)
        BY <1>1, <4>2, LostTouches
      <4> QED
        BY <1>5, <2>2, <4>1, <4>2 DEF Register
    <3> QED
      BY <1>1, <2>2, <3>1, <3>2 DEF CallEffect, Touches
  <2> QED
    BY <2>1, <2>2
<1> QED
  BY <1>2, <1>3, <1>4, <1>5 DEF Caller

\* What a step of a rotation does, seen from here.
RotateEffect(o) ==
    /\ \A q \in Ops \ {o} : pc'[q] = pc[q]
    /\ writeLost \subseteq writeLost' /\ UNCHANGED <<told, outcome, closed, canceled, drained>>
    /\ \/ /\ pc[o] = "idle" /\ pc'[o] = "rotating" /\ SubjectOf[o] = "proxy"
          /\ SubjectFree("proxy") /\ row' = [row EXCEPT ![o] = "pending"]
       \/ pc[o] = "rotating" /\ pc'[o] = "done" /\ Touches(o)

LEMMA RotateHasEffect ==
  ASSUME TypeOK, NEW o \in Ops, Rotation(o) PROVE RotateEffect(o)
<1> USE DEF Goto, Outside, engine, dongle, tables, Untimed
<1>1. row \in [Ops -> RowStates] /\ pc \in [Ops -> Pcs] /\ writeLost \subseteq Ops
  BY DEF TypeOK
<1>2. CASE RotateOpens(o)
  BY <1>1, <1>2 DEF RotateOpens, RotateEffect, SubjectOf
<1>3. CASE RotateCloses(o)
  <2>1. \/ (\E s \in {"succeeded", "failed"} : row' = Finished(o, s)) /\ UNCHANGED writeLost
        \/ LoseWrite(o)
    BY <1>3 DEF RotateCloses
  <2>2. Touches(o) /\ writeLost \subseteq writeLost'
    BY <1>1, <2>1, FinishedTouches, LostTouches DEF ClosedStates
  <2>3. pc[o] = "rotating" /\ pc' = [pc EXCEPT ![o] = "done"]
    BY <1>3 DEF RotateCloses
  <2>4. UNCHANGED <<told, outcome, closed, canceled, drained>>
    BY <1>3 DEF RotateCloses
  <2> QED
    BY <1>1, <2>2, <2>3, <2>4 DEF RotateEffect
<1> QED
  BY <1>2, <1>3 DEF Rotation
-----------------------------------------------------------------------------
(* One lemma per part of the invariant: the part survives every step. *)

LEMMA TypeStep == TypeOK /\ [Next]_vars => TypeOK'
<1> SUFFICES ASSUME TypeOK, [Next]_vars PROVE TypeOK'
  OBVIOUS
<1> USE DEF TypeOK, tables, dongle, engine, Goto, Untimed, Outside
<1>1. ASSUME NEW o \in Ops, Rotation(o) PROVE TypeOK'
  BY <1>1 DEF Rotation, RotateOpens, RotateCloses, LoseWrite, Finished, RowStates, OpenStates,
              ClosedStates, Pcs, Over
<1>2. ASSUME NEW o \in Ops, Caller(o) PROVE TypeOK'
  BY <1>2 DEF Caller, Call, CheckConflict, CheckRotateFence, CheckBudget, Admit, Create, Register,
              LoseWrite, Finished, RowStates, OpenStates, ClosedStates, Pcs, Over, Calling,
              Goroutine, Working
<1>3. ASSUME NEW o \in Ops, Task(o) PROVE TypeOK'
  <2> USE DEF Step, Live, RowStates, OpenStates, ClosedStates, Pcs, Over, Goroutine, Working,
              Proceed, Return
  <2>1. CASE Precheck(o)
    BY <2>1 DEF Precheck
  <2>2. CASE Reboot(o) \/ WaitDown(o)
    BY <2>2 DEF Reboot, WaitDown
  <2>3. CASE WaitUp(o) \/ WaitDisconnect(o) \/ SetMode(o) \/ WaitConnect(o)
    BY <2>3 DEF Waiting, WaitUp, WaitDisconnect, SetMode, WaitConnect
  <2>4. CASE SwitchOff(o)
    BY <2>4 DEF SwitchOff
  <2>5. CASE SwitchOn(o)
    BY <2>5 DEF SwitchOn
  <2>6. CASE Verify(o)
    BY <2>6 DEF Verify
  <2>7. CASE Restore(o)
    BY <2>7 DEF Restore
  <2>8. CASE Finish(o)
    BY <2>8 DEF Finish, LoseWrite, Finished
  <2>9. CASE Leave(o)
    BY <2>9 DEF Leave
  <2> QED
    BY <1>3, <2>1, <2>2, <2>3, <2>4, <2>5, <2>6, <2>7, <2>8, <2>9 DEF Task
<1>4. ASSUME NEW o \in Ops, Clock(o) PROVE TypeOK'
  BY <1>4 DEF Clock, Deadline, Expire, CooldownEnds
<1>5. CASE Midnight
  BY <1>5 DEF Midnight
<1>6. CASE MarkStalled
  BY <1>6 DEF MarkStalled, RowStates, ClosedStates
<1>7. CASE ReconcileOrphans
  BY <1>7 DEF ReconcileOrphans, RowStates, ClosedStates
<1>8. CASE Shutdown
  BY <1>8 DEF Shutdown
<1>9. CASE ShutdownEnds
  <2>1. canceled' \in BOOLEAN /\ drained' \in BOOLEAN
    BY <1>9 DEF ShutdownEnds
  <2>2. UNCHANGED <<tables, dongle, expired, closed, sweeping, pc, outcome, told, writeLost>>
    BY <1>9 DEF ShutdownEnds
  <2> QED
    BY <2>1, <2>2
<1>10. CASE Restart
  <2>1. pc' \in [Ops -> Pcs] /\ outcome' = [o \in Ops |-> "none"]
        /\ \A o \in Ops : pc'[o] \notin {"restore", "finish", "leave"}
    BY <1>10 DEF Restart, Pcs, Over, Goroutine, Working, Calling
  <2>2. switchLost' \in BOOLEAN
    BY <1>10 DEF Restart
  <2>3. /\ dataOff' \subseteq Ops /\ expired' \subseteq Ops
        /\ closed' \in BOOLEAN /\ canceled' \in BOOLEAN /\ drained' \in BOOLEAN
        /\ sweeping' \in BOOLEAN
        /\ UNCHANGED <<tables, offline, told, writeLost>>
    BY <1>10 DEF Restart
  <2> QED
    BY <2>1, <2>2, <2>3
<1>11. CASE UNCHANGED vars
  BY <1>11 DEF vars
<1> QED
  BY <1>1, <1>2, <1>3, <1>4, <1>5, <1>6, <1>7, <1>8, <1>9, <1>10, <1>11 DEF Next

\* Who owes the dongle its mobile data is still inside runNetMode.
LEMMA DataStep ==
  TypeOK /\ DataIsOwed /\ DebtsSettledFirst /\ [Next]_vars
    => DataIsOwed' /\ DebtsSettledFirst'
<1> SUFFICES ASSUME TypeOK, DataIsOwed, DebtsSettledFirst, [Next]_vars
             PROVE  DataIsOwed' /\ DebtsSettledFirst'
  OBVIOUS
<1> USE DEF DataIsOwed, DebtsSettledFirst, dongle, Outside, engine, Goto
<1>1. pc \in [Ops -> Pcs] /\ dataOff \in SUBSET Ops
  BY DEF TypeOK
<1>2. ASSUME NEW o \in Ops, Caller(o) PROVE DataIsOwed' /\ DebtsSettledFirst'
  <2>1. UNCHANGED <<offline, dataOff, switchLost>>
    BY <1>2 DEF Caller, Call, CheckConflict, CheckRotateFence, CheckBudget, Admit, Create, Register
  <2>2. CallEffect(o)
    BY <1>2, CallHasEffect
  <2>3. pc[o] \notin Working /\ \A q \in Ops \ {o} : pc'[q] = pc[q]
    BY <2>2 DEF CallEffect, Before, Calling, Working
  <2> QED
    BY <1>1, <2>1, <2>3
<1>3. ASSUME NEW o \in Ops, Rotation(o) PROVE DataIsOwed' /\ DebtsSettledFirst'
  <2>1. UNCHANGED <<offline, dataOff, switchLost>>
    BY <1>3 DEF Rotation, RotateOpens, RotateCloses
  <2>2. RotateEffect(o)
    BY <1>3, RotateHasEffect
  <2>3. pc[o] \notin Working /\ \A q \in Ops \ {o} : pc'[q] = pc[q]
    BY <2>2 DEF RotateEffect, Working
  <2> QED
    BY <1>1, <2>1, <2>3
<1>4. ASSUME NEW o \in Ops, Task(o) PROVE DataIsOwed' /\ DebtsSettledFirst'
  <2>1. CASE Precheck(o) \/ Reboot(o) \/ WaitDown(o) \/ WaitUp(o) \/ WaitDisconnect(o)
             \/ SetMode(o) \/ WaitConnect(o) \/ Verify(o)
    <3>1. UNCHANGED <<offline, dataOff, switchLost>>
      BY <2>1 DEF Precheck, Reboot, WaitDown, WaitUp, WaitDisconnect, SetMode, WaitConnect,
                  Waiting, Verify
    <3>2. \E label \in Working : pc' = [pc EXCEPT ![o] = label]
      BY <2>1 DEF Precheck, Reboot, WaitDown, WaitUp, WaitDisconnect, SetMode, WaitConnect,
                  Waiting, Verify, Working, Proceed, Return
    <3> QED
      BY <1>1, <3>1, <3>2
  <2>2. CASE SwitchOff(o)
    <3>1. \E label \in Working : pc' = [pc EXCEPT ![o] = label]
      BY <2>2 DEF SwitchOff, Working, Return
    <3>2. dataOff' \in {dataOff, dataOff \cup {o}}
      BY <2>2 DEF SwitchOff
    <3>3. \/ o \in dataOff'
          \/ offline' = TRUE /\ switchLost' = TRUE
          \/ UNCHANGED <<offline, switchLost, dataOff>>
      BY <1>1, <2>2 DEF SwitchOff
    <3>4. DataIsOwed'
      BY <3>2, <3>3
    <3> QED
      BY <1>1, <3>1, <3>2, <3>4
  <2>3. CASE SwitchOn(o)
    <3>1. \E label \in Working : pc' = [pc EXCEPT ![o] = label]
      BY <2>3 DEF SwitchOn, Working, Return
    <3>2. dataOff' \subseteq dataOff
      BY <2>3 DEF SwitchOn
    <3>3. offline' = FALSE \/ UNCHANGED <<offline, switchLost, dataOff>>
      BY <2>3 DEF SwitchOn
    <3>4. DataIsOwed'
      BY <3>3
    <3> QED
      BY <1>1, <3>1, <3>2, <3>4
  <2>4. CASE Restore(o)
    <3>1. dataOff' = dataOff \ {o} /\ \A q \in Ops \ {o} : pc'[q] = pc[q]
      BY <1>1, <2>4 DEF Restore
    <3>2. \/ o \notin dataOff /\ UNCHANGED <<offline, switchLost>>
          \/ offline' = FALSE
          \/ switchLost' = TRUE
      BY <2>4 DEF Restore
    <3>3. DataIsOwed'
      BY <1>1, <3>1, <3>2
    <3> QED
      BY <1>1, <3>1, <3>3
  <2>5. CASE Finish(o) \/ Leave(o)
    <3>1. UNCHANGED <<offline, dataOff, switchLost>>
      BY <2>5 DEF Finish, Leave
    <3>2. pc[o] \notin Working /\ \A q \in Ops \ {o} : pc'[q] = pc[q]
      BY <1>1, <2>5 DEF Finish, Leave, Working
    <3> QED
      BY <1>1, <3>1, <3>2
  <2> QED
    BY <1>4, <2>1, <2>2, <2>3, <2>4, <2>5 DEF Task
<1>5. CASE Restart
  <2>1. dataOff' = {} /\ offline' = offline /\ switchLost' = (switchLost \/ dataOff # {})
    BY <1>5 DEF Restart
  <2> QED
    BY <2>1
<1>6. CASE (\E o \in Ops : Clock(o)) \/ Midnight \/ MarkStalled \/ ReconcileOrphans
           \/ Shutdown \/ ShutdownEnds \/ UNCHANGED vars
  <2>1. UNCHANGED <<offline, dataOff, switchLost, pc>>
    BY <1>6 DEF Clock, Deadline, Expire, CooldownEnds, Midnight, MarkStalled, ReconcileOrphans,
                Shutdown, ShutdownEnds, vars
  <2> QED
    BY <2>1
<1> QED
  BY <1>2, <1>3, <1>4, <1>5, <1>6 DEF Next

\* Steps that leave every call where it is, and its row and event too.
Elsewhere ==
    \/ \E o \in Ops : Clock(o)
    \/ Midnight \/ Shutdown \/ ShutdownEnds \/ UNCHANGED vars

LEMMA ElsewhereEffect == ASSUME Elsewhere PROVE UNCHANGED <<row, pc, told, outcome, writeLost>>
  BY DEF Elsewhere, Clock, Deadline, Expire, CooldownEnds, Midnight, Shutdown, ShutdownEnds, vars,
         tables, dongle, engine, Outside

\* The statements of the reconcile engine close open rows and nothing else.
Sweeps == MarkStalled \/ ReconcileOrphans

LEMMA SweepEffect ==
  ASSUME TypeOK, Sweeps
  PROVE  /\ UNCHANGED <<pc, told, outcome, writeLost, closed, canceled, drained>>
         /\ \E S \in SUBSET Ops, s \in {"stalled", "failed"} :
              /\ \A o \in S : Live(o)
              /\ row' = [o \in Ops |-> IF o \in S THEN s ELSE row[o]]
<1> USE DEF tables, dongle, engine, Outside
<1>1. CASE MarkStalled
  <2> DEFINE S == {o \in Ops : Live(o) /\ o \in overdue}
  <2>1. row' = [o \in Ops |-> IF o \in S THEN "stalled" ELSE row[o]]
    BY <1>1 DEF MarkStalled
  <2>2. UNCHANGED <<pc, told, outcome, writeLost, closed, canceled, drained>>
    BY <1>1 DEF MarkStalled
  <2> QED
    BY <2>1, <2>2
<1>2. CASE ReconcileOrphans
  <2> DEFINE S == {o \in Ops : Live(o)}
  <2>1. row' = [o \in Ops |-> IF o \in S THEN "failed" ELSE row[o]]
    BY <1>2 DEF ReconcileOrphans
  <2>2. UNCHANGED <<pc, told, outcome, writeLost, closed, canceled, drained>>
    BY <1>2 DEF ReconcileOrphans
  <2> QED
    BY <2>1, <2>2
<1> QED
  BY <1>1, <1>2 DEF Sweeps

\* Every step is of one of these shapes.
LEMMA Shapes ==
  ASSUME TypeOK, [Next]_vars
  PROVE  \/ \E o \in Ops : TaskEffect(o) \/ CallEffect(o) \/ RotateEffect(o)
         \/ Sweeps \/ Elsewhere \/ Restart
  BY TaskHasEffect, CallHasEffect, RotateHasEffect DEF Next, Sweeps, Elsewhere

\* After Shutdown has seen the wait group empty, Register lets nobody pass.
LEMMA DrainStep == TypeOK /\ DrainIsFinal /\ [Next]_vars => DrainIsFinal'
<1> SUFFICES ASSUME TypeOK, DrainIsFinal, [Next]_vars PROVE DrainIsFinal'
  OBVIOUS
<1> USE DEF DrainIsFinal
<1>1. pc \in [Ops -> Pcs]
  BY DEF TypeOK
<1>2. ASSUME NEW o \in Ops, TaskEffect(o) PROVE DrainIsFinal'
  BY <1>2 DEF TaskEffect
<1>3. ASSUME NEW o \in Ops, CallEffect(o) PROVE DrainIsFinal'
  BY <1>3 DEF CallEffect, Calling, Goroutine, Working
<1>4. ASSUME NEW o \in Ops, RotateEffect(o) PROVE DrainIsFinal'
  BY <1>4 DEF RotateEffect, Goroutine, Working
<1>5. CASE Sweeps
  BY <1>5, SweepEffect
<1>6. CASE Elsewhere
  <2>1. CASE ShutdownEnds
    BY <2>1 DEF ShutdownEnds, engine
  <2>2. CASE Shutdown
    BY <2>2 DEF Shutdown, engine
  <2>3. CASE (\E o \in Ops : Clock(o)) \/ Midnight \/ UNCHANGED vars
    <3>1. UNCHANGED <<pc, closed, drained>>
      BY <2>3 DEF Clock, Deadline, Expire, CooldownEnds, Midnight, vars, engine, Outside
    <3> QED
      BY <3>1
  <2> QED
    BY <1>6, <2>1, <2>2, <2>3 DEF Elsewhere
<1>7. CASE Restart
  BY <1>7 DEF Restart
<1> QED
  BY <1>2, <1>3, <1>4, <1>5, <1>6, <1>7, Shapes

\* The row of a call at each step of it, and what op.done was published over.
LEMMA RowStep ==
  TypeOK /\ RowFollowsCall /\ DoneTellsTheRow /\ [Next]_vars
    => RowFollowsCall' /\ DoneTellsTheRow'
<1> SUFFICES ASSUME TypeOK, RowFollowsCall, DoneTellsTheRow, [Next]_vars
             PROVE  RowFollowsCall' /\ DoneTellsTheRow'
  OBVIOUS
<1> USE DEF RowFollowsCall, DoneTellsTheRow, Before, Holding, Calling, Goroutine, Working,
            RowStates, OpenStates, ClosedStates, Live
<1>1. row \in [Ops -> RowStates] /\ pc \in [Ops -> Pcs] /\ writeLost \in SUBSET Ops
      /\ told \in [Ops -> {"none", "succeeded", "failed"}]
  BY DEF TypeOK
<1>2. ASSUME NEW o \in Ops, TaskEffect(o) PROVE RowFollowsCall' /\ DoneTellsTheRow'
  <2>1. SubjectOf' = SubjectOf
    BY DEF SubjectOf
  <2>2. /\ \A q \in Ops \ {o} : /\ pc'[q] = pc[q] /\ told'[q] = told[q]
                               /\ outcome'[q] = outcome[q] /\ row'[q] = row[q]
        /\ writeLost \subseteq writeLost'
    BY <1>2 DEF TaskEffect, Touches
  <2>3. CASE /\ pc[o] \in Working /\ pc'[o] \in Working \cup {"finish"}
             /\ told'[o] = told[o]
             /\ row[o] \in OpenStates \cup {"stalled", "failed"}
                  => row'[o] \in OpenStates \cup {"stalled", "failed"}
    BY <1>1, <2>1, <2>2, <2>3
  <2>4. CASE /\ pc[o] = "finish" /\ pc'[o] = "leave"
             /\ told'[o] = told[o] /\ outcome'[o] = outcome[o]
             /\ Live(o) => row'[o] = outcome[o] \/ (Live(o)' /\ o \in writeLost')
             /\ ~Live(o) => row'[o] = row[o]
    BY <1>1, <2>1, <2>2, <2>4
  <2>5. CASE pc[o] = "leave" /\ pc'[o] = "done" /\ row' = row /\ told'[o] = outcome[o]
    BY <1>1, <2>1, <2>2, <2>5
  <2> QED
    BY <1>2, <2>3, <2>4, <2>5 DEF TaskEffect
<1>3. ASSUME NEW o \in Ops, CallEffect(o) PROVE RowFollowsCall' /\ DoneTellsTheRow'
  <2>1. SubjectOf' = SubjectOf
    BY DEF SubjectOf
  <2>2. CASE pc[o] \in Before /\ row' = row
    BY <1>1, <1>3, <2>1, <2>2 DEF CallEffect
  <2>3. CASE pc[o] = "create" /\ pc'[o] = "register" /\ row' = [row EXCEPT ![o] = "pending"]
    BY <1>1, <1>3, <2>1, <2>3 DEF CallEffect
  <2>4. CASE pc[o] = "register" /\ pc'[o] = "precheck" /\ row' = row
    BY <1>1, <1>3, <2>1, <2>4 DEF CallEffect
  <2>5. CASE pc[o] = "register" /\ pc'[o] = "refused" /\ Touches(o)
    BY <1>1, <1>3, <2>1, <2>5 DEF CallEffect, Touches
  <2> QED
    BY <1>3, <2>2, <2>3, <2>4, <2>5 DEF CallEffect
<1>4. ASSUME NEW o \in Ops, RotateEffect(o) PROVE RowFollowsCall' /\ DoneTellsTheRow'
  BY <1>1, <1>4 DEF RotateEffect, Touches
<1>5. CASE Sweeps
  BY <1>1, <1>5, SweepEffect
<1>6. CASE Elsewhere
  BY <1>6, ElsewhereEffect
<1>7. CASE Restart
  BY <1>1, <1>7 DEF Restart, tables
<1> QED
  BY <1>2, <1>3, <1>4, <1>5, <1>6, <1>7, Shapes

\* A row is opened over a free subject, and a closed row stays closed.
LEMMA OneLiveStep ==
  TypeOK /\ OneLivePerSubject /\ RowFollowsCall /\ [Next]_vars => OneLivePerSubject'
<1> SUFFICES ASSUME TypeOK, OneLivePerSubject, RowFollowsCall, [Next]_vars
             PROVE  OneLivePerSubject'
  OBVIOUS
<1> USE DEF OneLivePerSubject, Live, OpenStates, ClosedStates
<1>1. row \in [Ops -> RowStates] /\ SubjectOf' = SubjectOf
  BY DEF TypeOK, SubjectOf
<1>2. ASSUME \A q \in Ops : row'[q] \in OpenStates => row[q] \in OpenStates
      PROVE  OneLivePerSubject'
  BY <1>1, <1>2
<1>3. ASSUME NEW o \in Ops, SubjectFree(SubjectOf[o]), row' = [row EXCEPT ![o] = "pending"]
      PROVE  OneLivePerSubject'
  BY <1>1, <1>3 DEF SubjectFree
<1>4. ASSUME NEW o \in Ops, Touches(o) PROVE OneLivePerSubject'
  BY <1>2, <1>4 DEF Touches
<1>5. ASSUME NEW o \in Ops, TaskEffect(o) PROVE OneLivePerSubject'
  BY <1>4, <1>5 DEF TaskEffect
<1>6. ASSUME NEW o \in Ops, CallEffect(o) PROVE OneLivePerSubject'
  <2>1. CASE row' = row
    BY <1>2, <2>1
  <2>2. CASE /\ pc[o] = "create" /\ SubjectFree("dongle")
             /\ row' = [row EXCEPT ![o] = "pending"]
    <3>1. SubjectOf[o] = "dongle"
      BY <2>2 DEF RowFollowsCall, Calling
    <3> QED
      BY <1>3, <2>2, <3>1
  <2> QED
    BY <1>4, <1>6, <2>1, <2>2 DEF CallEffect
<1>7. ASSUME NEW o \in Ops, RotateEffect(o) PROVE OneLivePerSubject'
  BY <1>3, <1>4, <1>7 DEF RotateEffect
<1>8. CASE Sweeps
  <2>1. \A q \in Ops : row'[q] \in OpenStates => row[q] \in OpenStates
    BY <1>8, SweepEffect
  <2> QED
    BY <1>2, <2>1
<1>9. CASE Elsewhere
  BY <1>2, <1>9, ElsewhereEffect
<1>10. CASE Restart
  BY <1>2, <1>10 DEF Restart, tables
<1> QED
  BY <1>5, <1>6, <1>7, <1>8, <1>9, <1>10, Shapes

LEMMA InitIInv == Init => IInv
<1> SUFFICES ASSUME Init PROVE IInv
  OBVIOUS
<1> USE DEF Init
<1>1. TypeOK
  <2>1. /\ row \in [Ops -> RowStates] /\ pc \in [Ops -> Pcs]
        /\ outcome \in [Ops -> {"none", "succeeded", "failed"}]
        /\ \A o \in Ops : pc[o] = "idle"
        /\ told \in [Ops -> {"none", "succeeded", "failed"}]
    BY DEF RowStates, Pcs
  <2>2. /\ overdue \subseteq Ops /\ today \subseteq Ops /\ cooling \subseteq Ops
        /\ dataOff \subseteq Ops /\ expired \subseteq Ops /\ writeLost \subseteq Ops
    OBVIOUS
  <2>3. /\ offline \in BOOLEAN /\ switchLost \in BOOLEAN /\ closed \in BOOLEAN
        /\ canceled \in BOOLEAN /\ drained \in BOOLEAN /\ sweeping \in BOOLEAN
    OBVIOUS
  <2> QED
    BY <2>1, <2>2, <2>3 DEF TypeOK
<1>2. DataIsOwed /\ DrainIsFinal
  BY DEF DataIsOwed, DrainIsFinal
<1>3. DebtsSettledFirst /\ OneLivePerSubject /\ RowFollowsCall /\ DoneTellsTheRow
  BY DEF DebtsSettledFirst, OneLivePerSubject, RowFollowsCall, DoneTellsTheRow, Live, OpenStates,
         Before, Holding, Calling, Goroutine, Working
<1> QED
  BY <1>1, <1>2, <1>3 DEF IInv
-----------------------------------------------------------------------------
(* The inductive invariant holds in every reachable state.                 *)
THEOREM Invariance == Spec => []IInv
<1>1. IInv /\ [Next]_vars => IInv'
  BY TypeStep, DataStep, DrainStep, OneLiveStep, RowStep DEF IInv
<1> QED
  BY InitIInv, <1>1, PTL DEF Spec

(* Every variable keeps its type.                                          *)
THEOREM TypeCorrect == Spec => []TypeOK
<1>1. IInv => TypeOK
  BY DEF IInv
<1> QED
  BY Invariance, <1>1, PTL

(* No return of runNetMode, no failing switch call and no crash leaves the *)
(* dongle without mobile data unless somebody still owes it or a call was  *)
(* lost.                                                                   *)
THEOREM DataOwedHolds == Spec => []DataIsOwed
<1>1. IInv => DataIsOwed
  BY DEF IInv
<1> QED
  BY Invariance, <1>1, PTL

(* A task settles its debt before its row says how it ended.               *)
THEOREM DebtsHold == Spec => []DebtsSettledFirst
<1>1. IInv => DebtsSettledFirst
  BY DEF IInv
<1> QED
  BY Invariance, <1>1, PTL

(* No goroutine of the service outlives a Shutdown that returned nil.      *)
THEOREM DrainHolds == Spec => []NothingAfterDrain
<1>1. IInv => NothingAfterDrain
  BY DEF IInv, DrainIsFinal, NothingAfterDrain
<1> QED
  BY Invariance, <1>1, PTL

(* The unique index keeps tasks apart for as long as the table knows them. *)
THEOREM TwoTasksHold == Spec => []TwoTasksMeanALostRow
<1>1. IInv => TwoTasksMeanALostRow
  <2> SUFFICES ASSUME IInv, NEW o \in Ops, NEW q \in Ops,
                      pc[o] \in Working, pc[q] \in Working, o # q,
                      row[o] \notin {"stalled", "failed"}, row[q] \notin {"stalled", "failed"}
               PROVE  FALSE
    BY DEF TwoTasksMeanALostRow
  <2>1. Live(o) /\ Live(q) /\ SubjectOf[o] = SubjectOf[q]
    BY DEF IInv, RowFollowsCall, Holding, Goroutine, Live
  <2> QED
    BY <2>1 DEF IInv, OneLivePerSubject
<1> QED
  BY Invariance, <1>1, PTL

(* op.done says how the row closed, unless the table gave the task up or   *)
(* the terminal write failed.                                              *)
THEOREM DoneHolds == Spec => []DoneTellsTheRow
<1>1. IInv => DoneTellsTheRow
  BY DEF IInv
<1> QED
  BY Invariance, <1>1, PTL
-----------------------------------------------------------------------------
\* What touches a row is a statement of the ledger.
LEMMA LedgerTouch ==
  ASSUME row \in [Ops -> RowStates], NEW o \in Ops, Touches(o) PROVE [Ledger!LedgerNext]_row
<1>1. row' = [row EXCEPT ![o] = row'[o]]
  BY DEF Touches
<1>2. CASE row'[o] = row[o]
  BY <1>1, <1>2
<1>3. CASE Live(o) /\ row'[o] = "running"
  BY <1>1, <1>3 DEF Ledger!LedgerNext, Ledger!Advance, Ledger!Unfinished, Ledger!OpenStates,
                    Live, OpenStates
<1>4. CASE Live(o) /\ row'[o] \in ClosedStates
  <2>1. Ledger!Close(o, row'[o]) /\ row'[o] \in Ledger!ClosedStates
    BY <1>1, <1>4 DEF Ledger!Close, Ledger!Unfinished, Ledger!OpenStates, Ledger!ClosedStates,
                      Live, OpenStates, ClosedStates
  <2> QED
    BY <2>1 DEF Ledger!LedgerNext
<1> QED
  BY <1>2, <1>3, <1>4 DEF Touches

\* An INSERT over a free subject opens a row of the ledger.
LEMMA LedgerOpen ==
  ASSUME NEW o \in Ops, row[o] = "absent", SubjectFree(SubjectOf[o]),
         row' = [row EXCEPT ![o] = "pending"]
  PROVE  Ledger!LedgerNext
  BY DEF SubjectFree, Live, OpenStates, Ledger!LedgerNext, Ledger!Open, Ledger!Unfinished,
         Ledger!OpenStates

\* Every step is a step of the ledger, or leaves the table alone.
LEMMA LedgerStep == IInv /\ [Next]_vars => [Ledger!LedgerNext]_row
<1> SUFFICES ASSUME IInv, [Next]_vars PROVE [Ledger!LedgerNext]_row
  OBVIOUS
<1>1. TypeOK /\ RowFollowsCall /\ row \in [Ops -> RowStates]
  BY DEF IInv, TypeOK
<1>2. ASSUME NEW o \in Ops, TaskEffect(o) PROVE [Ledger!LedgerNext]_row
  BY <1>1, <1>2, LedgerTouch DEF TaskEffect
<1>3. ASSUME NEW o \in Ops, CallEffect(o) PROVE [Ledger!LedgerNext]_row
  <2>1. CASE /\ pc[o] = "create" /\ SubjectFree("dongle")
             /\ row' = [row EXCEPT ![o] = "pending"]
    <3>1. row[o] = "absent" /\ SubjectOf[o] = "dongle"
      BY <1>1, <2>1 DEF RowFollowsCall, Before, Calling
    <3> QED
      BY <2>1, <3>1, LedgerOpen
  <2> QED
    BY <1>1, <1>3, <2>1, LedgerTouch DEF CallEffect
<1>4. ASSUME NEW o \in Ops, RotateEffect(o) PROVE [Ledger!LedgerNext]_row
  <2>1. CASE /\ pc[o] = "idle" /\ SubjectOf[o] = "proxy" /\ SubjectFree("proxy")
             /\ row' = [row EXCEPT ![o] = "pending"]
    <3>1. row[o] = "absent"
      BY <1>1, <2>1 DEF RowFollowsCall, Before
    <3> QED
      BY <2>1, <3>1, LedgerOpen
  <2> QED
    BY <1>1, <1>4, <2>1, LedgerTouch DEF RotateEffect
<1>5. CASE Sweeps
  <2>1. PICK S \in SUBSET Ops, s \in {"stalled", "failed"} :
               /\ \A o \in S : Live(o)
               /\ row' = [o \in Ops |-> IF o \in S THEN s ELSE row[o]]
    BY <1>1, <1>5, SweepEffect
  <2>2. Ledger!CloseAll(S, s) /\ s \in Ledger!ClosedStates
    BY <2>1 DEF Ledger!CloseAll, Ledger!Unfinished, Ledger!OpenStates, Ledger!ClosedStates,
                Live, OpenStates
  <2> QED
    BY <2>2 DEF Ledger!LedgerNext
<1>6. CASE Elsewhere
  BY <1>6, ElsewhereEffect
<1>7. CASE Restart
  BY <1>7 DEF Restart, tables
<1> QED
  BY <1>1, <1>2, <1>3, <1>4, <1>5, <1>6, <1>7, Shapes

(* The tasks of a dongle and the rotations of its proxy write the table as *)
(* OperationLedger says, with two subjects.                                *)
THEOREM Refinement == Spec => ImplementsLedger
<1>1. Init => Ledger!LedgerInit
  BY DEF Init, Ledger!LedgerInit
<1> QED
  BY <1>1, LedgerStep, Invariance, PTL DEF Spec, ImplementsLedger, Ledger!LedgerSpec
=============================================================================
