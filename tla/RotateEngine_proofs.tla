------------------------- MODULE RotateEngine_proofs -------------------------
(***************************************************************************)
(* Proofs about RotateEngine, for any finite set of calls, any proxies,    *)
(* any capacity of the semaphore, any hold ladder and any set of faults.   *)
(*                                                                         *)
(* The inductive invariant IInv adds to the properties what they rest on:  *)
(* where a goroutine that owes something can be, that the tokens of the    *)
(* semaphore are exactly the goroutines between taking and returning one,  *)
(* and what the row of a call can be at each step of it.                   *)
(***************************************************************************)
EXTENDS RotateEngine, FiniteSetTheorems, TLAPS

\* Goroutines that own a token: in the stagger sleep, or with release() deferred.
Tokens == held \cup {o \in Ops : pc[o] = "jitter"}

TokensCounted == sem = Cardinality(Tokens) /\ sem <= MaxConcurrent

HeldWhileWorking ==
    /\ \A o \in held : pc[o] \in Working \cup Finishing
    /\ \A o \in Ops : pc[o] \in Working => o \in held

DataOffInCycle == \A o \in dataOff : pc[o] \in {"hold", "data_on", "restore"}

DrainIsFinal == drained => closed /\ \A o \in Ops : pc[o] \notin Goroutine

RowFollowsCall ==
    \A o \in Ops :
        /\ pc[o] \in {"idle", "interval", "conflict", "create"} => row[o] = "absent"
        /\ pc[o] \in {"register", "done"} \cup Goroutine => row[o] # "absent"
        /\ pc[o] \in {"leave", "done", "refused"} => ~Live(o) \/ o \in writeLost
        /\ told[o] # "none" => pc[o] = "done"

\* TypeOK without the bounds of the semaphore, which need TokensCounted.
TypeButSem ==
    /\ row \in [Ops -> RowStates]
    /\ rot \in [Ops -> Verdicts]
    /\ recent \subseteq Ops /\ overdue \subseteq Ops /\ writeLost \subseteq Ops
    /\ pc \in [Ops -> Pcs]
    /\ attempt \in [Ops -> 0..MaxAttempts]
    /\ verdict \in [Ops -> Verdicts]
    /\ held \subseteq Ops /\ expired \subseteq Ops
    /\ guard \subseteq Ops /\ dataOff \subseteq Ops
    /\ fenced \subseteq Proxies /\ offline \subseteq Proxies
    /\ fenceLost \subseteq Proxies /\ switchLost \subseteq Proxies
    /\ closed \in BOOLEAN /\ canceled \in BOOLEAN /\ drained \in BOOLEAN
    /\ sweeper \in {"starting", "sweeping", "gone"}
    /\ told \in [Ops -> {"none"} \cup ClosedStates]

IInv ==
    /\ TypeButSem
    /\ TokensCounted
    /\ HeldWhileWorking
    /\ DebtsSettledFirst
    /\ DataOffInCycle
    /\ DrainIsFinal
    /\ OneLivePerProxy
    /\ FenceIsOwed
    /\ DataIsOwed
    /\ RowFollowsCall
-----------------------------------------------------------------------------
(* One lemma per part of the invariant: the part survives every step. *)

LEMMA TypeStep == TypeButSem /\ [Next]_vars => TypeButSem'
<1> SUFFICES ASSUME TypeButSem, [Next]_vars PROVE TypeButSem'
  OBVIOUS
<1> USE RotateAssumption DEF TypeButSem, tables, local, devices, engine, Goto,
        RowStates, OpenStates, ClosedStates, Verdicts, Live
<1>1. ASSUME NEW o \in Ops, Caller(o) PROVE TypeButSem'
  BY <1>1 DEF Caller, Call, CheckInterval, CheckConflict, Create, Register,
              WriteFinal, LoseFinal, Finished, Pcs, Calling, Goroutine, Over
<1>2. ASSUME NEW o \in Ops, Cycle(o) PROVE TypeButSem'
  <2> USE DEF Step, Progressed, Pcs, Goroutine, Working
  <2>1. CASE Precheck(o)
    BY <2>1 DEF Precheck, Abort
  <2>2. CASE Fence(o)
    BY <2>2 DEF Fence, Abort
  <2>3. CASE SwitchOff(o)
    BY <2>3 DEF SwitchOff, Abort
  <2>4. CASE Hold(o)
    BY <2>4 DEF Hold, Abort
  <2>5. CASE SwitchOn(o)
    BY <2>5 DEF SwitchOn, Abort
  <2>6. CASE WaitConnect(o)
    BY <2>6 DEF WaitConnect, NextRung, Abort
  <2>7. CASE Unfence(o)
    BY <2>7 DEF Unfence, Unfenced, Abort
  <2>8. CASE Verify(o)
    BY <2>8 DEF Verify, NextRung, Abort
  <2>9. CASE Restore(o)
    BY <2>9 DEF Restore
  <2>10. CASE Release(o)
    BY <2>10 DEF Release, Unfenced, Finishing
  <2> QED
    BY <1>2, <2>1, <2>2, <2>3, <2>4, <2>5, <2>6, <2>7, <2>8, <2>9, <2>10 DEF Cycle
<1>3. ASSUME NEW o \in Ops, Acquire(o) \/ Jitter(o) \/ Record(o) \/ Finish(o) \/ Leave(o)
      PROVE TypeButSem'
  BY <1>3 DEF Acquire, Jitter, Record, Finish, Leave, WriteFinal, LoseFinal, Finished, FinalState,
              Pcs, Goroutine, Working, Finishing, Over
<1>4. ASSUME NEW o \in Ops, Clock(o) PROVE TypeButSem'
  BY <1>4 DEF Clock, Deadline, Expire, IntervalElapses
<1>5. CASE MarkStalled \/ ReconcileOrphans
  <2>1. row' \in [Ops -> RowStates]
    BY <1>5 DEF MarkStalled, ReconcileOrphans
  <2>2. /\ sweeper' \in {"starting", "sweeping", "gone"}
        /\ UNCHANGED <<rot, recent, overdue, writeLost, local, devices, engine, pc, told>>
    BY <1>5 DEF MarkStalled, ReconcileOrphans
  <2> QED
    BY <2>1, <2>2
<1>6. CASE Shutdown
  BY <1>6 DEF Shutdown
<1>7. CASE ShutdownEnds
  <2>1. canceled' \in BOOLEAN /\ drained' \in BOOLEAN
    BY <1>7 DEF ShutdownEnds
  <2>2. UNCHANGED <<tables, local, devices, sem, held, closed, expired, pc, sweeper, told>>
    BY <1>7 DEF ShutdownEnds
  <2> QED
    BY <2>1, <2>2
<1>8. CASE Restart
  <2>1. pc' \in [Ops -> Pcs]
    BY <1>8 DEF Restart, Pcs, Over
  <2>2. fenceLost' \subseteq Proxies /\ switchLost' \subseteq Proxies
    BY <1>8 DEF Restart
  <2>3. attempt' \in [Ops -> 0..MaxAttempts] /\ verdict' \in [Ops -> Verdicts]
    BY <1>8 DEF Restart
  <2>4. /\ held' \subseteq Ops /\ expired' \subseteq Ops
        /\ guard' \subseteq Ops /\ dataOff' \subseteq Ops
        /\ closed' \in BOOLEAN /\ canceled' \in BOOLEAN /\ drained' \in BOOLEAN
        /\ sweeper' \in {"starting", "sweeping", "gone"}
        /\ UNCHANGED <<tables, fenced, offline, told>>
    BY <1>8 DEF Restart
  <2> QED
    BY <2>1, <2>2, <2>3, <2>4
<1>9. CASE UNCHANGED vars
  BY <1>9 DEF vars
<1> QED
  BY <1>1, <1>2, <1>3, <1>4, <1>5, <1>6, <1>7, <1>8, <1>9 DEF Next, Run

\* Only the four actions that touch the fence set or the guards matter.
LEMMA FenceStep ==
  TypeButSem /\ FenceIsOwed /\ [Next]_vars => FenceIsOwed'
<1> SUFFICES ASSUME TypeButSem, FenceIsOwed, [Next]_vars PROVE FenceIsOwed'
  OBVIOUS
<1> USE DEF FenceIsOwed, tables, local, devices, engine
<1>1. ASSUME NEW o \in Ops, Fence(o) PROVE FenceIsOwed'
  BY <1>1 DEF Fence, TypeButSem
<1>2. ASSUME NEW o \in Ops, Unfence(o) PROVE FenceIsOwed'
  BY <1>2 DEF Unfence, Unfenced, TypeButSem
<1>3. ASSUME NEW o \in Ops, Release(o) PROVE FenceIsOwed'
  BY <1>3 DEF Release, Unfenced, TypeButSem
<1>4. CASE Restart
  BY <1>4 DEF Restart, TypeButSem
<1>5. CASE UNCHANGED <<guard, fenced, fenceLost>>
  BY <1>5
<1>6. ASSUME NEW o \in Ops,
             Caller(o) \/ Precheck(o) \/ SwitchOff(o) \/ Hold(o) \/ SwitchOn(o)
               \/ WaitConnect(o) \/ Verify(o) \/ Restore(o)
      PROVE UNCHANGED <<guard, fenced, fenceLost>>
  BY <1>6 DEF Caller, Call, CheckInterval, CheckConflict, Create, Register, Precheck,
              SwitchOff, Hold, SwitchOn, WaitConnect, Verify, Restore
<1>7. ASSUME NEW o \in Ops,
             Acquire(o) \/ Jitter(o) \/ Record(o) \/ Finish(o) \/ Leave(o) \/ Clock(o)
      PROVE UNCHANGED <<guard, fenced, fenceLost>>
  BY <1>7 DEF Acquire, Jitter, Record, Finish, Leave, Clock, Deadline, Expire,
              IntervalElapses
<1>8. CASE MarkStalled \/ ReconcileOrphans \/ Shutdown \/ ShutdownEnds \/ UNCHANGED vars
  BY <1>5, <1>8 DEF MarkStalled, ReconcileOrphans, Shutdown, ShutdownEnds, vars
<1> QED
  BY <1>1, <1>2, <1>3, <1>4, <1>5, <1>6, <1>7, <1>8 DEF Next, Run, Cycle

\* The same for mobile data: SwitchOff, SwitchOn, Restore and Restart.
LEMMA DataStep ==
  TypeButSem /\ DataIsOwed /\ [Next]_vars => DataIsOwed'
<1> SUFFICES ASSUME TypeButSem, DataIsOwed, [Next]_vars PROVE DataIsOwed'
  OBVIOUS
<1> USE DEF DataIsOwed, tables, local, devices, engine
<1>1. ASSUME NEW o \in Ops, SwitchOff(o) PROVE DataIsOwed'
  BY <1>1 DEF SwitchOff, TypeButSem
<1>2. ASSUME NEW o \in Ops, SwitchOn(o) PROVE DataIsOwed'
  BY <1>2 DEF SwitchOn, TypeButSem
<1>3. ASSUME NEW o \in Ops, Restore(o) PROVE DataIsOwed'
  BY <1>3 DEF Restore, TypeButSem
<1>4. CASE Restart
  BY <1>4 DEF Restart, TypeButSem
<1>5. CASE UNCHANGED <<dataOff, offline, switchLost>>
  BY <1>5
<1>6. ASSUME NEW o \in Ops,
             Caller(o) \/ Precheck(o) \/ Fence(o) \/ Hold(o) \/ WaitConnect(o)
               \/ Unfence(o) \/ Verify(o) \/ Release(o)
      PROVE UNCHANGED <<dataOff, offline, switchLost>>
  BY <1>6 DEF Caller, Call, CheckInterval, CheckConflict, Create, Register, Precheck,
              Fence, Hold, WaitConnect, Unfence, Verify, Release
<1>7. ASSUME NEW o \in Ops,
             Acquire(o) \/ Jitter(o) \/ Record(o) \/ Finish(o) \/ Leave(o) \/ Clock(o)
      PROVE UNCHANGED <<dataOff, offline, switchLost>>
  BY <1>7 DEF Acquire, Jitter, Record, Finish, Leave, Clock, Deadline, Expire,
              IntervalElapses
<1>8. CASE MarkStalled \/ ReconcileOrphans \/ Shutdown \/ ShutdownEnds \/ UNCHANGED vars
  BY <1>5, <1>8 DEF MarkStalled, ReconcileOrphans, Shutdown, ShutdownEnds, vars
<1> QED
  BY <1>1, <1>2, <1>3, <1>4, <1>5, <1>6, <1>7, <1>8 DEF Next, Run, Cycle

\* Debts are settled inside the cycle, mobile data in the three steps around hold.
OwedParts == DebtsSettledFirst /\ DataOffInCycle /\ DrainIsFinal

LEMMA OwedStep ==
  TypeButSem /\ OwedParts /\ [Next]_vars => OwedParts'
<1> SUFFICES ASSUME TypeButSem, OwedParts, [Next]_vars PROVE OwedParts'
  OBVIOUS
<1> USE DEF TypeButSem, OwedParts, DebtsSettledFirst, DataOffInCycle, DrainIsFinal,
            tables, local, devices, engine, Goto
<1>1. ASSUME NEW o \in Ops, Caller(o) PROVE OwedParts'
  BY <1>1 DEF Caller, Call, CheckInterval, CheckConflict, Create, Register, Calling,
              Goroutine, Working, Finishing
<1>2. ASSUME NEW o \in Ops, Cycle(o) PROVE OwedParts'
  <2> USE <1>2 DEF Goroutine, Working
  <2>1. CASE Precheck(o)
    BY <2>1 DEF Precheck, Abort
  <2>2. CASE Fence(o)
    BY <2>2 DEF Fence, Abort
  <2>3. CASE SwitchOff(o)
    BY <2>3 DEF SwitchOff, Abort
  <2>4. CASE Hold(o)
    BY <2>4 DEF Hold, Abort
  <2>5. CASE SwitchOn(o)
    BY <2>5 DEF SwitchOn, Abort
  <2>6. CASE WaitConnect(o)
    BY <2>6 DEF WaitConnect, NextRung, Abort
  <2>7. CASE Unfence(o)
    BY <2>7 DEF Unfence, Abort
  <2>8. CASE Verify(o)
    BY <2>8 DEF Verify, NextRung, Abort
  <2>9. CASE Restore(o)
    BY <2>9 DEF Restore
  <2>10. CASE Release(o)
    BY <2>10 DEF Release
  <2> QED
    BY <2>1, <2>2, <2>3, <2>4, <2>5, <2>6, <2>7, <2>8, <2>9, <2>10 DEF Cycle
<1>3. ASSUME NEW o \in Ops, Acquire(o) \/ Jitter(o) \/ Record(o) \/ Finish(o) \/ Leave(o)
      PROVE OwedParts'
  BY <1>3 DEF Acquire, Jitter, Record, Finish, Leave, Goroutine, Working, Finishing
<1>4. ASSUME NEW o \in Ops, Clock(o) PROVE OwedParts'
  BY <1>4 DEF Clock, Deadline, Expire, IntervalElapses
<1>5. CASE MarkStalled \/ ReconcileOrphans
  BY <1>5 DEF MarkStalled, ReconcileOrphans
<1>6. CASE Shutdown \/ ShutdownEnds
  BY <1>6 DEF Shutdown, ShutdownEnds
<1>7. CASE Restart
  BY <1>7 DEF Restart
<1>8. CASE UNCHANGED vars
  BY <1>8 DEF vars
<1> QED
  BY <1>1, <1>2, <1>3, <1>4, <1>5, <1>6, <1>7, <1>8 DEF Next, Run

\* A token is counted in sem exactly while one goroutine owns it.
TokenParts == TokensCounted /\ HeldWhileWorking

LEMMA TokensFinite == ASSUME TypeButSem PROVE IsFiniteSet(Tokens)
BY FS_Subset, RotateAssumption DEF Tokens, TypeButSem

\* A step that leaves every owner and the counter alone.
LEMMA TokensKept ==
  ASSUME TypeButSem, TokensCounted, sem' = sem, Tokens' = Tokens
  PROVE  TokensCounted'
BY DEF TokensCounted

LEMMA TokenTaken ==
  ASSUME TypeButSem, TokensCounted, NEW o \in Ops, o \notin Tokens,
         sem < MaxConcurrent, sem' = sem + 1, Tokens' = Tokens \cup {o}
  PROVE  TokensCounted'
<1>1. Cardinality(Tokens \cup {o}) = Cardinality(Tokens) + 1
  BY TokensFinite, FS_AddElement
<1>2. sem \in Nat
  BY TokensFinite, FS_CardinalityType DEF TokensCounted
<1> QED
  BY <1>1, <1>2, RotateAssumption DEF TokensCounted

LEMMA TokenReturned ==
  ASSUME TypeButSem, TokensCounted, NEW o \in Ops, o \in Tokens,
         sem' = sem - 1, Tokens' = Tokens \ {o}
  PROVE  TokensCounted'
<1>1. Cardinality(Tokens \ {o}) = Cardinality(Tokens) - 1
  BY TokensFinite, FS_RemoveElement
<1>2. sem \in Nat
  BY TokensFinite, FS_CardinalityType DEF TokensCounted
<1> QED
  BY <1>1, <1>2, RotateAssumption DEF TokensCounted

LEMMA TokenStep ==
  TypeButSem /\ TokenParts /\ [Next]_vars => TokenParts'
<1> SUFFICES ASSUME TypeButSem, TokenParts, [Next]_vars PROVE TokenParts'
  OBVIOUS
<1> USE DEF TokenParts, tables, local, devices, engine, Goto
<1>1. ASSUME NEW o \in Ops, Caller(o) PROVE TokenParts'
  <2>1. Tokens' = Tokens /\ sem' = sem
    BY <1>1 DEF Caller, Call, CheckInterval, CheckConflict, Create, Register, Tokens,
                TypeButSem
  <2>2. HeldWhileWorking'
    BY <1>1 DEF Caller, Call, CheckInterval, CheckConflict, Create, Register, TypeButSem,
                HeldWhileWorking, Working, Finishing
  <2> QED
    BY <2>1, <2>2, TokensKept
<1>2. ASSUME NEW o \in Ops, Acquire(o) PROVE TokenParts'
  <2>1. HeldWhileWorking'
    BY <1>2 DEF Acquire, TypeButSem, HeldWhileWorking, Working, Finishing
  <2>2. CASE sem < MaxConcurrent /\ sem' = sem + 1 /\ Goto(o, "jitter")
    <3>1. o \notin Tokens
      BY <1>2 DEF Acquire, Tokens, HeldWhileWorking, Working, Finishing
    <3>2. Tokens' = Tokens \cup {o}
      BY <1>2, <2>2 DEF Acquire, Tokens, TypeButSem
    <3> QED
      BY <2>1, <2>2, <3>1, <3>2, TokenTaken
  <2>3. CASE sem' = sem /\ Goto(o, "record")
    <3>1. Tokens' = Tokens
      BY <1>2, <2>3 DEF Acquire, Tokens, TypeButSem
    <3> QED
      BY <2>1, <2>3, <3>1, TokensKept
  <2> QED
    BY <1>2, <2>2, <2>3 DEF Acquire
<1>3. ASSUME NEW o \in Ops, Jitter(o) PROVE TokenParts'
  <2>1. HeldWhileWorking'
    BY <1>3 DEF Jitter, TypeButSem, HeldWhileWorking, Working, Finishing
  <2>2. CASE Goto(o, "precheck") /\ held' = held \cup {o} /\ sem' = sem
    <3>1. Tokens' = Tokens
      BY <1>3, <2>2 DEF Jitter, Tokens, TypeButSem
    <3> QED
      BY <2>1, <2>2, <3>1, TokensKept
  <2>3. CASE Goto(o, "record") /\ held' = held /\ sem' = sem - 1
    <3>1. o \notin held
      BY <1>3 DEF Jitter, HeldWhileWorking, Working, Finishing
    <3>2. o \in Tokens /\ Tokens' = Tokens \ {o}
      BY <1>3, <2>3, <3>1 DEF Jitter, Tokens, TypeButSem
    <3> QED
      BY <2>1, <2>3, <3>2, TokenReturned
  <2> QED
    BY <1>3, <2>2, <2>3 DEF Jitter
<1>4. ASSUME NEW o \in Ops, Cycle(o) \/ Record(o) \/ Finish(o) PROVE TokenParts'
  <2>1. pc[o] \in Working \cup {"record", "finish"} /\ held' = held /\ sem' = sem
    BY <1>4 DEF Cycle, Precheck, Fence, SwitchOff, Hold, SwitchOn, WaitConnect, Unfence,
                Verify, Restore, Release, Record, Finish, Working
  <2>2. PICK l \in Working \cup Finishing :
            Goto(o, l) /\ (l \in Working => pc[o] \in Working)
    <3>1. CASE Precheck(o) \/ Fence(o) \/ SwitchOff(o) \/ Hold(o) \/ SwitchOn(o)
      BY <3>1 DEF Precheck, Fence, SwitchOff, Hold, SwitchOn, Abort, Working
    <3>2. CASE WaitConnect(o) \/ Unfence(o) \/ Verify(o) \/ Restore(o)
      BY <3>2 DEF WaitConnect, Unfence, Verify, Restore, NextRung, Abort, Working
    <3>3. CASE Release(o) \/ Record(o) \/ Finish(o)
      BY <3>3 DEF Release, Record, Finish, Working, Finishing
    <3> QED
      BY <1>4, <3>1, <3>2, <3>3 DEF Cycle
  <2>3. HeldWhileWorking'
    BY <2>1, <2>2 DEF HeldWhileWorking, TypeButSem
  <2>4. Tokens' = Tokens
    BY <2>1, <2>2 DEF Tokens, TypeButSem, Working, Finishing
  <2> QED
    BY <2>1, <2>3, <2>4, TokensKept
<1>5. ASSUME NEW o \in Ops, Leave(o) PROVE TokenParts'
  <2>1. HeldWhileWorking'
    BY <1>5 DEF Leave, TypeButSem, HeldWhileWorking, Working, Finishing
  <2>2. Tokens' = Tokens \ {o}
    BY <1>5 DEF Leave, Tokens, TypeButSem
  <2>3. CASE o \in held
    BY <1>5, <2>1, <2>2, <2>3, TokenReturned DEF Leave, Tokens
  <2>4. CASE o \notin held
    <3>1. o \notin Tokens
      BY <1>5, <2>4 DEF Leave, Tokens
    <3> QED
      BY <1>5, <2>1, <2>2, <2>4, <3>1, TokensKept DEF Leave
  <2> QED
    BY <2>3, <2>4
<1>6. CASE UNCHANGED <<pc, held, sem>>
  BY <1>6, TokensKept DEF Tokens, HeldWhileWorking
<1>7. ASSUME NEW o \in Ops, Clock(o) PROVE UNCHANGED <<pc, held, sem>>
  BY <1>7 DEF Clock, Deadline, Expire, IntervalElapses
<1>8. CASE MarkStalled \/ ReconcileOrphans \/ Shutdown \/ ShutdownEnds \/ UNCHANGED vars
  BY <1>6, <1>8 DEF MarkStalled, ReconcileOrphans, Shutdown, ShutdownEnds, vars
<1>9. CASE Restart
  <2>1. Tokens' = {} /\ HeldWhileWorking'
    BY <1>9 DEF Restart, Tokens, TypeButSem, Calling, Goroutine, HeldWhileWorking, Working
  <2> QED
    BY <1>9, <2>1, FS_EmptySet, RotateAssumption DEF Restart, TokensCounted
<1> QED
  BY <1>1, <1>2, <1>3, <1>4, <1>5, <1>6, <1>7, <1>8, <1>9 DEF Next, Run

\* ux_operations_active holds because only Create opens a row and it looks first.
LEMMA OneLiveStep ==
  TypeButSem /\ OneLivePerProxy /\ [Next]_vars => OneLivePerProxy'
<1> SUFFICES ASSUME TypeButSem, OneLivePerProxy, [Next]_vars PROVE OneLivePerProxy'
  OBVIOUS
<1>1. ASSUME NEW o \in Ops, Create(o) PROVE OneLivePerProxy'
  BY <1>1 DEF Create, OneLivePerProxy, Live, SameProxy, OpenStates, TypeButSem
<1>2. CASE \A o \in Ops : Live(o)' => Live(o)
  BY <1>2 DEF OneLivePerProxy
<1>3. ASSUME NEW o \in Ops, row' = Progressed(o) PROVE \A q \in Ops : Live(q)' => Live(q)
  BY <1>3 DEF Progressed, Live, OpenStates, TypeButSem
<1>4. ASSUME NEW o \in Ops, NEW s \in ClosedStates, WriteFinal(o, s)
      PROVE  \A q \in Ops : Live(q)' => Live(q)
  BY <1>4 DEF WriteFinal, LoseFinal, Finished, Live, OpenStates, ClosedStates, TypeButSem
<1>5. CASE UNCHANGED row
  BY <1>2, <1>5 DEF Live
<1>6. ASSUME NEW o \in Ops, Call(o) \/ CheckInterval(o) \/ CheckConflict(o) \/ Register(o)
      PROVE  OneLivePerProxy'
  BY <1>2, <1>4, <1>5, <1>6
     DEF Call, CheckInterval, CheckConflict, Register, LoseFinal, tables, ClosedStates
<1>7. ASSUME NEW o \in Ops, Cycle(o) PROVE OneLivePerProxy'
  <2>1. row' = Progressed(o) \/ UNCHANGED row
    BY <1>7 DEF Cycle, Precheck, Fence, SwitchOff, Hold, SwitchOn, WaitConnect, Unfence,
                Verify, Restore, Release, Step, tables
  <2> QED
    BY <1>2, <1>3, <1>5, <2>1
<1>8. ASSUME NEW o \in Ops, Finish(o) PROVE OneLivePerProxy'
  BY <1>2, <1>4, <1>8 DEF Finish, FinalState, ClosedStates
<1>9. ASSUME NEW o \in Ops,
             Acquire(o) \/ Jitter(o) \/ Record(o) \/ Leave(o) \/ Clock(o)
      PROVE  OneLivePerProxy'
  BY <1>5, <1>9 DEF Acquire, Jitter, Record, Leave, Clock, Deadline, Expire,
                    IntervalElapses, tables
<1>10. CASE MarkStalled \/ ReconcileOrphans
  BY <1>2, <1>10 DEF MarkStalled, ReconcileOrphans, Live, OpenStates
<1>11. CASE Shutdown \/ ShutdownEnds \/ Restart \/ UNCHANGED vars
  BY <1>5, <1>11 DEF Shutdown, ShutdownEnds, Restart, tables, vars
<1> QED
  BY <1>1, <1>6, <1>7, <1>8, <1>9, <1>10, <1>11 DEF Next, Caller, Run

\* What the row, the step and the event of one call say about each other.
LEMMA RowStep ==
  TypeButSem /\ RowFollowsCall /\ [Next]_vars => RowFollowsCall'
<1> SUFFICES ASSUME TypeButSem, RowFollowsCall, [Next]_vars PROVE RowFollowsCall'
  OBVIOUS
<1> USE DEF TypeButSem, RowFollowsCall, Live, Goto, OpenStates, RowStates, ClosedStates,
            tables, local, devices, engine, Goroutine, Working, Finishing
<1>1. ASSUME NEW o \in Ops, Caller(o) PROVE RowFollowsCall'
  <2>1. CASE Call(o)
    BY <2>1 DEF Call
  <2>2. CASE CheckInterval(o)
    BY <2>2 DEF CheckInterval
  <2>3. CASE CheckConflict(o)
    BY <2>3 DEF CheckConflict
  <2>4. CASE Create(o)
    BY <2>4 DEF Create
  <2>5. CASE Register(o)
    BY <2>5 DEF Register, WriteFinal, LoseFinal, Finished
  <2> QED
    BY <1>1, <2>1, <2>2, <2>3, <2>4, <2>5 DEF Caller
<1>2. ASSUME NEW o \in Ops, Cycle(o) PROVE RowFollowsCall'
  <2>1. /\ pc[o] \in Working
        /\ row' = Progressed(o) \/ UNCHANGED row
        /\ UNCHANGED <<writeLost, told>>
    BY <1>2 DEF Cycle, Precheck, Fence, SwitchOff, Hold, SwitchOn, WaitConnect, Unfence,
                Verify, Restore, Release, Step
  <2>2. PICK l \in Working \cup {"record"} : Goto(o, l)
    <3>1. CASE Precheck(o) \/ Fence(o) \/ SwitchOff(o) \/ Hold(o) \/ SwitchOn(o)
      BY <3>1 DEF Precheck, Fence, SwitchOff, Hold, SwitchOn, Abort
    <3>2. CASE WaitConnect(o) \/ Unfence(o) \/ Verify(o) \/ Restore(o) \/ Release(o)
      BY <3>2 DEF WaitConnect, Unfence, Verify, Restore, Release, NextRung, Abort
    <3> QED
      BY <1>2, <3>1, <3>2 DEF Cycle
  <2> QED
    BY <2>1, <2>2 DEF Progressed
<1>3. ASSUME NEW o \in Ops, Acquire(o) \/ Jitter(o) \/ Record(o) PROVE RowFollowsCall'
  BY <1>3 DEF Acquire, Jitter, Record
<1>4. ASSUME NEW o \in Ops, Finish(o) PROVE RowFollowsCall'
  BY <1>4 DEF Finish, WriteFinal, LoseFinal, Finished, FinalState
<1>5. ASSUME NEW o \in Ops, Leave(o) PROVE RowFollowsCall'
  BY <1>5 DEF Leave, FinalState
<1>6. ASSUME NEW o \in Ops, Clock(o) PROVE RowFollowsCall'
  BY <1>6 DEF Clock, Deadline, Expire, IntervalElapses
<1>7. CASE MarkStalled \/ ReconcileOrphans
  BY <1>7 DEF MarkStalled, ReconcileOrphans
<1>8. CASE Shutdown \/ ShutdownEnds \/ UNCHANGED vars
  BY <1>8 DEF Shutdown, ShutdownEnds, vars
<1>9. CASE Restart
  BY <1>9 DEF Restart, Calling
<1> QED
  BY <1>1, <1>2, <1>3, <1>4, <1>5, <1>6, <1>7, <1>8, <1>9 DEF Next, Run
-----------------------------------------------------------------------------
LEMMA InitIInv == Init => IInv
<1> SUFFICES ASSUME Init PROVE IInv
  OBVIOUS
<1> USE RotateAssumption DEF Init
<1>1. TypeButSem
  <2>1. /\ row \in [Ops -> RowStates] /\ rot \in [Ops -> Verdicts]
        /\ pc \in [Ops -> Pcs] /\ verdict \in [Ops -> Verdicts]
        /\ told \in [Ops -> {"none"} \cup ClosedStates]
    BY DEF RowStates, Verdicts, Pcs
  <2>2. attempt \in [Ops -> 0..MaxAttempts]
    OBVIOUS
  <2> QED
    BY <2>1, <2>2 DEF TypeButSem
<1>2. TokensCounted /\ HeldWhileWorking
  <2>1. Tokens = {}
    BY DEF Tokens
  <2> QED
    BY <2>1, FS_EmptySet DEF TokensCounted, HeldWhileWorking, Working
<1>3. DebtsSettledFirst /\ DataOffInCycle /\ DrainIsFinal /\ FenceIsOwed /\ DataIsOwed
  BY DEF DebtsSettledFirst, DataOffInCycle, DrainIsFinal, FenceIsOwed, DataIsOwed
<1>4. OneLivePerProxy /\ RowFollowsCall
  BY DEF OneLivePerProxy, RowFollowsCall, Live, OpenStates, Goroutine, Working, Finishing
<1> QED
  BY <1>1, <1>2, <1>3, <1>4 DEF IInv

LEMMA StepIInv == IInv /\ [Next]_vars => IInv'
BY TypeStep, TokenStep, OwedStep, OneLiveStep, FenceStep, DataStep, RowStep
   DEF IInv, TokenParts, OwedParts

(* Every reachable state satisfies the inductive invariant.                *)
THEOREM Invariance == Spec => []IInv
BY InitIInv, StepIInv, PTL DEF Spec

(* Every variable keeps its type; that sem stays in 0..MaxConcurrent says  *)
(* that acquire, the cancelled jitter and the deferred release balance.    *)
THEOREM TypeCorrect == Spec => []TypeOK
<1>1. IInv => TypeOK
  <2> SUFFICES ASSUME IInv PROVE sem \in 0..MaxConcurrent
    BY DEF IInv, TypeButSem, TypeOK
  <2>1. sem \in Nat /\ sem <= MaxConcurrent
    BY TokensFinite, FS_CardinalityType DEF IInv, TokensCounted
  <2> QED
    BY <2>1, RotateAssumption
<1> QED
  BY <1>1, Invariance, PTL

(* D-37: never more than MaxConcurrent goroutines between precheck and the *)
(* end of their cycle, however many calls there are.                       *)
THEOREM FarmCapHolds == Spec => []FarmCap
<1>1. IInv => FarmCap
  <2> SUFFICES ASSUME IInv
               PROVE  Cardinality({o \in Ops : pc[o] \in Working}) <= MaxConcurrent
    BY DEF FarmCap
  <2> DEFINE W == {o \in Ops : pc[o] \in Working}
  <2>1. W \subseteq Tokens
    BY DEF IInv, HeldWhileWorking, Tokens
  <2>2. Cardinality(W) <= Cardinality(Tokens) /\ Cardinality(W) \in Nat
    BY <2>1, TokensFinite, FS_Subset, FS_CardinalityType DEF IInv
  <2>3. Cardinality(Tokens) \in Nat /\ Cardinality(Tokens) <= MaxConcurrent
    BY TokensFinite, FS_CardinalityType DEF IInv, TokensCounted
  <2> QED
    BY <2>2, <2>3, RotateAssumption
<1> QED
  BY <1>1, Invariance, PTL

(* D-35: the index keeps one unfinished row per proxy against every writer *)
(* of the table.                                                           *)
THEOREM OneLiveHolds == Spec => []OneLivePerProxy
BY Invariance, PTL DEF IInv

(* A fence that is up has somebody who will take it down, or an nft error  *)
(* or a crash behind it.                                                   *)
THEOREM FenceOwedHolds == Spec => []FenceIsOwed
BY Invariance, PTL DEF IInv

(* Mobile data that is off has somebody who will switch it on, or a switch *)
(* error or a crash behind it.                                             *)
THEOREM DataOwedHolds == Spec => []DataIsOwed
BY Invariance, PTL DEF IInv

(* No goroutine writes its result while it still owes an unfence or a      *)
(* switch on: both debts are settled before record.                        *)
THEOREM DebtsHold == Spec => []DebtsSettledFirst
BY Invariance, PTL DEF IInv

(* After Shutdown drained the wait group no goroutine runs or starts.      *)
THEOREM DrainHolds == Spec => []NothingAfterDrain
<1>1. IInv => NothingAfterDrain
  BY DEF IInv, DrainIsFinal, NothingAfterDrain
<1> QED
  BY <1>1, Invariance, PTL

(* Wait never reads a live row of a call that is over, unless the database *)
(* refused the terminal write.                                             *)
THEOREM WaitHolds == Spec => []WaitReadsAFinishedRow
<1>1. IInv => WaitReadsAFinishedRow
  BY DEF IInv, RowFollowsCall, WaitReadsAFinishedRow
<1> QED
  BY <1>1, Invariance, PTL

(* The row is closed before op.done is published.                          *)
THEOREM DoneHolds == Spec => []DoneAfterClose
<1>1. IInv => DoneAfterClose
  BY DEF IInv, RowFollowsCall, DoneAfterClose, TypeButSem, Live, RowStates
<1> QED
  BY <1>1, Invariance, PTL
-----------------------------------------------------------------------------
(* The operations table, seen from outside. *)

\* Every step of the system is one statement of the ledger, or leaves the table alone.
LEMMA LedgerStep == IInv /\ [Next]_vars => [Ledger!LedgerNext]_row
<1> SUFFICES ASSUME IInv, [Next]_vars PROVE Ledger!LedgerNext \/ UNCHANGED row
  OBVIOUS
<1> USE DEF OpenStates, ClosedStates, Ledger!OpenStates, Ledger!ClosedStates,
            Ledger!Unfinished, Live
<1>0. row \in [Ops -> RowStates]
  BY DEF IInv, TypeButSem
<1>1. ASSUME NEW o \in Ops, Create(o) PROVE Ledger!LedgerNext \/ UNCHANGED row
  <2>1. row[o] = "absent"
    BY <1>1 DEF Create, IInv, RowFollowsCall
  <2>2. CASE UNCHANGED row
    BY <2>2
  <2>3. CASE (\A q \in SameProxy(o) : ~Live(q)) /\ row' = [row EXCEPT ![o] = "pending"]
    <3>1. Ledger!Open(o)
      BY <2>1, <2>3 DEF Ledger!Open, SameProxy
    <3> QED
      BY <3>1 DEF Ledger!LedgerNext
  <2> QED
    BY <1>1, <2>2, <2>3 DEF Create
<1>2. ASSUME NEW o \in Ops, row' = Progressed(o)
      PROVE  Ledger!LedgerNext \/ UNCHANGED row
  <2>1. CASE Live(o)
    <3>1. Ledger!Advance(o)
      BY <1>2, <2>1 DEF Progressed, Ledger!Advance
    <3> QED
      BY <3>1 DEF Ledger!LedgerNext
  <2>2. CASE ~Live(o)
    BY <1>0, <1>2, <2>2 DEF Progressed
  <2> QED
    BY <2>1, <2>2
<1>3. ASSUME NEW o \in Ops, NEW s \in ClosedStates, WriteFinal(o, s)
      PROVE  Ledger!LedgerNext \/ UNCHANGED row
  <2>1. CASE Live(o) /\ row' = Finished(o, s)
    <3>1. Ledger!Close(o, s)
      BY <2>1 DEF Finished, Ledger!Close
    <3> QED
      BY <3>1 DEF Ledger!LedgerNext
  <2>2. CASE ~(Live(o) /\ row' = Finished(o, s))
    BY <1>0, <1>3, <2>2 DEF WriteFinal, LoseFinal, Finished
  <2> QED
    BY <2>1, <2>2
<1>4. CASE MarkStalled
  <2> DEFINE S == {o \in Ops : Live(o) /\ o \in overdue}
  <2>1. Ledger!CloseAll(S, "stalled")
    BY <1>4 DEF MarkStalled, Ledger!CloseAll
  <2> QED
    BY <2>1 DEF Ledger!LedgerNext
<1>5. CASE ReconcileOrphans
  <2> DEFINE S == {o \in Ops : Live(o)}
  <2>1. UNCHANGED row \/ Ledger!CloseAll(S, "failed")
    BY <1>5 DEF ReconcileOrphans, Ledger!CloseAll
  <2> QED
    BY <2>1 DEF Ledger!LedgerNext
<1>6. ASSUME NEW o \in Ops, Caller(o) PROVE Ledger!LedgerNext \/ UNCHANGED row
  BY <1>1, <1>3, <1>6
     DEF Caller, Call, CheckInterval, CheckConflict, Register, LoseFinal, tables
<1>7. ASSUME NEW o \in Ops, Run(o) PROVE Ledger!LedgerNext \/ UNCHANGED row
  <2>1. CASE Cycle(o)
    <3>1. row' = Progressed(o) \/ UNCHANGED row
      BY <2>1 DEF Cycle, Precheck, Fence, SwitchOff, Hold, SwitchOn, WaitConnect, Unfence,
                  Verify, Restore, Release, Step, tables
    <3> QED
      BY <1>2, <3>1
  <2>2. CASE Finish(o)
    BY <1>3, <2>2 DEF Finish, FinalState
  <2>3. CASE Acquire(o) \/ Jitter(o) \/ Record(o) \/ Leave(o)
    BY <2>3 DEF Acquire, Jitter, Record, Leave, tables
  <2> QED
    BY <1>7, <2>1, <2>2, <2>3 DEF Run
<1>8. ASSUME NEW o \in Ops, Clock(o) PROVE UNCHANGED row
  BY <1>8 DEF Clock, Deadline, Expire, IntervalElapses, tables
<1>9. CASE Shutdown \/ ShutdownEnds \/ Restart \/ UNCHANGED vars
  BY <1>9 DEF Shutdown, ShutdownEnds, Restart, tables, vars
<1> QED
  BY <1>4, <1>5, <1>6, <1>7, <1>8, <1>9 DEF Next

(* The engine, the sweep and the restart together implement the ledger.    *)
THEOREM Refinement == Spec => ImplementsLedger
<1>1. Init => Ledger!LedgerInit
  BY DEF Init, Ledger!LedgerInit
<1> QED
  BY <1>1, LedgerStep, Invariance, PTL DEF Spec, ImplementsLedger, Ledger!LedgerSpec

\* A statement of the ledger never touches a closed row.
LEMMA LedgerKeepsClosed ==
  ASSUME row \in [Ops -> RowStates], [Ledger!LedgerNext]_row
  PROVE  \A o \in Ops : row[o] \in ClosedStates => row'[o] = row[o]
<1> USE DEF OpenStates, ClosedStates, RowStates, Ledger!OpenStates, Ledger!ClosedStates,
            Ledger!Unfinished
<1>1. ASSUME NEW o \in Ops, Ledger!Open(o) \/ Ledger!Advance(o)
      PROVE  \A q \in Ops : row[q] \in ClosedStates => row'[q] = row[q]
  BY <1>1 DEF Ledger!Open, Ledger!Advance
<1>2. ASSUME NEW o \in Ops, NEW s \in ClosedStates, Ledger!Close(o, s)
      PROVE  \A q \in Ops : row[q] \in ClosedStates => row'[q] = row[q]
  BY <1>2 DEF Ledger!Close
<1>3. ASSUME NEW S \in SUBSET Ops, NEW s \in ClosedStates, Ledger!CloseAll(S, s)
      PROVE  \A q \in Ops : row[q] \in ClosedStates => row'[q] = row[q]
  BY <1>3 DEF Ledger!CloseAll
<1> QED
  BY <1>1, <1>2, <1>3 DEF Ledger!LedgerNext

(* A closed row is never written again by a late goroutine.                *)
THEOREM ClosedHolds == Spec => ClosedRowsAreFrozen
<1>1. IInv /\ [Next]_vars
        => [\A o \in Ops : row[o] \in ClosedStates => row'[o] = row[o]]_vars
  BY LedgerStep, LedgerKeepsClosed DEF IInv, TypeButSem
<1> QED
  BY <1>1, Invariance, PTL DEF Spec, ClosedRowsAreFrozen
=============================================================================
