---------------------------- MODULE Daemon_proofs ----------------------------
(***************************************************************************)
(* Theorems about the process and its host: the plan of the slots, for     *)
(* each of the slots there can be; the shutdown of the daemon, for any     *)
(* grace and timeout; the event bus and the streams that read it, for any  *)
(* number of streams, any buffer and any number of events; the reboots of  *)
(* the reconcile engine, for any threshold, budget and backoff.            *)
(***************************************************************************)
EXTENDS Daemon, PanelFeed, SlotRecovery, SequenceTheorems, TLAPS

-----------------------------------------------------------------------------
(* The plan of the slots.                                                  *)

\* The subnet of a slot does not wrap: the last one is 192.168.250.0/24.
LEMMA OctetOfSlot == \A s \in Slots : SubnetOctet(s) = 100 + s
  BY DEF Slots, MaxSlots, SubnetOctet, SubnetOctetBase

\* No two slots share a user, a table, a subnet or a port, and nothing else
\* of the program has one of their ports (slot.go).
THEOREM SlotsShareNothingHolds == SlotsShareNothing
<1> SUFFICES ASSUME NEW s \in Slots, NEW t \in Slots
             PROVE  /\ s # t => /\ UID(s) # UID(t) /\ RouteTable(s) # RouteTable(t) /\ SubnetOctet(s) # SubnetOctet(t)
                                /\ SocksPort(s) # SocksPort(t) /\ HTTPPort(s) # HTTPPort(t)
                    /\ SocksPort(s) # HTTPPort(t)
                    /\ {SocksPort(s), HTTPPort(t)} \cap ReservedPorts = {}
                    /\ SlotFromUID(UID(s)) = s /\ UID(s) # GroupGID
  BY DEF SlotsShareNothing
<1>0. /\ s \in 1 .. 150 /\ t \in 1 .. 150
  BY DEF Slots, MaxSlots
<1>1. ASSUME s # t
      PROVE  /\ UID(s) # UID(t) /\ RouteTable(s) # RouteTable(t) /\ SubnetOctet(s) # SubnetOctet(t)
             /\ SocksPort(s) # SocksPort(t) /\ HTTPPort(s) # HTTPPort(t)
  BY <1>0, <1>1, OctetOfSlot DEF UID, UIDBase, RouteTable, RouteTableBase, SocksPort, SocksPortBase, HTTPPort, HTTPPortBase
<1>2. SocksPort(s) # HTTPPort(t)
  BY <1>0 DEF SocksPort, SocksPortBase, HTTPPort, HTTPPortBase
<1>3. {SocksPort(s), HTTPPort(t)} \cap ReservedPorts = {}
  BY <1>0 DEF SocksPort, SocksPortBase, HTTPPort, HTTPPortBase, ReservedPorts, PanelPort, MetricsPort, ProxyValidatePort
<1>4. SlotFromUID(UID(s)) = s /\ UID(s) # GroupGID
  BY <1>0 DEF SlotFromUID, UID, UIDBase, GroupGID, Valid, MaxSlots
<1> QED BY <1>1, <1>2, <1>3, <1>4

\* The rules of the slots are asked in the order the routing relies on.
THEOREM RulesAreOrderedHolds == RulesAreOrdered
<1> SUFFICES ASSUME NEW s \in Slots, NEW t \in Slots
             PROVE  /\ RulePrioPublic < RulePrioSrcOf(s) /\ RulePrioSrcOf(s) < RulePrioUIDOf(t)
                    /\ RulePrioUIDOf(t) < ForeignRuleCeil
  BY DEF RulesAreOrdered
<1> QED BY DEF Slots, MaxSlots, RulePrioPublic, RulePrioSrcOf, RulePrioSrc, RulePrioUIDOf, RulePrioUID, ForeignRuleCeil

\* The firewall lets the ports of every slot through, and no connection of
\* the host itself is given one of them.
THEOREM PortsAreKnownHolds == PortsAreKnown
<1> SUFFICES ASSUME NEW s \in Slots, NEW p \in {SocksPort(s), HTTPPort(s)}
             PROVE  ProxyPortLo <= p /\ p <= ProxyPortHi /\ p < EphemeralPortMin
  BY DEF PortsAreKnown
<1> QED BY DEF Slots, MaxSlots, SocksPort, SocksPortBase, HTTPPort, HTTPPortBase, ProxyPortLo, ProxyPortHi, EphemeralPortMin

-----------------------------------------------------------------------------
(* The shutdown.                                                           *)

UnitTyped ==
    /\ unit \in [state: UnitStates, quick: 0 .. StartLimit, left: 0 .. TimeoutStop]
    /\ app \in [pc: {"down", "wire", "serving"} \cup Closing, left: 0 .. ShutdownGrace]
    /\ work \in [Workers -> {"idle", "busy", "cut"}]

\* systemd's timer is ahead of the grace by what the two were configured to
\* differ: both run while a Shutdown waits, and neither runs otherwise.
GraceIsWithin ==
    /\ unit.left >= app.left + (TimeoutStop - ShutdownGrace)
    /\ app.pc \notin Closing => unit.left = TimeoutStop
    /\ app.pc # "down" <=> unit.state \in {"up", "stopping"}

\* A task is cut in a shutdown only, and when nothing of the grace is left.
CutsAreLate == \A w \in Workers : work[w] = "cut" => app.left = 0 /\ app.pc \in Closing

ShutdownInv == UnitTyped /\ GraceIsWithin /\ CutsAreLate

LEMMA DaemonNumbers ==
    /\ ShutdownGrace \in Nat /\ TimeoutStop \in Nat /\ StartLimit \in Nat
    /\ ShutdownGrace < TimeoutStop /\ StartLimit > 0
  BY DaemonAssumption

\* A failed start, and the end of the process, leave a fresh timer.
LEMMA UnitFailsIs ==
    ASSUME ShutdownInv, UnitFails
    PROVE  /\ unit' \in [state: UnitStates, quick: 0 .. StartLimit, left: 0 .. TimeoutStop]
           /\ unit'.left = TimeoutStop /\ unit'.state \in {"dead", "backoff", "failed"}
<1> DEFINE st == IF unit.state = "stopping" THEN "dead" ELSE IF unit.quick + 1 < StartLimit THEN "backoff" ELSE "failed"
           q == unit.quick + (IF unit.quick < StartLimit THEN 1 ELSE 0)
<1>1. unit \in [state: UnitStates, quick: 0 .. StartLimit, left: 0 .. TimeoutStop]
  BY DEF ShutdownInv, UnitTyped
<1>2. unit' = [unit EXCEPT !.state = st, !.quick = q, !.left = TimeoutStop]
  BY DEF UnitFails
<1>3. st \in {"dead", "backoff", "failed"} /\ st \in UnitStates
  BY DEF UnitStates
<1>4. q \in 0 .. StartLimit
  BY <1>1, DaemonNumbers
<1>5. TimeoutStop \in 0 .. TimeoutStop
  BY DaemonNumbers
<1> HIDE DEF st, q
<1> QED
  BY <1>1, <1>2, <1>3, <1>4, <1>5

LEMMA ExitsKeeps ==
    ASSUME Exits, unit' \in [state: UnitStates, quick: 0 .. StartLimit, left: 0 .. TimeoutStop],
           unit'.left = TimeoutStop, unit'.state \notin {"up", "stopping"}
    PROVE  ShutdownInv'
<1>1. app' = NoApp /\ work' = NoWork
  BY DEF Exits
<1>2. UnitTyped'
  BY <1>1, DaemonNumbers DEF UnitTyped, NoApp, NoWork
<1>3. GraceIsWithin'
  BY <1>1, DaemonNumbers DEF GraceIsWithin, NoApp, Closing
<1>4. CutsAreLate'
  BY <1>1 DEF CutsAreLate, NoWork
<1> QED
  BY <1>2, <1>3, <1>4 DEF ShutdownInv

\* A step of the process that leaves the timers and the tasks alone.
LEMMA PlaceKeeps ==
    ASSUME ShutdownInv, NEW p \in {"serving"} \cup Closing, app' = [app EXCEPT !.pc = p],
           UNCHANGED <<unit, work>>, app.pc # "down", app.pc \in Closing => p \in Closing
    PROVE  ShutdownInv'
<1>1. UnitTyped'
  BY DEF ShutdownInv, UnitTyped
<1>2. app'.pc = p /\ app'.left = app.left
  BY DEF ShutdownInv, UnitTyped
<1>3. GraceIsWithin'
  BY <1>2 DEF ShutdownInv, GraceIsWithin, Closing
<1>4. CutsAreLate'
  BY <1>2 DEF ShutdownInv, CutsAreLate
<1> QED
  BY <1>1, <1>3, <1>4 DEF ShutdownInv

LEMMA ShutdownInit == DaemonInit => ShutdownInv
<1> SUFFICES ASSUME DaemonInit PROVE ShutdownInv
  OBVIOUS
<1>1. /\ unit = [state |-> "dead", quick |-> 0, left |-> TimeoutStop]
      /\ app = NoApp /\ work = NoWork
  BY DEF DaemonInit
<1>2. UnitTyped
  BY <1>1, DaemonNumbers DEF UnitTyped, NoApp, NoWork, UnitStates
<1>3. GraceIsWithin
  BY <1>1, DaemonNumbers DEF GraceIsWithin, NoApp, Closing
<1>4. CutsAreLate
  BY <1>1 DEF CutsAreLate, NoWork
<1> QED
  BY <1>2, <1>3, <1>4 DEF ShutdownInv

LEMMA ShutdownStep == ShutdownInv /\ [DaemonNext]_daemonVars => ShutdownInv'
<1> SUFFICES ASSUME ShutdownInv, [DaemonNext]_daemonVars PROVE ShutdownInv'
  OBVIOUS
<1>0. UnitTyped /\ GraceIsWithin /\ CutsAreLate
  BY DEF ShutdownInv
<1>1. ASSUME UNCHANGED <<unit, app, work>> PROVE ShutdownInv'
  BY <1>0, <1>1 DEF ShutdownInv, UnitTyped, GraceIsWithin, CutsAreLate
<1>2. CASE UNCHANGED daemonVars
  BY <1>1, <1>2 DEF daemonVars
<1>3. CASE Bootstrap \/ BootstrapKEK \/ Rebuild3proxy \/ RunEnroll \/ LoadTable \/ RuleIsLost
  BY <1>1, <1>3 DEF Bootstrap, BootstrapKEK, Rebuild3proxy, RunEnroll, LoadTable, RuleIsLost, processVars
<1>4. CASE HostReboots
  <2>1. /\ app' = NoApp /\ work' = NoWork
        /\ unit' = [state |-> IF unit.state = "dead" THEN "dead" ELSE "pre", quick |-> 0, left |-> TimeoutStop]
    BY <1>4 DEF HostReboots
  <2>2. UnitTyped'
    BY <2>1, DaemonNumbers DEF UnitTyped, NoApp, NoWork, UnitStates
  <2>3. GraceIsWithin'
    BY <2>1, DaemonNumbers DEF GraceIsWithin, NoApp, Closing
  <2>4. CutsAreLate'
    BY <2>1 DEF CutsAreLate, NoWork
  <2> QED
    BY <2>2, <2>3, <2>4 DEF ShutdownInv
<1>5. CASE SystemctlStart
  <2>1. /\ UNCHANGED <<app, work>> /\ app.pc = "down"
        /\ unit' = [unit EXCEPT !.state = "pre", !.quick = 0, !.left = TimeoutStop]
    BY <1>5 DEF SystemctlStart, processVars
  <2>a. "pre" \in UnitStates /\ 0 \in 0 .. StartLimit /\ TimeoutStop \in 0 .. TimeoutStop
    BY DaemonNumbers DEF UnitStates
  <2>2. UnitTyped' /\ unit'.left = TimeoutStop /\ unit'.state = "pre"
    BY <1>0, <2>1, <2>a DEF UnitTyped
  <2>3. GraceIsWithin'
    <3>1. app.left \in 0 .. ShutdownGrace
      BY <1>0 DEF UnitTyped
    <3> QED
      BY <2>1, <2>2, <3>1, DaemonNumbers DEF GraceIsWithin, Closing
  <2>4. CutsAreLate'
    BY <1>0, <2>1 DEF CutsAreLate
  <2> QED
    BY <2>2, <2>3, <2>4 DEF ShutdownInv
<1>6. CASE ExecStartPre
  <2>1. unit.state = "pre" /\ UNCHANGED work /\ app.pc = "down"
    BY <1>0, <1>6 DEF ExecStartPre, GraceIsWithin
  <2>2. CASE unit' = [unit EXCEPT !.state = "up"] /\ app' = [NoApp EXCEPT !.pc = "wire"]
    <3>1. UnitTyped' /\ unit'.left = unit.left /\ unit'.state = "up" /\ app'.pc = "wire" /\ app'.left = ShutdownGrace
      BY <1>0, <2>1, <2>2, DaemonNumbers DEF UnitTyped, UnitStates, NoApp
    <3>2. unit.left = TimeoutStop
      BY <1>0, <2>1 DEF GraceIsWithin, Closing
    <3>3. GraceIsWithin'
      BY <3>1, <3>2, DaemonNumbers DEF GraceIsWithin, Closing
    <3>4. CutsAreLate'
      BY <1>0, <2>1 DEF CutsAreLate, Closing
    <3> QED
      BY <3>1, <3>3, <3>4 DEF ShutdownInv
  <2>3. CASE UnitFails /\ UNCHANGED app
    <3>1. /\ unit' \in [state: UnitStates, quick: 0 .. StartLimit, left: 0 .. TimeoutStop]
          /\ unit'.left = TimeoutStop /\ unit'.state \in {"dead", "backoff", "failed"}
      BY <2>3, UnitFailsIs
    <3>2. UnitTyped' /\ app.left \in 0 .. ShutdownGrace
      BY <1>0, <2>1, <2>3, <3>1 DEF UnitTyped
    <3>3. GraceIsWithin'
      BY <2>1, <2>3, <3>1, <3>2, DaemonNumbers DEF GraceIsWithin, Closing
    <3>4. CutsAreLate'
      BY <1>0, <2>1, <2>3 DEF CutsAreLate
    <3> QED
      BY <3>2, <3>3, <3>4 DEF ShutdownInv
  <2> QED
    BY <1>6, <2>2, <2>3 DEF ExecStartPre
<1>7. CASE UnitRestarts
  <2>1. unit.state = "backoff" /\ unit' = [unit EXCEPT !.state = "pre"] /\ UNCHANGED <<app, work>>
    BY <1>7 DEF UnitRestarts, processVars
  <2>2. UnitTyped' /\ unit'.left = unit.left /\ unit'.state = "pre"
    BY <1>0, <2>1 DEF UnitTyped, UnitStates
  <2>3. GraceIsWithin' /\ CutsAreLate'
    BY <1>0, <2>1, <2>2 DEF GraceIsWithin, CutsAreLate
  <2> QED
    BY <2>2, <2>3 DEF ShutdownInv
<1>8. CASE SystemctlStop
  <2>1. /\ unit.state = "up" /\ unit' = [unit EXCEPT !.state = "stopping"]
        /\ app.pc = "serving" /\ app' = [app EXCEPT !.pc = "panel"] /\ UNCHANGED work
    BY <1>8 DEF SystemctlStop
  <2>2. /\ UnitTyped' /\ unit'.left = unit.left /\ unit'.state = "stopping"
        /\ app'.pc = "panel" /\ app'.left = app.left
    BY <1>0, <2>1 DEF UnitTyped, UnitStates, Closing
  <2>3. GraceIsWithin' /\ CutsAreLate'
    BY <1>0, <2>1, <2>2 DEF GraceIsWithin, CutsAreLate, Closing
  <2> QED
    BY <2>2, <2>3 DEF ShutdownInv
<1>9. CASE StartTimesOut
  <2>1. /\ unit' = [unit EXCEPT !.quick = 0]
        /\ app.pc = "serving" /\ app' = [app EXCEPT !.pc = "panel"] /\ UNCHANGED work
    BY <1>9 DEF StartTimesOut
  <2>2. /\ UnitTyped' /\ unit'.left = unit.left /\ unit'.state = unit.state
        /\ app'.pc = "panel" /\ app'.left = app.left
    BY <1>0, <2>1, DaemonNumbers DEF UnitTyped, UnitStates, Closing
  <2>3. GraceIsWithin' /\ CutsAreLate'
    BY <1>0, <2>1, <2>2 DEF GraceIsWithin, CutsAreLate, Closing
  <2> QED
    BY <2>2, <2>3 DEF ShutdownInv
<1>10. ASSUME UnitFails, Exits PROVE ShutdownInv'
  BY <1>10, UnitFailsIs, ExitsKeeps
<1>11. CASE Wire
  <2>1. app.pc = "wire"
    BY <1>11 DEF Wire
  <2>2. CASE BuildPanel
    <3>1. app' = [app EXCEPT !.pc = "serving"] /\ UNCHANGED <<unit, work>>
      BY <1>11, <2>2 DEF Wire
    <3> QED
      BY <2>1, <3>1, PlaceKeeps DEF Closing
  <2>3. CASE ~BuildPanel
    BY <1>10, <1>11, <2>3 DEF Wire
  <2> QED
    BY <2>2, <2>3
<1>12. CASE ListenFails
  BY <1>10, <1>12 DEF ListenFails
<1>13. CASE Engine
  BY <1>1, <1>13 DEF Engine, EngineRecovers, EngineSweeps, EngineKicks
<1>14. CASE ShutdownSteps
  <2>1. /\ app.pc \in {"panel", "rotator", "ops"} /\ UNCHANGED unit
        /\ app' = [app EXCEPT !.pc = Next_(app.pc)]
        /\ work' = IF app.pc \in Workers /\ work[app.pc] = "busy" THEN [work EXCEPT ![app.pc] = "cut"] ELSE work
        /\ ~WaitsFor(app.pc) \/ GivesUp
    BY <1>14 DEF ShutdownSteps
  <2>2. Next_(app.pc) \in Closing
    BY <2>1 DEF Next_, Closing
  <2>3. CASE app.pc \in Workers /\ work[app.pc] = "busy"
    <3>1. app.left = 0
      BY <2>1, <2>3 DEF WaitsFor, RotatorShutdown, OpsShutdown, GivesUp, Workers
    <3>2. UnitTyped' /\ app'.pc \in Closing /\ app'.left = app.left
      BY <1>0, <2>1, <2>2, <2>3 DEF UnitTyped
    <3>3. GraceIsWithin'
      BY <1>0, <2>1, <3>2 DEF GraceIsWithin, Closing
    <3>4. CutsAreLate'
      BY <3>1, <3>2 DEF CutsAreLate
    <3> QED
      BY <3>2, <3>3, <3>4 DEF ShutdownInv
  <2>4. CASE ~(app.pc \in Workers /\ work[app.pc] = "busy")
    <3>1. UNCHANGED work
      BY <2>1, <2>4
    <3> QED
      BY <2>1, <2>2, <3>1, PlaceKeeps
  <2> QED
    BY <2>3, <2>4
<1>15. CASE StopEngine
  <2>1. app.pc = "engine" /\ app' = [app EXCEPT !.pc = "rotator"] /\ UNCHANGED <<unit, work>>
    BY <1>15 DEF StopEngine
  <2> QED
    BY <2>1, PlaceKeeps DEF Closing
<1>16. CASE ClosesStore
  <2>1. Exits /\ unit' = [unit EXCEPT !.state = IF @ = "stopping" THEN "dead" ELSE "backoff", !.left = TimeoutStop]
    BY <1>16 DEF ClosesStore
  <2> DEFINE st == IF unit.state = "stopping" THEN "dead" ELSE "backoff"
  <2>a. st \in UnitStates /\ st \notin {"up", "stopping"} /\ TimeoutStop \in 0 .. TimeoutStop
    BY DaemonNumbers DEF UnitStates
  <2>b. unit' = [unit EXCEPT !.state = st, !.left = TimeoutStop]
    BY <2>1
  <2> HIDE DEF st
  <2>2. /\ unit' \in [state: UnitStates, quick: 0 .. StartLimit, left: 0 .. TimeoutStop]
        /\ unit'.left = TimeoutStop /\ unit'.state \notin {"up", "stopping"}
    BY <1>0, <2>a, <2>b DEF UnitTyped
  <2> QED
    BY <2>1, <2>2, ExitsKeeps
<1>17. CASE GraceTick
  <2>1. /\ app.pc \in Closing /\ app.left # 0 /\ unit.left > 0 /\ UNCHANGED work
        /\ app' = [app EXCEPT !.left = IF @ > 0 THEN @ - 1 ELSE 0] /\ unit' = [unit EXCEPT !.left = @ - 1]
    BY <1>17 DEF GraceTick, GivesUp
  <2>2. app.left \in 0 .. ShutdownGrace /\ unit.left \in 0 .. TimeoutStop
    BY <1>0 DEF UnitTyped
  <2>3. app.left - 1 \in 0 .. ShutdownGrace /\ unit.left - 1 \in 0 .. TimeoutStop /\ app.left > 0
    BY <2>1, <2>2, DaemonNumbers
  <2>4. /\ UnitTyped' /\ app'.left = app.left - 1 /\ app'.pc = app.pc
        /\ unit'.left = unit.left - 1 /\ unit'.state = unit.state
    BY <1>0, <2>1, <2>3 DEF UnitTyped
  <2>5. GraceIsWithin'
    BY <1>0, <2>1, <2>2, <2>4, DaemonNumbers DEF GraceIsWithin
  <2>6. CutsAreLate'
    BY <1>0, <2>1 DEF CutsAreLate
  <2> QED
    BY <2>4, <2>5, <2>6 DEF ShutdownInv
<1>18. ASSUME NEW w \in Workers, TaskBegins(w) \/ TaskEnds(w) PROVE ShutdownInv'
  <2>1. UNCHANGED <<unit, app>> /\ work' \in [Workers -> {"idle", "busy", "cut"}]
    BY <1>0, <1>18 DEF TaskBegins, TaskEnds, UnitTyped
  <2>2. \A x \in Workers : work'[x] = "cut" => work[x] = "cut"
    BY <1>0, <1>18 DEF TaskBegins, TaskEnds, UnitTyped
  <2> QED
    BY <1>0, <2>1, <2>2 DEF ShutdownInv, UnitTyped, GraceIsWithin, CutsAreLate
<1>19. ASSUME NEW c \in {"request", "stream"}, ConnOpens(c) \/ ConnEnds(c) PROVE ShutdownInv'
  BY <1>1, <1>19 DEF ConnOpens, ConnEnds
<1> QED
  BY <1>2, <1>3, <1>4, <1>5, <1>6, <1>7, <1>8, <1>9, <1>11, <1>12, <1>13, <1>14, <1>15, <1>16, <1>17, <1>18, <1>19
  DEF DaemonNext, Administrates, Systemd, Closes

\* Any stop of the daemon ends before systemd's timer does, and it gives a task
\* up only when its grace is used up (App.Close, TimeoutStopSec).
THEOREM StopsInTimeHolds == DaemonSpec => []StopsInTime
<1>1. ShutdownInv => StopsInTime
  <2> SUFFICES ASSUME ShutdownInv PROVE StopsInTime
    OBVIOUS
  <2>1. unit.left \in Nat /\ app.left \in Nat
    BY DEF ShutdownInv, UnitTyped
  <2>2. unit.left > 0
    BY <2>1, DaemonNumbers DEF ShutdownInv, GraceIsWithin
  <2> QED
    BY <2>2 DEF ShutdownInv, CutsAreLate, StopsInTime
<1>2. DaemonInit => ShutdownInv
  BY ShutdownInit
<1>3. ShutdownInv /\ [DaemonNext]_daemonVars => ShutdownInv'
  BY ShutdownStep
<1> QED
  BY <1>1, <1>2, <1>3, PTL DEF DaemonSpec
-----------------------------------------------------------------------------
(* The streams.                                                            *)

Channel == [queue : Seq(1 .. MaxEvents), closed : BOOLEAN]
Stream == [pc : {"off", "hello", "on"}, last : 0 .. MaxEvents, ticks : 0 .. SessionCheckStep - 1]

BusTyped ==
    /\ published \in 0 .. MaxEvents /\ subs \subseteq Streams
    /\ chans \in [Streams -> Channel] /\ streams \in [Streams -> Stream]

\* The channel of s holds the events that follow the last one s has written, and
\* all there are while s is a subscriber.
InOrder(s) ==
    LET q == chans[s].queue
    IN  /\ Len(q) <= Buffer
        /\ \A i \in 1 .. Len(q) : q[i] = streams[s].last + i
        /\ streams[s].last + Len(q) <= published
        /\ s \in subs => streams[s].last + Len(q) = published /\ streams[s].pc # "off"

BusInv ==
    /\ BusTyped
    /\ \A s \in Streams : InOrder(s)
    /\ busClosed => subs = {}

LEMMA BusNumbers ==
    /\ Buffer \in Nat /\ Buffer > 0 /\ MaxEvents \in Nat
    /\ SessionCheckStep \in Nat /\ SessionCheckStep > 0
  BY BusAssumption

\* Only s, its channel and whether it is a subscriber are told apart by InOrder.
LEMMA SameOrder ==
    ASSUME NEW s, InOrder(s), chans'[s].queue = chans[s].queue,
           streams'[s].last = streams[s].last, published' = published,
           s \in subs' => s \in subs /\ streams'[s].pc # "off"
    PROVE  InOrder(s)'
  BY DEF InOrder

LEMMA FreshOrder ==
    ASSUME NEW s, chans'[s].queue = <<>>, streams'[s].last \in Nat, streams'[s].last <= published',
           s \in subs' => streams'[s].last = published' /\ streams'[s].pc # "off"
    PROVE  InOrder(s)'
<1>1. Len(chans'[s].queue) = 0
  BY EmptySeq
<1> QED
  BY <1>1, BusNumbers DEF InOrder

LEMMA NothingYet == EmptyChan \in Channel /\ NoStream \in Stream
<1>1. <<>> \in Seq(1 .. MaxEvents)
  BY EmptySeq
<1>2. 0 \in 0 .. MaxEvents /\ 0 \in 0 .. SessionCheckStep - 1
  BY BusNumbers
<1> QED
  BY <1>1, <1>2 DEF EmptyChan, NoStream, Channel, Stream

LEMMA BusStart == BusInit => BusInv
<1> SUFFICES ASSUME BusInit PROVE BusInv
  OBVIOUS
<1>1. EmptyChan \in Channel /\ NoStream \in Stream
  BY NothingYet
<1>2. BusTyped
  BY <1>1, BusNumbers DEF BusInit, BusTyped
<1>3. ASSUME NEW s \in Streams PROVE InOrder(s)
  <2>1. chans[s].queue = <<>> /\ streams[s].last = 0 /\ s \notin subs /\ published = 0
    BY DEF BusInit, EmptyChan, NoStream
  <2>2. Len(chans[s].queue) = 0
    BY <2>1, EmptySeq
  <2> QED
    BY <2>1, <2>2, BusNumbers DEF InOrder
<1> QED
  BY <1>2, <1>3 DEF BusInit, BusInv

\* Publish appends what has just been numbered, or ends the subscription.
LEMMA PublishKeeps == ASSUME BusInv, MemPublish PROVE BusInv'
<1>1. /\ published < MaxEvents /\ published' = published + 1
      /\ chans' = [s \in Streams |-> IF s \in subs /\ ~busClosed /\ ~Full(s)
                                     THEN [chans[s] EXCEPT !.queue = Append(@, published')] ELSE chans[s]]
      /\ subs' = IF busClosed THEN subs ELSE {s \in subs : ~Full(s)}
      /\ UNCHANGED <<streams, busClosed>>
  BY DEF MemPublish
<1>2. BusTyped /\ (\A s \in Streams : InOrder(s)) /\ (busClosed => subs = {})
  BY DEF BusInv
<1>3. published \in Nat /\ published' \in 1 .. MaxEvents
  BY <1>1, <1>2, BusNumbers DEF BusTyped
<1>4. ASSUME NEW s \in Streams, s \in subs, ~busClosed, ~Full(s)
      PROVE  chans'[s] \in Channel /\ InOrder(s)'
  <2> DEFINE q == chans[s].queue
             n == Len(chans[s].queue)
  <2>1. chans[s] \in Channel /\ q \in Seq(1 .. MaxEvents) /\ streams[s].last \in Nat
    BY <1>2 DEF BusTyped, Channel, Stream
  <2>2. chans'[s] = [chans[s] EXCEPT !.queue = Append(q, published')]
    BY <1>1, <1>4
  <2>3. /\ Append(q, published') \in Seq(1 .. MaxEvents) /\ Len(Append(q, published')) = n + 1
        /\ \A i \in 1 .. n : Append(q, published')[i] = q[i]
        /\ Append(q, published')[n + 1] = published'
    BY <1>3, <2>1, AppendProperties
  <2>4. chans'[s].queue = Append(q, published') /\ chans'[s] \in Channel
    BY <2>1, <2>2, <2>3 DEF Channel
  <2>5. n \in Nat /\ n < Buffer
    BY <1>2, <1>4, <2>1, LenProperties, BusNumbers DEF InOrder, Full
  <2>6. /\ \A i \in 1 .. n : q[i] = streams[s].last + i
        /\ streams[s].last + n = published /\ streams[s].pc # "off"
    BY <1>2, <1>4 DEF InOrder
  <2>7. Len(chans'[s].queue) = n + 1
    BY <2>3, <2>4
  <2>8. \A i \in 1 .. n + 1 : chans'[s].queue[i] = streams'[s].last + i
    <3> SUFFICES ASSUME NEW i \in 1 .. n + 1
                 PROVE  Append(q, published')[i] = streams[s].last + i
      BY <1>1, <2>4
    <3>1. CASE i = n + 1
      BY <1>1, <1>3, <2>1, <2>3, <2>5, <2>6, <3>1
    <3>2. CASE i \in 1 .. n
      BY <2>3, <2>6, <3>2
    <3> QED
      BY <2>5, <3>1, <3>2
  <2>9. streams'[s].last + (n + 1) = published'
    <3> DEFINE l == streams[s].last
    <3>1. streams'[s].last = l /\ published' = published + 1 /\ l \in Nat /\ n \in Nat /\ l + n = published
      BY <1>1, <2>1, <2>5, <2>6
    <3> HIDE DEF l, n
    <3> QED
      BY <3>1
  <2>10. n + 1 <= Buffer
    BY <2>5, BusNumbers
  <2>11. streams'[s].pc # "off" /\ published' <= published'
    BY <1>1, <1>3, <2>6
  <2> HIDE DEF n, q
  <2>12. InOrder(s)'
    BY <2>7, <2>8, <2>9, <2>10, <2>11 DEF InOrder
  <2> QED
    BY <2>4, <2>12
<1>5. ASSUME NEW s \in Streams, ~(s \in subs /\ ~busClosed /\ ~Full(s))
      PROVE  chans'[s] \in Channel /\ InOrder(s)'
  <2>1. chans'[s] = chans[s] /\ chans[s] \in Channel /\ streams[s].last \in Nat
    BY <1>1, <1>2, <1>5 DEF BusTyped, Stream
  <2>2. s \notin subs'
    BY <1>1, <1>2, <1>5
  <2>3. Len(chans[s].queue) \in Nat
    BY <2>1, LenProperties DEF Channel
  <2>4. streams[s].last + Len(chans[s].queue) <= published'
    BY <1>1, <1>2, <1>3, <2>1, <2>3 DEF InOrder
  <2> QED
    BY <1>1, <1>2, <2>1, <2>2, <2>4 DEF InOrder
<1>6. BusTyped'
  <2>1. \A s \in Streams : chans'[s] \in Channel
    BY <1>4, <1>5
  <2>2. chans' \in [Streams -> Channel]
    BY <1>1, <2>1
  <2>3. subs' \subseteq Streams /\ streams' \in [Streams -> Stream]
    BY <1>1, <1>2 DEF BusTyped
  <2> QED
    BY <1>3, <2>2, <2>3 DEF BusTyped
<1> QED
  BY <1>1, <1>2, <1>4, <1>5, <1>6 DEF BusInv

\* What one stream does to itself and its channel.
LEMMA StreamKeeps ==
    ASSUME BusInv, NEW s \in Streams, NEW c \in Channel, NEW st \in Stream,
           chans' = [chans EXCEPT ![s] = c], streams' = [streams EXCEPT ![s] = st],
           subs' \in {subs, subs \cup {s}, subs \ {s}}, UNCHANGED <<published, busClosed>>,
           s \in subs' => ~busClosed \/ s \in subs, InOrder(s)'
    PROVE  BusInv'
<1>1. BusTyped /\ (\A x \in Streams : InOrder(x)) /\ (busClosed => subs = {})
  BY DEF BusInv
<1>2. BusTyped'
  BY <1>1 DEF BusTyped
<1>3. ASSUME NEW x \in Streams, x # s PROVE InOrder(x)'
  <2>1. chans'[x] = chans[x] /\ streams'[x] = streams[x] /\ (x \in subs' <=> x \in subs)
    BY <1>1, <1>3 DEF BusTyped
  <2>2. x \in subs => streams[x].pc # "off"
    BY <1>1 DEF InOrder
  <2> QED
    BY <1>1, <2>1, <2>2, SameOrder
<1>4. busClosed' => subs' = {}
  BY <1>1
<1> QED
  BY <1>2, <1>3, <1>4 DEF BusInv

LEMMA CancelKeeps ==
    ASSUME BusInv, NEW s \in Streams, Cancel(s), UNCHANGED <<published, busClosed>>
    PROVE  BusInv'
<1>1. EmptyChan \in Channel /\ NoStream \in Stream
  BY NothingYet
<1>2. /\ chans' = [chans EXCEPT ![s] = EmptyChan] /\ streams' = [streams EXCEPT ![s] = NoStream]
      /\ subs' = subs \ {s}
  BY DEF Cancel
<1>3. chans'[s].queue = <<>> /\ streams'[s].last = 0 /\ published \in Nat /\ published' = published
  BY <1>2, BusNumbers DEF BusInv, BusTyped, EmptyChan, NoStream
<1>4. InOrder(s)'
  BY <1>2, <1>3, FreshOrder
<1> QED
  BY <1>1, <1>2, <1>4, StreamKeeps

\* The stream writes what is first in its channel.
LEMMA WriteEventKeeps == ASSUME BusInv, NEW s \in Streams, WriteEvent(s) PROVE BusInv'
<1> DEFINE q == chans[s].queue
           c == [chans[s] EXCEPT !.queue = Tail(q)]
           st == [streams[s] EXCEPT !.last = Head(q)]
<1>1. /\ q # <<>> /\ streams[s].pc = "on" /\ UNCHANGED <<published, subs, busClosed>>
      /\ chans' = [chans EXCEPT ![s] = c] /\ streams' = [streams EXCEPT ![s] = st]
  BY DEF WriteEvent, BusInv, BusTyped
<1>2. chans[s] \in Channel /\ streams[s] \in Stream /\ InOrder(s)
  BY DEF BusInv, BusTyped
<1>3. q \in Seq(1 .. MaxEvents) /\ streams[s].last \in Nat
  BY <1>2 DEF Channel, Stream
<1>4. /\ Head(q) \in 1 .. MaxEvents /\ Tail(q) \in Seq(1 .. MaxEvents)
      /\ Len(q) \in Nat /\ Len(q) >= 1 /\ Len(Tail(q)) = Len(q) - 1
      /\ \A i \in 1 .. Len(Tail(q)) : Tail(q)[i] = q[i + 1]
      /\ Head(q) = q[1]
  <2>1. q # <<>> /\ q \in Seq(1 .. MaxEvents)
    BY <1>1, <1>3
  <2> HIDE DEF q
  <2>2. /\ Head(q) \in 1 .. MaxEvents /\ Tail(q) \in Seq(1 .. MaxEvents) /\ Len(Tail(q)) = Len(q) - 1
        /\ \A i \in 1 .. Len(Tail(q)) : Tail(q)[i] = q[i + 1]
    BY <2>1, HeadTailProperties
  <2>3. Len(q) \in Nat /\ Len(q) # 0
    BY <2>1, LenProperties, EmptySeq
  <2>4. Head(q) = q[1]
    BY <2>1
  <2> QED
    BY <2>2, <2>3, <2>4
<1>5. c \in Channel /\ st \in Stream
  <2>1. c \in Channel
    BY <1>2, <1>4 DEF Channel
  <2>2. Head(q) \in 0 .. MaxEvents
    BY <1>4, BusNumbers
  <2> HIDE DEF q
  <2> QED
    BY <1>2, <2>1, <2>2 DEF Stream
<1>6. c.queue = Tail(q) /\ st.last = Head(q) /\ st.pc = "on"
  BY <1>1, <1>2 DEF Channel, Stream
<1>7. chans'[s] = c /\ streams'[s] = st
  BY <1>1 DEF BusInv, BusTyped
<1> HIDE DEF c, st, q
<1>8. /\ Len(q) <= Buffer /\ \A i \in 1 .. Len(q) : q[i] = streams[s].last + i
      /\ streams[s].last + Len(q) <= published
      /\ s \in subs => streams[s].last + Len(q) = published
  BY <1>2 DEF InOrder, q
<1>9. Head(q) = streams[s].last + 1
  BY <1>4, <1>8
<1>10. published \in Nat
  BY BusNumbers DEF BusInv, BusTyped
<1>11. \A i \in 1 .. Len(Tail(q)) : Tail(q)[i] = Head(q) + i
  <2> SUFFICES ASSUME NEW i \in 1 .. Len(Tail(q)) PROVE Tail(q)[i] = Head(q) + i
    OBVIOUS
  <2>1. i + 1 \in 1 .. Len(q)
    BY <1>4
  <2>2. q[i + 1] = streams[s].last + (i + 1)
    BY <1>8, <2>1
  <2> QED
    BY <1>3, <1>4, <1>9, <2>2
<1>12. Head(q) + Len(Tail(q)) = streams[s].last + Len(q) /\ Len(Tail(q)) <= Buffer
  BY <1>3, <1>4, <1>8, <1>9, BusNumbers
<1>13. InOrder(s)'
  BY <1>1, <1>6, <1>7, <1>8, <1>11, <1>12 DEF InOrder
<1> QED
  BY <1>1, <1>5, <1>13, StreamKeeps

\* Every other step of a stream.
LEMMA StreamStepKeeps ==
    ASSUME BusInv, NEW s \in Streams, StreamStep(s) \/ WriteHello(s)
    PROVE  BusInv'
<1>1. /\ BusTyped /\ InOrder(s) /\ (busClosed => subs = {})
      /\ chans[s] \in Channel /\ streams[s] \in Stream
  BY DEF BusInv, BusTyped
<1>2. CASE CloseChan(s)
  <2> DEFINE c == [chans[s] EXCEPT !.closed = TRUE]
  <2>1. /\ c \in Channel /\ c.queue = chans[s].queue
        /\ chans' = [chans EXCEPT ![s] = c] /\ UNCHANGED <<published, subs, streams, busClosed>>
    BY <1>1, <1>2 DEF CloseChan, Channel, BusTyped
  <2> HIDE DEF c
  <2>2. chans'[s].queue = chans[s].queue /\ streams' = [streams EXCEPT ![s] = streams[s]]
    BY <1>1, <2>1 DEF BusTyped
  <2>3. InOrder(s)'
    BY <1>1, <2>1, <2>2 DEF InOrder
  <2> QED
    BY <1>1, <2>1, <2>2, <2>3, StreamKeeps
<1>3. CASE Subscribe(s)
  <2> DEFINE st == [NoStream EXCEPT !.pc = "hello", !.last = published]
  <2>1. /\ chans' = [chans EXCEPT ![s] = EmptyChan] /\ streams' = [streams EXCEPT ![s] = st]
        /\ subs' = subs \cup {s} /\ ~busClosed /\ UNCHANGED <<published, busClosed>>
    BY <1>3 DEF Subscribe
  <2>2. EmptyChan \in Channel
    BY NothingYet
  <2>3. st \in Stream /\ st.last = published /\ st.pc = "hello"
    <3>1. NoStream \in Stream
      BY NothingYet
    <3>2. published \in 0 .. MaxEvents
      BY <1>1 DEF BusTyped
    <3> QED
      BY <3>1, <3>2 DEF Stream
  <2> HIDE DEF st
  <2>4. chans'[s].queue = <<>> /\ streams'[s] = st
    BY <1>1, <2>1 DEF BusTyped, EmptyChan
  <2>5. streams'[s].last = published' /\ streams'[s].last \in Nat /\ streams'[s].pc # "off"
    BY <1>1, <2>1, <2>3, <2>4, BusNumbers DEF BusTyped
  <2>6. InOrder(s)'
    BY <2>4, <2>5, FreshOrder
  <2> QED
    BY <2>1, <2>2, <2>3, <2>6, StreamKeeps
<1>4. CASE StreamCloses(s) \/ StreamCanceled(s)
  BY <1>4, CancelKeeps DEF StreamCloses, StreamCanceled
<1>5. ASSUME NEW st \in Stream, st.last = streams[s].last, st.pc # "off",
             streams' = [streams EXCEPT ![s] = st], UNCHANGED <<published, subs, chans, busClosed>>
      PROVE  BusInv'
  <2>1. chans' = [chans EXCEPT ![s] = chans[s]] /\ streams'[s] = st
    BY <1>1, <1>5 DEF BusTyped
  <2>2. InOrder(s)'
    BY <1>1, <1>5, <2>1 DEF InOrder
  <2> QED
    BY <1>1, <1>5, <2>1, <2>2, StreamKeeps
<1>6. CASE Ping(s)
  <2> DEFINE n == (streams[s].ticks + 1) % SessionCheckStep
             st == [streams[s] EXCEPT !.ticks = n]
  <2>1. n \in 0 .. SessionCheckStep - 1
    BY <1>1, BusNumbers DEF Stream
  <2>2. UNCHANGED <<published, busClosed>> /\ streams[s].pc = "on"
    BY <1>6 DEF Ping
  <2>3. CASE Cancel(s)
    BY <2>2, <2>3, CancelKeeps
  <2>4. CASE streams' = [streams EXCEPT ![s].ticks = n] /\ UNCHANGED <<subs, chans>>
    <3>1. st \in Stream /\ st.last = streams[s].last /\ st.pc # "off"
      BY <1>1, <2>1, <2>2 DEF Stream
    <3>2. streams' = [streams EXCEPT ![s] = st]
      BY <1>1, <2>4 DEF BusTyped
    <3> QED
      BY <1>5, <2>2, <2>4, <3>1, <3>2
  <2> QED
    BY <1>6, <2>3, <2>4 DEF Ping
<1>7. CASE SessionEnds(s) \/ SessionBegins(s)
  <2>1. UNCHANGED <<published, subs, chans, streams, busClosed>>
    BY <1>7 DEF SessionEnds, SessionBegins
  <2> QED
    BY <2>1 DEF BusInv, BusTyped, InOrder
<1>8. CASE WriteHello(s)
  <2> DEFINE st == [streams[s] EXCEPT !.pc = "on"]
  <2>1. st \in Stream /\ st.last = streams[s].last /\ st.pc # "off"
    BY <1>1 DEF Stream
  <2>2. streams' = [streams EXCEPT ![s] = st] /\ UNCHANGED <<published, subs, chans, busClosed>>
    BY <1>1, <1>8 DEF WriteHello, BusTyped
  <2> QED
    BY <1>5, <2>1, <2>2
<1> QED
  BY <1>2, <1>3, <1>4, <1>6, <1>7, <1>8 DEF StreamStep

LEMMA FeedStep == BusInv /\ [FeedNext]_feedVars => BusInv'
<1> SUFFICES ASSUME BusInv, [FeedNext]_feedVars PROVE BusInv'
  OBVIOUS
<1>1. ASSUME UNCHANGED busVars PROVE BusInv'
  BY <1>1 DEF busVars, BusInv, BusTyped, InOrder
<1>2. CASE UNCHANGED feedVars
  BY <1>1, <1>2 DEF feedVars
<1>3. ASSUME NEW h \in Handlers, SetProxy(h) \/ SetProxyAuth(h) \/ ReadProxy(h) \/ PublishProxyPatch(h)
      PROVE  BusInv'
  BY <1>1, <1>3, PublishKeeps DEF SetProxy, SetProxyAuth, ReadProxy, PublishProxyPatch
<1>4. ASSUME NEW s \in Streams, Hello(s) \/ ApplyProxyPatch(s) \/ ServesFetch(s) \/ Fetched(s)
      PROVE  BusInv'
  BY <1>1, <1>4, StreamStepKeeps, WriteEventKeeps DEF Hello, ApplyProxyPatch, ServesFetch, Fetched
<1>5. CASE BusCloses
  <2>1. busClosed' = TRUE /\ subs' = {} /\ UNCHANGED <<published, chans, streams>>
    BY <1>5 DEF BusCloses
  <2> QED
    BY <2>1 DEF BusInv, BusTyped, InOrder
<1>6. ASSUME NEW s \in Streams, StreamStep(s) PROVE BusInv'
  BY <1>6, StreamStepKeeps
<1> QED
  BY <1>2, <1>3, <1>4, <1>5, <1>6 DEF FeedNext

\* No stream ever misses an event it does not know it has missed: what it has
\* written and what is in its channel has no gap, and a subscriber has it all,
\* for any number of streams and any buffer (MemBus.Publish, docs/EVENTS.md).
THEOREM NoGapHolds == FeedSpec => []NoGap
<1>1. BusInv => NoGap
  <2> SUFFICES ASSUME BusInv, NEW s \in Streams
               PROVE  /\ chans[s].queue = Numbers(streams[s].last, streams[s].last + Len(chans[s].queue))
                      /\ s \in subs => streams[s].last + Len(chans[s].queue) = published
    BY DEF NoGap
  <2> DEFINE q == chans[s].queue
             l == streams[s].last
             n == Len(q)
  <2>1. q \in Seq(1 .. MaxEvents) /\ l \in Nat
    BY BusNumbers DEF BusInv, BusTyped, Channel, Stream
  <2>2. n \in Nat /\ DOMAIN q = 1 .. n
    BY <2>1, LenProperties
  <2>3. (\A i \in 1 .. n : q[i] = l + i) /\ (s \in subs => l + n = published)
    BY DEF BusInv, InOrder
  <2>4. q = [i \in 1 .. n |-> q[i]]
    BY <2>1, <2>2
  <2> HIDE DEF q, l, n
  <2>5. (l + n) - l = n
    BY <2>1, <2>2
  <2>6. q = Numbers(l, l + n)
    BY <2>3, <2>4, <2>5 DEF Numbers
  <2> QED
    BY <2>3, <2>6 DEF q, l, n
<1>2. FeedInit => BusInv
  BY BusStart DEF FeedInit
<1>3. BusInv /\ [FeedNext]_feedVars => BusInv'
  BY FeedStep
<1> QED
  BY <1>1, <1>2, <1>3, PTL DEF FeedSpec
-----------------------------------------------------------------------------
(* The recovery of a dongle.  What makes RebootsTheSilent hold: the times  *)
(* the poller keeps tell how long the dongle has been silent, and a reboot *)
(* waits in the plan only while they tell that it has been so too long.    *)

Readings == [seen: BOOLEAN, reachable: BOOLEAN, connected: BOOLEAN, locked: BOOLEAN,
             observedAt: Ages(After), failingSince: Ages(After)]

RecTyped ==
    /\ device \in [state: {"dead", "dropped", "connected"}, locked: BOOLEAN]
    /\ obs \in Readings /\ quiet \in Ages(After)
    /\ planned \in {"nothing", "reboot", "rotate"}

\* The moment the poller counts the silence from.
SilentSince(o) == IF o.observedAt = Never THEN o.failingSince ELSE o.observedAt

RecoveryInv ==
    /\ RecTyped
    /\ quiet = SilentSince(obs)
    /\ planned = "reboot" => ~obs.reachable /\ SilentTooLong(obs)

LEMMA OlderIs ==
    /\ Never \in Ages(After) /\ 0 \in Ages(After) /\ Never # 0 /\ Never # After /\ After \in Nat
    /\ \A a \in Ages(After) : /\ Older(a, After) \in Ages(After)
                              /\ Older(a, After) = Never <=> a = Never
                              /\ a = After => Older(a, After) = After
  BY RecoveryAssumption DEF Ages, Older, Never

LEMMA RecoveryInit == RecInit => RecoveryInv
<1> SUFFICES ASSUME RecInit PROVE RecoveryInv
  OBVIOUS
<1>1. obs = Unseen /\ Unseen \in Readings /\ SilentSince(obs) = Never
  BY OlderIs DEF RecInit, Unseen, Readings, SilentSince
<1> QED
  BY <1>1, OlderIs DEF RecInit, RecoveryInv, RecTyped

\* A reading and the age of the silence that stay in step.
LEMMA ReadingKeeps ==
    ASSUME RecoveryInv, NEW o \in Readings, obs' = o, quiet' = SilentSince(o),
           planned' \in {"nothing", "reboot", "rotate"},
           planned' = "reboot" => ~o.reachable /\ SilentTooLong(o),
           device' \in [state: {"dead", "dropped", "connected"}, locked: BOOLEAN]
    PROVE  RecoveryInv'
<1>1. SilentSince(o) \in Ages(After)
  BY DEF SilentSince, Readings
<1>2. SilentSince(obs)' = SilentSince(o) /\ (SilentTooLong(obs)' <=> SilentTooLong(o))
  BY DEF SilentSince, SilentTooLong
<1> QED
  BY <1>1, <1>2 DEF RecoveryInv, RecTyped

\* What a poll reads, answered or not, is in step with the age of the silence.
LEMMA PollReads ==
    ASSUME RecoveryInv, PollDevice
    PROVE  obs' \in Readings /\ quiet' = SilentSince(obs')
<1> USE DEF RecoveryInv, RecTyped
<1>1. ASSUME NEW r \in BOOLEAN, obs' = Observed(nth = 0, r), quiet' = 0
      PROVE  obs' \in Readings /\ quiet' = SilentSince(obs')
  BY <1>1, OlderIs DEF Observed, Readings, SilentSince
<1>2. ASSUME obs' = Unanswered, quiet' = IF quiet = Never THEN 0 ELSE quiet
      PROVE  obs' \in Readings /\ quiet' = SilentSince(obs')
  BY <1>2, OlderIs DEF Unanswered, Readings, SilentSince
<1> QED
  BY <1>1, <1>2 DEF PollDevice

LEMMA RecoveryStep == RecoveryInv /\ [RecNext]_recVars => RecoveryInv'
<1> SUFFICES ASSUME RecoveryInv, [RecNext]_recVars PROVE RecoveryInv'
  OBVIOUS
<1>1. /\ RecTyped /\ quiet = SilentSince(obs)
      /\ planned = "reboot" => ~obs.reachable /\ SilentTooLong(obs)
  BY DEF RecoveryInv
<1>2. ASSUME UNCHANGED <<device, obs, quiet>>, planned' \in {planned, "nothing"} PROVE RecoveryInv'
  BY <1>1, <1>2, ReadingKeeps DEF RecTyped
<1>3. CASE UNCHANGED recVars
  BY <1>2, <1>3 DEF recVars
<1>4. CASE RecLoad \/ RebootDongle \/ RecoverRotate \/ RecRests
  BY <1>2, <1>4 DEF RecLoad, RebootDongle, RecoverRotate, RecRests, Apply, poller
<1>5. CASE RecPoll
  <2>1. obs' \in Readings /\ quiet' = SilentSince(obs')
    BY <1>5, PollReads DEF RecPoll
  <2>2. /\ planned' \in {"nothing", "reboot", "rotate"}
        /\ planned' = "reboot" => ~obs'.reachable /\ SilentTooLong(obs')
    BY <1>5 DEF RecPoll, PlanOf, PlanRecovery
  <2> QED
    BY <1>1, <1>5, <2>1, <2>2, ReadingKeeps DEF RecPoll, RecTyped
<1>6. CASE Tick
  <2>1. obs' = [obs EXCEPT !.observedAt = Older(@, After), !.failingSince = Older(@, After)]
    BY <1>6 DEF Tick
  <2>2. obs.observedAt \in Ages(After) /\ obs.failingSince \in Ages(After)
    BY <1>1 DEF RecTyped, Readings
  <2>3. /\ obs' \in Readings /\ obs'.reachable = obs.reachable
        /\ obs'.observedAt = Older(obs.observedAt, After)
        /\ obs'.failingSince = Older(obs.failingSince, After)
    BY <1>1, <2>1, <2>2, OlderIs DEF RecTyped, Readings
  <2>4. SilentSince(obs') = Older(SilentSince(obs), After)
    BY <2>2, <2>3, OlderIs DEF SilentSince
  <2>5. SilentTooLong(obs) => SilentTooLong(obs')
    BY <2>2, <2>3, OlderIs DEF SilentTooLong
  <2> QED
    BY <1>1, <1>6, <2>3, <2>4, <2>5, ReadingKeeps DEF Tick, RecTyped
<1>7. CASE Midnight \/ AdminReboots \/ SomebodyRotates
  BY <1>2, <1>7 DEF Midnight, AdminReboots, SomebodyRotates, poller
<1>8. CASE OpEnds \/ DongleChanges
  <2>1. device' \in [state: {"dead", "dropped", "connected"}, locked: BOOLEAN]
    BY <1>1, <1>8 DEF OpEnds, DongleChanges, RecTyped
  <2>2. UNCHANGED <<obs, quiet, planned>>
    BY <1>8 DEF OpEnds, DongleChanges, poller
  <2> QED
    BY <1>1, <2>1, <2>2, ReadingKeeps DEF RecTyped
<1>9. CASE RecRestart
  <2>1. /\ obs' = Unseen /\ planned' = "nothing" /\ quiet' = Never /\ device' = device
        /\ Unseen \in Readings /\ SilentSince(Unseen) = Never
    BY <1>9, OlderIs DEF RecRestart, Fresh, Unseen, Readings, SilentSince
  <2> QED
    BY <1>1, <2>1, ReadingKeeps DEF RecTyped
<1> QED
  BY <1>3, <1>4, <1>5, <1>6, <1>7, <1>8, <1>9 DEF RecNext, RecSweep

\* The engine reboots only a dongle that did not answer last time and has been
\* silent for the whole threshold, for any threshold, budget, interval and
\* backoff (planRecovery, rebootDongle).
THEOREM RebootsTheSilentHolds == RecSpec => RebootsTheSilent
<1>1. RecoveryInv /\ [RecNext]_recVars =>
        [RebootDongle /\ live' # live => ~obs.reachable /\ quiet = After]_recVars
  <2> SUFFICES ASSUME RecoveryInv, RebootDongle PROVE ~obs.reachable /\ quiet = After
    OBVIOUS
  <2>1. ~obs.reachable /\ SilentTooLong(obs)
    BY DEF RebootDongle, Apply, RecoveryInv
  <2> QED
    BY <2>1 DEF RecoveryInv, SilentTooLong, SilentSince
<1> QED
  BY <1>1, RecoveryInit, RecoveryStep, PTL DEF RecSpec, RebootsTheSilent
==============================================================================
