------------------------------ MODULE SlotPlan ------------------------------
(***************************************************************************)
(* What a slot owns on the host (internal/domain slot.go, internal/config  *)
(* ports.go and paths.go, internal/netcfg netcfg.go): its user, its route  *)
(* table and rules, its subnet and its ports, all counted from the number  *)
(* of the slot.  The constants are the program's.                          *)
(***************************************************************************)
EXTENDS Integers

MaxSlots == 150
SubnetOctetBase == 100
RouteTableBase == 1000
RulePrioPublic == 900
RulePrioSrc == 1000
RulePrioUID == 1500
ForeignRuleCeil == 5210
UIDBase == 6100
GroupGID == 6100

PanelPort == 8788
MetricsPort == 9788
ProxyValidatePort == 20999
SocksPortBase == 21000
HTTPPortBase == 22000
ProxyPortLo == 21000
ProxyPortHi == 22999
EphemeralPortMin == 32768

Slots == 1 .. MaxSlots
Valid(n) == n >= 1 /\ n <= MaxSlots

UID(s) == UIDBase + s
SlotFromUID(uid) == IF Valid(uid - UIDBase) THEN uid - UIDBase ELSE 0
RouteTable(s) == RouteTableBase + s
RulePrioSrcOf(s) == RulePrioSrc + s
RulePrioUIDOf(s) == RulePrioUID + s
SocksPort(s) == SocksPortBase + s
HTTPPort(s) == HTTPPortBase + s

\* Slot.addr: the third octet of the subnet of the slot, which is a byte.
SubnetOctet(s) == (SubnetOctetBase + s) % 256

IsOurRulePriority(prio) ==
    prio = RulePrioPublic \/ \E s \in Slots : prio \in {RulePrioSrcOf(s), RulePrioUIDOf(s)}

\* What PreflightPorts asks for besides the ports of the slots.
ReservedPorts == {PanelPort, MetricsPort, ProxyValidatePort}
IsPreflightPort(p) == p \in ReservedPorts \/ \E s \in Slots : p \in {SocksPort(s), HTTPPort(s)}
-----------------------------------------------------------------------------
(* What the plan has to be: TestSlotAllocatorIsInjective and               *)
(* TestSlotRulePrioritiesStayBelowForeignRules state the same of each slot. *)

\* No two slots share anything, and a port is the port of one slot only.
SlotsShareNothing ==
    \A s, t \in Slots :
        /\ s # t => /\ UID(s) # UID(t) /\ RouteTable(s) # RouteTable(t) /\ SubnetOctet(s) # SubnetOctet(t)
                    /\ SocksPort(s) # SocksPort(t) /\ HTTPPort(s) # HTTPPort(t)
        /\ SocksPort(s) # HTTPPort(t)
        /\ {SocksPort(s), HTTPPort(t)} \cap ReservedPorts = {}
        /\ SlotFromUID(UID(s)) = s /\ UID(s) # GroupGID

\* The kernel asks the rule of the public address first, then every source
\* rule, then every user rule, and all of them before the rules of others.
RulesAreOrdered ==
    \A s, t \in Slots :
        /\ RulePrioPublic < RulePrioSrcOf(s) /\ RulePrioSrcOf(s) < RulePrioUIDOf(t)
        /\ RulePrioUIDOf(t) < ForeignRuleCeil

\* The ports are those the firewall knows, and no client's.
PortsAreKnown ==
    \A s \in Slots : \A p \in {SocksPort(s), HTTPPort(s)} :
        ProxyPortLo <= p /\ p <= ProxyPortHi /\ p < EphemeralPortMin
=============================================================================
