---------------------------- MODULE Enrol_proofs ----------------------------
(***************************************************************************)
(* Proofs about the enroll command beside the daemon: whatever fails and   *)
(* whatever the daemon does meanwhile, a failed enrolment has put back the *)
(* rows and the ports but for those whose own undo failed, and one that    *)
(* reports success has everything.                                         *)
(***************************************************************************)
EXTENDS MCEnrol, FiniteSetTheorems, SequenceTheorems, TLAPS

-----------------------------------------------------------------------------
(* The managers.  What one step of a manager may do is said once, in       *)
(* Advance, and the rest of the module knows the manager by it.            *)

Manager == [pc: ManagerPcs, ready: BOOLEAN, left: 0 .. 2, fresh: SUBSET {"net", "link"},
            res: {"none", "ok", "error"}]

GlobalPcs == {"read_rules", "del", "add"}
SlotPcs   == {"write_net", "write_link", "link_down", "udev", "reload"}
RemovePcs == {"unlink", "unreload", "unrule", "flush", "del_iface", "del_gateway"}
AddPcs    == {"add_iface", "add_gateway"}
Removal   == {"del", "add"}     \* our rule may be down meanwhile

\* A rule is left to delete while the manager deletes; a slot is written by a
\* manager that has seen the public rule.
ManagerSound(m) == (m.pc = "del" => m.left >= 1) /\ (m.pc \in SlotPcs => m.ready)

\* Only p moves, and to a record of the right type.
OnlyOf(p) ==
    /\ mgr' \in [Procs -> Manager]
    /\ \A q \in Procs : q # p => mgr'[q] = mgr[q]

\* The same record but for where the call is.
Went(p, s) ==
    /\ OnlyOf(p)
    /\ mgr'[p].pc = s /\ mgr'[p].ready = mgr[p].ready /\ mgr'[p].left = mgr[p].left
    /\ mgr'[p].fresh = mgr[p].fresh /\ mgr'[p].res = mgr[p].res

\* The call is over.
Ended(p, r) == OnlyOf(p) /\ mgr'[p].pc = "idle" /\ mgr'[p].ready = mgr[p].ready /\ mgr'[p].res = r

\* A record of the right type in the place of p.
LEMMA ReplaceIs ==
    ASSUME mgr \in [Procs -> Manager], NEW p \in Procs, NEW m \in Manager, mgr' = [mgr EXCEPT ![p] = m]
    PROVE  OnlyOf(p) /\ mgr'[p] = m
  BY DEF OnlyOf

\* GoOn goes on.
LEMMA GoOnIs ==
    ASSUME mgr \in [Procs -> Manager], NEW p \in Procs, NEW s \in ManagerPcs, GoOn(p, s)
    PROVE  Went(p, s)
<1> DEFINE m == [mgr[p] EXCEPT !.pc = s]
<1>1. m \in Manager
  BY DEF Manager
<1>2. m.pc = s /\ m.ready = mgr[p].ready /\ m.left = mgr[p].left /\ m.fresh = mgr[p].fresh /\ m.res = mgr[p].res
  BY DEF Manager
<1>3. mgr' = [mgr EXCEPT ![p] = m]
  BY DEF GoOn
<1> HIDE DEF m
<1>4. OnlyOf(p) /\ mgr'[p] = m
  BY <1>1, <1>3, ReplaceIs
<1> QED BY <1>2, <1>4 DEF Went

\* End ends.
LEMMA EndIs ==
    ASSUME mgr \in [Procs -> Manager], NEW p \in Procs, NEW r \in {"ok", "error"}, End(p, r)
    PROVE  Ended(p, r)
<1> DEFINE m == [IdleManager EXCEPT !.ready = mgr[p].ready, !.res = r]
<1>0. 0 \in 0 .. 2
  OBVIOUS
<1>1. m \in Manager /\ m.pc = "idle" /\ m.ready = mgr[p].ready /\ m.res = r
  BY <1>0 DEF Manager, IdleManager, ManagerPcs
<1>3. mgr' = [mgr EXCEPT ![p] = m]
  BY DEF End
<1> HIDE DEF m
<1>4. OnlyOf(p) /\ mgr'[p] = m
  BY <1>1, <1>3, ReplaceIs
<1> QED BY <1>1, <1>4 DEF Ended

Host ==
    /\ public \subseteq {"ours", "stale"} /\ names \in BOOLEAN /\ loaded \in BOOLEAN /\ hostCalm \in BOOLEAN
    /\ files \subseteq {"net", "link"} /\ link \in {"gone", "raw", "dg"}
    /\ plumb \subseteq Plumbing /\ sets \subseteq Ruleset /\ ("table" \notin sets => sets = {})
HostSound == /\ Host /\ mgr \in [Procs -> Manager]
             /\ \A p \in Procs : ManagerSound(mgr[p])

\* A manager goes from one step of its call to the next, or ends it.
NextPcs(pc) ==
    IF pc \in GlobalPcs THEN GlobalPcs
    ELSE IF pc \in SlotPcs THEN (SlotPcs \ {"write_net"}) \cup {"read_rules"}
    ELSE IF pc \in AddPcs THEN {"add_gateway"}
    ELSE RemovePcs

\* The files of a slot are written one after the other, and so are its elements.
Writes(p) ==
    /\ mgr[p].pc = "write_net" => \/ mgr'[p].pc = "write_link" /\ "net" \in files'
                                  \/ mgr'[p].pc = "idle" /\ mgr'[p].res = "error"
    /\ mgr[p].pc = "write_link" => \/ mgr'[p].pc = "link_down" /\ "link" \in files'
                                   \/ mgr'[p].pc = "idle" /\ mgr'[p].res = "error"
    /\ mgr[p].pc \in {"link_down", "udev", "reload"} => mgr'[p].pc \notin {"write_net", "write_link"}
    /\ mgr[p].pc = "add_iface" => \/ mgr'[p].pc = "add_gateway" /\ "iface" \in sets'
                                  \/ mgr'[p].pc = "idle" /\ mgr'[p].res = "error"
    /\ mgr[p].pc = "add_gateway" => /\ mgr'[p].pc = "idle"
                                    /\ mgr'[p].res = "error" \/ {"table", "gateway"} \subseteq sets'

\* Who may take what away.
Keeps(p) ==
    /\ mgr[p].pc \notin RemovePcs => files \subseteq files' /\ sets \subseteq sets'
    /\ mgr[p].pc \notin SlotPcs \cup RemovePcs => plumb' = plumb /\ link' = link
    /\ "ours" \in public /\ "ours" \notin public' => mgr'[p].pc \in Removal
    /\ mgr[p].pc \in Removal => mgr'[p].pc \in Removal \/ "ours" \in public' \/ "exec" \in HostFaults
    /\ mgr'[p].ready => mgr[p].ready \/ "ours" \in public'

\* What a step of the manager of p may do.
Advance(p) ==
    /\ Host' /\ OnlyOf(p) /\ ManagerSound(mgr'[p])
    /\ mgr[p].pc # "idle" /\ mgr'[p].pc \in NextPcs(mgr[p].pc) \cup {"idle"}
    /\ Writes(p) /\ Keeps(p)

\* An error ends the call with nothing changed.
LEMMA ErrorIs ==
    ASSUME HostSound, NEW p \in Procs, NEW f, OrFails(p, f)
    PROVE  Ended(p, "error") /\ UNCHANGED host /\ f \in HostFaults /\ hostCalm' = hostCalm
  BY EndIs DEF HostSound, OrFails, End, Fails

\* So an error is a step a manager may do.
LEMMA ErrorAdvances ==
    ASSUME HostSound, NEW p \in Procs, NEW f, OrFails(p, f), mgr[p].pc # "idle",
           mgr[p].pc \in Removal => f = "exec"
    PROVE  Advance(p)
<1>1. Ended(p, "error") /\ UNCHANGED host /\ f \in HostFaults /\ hostCalm' = hostCalm
  BY ErrorIs
<1> QED
  BY <1>1 DEF Advance, HostSound, Host, host, Ended, ManagerSound, Writes, Keeps, SlotPcs

\* EnsureGlobal, up to the rules it takes down.
LEMMA ReadRulesAdvances ==
    ASSUME HostSound, NEW p \in Procs, ReadRules(p)
    PROVE  Advance(p)
<1> DEFINE left == IF "stale" \in public THEN Cardinality(public) ELSE 0
           pc == IF "stale" \in public THEN "del" ELSE IF "ours" \in public THEN "idle" ELSE "add"
           m == [mgr[p] EXCEPT !.pc = pc, !.left = left, !.ready = @ \/ public = {"ours"}, !.fresh = {},
                               !.res = IF public = {"ours"} THEN "ok" ELSE @]
<1>1. left \in 0 .. 2 /\ ("stale" \in public => left >= 1)
  <2>1. public \subseteq {"ours", "stale"}
    BY DEF HostSound, Host
  <2>2. IsFiniteSet({"ours", "stale"}) /\ Cardinality({"ours", "stale"}) = 2
    <3>1. IsFiniteSet({"ours"}) /\ Cardinality({"ours"}) = 1
      BY FS_Singleton
    <3>2. {"ours", "stale"} = {"ours"} \cup {"stale"} /\ "stale" \notin {"ours"}
      OBVIOUS
    <3> QED BY <3>1, <3>2, FS_AddElement
  <2>3. IsFiniteSet(public) /\ Cardinality(public) \in Nat /\ Cardinality(public) <= 2
    BY <2>1, <2>2, FS_Subset, FS_CardinalityType
  <2>4. "stale" \in public => Cardinality(public) # 0
    BY <2>3, FS_EmptySet
  <2>5. 0 \in 0 .. 2
    OBVIOUS
  <2> QED BY <2>3, <2>4, <2>5
<1>2. pc \in ManagerPcs
  BY DEF ManagerPcs
<1>3. m \in Manager
  <2> HIDE DEF left, pc
  <2> QED BY <1>1, <1>2 DEF HostSound, Manager
<1>4. /\ m.pc = pc /\ m.left = left /\ m.ready = (mgr[p].ready \/ public = {"ours"})
  <2> HIDE DEF left, pc
  <2> QED BY DEF HostSound, Manager
<1>5. CASE mgr' = [mgr EXCEPT ![p] = m] /\ UNCHANGED <<host, hostCalm>> /\ At(p, "read_rules")
  <2>1. OnlyOf(p) /\ mgr'[p] = m
    <3> HIDE DEF m
    <3> QED BY <1>3, <1>5, ReplaceIs DEF HostSound
  <2>2. ManagerSound(m)
    <3> HIDE DEF m, left
    <3> QED BY <1>1, <1>4 DEF ManagerSound, SlotPcs
  <2>3. Writes(p) /\ Keeps(p)
    <3> HIDE DEF m, left
    <3> QED BY <1>4, <1>5, <2>1 DEF Writes, Keeps, At, host, Removal, SlotPcs, RemovePcs
  <2>4. mgr[p].pc # "idle" /\ mgr'[p].pc \in NextPcs(mgr[p].pc) \cup {"idle"}
    <3> HIDE DEF m, left
    <3> QED BY <1>4, <1>5, <2>1 DEF At, NextPcs, GlobalPcs
  <2>5. Host'
    BY <1>5 DEF HostSound, Host, host
  <2>6. ManagerSound(mgr'[p])
    <3> HIDE DEF m
    <3> QED BY <2>1, <2>2
  <2> HIDE DEF m
  <2> QED BY <2>1, <2>3, <2>4, <2>5, <2>6 DEF Advance
<1>6. CASE OrFails(p, "netlink") /\ At(p, "read_rules")
  BY <1>6, ErrorAdvances DEF At, Removal
<1>7. ASSUME At(p, "read_rules"),
             mgr' = [mgr EXCEPT ![p].pc = pc, ![p].left = left, ![p].ready = @ \/ public = {"ours"},
                                ![p].fresh = {}, ![p].res = IF public = {"ours"} THEN "ok" ELSE @],
             UNCHANGED <<host, hostCalm>>
      PROVE  Advance(p)
  <2>1. mgr' = [mgr EXCEPT ![p] = m]
    <3> HIDE DEF left, pc
    <3> QED BY <1>7 DEF HostSound, Manager
  <2> QED BY <2>1, <1>5, <1>7
<1> QED BY <1>6, <1>7 DEF ReadRules

\* EnsureGlobal, while the rules are taken down and ours is put back.
LEMMA PublicAdvances ==
    ASSUME HostSound, NEW p \in Procs, DeletePublic(p) \/ AddPublic(p)
    PROVE  Advance(p)
<1>1. CASE DeletePublic(p) /\ ~OrFails(p, "exec")
  <2> DEFINE pc == IF mgr[p].left = 1 THEN "add" ELSE "del"
             m == [mgr[p] EXCEPT !.left = @ - 1, !.pc = pc]
  <2>1. mgr[p].left \in 0 .. 2 /\ mgr[p].left >= 1 /\ mgr[p].pc = "del"
    BY <1>1 DEF DeletePublic, At, HostSound, ManagerSound, Manager
  <2>2. pc \in ManagerPcs /\ mgr[p].left - 1 \in 0 .. 2
    BY <2>1 DEF ManagerPcs
  <2>3. m \in Manager
    <3> HIDE DEF pc
    <3> QED BY <2>2 DEF HostSound, Manager
  <2>4. m.pc = pc /\ m.left = mgr[p].left - 1 /\ m.ready = mgr[p].ready
    BY DEF HostSound, Manager
  <2>5. mgr' = [mgr EXCEPT ![p] = m] /\ UNCHANGED <<names, files, loaded, link, plumb, sets, hostCalm>>
    <3> HIDE DEF pc
    <3> QED BY <1>1 DEF DeletePublic, HostSound, Manager, pc
  <2>6. OnlyOf(p) /\ mgr'[p] = m
    <3> HIDE DEF m
    <3> QED BY <2>3, <2>5, ReplaceIs DEF HostSound
  <2>7. public' \subseteq public
    BY <1>1 DEF DeletePublic
  <2>8. ManagerSound(m)
    BY <2>1, <2>4 DEF ManagerSound, SlotPcs
  <2>9. Writes(p) /\ Keeps(p)
    <3> HIDE DEF m
    <3> QED BY <2>1, <2>4, <2>5, <2>6 DEF Writes, Keeps, Removal, SlotPcs, RemovePcs
  <2>10. mgr[p].pc # "idle" /\ mgr'[p].pc \in NextPcs(mgr[p].pc) \cup {"idle"}
    <3> HIDE DEF m
    <3> QED BY <2>1, <2>4, <2>6 DEF NextPcs, GlobalPcs
  <2>11. Host'
    BY <2>5, <2>7 DEF HostSound, Host
  <2>12. ManagerSound(mgr'[p])
    <3> HIDE DEF m
    <3> QED BY <2>6, <2>8
  <2> HIDE DEF m
  <2> QED BY <2>6, <2>9, <2>10, <2>11, <2>12 DEF Advance
<1>2. CASE OrFails(p, "exec") /\ (At(p, "del") \/ At(p, "add"))
  BY <1>2, ErrorAdvances DEF At
<1>3. CASE AddPublic(p) /\ "ours" \notin public /\ ~OrFails(p, "exec")
  <2> DEFINE m == [IdleManager EXCEPT !.ready = TRUE, !.res = "ok"]
  <2>0. 0 \in 0 .. 2
    OBVIOUS
  <2>1. m \in Manager /\ m.pc = "idle"
    BY <2>0 DEF Manager, IdleManager, ManagerPcs
  <2>2. /\ mgr' = [mgr EXCEPT ![p] = m] /\ public' = public \cup {"ours"} /\ mgr[p].pc = "add"
        /\ UNCHANGED <<names, files, loaded, link, plumb, sets, hostCalm>>
    BY <1>3 DEF AddPublic, At
  <2> HIDE DEF m
  <2>3. OnlyOf(p) /\ mgr'[p] = m
    BY <2>1, <2>2, ReplaceIs DEF HostSound
  <2> QED
    BY <2>1, <2>2, <2>3 DEF Advance, HostSound, Host, ManagerSound, Writes, Keeps, SlotPcs, RemovePcs, Removal
<1>4. CASE AddPublic(p) /\ "ours" \in public /\ ~OrFails(p, "exec")
  <2>1. End(p, "error") /\ UNCHANGED host /\ mgr[p].pc = "add"
    BY <1>4 DEF AddPublic, At
  <2>2. Ended(p, "error") /\ hostCalm' = hostCalm
    BY <2>1, EndIs DEF HostSound, End
  <2> QED
    BY <1>4, <2>1, <2>2
       DEF Advance, HostSound, Host, host, Ended, ManagerSound, Writes, Keeps, SlotPcs, RemovePcs, Removal
<1> QED BY <1>1, <1>2, <1>3, <1>4 DEF DeletePublic, AddPublic

\* A step to s that changes nothing the manager is known by.
LEMMA WentIsSound ==
    ASSUME HostSound, NEW p \in Procs, NEW s \in ManagerPcs, Went(p, s), s # "del",
           s \in SlotPcs => mgr[p].pc \in SlotPcs \/ mgr[p].ready
    PROVE  OnlyOf(p) /\ ManagerSound(mgr'[p]) /\ mgr'[p].pc = s
  BY DEF Went, HostSound, ManagerSound

\* ApplySlot, the files of the slot.
LEMMA WriteSlotAdvances ==
    ASSUME HostSound, NEW p \in Procs, WriteSlot(p)
    PROVE  Advance(p)
<1>1. ASSUME NEW f \in {"net", "link"}, NEW s \in {"write_link", "link_down"}, Write(p, f, s), ~OrFails(p, "write"),
             f = "net" => At(p, "write_net") /\ s = "write_link",
             f = "link" => At(p, "write_link") /\ s = "link_down"
      PROVE  Advance(p)
  <2> DEFINE fresh == IF f \in files THEN mgr[p].fresh ELSE mgr[p].fresh \cup {f}
             m == [mgr[p] EXCEPT !.pc = s, !.fresh = fresh]
  <2>1. mgr[p] \in Manager /\ s \in ManagerPcs
    BY DEF HostSound, ManagerPcs
  <2>2. fresh \subseteq {"net", "link"}
    BY <2>1 DEF Manager
  <2>3. /\ mgr' = [mgr EXCEPT ![p] = m] /\ files' = files \cup {f}
        /\ UNCHANGED <<public, names, loaded, link, plumb, sets, hostCalm>>
    BY <1>1 DEF Write, HostSound, Manager
  <2>4. m \in Manager
    <3> HIDE DEF fresh
    <3> QED BY <2>1, <2>2 DEF Manager
  <2>5. m.pc = s /\ m.ready = mgr[p].ready
    <3> HIDE DEF fresh
    <3> QED BY <2>1 DEF Manager
  <2> HIDE DEF m, fresh
  <2>6. OnlyOf(p) /\ mgr'[p] = m
    BY <2>3, <2>4, ReplaceIs DEF HostSound
  <2>7. Host'
    BY <2>3 DEF HostSound, Host
  <2>8. ManagerSound(mgr'[p])
    BY <1>1, <2>5, <2>6 DEF HostSound, ManagerSound, At, SlotPcs
  <2>9. Writes(p) /\ Keeps(p)
    BY <1>1, <2>3, <2>5, <2>6 DEF Writes, Keeps, At, SlotPcs, RemovePcs, Removal
  <2>10. mgr[p].pc # "idle" /\ mgr'[p].pc \in NextPcs(mgr[p].pc) \cup {"idle"}
    BY <1>1, <2>5, <2>6 DEF At, NextPcs, SlotPcs, GlobalPcs
  <2> QED BY <2>6, <2>7, <2>8, <2>9, <2>10 DEF Advance
<1>2. CASE OrFails(p, "write") /\ (At(p, "write_net") \/ At(p, "write_link"))
  BY <1>2, ErrorAdvances DEF At, Removal
<1>3. CASE At(p, "write_net") /\ Write(p, "net", "write_link")
  <2>1. CASE OrFails(p, "write")
    BY <1>2, <1>3, <2>1
  <2>2. CASE ~OrFails(p, "write")
    BY <1>1, <1>3, <2>2
  <2> QED BY <2>1, <2>2
<1>4. CASE At(p, "write_link") /\ Write(p, "link", "link_down")
  <2>1. CASE OrFails(p, "write")
    BY <1>2, <1>4, <2>1
  <2>2. CASE ~OrFails(p, "write")
    BY <1>1, <1>4, <2>2
  <2> QED BY <2>1, <2>2
<1> QED BY <1>3, <1>4 DEF WriteSlot

\* ApplySlot, the commands behind the files.
LEMMA SlotCommandsAdvance ==
    ASSUME HostSound, NEW p \in Procs, LinkDown(p) \/ UdevTrigger(p) \/ ReloadNetwork(p)
    PROVE  Advance(p)
<1>0. {"udev", "reload", "read_rules"} \subseteq ManagerPcs
  BY DEF ManagerPcs
<1>1. CASE OrFails(p, "exec") /\ (At(p, "link_down") \/ At(p, "udev") \/ At(p, "reload"))
  BY <1>1, ErrorAdvances DEF At
<1>2. ASSUME NEW s \in {"udev", "reload"}, Went(p, s), mgr[p].pc \in {"link_down", "udev"},
             UNCHANGED <<public, names, files, loaded, sets, hostCalm>>, Host'
      PROVE  Advance(p)
  <2>1. OnlyOf(p) /\ ManagerSound(mgr'[p]) /\ mgr'[p].pc = s
    BY <1>0, <1>2, WentIsSound DEF SlotPcs
  <2>2. mgr'[p].ready = mgr[p].ready
    BY <1>2 DEF Went
  <2>3. Writes(p) /\ Keeps(p)
    BY <1>2, <2>1, <2>2 DEF Writes, Keeps, SlotPcs, RemovePcs, Removal
  <2>4. mgr[p].pc # "idle" /\ mgr'[p].pc \in NextPcs(mgr[p].pc) \cup {"idle"}
    BY <1>2, <2>1 DEF NextPcs, SlotPcs, GlobalPcs
  <2> QED BY <1>2, <2>1, <2>3, <2>4 DEF Advance
<1>3. CASE LinkDown(p) /\ ~OrFails(p, "exec")
  <2>1. PICK s \in {"udev", "reload"} : GoOn(p, s)
    BY <1>3 DEF LinkDown
  <2>2. /\ mgr[p].pc = "link_down" /\ plumb' \subseteq plumb
        /\ UNCHANGED <<public, names, files, loaded, link, sets, hostCalm>>
    BY <1>3 DEF LinkDown, host, GoOn, At
  <2>3. Went(p, s) /\ Host'
    BY <1>0, <2>1, <2>2, GoOnIs DEF HostSound, Host
  <2> QED BY <1>2, <2>2, <2>3
<1>4. CASE UdevTrigger(p) /\ ~OrFails(p, "exec")
  <2>1. GoOn(p, "reload") /\ mgr[p].pc = "udev" /\ UNCHANGED <<public, names, files, loaded, sets, hostCalm>>
    BY <1>4 DEF UdevTrigger, GoOn, At
  <2>2. link' \in {"gone", "raw", "dg"} /\ plumb' \subseteq Plumbing
    BY <1>4 DEF UdevTrigger, HostSound, Host, Enumerated, PlumbedAs, Configured
  <2>3. Went(p, "reload") /\ Host'
    BY <1>0, <2>1, <2>2, GoOnIs DEF HostSound, Host
  <2> QED BY <1>2, <2>1, <2>3
<1>5. CASE ReloadNetwork(p) /\ ~OrFails(p, "exec") /\ "net" \notin mgr[p].fresh
  <2>1. End(p, "ok") /\ UNCHANGED host /\ mgr[p].pc = "reload"
    BY <1>5 DEF ReloadNetwork, At
  <2>2. Ended(p, "ok") /\ hostCalm' = hostCalm
    BY <2>1, EndIs DEF HostSound, End
  <2> QED
    BY <2>1, <2>2
       DEF Advance, HostSound, Host, host, Ended, ManagerSound, Writes, Keeps, SlotPcs, RemovePcs, Removal
<1>6. CASE ReloadNetwork(p) /\ ~OrFails(p, "exec") /\ "net" \in mgr[p].fresh
  <2> DEFINE m == [mgr[p] EXCEPT !.pc = "read_rules", !.fresh = {}]
  <2>1. mgr[p] \in Manager /\ mgr[p].pc = "reload"
    BY <1>6 DEF HostSound, ReloadNetwork, At
  <2>2. /\ mgr' = [mgr EXCEPT ![p] = m]
        /\ UNCHANGED <<public, names, files, link, sets, hostCalm>>
    BY <1>6 DEF ReloadNetwork, HostSound, Manager
  <2>3. m \in Manager /\ m.pc = "read_rules" /\ m.ready = mgr[p].ready
    BY <1>0, <2>1 DEF Manager
  <2> HIDE DEF m
  <2>4. OnlyOf(p) /\ mgr'[p] = m
    BY <2>2, <2>3, ReplaceIs DEF HostSound
  <2>5. loaded' \in BOOLEAN /\ plumb' \subseteq Plumbing
    <3>1. loaded' = ("net" \in files) /\ plumb' = PlumbedAs(link, loaded')
      BY <1>6 DEF ReloadNetwork
    <3>2. loaded' \in BOOLEAN
      BY <3>1
    <3> QED BY <3>1, <3>2 DEF PlumbedAs, Configured
  <2>6. Host'
    BY <2>2, <2>5 DEF HostSound, Host
  <2>7. ManagerSound(mgr'[p])
    BY <2>3, <2>4 DEF ManagerSound, SlotPcs
  <2>8. Writes(p) /\ Keeps(p)
    BY <2>1, <2>2, <2>3, <2>4 DEF Writes, Keeps, SlotPcs, RemovePcs, Removal
  <2>9. mgr[p].pc # "idle" /\ mgr'[p].pc \in NextPcs(mgr[p].pc) \cup {"idle"}
    BY <2>1, <2>3, <2>4 DEF NextPcs, SlotPcs, GlobalPcs
  <2> QED BY <2>4, <2>6, <2>7, <2>8, <2>9 DEF Advance
<1> QED BY <1>1, <1>3, <1>4, <1>5, <1>6 DEF LinkDown, UdevTrigger, ReloadNetwork

\* A call that ends is a step too, if it ends well or was about to.
LEMMA EndAdvances ==
    ASSUME HostSound, NEW p \in Procs, NEW r \in {"ok", "error"}, End(p, r), Host',
           mgr[p].pc \in RemovePcs \cup {"add_gateway"}, UNCHANGED <<public, link>>,
           mgr[p].pc = "add_gateway" => /\ files \subseteq files' /\ sets \subseteq sets' /\ plumb' = plumb
                                        /\ r = "error" \/ {"table", "gateway"} \subseteq sets'
    PROVE  Advance(p)
<1>1. Ended(p, r)
  BY EndIs DEF HostSound
<1> QED
  BY <1>1 DEF Advance, Ended, ManagerSound, Writes, Keeps, SlotPcs, RemovePcs, Removal

\* And so is one that goes on to the next removal.
LEMMA RemovalGoesOn ==
    ASSUME HostSound, NEW p \in Procs, NEW s \in RemovePcs, GoOn(p, s), Host',
           mgr[p].pc \in RemovePcs, UNCHANGED <<public, link>>
    PROVE  Advance(p)
<1>1. Went(p, s)
  BY GoOnIs DEF HostSound, RemovePcs, ManagerPcs
<1> QED
  BY <1>1 DEF Advance, Went, OnlyOf, ManagerSound, Writes, Keeps, NextPcs, GlobalPcs, SlotPcs, AddPcs,
              RemovePcs, Removal

\* RemoveSlot and RemoveDongle.
LEMMA RemovalAdvances ==
    ASSUME HostSound, NEW p \in Procs, RemoveFiles(p) \/ Unreload(p) \/ DeleteSlotRules(p) \/ DeleteElements(p)
    PROVE  Advance(p)
<1>1. ASSUME NEW f, OrFails(p, f), mgr[p].pc \in RemovePcs
      PROVE  Advance(p)
  BY <1>1, ErrorAdvances DEF RemovePcs, Removal
<1>2. CASE RemoveFiles(p)
  <2>1. mgr[p].pc = "unlink" /\ UNCHANGED <<public, names, loaded, link, plumb, sets, hostCalm>> /\ files' \subseteq files
    BY <1>2 DEF RemoveFiles, At, GoOn, End
  <2>2. Host'
    BY <2>1 DEF HostSound, Host
  <2>3. End(p, "error") \/ \E s \in RemovePcs : GoOn(p, s)
    BY <1>2 DEF RemoveFiles, RemovePcs
  <2> QED BY <2>1, <2>2, <2>3, EndAdvances, RemovalGoesOn DEF RemovePcs
<1>3. CASE Unreload(p) /\ ~OrFails(p, "exec")
  <2>1. mgr[p].pc = "unreload" /\ GoOn(p, "unrule") /\ UNCHANGED <<public, names, files, link, sets, hostCalm>>
    BY <1>3 DEF Unreload, At, GoOn
  <2>2. loaded' \in BOOLEAN /\ plumb' \subseteq Plumbing
    BY <1>3 DEF Unreload, PlumbedAs, Configured
  <2>3. Host'
    BY <2>1, <2>2 DEF HostSound, Host
  <2> QED BY <2>1, <2>3, RemovalGoesOn DEF RemovePcs
<1>4. CASE DeleteSlotRules(p) /\ ~OrFails(p, "exec") /\ ~OrFails(p, "netlink")
  <2>1. /\ mgr[p].pc \in {"unrule", "flush"} /\ plumb' \subseteq plumb
        /\ UNCHANGED <<public, names, files, loaded, link, sets, hostCalm>>
    BY <1>4 DEF DeleteSlotRules, At, GoOn, End
  <2>2. Host'
    BY <2>1 DEF HostSound, Host
  <2>3. End(p, "ok") \/ GoOn(p, "flush")
    BY <1>4 DEF DeleteSlotRules
  <2> QED BY <2>1, <2>2, <2>3, EndAdvances, RemovalGoesOn DEF RemovePcs
<1>5. CASE DeleteElements(p) /\ ~OrFails(p, "nft")
  <2>1. /\ mgr[p].pc \in {"del_iface", "del_gateway"} /\ sets' \in {sets \ {"iface"}, sets \ {"gateway"}}
        /\ UNCHANGED <<public, names, files, loaded, link, plumb, hostCalm>>
    BY <1>5 DEF DeleteElements, DeleteElement, At, GoOn, End
  <2>2. Host'
    BY <2>1 DEF HostSound, Host
  <2>3. End(p, "ok") \/ GoOn(p, "del_gateway")
    BY <1>5 DEF DeleteElements
  <2> QED BY <2>1, <2>2, <2>3, EndAdvances, RemovalGoesOn DEF RemovePcs
<1>6. CASE Unreload(p) /\ OrFails(p, "exec")
  BY <1>1, <1>6 DEF Unreload, At, RemovePcs
<1>7. CASE DeleteSlotRules(p) /\ (OrFails(p, "exec") \/ OrFails(p, "netlink"))
  BY <1>1, <1>7 DEF DeleteSlotRules, At, RemovePcs
<1>8. CASE DeleteElements(p) /\ OrFails(p, "nft")
  BY <1>1, <1>8 DEF DeleteElements, At, RemovePcs
<1> QED BY <1>2, <1>3, <1>4, <1>5, <1>6, <1>7, <1>8

\* AddDongle.
LEMMA AddElementsAdvances ==
    ASSUME HostSound, NEW p \in Procs, AddElements(p)
    PROVE  Advance(p)
<1>0. mgr[p].pc \in AddPcs
  BY DEF AddElements, MustContain, NoTable, At, AddPcs
<1>1. CASE OrFails(p, "nft")
  BY <1>0, <1>1, ErrorAdvances DEF AddPcs, Removal
<1>2. CASE At(p, "add_iface") /\ AddElement("iface") /\ GoOn(p, "add_gateway")
  <2>1. Went(p, "add_gateway")
    BY <1>2, GoOnIs DEF HostSound, ManagerPcs
  <2>2. Host'
    BY <1>2 DEF HostSound, Host, AddElement, GoOn, Ruleset, Verified
  <2>3. OnlyOf(p) /\ ManagerSound(mgr'[p])
    BY <2>1 DEF Went, ManagerSound, SlotPcs
  <2>4. Writes(p) /\ Keeps(p)
    BY <1>2, <2>1 DEF Went, Writes, Keeps, At, AddElement, SlotPcs, RemovePcs, Removal
  <2>5. mgr[p].pc # "idle" /\ mgr'[p].pc \in NextPcs(mgr[p].pc) \cup {"idle"}
    BY <1>2, <2>1 DEF Went, At, NextPcs, SlotPcs, GlobalPcs, AddPcs
  <2> QED BY <2>2, <2>3, <2>4, <2>5 DEF Advance
<1>3. CASE At(p, "add_gateway") /\ AddElement("gateway") /\ (End(p, "ok") \/ End(p, "error"))
  <2>1. Host'
    BY <1>3 DEF HostSound, Host, AddElement, End, Ruleset, Verified
  <2> QED BY <1>3, <2>1, EndAdvances DEF At, AddElement, Verified
<1>4. CASE NoTable(p)
  <2>1. End(p, "error") /\ UNCHANGED host /\ Host'
    BY <1>4 DEF NoTable, HostSound, Host, host, End
  <2>2. CASE mgr[p].pc = "add_gateway"
    BY <2>1, <2>2, EndAdvances DEF host
  <2>3. CASE mgr[p].pc = "add_iface"
    <3>1. Ended(p, "error")
      BY <2>1, EndIs DEF HostSound
    <3> QED
      BY <2>1, <2>3, <3>1 DEF Advance, Ended, host, ManagerSound, Writes, Keeps, SlotPcs, RemovePcs, Removal
  <2> QED BY <1>0, <2>2, <2>3 DEF AddPcs
<1> QED BY <1>1, <1>2, <1>3, <1>4 DEF AddElements, MustContain

\* What a manager does is what Advance says.
LEMMA ManagerAdvances ==
    ASSUME HostSound, NEW p \in Procs, ManagerStep(p)
    PROVE  Advance(p) /\ HostSound'
<1>1. Advance(p)
  BY ReadRulesAdvances, PublicAdvances, WriteSlotAdvances, SlotCommandsAdvance, RemovalAdvances,
     AddElementsAdvances DEF ManagerStep
<1>2. mgr' \in [Procs -> Manager]
  BY <1>1 DEF Advance, OnlyOf
<1>3. ASSUME NEW q \in Procs PROVE ManagerSound(mgr'[q])
  BY <1>1 DEF Advance, OnlyOf, HostSound
<1>4. Host'
  BY <1>1 DEF Advance
<1> QED BY <1>1, <1>2, <1>3, <1>4 DEF HostSound
-----------------------------------------------------------------------------
(* The calls of a manager, and what happens to the host from outside.      *)

\* A call of p has begun, and has come to one of S or ended at once.
Begun(p, S) ==
    /\ OnlyOf(p) /\ Idle(p) /\ mgr'[p].pc \in S \cup {"idle"}
    /\ ManagerSound(mgr'[p]) /\ mgr'[p].ready = mgr[p].ready
    /\ names' \in BOOLEAN /\ UNCHANGED <<public, files, loaded, link, plumb, sets, hostCalm>>

\* It leaves the host as it should be.
LEMMA BegunIsSound ==
    ASSUME HostSound, NEW p \in Procs, NEW S, Begun(p, S)
    PROVE  HostSound'
  BY DEF HostSound, Host, Begun, OnlyOf

\* A call that goes on.
LEMMA CallGoesOn ==
    ASSUME HostSound, NEW p \in Procs, NEW s \in {"read_rules", "unlink", "add_iface", "del_iface"},
           Idle(p), GoOn(p, s), UNCHANGED host
    PROVE  Begun(p, {s}) /\ mgr'[p].pc = s
<1>1. Went(p, s)
  BY GoOnIs DEF HostSound, ManagerPcs
<1> QED BY <1>1 DEF Begun, Went, ManagerSound, SlotPcs, host, HostSound, Host, GoOn

\* A call that is over before it begins.
LEMMA CallEnds ==
    ASSUME HostSound, NEW p \in Procs, NEW r \in {"ok", "error"},
           Idle(p), End(p, r), names' \in BOOLEAN, UNCHANGED <<public, files, loaded, link, plumb, sets>>
    PROVE  Begun(p, {}) /\ mgr'[p].pc = "idle" /\ mgr'[p].res = r
<1>1. Ended(p, r)
  BY EndIs DEF HostSound
<1> QED BY <1>1 DEF Begun, Ended, ManagerSound, SlotPcs, End

\* EnsureNames.
LEMMA NamesBegun ==
    ASSUME HostSound, NEW p \in Procs, EnsureNames(p)
    PROVE  Begun(p, {}) /\ mgr'[p].pc = "idle"
<1>1. CASE ~OrFails(p, "write")
  BY <1>1, CallEnds DEF EnsureNames
<1>2. CASE OrFails(p, "write")
  BY <1>2, CallEnds DEF EnsureNames, OrFails, host, HostSound, Host
<1> QED BY <1>1, <1>2

\* The calls that only begin.
LEMMA GlobalBegun ==
    ASSUME HostSound, NEW p \in Procs, EnsureGlobal(p)
    PROVE  Begun(p, {"read_rules"}) /\ mgr'[p].pc = "read_rules"
  BY CallGoesOn DEF EnsureGlobal

LEMMA AddBegun ==
    ASSUME HostSound, NEW p \in Procs, AddDongle(p)
    PROVE  Begun(p, {"add_iface"}) /\ mgr'[p].pc = "add_iface"
  BY CallGoesOn DEF AddDongle

LEMMA RemoveBegun ==
    ASSUME HostSound, NEW p \in Procs, RemoveSlot(p) \/ RemoveDongle(p)
    PROVE  \E s \in RemovePcs : Begun(p, {s}) /\ mgr'[p].pc = s
  BY CallGoesOn DEF RemoveSlot, RemoveDongle, RemovePcs

\* ApplySlot begins with the public rule seen, or not at all.
LEMMA SlotBegun ==
    ASSUME HostSound, NEW p \in Procs, ApplySlot(p)
    PROVE  /\ Begun(p, {"write_net"})
           /\ mgr'[p].pc = "idle" => mgr'[p].res = "error"
<1>1. CASE mgr[p].ready /\ GoOn(p, "write_net") /\ UNCHANGED host /\ Idle(p)
  <2>1. Went(p, "write_net")
    BY <1>1, GoOnIs DEF HostSound, ManagerPcs
  <2> QED BY <1>1, <2>1 DEF Begun, Went, ManagerSound, SlotPcs, host, HostSound, Host, GoOn
<1>2. CASE End(p, "error") /\ UNCHANGED host /\ Idle(p)
  <2>1. names' \in BOOLEAN /\ UNCHANGED <<public, files, loaded, link, plumb, sets>>
    BY <1>2 DEF host, HostSound, Host
  <2>2. Begun(p, {}) /\ mgr'[p].pc = "idle" /\ mgr'[p].res = "error"
    BY <1>2, <2>1, CallEnds
  <2> QED BY <2>2 DEF Begun
<1> QED BY <1>1, <1>2 DEF ApplySlot, OrFails

\* Faults of the node leave its managers alone.
LEMMA FaultIsSound ==
    ASSUME HostSound, RuleLost \/ RuleAdded \/ LoadTable \/ Unplugged \/ PluggedIn
    PROVE  HostSound' /\ UNCHANGED <<mgr, files, hostCalm>> /\ sets \subseteq sets'
<1>1. CASE RuleLost \/ RuleAdded
  BY <1>1 DEF RuleLost, RuleAdded, HostSound, Host
<1>2. CASE Unplugged
  BY <1>2 DEF Unplugged, HostSound, Host
<1>3. CASE PluggedIn
  BY <1>3 DEF PluggedIn, HostSound, Host, Enumerated, PlumbedAs, Configured
<1>4. CASE LoadTable
  BY <1>4 DEF LoadTable, HostSound, Host, Verified, Ruleset
<1> QED BY <1>1, <1>2, <1>3, <1>4

LEMMA IdleIsSound == IdleManager \in Manager /\ ManagerSound(IdleManager) /\ IdleManager.pc = "idle" /\ ~IdleManager.ready
<1>1. 0 \in 0 .. 2
  OBVIOUS
<1> QED BY <1>1 DEF IdleManager, Manager, ManagerPcs, ManagerSound, SlotPcs

\* A host that starts again has managers that know nothing.
LEMMA RebootIsSound ==
    ASSUME HostSound, HostReboots
    PROVE  HostSound' /\ \A p \in Procs : mgr'[p] = IdleManager
<1>1. mgr' = [p \in Procs |-> IdleManager] /\ UNCHANGED <<names, files, hostCalm>> /\ public' = {} /\ sets' = {}
  BY DEF HostReboots
<1>2. link' \in {"gone", "raw", "dg"} /\ plumb' \subseteq Plumbing
  BY DEF HostReboots, HostSound, Host, Enumerated, PlumbedAs, Configured
<1>3. loaded' \in BOOLEAN
  <2>1. loaded' = ("net" \in files)
    BY DEF HostReboots
  <2> QED BY <2>1
<1>4. Host'
  BY <1>1, <1>2, <1>3 DEF HostSound, Host
<1> HIDE DEF IdleManager
<1> QED BY <1>1, <1>4, IdleIsSound DEF HostSound

\* So does a daemon that starts again.
LEMMA RestartIsSound ==
    ASSUME HostSound, "daemon" \in Procs, mgr' = [mgr EXCEPT !["daemon"] = IdleManager], UNCHANGED <<host, hostCalm>>
    PROVE  HostSound' /\ OnlyOf("daemon") /\ mgr'["daemon"] = IdleManager
<1>1. OnlyOf("daemon") /\ mgr'["daemon"] = IdleManager
  BY IdleIsSound, ReplaceIs DEF HostSound
<1>2. Host'
  BY DEF HostSound, Host, host
<1> QED BY <1>1, <1>2, IdleIsSound DEF HostSound, OnlyOf
-----------------------------------------------------------------------------
(* The plan of the sweep.                                                  *)

Actions == {"names", "global", "slot", "fw", "stop", "start"}

\* a is one of the elements of s.
In(a, s) == \E i \in 1 .. Len(s) : s[i] = a

\* "names" comes first, and something comes behind it.
NamesLead(s) == \A i \in 1 .. Len(s) : s[i] = "names" => i = 1 /\ Len(s) >= 2

LEMMA InConcat ==
    ASSUME NEW X, NEW s \in Seq(X), NEW t \in Seq(X), NEW a
    PROVE  /\ s \o t \in Seq(X) /\ Len(s \o t) = Len(s) + Len(t)
           /\ In(a, s \o t) <=> In(a, s) \/ In(a, t)
<1>1. /\ s \o t \in Seq(X) /\ Len(s \o t) = Len(s) + Len(t)
      /\ \A i \in 1 .. Len(s) + Len(t) : (s \o t)[i] = IF i <= Len(s) THEN s[i] ELSE t[i - Len(s)]
  BY ConcatProperties
<1>2. Len(s) \in Nat /\ Len(t) \in Nat
  BY LenProperties
<1>3. ASSUME In(a, s) PROVE In(a, s \o t)
  <2>1. PICK i \in 1 .. Len(s) : s[i] = a
    BY <1>3 DEF In
  <2>2. i \in 1 .. Len(s) + Len(t) /\ i <= Len(s)
    BY <1>2
  <2> QED BY <1>1, <2>1, <2>2 DEF In
<1>4. ASSUME In(a, t) PROVE In(a, s \o t)
  <2>1. PICK i \in 1 .. Len(t) : t[i] = a
    BY <1>4 DEF In
  <2>2. Len(s) + i \in 1 .. Len(s) + Len(t) /\ ~(Len(s) + i <= Len(s)) /\ Len(s) + i - Len(s) = i
    BY <1>2
  <2>3. (s \o t)[Len(s) + i] = a
    BY <1>1, <2>1, <2>2
  <2> QED BY <1>1, <2>2, <2>3 DEF In
<1>5. ASSUME In(a, s \o t) PROVE In(a, s) \/ In(a, t)
  <2>1. PICK i \in 1 .. Len(s) + Len(t) : (s \o t)[i] = a
    BY <1>1, <1>5 DEF In
  <2>2. CASE i <= Len(s)
    <3>1. i \in 1 .. Len(s)
      BY <1>2, <2>2
    <3> QED BY <1>1, <2>1, <2>2, <3>1 DEF In
  <2>3. CASE ~(i <= Len(s))
    <3>1. i - Len(s) \in 1 .. Len(t)
      BY <1>2, <2>3
    <3> QED BY <1>1, <2>1, <2>3, <3>1 DEF In
  <2> QED BY <2>2, <2>3
<1> QED BY <1>1, <1>3, <1>4, <1>5

\* One action, if c asks for it.
When(c, a) == IF c THEN <<a>> ELSE <<>>

LEMMA WhenIs ==
    ASSUME NEW c \in BOOLEAN, NEW a \in Actions
    PROVE  /\ When(c, a) \in Seq(Actions) /\ Len(When(c, a)) = IF c THEN 1 ELSE 0
           /\ \A b : In(b, When(c, a)) <=> c /\ b = a
<1>1. CASE c
  <2>1. When(c, a) = <<a>>
    BY <1>1 DEF When
  <2>2. <<a>> \in Seq(Actions) /\ Len(<<a>>) = 1 /\ <<a>>[1] = a /\ 1 .. 1 = {1}
    OBVIOUS
  <2>3. \A b : In(b, <<a>>) <=> b = a
    BY <2>2 DEF In
  <2> QED BY <1>1, <2>1, <2>2, <2>3
<1>2. CASE ~c
  <2>1. When(c, a) = <<>>
    BY <1>2 DEF When
  <2> QED BY <1>2, <2>1 DEF In
<1> QED BY <1>1, <1>2

\* A plan: no longer than five actions, the node first; the proxy is started on
\* a slot that is there, which is not written in the same plan; it is stopped
\* when no dongle is attached.
PlanOf(o, s) ==
    /\ s \in Seq(Actions) /\ Len(s) <= 5 /\ NamesLead(s)
    /\ In("start", s) => ~In("slot", s) /\ EgressReady(o) /\ ~px
    /\ In("stop", s) => "proxy" \in seen.rows /\ "attached" \notin seen.rows

LEMMA PlansAre ==
    ASSUME NEW o, NEW present \in BOOLEAN, NEW known \in BOOLEAN, px \in BOOLEAN
    PROVE  PlanOf(o, Plan(o, present, known))
<1> DEFINE c1 == ~EgressReady(o)
           c2 == o.link = "dg" /\ present /\ ~known
           c3 == "proxy" \in seen.rows /\ "attached" \notin seen.rows /\ px
           c4 == "proxy" \in seen.rows /\ "attached" \in seen.rows /\ EgressReady(o) /\ ~px
           w1 == When(c1, "slot")  w2 == When(c2, "fw")  w3 == When(c3, "stop")  w4 == When(c4, "start")
           t == w1 \o w2 \o w3 \o w4
           n == PlanNode(o)
<1>1. c1 \in BOOLEAN /\ c2 \in BOOLEAN /\ c3 \in BOOLEAN /\ c4 \in BOOLEAN
  OBVIOUS
<1>2. {"slot", "fw", "stop", "start"} \subseteq Actions
  BY DEF Actions
<1> HIDE DEF c1, c2, c3, c4
<1>3. /\ w1 \in Seq(Actions) /\ Len(w1) = (IF c1 THEN 1 ELSE 0) /\ \A b : In(b, w1) <=> c1 /\ b = "slot"
      /\ w2 \in Seq(Actions) /\ Len(w2) = (IF c2 THEN 1 ELSE 0) /\ \A b : In(b, w2) <=> c2 /\ b = "fw"
      /\ w3 \in Seq(Actions) /\ Len(w3) = (IF c3 THEN 1 ELSE 0) /\ \A b : In(b, w3) <=> c3 /\ b = "stop"
      /\ w4 \in Seq(Actions) /\ Len(w4) = (IF c4 THEN 1 ELSE 0) /\ \A b : In(b, w4) <=> c4 /\ b = "start"
  BY <1>1, <1>2, WhenIs
<1> HIDE DEF w1, w2, w3, w4
<1> DEFINE w12 == w1 \o w2  w123 == w12 \o w3
<1>4. w12 \in Seq(Actions) /\ Len(w12) = Len(w1) + Len(w2) /\ \A b : In(b, w12) <=> In(b, w1) \/ In(b, w2)
  BY <1>3, InConcat
<1>t. t = w123 \o w4
  OBVIOUS
<1> HIDE DEF w12
<1>5. w123 \in Seq(Actions) /\ Len(w123) = Len(w12) + Len(w3) /\ \A b : In(b, w123) <=> In(b, w12) \/ In(b, w3)
  BY <1>3, <1>4, InConcat
<1> HIDE DEF w123, t
<1>6. t \in Seq(Actions) /\ Len(t) = Len(w123) + Len(w4) /\ \A b : In(b, t) <=> In(b, w123) \/ In(b, w4)
  <2>1. /\ w123 \o w4 \in Seq(Actions) /\ Len(w123 \o w4) = Len(w123) + Len(w4)
        /\ \A b : In(b, w123 \o w4) <=> In(b, w123) \/ In(b, w4)
    <3>1. w4 \in Seq(Actions)
      BY <1>3
    <3>2. w123 \in Seq(Actions)
      BY <1>5
    <3> QED BY <3>1, <3>2, InConcat
  <2> QED BY <1>t, <2>1
<1>7. PlanSlot(o, present, known) = IF "slot" \notin seen.rows THEN <<>> ELSE t
  BY DEF PlanSlot, When, t, w1, w2, w3, w4, c1, c2, c3, c4
<1>8. Len(t) \in 0 .. 3
  <2>1. /\ c4 => ~c1 /\ ~c3
    BY DEF c1, c3, c4
  <2> QED BY <1>3, <1>4, <1>5, <1>6, <2>1
<1> DEFINE u == PlanSlot(o, present, known)
<1>9. /\ u \in Seq(Actions) /\ Len(u) \in 0 .. 3 /\ ~In("names", u)
      /\ In("start", u) => ~In("slot", u) /\ EgressReady(o) /\ ~px
      /\ In("stop", u) => "proxy" \in seen.rows /\ "attached" \notin seen.rows
  <2>1. ~In("names", t) /\ (In("start", t) => c4) /\ (In("slot", t) => c1) /\ (In("stop", t) => c3)
    <3>1. \A b : In(b, t) <=> In(b, w1) \/ In(b, w2) \/ In(b, w3) \/ In(b, w4)
      BY <1>4, <1>5, <1>6
    <3> QED BY <1>3, <3>1
  <2>2. c4 => ~c1 /\ EgressReady(o) /\ ~px
    BY DEF c1, c4
  <2>3. c3 => "proxy" \in seen.rows /\ "attached" \notin seen.rows
    BY DEF c3
  <2>4. <<>> \in Seq(Actions) /\ Len(<<>>) = 0 /\ \A b : ~In(b, <<>>)
    BY DEF In
  <2>5. CASE "slot" \notin seen.rows
    BY <1>7, <2>4, <2>5
  <2>6. CASE "slot" \in seen.rows
    BY <1>6, <1>7, <1>8, <2>1, <2>2, <2>3, <2>6
  <2> QED BY <2>5, <2>6
<1> HIDE DEF u
<1>10. n = <<>> \/ n = <<"names", "global">>
  BY DEF PlanNode
<1>11. /\ n \in Seq(Actions) /\ (Len(n) = 0 \/ Len(n) = 2) /\ NamesLead(n)
       /\ \A b : In(b, n) => b \in {"names", "global"}
  <2>1. CASE n = <<>>
    BY <2>1 DEF In, NamesLead
  <2>2. CASE n = <<"names", "global">>
    <3>1. <<"names", "global">> \in Seq(Actions)
      BY DEF Actions
    <3>2. /\ Len(<<"names", "global">>) = 2 /\ <<"names", "global">>[1] = "names"
          /\ <<"names", "global">>[2] = "global" /\ 1 .. 2 = {1, 2}
      OBVIOUS
    <3> HIDE DEF n
    <3>3. \A b : In(b, n) => b \in {"names", "global"}
      BY <2>2, <3>2 DEF In
    <3>4. NamesLead(n)
      BY <2>2, <3>2 DEF NamesLead
    <3> QED BY <2>2, <3>1, <3>2, <3>3, <3>4
  <2> QED BY <1>10, <2>1, <2>2
<1> HIDE DEF n
<1>12. /\ n \o u \in Seq(Actions) /\ Len(n \o u) = Len(n) + Len(u)
       /\ \A b : In(b, n \o u) <=> In(b, n) \/ In(b, u)
  BY <1>9, <1>11, InConcat
<1>13. NamesLead(n \o u)
  <2> SUFFICES ASSUME NEW i \in 1 .. Len(n) + Len(u), (n \o u)[i] = "names"
               PROVE  i = 1 /\ Len(n) + Len(u) >= 2
    BY <1>12 DEF NamesLead
  <2>1. (n \o u)[i] = IF i <= Len(n) THEN n[i] ELSE u[i - Len(n)]
    BY <1>9, <1>11, ConcatProperties
  <2>2. CASE i <= Len(n)
    <3>1. i \in 1 .. Len(n)
      BY <1>9, <1>11, <2>2
    <3> QED BY <1>9, <1>11, <2>1, <2>2, <3>1 DEF NamesLead
  <2>3. CASE ~(i <= Len(n))
    <3>1. i - Len(n) \in 1 .. Len(u) /\ u[i - Len(n)] = "names"
      BY <1>9, <1>11, <2>1, <2>3
    <3> QED BY <1>9, <3>1 DEF In
  <2> QED BY <2>2, <2>3
<1>14. Plan(o, present, known) = n \o u
  BY DEF Plan, n, u
<1>15. In("start", n \o u) => ~In("slot", n \o u) /\ EgressReady(o) /\ ~px
  BY <1>9, <1>11, <1>12
<1>16. In("stop", n \o u) => "proxy" \in seen.rows /\ "attached" \notin seen.rows
  BY <1>9, <1>11, <1>12
<1>17. Len(n \o u) <= 5
  <2>1. Len(n \o u) = Len(n) + Len(u)
    BY <1>12
  <2>2. Len(u) \in 0 .. 3 /\ (Len(n) = 0 \/ Len(n) = 2)
    BY <1>9, <1>11
  <2>3. \A x \in 0 .. 3, y \in {0, 2} : y + x <= 5
    OBVIOUS
  <2> HIDE DEF n, u
  <2> QED BY <2>1, <2>2, <2>3
<1> QED BY <1>12, <1>13, <1>14, <1>15, <1>16, <1>17 DEF PlanOf

\* The rest of a plan.
LEMMA TailIs ==
    ASSUME NEW s \in Seq(Actions), s # <<>>, NamesLead(s)
    PROVE  /\ Tail(s) \in Seq(Actions) /\ Len(Tail(s)) = Len(s) - 1
           /\ NamesLead(Tail(s)) /\ ~In("names", Tail(s))
           /\ \A a : In(a, Tail(s)) => In(a, s)
           /\ In(Head(s), s)
<1>1. /\ Tail(s) \in Seq(Actions) /\ Len(Tail(s)) = Len(s) - 1
      /\ \A i \in 1 .. Len(Tail(s)) : Tail(s)[i] = s[i + 1]
  BY HeadTailProperties
<1>2. Len(s) \in Nat /\ Len(s) >= 1 /\ Head(s) = s[1]
  BY LenProperties, EmptySeq
<1>3. \A i \in 1 .. Len(Tail(s)) : i + 1 \in 1 .. Len(s) /\ i + 1 # 1
  BY <1>1, <1>2
<1>4. \A a : In(a, Tail(s)) => In(a, s)
  BY <1>1, <1>3 DEF In
<1>5. ~In("names", Tail(s))
  BY <1>1, <1>3 DEF In, NamesLead
<1>6. In(Head(s), s)
  <2>1. 1 \in 1 .. Len(s)
    BY <1>2
  <2> QED BY <1>2, <2>1 DEF In
<1> QED BY <1>1, <1>4, <1>5, <1>6 DEF In, NamesLead
-----------------------------------------------------------------------------
(* The sweep of the daemon, beside whatever the command does.              *)

Observations == [public: BOOLEAN, names: BOOLEAN, link: {"gone", "raw", "dg"}, plumb: SUBSET Plumbing]

SweepTyped ==
    /\ rows \in Rows /\ px \in BOOLEAN /\ op \in {"none", "live", "finished", "stalled"}
    /\ phase \in {"down", "rest", "poll", "act"}
    /\ seen \in [rows: Rows, busy: BOOLEAN] /\ cache \in Observations
    /\ todo \in Seq(Actions) /\ Len(todo) <= 5

\* A slot has a proxy only while a dongle is attached to it.
Ordered(r) == "proxy" \in r => "attached" \in r

\* The daemon removes nothing, calls nobody between two plans, and does not
\* write the slot while the proxy waits to be started.
SweepSound ==
    /\ mgr["daemon"].pc \notin RemovePcs
    /\ phase # "act" => mgr["daemon"].pc = "idle"
    /\ NamesLead(todo)
    /\ In("start", todo) => ~In("slot", todo) /\ mgr["daemon"].pc \notin SlotPcs

SweepInv == HostSound /\ SweepTyped /\ SweepSound

\* As long as the daemon reads nothing else it does not stop the proxy.
Straight == Ordered(seen.rows) /\ ~In("stop", todo)

\* What a step of the daemon may do to the rest.
Swept ==
    /\ \A q \in Procs : q # "daemon" => mgr'[q] = mgr[q]
    /\ files \subseteq files' /\ sets \subseteq sets' /\ rows' = rows
    /\ ~In("stop", todo) => px' = px \/ (In("start", todo) /\ px' = (link = "dg" /\ plumb = Plumbing))
    /\ Ordered(rows) /\ Straight => Straight'
    /\ In("start", todo') => ~px \/ In("start", todo)
    /\ mgr["daemon"].pc \notin SlotPcs => UNCHANGED <<plumb, link>>

\* What is observed is what is there.
LEMMA ObservedIs ==
    ASSUME HostSound
    PROVE  /\ Observation \in Observations
           /\ Observation.link = link /\ Observation.plumb = plumb
<1> DEFINE kept == {x \in Plumbing : \/ x = "addr" /\ Links.addr
                                     \/ x = "rules" /\ Rules.slot
                                     \/ x = "route" /\ Routes}
<1>1. Links.addr = ("addr" \in plumb) /\ Rules.slot = ("rules" \in plumb) /\ Routes = ("route" \in plumb)
  BY DEF Links, Rules, Routes
<1>2. kept = plumb
  BY <1>1 DEF HostSound, Host, Plumbing
<1>3. Links.name = link /\ RouteTablesComplete \in BOOLEAN /\ (Rules.public # {}) \in BOOLEAN
  BY DEF Links, RouteTablesComplete, HostSound, Host
<1>4. Observation = [public |-> Rules.public # {}, names |-> RouteTablesComplete, link |-> Links.name, plumb |-> kept]
  BY DEF Observation
<1> HIDE DEF kept
<1>5. link \in {"gone", "raw", "dg"} /\ plumb \in SUBSET Plumbing
  BY DEF HostSound, Host
<1> QED BY <1>2, <1>3, <1>4, <1>5 DEF Observations

\* A call of the daemon begins, and one action less is to do.
LEMMA CallIsSwept ==
    ASSUME SweepInv, "daemon" \in Procs, phase = "act", NEW S, Begun("daemon", S), S \cap RemovePcs = {},
           UNCHANGED <<rows, px, op, phase, seen, cache>>,
           todo' \in Seq(Actions), Len(todo') <= 5, NamesLead(todo'),
           \A a : In(a, todo') => In(a, todo),
           In("start", todo) => S \cap SlotPcs = {}
    PROVE  SweepInv' /\ Swept
<1>1. HostSound'
  BY BegunIsSound DEF SweepInv
<1>2. SweepTyped'
  BY DEF SweepInv, SweepTyped
<1>3. mgr'["daemon"].pc \notin RemovePcs /\ (In("start", todo) => mgr'["daemon"].pc \notin SlotPcs)
  BY DEF Begun, RemovePcs, SlotPcs
<1>4. SweepSound'
  BY <1>3 DEF SweepInv, SweepSound
<1>5. Swept
  BY DEF Swept, Begun, OnlyOf, Idle, SlotPcs, Straight, Ordered
<1> QED BY <1>1, <1>2, <1>4, <1>5 DEF SweepInv

\* The next action of the plan.
LEMMA ActIsSwept ==
    ASSUME SweepInv, "daemon" \in Procs, SweepAct
    PROVE  SweepInv' /\ Swept
<1>1. /\ HostSound /\ phase = "act" /\ UNCHANGED <<rows, op, phase, seen, cache>>
      /\ todo \in Seq(Actions) /\ Len(todo) <= 5 /\ NamesLead(todo) /\ mgr["daemon"].pc = "idle"
  BY DEF SweepInv, SweepTyped, SweepSound, SweepAct, table, Idle
<1>2. ASSUME todo # <<>>, todo' = Tail(todo)
      PROVE  /\ todo' \in Seq(Actions) /\ Len(todo') <= 5 /\ NamesLead(todo') /\ Len(todo) \in Nat
             /\ (\A a : In(a, todo') => In(a, todo)) /\ In(Head(todo), todo)
  <2>1. /\ Tail(todo) \in Seq(Actions) /\ Len(Tail(todo)) = Len(todo) - 1
        /\ NamesLead(Tail(todo)) /\ (\A a : In(a, Tail(todo)) => In(a, todo)) /\ In(Head(todo), todo)
    BY <1>1, <1>2, TailIs
  <2>2. Len(todo) \in Nat
    BY <1>1, LenProperties
  <2> QED BY <1>1, <1>2, <2>1, <2>2
<1>3. CASE /\ todo # <<>> /\ Head(todo) = "names" /\ EnsureNames("daemon") /\ UNCHANGED px
           /\ todo' = IF mgr'["daemon"].res = "ok" THEN Tail(todo) ELSE Tail(Tail(todo))
  <2>1. Begun("daemon", {})
    BY <1>1, <1>3, NamesBegun
  <2>2. CASE todo' = Tail(todo)
    BY <1>1, <1>2, <1>3, <2>1, <2>2, CallIsSwept
  <2>3. CASE todo' = Tail(Tail(todo))
    <3> DEFINE t == Tail(todo)
    <3>1. /\ t \in Seq(Actions) /\ Len(t) = Len(todo) - 1 /\ NamesLead(t) /\ \A a : In(a, t) => In(a, todo)
      BY <1>1, <1>3, TailIs
    <3>2. Len(todo) >= 2 /\ Len(todo) \in Nat
      <4>1. Len(todo) \in Nat /\ Len(todo) >= 1 /\ todo[1] = "names"
        BY <1>1, <1>3, LenProperties, EmptySeq
      <4>2. 1 \in 1 .. Len(todo)
        BY <4>1
      <4> QED BY <1>1, <4>1, <4>2 DEF NamesLead
    <3> HIDE DEF t
    <3>3. t # <<>>
      <4>1. Len(t) # 0
        BY <3>1, <3>2
      <4> QED BY <4>1, EmptySeq
    <3>4. /\ Tail(t) \in Seq(Actions) /\ Len(Tail(t)) = Len(t) - 1 /\ NamesLead(Tail(t))
          /\ \A a : In(a, Tail(t)) => In(a, t)
      BY <3>1, <3>3, TailIs
    <3>5. todo' = Tail(t)
      BY <2>3 DEF t
    <3>6. Len(todo') <= 5
      BY <1>1, <3>1, <3>2, <3>4, <3>5
    <3>7. \A a : In(a, todo') => In(a, todo)
      BY <3>1, <3>4, <3>5
    <3> QED BY <1>1, <1>3, <2>1, <3>4, <3>5, <3>6, <3>7, CallIsSwept
  <2> QED BY <1>3, <2>2, <2>3
<1>4. CASE Call("global") /\ EnsureGlobal("daemon") /\ UNCHANGED px
  <2>1. Begun("daemon", {"read_rules"})
    BY <1>1, <1>4, GlobalBegun
  <2>2. {"read_rules"} \cap RemovePcs = {} /\ {"read_rules"} \cap SlotPcs = {}
    BY DEF RemovePcs, SlotPcs
  <2> QED BY <1>1, <1>2, <1>4, <2>1, <2>2, CallIsSwept DEF Call
<1>5. CASE Call("slot") /\ ApplySlot("daemon") /\ UNCHANGED px
  <2>1. Begun("daemon", {"write_net"})
    BY <1>1, <1>5, SlotBegun
  <2>2. {"write_net"} \cap RemovePcs = {}
    BY DEF RemovePcs
  <2>3. ~In("start", todo)
    BY <1>2, <1>5 DEF Call, SweepInv, SweepSound
  <2> QED BY <1>1, <1>2, <1>5, <2>1, <2>2, <2>3, CallIsSwept DEF Call
<1>6. CASE Call("fw") /\ AddDongle("daemon") /\ UNCHANGED px
  <2>1. Begun("daemon", {"add_iface"})
    BY <1>1, <1>6, AddBegun
  <2>2. {"add_iface"} \cap RemovePcs = {} /\ {"add_iface"} \cap SlotPcs = {}
    BY DEF RemovePcs, SlotPcs
  <2> QED BY <1>1, <1>2, <1>6, <2>1, <2>2, CallIsSwept DEF Call
<1>7. CASE Call("stop") /\ px' = FALSE /\ UNCHANGED net
  <2>1. /\ In("stop", todo) /\ todo' \in Seq(Actions) /\ Len(todo') <= 5 /\ NamesLead(todo')
        /\ \A a : In(a, todo') => In(a, todo)
    BY <1>2, <1>7 DEF Call
  <2>2. UNCHANGED <<mgr, hostCalm, host>>
    BY <1>7 DEF net
  <2>3. HostSound'
    BY <1>1, <2>2 DEF HostSound, Host, host
  <2>4. SweepTyped'
    BY <1>1, <1>7, <2>1 DEF SweepInv, SweepTyped
  <2>5. SweepSound'
    BY <1>1, <2>1, <2>2 DEF SweepInv, SweepSound
  <2>6. Swept
    BY <1>1, <2>1, <2>2 DEF Swept, host, Straight
  <2> QED BY <2>3, <2>4, <2>5, <2>6 DEF SweepInv
<1>8. CASE Call("start") /\ StartProxy /\ UNCHANGED net
  <2>1. /\ In("start", todo) /\ todo' \in Seq(Actions) /\ Len(todo') <= 5 /\ NamesLead(todo')
        /\ \A a : In(a, todo') => In(a, todo)
    BY <1>2, <1>8 DEF Call
  <2>2. px' = (link = "dg" /\ plumb = Plumbing) /\ UNCHANGED <<mgr, hostCalm, host>>
    BY <1>8 DEF StartProxy, net
  <2>3. HostSound'
    BY <1>1, <2>2 DEF HostSound, Host, host
  <2>4. px' \in BOOLEAN
    BY <2>2
  <2>5. SweepTyped'
    BY <1>1, <2>1, <2>4 DEF SweepInv, SweepTyped
  <2>6. SweepSound'
    BY <1>1, <2>1, <2>2 DEF SweepInv, SweepSound
  <2>7. Swept
    BY <1>1, <2>1, <2>2 DEF Swept, host, Straight, Ordered
  <2> QED BY <2>3, <2>5, <2>6, <2>7 DEF SweepInv
<1> QED BY <1>3, <1>4, <1>5, <1>6, <1>7, <1>8 DEF SweepAct

\* Every step of the daemon.
LEMMA DaemonIsSwept ==
    ASSUME SweepInv, "daemon" \in Procs, DaemonNext
    PROVE  SweepInv' /\ Swept
<1>0. HostSound /\ SweepTyped /\ SweepSound
  BY DEF SweepInv
<1>1. ASSUME UNCHANGED net PROVE HostSound'
  BY <1>0, <1>1 DEF HostSound, Host, net, host
<1>2. CASE SweepLoad
  <2>1. /\ phase = "rest" /\ phase' = "poll" /\ UNCHANGED <<net, rows, px, cache, todo>>
        /\ op' \in {op, "stalled"} /\ seen' = [rows |-> rows, busy |-> op' = "live"]
    BY <1>2 DEF SweepLoad, LoadDesired
  <2>2. seen' \in [rows: Rows, busy: BOOLEAN] /\ seen'.rows = rows
    BY <1>0, <2>1 DEF SweepTyped
  <2>3. SweepTyped'
    BY <1>0, <2>1, <2>2 DEF SweepTyped
  <2>4. SweepSound'
    BY <1>0, <2>1, <2>2 DEF SweepSound, net
  <2>5. Swept
    BY <2>1, <2>2 DEF Swept, net, host, Straight, Ordered
  <2> QED BY <1>1, <2>1, <2>3, <2>4, <2>5 DEF SweepInv
<1>3. CASE SweepPoll
  <2>1. PICK o \in {Observation, cache}, present \in BOOLEAN, known \in BOOLEAN :
             cache' = o /\ todo' = Plan(o, present, known)
    BY <1>3 DEF SweepPoll
  <2>2. phase = "poll" /\ phase' = "act" /\ UNCHANGED <<net, rows, op, px, seen>>
    BY <1>3 DEF SweepPoll, table
  <2>3. PlanOf(o, todo')
    BY <1>0, <2>1, PlansAre DEF SweepTyped
  <2>4. cache' \in Observations
    BY <1>0, <2>1, ObservedIs DEF SweepTyped
  <2>5. SweepTyped'
    BY <1>0, <2>2, <2>3, <2>4 DEF SweepTyped, PlanOf
  <2>6. SweepSound'
    <3>1. mgr["daemon"].pc = "idle" /\ mgr' = mgr
      BY <1>0, <2>2 DEF SweepSound, net
    <3> QED BY <1>0, <2>2, <2>3, <3>1 DEF SweepSound, PlanOf, SlotPcs
  <2>7. Swept
    BY <2>2, <2>3 DEF Swept, net, host, PlanOf, Straight, Ordered
  <2> QED BY <1>1, <2>2, <2>5, <2>6, <2>7 DEF SweepInv
<1>4. CASE SweepAct
  BY <1>4, ActIsSwept
<1>5. CASE SweepRests
  <2>1. /\ phase' = "rest" /\ seen' = NoRows /\ UNCHANGED <<net, rows, op, px, cache, todo>> /\ todo = <<>>
        /\ mgr["daemon"].pc = "idle"
    BY <1>5 DEF SweepRests, Idle, table
  <2>2. seen' \in [rows: Rows, busy: BOOLEAN] /\ seen'.rows = {}
    BY <2>1 DEF NoRows, Rows
  <2>3. SweepTyped'
    BY <1>0, <2>1, <2>2 DEF SweepTyped
  <2>4. SweepSound'
    BY <1>0, <2>1, <2>2 DEF SweepSound, net
  <2>5. Swept
    BY <2>1, <2>2 DEF Swept, net, host, Straight, Ordered
  <2> QED BY <1>1, <2>1, <2>3, <2>4, <2>5 DEF SweepInv
<1>7. CASE DaemonStarts
  <2>1. /\ phase = "down" /\ phase' = "rest" /\ UNCHANGED <<net, rows, px, seen, cache, todo>>
        /\ op' \in {op, "stalled"}
    BY <1>7 DEF DaemonStarts, Recover
  <2>2. SweepTyped'
    BY <1>0, <2>1 DEF SweepTyped
  <2>3. SweepSound'
    BY <1>0, <2>1 DEF SweepSound, net
  <2>4. Swept
    BY <2>1 DEF Swept, net, host, Straight, Ordered
  <2> QED BY <1>1, <2>1, <2>2, <2>3, <2>4 DEF SweepInv
<1>6. CASE DaemonStep
  <2>1. Advance("daemon") /\ HostSound' /\ UNCHANGED <<rows, op, px, phase, seen, cache, todo>>
    BY <1>0, <1>6, ManagerAdvances DEF DaemonStep, table, sweep
  <2>2. SweepTyped'
    BY <1>0, <2>1 DEF SweepTyped
  <2>3. mgr["daemon"].pc # "idle" /\ mgr'["daemon"].pc \in NextPcs(mgr["daemon"].pc) \cup {"idle"}
    BY <2>1 DEF Advance
  <2>4. mgr["daemon"].pc \in ManagerPcs
    BY <1>0 DEF HostSound, Manager
  <2>5. mgr'["daemon"].pc \notin RemovePcs
    BY <1>0, <2>3, <2>4 DEF SweepSound, NextPcs, RemovePcs, GlobalPcs, SlotPcs, AddPcs, ManagerPcs
  <2>6. mgr["daemon"].pc \notin SlotPcs => mgr'["daemon"].pc \notin SlotPcs
    BY <1>0, <2>3, <2>4 DEF SweepSound, NextPcs, RemovePcs, GlobalPcs, SlotPcs, AddPcs
  <2>7. SweepSound'
    BY <1>0, <2>1, <2>3, <2>5, <2>6 DEF SweepSound
  <2>8. Swept
    BY <1>0, <2>1 DEF Swept, Advance, OnlyOf, Keeps, SweepSound, Straight, Ordered
  <2> QED BY <2>1, <2>2, <2>7, <2>8 DEF SweepInv
<1> QED BY <1>2, <1>3, <1>4, <1>5, <1>6, <1>7 DEF DaemonNext
-----------------------------------------------------------------------------
(* The stack of undos.  Every undo has a rank, and lies above those of a   *)
(* lower rank only: so each is there once, and the last one may be taken   *)
(* off without looking at the others.                                      *)

Rank(u) ==
    IF u = "ports" THEN 1 ELSE IF u = "netcfg" THEN 2 ELSE IF u = "fw" THEN 3 ELSE IF u = "dongle" THEN 4
    ELSE IF u = "slot" THEN 5 ELSE IF u = "attach" THEN 6 ELSE IF u = "row" THEN 7 ELSE 8

\* The undos on the stack at a stage are of a lower rank.
Level(s) ==
    IF s \in {"idle", "global", "firewall", "guard", "ports", "refused", "failed", "over", "done"} THEN 1
    ELSE IF s \in {"link", "check", "netcfg", "moved"} THEN 2
    ELSE IF s \in {"rediscover", "max_idle", "admit", "fw"} THEN 3
    ELSE IF s = "slot" THEN 5 ELSE IF s = "attach" THEN 6 ELSE IF s = "row" THEN 7 ELSE IF s = "apply" THEN 8 ELSE 9

Stacked(s) ==
    /\ s \in Seq(Undos)
    /\ \A i \in 1 .. Len(s) : Rank(s[i]) >= i
    /\ \A i, j \in 1 .. Len(s) : i < j => Rank(s[i]) < Rank(s[j])
Below(s, l) == \A i \in 1 .. Len(s) : Rank(s[i]) < l

LEMMA RankIs == \A u : Rank(u) \in 1 .. 8
  BY DEF Rank

LEMMA LevelIs == \A s : Level(s) \in 1 .. 9
  BY DEF Level

\* An undo of a higher rank is pushed.
LEMMA PushIs ==
    ASSUME NEW s, Stacked(s), NEW u \in Undos, Below(s, Rank(u))
    PROVE  /\ Stacked(Append(s, u)) /\ \A l \in Nat : Rank(u) < l => Below(Append(s, u), l)
           /\ \A a : In(a, Append(s, u)) <=> In(a, s) \/ a = u
<1> DEFINE t == Append(s, u)
<1>1. /\ t \in Seq(Undos) /\ Len(t) = Len(s) + 1 /\ Len(s) \in Nat
      /\ \A i \in 1 .. Len(s) : t[i] = s[i]
      /\ t[Len(s) + 1] = u
  BY AppendProperties, LenProperties DEF Stacked
<1> HIDE DEF t
<1>2. \A i \in 1 .. Len(t) : i \in 1 .. Len(s) \/ i = Len(s) + 1
  BY <1>1
<1>3. \A i \in 1 .. Len(s) : Rank(s[i]) >= i /\ Rank(s[i]) < Rank(u) /\ Rank(s[i]) \in Nat /\ Rank(u) \in Nat
  BY RankIs DEF Stacked, Below
<1>4. Rank(u) >= Len(s) + 1
  <2>1. CASE Len(s) = 0
    BY <2>1, RankIs
  <2>2. CASE Len(s) # 0
    <3>1. Len(s) \in 1 .. Len(s)
      BY <1>1, <2>2
    <3> QED BY <1>1, <1>3, <3>1
  <2> QED BY <2>1, <2>2
<1>5. \A i \in 1 .. Len(t) : Rank(t[i]) >= i
  BY <1>1, <1>2, <1>3, <1>4
<1>6. ASSUME NEW i \in 1 .. Len(t), NEW j \in 1 .. Len(t), i < j PROVE Rank(t[i]) < Rank(t[j])
  <2>1. i \in 1 .. Len(s) /\ t[i] = s[i]
    BY <1>1, <1>2, <1>6
  <2>2. CASE j \in 1 .. Len(s)
    BY <1>1, <1>6, <2>1, <2>2 DEF Stacked
  <2>3. CASE j = Len(s) + 1
    BY <1>1, <1>3, <2>1, <2>3
  <2> QED BY <1>2, <2>2, <2>3
<1>7. ASSUME NEW l \in Nat, Rank(u) < l PROVE Below(t, l)
  BY <1>1, <1>2, <1>3, <1>7, RankIs DEF Below
<1>8. ASSUME NEW a PROVE In(a, t) <=> In(a, s) \/ a = u
  <2>1. ASSUME In(a, s) PROVE In(a, t)
    <3>1. PICK i \in 1 .. Len(s) : s[i] = a
      BY <2>1 DEF In
    <3>2. i \in 1 .. Len(t)
      BY <1>1
    <3> QED BY <1>1, <3>1, <3>2 DEF In
  <2>2. Len(s) + 1 \in 1 .. Len(t)
    BY <1>1
  <2> QED BY <1>1, <1>2, <2>1, <2>2 DEF In
<1> QED BY <1>1, <1>5, <1>6, <1>7, <1>8 DEF Stacked, t

\* The last undo is taken off.
LEMMA PopIs ==
    ASSUME NEW s, Stacked(s), s # <<>>
    PROVE  LET t == SubSeq(s, 1, Len(s) - 1)
           IN  /\ Stacked(t) /\ Below(t, Rank(s[Len(s)])) /\ s[Len(s)] \in Undos
               /\ \A a : In(a, t) <=> In(a, s) /\ a # s[Len(s)]
<1> DEFINE t == SubSeq(s, 1, Len(s) - 1)
           n == Len(s)
<1>1. n \in Nat /\ n >= 1 /\ \A i \in 1 .. n : s[i] \in Undos
  BY LenProperties, EmptySeq, ElementOfSeq DEF Stacked
<1>2. \A i \in 1 .. n - 1 : s[i] \in Undos
  BY <1>1
<1>3. /\ t \in Seq(Undos) /\ Len(t) = (IF 1 <= n - 1 THEN n - 1 - 1 + 1 ELSE 0)
      /\ \A i \in 1 .. n - 1 - 1 + 1 : t[i] = s[1 + i - 1]
  <2>1. 1 \in Int /\ n - 1 \in Int
    BY <1>1
  <2> QED BY <1>2, <2>1, SubSeqProperties
<1> HIDE DEF t, n
<1>4. Len(t) = n - 1 /\ \A i \in 1 .. n - 1 : t[i] = s[i]
  <2>1. n - 1 - 1 + 1 = n - 1 /\ \A i \in 1 .. n - 1 : 1 + i - 1 = i
    BY <1>1
  <2>2. Len(t) = n - 1
    BY <1>1, <1>3
  <2>3. ASSUME NEW i \in 1 .. n - 1 PROVE t[i] = s[i]
    BY <1>3, <2>1
  <2> QED BY <2>2, <2>3
<1>5. \A i \in 1 .. n - 1 : i \in 1 .. n /\ i < n /\ n \in 1 .. n
  BY <1>1
<1>6. /\ \A i \in 1 .. n : Rank(s[i]) >= i
      /\ \A i, j \in 1 .. n : i < j => Rank(s[i]) < Rank(s[j])
  BY DEF Stacked, n
<1>7. Stacked(t)
  BY <1>3, <1>4, <1>5, <1>6 DEF Stacked
<1>8. Below(t, Rank(s[n]))
  BY <1>4, <1>5, <1>6 DEF Below
<1>9. ASSUME NEW a PROVE In(a, t) <=> In(a, s) /\ a # s[n]
  <2>1. ASSUME In(a, t) PROVE In(a, s) /\ a # s[n]
    <3>1. PICK i \in 1 .. n - 1 : s[i] = a
      BY <1>4, <2>1 DEF In
    <3>2. i \in 1 .. n /\ n \in 1 .. n /\ Rank(s[i]) < Rank(s[n])
      BY <1>5, <1>6
    <3>3. a # s[n]
      BY <3>1, <3>2, RankIs
    <3> QED BY <3>1, <3>2, <3>3 DEF In, n
  <2>2. ASSUME In(a, s), a # s[n] PROVE In(a, t)
    <3>1. PICK i \in 1 .. n : s[i] = a
      BY <2>2 DEF In, n
    <3>2. i \in 1 .. n - 1
      BY <1>1, <2>2, <3>1
    <3> QED BY <1>4, <3>1, <3>2 DEF In
  <2> QED BY <2>1, <2>2
<1>10. n \in 1 .. n
  BY <1>1
<1>11. s[n] \in Undos
  BY <1>1, <1>10
<1> QED BY <1>7, <1>8, <1>9, <1>11 DEF t, n

\* Ranks that lie below a level lie below a higher one.
LEMMA BelowMore ==
    ASSUME NEW s, NEW l \in Nat, NEW m \in Nat, Below(s, l), l <= m
    PROVE  Below(s, m)
  BY RankIs DEF Below

\* Nothing is below rank one, and an empty stack is below any.
LEMMA EmptyStack ==
    /\ Stacked(<<>>) /\ (\A l : Below(<<>>, l)) /\ \A a : ~In(a, <<>>)
    /\ \A s \in Seq(Undos) : \A a : Below(s, 1) => ~In(a, s)
<1>1. <<>> \in Seq(Undos) /\ Len(<<>>) = 0 /\ 1 .. 0 = {}
  BY EmptySeq
<1>2. \A s \in Seq(Undos) : \A a : Below(s, 1) => ~In(a, s)
  BY RankIs DEF Below, In
<1> QED BY <1>1, <1>2 DEF Stacked, Below, In
-----------------------------------------------------------------------------
(* The inductive invariant of the command.                                 *)

StageTyped ==
    /\ at \in Stages /\ off \in BOOLEAN /\ before \in Rows /\ leftover \subseteq Undos \cup {"paths"}
    /\ dev \in [lan: {"factory", "slot"}, idle: BOOLEAN]

\* The stack is in order and holds what the stages so far have pushed.
StackSound == Stacked(undo) /\ Below(undo, Level(at))

\* The command has neither ended nor given up: no undo has run.
Forward == at \notin {"unwind", "failed", "done", "over"}

\* The undo u is still on the stack, or has failed.
Owed(u) == In(u, undo) \/ u \in leftover

\* A row that was not there is one that every undo that would take it away is
\* owed for, but for the undo of a slot row that was there and has none.
RowOwed(r) ==
    \A u \in {"dongle", "slot", "attach", "row"} :
        r \in Takes[u] => Owed(u) \/ (u = "slot" /\ "slot" \in before)

\* The rows are those of the beginning and those an undo is owed for, and so
\* with the ports; no undo takes a row of the beginning away.
RowsAre ==
    at \notin {"done", "over"} =>
        /\ before \subseteq {"slot"} /\ before \subseteq rows
        /\ \A r \in rows : r \notin before => RowOwed(r)
        /\ In("slot", undo) => "slot" \notin before
        /\ off => Owed("ports")
        /\ Forward => leftover \subseteq {"paths"}

\* The calls a stage makes of the manager; elsewhere it is idle.
CallAt(s) ==
    IF s = "firewall" THEN GlobalPcs
    ELSE IF s = "moved" THEN GlobalPcs \cup SlotPcs
    ELSE IF s = "fw" THEN AddPcs
    ELSE IF s = "unwind" THEN RemovePcs ELSE {}
CallsAre == mgr["cli"].pc \in CallAt(at) \cup {"idle"}

\* What is in place from a stage on.
WithFiles == {"rediscover", "max_idle", "admit", "fw", "slot", "attach", "row", "apply", "selftest"}
WithIdle  == {"admit", "fw", "slot", "attach", "row", "apply", "selftest"}
WithSets  == {"slot", "attach", "row", "apply", "selftest"}
Written   == GlobalPcs \cup {"link_down", "udev", "reload"}

FilesPlaced ==
    /\ at = "moved" /\ mgr["cli"].pc = "write_link" => "net" \in files
    /\ at = "moved" /\ (mgr["cli"].pc \in Written \/ Ok) => files = {"net", "link"}
    /\ at \in WithFiles => files = {"net", "link"}
    /\ at \in WithIdle => dev.idle
SetsPlaced ==
    /\ at = "fw" /\ mgr["cli"].pc = "add_gateway" => "iface" \in sets
    /\ at = "fw" /\ Ok => sets = Ruleset
    /\ at \in WithSets => sets = Ruleset
RowsPlaced ==
    /\ at \in WithSets => "dongle" \in rows
    /\ at \in {"attach", "row", "apply", "selftest"} => "slot" \in rows
    /\ at \in {"row", "apply", "selftest"} => "attached" \in rows
    /\ at \in {"apply", "selftest"} => "proxy" \in rows

CliInv ==
    /\ StageTyped /\ StackSound /\ RowsAre /\ CallsAre
    /\ FilesPlaced /\ SetsPlaced /\ RowsPlaced

\* With all of it the command is safe, whatever the daemon does beside it.
EnrolInv == SweepInv /\ CliInv /\ (Forward => Straight)

\* The stack stays, and the stage is no lower.
LEMMA StackStays ==
    ASSUME StackSound, undo' = undo, Level(at) <= Level(at')
    PROVE  StackSound'
<1>1. Below(undo, Level(at'))
  BY LevelIs, BelowMore DEF StackSound
<1>2. Level(at)' = Level(at')
  BY DEF Level
<1> QED BY <1>1, <1>2 DEF StackSound

\* The stack grows by an undo of its stage.
LEMMA StackGrows ==
    ASSUME StackSound, NEW u \in Undos, undo' = Append(undo, u), Level(at) <= Rank(u), Rank(u) < Level(at')
    PROVE  StackSound' /\ \A a : In(a, undo') <=> In(a, undo) \/ a = u
<1>1. Below(undo, Rank(u))
  BY LevelIs, RankIs, BelowMore DEF StackSound
<1>2. /\ Stacked(Append(undo, u)) /\ \A l \in Nat : Rank(u) < l => Below(Append(undo, u), l)
      /\ \A a : In(a, Append(undo, u)) <=> In(a, undo) \/ a = u
  BY <1>1, PushIs DEF StackSound
<1>3. Below(undo', Level(at'))
  BY <1>2, LevelIs
<1>4. Stacked(undo') /\ \A a : In(a, undo') <=> In(a, undo) \/ a = u
  BY <1>2
<1>5. Level(at)' = Level(at')
  BY DEF Level
<1> QED BY <1>3, <1>4, <1>5 DEF StackSound

\* What is left of the stack is still in order.
LEMMA StackShrinks ==
    ASSUME StackSound, at = "unwind", at' = "unwind", undo # <<>>, NEW u, undo[Len(undo)] = u,
           undo' = SubSeq(undo, 1, Len(undo) - 1)
    PROVE  /\ StackSound' /\ u \in Undos
           /\ \A a : In(a, undo') <=> In(a, undo) /\ a # u
           /\ Below(undo', Rank(u))
<1>1. /\ Stacked(undo') /\ Below(undo', Rank(u)) /\ u \in Undos
      /\ \A a : In(a, undo') <=> In(a, undo) /\ a # u
  BY PopIs DEF StackSound
<1>2. Below(undo', Level(at'))
  <2>1. Rank(u) <= Level(at')
    BY RankIs DEF Level
  <2> QED BY <1>1, <2>1, RankIs, LevelIs, BelowMore
<1>3. Level(at)' = Level(at')
  BY DEF Level
<1> QED BY <1>1, <1>2, <1>3 DEF StackSound

\* An empty stack is in order at any stage.
LEMMA StackEmpty ==
    ASSUME undo' = <<>>
    PROVE  StackSound' /\ \A a : ~In(a, undo')
<1>1. Stacked(undo') /\ (\A l : Below(undo', l)) /\ \A a : ~In(a, undo')
  BY EmptyStack
<1> QED BY <1>1 DEF StackSound

\* What is owed stays owed, and the rows stay what they are.
LEMMA RowsStay ==
    ASSUME RowsAre, UNCHANGED <<rows, before>>, at \notin {"done", "over"} \/ at' = "over",
           \A a : Owed(a) => Owed(a)', In("slot", undo') => In("slot", undo),
           off' => Owed("ports")', Forward' => Forward /\ UNCHANGED leftover
    PROVE  RowsAre'
<1> SUFFICES ASSUME at' \notin {"done", "over"} PROVE RowsAre'
  BY DEF RowsAre
<1>1. \A r \in rows' : r \notin before' => RowOwed(r)'
  BY DEF RowsAre, RowOwed
<1> QED BY <1>1 DEF RowsAre

\* A row more, which the undos that take it away are owed for.
LEMMA RowsGrow ==
    ASSUME RowsAre, at \notin {"done", "over"}, before' = before, rows \subseteq rows',
           \A r \in rows' : r \notin rows => RowOwed(r)',
           \A a : Owed(a) => Owed(a)', In("slot", undo') => "slot" \notin before,
           off' => Owed("ports")', Forward' => leftover' \subseteq {"paths"}
    PROVE  RowsAre'
<1>1. \A r \in rows' : r \notin before' => RowOwed(r)'
  BY DEF RowsAre, RowOwed
<1> QED BY <1>1 DEF RowsAre

\* Until the command gives up no undo is owed for but on the stack.
LEMMA OnTheStack ==
    ASSUME CliInv, Forward, NEW u \in Undos, Owed(u)
    PROVE  In(u, undo)
  BY DEF CliInv, RowsAre, Forward, Owed, Undos

\* A slot has a proxy only while a dongle is attached to it, until the command
\* gives up: the row is made behind the link.
LEMMA ForwardIsOrdered ==
    ASSUME CliInv, Forward, rows \in Rows
    PROVE  Ordered(rows)
<1> SUFFICES ASSUME "proxy" \in rows PROVE "attached" \in rows
  BY DEF Ordered
<1>1. Owed("row")
  <2>1. "proxy" \in Takes["row"]
    BY DEF Takes
  <2>2. "proxy" \notin before /\ RowOwed("proxy")
    BY DEF CliInv, RowsAre, Forward
  <2> QED BY <2>1, <2>2 DEF RowOwed
<1>2. In("row", undo)
  BY <1>1, OnTheStack DEF Undos
<1>3. Rank("row") = 7
  BY DEF Rank
<1>4. ~(Level(at) <= 7)
  <2>1. Below(undo, Level(at))
    BY DEF CliInv, StackSound
  <2>2. PICK i \in 1 .. Len(undo) : undo[i] = "row"
    BY <1>2 DEF In
  <2> QED BY <1>3, <2>1, <2>2, LevelIs DEF Below
<1>5. at \in {"apply", "selftest"}
  <2>1. at \in Stages /\ at \notin {"unwind", "failed", "done", "over"}
    BY DEF Forward, CliInv, StageTyped
  <2>2. \/ at \in {"idle", "global", "firewall", "guard", "ports", "refused"}
        \/ at \in {"link", "check", "netcfg", "moved"}
        \/ at \in {"rediscover", "max_idle", "admit", "fw"}
        \/ at \in {"slot", "attach", "row"}
        \/ at \in {"apply", "selftest"}
    BY <2>1 DEF Stages
  <2>3. at \in {"idle", "global", "firewall", "guard", "ports", "refused"} => Level(at) = 1
    BY DEF Level
  <2>4. at \in {"link", "check", "netcfg", "moved"} => Level(at) = 2
    BY DEF Level
  <2>5. at \in {"rediscover", "max_idle", "admit", "fw"} => Level(at) = 3
    BY DEF Level
  <2>6. at \in {"slot", "attach", "row"} => Level(at) \in {5, 6, 7}
    BY DEF Level
  <2> QED BY <1>4, <2>2, <2>3, <2>4, <2>5, <2>6
<1> QED BY <1>5 DEF CliInv, RowsPlaced
-----------------------------------------------------------------------------
(* The checks of the command, which change neither the host nor the rows.  *)

\* What a step of that kind has to see to.
LEMMA QuietIs ==
    ASSUME CliInv, UNCHANGED <<rows, before, files, sets, mgr>>, mgr["cli"].pc = "idle",
           at' \in Stages \ ({"firewall", "moved", "fw", "done", "attach", "row", "apply", "selftest"}),
           at' # "slot", at \notin {"done", "over"} \/ at' = "over",
           off' \in BOOLEAN, dev' \in [lan: {"factory", "slot"}, idle: BOOLEAN],
           StackSound', \A a : In(a, undo) => In(a, undo'), In("slot", undo') => In("slot", undo),
           leftover \subseteq leftover', leftover' \subseteq Undos \cup {"paths"},
           off' => Owed("ports")', Forward' => Forward /\ UNCHANGED leftover,
           at' \in WithFiles => at \in WithFiles \/ (at = "moved" /\ Ok),
           at' \in WithIdle => dev'.idle
    PROVE  CliInv'
<1>1. StageTyped'
  BY DEF CliInv, StageTyped
<1>2. RowsAre'
  <2>1. \A a : Owed(a) => Owed(a)'
    BY DEF Owed
  <2> QED BY <2>1, RowsStay DEF CliInv
<1>3. CallsAre'
  BY DEF CliInv, CallsAre
<1>4. FilesPlaced'
  BY DEF CliInv, FilesPlaced
<1>5. SetsPlaced' /\ RowsPlaced'
  BY DEF SetsPlaced, RowsPlaced, WithSets
<1> QED BY <1>1, <1>2, <1>3, <1>4, <1>5 DEF CliInv

\* No call is under way at these stages.
LEMMA NoCall ==
    ASSUME CliInv, at \notin {"firewall", "moved", "fw", "unwind"}
    PROVE  mgr["cli"].pc = "idle"
  BY DEF CliInv, CallsAre, CallAt

\* The checks of Enroller.run.
LEMMA ChecksKeep ==
    ASSUME CliInv, GuardAddresses \/ AwaitLink \/ CheckDongle \/ RediscoverSlot \/ CliEnds
    PROVE  CliInv'
<1>1. /\ UNCHANGED <<rows, before, files, sets, mgr, undo, dev, off>> /\ leftover' \in {leftover, {}}
      /\ leftover' = leftover \/ at' = "over"
      /\ \/ at \in {"guard", "link", "check", "rediscover"} /\ at' \in {"ports", "check", "netcfg", "max_idle", "unwind"}
         \/ at \in {"failed", "done", "refused"} /\ at' = "over"
      /\ at' \in WithFiles => at \in WithFiles
      /\ Level(at) <= Level(at')
  <2>1. CASE GuardAddresses
    BY <2>1 DEF GuardAddresses, Then, Fail, Others, net, host, table, Level, WithFiles
  <2>2. CASE AwaitLink
    BY <2>2 DEF AwaitLink, Then, Fail, Others, net, host, table, Level, WithFiles
  <2>3. CASE CheckDongle
    BY <2>3 DEF CheckDongle, Then, Fail, Others, net, host, table, Level, WithFiles
  <2>4. CASE RediscoverSlot
    BY <2>4 DEF RediscoverSlot, Then, Fail, Others, net, host, table, Level, WithFiles
  <2>5. CASE CliEnds
    BY <2>5 DEF CliEnds, Then, net, host, table, Level, WithFiles
  <2> QED BY <2>1, <2>2, <2>3, <2>4, <2>5
<1>2. mgr["cli"].pc = "idle"
  BY <1>1, NoCall
<1>3. StackSound'
  BY <1>1, StackStays DEF CliInv
<1>4. off' => Owed("ports")' \/ at' = "over"
  BY <1>1 DEF CliInv, RowsAre, Owed
<1>5. CASE at \in {"guard", "link", "check", "rediscover"} /\ at' \in {"ports", "check", "netcfg", "max_idle", "unwind"}
  <2>1. (off' => Owed("ports")') /\ leftover' = leftover /\ Forward /\ leftover \subseteq Undos \cup {"paths"}
    BY <1>1, <1>4, <1>5 DEF Forward, CliInv, StageTyped
  <2>2. /\ off' \in BOOLEAN /\ dev' \in [lan: {"factory", "slot"}, idle: BOOLEAN]
        /\ at' \in Stages \ ({"firewall", "moved", "fw", "done", "attach", "row", "apply", "selftest"})
        /\ at' # "slot" /\ at \notin {"done", "over"} /\ at' \notin WithIdle
    BY <1>1, <1>5 DEF CliInv, StageTyped, Stages, WithIdle
  <2> QED BY <1>1, <1>2, <1>3, <2>1, <2>2, QuietIs
<1>6. CASE at \in {"failed", "done", "refused"} /\ at' = "over"
  <2>1. StageTyped'
    BY <1>1, <1>6 DEF CliInv, StageTyped, Stages
  <2>2. RowsAre' /\ CallsAre'
    BY <1>1, <1>2, <1>6 DEF CliInv, RowsAre, CallsAre
  <2>3. FilesPlaced' /\ SetsPlaced' /\ RowsPlaced'
    BY <1>6 DEF FilesPlaced, SetsPlaced, RowsPlaced, WithFiles, WithIdle, WithSets
  <2> QED BY <1>3, <2>1, <2>2, <2>3 DEF CliInv
<1> QED BY <1>1, <1>5, <1>6

\* guardPorts, whose undo is on the stack or owed for as long as ports are off.
LEMMA GuardPortsKeeps ==
    ASSUME CliInv, GuardPorts
    PROVE  CliInv'
<1>1. /\ at = "ports" /\ UNCHANGED <<rows, before, files, sets, mgr, dev>>
      /\ \/ off' = TRUE /\ undo' = Append(undo, "ports") /\ at' = "link" /\ leftover' = leftover
         \/ off' = off /\ undo' = undo /\ at' \in {"link", "unwind"} /\ leftover' = leftover
         \/ off' = TRUE /\ undo' = undo /\ at' = "unwind" /\ leftover' = leftover \cup {"ports"}
  BY DEF GuardPorts, Push, Then, Fail, net, host, table
<1>2. mgr["cli"].pc = "idle"
  BY <1>1, NoCall
<1>3. /\ off' \in BOOLEAN /\ dev' \in [lan: {"factory", "slot"}, idle: BOOLEAN]
      /\ at' \in Stages \ ({"firewall", "moved", "fw", "done", "attach", "row", "apply", "selftest"})
      /\ at' # "slot" /\ at \notin {"done", "over"} /\ at' \notin WithIdle /\ at' \notin WithFiles
      /\ Forward /\ leftover \subseteq Undos \cup {"paths"} /\ leftover' \subseteq Undos \cup {"paths"}
  BY <1>1 DEF CliInv, StageTyped, Stages, WithIdle, WithFiles, Forward, Undos
<1>4. CASE off' = TRUE /\ undo' = Append(undo, "ports") /\ at' = "link" /\ leftover' = leftover
  <2>1. "ports" \in Undos /\ Level(at) <= Rank("ports") /\ Rank("ports") < Level(at')
    BY <1>1, <1>4 DEF Level, Rank, Undos
  <2>2. StackSound' /\ \A a : In(a, undo') <=> In(a, undo) \/ a = "ports"
    BY <1>4, <2>1, StackGrows DEF CliInv
  <2>3. Owed("ports")'
    BY <2>2 DEF Owed
  <2> QED BY <1>1, <1>2, <1>3, <1>4, <2>2, <2>3, QuietIs
<1>5. CASE off' = off /\ undo' = undo /\ at' \in {"link", "unwind"} /\ leftover' = leftover
  <2>1. Level(at) <= Level(at')
    BY <1>1, <1>5 DEF Level
  <2>2. StackSound'
    BY <1>5, <2>1, StackStays DEF CliInv
  <2>3. off' => Owed("ports")'
    BY <1>1, <1>5 DEF CliInv, RowsAre, Owed
  <2> QED BY <1>1, <1>2, <1>3, <1>5, <2>2, <2>3, QuietIs
<1>6. CASE off' = TRUE /\ undo' = undo /\ at' = "unwind" /\ leftover' = leftover \cup {"ports"}
  <2>1. Level(at) <= Level(at')
    BY <1>1, <1>6 DEF Level
  <2>2. StackSound'
    BY <1>6, <2>1, StackStays DEF CliInv
  <2>3. Owed("ports")' /\ ~Forward'
    BY <1>6 DEF Owed, Forward
  <2> QED BY <1>1, <1>2, <1>3, <1>6, <2>2, <2>3, QuietIs
<1> QED BY <1>1, <1>4, <1>5, <1>6

\* moveLanIP: the slot is on the stack once the files are there.
LEMMA MoveLanIPKeeps ==
    ASSUME CliInv, MoveLanIP
    PROVE  CliInv'
<1>1. /\ at = "moved" /\ UNCHANGED <<rows, before, leftover, files, sets, mgr, off>> /\ mgr["cli"].pc = "idle"
      /\ dev' \in [lan: {"factory", "slot"}, idle: BOOLEAN]
      /\ \/ undo' = undo /\ at' = "unwind"
         \/ Ok /\ undo' = Append(undo, "netcfg") /\ at' \in {"rediscover", "max_idle", "unwind"}
  BY DEF MoveLanIP, Push, Fail, Ok, Err, Idle, Others, net, host, table, CliInv, StageTyped
<1>2. /\ off' \in BOOLEAN
      /\ at' \in Stages \ ({"firewall", "moved", "fw", "done", "attach", "row", "apply", "selftest"})
      /\ at' # "slot" /\ at \notin {"done", "over"} /\ at' \notin WithIdle /\ "unwind" \notin WithFiles
      /\ Forward /\ leftover \subseteq Undos \cup {"paths"}
  BY <1>1 DEF CliInv, StageTyped, Stages, WithIdle, WithFiles, Forward
<1>3. off => Owed("ports")
  BY <1>1 DEF CliInv, RowsAre
<1>4. CASE undo' = undo /\ at' = "unwind"
  <2>1. Level(at) <= Level(at')
    BY <1>1, <1>4 DEF Level
  <2>2. StackSound'
    BY <1>4, <2>1, StackStays DEF CliInv
  <2>3. off' => Owed("ports")'
    BY <1>1, <1>3, <1>4 DEF Owed
  <2> QED BY <1>1, <1>2, <1>4, <2>2, <2>3, QuietIs
<1>5. CASE Ok /\ undo' = Append(undo, "netcfg") /\ at' \in {"rediscover", "max_idle", "unwind"}
  <2>1. "netcfg" \in Undos /\ Level(at) <= Rank("netcfg") /\ Rank("netcfg") < Level(at')
    BY <1>1, <1>5 DEF Level, Rank, Undos
  <2>2. StackSound' /\ \A a : In(a, undo') <=> In(a, undo) \/ a = "netcfg"
    BY <1>5, <2>1, StackGrows DEF CliInv
  <2>3. off' => Owed("ports")'
    BY <1>1, <1>3, <2>2 DEF Owed
  <2> QED BY <1>1, <1>2, <1>5, <2>2, <2>3, QuietIs
<1> QED BY <1>1, <1>4, <1>5

\* disableMaxIdle, which the stage behind it counts on.
LEMMA DisableMaxIdleKeeps ==
    ASSUME CliInv, DisableMaxIdle
    PROVE  CliInv'
<1>1. /\ at = "max_idle" /\ UNCHANGED <<rows, before, leftover, files, sets, mgr, off, undo>>
      /\ \/ dev' = [dev EXCEPT !.idle = TRUE] /\ at' = "admit"
         \/ dev' = dev /\ at' = "unwind"
  BY DEF DisableMaxIdle, Then, Fail, Others, net, host, table
<1>2. mgr["cli"].pc = "idle" /\ at \in WithFiles
  BY <1>1, NoCall DEF WithFiles
<1>3. /\ off' \in BOOLEAN /\ dev' \in [lan: {"factory", "slot"}, idle: BOOLEAN]
      /\ at' \in Stages \ ({"firewall", "moved", "fw", "done", "attach", "row", "apply", "selftest"})
      /\ at' # "slot" /\ at \notin {"done", "over"} /\ (at' \in WithIdle => dev'.idle)
      /\ Forward /\ leftover \subseteq Undos \cup {"paths"}
  BY <1>1 DEF CliInv, StageTyped, Stages, WithIdle, Forward
<1>4. Level(at) <= Level(at')
  BY <1>1 DEF Level
<1>5. StackSound' /\ (off' => Owed("ports")')
  BY <1>1, <1>4, StackStays DEF CliInv, RowsAre, Owed
<1> QED BY <1>1, <1>2, <1>3, <1>5, QuietIs
-----------------------------------------------------------------------------
(* The calls the command makes of its manager.                             *)

\* A stage that makes a call, or ends with one, and leaves the rows alone.
LEMMA CallIs ==
    ASSUME CliInv, UNCHANGED <<rows, before, dev, off, leftover>>, at' \in Stages \ {"done", "over"},
           at \notin {"done", "over"}, Forward' => Forward,
           StackSound', \A a : In(a, undo') <=> In(a, undo), CallsAre', FilesPlaced', SetsPlaced', RowsPlaced'
    PROVE  CliInv'
<1>1. StageTyped'
  BY DEF CliInv, StageTyped
<1>2. RowsAre'
  <2>1. \A a : Owed(a) <=> Owed(a)'
    BY DEF Owed
  <2>2. off => Owed("ports")
    BY DEF CliInv, RowsAre
  <2> QED BY <2>1, <2>2, RowsStay DEF CliInv
<1> QED BY <1>1, <1>2 DEF CliInv

\* enrollCmd.run, up to the operation.
LEMMA CmdKeeps ==
    ASSUME HostSound, CliInv, "cli" \in Procs, EnrollCmd \/ EnrollCmdGlobal
    PROVE  /\ CliInv' /\ HostSound' /\ OnlyOf("cli")
           /\ UNCHANGED <<rows, px, op, phase, seen, cache, todo>>
<1>1. CASE EnrollCmd
  <2>1. Begun("cli", {}) /\ mgr'["cli"].pc = "idle"
    BY <1>1, NamesBegun DEF EnrollCmd
  <2>2. HostSound' /\ OnlyOf("cli")
    BY <2>1, BegunIsSound DEF Begun
  <2>3. /\ at = "idle" /\ at' \in {"global", "refused"} /\ undo' = undo
        /\ UNCHANGED <<rows, before, dev, off, leftover, px, op, phase, seen, cache, todo>>
    BY <1>1 DEF EnrollCmd, Then, table, sweep
  <2>4. Level(at) <= Level(at')
    BY <2>3 DEF Level
  <2>5. StackSound'
    BY <2>3, <2>4, StackStays DEF CliInv
  <2>6. CallsAre' /\ FilesPlaced' /\ SetsPlaced' /\ RowsPlaced'
    BY <2>1, <2>3 DEF CallsAre, FilesPlaced, SetsPlaced, RowsPlaced, WithFiles, WithIdle, WithSets
  <2>7. at' \in Stages \ {"done", "over"} /\ at \notin {"done", "over"} /\ Forward
    BY <2>3 DEF Stages, Forward
  <2> QED BY <2>2, <2>3, <2>5, <2>6, <2>7, CallIs
<1>2. CASE EnrollCmdGlobal
  <2>1. Begun("cli", {"read_rules"}) /\ mgr'["cli"].pc = "read_rules"
    BY <1>2, GlobalBegun DEF EnrollCmdGlobal
  <2>2. HostSound' /\ OnlyOf("cli")
    BY <2>1, BegunIsSound DEF Begun
  <2>3. /\ at = "global" /\ at' = "firewall" /\ undo' = undo
        /\ UNCHANGED <<rows, before, dev, off, leftover, px, op, phase, seen, cache, todo>>
    BY <1>2 DEF EnrollCmdGlobal, Then, table, sweep
  <2>4. Level(at) <= Level(at')
    BY <2>3 DEF Level
  <2>5. StackSound'
    BY <2>3, <2>4, StackStays DEF CliInv
  <2>6. CallsAre' /\ FilesPlaced' /\ SetsPlaced' /\ RowsPlaced'
    BY <2>1, <2>3
       DEF CallsAre, CallAt, GlobalPcs, FilesPlaced, SetsPlaced, RowsPlaced, WithFiles, WithIdle, WithSets
  <2>7. at' \in Stages \ {"done", "over"} /\ at \notin {"done", "over"} /\ Forward
    BY <2>3 DEF Stages, Forward
  <2> QED BY <2>2, <2>3, <2>5, <2>6, <2>7, CallIs
<1> QED BY <1>1, <1>2

\* Enroll takes the operation; the rows it begins with are what it is undone to.
LEMMA EnrollBeginsKeeps ==
    ASSUME SweepTyped, CliInv, EnrollBegins
    PROVE  /\ CliInv' /\ UNCHANGED <<net, rows, px, phase, seen, cache, todo>>
           /\ op' \in {"none", "live", "finished", "stalled"}
<1>1. /\ at = "firewall" /\ mgr["cli"].pc = "idle" /\ undo' = undo
      /\ UNCHANGED <<net, rows, px, sweep, dev, off, leftover>>
      /\ \/ at' = "guard" /\ before' = rows
         \/ at' = "refused" /\ before' = before
      /\ op' \in {op, "live"}
  BY DEF EnrollBegins, Then, Ok, Err, Idle
<1>2. mgr' = mgr /\ UNCHANGED <<phase, seen, cache, todo>>
  BY <1>1 DEF net, sweep
<1>3. Level(at) <= Level(at')
  BY <1>1 DEF Level
<1>4. StackSound'
  BY <1>1, <1>3, StackStays DEF CliInv
<1>5. \A a : ~In(a, undo)
  <2>1. Level(at) = 1
    BY <1>1 DEF Level
  <2> QED BY <2>1, EmptyStack DEF CliInv, StackSound, Stacked
<1>6. rows \in Rows
  BY DEF SweepTyped
<1>7. rows \subseteq {"slot"} /\ ~off /\ leftover \subseteq {"paths"}
  <2>1. Forward /\ RowsAre /\ at \notin {"done", "over"}
    BY <1>1 DEF Forward, CliInv
  <2>2. leftover \subseteq {"paths"} /\ \A u \in Undos : ~Owed(u)
    BY <1>5, <2>1 DEF RowsAre, Owed, Undos
  <2>3. Takes["dongle"] = {"dongle", "attached"} /\ Takes["row"] = {"proxy"}
    BY DEF Takes
  <2>4. \A r \in {"dongle", "attached", "proxy"} : r \in rows => RowOwed(r)
    BY <2>1 DEF RowsAre
  <2>5. \A r \in {"dongle", "attached", "proxy"} : r \notin rows
    BY <2>2, <2>3, <2>4 DEF RowOwed, Undos
  <2> QED BY <1>6, <2>1, <2>2, <2>5 DEF RowsAre, Rows, Undos
<1>8. StageTyped'
  BY <1>1, <1>6 DEF CliInv, StageTyped, Stages
<1>9. RowsAre'
  <2>1. CASE at' = "guard" /\ before' = rows
    BY <1>1, <1>5, <1>7, <2>1 DEF RowsAre
  <2>2. CASE at' = "refused" /\ before' = before
    <3>1. /\ Forward /\ RowsAre /\ UNCHANGED <<rows, before, leftover, undo>> /\ ~off' /\ at \notin {"done", "over"}
          /\ \A a : Owed(a) => Owed(a)'
      BY <1>1, <1>7, <2>2 DEF Forward, CliInv, Owed
    <3> QED BY <3>1, RowsStay
  <2> QED BY <1>1, <2>1, <2>2
<1>10. CallsAre'
  BY <1>1, <1>2 DEF CallsAre, CliInv
<1>11. FilesPlaced' /\ SetsPlaced' /\ RowsPlaced'
  BY <1>1 DEF FilesPlaced, SetsPlaced, RowsPlaced, WithFiles, WithIdle, WithSets
<1> QED BY <1>1, <1>2, <1>4, <1>8, <1>9, <1>10, <1>11 DEF CliInv, SweepTyped

\* ApplySlot and AddDongle begin.
LEMMA EnrolNetcfgKeeps ==
    ASSUME HostSound, CliInv, "cli" \in Procs, EnrolNetcfg
    PROVE  /\ CliInv' /\ HostSound' /\ OnlyOf("cli")
           /\ UNCHANGED <<rows, px, op, phase, seen, cache, todo>>
<1>0. /\ undo' = undo /\ UNCHANGED <<rows, before, dev, off, leftover, px, op, phase, seen, cache, todo>>
      /\ (at = "netcfg" /\ at' = "moved") \/ (at = "admit" /\ at' = "fw")
  BY DEF EnrolNetcfg, Then, table, sweep
<1>1. Level(at) <= Level(at')
  BY <1>0 DEF Level
<1>2. StackSound'
  BY <1>0, <1>1, StackStays DEF CliInv
<1>3. at' \in Stages \ {"done", "over"} /\ at \notin {"done", "over"} /\ Forward
  BY <1>0 DEF Stages, Forward
<1>4. CASE at = "netcfg" /\ ApplySlot("cli")
  <2>1. Begun("cli", {"write_net"}) /\ (mgr'["cli"].pc = "idle" => mgr'["cli"].res = "error")
    BY <1>4, SlotBegun
  <2>2. HostSound' /\ OnlyOf("cli")
    BY <2>1, BegunIsSound DEF Begun
  <2>3. CallsAre' /\ FilesPlaced'
    BY <1>0, <1>4, <2>1
       DEF Begun, CallsAre, CallAt, SlotPcs, FilesPlaced, WithFiles, WithIdle, Written, GlobalPcs, Ok, Idle
  <2>4. SetsPlaced' /\ RowsPlaced'
    BY <1>0, <1>4 DEF SetsPlaced, RowsPlaced, WithSets
  <2> QED BY <1>0, <1>2, <1>3, <2>2, <2>3, <2>4, CallIs
<1>5. CASE at = "admit" /\ AddDongle("cli")
  <2>1. Begun("cli", {"add_iface"}) /\ mgr'["cli"].pc = "add_iface"
    BY <1>5, AddBegun
  <2>2. HostSound' /\ OnlyOf("cli")
    BY <2>1, BegunIsSound DEF Begun
  <2>3. CallsAre' /\ FilesPlaced'
    BY <1>0, <1>5, <2>1 DEF Begun, CallsAre, CallAt, AddPcs, CliInv, FilesPlaced, WithFiles, WithIdle
  <2>4. SetsPlaced' /\ RowsPlaced'
    BY <1>0, <1>5, <2>1 DEF SetsPlaced, RowsPlaced, WithSets, Ok, Idle
  <2> QED BY <1>0, <1>2, <1>3, <2>2, <2>3, <2>4, CallIs
<1> QED BY <1>0, <1>4, <1>5 DEF EnrolNetcfg

\* The manager of the command goes on.
LEMMA CliStepKeeps ==
    ASSUME HostSound, CliInv, "cli" \in Procs, CliStep
    PROVE  /\ CliInv' /\ HostSound' /\ OnlyOf("cli")
           /\ UNCHANGED <<rows, px, op, phase, seen, cache, todo>>
<1>1. Advance("cli") /\ HostSound' /\ UNCHANGED <<at, undo, rows, before, dev, off, leftover, px, op, phase, seen, cache, todo>>
  BY ManagerAdvances DEF CliStep, cli, table, sweep
<1> DEFINE pc == mgr["cli"].pc  next == mgr'["cli"].pc
<1>2. pc # "idle" /\ next \in NextPcs(pc) \cup {"idle"} /\ Writes("cli") /\ Keeps("cli") /\ OnlyOf("cli")
  BY <1>1 DEF Advance
<1>3. pc \in CallAt(at) /\ at \in {"firewall", "moved", "fw", "unwind"}
  BY <1>2 DEF CliInv, CallsAre, CallAt
<1>4. StackSound'
  BY <1>1, StackStays, LevelIs DEF CliInv
<1>5. CallsAre'
  <2>1. NextPcs(pc) \subseteq CallAt(at)
    BY <1>3 DEF NextPcs, CallAt, GlobalPcs, SlotPcs, AddPcs, RemovePcs
  <2> QED BY <1>1, <1>2, <2>1 DEF CallsAre
<1>6. at # "unwind" => files \subseteq files' /\ sets \subseteq sets'
  <2>1. at # "unwind" => pc \notin RemovePcs
    BY <1>3 DEF CallAt, GlobalPcs, SlotPcs, AddPcs, RemovePcs
  <2> QED BY <1>2, <2>1 DEF Keeps
<1>7. files' \subseteq {"net", "link"} /\ sets' \subseteq Ruleset
  BY <1>1 DEF HostSound, Host
<1>8. FilesPlaced'
  <2>1. FilesPlaced
    BY DEF CliInv
  <2>2. CASE at = "moved"
    <3>1. next = "write_link" => "net" \in files'
      <4>1. next = "write_link" => pc = "write_net"
        BY <1>2, <1>3, <2>2 DEF Writes, NextPcs, CallAt, GlobalPcs, SlotPcs
      <4> QED BY <1>2, <4>1 DEF Writes
    <3>2. next \in Written \/ (next = "idle" /\ mgr'["cli"].res = "ok") => files' = {"net", "link"}
      <4>1. CASE pc = "write_net"
        BY <1>2, <4>1 DEF Writes, Written, GlobalPcs
      <4>2. CASE pc = "write_link"
        BY <1>2, <1>6, <1>7, <2>1, <2>2, <4>2 DEF Writes, Written, GlobalPcs, FilesPlaced
      <4>3. CASE pc \in Written
        BY <1>6, <1>7, <2>1, <2>2, <4>3 DEF FilesPlaced
      <4> QED BY <1>3, <2>2, <4>1, <4>2, <4>3 DEF CallAt, Written, SlotPcs
    <3>3. at' \notin WithFiles /\ at' \notin WithIdle
      BY <1>1, <2>2 DEF WithFiles, WithIdle
    <3> QED BY <1>1, <3>1, <3>2, <3>3 DEF FilesPlaced, Ok, Idle
  <2>3. CASE at # "moved"
    BY <1>1, <1>3, <1>6, <1>7, <2>1, <2>3 DEF FilesPlaced, WithFiles, WithIdle
  <2> QED BY <2>2, <2>3
<1>9. SetsPlaced'
  <2>1. CASE at = "fw"
    <3>1. pc \in {"add_iface", "add_gateway"}
      BY <1>3, <2>1 DEF CallAt, AddPcs
    <3>2. CASE pc = "add_iface"
      BY <1>1, <1>2, <2>1, <3>2 DEF Writes, SetsPlaced, WithSets, Ok, Idle
    <3>3. CASE pc = "add_gateway"
      BY <1>1, <1>2, <1>6, <1>7, <2>1, <3>3 DEF Writes, CliInv, SetsPlaced, WithSets, Ok, Idle, Ruleset
    <3> QED BY <3>1, <3>2, <3>3
  <2>2. CASE at # "fw"
    BY <1>1, <1>3, <2>2 DEF SetsPlaced, WithSets
  <2> QED BY <2>1, <2>2
<1>10. RowsPlaced'
  BY <1>1 DEF CliInv, RowsPlaced
<1>11. at' \in Stages \ {"done", "over"} /\ at \notin {"done", "over"} /\ (Forward' => Forward)
  BY <1>1, <1>3 DEF Stages, Forward
<1> QED BY <1>1, <1>2, <1>4, <1>5, <1>8, <1>9, <1>10, <1>11, CallIs
-----------------------------------------------------------------------------
(* The rows, forwards and backwards.                                       *)

\* A step that leaves the host and the dongle alone.
LEMMA RowStepIs ==
    ASSUME CliInv, UNCHANGED <<before, files, sets, mgr, dev>>, mgr["cli"].pc = "idle",
           at' \in Stages \ {"firewall", "moved", "fw"}, off' \in BOOLEAN,
           StackSound', RowsAre', leftover' \subseteq Undos \cup {"paths"}, RowsPlaced',
           at' \in WithFiles => at \in WithFiles, at' \in WithIdle => at \in WithIdle \/ at = "fw",
           at' \in WithSets => sets = Ruleset
    PROVE  CliInv'
<1>1. StageTyped' /\ CallsAre'
  BY DEF CliInv, StageTyped, CallsAre
<1>2. FilesPlaced' /\ SetsPlaced'
  BY DEF CliInv, FilesPlaced, SetsPlaced, WithIdle
<1> QED BY <1>1, <1>2 DEF CliInv

\* What is not below a level is not on the stack.
LEMMA NotIn ==
    ASSUME NEW s, NEW l \in Nat, Below(s, l), NEW a, Rank(a) >= l
    PROVE  ~In(a, s)
  BY RankIs DEF Below, In

\* The last undo is on the stack.
LEMMA ElementIsIn ==
    ASSUME NEW s \in Seq(Undos), s # <<>>
    PROVE  In(s[Len(s)], s)
<1>1. Len(s) \in Nat /\ Len(s) >= 1
  BY LenProperties, EmptySeq
<1>2. Len(s) \in 1 .. Len(s)
  BY <1>1
<1> QED BY <1>2 DEF In

\* Two elements are one behind the other.
LEMMA PairIs ==
    ASSUME NEW S, NEW a \in S, NEW b \in S
    PROVE  <<a>> \in Seq(S) /\ <<b>> \in Seq(S) /\ <<a>> \o <<b>> = <<a, b>>
<1>1. /\ <<a>> \in Seq(S) /\ Len(<<a>>) = 1 /\ <<a>>[1] = a
      /\ <<b>> \in Seq(S) /\ Len(<<b>>) = 1 /\ <<b>>[1] = b
      /\ <<a, b>> \in Seq(S) /\ Len(<<a, b>>) = 2 /\ <<a, b>>[1] = a /\ <<a, b>>[2] = b
  OBVIOUS
<1> DEFINE s == <<a>>  t == <<b>>  p == <<a, b>>
<1>2. s \in Seq(S) /\ Len(s) = 1 /\ s[1] = a /\ t \in Seq(S) /\ Len(t) = 1 /\ t[1] = b
  BY <1>1
<1>3. p \in Seq(S) /\ Len(p) = 2 /\ p[1] = a /\ p[2] = b
  BY <1>1
<1> HIDE DEF s, t, p
<1>4. /\ s \o t \in Seq(S) /\ Len(s \o t) = Len(s) + Len(t)
      /\ \A i \in 1 .. Len(s) + Len(t) : (s \o t)[i] = IF i <= Len(s) THEN s[i] ELSE t[i - Len(s)]
  BY <1>2, ConcatProperties
<1>5. Len(s \o t) = 2 /\ (s \o t)[1] = a /\ (s \o t)[2] = b
  BY <1>2, <1>4
<1>6. \A i \in 1 .. 2 : i = 1 \/ i = 2
  OBVIOUS
<1>7. s \o t = p
  BY <1>3, <1>4, <1>5, <1>6, SeqEqual
<1> QED BY <1>1, <1>7 DEF s, t, p

\* publish: the dongle row.
LEMMA CreateDongleKeeps ==
    ASSUME SweepTyped, CliInv, CreateDongle
    PROVE  CliInv' /\ rows' \in Rows
<1>1. /\ at = "fw" /\ mgr["cli"].pc = "idle" /\ UNCHANGED <<before, files, sets, mgr, dev, off>>
      /\ \/ Ok /\ rows' = rows \cup {"dongle"} /\ at' = "slot" /\ undo' = undo \o <<"fw", "dongle">>
         \/ rows' = rows /\ undo' = Append(undo, "fw") /\ at' = "unwind"
         \/ rows' = rows /\ undo' = undo /\ at' = "unwind"
  BY DEF CreateDongle, Ok, Err, Idle, Push, Fail, net, host
<1>2. /\ at' \in Stages \ {"firewall", "moved", "fw"} /\ off' \in BOOLEAN
      /\ at \in WithFiles /\ at \in WithIdle /\ rows' \in Rows
  BY <1>1 DEF CliInv, StageTyped, Stages, WithFiles, WithIdle, SweepTyped, Rows
<1>3. /\ RowsAre /\ Forward /\ leftover \subseteq {"paths"} /\ at \notin {"done", "over"}
      /\ leftover' = leftover /\ (off => Owed("ports")) /\ (In("slot", undo) => "slot" \notin before)
  BY <1>1 DEF CliInv, RowsAre, Forward, CreateDongle
<1>4. leftover' \subseteq Undos \cup {"paths"}
  BY <1>3
<1>5. CASE Ok /\ rows' = rows \cup {"dongle"} /\ at' = "slot" /\ undo' = undo \o <<"fw", "dongle">>
  <2> DEFINE t == Append(undo, "fw")
  <2>1. undo \in Seq(Undos) /\ Stacked(undo) /\ Below(undo, 3) /\ {"fw", "dongle"} \subseteq Undos
    BY <1>1 DEF CliInv, StackSound, Stacked, Level, Undos
  <2>2. Rank("fw") = 3 /\ Rank("dongle") = 4
    BY DEF Rank
  <2>3. Stacked(t) /\ Below(t, 4) /\ \A a : In(a, t) <=> In(a, undo) \/ a = "fw"
    BY <2>1, <2>2, PushIs
  <2>4. undo' = Append(t, "dongle")
    <3>1. <<"fw">> \in Seq(Undos) /\ <<"dongle">> \in Seq(Undos) /\ <<"fw">> \o <<"dongle">> = <<"fw", "dongle">>
      BY <2>1, PairIs
    <3>2. (undo \o <<"fw">>) \o <<"dongle">> = undo \o <<"fw", "dongle">>
      BY <2>1, <3>1, ConcatAssociative
    <3>3. undo \o <<"fw">> = t
      BY <2>1, AppendIsConcat
    <3>4. t \in Seq(Undos)
      BY <2>3 DEF Stacked
    <3> HIDE DEF t
    <3>5. t \o <<"dongle">> = Append(t, "dongle")
      BY <2>1, <3>4, AppendIsConcat
    <3> QED BY <1>5, <3>2, <3>3, <3>5
  <2> HIDE DEF t
  <2>5. Stacked(undo') /\ Below(undo', 5) /\ \A a : In(a, undo') <=> In(a, t) \/ a = "dongle"
    BY <2>1, <2>2, <2>3, <2>4, PushIs
  <2>6. \A a : In(a, undo') <=> In(a, undo) \/ a \in {"fw", "dongle"}
    BY <2>3, <2>5
  <2>7. StackSound'
    <3>1. Level(at)' = 5
      BY <1>5 DEF Level
    <3> QED BY <2>5, <3>1 DEF StackSound
  <2>8. RowsAre'
    <3>1. (\A a : Owed(a) => Owed(a)') /\ Owed("dongle")'
      BY <1>3, <2>6 DEF Owed
    <3>2. RowOwed("dongle")'
      BY <3>1 DEF RowOwed, Takes
    <3>3. off' => Owed("ports")'
      BY <1>1, <1>3, <3>1
    <3> QED BY <1>1, <1>3, <1>5, <2>6, <3>1, <3>2, <3>3, RowsGrow
  <2>9. RowsPlaced' /\ sets = Ruleset
    BY <1>1, <1>5 DEF CliInv, RowsPlaced, SetsPlaced
  <2> QED BY <1>1, <1>2, <1>4, <2>7, <2>8, <2>9, RowStepIs
<1>6. CASE rows' = rows /\ undo' = Append(undo, "fw") /\ at' = "unwind"
  <2>1. "fw" \in Undos /\ Level(at) <= Rank("fw") /\ Rank("fw") < Level(at')
    BY <1>1, <1>6 DEF Undos, Level, Rank
  <2>2. StackSound' /\ \A a : In(a, undo') <=> In(a, undo) \/ a = "fw"
    BY <1>6, <2>1, StackGrows DEF CliInv
  <2>3. RowsAre'
    <3>1. (\A a : Owed(a) => Owed(a)') /\ (In("slot", undo') => In("slot", undo)) /\ ~Forward'
      BY <1>3, <1>6, <2>2 DEF Owed, Forward
    <3> QED BY <1>1, <1>3, <1>6, <3>1, RowsStay
  <2>4. RowsPlaced' /\ at' \notin WithSets
    BY <1>6 DEF RowsPlaced, WithSets
  <2> QED BY <1>1, <1>2, <1>4, <2>2, <2>3, <2>4, RowStepIs
<1>7. CASE rows' = rows /\ undo' = undo /\ at' = "unwind"
  <2>1. Level(at) <= Level(at')
    BY <1>1, <1>7 DEF Level
  <2>2. StackSound'
    BY <1>7, <2>1, StackStays DEF CliInv
  <2>3. RowsAre'
    <3>1. (\A a : Owed(a) => Owed(a)') /\ ~Forward'
      BY <1>3, <1>7 DEF Owed, Forward
    <3> QED BY <1>1, <1>3, <1>7, <3>1, RowsStay
  <2>4. RowsPlaced' /\ at' \notin WithSets
    BY <1>7 DEF RowsPlaced, WithSets
  <2> QED BY <1>1, <1>2, <1>4, <2>2, <2>3, <2>4, RowStepIs
<1> QED BY <1>1, <1>2, <1>5, <1>6, <1>7

\* publish: the slot, the link and the proxy row, in that order.
LEMMA UpsertKeeps ==
    ASSUME SweepTyped, CliInv, UpsertSlot \/ CreateProxy
    PROVE  CliInv' /\ rows' \in Rows
<1>1. /\ at \in {"slot", "attach", "row"} /\ UNCHANGED <<before, files, sets, mgr, dev, off>>
      /\ leftover' \in {leftover, leftover \cup {"paths"}}
      /\ \/ rows' = rows /\ undo' = undo /\ (at' = "unwind" \/ (at = "slot" /\ at' = "attach" /\ "slot" \in rows))
         \/ /\ at = "slot" /\ "slot" \notin rows /\ rows' = rows \cup {"slot"}
            /\ undo' = Append(undo, "slot") /\ at' = "attach"
         \/ at = "attach" /\ rows' = rows \cup {"attached"} /\ undo' = Append(undo, "attach") /\ at' = "row"
         \/ at = "row" /\ rows' = rows \cup {"proxy"} /\ undo' = Append(undo, "row") /\ at' = "apply"
  <2>1. CASE UpsertSlot
    BY <2>1 DEF UpsertSlot, Push, Then, Fail, net, host
  <2>2. CASE CreateProxy
    BY <2>2 DEF CreateProxy, Push, Fail, net, host
  <2> QED BY <2>1, <2>2
<1>2. /\ at' \in Stages \ {"firewall", "moved", "fw"} /\ off' \in BOOLEAN /\ rows' \in Rows
      /\ at \in WithFiles /\ at \in WithIdle /\ sets = Ruleset
  BY <1>1 DEF CliInv, StageTyped, Stages, WithFiles, WithIdle, SweepTyped, Rows, SetsPlaced, WithSets
<1>3. mgr["cli"].pc = "idle"
  BY <1>1, NoCall
<1>4. leftover' \subseteq {"paths"} /\ leftover' \subseteq Undos \cup {"paths"} /\ leftover \subseteq leftover'
  BY <1>1 DEF CliInv, RowsAre, Forward
<1>5. RowsPlaced'
  BY <1>1 DEF CliInv, RowsPlaced, WithSets
<1>6. /\ RowsAre /\ Forward /\ at \notin {"done", "over"} /\ (off => Owed("ports"))
      /\ (In("slot", undo) => "slot" \notin before) /\ before \subseteq {"slot"} /\ before \subseteq rows
  BY <1>1 DEF CliInv, RowsAre, Forward
<1>7. /\ at \in {"attach", "row"} => (Owed("slot") \/ "slot" \in before) /\ Owed("dongle")
      /\ at = "row" => Owed("attach")
  <2>1. /\ "slot" \in Takes["slot"] /\ "dongle" \in Takes["dongle"] /\ "attached" \in Takes["attach"]
    BY DEF Takes
  <2>2. \A r \in rows : r \notin before => RowOwed(r)
    BY <1>6 DEF RowsAre
  <2>3. /\ at \in {"attach", "row"} => "slot" \in rows /\ "dongle" \in rows
        /\ at = "row" => "attached" \in rows
    BY DEF CliInv, RowsPlaced, WithSets
  <2> QED BY <1>6, <2>1, <2>2, <2>3 DEF RowOwed
<1>8. CASE rows' = rows /\ undo' = undo /\ at' \in {"unwind", "attach"} /\ (at' = "attach" => at = "slot")
  <2>1. Level(at) <= Level(at')
    BY <1>1, <1>8 DEF Level
  <2>2. StackSound'
    BY <1>8, <2>1, StackStays DEF CliInv
  <2>3. RowsAre'
    <3>1. \A a : Owed(a) => Owed(a)'
      BY <1>4, <1>8 DEF Owed
    <3> QED BY <1>1, <1>4, <1>6, <1>8, <3>1, RowsGrow
  <2> QED BY <1>1, <1>2, <1>3, <1>4, <1>5, <2>2, <2>3, RowStepIs
<1>9. ASSUME NEW u \in {"slot", "attach", "row"}, NEW r \in {"slot", "attached", "proxy"},
             at = u, at' \in {"attach", "row", "apply"}, Rank(u) < Level(at'),
             rows' = rows \cup {r}, undo' = Append(undo, u), u = "slot" => "slot" \notin rows,
             <<u, r>> \in {<<"slot", "slot">>, <<"attach", "attached">>, <<"row", "proxy">>}
      PROVE  CliInv'
  <2>1. u \in Undos /\ Level(at) <= Rank(u)
    BY <1>9 DEF Undos, Level, Rank
  <2>2. StackSound' /\ \A a : In(a, undo') <=> In(a, undo) \/ a = u
    BY <1>9, <2>1, StackGrows DEF CliInv
  <2>3. (\A a : Owed(a) => Owed(a)') /\ Owed(u)'
    BY <1>4, <2>2 DEF Owed
  <2>4. /\ Takes["dongle"] = {"dongle", "attached"} /\ Takes["slot"] = {"slot", "attached", "proxy"}
        /\ Takes["attach"] = {"attached"} /\ Takes["row"] = {"proxy"}
    BY DEF Takes
  <2>5. RowOwed(r)'
    <3>1. CASE u = "slot" /\ r = "slot"
      BY <2>3, <2>4, <3>1 DEF RowOwed
    <3>2. CASE u = "attach" /\ r = "attached"
      BY <1>1, <1>7, <1>9, <2>3, <2>4, <3>2 DEF RowOwed
    <3>3. CASE u = "row" /\ r = "proxy"
      BY <1>1, <1>7, <1>9, <2>3, <2>4, <3>3 DEF RowOwed
    <3> QED BY <1>9, <3>1, <3>2, <3>3
  <2>6. In("slot", undo') => "slot" \notin before
    BY <1>6, <1>9, <2>2
  <2>7. RowsAre'
    <3>1. off' => Owed("ports")'
      BY <1>1, <1>6, <2>3
    <3> QED BY <1>1, <1>4, <1>6, <1>9, <2>3, <2>5, <2>6, <3>1, RowsGrow
  <2> QED BY <1>1, <1>2, <1>3, <1>4, <1>5, <2>2, <2>7, RowStepIs
<1>10. Rank("slot") < Level("attach") /\ Rank("attach") < Level("row") /\ Rank("row") < Level("apply")
  BY DEF Rank, Level
<1> QED BY <1>1, <1>2, <1>8, <1>9, <1>10

\* publish: the process, and the selftest behind it.
LEMMA ApplyKeeps ==
    ASSUME CliInv, ApplyProxy \/ SelftestAndRelease
    PROVE  CliInv' /\ rows' = rows
<1>1. /\ at \in {"apply", "selftest"} /\ UNCHANGED <<rows, before, leftover, files, sets, mgr, dev>> /\ off' \in {off, FALSE}
      /\ \/ at = "apply" /\ undo' = Append(undo, "proxy") /\ at' = "selftest" /\ off' = off
         \/ undo' = undo /\ at' = "unwind" /\ off' = off
         \/ undo' = <<>> /\ at' = "done"
  <2>1. CASE ApplyProxy
    BY <2>1 DEF ApplyProxy, Push, Fail, net, host, table
  <2>2. CASE SelftestAndRelease
    BY <2>2 DEF SelftestAndRelease, ReleasePorts, Fail, net, host
  <2> QED BY <2>1, <2>2
<1>2. /\ at' \in Stages \ {"firewall", "moved", "fw"} /\ off' \in BOOLEAN
      /\ at \in WithFiles /\ at \in WithIdle /\ sets = Ruleset
  BY <1>1 DEF CliInv, StageTyped, Stages, WithFiles, WithIdle, SetsPlaced, WithSets
<1>3. mgr["cli"].pc = "idle"
  BY <1>1, NoCall
<1>4. /\ RowsPlaced' /\ leftover' \subseteq Undos \cup {"paths"} /\ RowsAre /\ Forward
      /\ at \notin {"done", "over"} /\ (off => Owed("ports"))
  BY <1>1 DEF CliInv, StageTyped, RowsPlaced, WithSets, RowsAre, Forward
<1>5. CASE at = "apply" /\ undo' = Append(undo, "proxy") /\ at' = "selftest" /\ off' = off
  <2>1. "proxy" \in Undos /\ Level(at) <= Rank("proxy") /\ Rank("proxy") < Level(at')
    BY <1>5 DEF Undos, Level, Rank
  <2>2. StackSound' /\ \A a : In(a, undo') <=> In(a, undo) \/ a = "proxy"
    BY <1>5, <2>1, StackGrows DEF CliInv
  <2>3. RowsAre'
    <3>1. (\A a : Owed(a) => Owed(a)') /\ (In("slot", undo') => In("slot", undo))
      BY <1>1, <2>2 DEF Owed
    <3> QED BY <1>1, <1>4, <1>5, <3>1, RowsStay
  <2> QED BY <1>1, <1>2, <1>3, <1>4, <2>2, <2>3, RowStepIs
<1>6. CASE undo' = undo /\ at' = "unwind" /\ off' = off
  <2>1. Level(at) <= Level(at')
    BY <1>1, <1>6 DEF Level
  <2>2. StackSound'
    BY <1>6, <2>1, StackStays DEF CliInv
  <2>3. RowsAre'
    <3>1. \A a : Owed(a) => Owed(a)'
      BY <1>1, <1>6 DEF Owed
    <3> QED BY <1>1, <1>4, <1>6, <3>1, RowsStay
  <2> QED BY <1>1, <1>2, <1>3, <1>4, <2>2, <2>3, RowStepIs
<1>7. CASE undo' = <<>> /\ at' = "done"
  <2>1. StackSound' /\ RowsAre'
    BY <1>7, StackEmpty DEF RowsAre
  <2> QED BY <1>1, <1>2, <1>3, <1>4, <2>1, RowStepIs
<1> QED BY <1>1, <1>5, <1>6, <1>7

\* unwind: an undo takes its rows away, or is owed for.
LEMMA UndoKeeps ==
    ASSUME SweepTyped, CliInv, UndoRow \/ UndoProxy \/ UndoPorts
    PROVE  CliInv' /\ rows' \in Rows
<1>1. PICK u \in {"dongle", "slot", "attach", "row", "proxy", "ports"} :
           /\ Unwinds(u) /\ UNCHANGED <<before, files, sets, mgr, dev>>
           /\ \/ u \in {"dongle", "slot", "attach", "row"} /\ rows' = rows \ Takes[u] /\ UNCHANGED <<off, leftover>>
              \/ u = "proxy" /\ rows' = rows /\ UNCHANGED <<off, leftover>>
              \/ u = "ports" /\ rows' = rows /\ off' = FALSE /\ leftover' = leftover
              \/ rows' = rows /\ off' = off /\ leftover' = leftover \cup {u}
  <2>1. CASE UndoRow
    <3>1. DOMAIN Takes = {"dongle", "slot", "attach", "row"}
      BY DEF Takes
    <3> QED BY <2>1, <3>1 DEF UndoRow, Undone, NotUndone, net, host
  <2>2. CASE UndoProxy
    BY <2>2 DEF UndoProxy, Undone, NotUndone, net, host, table
  <2>3. CASE UndoPorts
    BY <2>3 DEF UndoPorts, Undone, NotUndone, net, host, table
  <2> QED BY <2>1, <2>2, <2>3
<1>2. /\ at = "unwind" /\ at' = "unwind" /\ undo # <<>> /\ undo[Len(undo)] = u /\ mgr["cli"].pc = "idle"
      /\ undo' = SubSeq(undo, 1, Len(undo) - 1)
  BY <1>1 DEF Unwinds, Idle
<1>3. StackSound' /\ \A a : In(a, undo') <=> In(a, undo) /\ a # u
  BY <1>2, StackShrinks DEF CliInv
<1>4. /\ before \subseteq {"slot"} /\ before \subseteq rows /\ (In("slot", undo) => "slot" \notin before)
      /\ (off => Owed("ports")) /\ \A r \in rows : r \notin before => RowOwed(r)
  BY <1>2 DEF CliInv, RowsAre
<1>5. In(u, undo)
  BY <1>2, ElementIsIn DEF CliInv, StackSound, Stacked
<1>6. /\ \A a : a # u /\ Owed(a) => Owed(a)'
      /\ Owed(u)' \/ (u \in {"dongle", "slot", "attach", "row"} => rows' = rows \ Takes[u])
  BY <1>1, <1>3 DEF Owed
<1>7. before \subseteq rows'
  <2>1. "slot" \in before => u # "slot"
    BY <1>4, <1>5
  <2>2. u \in {"dongle", "attach", "row"} => "slot" \notin Takes[u]
    BY DEF Takes
  <2> QED BY <1>1, <1>4, <2>1, <2>2
<1>8. ASSUME NEW r \in rows', r \notin before PROVE RowOwed(r)'
  <2>1. r \in rows /\ RowOwed(r) /\ before' = before
    BY <1>1, <1>4, <1>8
  <2>2. ASSUME NEW v \in {"dongle", "slot", "attach", "row"}, r \in Takes[v], v # "slot" \/ "slot" \notin before
        PROVE  Owed(v)'
    <3>1. Owed(v)
      BY <2>1, <2>2 DEF RowOwed
    <3>2. CASE v = u
      BY <1>6, <1>8, <2>2, <3>2
    <3> QED BY <1>6, <3>1, <3>2
  <2> QED BY <2>1, <2>2 DEF RowOwed
<1>9. off' => Owed("ports")'
  <2>1. CASE u = "ports"
    BY <1>1, <2>1 DEF Owed
  <2>2. CASE u # "ports"
    BY <1>1, <1>4, <1>6, <2>2
  <2> QED BY <2>1, <2>2
<1>10. RowsAre'
  <2>1. before' = before /\ (In("slot", undo') => "slot" \notin before') /\ ~Forward'
    BY <1>1, <1>2, <1>3, <1>4 DEF Forward
  <2> QED BY <1>4, <1>7, <1>8, <1>9, <2>1 DEF RowsAre
<1>11. RowsPlaced' /\ at' \notin WithFiles /\ at' \notin WithIdle /\ at' \notin WithSets
  BY <1>2 DEF RowsPlaced, WithFiles, WithIdle, WithSets
<1>12. /\ at' \in Stages \ {"firewall", "moved", "fw"} /\ off' \in BOOLEAN /\ rows' \in Rows
       /\ leftover' \subseteq Undos \cup {"paths"}
  <2>1. off' \in BOOLEAN /\ leftover' \subseteq Undos \cup {"paths"}
    BY <1>1 DEF CliInv, StageTyped, Undos
  <2>2. rows' \subseteq rows /\ rows \in Rows
    BY <1>1 DEF SweepTyped
  <2> QED BY <1>2, <2>1, <2>2 DEF Stages, Rows
<1> QED BY <1>1, <1>2, <1>3, <1>10, <1>11, <1>12, RowStepIs

\* unwind calls the manager for the files and the elements.
LEMMA UndoCallKeeps ==
    ASSUME HostSound, CliInv, "cli" \in Procs, UndoCall
    PROVE  /\ CliInv' /\ HostSound' /\ OnlyOf("cli")
           /\ UNCHANGED <<rows, px, op, phase, seen, cache, todo>>
<1>1. PICK u \in {"netcfg", "fw"} : Unwinds(u)
  BY DEF UndoCall
<1>2. PICK s \in RemovePcs : Begun("cli", {s}) /\ mgr'["cli"].pc = s
  BY RemoveBegun DEF UndoCall
<1>3. HostSound' /\ OnlyOf("cli")
  BY <1>2, BegunIsSound DEF Begun
<1>4. /\ at = "unwind" /\ at' = "unwind" /\ undo # <<>> /\ undo[Len(undo)] = u
      /\ undo' = SubSeq(undo, 1, Len(undo) - 1)
      /\ UNCHANGED <<rows, before, dev, off, leftover, px, op, phase, seen, cache, todo>>
  BY <1>1 DEF Unwinds, UndoCall, table, sweep
<1>5. StackSound' /\ \A a : In(a, undo') <=> In(a, undo) /\ a # u
  BY <1>4, StackShrinks DEF CliInv
<1>6. StageTyped'
  BY <1>4 DEF CliInv, StageTyped
<1>7. RowsAre'
  <2>1. /\ RowsAre /\ at \notin {"done", "over"} /\ ~Forward' /\ (In("slot", undo') => In("slot", undo))
        /\ off' => Owed("ports")'
    BY <1>1, <1>4, <1>5 DEF CliInv, RowsAre, Forward, Owed
  <2>2. \A r \in rows' : r \notin before' => RowOwed(r)'
    BY <1>1, <1>4, <1>5, <2>1 DEF RowsAre, RowOwed, Owed
  <2> QED BY <1>4, <2>1, <2>2 DEF RowsAre
<1>8. CallsAre'
  BY <1>2, <1>4 DEF CallsAre, CallAt
<1>9. FilesPlaced' /\ SetsPlaced' /\ RowsPlaced'
  BY <1>4 DEF FilesPlaced, SetsPlaced, RowsPlaced, WithFiles, WithIdle, WithSets
<1> QED BY <1>3, <1>4, <1>5, <1>6, <1>7, <1>8, <1>9 DEF CliInv

\* The stack is empty when the enrolment is given up.
LEMMA FailsKeeps ==
    ASSUME CliInv, EnrolFails
    PROVE  CliInv' /\ rows' = rows
<1>1. /\ at = "unwind" /\ at' = "failed" /\ undo = <<>> /\ undo' = undo /\ mgr["cli"].pc = "idle"
      /\ UNCHANGED <<rows, before, leftover, files, sets, mgr, dev, off>>
  BY DEF EnrolFails, Then, Idle, net, host
<1>2. StackSound'
  BY <1>1, StackEmpty
<1>3. RowsAre'
  <2>1. /\ RowsAre /\ at \notin {"done", "over"} /\ ~Forward' /\ (\A a : Owed(a) => Owed(a)')
        /\ off' => Owed("ports")'
    BY <1>1 DEF CliInv, RowsAre, Forward, Owed
  <2> QED BY <1>1, <2>1, RowsStay
<1>4. RowsPlaced' /\ at' \notin WithFiles /\ at' \notin WithIdle /\ at' \notin WithSets
  BY <1>1 DEF RowsPlaced, WithFiles, WithIdle, WithSets
<1>5. at' \in Stages \ {"firewall", "moved", "fw"} /\ off' \in BOOLEAN /\ leftover' \subseteq Undos \cup {"paths"}
  BY <1>1 DEF Stages, CliInv, StageTyped
<1> QED BY <1>1, <1>2, <1>3, <1>4, <1>5, RowStepIs
-----------------------------------------------------------------------------
(* All steps.                                                              *)

\* What the command does leaves the sweep alone.
LEMMA SweepUntouched ==
    ASSUME SweepInv, "daemon" \in Procs, HostSound', UNCHANGED <<phase, seen, cache, todo>>,
           mgr'["daemon"] = mgr["daemon"], rows' \in Rows, px' \in BOOLEAN,
           op' \in {"none", "live", "finished", "stalled"}
    PROVE  SweepInv'
<1>1. SweepTyped'
  BY DEF SweepInv, SweepTyped
<1>2. SweepSound'
  BY DEF SweepInv, SweepSound
<1> QED BY <1>1, <1>2 DEF SweepInv

\* The command that has given up or ended goes forward no more.
LEMMA ForwardWasForward ==
    ASSUME Cli, ~Forward
    PROVE  ~Forward'
<1>1. CASE CliEnds
  BY <1>1 DEF CliEnds, Then, Forward
<1>2. CASE CliStep
  BY <1>2 DEF CliStep, cli, Forward
<1>3. CASE Unwind
  BY <1>3 DEF Unwind, UndoCall, UndoRow, UndoProxy, UndoPorts, EnrolFails, Unwinds, Then, Forward
<1>4. CASE EnrollCmd \/ EnrollCmdGlobal \/ EnrollBegins \/ GuardAddresses \/ GuardPorts \/ AwaitLink \/ CheckDongle
  BY <1>4 DEF EnrollCmd, EnrollCmdGlobal, EnrollBegins, GuardAddresses, GuardPorts, AwaitLink, CheckDongle, Forward
<1>5. CASE EnrolNetcfg \/ MoveLanIP \/ RediscoverSlot \/ DisableMaxIdle
  BY <1>5 DEF EnrolNetcfg, MoveLanIP, RediscoverSlot, DisableMaxIdle, Forward
<1>6. CASE CreateDongle \/ UpsertSlot \/ CreateProxy \/ ApplyProxy \/ SelftestAndRelease
  BY <1>6 DEF CreateDongle, UpsertSlot, CreateProxy, ApplyProxy, SelftestAndRelease, Forward
<1> QED BY <1>1, <1>2, <1>3, <1>4, <1>5, <1>6 DEF Cli

LEMMA CliKeeps ==
    ASSUME EnrolInv, Cli
    PROVE  EnrolInv'
<1>0. /\ "daemon" \in Procs /\ "cli" \in Procs /\ SweepInv /\ CliInv /\ HostSound /\ SweepTyped
      /\ rows \in Rows /\ px \in BOOLEAN /\ op \in {"none", "live", "finished", "stalled"}
  BY EnrolAssumption DEF EnrolInv, SweepInv, SweepTyped
<1>s. ASSUME UNCHANGED <<seen, todo>> PROVE Forward' => Straight'
  <2>1. Straight => Straight'
    BY <1>s DEF Straight, Ordered, In
  <2> QED BY <2>1, ForwardWasForward DEF EnrolInv
<1>1. ASSUME CliInv', HostSound', OnlyOf("cli"), UNCHANGED <<rows, px, op, phase, seen, cache, todo>>
      PROVE  EnrolInv'
  <2>1. SweepInv'
    BY <1>0, <1>1, SweepUntouched DEF OnlyOf
  <2> QED BY <1>1, <1>s, <2>1 DEF EnrolInv
<1>2. ASSUME CliInv', UNCHANGED <<net, sweep>>, rows' \in Rows, px' \in BOOLEAN,
             op' \in {"none", "live", "finished", "stalled"}
      PROVE  EnrolInv'
  <2>1. HostSound' /\ UNCHANGED <<mgr, phase, seen, cache, todo>>
    BY <1>0, <1>2 DEF HostSound, Host, net, host, sweep
  <2>2. SweepInv'
    BY <1>0, <1>2, <2>1, SweepUntouched
  <2> QED BY <1>2, <1>s, <2>1, <2>2 DEF EnrolInv
<1>3. CASE EnrollCmd \/ EnrollCmdGlobal
  BY <1>0, <1>1, <1>3, CmdKeeps
<1>4. CASE EnrollBegins
  <2>1. CliInv' /\ UNCHANGED <<net, rows, px, sweep>> /\ op' \in {"none", "live", "finished", "stalled"}
    BY <1>0, <1>4, EnrollBeginsKeeps DEF EnrollBegins
  <2> QED BY <1>0, <1>2, <2>1
<1>5. CASE GuardAddresses \/ AwaitLink \/ CheckDongle \/ RediscoverSlot \/ CliEnds
  <2>1. UNCHANGED <<net, table, px, sweep>>
    BY <1>5 DEF GuardAddresses, AwaitLink, CheckDongle, RediscoverSlot, CliEnds, Others
  <2> QED BY <1>0, <1>2, <1>5, <2>1, ChecksKeep DEF table
<1>6. CASE GuardPorts \/ MoveLanIP \/ DisableMaxIdle
  <2>1. UNCHANGED <<net, table, px, sweep>>
    BY <1>6 DEF GuardPorts, MoveLanIP, DisableMaxIdle, Others
  <2> QED BY <1>0, <1>2, <1>6, <2>1, GuardPortsKeeps, MoveLanIPKeeps, DisableMaxIdleKeeps DEF table
<1>7. CASE EnrolNetcfg
  BY <1>0, <1>1, <1>7, EnrolNetcfgKeeps
<1>8. CASE CliStep
  BY <1>0, <1>1, <1>8, CliStepKeeps
<1>9. CASE UndoCall
  BY <1>0, <1>1, <1>9, UndoCallKeeps
<1>10. CASE CreateDongle
  <2>1. UNCHANGED <<net, op, px, sweep>>
    BY <1>10 DEF CreateDongle
  <2> QED BY <1>0, <1>2, <1>10, <2>1, CreateDongleKeeps
<1>11. CASE UpsertSlot \/ CreateProxy
  <2>1. UNCHANGED <<net, op, px, sweep>>
    BY <1>11 DEF UpsertSlot, CreateProxy
  <2> QED BY <1>0, <1>2, <1>11, <2>1, UpsertKeeps
<1>12. CASE ApplyProxy \/ SelftestAndRelease
  <2>1. UNCHANGED <<net, sweep>> /\ px' \in {px, TRUE} /\ op' \in {op, "finished"}
    BY <1>12 DEF ApplyProxy, SelftestAndRelease, Finish, table
  <2> QED BY <1>0, <1>2, <1>12, <2>1, ApplyKeeps
<1>13. CASE UndoRow \/ UndoProxy \/ UndoPorts
  <2>1. UNCHANGED <<net, op, sweep>> /\ px' \in {px, FALSE}
    BY <1>13 DEF UndoRow, UndoProxy, UndoPorts, table
  <2> QED BY <1>0, <1>2, <1>13, <2>1, UndoKeeps
<1>14. CASE EnrolFails
  <2>1. UNCHANGED <<net, px, sweep>> /\ op' \in {op, "finished"}
    BY <1>14 DEF EnrolFails, Finish
  <2> QED BY <1>0, <1>2, <1>14, <2>1, FailsKeeps
<1> QED BY <1>3, <1>4, <1>5, <1>6, <1>7, <1>8, <1>9, <1>10, <1>11, <1>12, <1>13, <1>14 DEF Cli, Unwind

\* The command counts on what only grows, and on rows that are its own.
LEMMA CliUntouched ==
    ASSUME CliInv, HostSound', UNCHANGED <<cli, rows>>, mgr'["cli"] = mgr["cli"], files \subseteq files', sets \subseteq sets'
    PROVE  CliInv'
<1>1. UNCHANGED <<at, undo, dev, off, before, leftover, rows>>
  BY DEF cli
<1>2. StageTyped' /\ RowsAre' /\ CallsAre' /\ RowsPlaced'
  BY <1>1 DEF CliInv, StageTyped, RowsAre, RowOwed, Owed, Forward, CallsAre, RowsPlaced
<1>3. StackSound'
  BY <1>1, StackStays, LevelIs DEF CliInv
<1>4. files' \subseteq {"net", "link"} /\ sets' \subseteq Ruleset
  BY DEF HostSound, Host
<1>5. FilesPlaced' /\ SetsPlaced'
  BY <1>1, <1>4 DEF CliInv, FilesPlaced, SetsPlaced, Ok, Idle
<1> QED BY <1>2, <1>3, <1>5 DEF CliInv

\* A daemon that has ended knows nothing.
LEMMA EndedIsSound ==
    ASSUME SweepInv, "daemon" \in Procs, HostSound', DaemonEnds, UNCHANGED <<table, px>>, mgr'["daemon"] = IdleManager
    PROVE  SweepInv' /\ Straight'
<1>1. phase' = "down" /\ seen' = NoRows /\ cache' = Blind /\ todo' = <<>> /\ UNCHANGED <<rows, op, px>>
  BY DEF DaemonEnds, table
<1>2. seen' \in [rows: Rows, busy: BOOLEAN] /\ seen'.rows = {} /\ cache' \in Observations
  BY <1>1 DEF NoRows, Blind, Rows, Observations
<1>3. todo' \in Seq(Actions) /\ Len(todo') = 0 /\ \A a : ~In(a, todo')
  BY <1>1, EmptyStack, EmptySeq
<1>4. NamesLead(todo')
  BY <1>3 DEF NamesLead
<1>5. SweepTyped'
  BY <1>1, <1>2, <1>3 DEF SweepInv, SweepTyped
<1>6. SweepSound'
  BY <1>3, <1>4, IdleIsSound DEF SweepSound, RemovePcs
<1>7. Straight'
  BY <1>2, <1>3 DEF Straight, Ordered
<1> QED BY <1>5, <1>6, <1>7 DEF SweepInv

LEMMA OthersKeep ==
    ASSUME EnrolInv, Sweeping \/ Outside
    PROVE  EnrolInv'
<1>0. /\ "daemon" \in Procs /\ "cli" \in Procs /\ SweepInv /\ CliInv /\ HostSound /\ SweepTyped
      /\ rows \in Rows /\ px \in BOOLEAN /\ op \in {"none", "live", "finished", "stalled"}
  BY EnrolAssumption DEF EnrolInv, SweepInv, SweepTyped
<1>f. UNCHANGED cli => Forward' = Forward
  BY DEF cli, Forward
<1>1. CASE Sweeping
  <2>1. SweepInv' /\ Swept /\ UNCHANGED cli
    BY <1>0, <1>1, DaemonIsSwept DEF Sweeping
  <2>2. CliInv'
    BY <1>0, <2>1, CliUntouched DEF Swept, SweepInv
  <2>3. Forward' => Straight'
    BY <1>0, <1>f, <2>1, ForwardIsOrdered DEF EnrolInv, Swept
  <2> QED BY <2>1, <2>2, <2>3 DEF EnrolInv
<1>2. CASE (RuleLost \/ RuleAdded \/ LoadTable \/ Unplugged \/ PluggedIn) /\ UNCHANGED <<table, px, sweep, cli>>
  <2>1. /\ HostSound' /\ UNCHANGED <<mgr, files, rows, px, op, phase, seen, cache, todo, cli>>
        /\ sets \subseteq sets'
    BY <1>0, <1>2, FaultIsSound DEF table, sweep
  <2>2. SweepInv' /\ CliInv'
    BY <1>0, <2>1, SweepUntouched, CliUntouched
  <2>3. Forward' => Straight'
    BY <1>f, <2>1 DEF EnrolInv, Straight, Ordered, In
  <2> QED BY <2>2, <2>3 DEF EnrolInv
<1>3. CASE DaemonRestarts /\ UNCHANGED cli
  <2>1. /\ DaemonEnds /\ UNCHANGED <<table, px>>
        /\ mgr' = [mgr EXCEPT !["daemon"] = IdleManager] /\ UNCHANGED <<host, hostCalm, cli>>
    BY <1>3 DEF DaemonRestarts
  <2>2. HostSound' /\ OnlyOf("daemon") /\ mgr'["daemon"] = IdleManager
    BY <1>0, <2>1, RestartIsSound
  <2>3. SweepInv' /\ Straight'
    BY <1>0, <2>1, <2>2, EndedIsSound
  <2>4. mgr'["cli"] = mgr["cli"] /\ UNCHANGED <<rows, files, sets>>
    BY <1>0, <2>1, <2>2 DEF OnlyOf, table, host
  <2>5. CliInv'
    BY <1>0, <2>1, <2>2, <2>4, CliUntouched
  <2> QED BY <2>3, <2>5 DEF EnrolInv
<1>4. CASE Reboot
  <2>1. /\ HostReboots /\ DaemonEnds /\ at' = "over" /\ undo' = <<>> /\ leftover' = {}
        /\ UNCHANGED <<table, px, dev, off, before>>
    BY <1>4 DEF Reboot, NodeReboots
  <2>2. HostSound' /\ mgr'["daemon"] = IdleManager /\ mgr'["cli"] = IdleManager
    BY <1>0, <2>1, RebootIsSound
  <2>3. SweepInv' /\ Straight'
    BY <1>0, <2>1, <2>2, EndedIsSound
  <2>4. StackSound'
    BY <2>1, StackEmpty
  <2>5. StageTyped' /\ RowsAre'
    BY <1>0, <2>1 DEF CliInv, StageTyped, Stages, RowsAre
  <2>6. CallsAre'
    BY <2>2, IdleIsSound DEF CallsAre
  <2>7. FilesPlaced' /\ SetsPlaced' /\ RowsPlaced'
    BY <2>1 DEF FilesPlaced, SetsPlaced, RowsPlaced, WithFiles, WithIdle, WithSets
  <2> QED BY <2>3, <2>4, <2>5, <2>6, <2>7 DEF EnrolInv, CliInv
<1> QED BY <1>1, <1>2, <1>3, <1>4 DEF Outside

\* The command begins on a host that has just started.
LEMMA InitIsSound == Init => EnrolInv
<1> SUFFICES ASSUME Init PROVE EnrolInv
  OBVIOUS
<1>0. "daemon" \in Procs /\ "cli" \in Procs
  BY EnrolAssumption
<1>1. /\ mgr = [p \in Procs |-> IdleManager]
      /\ public = {} /\ names = FALSE /\ files = {} /\ loaded = FALSE /\ link = "raw" /\ plumb = {} /\ sets \in {{}, {"table"}}
      /\ hostCalm = FALSE /\ px = FALSE /\ op = "none" /\ phase = "down" /\ seen = NoRows /\ cache = Blind
      /\ todo = <<>> /\ rows \in {{}, {"slot"}} /\ at = "idle" /\ undo = <<>> /\ off = FALSE /\ before = rows
      /\ leftover = {}
      /\ dev = [lan |-> "factory", idle |-> FALSE]
  BY DEF Init, SweepInit, HostInit
<1>2. HostSound
  <2>1. Host
    BY <1>1 DEF Host, Ruleset
  <2> HIDE DEF IdleManager
  <2> QED BY <1>1, <2>1, IdleIsSound DEF HostSound
<1>3. seen \in [rows: Rows, busy: BOOLEAN] /\ seen.rows = {} /\ cache \in Observations /\ rows \in Rows
  BY <1>1 DEF NoRows, Blind, Rows, Observations
<1>4. todo \in Seq(Actions) /\ Len(todo) = 0 /\ \A a : ~In(a, todo)
  BY <1>1, EmptyStack, EmptySeq
<1>5. SweepTyped
  <2>1. px \in BOOLEAN /\ op \in {"none", "live", "finished", "stalled"} /\ phase \in {"down", "rest", "poll", "act"}
    BY <1>1
  <2>2. Len(todo) <= 5
    BY <1>4
  <2> QED BY <1>3, <1>4, <2>1, <2>2 DEF SweepTyped
<1>6. mgr["daemon"].pc = "idle" /\ mgr["cli"].pc = "idle"
  BY <1>0, <1>1, IdleIsSound
<1>7. SweepSound
  BY <1>3, <1>4, <1>6 DEF SweepSound, NamesLead, RemovePcs
<1>s. Straight
  BY <1>3, <1>4 DEF Straight, Ordered
<1>8. Stacked(undo) /\ (\A l : Below(undo, l)) /\ \A a : ~In(a, undo)
  BY <1>1, EmptyStack
<1>9. StackSound
  BY <1>8 DEF StackSound
<1>10. StageTyped /\ RowsAre /\ CallsAre
  BY <1>1, <1>3, <1>6, <1>8 DEF StageTyped, Stages, RowsAre, CallsAre
<1>11. FilesPlaced /\ SetsPlaced /\ RowsPlaced
  BY <1>1 DEF FilesPlaced, SetsPlaced, RowsPlaced, WithFiles, WithIdle, WithSets
<1> QED BY <1>2, <1>5, <1>7, <1>s, <1>9, <1>10, <1>11 DEF EnrolInv, SweepInv, CliInv
-----------------------------------------------------------------------------
(* What a run checks, for any set of faults.                               *)

LEMMA StepIsSound == EnrolInv /\ [Next]_vars => EnrolInv'
<1> SUFFICES ASSUME EnrolInv, [Next]_vars PROVE EnrolInv'
  OBVIOUS
<1>1. CASE Next
  BY <1>1, CliKeeps, OthersKeep DEF Next
<1>2. CASE UNCHANGED vars
  <2>1. UNCHANGED <<net, host, mgr, hostCalm, rows, op, px, phase, seen, cache, todo, at, undo, dev, off, before, leftover, cli, sweep>>
    BY <1>2 DEF vars, net, table, sweep, cli
  <2>2. HostSound'
    BY <2>1 DEF EnrolInv, SweepInv, HostSound, Host, host
  <2>3. "daemon" \in Procs
    BY EnrolAssumption
  <2>4. SweepInv'
    BY <2>1, <2>2, <2>3, SweepUntouched DEF EnrolInv, SweepInv, SweepTyped
  <2>5. CliInv'
    BY <2>1, <2>2, CliUntouched DEF EnrolInv, host
  <2>6. Forward' => Straight'
    BY <2>1 DEF EnrolInv, Forward, Straight, Ordered, In
  <2> QED BY <2>4, <2>5, <2>6 DEF EnrolInv
<1> QED BY <1>1, <1>2

\* The inductive invariant of the enroll command and the daemon beside it
\* (cmd_enroll.go, internal/enroll, internal/reconcile), for any faults.
THEOREM EnrolInvHolds == Spec => []EnrolInv
<1> QED BY InitIsSound, StepIsSound, PTL DEF Spec

\* Every variable of the host, the sweep and the command keeps its type; in
\* particular no undo is pushed twice and a plan has five actions at most.
THEOREM EnrolTypeOKHolds == Spec => []EnrolTypeOK
<1>1. EnrolInv => EnrolTypeOK
  <2> SUFFICES ASSUME EnrolInv PROVE EnrolTypeOK
    OBVIOUS
  <2>1. HostTypeOK
    <3>1. {names, loaded, hostCalm} \subseteq BOOLEAN
      BY DEF EnrolInv, SweepInv, HostSound, Host
    <3>2. Host /\ mgr \in [Procs -> Manager]
      BY DEF EnrolInv, SweepInv, HostSound
    <3> QED BY <3>1, <3>2 DEF Host, HostTypeOK, Manager
  <2>2. SweepTypeOK
    BY <2>1 DEF EnrolInv, SweepInv, SweepTyped, SweepTypeOK, Actions, Observations
  <2>3. StageTyped /\ Stacked(undo) /\ Below(undo, Level(at))
    BY DEF EnrolInv, CliInv, StackSound
  <2>4. Len(undo) <= 8 /\ undo \in Seq(Undos)
    <3>1. Len(undo) \in Nat /\ undo \in Seq(Undos)
      BY <2>3, LenProperties DEF Stacked
    <3>2. CASE Len(undo) = 0
      BY <3>1, <3>2
    <3>3. CASE Len(undo) # 0
      <4>1. Len(undo) \in 1 .. Len(undo)
        BY <3>1, <3>3
      <4>2. Rank(undo[Len(undo)]) >= Len(undo)
        BY <2>3, <4>1 DEF Stacked
      <4> QED BY <3>1, <4>2, RankIs
    <3> QED BY <3>2, <3>3
  <2>5. Cardinality(Undos) = 8
    <3>1. IsFiniteSet({"ports"}) /\ Cardinality({"ports"}) = 1
      BY FS_Singleton
    <3>2. IsFiniteSet({"ports", "netcfg"}) /\ Cardinality({"ports", "netcfg"}) = 2
      <4>1. {"ports", "netcfg"} = {"ports"} \cup {"netcfg"} /\ "netcfg" \notin {"ports"}
        OBVIOUS
      <4> QED BY <3>1, <4>1, FS_AddElement
    <3>3. IsFiniteSet({"ports", "netcfg", "fw"}) /\ Cardinality({"ports", "netcfg", "fw"}) = 3
      <4>1. {"ports", "netcfg", "fw"} = {"ports", "netcfg"} \cup {"fw"} /\ "fw" \notin {"ports", "netcfg"}
        OBVIOUS
      <4> QED BY <3>2, <4>1, FS_AddElement
    <3> DEFINE four == {"ports", "netcfg", "fw", "dongle"}  five == four \cup {"slot"}
               six == five \cup {"attach"}  seven == six \cup {"row"}
    <3>4. IsFiniteSet(four) /\ Cardinality(four) = 4
      <4>1. four = {"ports", "netcfg", "fw"} \cup {"dongle"} /\ "dongle" \notin {"ports", "netcfg", "fw"}
        OBVIOUS
      <4> QED BY <3>3, <4>1, FS_AddElement
    <3>a. "slot" \notin four /\ "attach" \notin five /\ "row" \notin six /\ "proxy" \notin seven
      OBVIOUS
    <3>b. Undos = seven \cup {"proxy"}
      BY DEF Undos
    <3> HIDE DEF four
    <3>5. IsFiniteSet(five) /\ Cardinality(five) = 5
      BY <3>4, <3>a, FS_AddElement
    <3> HIDE DEF five
    <3>6. IsFiniteSet(six) /\ Cardinality(six) = 6
      BY <3>5, <3>a, FS_AddElement
    <3> HIDE DEF six
    <3>7. IsFiniteSet(seven) /\ Cardinality(seven) = 7
      BY <3>6, <3>a, FS_AddElement
    <3> HIDE DEF seven
    <3> QED BY <3>7, <3>a, <3>b, FS_AddElement
  <2> QED BY <2>2, <2>3, <2>4, <2>5 DEF StageTyped, EnrolTypeOK
<1> QED BY <1>1, EnrolInvHolds, PTL

\* A failed enrolment has lost no row that was there, and has left a row or
\* the ports behind only if every undo of it has failed itself, whatever else
\* failed and however the daemon swept meanwhile (Enroller.unwind,
\* session.rollback, whose undos drop their errors).
THEOREM RollbackHolds == Spec => []RollbackRestoresTheTables
<1>1. EnrolInv => RollbackRestoresTheTables
  <2> SUFFICES ASSUME EnrolInv, at = "failed"
               PROVE  /\ before \subseteq rows
                      /\ \A r \in rows \ before, u \in DOMAIN Takes :
                             r \in Takes[u] => u \in leftover \/ (u = "slot" /\ "slot" \in before)
                      /\ off => "ports" \in leftover
    BY DEF RollbackRestoresTheTables
  <2>1. RowsAre /\ Stacked(undo) /\ Below(undo, Level(at))
    BY DEF EnrolInv, CliInv, StackSound
  <2>2. Level(at) = 1
    BY DEF Level
  <2>3. \A a : Owed(a) => a \in leftover
    BY <2>1, <2>2, EmptyStack DEF Stacked, Owed
  <2>4. DOMAIN Takes = {"dongle", "slot", "attach", "row"}
    BY DEF Takes
  <2>5. \A r \in rows : r \notin before => RowOwed(r)
    BY <2>1 DEF RowsAre
  <2>6. before \subseteq rows /\ (off => "ports" \in leftover)
    BY <2>1, <2>3 DEF RowsAre
  <2>7. ASSUME NEW r \in rows \ before, NEW u \in DOMAIN Takes, r \in Takes[u]
        PROVE  u \in leftover \/ (u = "slot" /\ "slot" \in before)
    <3>1. RowOwed(r) /\ u \in {"dongle", "slot", "attach", "row"}
      BY <2>4, <2>5, <2>7
    <3> QED BY <2>3, <2>7, <3>1 DEF RowOwed
  <2> QED BY <2>6, <2>7
<1> QED BY <1>1, EnrolInvHolds, PTL

\* The stages that lead to success, and what leads there.
LEMMA CliStages ==
    ASSUME Cli
    PROVE  \/ at' \notin {"selftest", "done"}
           \/ ApplyProxy /\ at' = "selftest"
           \/ SelftestAndRelease /\ at = "selftest" /\ at' = "done"
           \/ at' = at /\ CliStep
<1>1. CASE EnrollCmd \/ EnrollCmdGlobal \/ EnrollBegins
  <2>1. at' \in {"global", "refused", "firewall", "guard"}
    BY <1>1 DEF EnrollCmd, EnrollCmdGlobal, EnrollBegins, Then
  <2> QED BY <2>1
<1>2. CASE GuardAddresses \/ GuardPorts \/ AwaitLink \/ CheckDongle \/ EnrolNetcfg
  <2>1. at' \in {"ports", "unwind", "link", "check", "netcfg", "moved", "fw"}
    BY <1>2 DEF GuardAddresses, GuardPorts, AwaitLink, CheckDongle, EnrolNetcfg, Then, Push, Fail
  <2> QED BY <2>1
<1>3. CASE MoveLanIP \/ RediscoverSlot \/ DisableMaxIdle \/ CreateDongle \/ UpsertSlot \/ CreateProxy
  <2>1. at' \in {"unwind", "rediscover", "max_idle", "admit", "slot", "attach", "row", "apply"}
    BY <1>3
       DEF MoveLanIP, RediscoverSlot, DisableMaxIdle, CreateDongle, UpsertSlot, CreateProxy, Then, Push, Fail
  <2> QED BY <2>1
<1>4. CASE ApplyProxy
  BY <1>4 DEF ApplyProxy, Push, Fail
<1>5. CASE SelftestAndRelease
  BY <1>5 DEF SelftestAndRelease, Fail
<1>6. CASE Unwind \/ CliEnds
  <2>1. at' \in {"unwind", "failed", "over"}
    BY <1>6 DEF Unwind, UndoCall, UndoRow, UndoProxy, UndoPorts, EnrolFails, CliEnds, Unwinds, Then
  <2> QED BY <2>1
<1>7. CASE CliStep
  BY <1>7 DEF CliStep, cli
<1> QED BY <1>1, <1>2, <1>3, <1>4, <1>5, <1>6, <1>7 DEF Cli

\* While the command tests the proxy it runs: the daemon starts it again on a
\* slot that is there, and nobody stops it.
ProxyRuns == at = "selftest" => px /\ (In("start", todo) => link = "dg" /\ plumb = Plumbing)

LEMMA ProxyRunsStep ==
    ASSUME "unplug" \notin HostFaults, EnrolInv, ProxyRuns, [Next]_vars
    PROVE  ProxyRuns'
<1> SUFFICES ASSUME at' = "selftest" PROVE px' /\ (In("start", todo') => link' = "dg" /\ plumb' = Plumbing)
  BY DEF ProxyRuns, Plumbing
<1>0. /\ "daemon" \in Procs /\ "cli" \in Procs /\ SweepInv /\ SweepSound /\ CliInv /\ HostSound
  BY EnrolAssumption DEF EnrolInv, SweepInv
<1>1. CASE Cli
  <2>1. CASE ApplyProxy
    <3>1. EgressReady(Observation) /\ px' = TRUE /\ UNCHANGED <<link, plumb>>
      BY <2>1 DEF ApplyProxy, Fail, net, host
    <3> QED BY <1>0, <3>1, ObservedIs DEF EgressReady
  <2>2. CASE at' = at /\ CliStep
    <3>1. mgr["cli"].pc = "idle"
      BY <1>0, <2>2, NoCall
    <3>2. Advance("cli")
      BY <1>0, <2>2, ManagerAdvances DEF CliStep
    <3> QED BY <3>1, <3>2 DEF Advance
  <2> QED BY <1>1, <2>1, <2>2, CliStages
<1>2. CASE Sweeping
  <2>1. Swept /\ at = "selftest"
    BY <1>0, <1>2, DaemonIsSwept DEF Sweeping, cli
  <2>2. px /\ (In("start", todo) => link = "dg" /\ plumb = Plumbing)
    BY <2>1 DEF ProxyRuns
  <2>3. px'
    <3>1. ~In("stop", todo)
      BY <2>1 DEF EnrolInv, Forward, Straight
    <3> QED BY <2>1, <2>2, <3>1 DEF Swept
  <2>4. ASSUME In("start", todo') PROVE link' = "dg" /\ plumb' = Plumbing
    <3>1. In("start", todo)
      BY <2>1, <2>2, <2>4 DEF Swept
    <3>2. UNCHANGED <<plumb, link>>
      BY <1>0, <2>1, <3>1 DEF SweepSound, Swept
    <3> QED BY <2>2, <3>1, <3>2
  <2> QED BY <2>3, <2>4
<1>3. CASE Outside
  <2>1. at = "selftest" /\ px
    BY <1>3 DEF Outside, Reboot, cli, ProxyRuns
  <2>2. CASE (RuleLost \/ RuleAdded \/ LoadTable) /\ UNCHANGED <<table, px, sweep, cli>>
    BY <2>1, <2>2 DEF RuleLost, RuleAdded, LoadTable, sweep, ProxyRuns
  <2>3. CASE PluggedIn /\ UNCHANGED <<table, px, sweep, cli>>
    BY <2>1, <2>3 DEF PluggedIn, sweep, ProxyRuns
  <2>4. CASE Unplugged
    BY <2>4 DEF Unplugged, Fails
  <2>5. CASE DaemonRestarts
    <3>1. todo' = <<>> /\ px' = px
      BY <2>5 DEF DaemonRestarts, DaemonEnds
    <3>2. ~In("start", todo')
      BY <3>1, EmptyStack
    <3> QED BY <2>1, <3>1, <3>2
  <2>6. ~Reboot
    BY DEF Reboot
  <2> QED BY <1>3, <2>2, <2>3, <2>4, <2>5, <2>6 DEF Outside
<1>4. CASE UNCHANGED vars
  BY <1>4 DEF vars, net, host, sweep, cli, ProxyRuns
<1> QED BY <1>1, <1>2, <1>3, <1>4 DEF Next

\* An enrolment that reports success has its rows, its files, its firewall
\* elements, a dongle that does not hang up, and a proxy that runs, unless the
\* stick is pulled out meanwhile: then a daemon that was about to start the
\* proxy may find no slot for it (Enroller.run, publish).
THEOREM EnrolledIsWholeHolds ==
    ASSUME "unplug" \notin HostFaults
    PROVE  Spec => EnrolledIsWhole
<1> DEFINE Whole == at # "done" /\ at' = "done" =>
            /\ rows = {"slot", "dongle", "attached", "proxy"} /\ dev.idle /\ px
            /\ files = {"net", "link"} /\ sets = Ruleset
<1>1. Init => ProxyRuns
  BY DEF Init, ProxyRuns
<1>2. EnrolInv /\ ProxyRuns /\ [Next]_vars => ProxyRuns'
  BY ProxyRunsStep
<1>3. EnrolInv /\ ProxyRuns /\ [Next]_vars => [Whole]_vars
  <2> SUFFICES ASSUME EnrolInv, ProxyRuns, Next, at # "done", at' = "done"
               PROVE  /\ rows = {"slot", "dongle", "attached", "proxy"} /\ dev.idle /\ px
                      /\ files = {"net", "link"} /\ sets = Ruleset
    OBVIOUS
  <2>1. at = "selftest"
    <3>1. CASE Cli
      BY <3>1, CliStages DEF ApplyProxy
    <3>2. CASE Sweeping
      BY <3>2 DEF Sweeping, cli
    <3>3. CASE Outside
      BY <3>3 DEF Outside, Reboot, cli
    <3> QED BY <3>1, <3>2, <3>3 DEF Next
  <2>2. rows \in Rows /\ FilesPlaced /\ SetsPlaced /\ RowsPlaced
    BY DEF EnrolInv, SweepInv, SweepTyped, CliInv
  <2>3. rows = {"slot", "dongle", "attached", "proxy"}
    BY <2>1, <2>2 DEF Rows, RowsPlaced, WithSets
  <2> QED BY <2>1, <2>2, <2>3 DEF FilesPlaced, SetsPlaced, WithFiles, WithIdle, WithSets, ProxyRuns
<1>4. Spec => [][Whole]_vars
  <2> HIDE DEF Whole
  <2> QED BY <1>1, <1>2, <1>3, EnrolInvHolds, PTL DEF Spec
<1> QED BY <1>4 DEF EnrolledIsWhole
-----------------------------------------------------------------------------
(* The public rule and the rules of the slot.                              *)

\* The rule is there for every manager that trusts the node, or its removal is
\* under way, or a daemon died in the middle of that.
RuleKept == \A p \in Procs : mgr[p].ready => "ours" \in public \/ cut \/ \E q \in Procs : TakenDown(q)

\* Only the manager of p moves, and it does what Advance lets it do, or begins.
LEMMA ManagerKeepsRule ==
    ASSUME HostSound, RuleKept, "exec" \notin HostFaults, NEW p \in Procs, OnlyOf(p),
           (Advance(p) \/ \E S : Begun(p, S)),
           cut' <=> "ours" \notin public' /\ (cut \/ (TakenDown("daemon") /\ mgr'["daemon"] = IdleManager))
    PROVE  RuleKept'
<1> SUFFICES ASSUME NEW r \in Procs, mgr'[r].ready, "ours" \notin public', ~cut'
             PROVE  \E q \in Procs : TakenDown(q)'
  BY DEF RuleKept
<1>0. ~cut
  OBVIOUS
<1>1. CASE "ours" \in public
  <2>1. Advance(p)
    BY <1>1 DEF Begun
  <2>2. TakenDown(p)'
    BY <1>1, <2>1 DEF Advance, Keeps, Removal, TakenDown
  <2> QED BY <2>2
<1>2. CASE "ours" \notin public
  <2>1. mgr[r].ready
    BY DEF OnlyOf, Advance, Keeps, Begun
  <2>2. PICK q \in Procs : TakenDown(q)
    BY <1>0, <1>2, <2>1 DEF RuleKept
  <2>3. TakenDown(q)'
    <3>1. CASE q # p
      BY <2>2, <3>1 DEF OnlyOf, TakenDown
    <3>2. CASE q = p
      BY <2>2, <3>2 DEF TakenDown, Begun, Idle, Advance, Keeps, Removal
    <3> QED BY <3>1, <3>2
  <2> QED BY <2>3
<1> QED BY <1>1, <1>2

\* What a step does to the managers and to our rule.
Moves ==
    \/ \E p \in Procs : OnlyOf(p) /\ (Advance(p) \/ \E S : Begun(p, S))
    \/ mgr' = mgr /\ ("ours" \in public => "ours" \in public')
    \/ OnlyOf("daemon") /\ mgr'["daemon"] = IdleManager /\ public' = public
    \/ \A p \in Procs : mgr'[p] = IdleManager

LEMMA SweepMoves ==
    ASSUME EnrolInv, Sweeping
    PROVE  Moves
<1>0. "daemon" \in Procs /\ HostSound
  BY EnrolAssumption DEF EnrolInv, SweepInv
<1>1. CASE DaemonStarts \/ SweepLoad \/ SweepPoll \/ SweepRests
  <2>1. UNCHANGED net
    BY <1>1 DEF DaemonStarts, SweepLoad, SweepPoll, SweepRests
  <2> QED BY <2>1 DEF net, host, Moves
<1>2. CASE SweepAct
  <2>1. CASE EnsureNames("daemon") \/ EnsureGlobal("daemon") \/ ApplySlot("daemon") \/ AddDongle("daemon")
    <3>1. \E S : Begun("daemon", S)
      BY <1>0, <2>1, NamesBegun, GlobalBegun, SlotBegun, AddBegun
    <3> QED BY <1>0, <3>1 DEF Moves, Begun
  <2>2. CASE UNCHANGED net
    BY <2>2 DEF net, host, Moves
  <2> QED BY <1>2, <2>1, <2>2 DEF SweepAct
<1>3. CASE DaemonStep
  <2>1. Advance("daemon")
    BY <1>0, <1>3, ManagerAdvances DEF DaemonStep
  <2> QED BY <1>0, <2>1 DEF Moves, Advance
<1> QED BY <1>1, <1>2, <1>3 DEF Sweeping, DaemonNext

LEMMA CliMoves ==
    ASSUME EnrolInv, Cli
    PROVE  Moves
<1>0. "cli" \in Procs /\ HostSound
  BY EnrolAssumption DEF EnrolInv, SweepInv
<1>1. CASE EnrollCmd \/ EnrollCmdGlobal \/ EnrolNetcfg \/ UndoCall
  <2>1. \E S : Begun("cli", S)
    BY <1>0, <1>1, NamesBegun, GlobalBegun, SlotBegun, AddBegun, RemoveBegun
       DEF EnrollCmd, EnrollCmdGlobal, EnrolNetcfg, UndoCall
  <2> QED BY <1>0, <2>1 DEF Moves, Begun
<1>2. CASE CliStep
  <2>1. Advance("cli")
    BY <1>0, <1>2, ManagerAdvances DEF CliStep
  <2> QED BY <1>0, <2>1 DEF Moves, Advance
<1>3. ASSUME UNCHANGED net PROVE Moves
  BY <1>3 DEF net, host, Moves
<1>4. CASE GuardAddresses \/ GuardPorts \/ AwaitLink \/ CheckDongle \/ MoveLanIP \/ RediscoverSlot \/ DisableMaxIdle
            \/ CliEnds
  <2>1. UNCHANGED net
    BY <1>4 DEF GuardAddresses, GuardPorts, AwaitLink, CheckDongle, MoveLanIP, RediscoverSlot, DisableMaxIdle,
                CliEnds, Others
  <2> QED BY <1>3, <2>1
<1>5. CASE EnrollBegins \/ CreateDongle \/ UpsertSlot \/ CreateProxy \/ ApplyProxy \/ SelftestAndRelease
            \/ UndoRow \/ UndoProxy \/ UndoPorts \/ EnrolFails
  <2>1. UNCHANGED net
    BY <1>5 DEF EnrollBegins, CreateDongle, UpsertSlot, CreateProxy, ApplyProxy, SelftestAndRelease,
                UndoRow, UndoProxy, UndoPorts, EnrolFails
  <2> QED BY <1>3, <2>1
<1> QED BY <1>1, <1>2, <1>4, <1>5 DEF Cli, Unwind

LEMMA OutsideMoves ==
    ASSUME EnrolInv, Outside, "rule_lost" \notin HostFaults
    PROVE  Moves
<1>0. "daemon" \in Procs /\ HostSound
  BY EnrolAssumption DEF EnrolInv, SweepInv
<1>1. CASE RuleLost \/ RuleAdded \/ LoadTable \/ Unplugged \/ PluggedIn
  <2>1. mgr' = mgr /\ ("ours" \in public => "ours" \in public')
    BY <1>1 DEF RuleLost, RuleAdded, LoadTable, Unplugged, PluggedIn, Fails
  <2> QED BY <2>1 DEF Moves
<1>2. CASE DaemonRestarts
  <2>1. mgr' = [mgr EXCEPT !["daemon"] = IdleManager] /\ UNCHANGED <<host, hostCalm>>
    BY <1>2 DEF DaemonRestarts
  <2>2. OnlyOf("daemon") /\ mgr'["daemon"] = IdleManager /\ public' = public
    BY <1>0, <2>1, RestartIsSound DEF host
  <2> QED BY <2>2 DEF Moves
<1>3. CASE Reboot
  BY <1>0, <1>3, RebootIsSound DEF Reboot, NodeReboots, Moves
<1> QED BY <1>1, <1>2, <1>3 DEF Outside

LEMMA RuleKeptStep ==
    ASSUME {"rule_lost", "exec"} \cap HostFaults = {}, EnrolInv, RuleKept, [MCNext]_mcVars
    PROVE  RuleKept'
<1>0. "daemon" \in Procs /\ HostSound
  BY EnrolAssumption DEF EnrolInv, SweepInv
<1>1. CASE UNCHANGED mcVars
  BY <1>1 DEF mcVars, vars, net, host, RuleKept, TakenDown
<1>2. CASE MCNext
  <2>1. cut' <=> "ours" \notin public' /\ (cut \/ (TakenDown("daemon") /\ mgr'["daemon"] = IdleManager))
    BY <1>2 DEF MCNext
  <2>2. Moves
    BY <1>2, SweepMoves, CliMoves, OutsideMoves DEF MCNext, Next
  <2>3. CASE \E p \in Procs : OnlyOf(p) /\ (Advance(p) \/ \E S : Begun(p, S))
    BY <1>0, <2>1, <2>3, ManagerKeepsRule
  <2>4. CASE mgr' = mgr /\ ("ours" \in public => "ours" \in public')
    BY <2>1, <2>4 DEF RuleKept, TakenDown
  <2>5. CASE OnlyOf("daemon") /\ mgr'["daemon"] = IdleManager /\ public' = public
    <3> SUFFICES ASSUME NEW r \in Procs, mgr'[r].ready, "ours" \notin public', ~cut'
                 PROVE  \E q \in Procs : TakenDown(q)'
      BY DEF RuleKept
    <3>1. r # "daemon" /\ mgr'[r] = mgr[r]
      BY <2>5, IdleIsSound DEF OnlyOf
    <3>2. PICK q \in Procs : TakenDown(q)
      BY <2>1, <2>5, <3>1 DEF RuleKept
    <3>3. q # "daemon"
      BY <2>1, <2>5, <3>2
    <3> QED BY <2>5, <3>2, <3>3 DEF OnlyOf, TakenDown
  <2>6. CASE \A p \in Procs : mgr'[p] = IdleManager
    BY <2>6, IdleIsSound DEF RuleKept
  <2> QED BY <2>2, <2>3, <2>4, <2>5, <2>6 DEF Moves
<1> QED BY <1>1, <1>2

\* No manager brings the rules of a slot up on a host that has lost the public
\* rule, but while another takes that down to put it back or has died doing so,
\* as long as nobody else deletes the rule and no command fails: a manager that
\* has deleted the rule and cannot add it trusts the node all the same
\* (Manager.ensureGlobal, ErrGlobalNotReady).
THEOREM ManagerKeepsOrderHolds ==
    ASSUME {"rule_lost", "exec"} \cap HostFaults = {}
    PROVE  MCSpec => ManagerKeepsOrder
<1> DEFINE Order == \A p \in Procs :
            (mgr[p].pc \in {"udev", "reload"} /\ "rules" \in plumb' \ plumb /\ mgr'[p] # IdleManager)
            => "ours" \in public \/ cut \/ \E q \in Procs : TakenDown(q)
<1>1. MCInit => EnrolInv /\ RuleKept
  <2> SUFFICES ASSUME MCInit PROVE RuleKept
    BY InitIsSound DEF MCInit
  <2>1. mgr = [p \in Procs |-> IdleManager]
    BY DEF MCInit, Init, SweepInit, HostInit
  <2> HIDE DEF IdleManager
  <2> QED BY <2>1, IdleIsSound DEF RuleKept
<1>2. EnrolInv /\ RuleKept /\ [MCNext]_mcVars => (EnrolInv /\ RuleKept)'
  <2>1. [MCNext]_mcVars => [Next]_vars
    BY DEF MCNext, mcVars
  <2> QED BY <2>1, StepIsSound, RuleKeptStep
<1>3. EnrolInv /\ RuleKept => Order
  <2> SUFFICES ASSUME EnrolInv, RuleKept, NEW p \in Procs, mgr[p].pc \in {"udev", "reload"}
               PROVE  "ours" \in public \/ cut \/ \E q \in Procs : TakenDown(q)
    OBVIOUS
  <2>1. mgr[p].ready
    BY DEF EnrolInv, SweepInv, HostSound, ManagerSound, SlotPcs
  <2> QED BY <2>1 DEF RuleKept
<1>4. MCSpec => [][Order]_mcVars
  <2> HIDE DEF Order
  <2> QED BY <1>1, <1>2, <1>3, PTL DEF MCSpec
<1> QED BY <1>4 DEF ManagerKeepsOrder
=============================================================================
