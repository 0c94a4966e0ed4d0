---------------------------- MODULE Egress_proofs ----------------------------
(***************************************************************************)
(* Theorems about what leaves a slot and how it is measured.  The fence    *)
(* cuts a slot off, whatever the interfaces and however many the           *)
(* connections, and the chain lets out only what it means to; the probe    *)
(* keeps within its budget and falls back, whatever the endpoints and the  *)
(* budget, as long as one dial fits into it.                               *)
(***************************************************************************)
EXTENDS MCRotationVerdict, FiniteSetTheorems, TLAPS

-----------------------------------------------------------------------------
(* The chain and the fence (internal/fw).                                  *)

(* A packet that gets past all the rules of the chain has matched none of  *)
(* those that always match.                                                *)
LEMMA AcceptedBy ==
    ASSUME NEW p, Accepts(p)
    PROVE  \/ Matches("customer-facing leg", p)
           \/ Matches("farm-local probe leg", p)
           \/ /\ ~Matches("fence icmpx", p)
              /\ Matches("dns to dongle gateway", p)
           \/ /\ ~Matches("fence icmpx", p)
              /\ ~Matches("ssrf drop", p)
              /\ ~Matches("leak drop", p)
              /\ ~Matches("smtp drop", p)
<1> DEFINE Passes(i) == /\ EgressRuleOrder[i] \in Accepting /\ Matches(EgressRuleOrder[i], p)
                        /\ \A j \in 1 .. i - 1 :
                               EgressRuleOrder[j] \in Limited \/ ~Matches(EgressRuleOrder[j], p)
<1>a. DOMAIN EgressRuleOrder = 1 .. 12
  BY DEF EgressRuleOrder
<1>b. \E i \in DOMAIN EgressRuleOrder : Passes(i)
  BY DEF Accepts
<1> HIDE DEF Passes
<1>1. PICK i \in 1 .. 12 : Passes(i)
  BY <1>a, <1>b
<1> USE DEF Passes
<1>2. i \in {1, 2, 5, 12}
  <2>1. /\ EgressRuleOrder[3] \notin Accepting /\ EgressRuleOrder[4] \notin Accepting
        /\ EgressRuleOrder[6] \notin Accepting /\ EgressRuleOrder[7] \notin Accepting
        /\ EgressRuleOrder[8] \notin Accepting /\ EgressRuleOrder[9] \notin Accepting
        /\ EgressRuleOrder[10] \notin Accepting /\ EgressRuleOrder[11] \notin Accepting
    BY DEF EgressRuleOrder, Accepting
  <2> QED
    BY <1>1, <2>1
<1>3. CASE i = 1
  BY <1>1, <1>3 DEF EgressRuleOrder
<1>4. CASE i = 2
  BY <1>1, <1>4 DEF EgressRuleOrder
<1>5. CASE i = 5
  <2>1. EgressRuleOrder[4] \in Limited \/ ~Matches(EgressRuleOrder[4], p)
    BY <1>1, <1>5
  <2>2. EgressRuleOrder[4] = "fence icmpx" /\ EgressRuleOrder[5] = "dns to dongle gateway"
    BY DEF EgressRuleOrder
  <2> QED
    BY <1>1, <1>5, <2>1, <2>2 DEF Limited
<1>6. CASE i = 12
  <2>1. \A j \in {4, 7, 9, 10} : EgressRuleOrder[j] \in Limited \/ ~Matches(EgressRuleOrder[j], p)
    BY <1>1, <1>6
  <2>2. /\ EgressRuleOrder[4] = "fence icmpx" /\ EgressRuleOrder[7] = "ssrf drop"
        /\ EgressRuleOrder[9] = "leak drop" /\ EgressRuleOrder[10] = "smtp drop"
    BY DEF EgressRuleOrder
  <2> QED
    BY <2>1, <2>2 DEF Limited
<1> QED
  BY <1>2, <1>3, <1>4, <1>5, <1>6

(* Nothing else than replies of a listener, name queries to a gateway and  *)
(* plain traffic to the internet through an unfenced dongle leaves, in any *)
(* state of the fence.                                                     *)
LEMMA ContainedNow == OnlyWhatIsMeant
<1>1. ASSUME NEW p \in Packets, Accepts(p)
      PROVE  ThroughADongle(p) \/ CustomerReply(p) \/ NameQuery(p)
  <2>1. CASE Matches("customer-facing leg", p) \/ Matches("farm-local probe leg", p)
    BY <2>1 DEF Matches, CustomerReply
  <2>2. CASE ~Matches("fence icmpx", p) /\ Matches("dns to dongle gateway", p)
    BY <2>2 DEF Matches, NameQuery
  <2>3. CASE /\ ~Matches("fence icmpx", p) /\ ~Matches("ssrf drop", p)
             /\ ~Matches("leak drop", p) /\ ~Matches("smtp drop", p)
    BY <2>3, <1>1 DEF Matches, ThroughADongle, Private, Packets
  <2> QED
    BY <1>1, <2>1, <2>2, <2>3, AcceptedBy
<1> QED
  BY <1>1 DEF OnlyWhatIsMeant

(* The same of every behaviour of the fence.                               *)
THEOREM OnlyWhatIsMeantHolds == FilterSpec => []OnlyWhatIsMeant
  BY ContainedNow, PTL

(* Behind the fence no packet of a customer's connection gets out.         *)
LEMMA FenceRejects ==
    ASSUME NEW b \in BOOLEAN, Slot \in fenced
    PROVE  ~Accepts(Traffic(b))
  BY AcceptedBy, FilterAssumption DEF Traffic, Matches, Answer

-----------------------------------------------------------------------------
(* What makes FenceHolds inductive: from the first dump on the element is  *)
(* there, so that what is left of the connections is on the list.          *)
FenceInv ==
    /\ FilterTypeOK
    /\ fence \in {"list", "kill", "list_entries", "flush", "behind"} => Slot \in fenced
    /\ fence = "kill" /\ ~skipped => conns \subseteq todo
    /\ fence \in {"list_entries", "flush", "behind"} /\ ~skipped => conns = {}
    /\ fence = "flush" /\ ~skipped => tracked \subseteq todo
    /\ fence = "behind" /\ ~skipped => tracked = {}

LEMMA FenceInvInit == FilterInit => FenceInv
  BY DEF FilterInit, FenceInv, FilterTypeOK

LEMMA FenceInvStep == FenceInv /\ [FilterNext]_filterVars => FenceInv'
<1> SUFFICES ASSUME FenceInv, [FilterNext]_filterVars
             PROVE  FenceInv'
  OBVIOUS
<1> USE DEF FenceInv, FilterTypeOK
<1>1. CASE AddFence
  BY <1>1 DEF AddFence
<1>2. CASE ConfirmFence
  BY <1>2 DEF ConfirmFence, Onto
<1>3. CASE ListSockets
  BY <1>3 DEF ListSockets
<1>4. CASE KillSocket
  BY <1>4 DEF KillSocket, Onto
<1>5. CASE ListConntrack
  BY <1>5 DEF ListConntrack
<1>6. CASE FlushEntry
  BY <1>6 DEF FlushEntry, Onto
<1>7. CASE Unfence
  BY <1>7 DEF Unfence, Onto
<1>8. ASSUME NEW c \in Conns, Connect(c)
      PROVE  FenceInv'
  <2>1. Slot \notin fenced
    BY <1>8, FenceRejects DEF Connect
  <2> QED
    BY <1>8, <2>1 DEF Connect
<1>9. ASSUME NEW c \in Conns, Send(c)
      PROVE  FenceInv'
  <2>1. CASE Slot \in fenced
    <3>1. ~Accepts(Traffic(TRUE))
      BY <2>1, FenceRejects
    <3> QED
      BY <1>9, <3>1 DEF Send
  <2>2. CASE Slot \notin fenced
    BY <1>9, <2>2 DEF Send
  <2> QED
    BY <2>1, <2>2
<1>10. ASSUME NEW c \in Conns, Disconnect(c)
       PROVE  FenceInv'
  BY <1>10 DEF Disconnect
<1>11. CASE UNCHANGED filterVars
  BY <1>11 DEF filterVars
<1> QED
  BY <1>1, <1>2, <1>3, <1>4, <1>5, <1>6, <1>7, <1>8, <1>9, <1>10, <1>11
  DEF FilterNext, Cycle

(* During the hold of a rotation no connection of before the fence is left *)
(* and none has come since, unless a kernel request was passed over.       *)
THEOREM FenceHoldsHolds == FilterSpec => []FenceHolds
<1>1. FenceInv => FenceHolds
  BY DEF FenceInv, FenceHolds
<1> QED
  BY FenceInvInit, FenceInvStep, <1>1, PTL DEF FilterSpec

(* What a run of MCRotationVerdict checks: each part steps by its own      *)
(* actions, and the fence of the others stays as it begins.                *)
THEOREM EgressIsContainedHolds == MCVerdictSpec => []EgressIsContained
<1>1. MCVerdictInit => FenceInv
  BY FenceInvInit DEF MCVerdictInit
<1>2. FenceInv /\ [MCVerdictNext]_verdictVars => FenceInv'
  <2>1. [MCVerdictNext]_verdictVars => [FilterNext]_filterVars
    BY DEF MCVerdictNext, verdictVars, filterVars
  <2> QED
    BY <2>1, FenceInvStep
<1>3. FenceInv => EgressIsContained
  BY ContainedNow DEF FenceInv, FenceHolds, EgressIsContained
<1> QED
  BY <1>1, <1>2, <1>3, PTL DEF MCVerdictSpec
-----------------------------------------------------------------------------
(* The probe and the selftest (internal/rotate probe.go, verify.go).       *)

LEMMA ProbeNumbers ==
    /\ EchoTimeout \in Nat /\ EchoTimeout > 0 /\ DialTimeout \in Nat /\ DialTimeout > 0
    /\ ProbeBudget \in Nat /\ ProbeBudget > 0 /\ Len(Echoes) \in Nat /\ Len(Echoes) >= 1
<1>1. Echoes \in Seq(STRING) /\ Echoes # <<>>
  BY ProbeAssumption
<1>2. Len(Echoes) \in Nat /\ Len(Echoes) # 0
  BY <1>1
<1> QED
  BY <1>2, ProbeAssumption

\* The sooner of two ends of a wait.
LEMMA Sooner ==
    ASSUME NEW a \in Nat, NEW b \in Nat
    PROVE  Min({a, b}) \in Nat /\ Min({a, b}) <= a /\ Min({a, b}) <= b
                               /\ (Min({a, b}) = a \/ Min({a, b}) = b)
<1>1. \E x \in {a, b} : \A y \in {a, b} : x <= y
  OBVIOUS
<1>2. Min({a, b}) \in {a, b} /\ \A y \in {a, b} : Min({a, b}) <= y
  BY <1>1 DEF Min
<1> QED
  BY <1>2

ProbeTyped ==
    /\ job \in {"probe", "selftest"} /\ via \in Ways
    /\ hop \in {"dial", "greet", "connect", "read", "next", "answered"}
    /\ asked \in 1 .. Len(Echoes) /\ spent \in Nat /\ began \in Nat
    /\ answer \in [Ways -> {"none", "failed", "slot", "host"}]
    /\ echoes \in [1 .. Len(Echoes) -> Conduct]
    /\ gate \in [{"socks", "http"} -> {"open", "password", "closed"}]
    /\ creds \in BOOLEAN /\ route \in {"slot", "host"}

\* Before a silent endpoint was asked nothing is spent but on dials that nobody
\* answered: nothing at all without one, and one dial at most after the first.
SpentOn(n) ==
    Before(n, "silent") = {} =>
        /\ Before(n, "unreachable") = {} => spent = 0
        /\ Cardinality(Before(n, "unreachable")) <= 1 => spent <= DialTimeout

NoneUp(n) == \A j \in 1 .. n : echoes[j] # "up"

ProbeTimed ==
    job = "probe" =>
        /\ via = "source" /\ hop \in {"dial", "read", "next", "answered"}
        /\ spent <= ProbeBudget
        /\ hop # "answered" => answer["source"] = "none" /\ NoneUp(asked - 1)
        /\ hop \in {"dial", "read"} => SpentOn(asked)
        /\ hop = "next" => SpentOn(asked + 1) /\ NoneUp(asked)
        /\ answer["source"] = "failed" =>
              NoneUp(asked) /\ (asked = Len(Echoes) \/ (spent >= ProbeBudget /\ SpentOn(asked + 1)))

\* A service lets a caller with the credentials of the row in.
Received(s) == gate[s] = "open" \/ (gate[s] = "password" /\ creds)

SelftestServed ==
    job = "selftest" =>
        /\ via \in {"socks", "http"}
        /\ hop = "greet" => via = "socks" /\ gate[via] # "closed"
        /\ hop = "connect" => via = "socks" /\ Received(via)
        /\ hop = "read" => gate[via] # "closed" /\ (via = "socks" => Received(via))
        /\ \A s \in {"socks", "http"} :
              answer[s] \notin {"none", "failed"} => answer[s] = route /\ Received(s)

ProbeInv == ProbeTyped /\ ProbeTimed /\ SelftestServed

\* The endpoints before n + 1 are those before n and the n-th.
LEMMA OneMoreBefore ==
    ASSUME ProbeTyped, NEW n \in 1 .. Len(Echoes), NEW c \in Conduct
    PROVE  /\ Before(n + 1, c) = IF echoes[n] = c THEN Before(n, c) \cup {n} ELSE Before(n, c)
           /\ n \notin Before(n, c)
           /\ IsFiniteSet(Before(n, c)) /\ Cardinality(Before(n, c)) \in Nat
           /\ echoes[n] = c => Cardinality(Before(n + 1, c)) = Cardinality(Before(n, c)) + 1
<1>1. n \in Nat /\ n >= 1
  BY ProbeNumbers
<1>2. n \notin Before(n, c)
  BY <1>1 DEF Before
<1>3. 1 .. (n + 1) - 1 = (1 .. n - 1) \cup {n}
  BY <1>1
<1>4. Before(n + 1, c) = IF echoes[n] = c THEN Before(n, c) \cup {n} ELSE Before(n, c)
  BY <1>3 DEF Before
<1>5. IsFiniteSet(1 .. n - 1)
  BY <1>1, FS_Interval
<1>6. Before(n, c) \in SUBSET (1 .. n - 1)
  BY DEF Before
<1>7. IsFiniteSet(Before(n, c))
  BY <1>5, <1>6, FS_Subset
<1>8. Cardinality(Before(n, c)) \in Nat
  BY <1>7, FS_CardinalityType
<1>9. Cardinality(Before(n, c) \cup {n}) = Cardinality(Before(n, c)) + 1
  BY <1>2, <1>7, FS_AddElement
<1> QED
  BY <1>2, <1>4, <1>7, <1>8, <1>9

\* The ends of the waits.
LEMMA EndsAre ==
    ASSUME ProbeTyped
    PROVE  /\ CallerEnds \in Nat /\ OneEnds \in Nat /\ DialEnds \in Nat
           /\ OneEnds <= CallerEnds /\ DialEnds <= CallerEnds /\ DialEnds <= spent + DialTimeout
           /\ via = "source" => CallerEnds = ProbeBudget
<1>1. Unlimited \in Nat
  BY ProbeNumbers DEF Unlimited
<1>2. CallerEnds \in Nat /\ (via = "source" => CallerEnds = ProbeBudget)
  BY <1>1, ProbeNumbers DEF CallerEnds
<1>3. spent \in Nat /\ began \in Nat /\ began + EchoTimeout \in Nat /\ spent + DialTimeout \in Nat
  BY ProbeNumbers DEF ProbeTyped
<1>4. OneEnds \in Nat /\ OneEnds <= CallerEnds
  BY <1>2, <1>3, Sooner DEF OneEnds
<1>5. DialEnds \in Nat /\ DialEnds <= OneEnds /\ DialEnds <= spent + DialTimeout
  BY <1>3, <1>4, Sooner DEF DialEnds
<1> QED
  BY <1>2, <1>4, <1>5

\* No endpoint but a silent or an unreachable one takes time: what is known of
\* the time when the n-th is asked is known of it when it has failed.
LEMMA SpentNext ==
    ASSUME ProbeTyped, SpentOn(asked), UNCHANGED <<echoes, asked>>,
           \/ echoes[asked] = "silent"
           \/ echoes[asked] = "wrong" /\ spent' = spent
           \/ echoes[asked] = "unreachable" /\ spent' \in Nat /\ spent' <= spent + DialTimeout
    PROVE  SpentOn(asked + 1)'
<1> DEFINE U == Before(asked, "unreachable")
           S == Before(asked, "silent")
           U1 == Before(asked + 1, "unreachable")
           S1 == Before(asked + 1, "silent")
<1>0. asked \in 1 .. Len(Echoes) /\ spent \in Nat
  BY DEF ProbeTyped
<1>1. /\ U1 = IF echoes[asked] = "unreachable" THEN U \cup {asked} ELSE U
      /\ S1 = IF echoes[asked] = "silent" THEN S \cup {asked} ELSE S
      /\ IsFiniteSet(U) /\ Cardinality(U) \in Nat
      /\ echoes[asked] = "unreachable" => Cardinality(U1) = Cardinality(U) + 1
  BY <1>0, OneMoreBefore DEF Conduct
<1>2. U1' = U1 /\ S1' = S1
  BY DEF Before
<1>3. S = {} => (U = {} => spent = 0) /\ (Cardinality(U) <= 1 => spent <= DialTimeout)
  BY DEF SpentOn
<1>4. Cardinality(U) = 0 => U = {}
  BY <1>1, FS_EmptySet
<1> HIDE DEF U, S, U1, S1
<1>5. CASE echoes[asked] = "silent"
  BY <1>1, <1>2, <1>5 DEF SpentOn, S1
<1>6. CASE echoes[asked] = "wrong" /\ spent' = spent
  <2>1. U1 = U /\ S1 = S
    BY <1>1, <1>6
  <2> QED
    BY <1>2, <1>3, <1>6, <2>1 DEF SpentOn, U1, S1
<1>7. CASE echoes[asked] = "unreachable" /\ spent' \in Nat /\ spent' <= spent + DialTimeout
  <2>1. U1 = U \cup {asked} /\ S1 = S /\ Cardinality(U1) = Cardinality(U) + 1
    BY <1>1, <1>7
  <2>2. ASSUME S = {}, Cardinality(U1) <= 1 PROVE spent' <= DialTimeout
    <3>1. Cardinality(U) = 0
      BY <1>1, <2>1, <2>2
    <3>2. spent = 0
      BY <1>3, <1>4, <2>2, <3>1
    <3> QED
      BY <1>7, <3>2, ProbeNumbers
  <2>3. U1 # {}
    BY <2>1
  <2> QED
    BY <1>2, <2>1, <2>2, <2>3 DEF SpentOn, U1, S1
<1> QED
  BY <1>5, <1>6, <1>7

LEMMA ProbeStart == ProbeInit => ProbeInv
<1> SUFFICES ASSUME ProbeInit PROVE ProbeInv
  OBVIOUS
<1>1. ProbeTyped
  BY ProbeNumbers DEF ProbeInit, ProbeTyped, Ways
<1>2. NoneUp(asked - 1) /\ SpentOn(asked)
  <2>1. asked = 1 /\ spent = 0 /\ 1 .. 1 - 1 = {}
    BY DEF ProbeInit
  <2> QED
    BY <2>1, ProbeNumbers DEF NoneUp, SpentOn
<1>3. ProbeTimed /\ SelftestServed
  BY <1>2, ProbeNumbers DEF ProbeInit, ProbeTimed, SelftestServed, Ways
<1> QED
  BY <1>1, <1>3 DEF ProbeInv

\* A hop that fails leaves everything but the time as it is.
LEMMA FailKeeps ==
    ASSUME ProbeInv, NEW t \in Nat, Fail(t), hop \in {"dial", "greet", "connect", "read"},
           job = "probe" => t <= ProbeBudget /\ NoneUp(asked) /\ SpentOn(asked + 1)'
    PROVE  ProbeInv'
<1>1. /\ hop' = "next" /\ spent' = t
      /\ UNCHANGED <<job, via, asked, began, answer, echoes, gate, creds, route>>
  BY DEF Fail, Hop, probeWorld
<1>2. ProbeTyped'
  BY <1>1 DEF ProbeInv, ProbeTyped
<1>3. ProbeTimed'
  BY <1>1 DEF ProbeInv, ProbeTimed, NoneUp
<1>4. SelftestServed'
  BY <1>1 DEF ProbeInv, SelftestServed, Received
<1> QED
  BY <1>2, <1>3, <1>4 DEF ProbeInv

\* A hop that does not, and takes no time.
LEMMA HopKeeps ==
    ASSUME ProbeInv, NEW h \in {"greet", "connect", "read"}, Hop(h), UNCHANGED spent,
           hop \in {"dial", "greet", "connect"}, job = "probe" => h = "read",
           h = "greet" => via = "socks" /\ gate[via] # "closed",
           h = "connect" => via = "socks" /\ Received(via),
           h = "read" /\ via # "source" => gate[via] # "closed" /\ (via = "socks" => Received(via))
    PROVE  ProbeInv'
<1>1. hop' = h /\ UNCHANGED <<job, via, asked, spent, began, answer, echoes, gate, creds, route>>
  BY DEF Hop, probeWorld
<1>2. ProbeTyped'
  BY <1>1 DEF ProbeInv, ProbeTyped
<1>3. ProbeTimed'
  BY <1>1 DEF ProbeInv, ProbeTimed, NoneUp, SpentOn, Before
<1>4. SelftestServed'
  BY <1>1 DEF ProbeInv, SelftestServed, Received
<1> QED
  BY <1>2, <1>3, <1>4 DEF ProbeInv

LEMMA ProbeStep == ProbeInv /\ [ProbeNext]_probeVars => ProbeInv'
<1> SUFFICES ASSUME ProbeInv, [ProbeNext]_probeVars PROVE ProbeInv'
  OBVIOUS
<1>0. ProbeTyped /\ ProbeTimed /\ SelftestServed
  BY DEF ProbeInv
<1>1. /\ CallerEnds \in Nat /\ OneEnds \in Nat /\ DialEnds \in Nat
      /\ OneEnds <= CallerEnds /\ DialEnds <= CallerEnds /\ DialEnds <= spent + DialTimeout
      /\ via = "source" => CallerEnds = ProbeBudget
  BY <1>0, EndsAre
<1>2. /\ spent \in Nat /\ asked \in Nat /\ asked >= 1 /\ asked <= Len(Echoes)
      /\ echoes[asked] \in Conduct /\ route \notin {"none", "failed"} /\ Len(Echoes) \in Nat
  BY <1>0, ProbeNumbers DEF ProbeTyped
<1>3. ASSUME job = "probe", hop \in {"dial", "read"}
      PROVE  via = "source" /\ SpentOn(asked) /\ spent <= ProbeBudget /\ NoneUp(asked - 1)
  BY <1>0, <1>3 DEF ProbeTimed
<1>4. ASSUME NoneUp(asked - 1), echoes[asked] # "up" PROVE NoneUp(asked)
  BY <1>2, <1>4 DEF NoneUp
<1>5. ASSUME job = "probe", hop \in {"dial", "read"}, NEW t \in Nat, Fail(t),
             \/ echoes[asked] = "silent" /\ t <= ProbeBudget
             \/ echoes[asked] = "wrong" /\ t = spent
             \/ echoes[asked] = "unreachable" /\ t <= ProbeBudget /\ t <= spent + DialTimeout
      PROVE  ProbeInv'
  <2>1. NoneUp(asked) /\ t <= ProbeBudget /\ SpentOn(asked)
    BY <1>3, <1>4, <1>5
  <2>2. spent' = t /\ UNCHANGED <<asked, echoes>>
    BY <1>5 DEF Fail, Hop, probeWorld
  <2>3. SpentOn(asked + 1)'
    BY <1>0, <1>5, <2>1, <2>2, SpentNext
  <2> QED
    BY <1>5, <2>1, <2>3, FailKeeps
<1>6. CASE Dial
  <2>1. hop = "dial"
    BY <1>6 DEF Dial
  <2>2. CASE job = "probe"
    <3>1. via = "source"
      BY <1>3, <2>1, <2>2
    <3>2. CASE echoes[asked] = "unreachable" /\ Fail(DialEnds)
      BY <1>1, <1>5, <2>1, <2>2, <3>1, <3>2
    <3>3. CASE Hop("read") /\ UNCHANGED spent
      BY <2>1, <3>1, <3>3, HopKeeps
    <3> QED
      BY <1>6, <3>1, <3>2, <3>3 DEF Dial, Conducts
  <2>3. CASE job # "probe"
    <3>1. via \in {"socks", "http"}
      BY <1>0, <2>3 DEF SelftestServed, ProbeTyped
    <3>2. CASE Fail(spent)
      BY <1>2, <2>1, <2>3, <3>2, FailKeeps
    <3>3. CASE via = "socks" /\ gate[via] # "closed" /\ Hop("greet") /\ UNCHANGED spent
      BY <2>1, <2>3, <3>3, HopKeeps
    <3>4. CASE via = "http" /\ gate[via] # "closed" /\ Hop("read") /\ UNCHANGED spent
      BY <2>1, <2>3, <3>4, HopKeeps
    <3> QED
      BY <1>6, <3>1, <3>2, <3>3, <3>4 DEF Dial
  <2> QED
    BY <2>2, <2>3
<1>7. CASE Greet
  <2>1. hop = "greet" /\ job # "probe"
    BY <1>0, <1>7 DEF Greet, ProbeTimed
  <2>2. via = "socks" /\ gate[via] \in {"open", "password"}
    BY <1>0, <2>1 DEF SelftestServed, ProbeTyped
  <2>3. CASE Fail(spent)
    BY <1>2, <2>1, <2>3, FailKeeps
  <2>4. CASE (gate[via] = "open" \/ creds) /\ Hop("connect") /\ UNCHANGED spent
    <3>1. Received(via)
      BY <2>2, <2>4 DEF Received
    <3> QED
      BY <2>1, <2>2, <2>4, <3>1, HopKeeps
  <2> QED
    BY <1>7, <2>3, <2>4 DEF Greet
<1>8. CASE SocksConnect
  <2>1. hop = "connect" /\ job # "probe"
    BY <1>0, <1>8 DEF SocksConnect, ProbeTimed
  <2>2. via = "socks" /\ Received(via)
    BY <1>0, <2>1 DEF SelftestServed, ProbeTyped
  <2>3. CASE Fail(spent) \/ Fail(OneEnds)
    BY <1>1, <1>2, <2>1, <2>3, FailKeeps
  <2>4. CASE Hop("read") /\ UNCHANGED spent
    BY <2>1, <2>2, <2>4, HopKeeps DEF Received
  <2> QED
    BY <1>8, <2>3, <2>4 DEF SocksConnect
<1>9. CASE ReadEcho
  <2>1. hop = "read"
    BY <1>9 DEF ReadEcho
  <2>2. CASE (Turned \/ Conducts("wrong")) /\ Fail(spent)
    <3>1. CASE job = "probe"
      <4>1. ~Turned
        BY <1>3, <2>1, <3>1 DEF Turned
      <4> QED
        BY <1>2, <1>5, <2>1, <2>2, <3>1, <4>1 DEF Conducts
    <3>2. CASE job # "probe"
      BY <1>2, <2>1, <2>2, <3>2, FailKeeps
    <3> QED
      BY <3>1, <3>2
  <2>3. CASE Conducts("silent") /\ Fail(OneEnds)
    <3>1. CASE job = "probe"
      BY <1>1, <1>3, <1>5, <2>1, <2>3, <3>1 DEF Conducts
    <3>2. CASE job # "probe"
      BY <1>1, <2>1, <2>3, <3>2, FailKeeps
    <3> QED
      BY <3>1, <3>2
  <2>4. CASE /\ ~Turned /\ Conducts("up")
             /\ answer' = [answer EXCEPT ![via] = route] /\ hop' = "answered"
             /\ UNCHANGED <<job, via, asked, spent, began, probeWorld>>
    <3>1. UNCHANGED <<job, via, asked, spent, began, echoes, gate, creds, route>>
      BY <2>4 DEF probeWorld
    <3>2. ProbeTyped'
      BY <1>0, <2>4, <3>1 DEF ProbeTyped
    <3>3. ProbeTimed'
      <4> SUFFICES ASSUME job = "probe" PROVE ProbeTimed'
        BY <3>1 DEF ProbeTimed
      <4>1. via = "source" /\ spent <= ProbeBudget
        BY <1>3, <2>1
      <4>2. answer'["source"] = route
        BY <1>0, <2>4, <4>1 DEF ProbeTyped
      <4> QED
        BY <1>2, <2>4, <3>1, <4>1, <4>2 DEF ProbeTimed
    <3>4. SelftestServed'
      <4> SUFFICES ASSUME job = "selftest" PROVE SelftestServed'
        BY <3>1 DEF SelftestServed
      <4>1. via \in {"socks", "http"} /\ gate[via] # "closed" /\ (via = "socks" => Received(via))
        BY <1>0, <2>1 DEF SelftestServed
      <4>2. Received(via)
        BY <1>0, <2>4, <4>1 DEF Turned, Received, ProbeTyped
      <4>3. \A s \in {"socks", "http"} :
               answer'[s] \notin {"none", "failed"} => answer'[s] = route /\ Received(s)
        BY <1>0, <2>4, <4>1, <4>2 DEF SelftestServed, ProbeTyped, Ways
      <4> QED
        BY <2>4, <3>1, <4>1, <4>3 DEF SelftestServed, Received
    <3> QED
      BY <3>2, <3>3, <3>4 DEF ProbeInv
  <2> QED
    BY <1>9, <2>2, <2>3, <2>4 DEF ReadEcho
<1>10. CASE NextEcho
  <2>1. hop = "next" /\ UNCHANGED <<job, via, spent, echoes, gate, creds, route>>
    BY <1>10 DEF NextEcho, probeWorld
  <2>2. CASE /\ asked < Len(Echoes) /\ asked' = asked + 1 /\ began' = spent /\ hop' = "dial"
             /\ UNCHANGED answer
    <3>1. asked' \in 1 .. Len(Echoes)
      BY <1>2, <2>2
    <3>2. ProbeTyped'
      BY <1>0, <2>1, <2>2, <3>1 DEF ProbeTyped
    <3>3. ProbeTimed'
      <4> SUFFICES ASSUME job = "probe" PROVE ProbeTimed'
        BY <2>1 DEF ProbeTimed
      <4>1. /\ via = "source" /\ spent <= ProbeBudget /\ answer["source"] = "none"
            /\ SpentOn(asked + 1) /\ NoneUp(asked)
        BY <1>0, <2>1 DEF ProbeTimed
      <4>2. SpentOn(asked)'
        BY <2>1, <2>2, <4>1 DEF SpentOn, Before
      <4>3. asked' - 1 = asked
        BY <1>2, <2>2
      <4>4. NoneUp(asked - 1)'
        BY <2>1, <4>1, <4>3 DEF NoneUp
      <4> QED
        BY <2>1, <2>2, <4>1, <4>2, <4>4 DEF ProbeTimed, NoneUp
    <3>4. SelftestServed'
      BY <1>0, <2>1, <2>2 DEF SelftestServed, Received
    <3> QED
      BY <3>2, <3>3, <3>4 DEF ProbeInv
  <2>3. CASE /\ ~(asked < Len(Echoes) /\ spent < CallerEnds)
             /\ answer' = [answer EXCEPT ![via] = "failed"] /\ hop' = "answered"
             /\ UNCHANGED <<asked, began>>
    <3>1. ProbeTyped'
      BY <1>0, <2>1, <2>3 DEF ProbeTyped
    <3>2. ProbeTimed'
      <4> SUFFICES ASSUME job = "probe" PROVE ProbeTimed'
        BY <2>1 DEF ProbeTimed
      <4>1. via = "source" /\ spent <= ProbeBudget /\ SpentOn(asked + 1) /\ NoneUp(asked)
        BY <1>0, <2>1 DEF ProbeTimed
      <4>2. asked = Len(Echoes) \/ spent >= ProbeBudget
        BY <1>1, <1>2, <2>3, <4>1, ProbeNumbers
      <4>3. SpentOn(asked + 1)' /\ NoneUp(asked)'
        BY <2>1, <2>3, <4>1 DEF SpentOn, Before, NoneUp
      <4> QED
        BY <2>1, <2>3, <4>1, <4>2, <4>3 DEF ProbeTimed
    <3>3. SelftestServed'
      BY <1>0, <2>1, <2>3 DEF SelftestServed, Received, ProbeTyped
    <3> QED
      BY <3>1, <3>2, <3>3 DEF ProbeInv
  <2> QED
    BY <1>10, <2>2, <2>3 DEF NextEcho
<1>11. CASE SelftestGoesOn
  <2>1. /\ job = "selftest" /\ via' = "http" /\ hop' = "dial" /\ asked' = 1 /\ spent' = 0 /\ began' = 0
        /\ UNCHANGED <<job, answer, echoes, gate, creds, route>>
    BY <1>11 DEF SelftestGoesOn, probeWorld
  <2>2. ProbeTyped'
    BY <1>0, <2>1, ProbeNumbers DEF ProbeTyped, Ways
  <2>3. ProbeTimed' /\ SelftestServed'
    BY <1>0, <2>1 DEF ProbeTimed, SelftestServed, Received
  <2> QED
    BY <2>2, <2>3 DEF ProbeInv
<1>12. CASE UNCHANGED probeVars
  BY <1>0, <1>12 DEF probeVars, probeWorld, ProbeInv, ProbeTyped, ProbeTimed, SelftestServed,
                     Received, NoneUp, SpentOn, Before
<1> QED
  BY <1>6, <1>7, <1>8, <1>9, <1>10, <1>11, <1>12 DEF ProbeNext

\* A set of the endpoints before i holds those before an earlier one.
LEMMA EarlierBefore ==
    ASSUME ProbeTyped, NEW n \in 1 .. Len(Echoes), NEW i \in 1 .. Len(Echoes), n < i, NEW c \in Conduct
    PROVE  /\ Before(n + 1, c) \subseteq Before(i, c)
           /\ Cardinality(Before(n + 1, c)) \in Nat /\ Cardinality(Before(i, c)) \in Nat
           /\ Cardinality(Before(n + 1, c)) <= Cardinality(Before(i, c))
<1>1. n \in Nat /\ i \in Nat /\ i - 1 \in Nat
  BY ProbeNumbers
<1>2. 1 .. (n + 1) - 1 \subseteq 1 .. i - 1
  BY <1>1
<1>3. Before(n + 1, c) \subseteq Before(i, c)
  BY <1>2 DEF Before
<1>4. IsFiniteSet(Before(i, c))
  BY OneMoreBefore
<1>5. IsFiniteSet(Before(n + 1, c)) /\ Cardinality(Before(n + 1, c)) <= Cardinality(Before(i, c))
  BY <1>3, <1>4, FS_Subset
<1> QED
  BY <1>3, <1>4, <1>5, FS_CardinalityType

\* Where a dial fits into the budget, a probe ends within it and falls back from
\* an endpoint that is down to one that works; and a selftest that finds nothing
\* wrong has gone through both services and not left by the host (probe.go
\* attempt, verify.go Selftest).
THEOREM ReportsAreTrueHolds ==
    ASSUME DialTimeout < ProbeBudget
    PROVE  ProbeSpec => []ReportsAreTrue
<1>1. ASSUME ProbeInv PROVE FallsBack
  <2> SUFFICES ASSUME job = "probe", Over
               PROVE  /\ spent <= ProbeBudget
                      /\ answer["source"] = "failed" =>
                            \A i \in DOMAIN echoes : Working(i) =>
                                Before(i, "silent") # {} \/ Cardinality(Before(i, "unreachable")) > 1
    BY DEF FallsBack
  <2>1. ProbeTyped /\ ProbeTimed /\ spent <= ProbeBudget
    BY <1>1 DEF ProbeInv, ProbeTimed
  <2> SUFFICES ASSUME answer["source"] = "failed", NEW i \in DOMAIN echoes, echoes[i] = "up"
               PROVE  Before(i, "silent") # {} \/ Cardinality(Before(i, "unreachable")) > 1
    BY <2>1 DEF Working
  <2>2. i \in 1 .. Len(Echoes) /\ asked \in 1 .. Len(Echoes) /\ spent \in Nat
    BY <2>1 DEF ProbeTyped
  <2>3. NoneUp(asked) /\ (asked = Len(Echoes) \/ (spent >= ProbeBudget /\ SpentOn(asked + 1)))
    BY <2>1 DEF ProbeTimed
  <2>4. asked < i
    BY <2>2, <2>3, ProbeNumbers DEF NoneUp
  <2>5. spent >= ProbeBudget /\ SpentOn(asked + 1)
    BY <2>2, <2>3, <2>4, ProbeNumbers
  <2>6. Before(asked + 1, "silent") # {} \/ ~(Cardinality(Before(asked + 1, "unreachable")) <= 1)
    BY <2>2, <2>5, ProbeNumbers DEF SpentOn
  <2>7. /\ Before(asked + 1, "silent") \subseteq Before(i, "silent")
        /\ Cardinality(Before(asked + 1, "unreachable")) \in Nat
        /\ Cardinality(Before(i, "unreachable")) \in Nat
        /\ Cardinality(Before(asked + 1, "unreachable")) <= Cardinality(Before(i, "unreachable"))
    BY <2>1, <2>2, <2>4, EarlierBefore DEF Conduct
  <2> QED
    BY <2>6, <2>7
<1>2. ASSUME ProbeInv PROVE SelftestIsHonest
  <2> SUFFICES ASSUME job = "selftest", SelftestOk
               PROVE  /\ route = "slot"
                      /\ \A s \in DOMAIN gate : gate[s] = "open" \/ (gate[s] = "password" /\ creds)
    BY DEF SelftestIsHonest
  <2>1. /\ \A s \in {"socks", "http"} : answer[s] = route /\ Received(s)
        /\ answer["socks"] # "host"
    BY <1>2 DEF ProbeInv, SelftestServed, SelftestOk, Ok, CheckLeak, EgressIP
  <2> QED
    BY <1>2, <2>1 DEF ProbeInv, ProbeTyped, Received
<1>3. ProbeInv => ReportsAreTrue
  BY <1>1, <1>2 DEF ReportsAreTrue
<1>4. ProbeInit => ProbeInv
  BY ProbeStart
<1>5. ProbeInv /\ [ProbeNext]_probeVars => ProbeInv'
  BY ProbeStep
<1> QED
  BY <1>3, <1>4, <1>5, PTL DEF ProbeSpec
==============================================================================
