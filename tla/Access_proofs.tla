---------------------------- MODULE Access_proofs ----------------------------
(***************************************************************************)
(* Theorems about the four things many callers share: keys and links       *)
(* (ApiKeys), the account of the panel and its lock (Login), the driver of *)
(* a dongle (HiLinkClient), and the database file with its backups         *)
(* (StoreFile).                                                            *)
(***************************************************************************)
EXTENDS Login, ApiKeys, HiLinkClient, StoreFile, FiniteSetTheorems, SequenceTheorems,
        NaturalsInduction, WellFoundedInduction, TLAPS

-----------------------------------------------------------------------------
(* Keys and links.  What makes RevokedStaysOut inductive: a request that   *)
(* came too late is still before the look at its key, and that key is      *)
(* revoked already; a revoked key is never given out again.                *)

LinksHaveKeys == \A l \in Links : links[l].state # "none" => links[l].key \in Keys

RequestsHold ==
    \A r \in Requests :
        /\ requests[r].pc # "idle" => requests[r].key \in Keys
        /\ requests[r].pc \in {"key", "guard"} => requests[r].link \in Links

LateIsCaught ==
    \A r \in Requests : requests[r].late =>
        requests[r].pc = "key" /\ keys[requests[r].key].state = "revoked"

ApiKeysInv == ApiKeysTypeOK /\ LinksHaveKeys /\ RequestsHold /\ LateIsCaught

LEMMA ApiKeysInvInit == ApiKeysInit => ApiKeysInv
  BY ApiKeysAssumption
     DEF ApiKeysInit, ApiKeysInv, ApiKeysTypeOK, LinksHaveKeys, RequestsHold, LateIsCaught,
         NoKey, NoRequest, Stages

LEMMA ApiKeysInvStep == ApiKeysInv /\ [ApiKeysNext]_apiVars => ApiKeysInv'
<1> SUFFICES ASSUME ApiKeysInv, [ApiKeysNext]_apiVars PROVE ApiKeysInv'
  OBVIOUS
<1> USE ApiKeysAssumption
<1> USE DEF ApiKeysInv, ApiKeysTypeOK, LinksHaveKeys, RequestsHold, LateIsCaught,
            apiTables, apiMemory, NoKey, NoRequest, Stages
<1>1. CASE UNCHANGED apiVars
  BY <1>1 DEF apiVars
<1>2. ASSUME NEW k \in Keys, CreateKey(k) PROVE ApiKeysInv'
  BY <1>2 DEF CreateKey
<1>3. ASSUME NEW k \in Keys, RevokeKey(k) PROVE ApiKeysInv'
  BY <1>3 DEF RevokeKey
<1>4. ASSUME NEW k \in Keys, MintChecks(k) PROVE ApiKeysInv'
  BY <1>4 DEF MintChecks
<1>5. ASSUME NEW l \in Links, CreateLinkToken(l) PROVE ApiKeysInv'
  BY <1>5 DEF CreateLinkToken
<1>6. ASSUME NEW l \in Links, RevokeLinkToken(l) PROVE ApiKeysInv'
  BY <1>6 DEF RevokeLinkToken
<1>7. CASE ProxyChanges
  BY <1>7 DEF ProxyChanges
<1>8. ASSUME NEW r \in Requests, NEW k \in Keys, AuthenticateKey(r, k) PROVE ApiKeysInv'
  BY <1>8 DEF AuthenticateKey, RequestAt
<1>9. ASSUME NEW r \in Requests, NEW l \in Links, AuthenticateLink(r, l) PROVE ApiKeysInv'
  BY <1>9 DEF AuthenticateLink, RequestAt, TooLate
<1>a. ASSUME NEW r \in Requests, RequestEnds(r), UNCHANGED <<apiTables>>,
             buckets' \in [Keys -> 0 .. Burst], cooling' \in [Links -> 0 .. LinkCooldown]
      PROVE  ApiKeysInv'
  BY <1>a DEF RequestEnds
<1>b. ASSUME NEW r \in Requests, NEW s \in Stages \ {"key"}, RequestGoes(r, s), ~requests[r].late,
             requests[r].pc # "idle", s = "guard" => requests[r].link \in Links, UNCHANGED <<apiTables>>,
             buckets' \in [Keys -> 0 .. Burst], cooling' \in [Links -> 0 .. LinkCooldown]
      PROVE  ApiKeysInv'
  <2> DEFINE Request == [pc: Stages, via: {"key", "link"}, key: Keys \cup {"none"}, link: Links \cup {"none"},
                         customer: Customers \cup {"any"}, late: BOOLEAN]
  <2>1. requests' \in [Requests -> Request]
    <3>1. requests[r] \in Request
      OBVIOUS
    <3>2. [requests[r] EXCEPT !.pc = s] \in Request
      BY <3>1
    <3> QED
      BY <3>2, <1>b DEF RequestGoes
  <2>2. \A x \in Requests : x # r => requests'[x] = requests[x]
    BY <1>b DEF RequestGoes
  <2>3. requests'[r] = [requests[r] EXCEPT !.pc = s]
    BY <1>b DEF RequestGoes
  <2>4. RequestsHold'
    BY <1>b, <2>2, <2>3
  <2>5. LateIsCaught'
    BY <1>b, <2>2, <2>3
  <2> QED
    BY <1>b, <2>1, <2>4, <2>5
<1>10. ASSUME NEW r \in Requests, LinkTarget(r) PROVE ApiKeysInv'
  <2> DEFINE k == keys[requests[r].key]
  <2>1. CASE k.state = "live" /\ k.linkable
    <3>1. ~requests[r].late /\ requests[r].link \in Links
      BY <1>10, <2>1 DEF LinkTarget, RequestAt
    <3>2. RequestGoes(r, "guard")
      BY <1>10, <2>1 DEF LinkTarget
    <3> QED
      BY <1>10, <1>b, <3>1, <3>2 DEF LinkTarget, RequestAt
  <2>2. CASE ~(k.state = "live" /\ k.linkable)
    BY <1>10, <1>a, <2>2 DEF LinkTarget
  <2> QED
    BY <2>1, <2>2
<1>11. ASSUME NEW r \in Requests, TakeLink(r) PROVE ApiKeysInv'
  <2> DEFINE l == requests[r].link
  <2>1. l \in Links /\ ~requests[r].late /\ requests[r].pc # "idle"
    BY <1>11 DEF TakeLink, RequestAt
  <2>2. CASE cooling[l] = 0
    <3>1. cooling' \in [Links -> 0 .. LinkCooldown]
      BY <1>11, <2>1, <2>2 DEF TakeLink
    <3> QED
      BY <1>11, <1>b, <2>1, <2>2, <3>1 DEF TakeLink
  <2>3. CASE cooling[l] # 0
    BY <1>11, <1>a, <2>3 DEF TakeLink
  <2> QED
    BY <2>2, <2>3
<1>12. ASSUME NEW r \in Requests, Allow(r) PROVE ApiKeysInv'
  <2> DEFINE k == requests[r].key
  <2>1. k \in Keys /\ ~requests[r].late /\ requests[r].pc # "idle"
    BY <1>12 DEF Allow, RequestAt
  <2>2. CASE buckets[k] > 0
    <3>1. buckets' \in [Keys -> 0 .. Burst]
      BY <1>12, <2>1, <2>2 DEF Allow
    <3> QED
      BY <1>12, <1>b, <2>1, <2>2, <3>1 DEF Allow
  <2>3. CASE ~(buckets[k] > 0)
    BY <1>12, <1>a, <2>3 DEF Allow
  <2> QED
    BY <2>2, <2>3
<1>13. ASSUME NEW r \in Requests, KeyMayUseProxy(r) PROVE ApiKeysInv'
  <2>1. CASE requests[r].customer \in {"any", owned.customer}
    BY <1>13, <1>b, <2>1 DEF KeyMayUseProxy, RequestAt
  <2>2. CASE requests[r].customer \notin {"any", owned.customer}
    BY <1>13, <1>a, <2>2 DEF KeyMayUseProxy
  <2> QED
    BY <2>1, <2>2
<1>14. ASSUME NEW r \in Requests, CustomerProxyUsable(r) PROVE ApiKeysInv'
  BY <1>14, <1>a, <1>b DEF CustomerProxyUsable, RequestAt
<1>15. ASSUME NEW r \in Requests, CustomerRotate(r) PROVE ApiKeysInv'
  BY <1>15, <1>a, <1>b DEF CustomerRotate, RequestAt
<1>16. CASE ApiTick
  BY <1>16 DEF ApiTick
<1>17. CASE ApiRestarts
  BY <1>17 DEF ApiRestarts
<1> QED
  BY <1>1, <1>2, <1>3, <1>4, <1>5, <1>6, <1>7, <1>8, <1>9, <1>10, <1>11, <1>12, <1>13,
     <1>14, <1>15, <1>16, <1>17 DEF ApiKeysNext, RequestStep

(* The rows and the requests keep their types, a request past its          *)
(* authentication holds a key that was given out (RequireKey).             *)
THEOREM ApiKeysTypeOKHolds == ApiKeysSpec => [](ApiKeysTypeOK /\ RequestsHold)
<1>1. ApiKeysInv => ApiKeysTypeOK /\ RequestsHold
  BY DEF ApiKeysInv
<1> QED
  BY ApiKeysInvInit, ApiKeysInvStep, <1>1, PTL DEF ApiKeysSpec

(* No request made after its key, or its link, was revoked gets past the   *)
(* look at the key: however many keys, links and requests there are, and   *)
(* through a link minted while its key was being revoked neither           *)
(* (AuthenticateLink, createLinkToken).                                    *)
THEOREM RevokedStaysOutHolds == ApiKeysSpec => []RevokedStaysOut
<1>1. ApiKeysInv => RevokedStaysOut
  BY DEF ApiKeysInv, ApiKeysTypeOK, LateIsCaught, RevokedStaysOut
<1> QED
  BY ApiKeysInvInit, ApiKeysInvStep, <1>1, PTL DEF ApiKeysSpec
-----------------------------------------------------------------------------
(* The driver.  What makes OncePerCall inductive: up to the request at the *)
(* dongle the call has carried nothing out, and from an answer on what it  *)
(* has carried out is what the answer says, unless that is lost; so that   *)
(* an attempt that is tried again was carried out by none before it.       *)

CallStarts(k) ==
    k.pc \in {"ensure", "handshake", "install", "attempt", "serve", "retry"} => k.carried = 0 /\ k.res = "none"

CallAnswered(k) ==
    k.pc = "reply" =>
        /\ k.carried <= 1 /\ k.res = "none" /\ k.reply \in {"ok", "token", "refused", "unreachable"}
        /\ k.reply \in {"token", "refused"} => k.carried = 0
        /\ k.reply = "ok" => k.cookie \in Known /\ (k.kind \in Writes => k.carried = 1)

CallOver(k) ==
    k.pc = "idle" /\ k.kind \in Writes =>
        /\ k.carried <= 1
        /\ k.res = "ok" => k.carried = 1
        /\ k.res \in {"token", "refused", "canceled"} => k.carried = 0

CallFits(k) == CallStarts(k) /\ CallAnswered(k) /\ CallOver(k) /\ (k.pc = "install" => k.reply \in Known)

ClientInv == ClientTypeOK /\ \A c \in Callers : CallFits(call[c])
CallRecord ==
    [pc: {"idle", "ensure", "handshake", "install", "attempt", "serve", "reply", "retry"},
     kind: Reads \cup Writes, attempt: 0 .. MaxAttempts - 1,
     cookie: Known \cup {"none"}, token: Known \cup {"none"},
     reply: Known \cup {"none", "ok", "token", "refused", "unreachable"},
     carried: Nat, res: {"none", "ok", "token", "refused", "unreachable", "canceled"}]

SessionFits(s) == s \in [cookie: Known \cup {"none"}, tokens: Seq(Known)] /\ Len(s.tokens) <= BatchSize

LEMMA NoCallFits == NoCall \in CallRecord /\ CallFits(NoCall)
  BY ClientAssumption DEF CallRecord, NoCall, Reads, CallFits, CallStarts, CallAnswered, CallOver,
     Writes, DialupWrites, NetWrites, DhcpWrites, SmsWrites

(* What the dongle makes of a request: it carries nothing out for a cookie *)
(* it does not know (SimDevice.ServeHTTP).                                 *)
LEMMA VerdictIs ==
    ASSUME NEW d, NEW kind, NEW cookie, NEW token
    PROVE  /\ Verdict(d, kind, cookie, token) \in {"token", "ok", "refused"}
           /\ Verdict(d, kind, cookie, token) = "ok" => cookie = "good"
  BY DEF Verdict

LEMMA TokensChange ==
    ASSUME NEW s, SessionFits(s), NEW t \in Seq(Known), Len(t) <= BatchSize
    PROVE  SessionFits([s EXCEPT !.tokens = t])
<1>1. [s EXCEPT !.tokens = t] = [cookie |-> s.cookie, tokens |-> t]
  BY DEF SessionFits
<1>2. s.cookie \in Known \cup {"none"}
  BY DEF SessionFits
<1> QED
  BY <1>1, <1>2 DEF SessionFits

(* A call that another caller's handshake, or a reboot, made old.          *)
LEMMA OldCallFits ==
    ASSUME NEW k \in CallRecord, CallFits(k)
    PROVE  OldCall(k) \in CallRecord /\ CallFits(OldCall(k))
<1>1. OldCall(k) \in CallRecord
  BY DEF OldCall, Old, CallRecord, Known
<1>2. CallFits(OldCall(k))
  BY DEF OldCall, Old, CallRecord, Known, CallFits, CallStarts, CallAnswered, CallOver
<1> QED
  BY <1>1, <1>2

(* So is the session it made old.                                          *)
LEMMA OldSessionFits ==
    ASSUME SessionFits(sess)
    PROVE  SessionFits(OldSession)
<1> DEFINE n == Len(sess.tokens)
           old == [i \in 1 .. n |-> Old(sess.tokens[i])]
<1>1. sess.tokens \in Seq(Known) /\ n \in Nat /\ DOMAIN sess.tokens = 1 .. n
  BY LenProperties DEF SessionFits
<1>2. \A i \in 1 .. n : Old(sess.tokens[i]) \in Known
  BY <1>1, ElementOfSeq DEF Old, Known
<1>3. old \in Seq(Known)
  <2>1. old \in [1 .. n -> Known]
    BY <1>2
  <2> QED
    BY <1>1, <2>1, SeqDef
<1>4. Len(old) = n
  BY <1>1, <1>3, LenProperties
<1>5. Old(sess.cookie) \in Known \cup {"none"}
  BY DEF SessionFits, Old, Known
<1>6. OldSession = [cookie |-> Old(sess.cookie), tokens |-> old]
  BY <1>1 DEF OldSession
<1> HIDE DEF old, n
<1> QED
  BY <1>3, <1>4, <1>5, <1>6 DEF SessionFits, n

(* session.absorb keeps the newest tokens, BatchSize of them at most.      *)
LEMMA AbsorbFits ==
    ASSUME NEW s, SessionFits(s), NEW t \in Seq(Known)
    PROVE  SessionFits(Absorb(s, t))
<1> DEFINE all == s.tokens \o t
           m == IF Len(all) > BatchSize THEN Len(all) - BatchSize + 1 ELSE 1
<1>1. all \in Seq(Known) /\ Len(all) \in Nat
  BY ConcatProperties, LenProperties DEF SessionFits
<1>2. BatchSize \in Nat \ {0}
  BY ClientAssumption
<1>3. m \in Int /\ m >= 1 /\ Len(all) - m + 1 <= BatchSize
  BY <1>1, <1>2
<1>4. \A i \in m .. Len(all) : all[i] \in Known
  BY <1>1, <1>3, ElementOfSeq
<1>5. SubSeq(all, m, Len(all)) \in Seq(Known) /\ Len(SubSeq(all, m, Len(all))) <= BatchSize
  <2> HIDE DEF all, m
  <2> QED
    BY <1>1, <1>2, <1>3, <1>4, SubSeqProperties
<1>6. Absorb(s, t) = [s EXCEPT !.tokens = SubSeq(all, m, Len(all))]
  BY DEF Absorb
<1> HIDE DEF all, m
<1> QED
  BY <1>5, <1>6, TokensChange

(* A call that ends keeps what it has carried out, and what it says of it. *)
LEMMA EndsFits ==
    ASSUME ClientInv, NEW c \in Callers, NEW r \in {"ok", "token", "refused", "unreachable", "canceled"}, Ends(c, r),
           call[c].kind \in Writes => call[c].carried <= 1,
           r = "ok" /\ call[c].kind \in Writes => call[c].carried = 1,
           r \in {"token", "refused", "canceled"} => call[c].carried = 0
    PROVE  call' \in [Callers -> CallRecord] /\ \A x \in Callers : CallFits(call'[x])
<1> DEFINE k == IF call[c].kind \in Reads THEN NoCall
                ELSE [NoCall EXCEPT !.kind = "setting", !.carried = call[c].carried, !.res = r]
<1>1. call \in [Callers -> CallRecord]
  BY DEF ClientInv, ClientTypeOK, CallRecord
<1>2. call' = [call EXCEPT ![c] = k]
  BY DEF Ends
<1>3. k \in CallRecord
  <2>1. call[c].carried \in Nat /\ "setting" \in Reads \cup Writes
    BY <1>1 DEF CallRecord, Writes, DialupWrites
  <2>2. [NoCall EXCEPT !.kind = "setting", !.carried = call[c].carried, !.res = r] \in CallRecord
    BY <2>1, NoCallFits DEF CallRecord
  <2> QED
    BY <2>2, NoCallFits
<1>4. CallFits(k)
  <2>1. CASE call[c].kind \in Reads
    BY <2>1 DEF NoCall, Reads, Writes, DialupWrites, NetWrites, DhcpWrites, SmsWrites,
                CallFits, CallStarts, CallAnswered, CallOver
  <2>2. CASE call[c].kind \notin Reads
    <3>1. call[c].kind \in Writes
      BY <1>1, <2>2 DEF CallRecord
    <3> QED
      BY <2>2, <3>1 DEF NoCall, CallFits, CallStarts, CallAnswered, CallOver
  <2> QED
    BY <2>1, <2>2
<1> HIDE DEF k
<1> QED
  BY <1>1, <1>2, <1>3, <1>4 DEF ClientInv

LEMMA ClientInvInit == ClientInit => ClientInv
<1> SUFFICES ASSUME ClientInit PROVE ClientInv
  OBVIOUS
<1>1. NoCall \in CallRecord /\ CallFits(NoCall)
  BY ClientAssumption DEF CallRecord, NoCall, Reads, CallFits, CallStarts, CallAnswered, CallOver,
     Writes, DialupWrites, NetWrites, DhcpWrites, SmsWrites
<1>2. call \in [Callers -> CallRecord] /\ \A c \in Callers : CallFits(call[c])
  BY <1>1 DEF ClientInit
<1>3. SessionFits(sess)
  BY ClientAssumption, EmptySeq DEF ClientInit, Empty, SessionFits
<1>4. dongle \in DongleState /\ {faulty, closed} \subseteq BOOLEAN
  BY DEF ClientInit, SimInit, DongleState
<1> QED
  BY <1>2, <1>3, <1>4 DEF ClientInv, ClientTypeOK, CallRecord, SessionFits

LEMMA ClientInvStep == ClientInv /\ [ClientNext]_clientVars => ClientInv'
<1> SUFFICES ASSUME ClientInv, [ClientNext]_clientVars PROVE ClientInv'
  OBVIOUS
<1> USE ClientAssumption
<1> DEFINE CallsFit == call \in [Callers -> CallRecord] /\ \A c \in Callers : CallFits(call[c])
<1>1. /\ dongle \in DongleState /\ faulty \in BOOLEAN /\ closed \in BOOLEAN
      /\ SessionFits(sess) /\ CallsFit
  BY DEF ClientInv, ClientTypeOK, CallRecord, SessionFits
<1>2. SUFFICES /\ dongle' \in DongleState /\ faulty' \in BOOLEAN /\ closed' \in BOOLEAN
               /\ SessionFits(sess') /\ CallsFit'
  BY DEF ClientInv, ClientTypeOK, CallRecord, SessionFits
<1> DEFINE Goal == /\ dongle' \in DongleState /\ faulty' \in BOOLEAN /\ closed' \in BOOLEAN
                   /\ SessionFits(sess') /\ CallsFit'
<1> USE DEF CallFits, CallStarts, CallAnswered, CallOver
<1>3. CASE UNCHANGED clientVars
  BY <1>1, <1>3 DEF clientVars, SimVars
<1>4. ASSUME NEW c \in Callers, NEW k \in CallRecord, CallFits(k), call' = [call EXCEPT ![c] = k] PROVE CallsFit'
  BY <1>1, <1>4
<1>5. ASSUME NEW c \in Callers, NEW k \in CallRecord, CallFits(k),
             call' = [x \in Callers |-> IF x = c THEN k ELSE OldCall(call[x])]
      PROVE  CallsFit'
  <2>1. \A x \in Callers : OldCall(call[x]) \in CallRecord /\ CallFits(OldCall(call[x]))
    BY <1>1, OldCallFits
  <2> QED
    BY <1>1, <1>5, <2>1
<1>6. ASSUME NEW c \in Callers, NEW k \in Reads \cup Writes, Begins(c, k) PROVE Goal
  <2> DEFINE new == IF closed THEN NoCall ELSE [NoCall EXCEPT !.kind = k, !.pc = "ensure"]
  <2>1. new \in CallRecord
    <3>1. [NoCall EXCEPT !.kind = k, !.pc = "ensure"] \in CallRecord
      BY NoCallFits DEF CallRecord
    <3> QED
      BY <3>1, NoCallFits
  <2>2. CallFits(new)
    <3>1. CallFits([NoCall EXCEPT !.kind = k, !.pc = "ensure"])
      BY DEF NoCall
    <3> QED
      BY <3>1, NoCallFits
  <2>3. call' = [call EXCEPT ![c] = new]
    BY <1>6 DEF Begins
  <2> HIDE DEF new
  <2> QED
    BY <1>1, <1>4, <1>6, <2>1, <2>2, <2>3 DEF Begins, SimVars
<1>7. ASSUME NEW c \in Callers, EnsureSession(c) PROVE Goal
  <2>1. CallsFit'
    BY <1>1, <1>7 DEF EnsureSession, Has, Goes, CallRecord
  <2> QED
    BY <1>1, <1>7, <2>1 DEF EnsureSession, SimVars
<1>8. ASSUME NEW c \in Callers, Handshake(c) PROVE Goal
  <2>1. CASE /\ dongle' = [dongle EXCEPT !.session = TRUE] /\ sess' = OldSession
             /\ call' = [[k \in Callers |-> OldCall(call[k])] EXCEPT ![c].pc = "install", ![c].reply = "good"]
             /\ UNCHANGED faulty
    <3> DEFINE new == [OldCall(call[c]) EXCEPT !.pc = "install", !.reply = "good"]
    <3>1. OldCall(call[c]) \in CallRecord /\ OldCall(call[c]).carried = 0 /\ OldCall(call[c]).res = "none"
      BY <1>1, <1>8, OldCallFits DEF Handshake, Has, OldCall, CallRecord
    <3>2. new \in CallRecord /\ CallFits(new)
      <4>1. new \in CallRecord
        BY <3>1 DEF CallRecord, Known
      <4>2. new.pc = "install" /\ new.reply = "good" /\ new.carried = 0 /\ new.res = "none"
        BY <3>1 DEF CallRecord
      <4> HIDE DEF new
      <4> QED
        BY <4>1, <4>2 DEF Known
    <3>3. call' = [x \in Callers |-> IF x = c THEN new ELSE OldCall(call[x])]
      BY <2>1
    <3> HIDE DEF new
    <3>4. CallsFit'
      BY <1>5, <3>2, <3>3
    <3> QED
      BY <1>1, <1>8, <2>1, <3>4, OldSessionFits DEF Handshake, DongleState
  <2>2. ASSUME NEW f \in FaultVerdicts, Ends(c, f), UNCHANGED <<SimVars, sess>> PROVE Goal
    <3>1. f \in {"unreachable", "refused"}
      BY DEF FaultVerdicts
    <3>2. CallsFit'
      BY <1>1, <1>8, <2>2, <3>1, EndsFits DEF Handshake, Has
    <3> QED
      BY <1>1, <1>8, <2>2, <3>2 DEF Handshake, SimVars
  <2> QED
    BY <1>8, <2>1, <2>2 DEF Handshake
<1>9. ASSUME NEW c \in Callers, Install(c) PROVE Goal
  <2> DEFINE new == [call[c] EXCEPT !.pc = "attempt", !.reply = "none"]
             toks == [i \in 1 .. BatchSize |-> call[c].reply]
  <2>1. call[c].reply \in Known /\ call[c] \in CallRecord
    BY <1>1, <1>9 DEF Install, Has
  <2>2. new \in CallRecord /\ CallFits(new)
    BY <1>1, <1>9, <2>1 DEF Install, Has, CallRecord
  <2>3. call' = [call EXCEPT ![c] = new]
    BY <1>1, <1>9 DEF Install
  <2>4. toks \in Seq(Known)
    <3>1. toks \in [1 .. BatchSize -> Known]
      BY <2>1
    <3> QED
      BY <3>1, SeqDef
  <2>5. Len(toks) = BatchSize
    BY <2>4, LenProperties
  <2>6. sess' = [cookie |-> call[c].reply, tokens |-> toks]
    BY <1>9 DEF Install
  <2> HIDE DEF new, toks
  <2>7. SessionFits(sess')
    <3>1. sess' \in [cookie: Known \cup {"none"}, tokens: Seq(Known)]
      BY <2>1, <2>4, <2>6
    <3> QED
      BY <2>5, <2>6, <3>1 DEF SessionFits
  <2>8. CallsFit'
    BY <1>4, <2>2, <2>3
  <2> QED
    BY <1>1, <1>9, <2>7, <2>8 DEF Install, SimVars
<1>10. ASSUME NEW c \in Callers, TakeToken(c) PROVE Goal
  <2>1. CASE Snapshot
    <3> DEFINE new == [call[c] EXCEPT !.pc = "serve", !.cookie = sess.cookie, !.token = Head(sess.tokens)]
    <3>1. Head(sess.tokens) \in Known /\ Tail(sess.tokens) \in Seq(Known) /\ Len(Tail(sess.tokens)) = Len(sess.tokens) - 1
      BY <1>1, <2>1, HeadTailProperties DEF Snapshot, SessionFits
    <3>2. new \in CallRecord /\ CallFits(new)
      BY <1>1, <1>10, <3>1 DEF TakeToken, Has, CallRecord, SessionFits
    <3>3. call' = [call EXCEPT ![c] = new]
      BY <1>1, <1>10, <2>1 DEF TakeToken
    <3>4. SessionFits([sess EXCEPT !.tokens = Tail(@)])
      <4>1. Len(Tail(sess.tokens)) <= BatchSize
        BY <1>1, <3>1, LenProperties DEF SessionFits
      <4> QED
        BY <1>1, <3>1, <4>1, TokensChange
    <3>5. SessionFits(sess')
      BY <1>1, <1>10, <2>1, <3>4 DEF TakeToken
    <3> HIDE DEF new
    <3> QED
      BY <1>1, <1>4, <1>10, <3>2, <3>3, <3>5 DEF TakeToken, SimVars
  <2>2. CASE ~Snapshot
    <3>1. CallsFit'
      BY <1>1, <1>10, <2>2 DEF TakeToken, Has, Goes, CallRecord
    <3> QED
      BY <1>1, <1>10, <2>2, <3>1 DEF TakeToken, SimVars
  <2> QED
    BY <2>1, <2>2
<1>11. ASSUME NEW c \in Callers, Serve(c) PROVE Goal
  <2> DEFINE k == call[c]
             v == Verdict(dongle, k.kind, k.cookie, k.token)
             done == v = "ok" /\ k.kind \in Writes
             forgets == done /\ k.kind = "reboot"
             answer == IF done /\ ~Answers(k.kind) THEN "unreachable" ELSE v
  <2>1. k \in CallRecord /\ k.carried = 0 /\ k.res = "none" /\ k.pc = "serve"
    BY <1>1, <1>11 DEF Serve, Has
  <2>2. v \in {"token", "ok", "refused"} /\ (v = "ok" => k.cookie = "good")
    BY <1>1, VerdictIs
  <2>3. CASE /\ dongle' = IF done THEN Post(dongle, k.kind) ELSE dongle
             /\ sess' = IF forgets THEN OldSession ELSE sess
             /\ call' = [[x \in Callers |-> IF forgets THEN OldCall(call[x]) ELSE call[x]]
                            EXCEPT ![c].pc = "reply", ![c].reply = answer,
                                   ![c].carried = IF done THEN @ + 1 ELSE @]
    <3> DEFINE base == IF forgets THEN OldCall(k) ELSE k
               new == [base EXCEPT !.pc = "reply", !.reply = answer, !.carried = IF done THEN 1 ELSE 0]
    <3>1. /\ base \in CallRecord /\ base.carried = 0 /\ base.res = "none" /\ base.kind = k.kind
          /\ v = "ok" => base.cookie \in Known
      <4>1. CASE forgets
        <5>1. OldCall(k) \in CallRecord
          BY <1>1, OldCallFits
        <5>2. OldCall(k) = [k EXCEPT !.cookie = Old(k.cookie), !.token = Old(k.token), !.reply = Old(k.reply)]
          BY DEF OldCall
        <5>3. OldCall(k).carried = 0 /\ OldCall(k).res = "none" /\ OldCall(k).kind = k.kind /\ OldCall(k).cookie = Old(k.cookie)
          BY <2>1, <5>2 DEF CallRecord
        <5> HIDE DEF k, v
        <5> QED
          BY <2>2, <4>1, <5>1, <5>3 DEF Old, Known
      <4>2. CASE ~forgets
        BY <2>1, <2>2, <4>2 DEF Known
      <4> QED
        BY <4>1, <4>2
    <3>2. answer \in {"token", "ok", "refused", "unreachable"} /\ (answer = "ok" => v = "ok")
          /\ (answer \in {"token", "refused"} => ~done)
      BY <2>2
    <3>3. new \in CallRecord
      <4> DEFINE n == IF done THEN 1 ELSE 0
      <4>1. n \in Nat
        OBVIOUS
      <4> HIDE DEF base, answer, done, n
      <4>2. [base EXCEPT !.pc = "reply", !.reply = answer, !.carried = n] \in CallRecord
        BY <3>1, <3>2, <4>1 DEF CallRecord
      <4> QED
        BY <4>2 DEF n
    <3>4. CallFits(new)
      <4>1. done <=> v = "ok" /\ k.kind \in Writes
        OBVIOUS
      <4>2. answer = "ok" /\ k.kind \in Writes => done
        BY <3>2
      <4>3. /\ new.pc = "reply" /\ new.reply = answer /\ new.carried = IF done THEN 1 ELSE 0
            /\ new.cookie = base.cookie /\ new.kind = k.kind /\ new.res = "none"
        <5> HIDE DEF base, answer, done
        <5> QED
          BY <3>1 DEF CallRecord
      <4> HIDE DEF base, answer, done, new, v, k
      <4> QED
        BY <3>1, <3>2, <4>2, <4>3
    <3>5. call' = [x \in Callers |-> IF x = c THEN new ELSE IF forgets THEN OldCall(call[x]) ELSE call[x]]
      <4>1. call' = [x \in Callers |-> IF x = c THEN [base EXCEPT !.pc = "reply", !.reply = answer,
                                                         !.carried = IF done THEN @ + 1 ELSE @]
                                       ELSE IF forgets THEN OldCall(call[x]) ELSE call[x]]
        BY <2>3
      <4> HIDE DEF base, answer, done, forgets
      <4> QED
        BY <3>1, <4>1 DEF CallRecord
    <3>6. \A x \in Callers : LET o == IF forgets THEN OldCall(call[x]) ELSE call[x]
                             IN  o \in CallRecord /\ CallFits(o)
      <4> HIDE DEF forgets
      <4> QED
        BY <1>1, OldCallFits DEF CallFits
    <3>7. CallsFit'
      <4> HIDE DEF new, forgets
      <4> QED
        BY <1>1, <3>3, <3>4, <3>5, <3>6
    <3>8. dongle' \in DongleState
      BY <1>1, <2>3 DEF Post, SetDataSwitch, RebootSim, DongleState
    <3>9. SessionFits(sess')
      BY <1>1, <2>3, OldSessionFits
    <3> QED
      BY <1>1, <1>11, <3>7, <3>8, <3>9 DEF Serve
  <2>4. ASSUME NEW f \in FaultVerdicts, call' = [call EXCEPT ![c].pc = "reply", ![c].reply = f],
               UNCHANGED <<dongle, sess>>
        PROVE  Goal
    <3>1. f \in {"unreachable", "refused"}
      BY DEF FaultVerdicts
    <3> DEFINE new == [k EXCEPT !.pc = "reply", !.reply = f]
    <3>2. new \in CallRecord
      BY <2>1, <3>1 DEF CallRecord
    <3>3. CallFits(new)
      BY <2>1, <3>1 DEF CallRecord
    <3>4. call' = [call EXCEPT ![c] = new]
      BY <1>1, <2>4
    <3> HIDE DEF new
    <3>5. CallsFit'
      BY <1>4, <3>2, <3>3, <3>4
    <3> QED
      BY <1>1, <1>11, <2>4, <3>5 DEF Serve
  <2> QED
    BY <1>11, <2>3, <2>4 DEF Serve
<1>12. ASSUME NEW c \in Callers, Reply(c) PROVE Goal
  <2>1. PICK r \in {call[c].reply} \cup (IF Faults("lost") THEN {"unreachable"} ELSE {}) :
          /\ IF Again(r) THEN call' = [call EXCEPT ![c].pc = "retry", ![c].reply = "none"] ELSE Ends(c, r)
          /\ sess' \in {sess} \cup (IF r = "ok" /\ call[c].kind \in Writes
                                    THEN {Absorb(sess, <<call[c].cookie>>)} ELSE {})
    BY <1>12 DEF Reply
  <2>2. /\ call[c] \in CallRecord /\ CallAnswered(call[c]) /\ call[c].pc = "reply"
        /\ r \in {"ok", "token", "refused", "unreachable"}
        /\ r # "unreachable" => r = call[c].reply
    BY <1>1, <1>12 DEF Reply, Has
  <2>3. CallsFit'
    <3>1. CASE Again(r)
      <4> DEFINE new == [call[c] EXCEPT !.pc = "retry", !.reply = "none"]
      <4>1. new \in CallRecord /\ CallFits(new)
        BY <2>2, <3>1 DEF CallRecord, Again
      <4>2. call' = [call EXCEPT ![c] = new]
        BY <1>1, <2>1, <3>1
      <4> HIDE DEF new
      <4> QED
        BY <1>4, <4>1, <4>2
    <3>2. CASE ~Again(r)
      BY <1>1, <2>1, <2>2, <3>2, EndsFits
    <3> QED
      BY <3>1, <3>2
  <2>4. SessionFits(sess')
    <3>1. CASE r = "ok" /\ call[c].kind \in Writes
      <4>1. <<call[c].cookie>> \in Seq(Known)
        BY <2>2, <3>1
      <4> QED
        BY <1>1, <2>1, <4>1, AbsorbFits
    <3> QED
      BY <1>1, <2>1, <3>1
  <2> QED
    BY <1>1, <1>12, <2>3, <2>4 DEF Reply, SimVars
<1>13. ASSUME NEW c \in Callers, Retry(c) PROVE Goal
  <2>1. call[c] \in CallRecord /\ call[c].carried = 0 /\ call[c].res = "none"
    BY <1>1, <1>13 DEF Retry, Has
  <2>2. CASE /\ call[c].attempt + 1 < MaxAttempts /\ sess' = Empty
             /\ call' = [call EXCEPT ![c].pc = "ensure", ![c].attempt = @ + 1, ![c].cookie = "none", ![c].token = "none"]
    <3> DEFINE new == [call[c] EXCEPT !.pc = "ensure", !.attempt = @ + 1, !.cookie = "none", !.token = "none"]
    <3>1. new \in CallRecord /\ CallFits(new)
      <4>1. call[c].attempt + 1 \in 0 .. MaxAttempts - 1
        BY <2>1, <2>2 DEF CallRecord
      <4>2. new \in CallRecord
        BY <2>1, <4>1 DEF CallRecord
      <4>3. new.pc = "ensure" /\ new.carried = 0 /\ new.res = "none"
        BY <2>1 DEF CallRecord
      <4> HIDE DEF new
      <4> QED
        BY <4>2, <4>3
    <3>2. call' = [call EXCEPT ![c] = new]
      BY <1>1, <2>2
    <3>3. SessionFits(sess')
      BY <2>2, EmptySeq DEF Empty, SessionFits
    <3> HIDE DEF new
    <3> QED
      BY <1>1, <1>4, <1>13, <3>1, <3>2, <3>3 DEF Retry, SimVars
  <2>3. ASSUME NEW r \in {"token", "canceled"}, Ends(c, r), UNCHANGED sess PROVE Goal
    <3>1. CallsFit'
      BY <1>1, <2>1, <2>3, EndsFits
    <3> QED
      BY <1>1, <1>13, <2>3, <3>1 DEF Retry, SimVars
  <2> QED
    BY <1>13, <2>2, <2>3 DEF Retry
<1>14. CASE RegistryClose
  BY <1>1, <1>14 DEF RegistryClose, SimVars
<1>15. CASE TokensExpire
  <2>1. \A c \in Callers : LET new == [call[c] EXCEPT !.token = Old(@)] IN new \in CallRecord /\ CallFits(new)
    BY <1>1 DEF Old, CallRecord, Known
  <2>2. CallsFit'
    BY <1>15, <2>1 DEF TokensExpire
  <2>3. SessionFits(sess')
    BY <1>1, <1>15, OldSessionFits DEF TokensExpire, SessionFits
  <2> QED
    BY <1>1, <1>15, <2>2, <2>3 DEF TokensExpire, SimVars
<1>16. CASE FaultsEnd /\ UNCHANGED <<sess, call, closed>>
  BY <1>1, <1>16 DEF FaultsEnd
<1> QED
  BY <1>3, <1>6, <1>7, <1>8, <1>9, <1>10, <1>11, <1>12, <1>13, <1>14, <1>15, <1>16
     DEF ClientNext, Works

(* The session holds no more tokens than TokenBatchSize and no attempt is  *)
(* beyond the last, for any number of callers (session.absorb, Client.do). *)
THEOREM ClientTypeOKHolds == ClientSpec => []ClientTypeOK
<1>1. ClientInv => ClientTypeOK
  BY DEF ClientInv
<1> QED
  BY ClientInvInit, ClientInvStep, <1>1, PTL DEF ClientSpec

(* A write is carried out once when its call succeeds, not at all when it  *)
(* is refused or given up, and never twice, for any number of callers that *)
(* share the session and any number of attempts (Client.do).               *)
THEOREM OncePerCallHolds == ClientSpec => []OncePerCall
<1>1. ClientInv => OncePerCall
  BY DEF ClientInv, ClientTypeOK, CallFits, CallStarts, CallAnswered, CallOver, OncePerCall
<1> QED
  BY ClientInvInit, ClientInvStep, <1>1, PTL DEF ClientSpec
(* Induction over the naturals, of a set: the naturals without it have no  *)
(* least member.                                                           *)
LEMMA SetInduction ==
    ASSUME NEW S, 0 \in S, \A n \in Nat : n \in S => n + 1 \in S
    PROVE  Nat \subseteq S
<1> DEFINE T == Nat \ S
<1> SUFFICES ASSUME T # {} PROVE FALSE
  OBVIOUS
<1>1. PICK x \in T : \A y \in T : ~(<<y, x>> \in OpToRel(<, Nat))
  <2>1. T \subseteq Nat
    OBVIOUS
  <2> HIDE DEF T
  <2> QED
    BY <2>1, NatLessThanWellFounded, WFMin
<1>2. \A a, b \in Nat : a < b => <<a, b>> \in OpToRel(<, Nat)
  BY Zenon DEF OpToRel
<1>3. x # 0 /\ x \in Nat /\ x - 1 \in Nat
  OBVIOUS
<1>4. x - 1 < x
  BY <1>3
<1>5. x - 1 \notin T
  BY <1>1, <1>2, <1>3, <1>4
<1> QED
  BY <1>3, <1>5


-----------------------------------------------------------------------------
(* penaltyFor.  The loop as the sequence of its penalties, round by round. *)

Doubled(p) == IF p < MaxPenalty THEN 2 * p ELSE p
Rounds(n, g) ==
    /\ g \in [0 .. n -> Nat \ {0}] /\ g[0] = Penalty
    /\ \A i \in 1 .. n : g[i] = Doubled(g[i - 1])

LEMMA DoubledIs == \A p \in Nat \ {0} : Doubled(p) \in Nat \ {0}
  BY LoginAssumption DEF Doubled

(* The loop runs however many rounds it has.                               *)
LEMMA RoundsExist == \A n \in Nat : \E g : Rounds(n, g)
<1> DEFINE S == {n \in Nat : \E g : Rounds(n, g)}
<1>1. 0 \in S
  <2>1. Rounds(0, [i \in 0 .. 0 |-> Penalty])
    BY LoginAssumption DEF Rounds
  <2> QED
    BY <2>1
<1>2. ASSUME NEW n \in Nat, n \in S PROVE n + 1 \in S
  <2>1. PICK g : Rounds(n, g)
    BY <1>2
  <2> DEFINE h == [i \in 0 .. n + 1 |-> IF i = n + 1 THEN Doubled(g[n]) ELSE g[i]]
  <2>2. h \in [0 .. n + 1 -> Nat \ {0}] /\ h[0] = Penalty
    BY <2>1, DoubledIs DEF Rounds
  <2>3. \A i \in 1 .. n + 1 : h[i] = Doubled(h[i - 1])
    BY <2>1 DEF Rounds
  <2>4. Rounds(n + 1, h)
    BY <2>2, <2>3 DEF Rounds
  <2> QED
    BY <2>4
<1> HIDE DEF S
<1>3. Nat \subseteq S
  BY <1>1, <1>2, SetInduction
<1> QED
  BY <1>3 DEF S

(* And it has one outcome.                                                 *)
LEMMA RoundsAgree ==
    ASSUME NEW m \in Nat, NEW n \in Nat, m <= n, NEW g, Rounds(m, g), NEW h, Rounds(n, h)
    PROVE  g[m] = h[m]
<1> DEFINE S == {i \in Nat : i <= m => g[i] = h[i]}
<1>1. 0 \in S
  BY DEF Rounds
<1>2. ASSUME NEW i \in Nat, i \in S PROVE i + 1 \in S
  <2> SUFFICES ASSUME i + 1 <= m PROVE g[i + 1] = h[i + 1]
    OBVIOUS
  <2>1. g[i] = h[i]
    BY <1>2
  <2>2. i + 1 \in 1 .. m /\ i + 1 \in 1 .. n /\ (i + 1) - 1 = i
    OBVIOUS
  <2> QED
    BY <2>1, <2>2 DEF Rounds
<1> HIDE DEF S
<1>3. Nat \subseteq S
  BY <1>1, <1>2, SetInduction
<1> QED
  BY <1>3 DEF S

(* The penalties are what the loop computes, and each is one.              *)
LEMMA PenaltiesAre ==
    /\ Penalties \in [Nat -> Nat \ {0}]
    /\ Penalties[0] = Penalty
    /\ \A n \in Nat : Penalties[n + 1] = Doubled(Penalties[n])
<1> DEFINE G(n) == CHOOSE g : Rounds(n, g)
           F == [n \in Nat |-> G(n)[n]]
<1>1. \A n \in Nat : Rounds(n, G(n))
  BY RoundsExist
<1>2. F \in [Nat -> Nat \ {0}] /\ F[0] = Penalty
  <2> HIDE DEF G
  <2>1. \A n \in Nat : n \in 0 .. n /\ G(n)[n] \in Nat \ {0}
    BY <1>1 DEF Rounds
  <2>2. G(0)[0] = Penalty
    BY <1>1 DEF Rounds
  <2> QED
    BY <2>1, <2>2
<1>3. ASSUME NEW n \in Nat PROVE F[n + 1] = Doubled(F[n])
  <2>1. Rounds(n, G(n)) /\ Rounds(n + 1, G(n + 1))
    BY <1>1
  <2> HIDE DEF G
  <2>2. G(n + 1)[n + 1] = Doubled(G(n + 1)[n])
    BY <2>1 DEF Rounds
  <2>3. G(n)[n] = G(n + 1)[n]
    BY <2>1, RoundsAgree
  <2> QED
    BY <2>2, <2>3
<1> HIDE DEF F
<1> DEFINE E(f) == f = [n \in Nat |-> IF n = 0 THEN Penalty
                                      ELSE LET p == f[n - 1] IN IF p < MaxPenalty THEN 2 * p ELSE p]
<1>4. E(F)
  <2>1. \A n \in Nat : n # 0 => F[n] = Doubled(F[n - 1])
    <3>1. \A n \in Nat : n # 0 => n - 1 \in Nat /\ (n - 1) + 1 = n
      OBVIOUS
    <3> QED
      BY <1>3, <3>1
  <2> QED
    BY <1>2, <2>1 DEF Doubled
<1>5. Penalties = CHOOSE f : E(f)
  BY DEF Penalties
<1>6. E(Penalties)
  <2> HIDE DEF E
  <2> QED
    BY <1>4, <1>5
<1>7. Penalties[0] = Penalty /\ \A n \in Nat : Penalties[n + 1] = Doubled(Penalties[n])
  BY <1>6 DEF Doubled
<1> DEFINE S == {n \in Nat : Penalties[n] \in Nat \ {0}}
<1>8. 0 \in S
  BY <1>7, LoginAssumption
<1>9. ASSUME NEW n \in Nat, n \in S PROVE n + 1 \in S
  BY <1>7, <1>9, DoubledIs
<1>10. Nat \subseteq S
  <2> HIDE DEF S
  <2> QED
    BY <1>8, <1>9, SetInduction
<1>11. \A n \in Nat : Penalties[n] \in Nat \ {0}
  BY <1>10
<1>12. Penalties = [n \in Nat |-> Penalties[n]]
  BY <1>6
<1> HIDE DEF E
<1> QED
  BY <1>7, <1>11, <1>12
(* What a subject is locked for is some time, and MaxPenalty at most.       *)
LEMMA PenaltyForIs ==
    ASSUME NEW f \in Nat, f >= Threshold
    PROVE  PenaltyFor(f) \in 1 .. MaxPenalty
<1>1. f - Threshold \in Nat
  BY LoginAssumption
<1> QED
  BY <1>1, PenaltiesAre, LoginAssumption DEF PenaltyFor

-----------------------------------------------------------------------------
(* Signing in.  What makes TriesAreBounded inductive: while the subject is *)
(* not locked, every failure beyond the threshold is of a browser that has *)
(* yet to write the lock; once it is, no browser begins to verify, so that *)
(* those that are at it already are all that may still fail.               *)

Locking == {c \in Clients : login[c].pc = "lock"}
Trying == {c \in Clients : login[c].pc \in {"verify", "fail"}}

RowFits ==
    /\ lock.failures = 0 => lock = NoRow
    /\ \A c \in Clients : login[c].pc = "lock" => login[c].failures >= Threshold

GuessFits == \A c \in Clients : login[c].pc \in {"reset", "issue"} => login[c].guess \in Passwords

UnlockedFits ==
    lock.wait = 0 =>
        /\ tries <= Threshold - 1 + Cardinality(Locking)
        /\ tries <= lock.failures
        /\ lock.age > Window => tries = 0

LockedFits == lock.wait > 0 => tries + Cardinality(Trying) <= Threshold - 1 + Cardinality(Clients)

LoginInv == LoginTypeOK /\ RowFits /\ GuessFits /\ UnlockedFits /\ LockedFits
LockRow == [failures: Nat, age: 0 .. Window + 1, wait: 0 .. MaxPenalty]
SignIn == [pc: {"idle", "check", "verify", "fail", "lock", "reset", "issue"},
           guess: Passwords \cup {"wrong"}, failures: Nat]
CookieRow == [by: Passwords \cup {"none"}, age: 0 .. Ttl]

LoginTyped ==
    /\ account \in [password: Passwords, passwd: {"idle", "set"}]
    /\ lock \in LockRow /\ login \in [Clients -> SignIn]
    /\ cookies \in [Clients -> CookieRow] /\ tries \in Nat

LEMMA LoginTypes ==
    /\ LoginTypeOK <=> LoginTyped
    /\ LoginTypeOK' <=> LoginTyped'
    /\ NoRow \in LockRow /\ NoLogin \in SignIn /\ NoCookie \in CookieRow
<1>1. NoRow \in LockRow
  BY LoginAssumption DEF NoRow, LockRow
<1>2. NoLogin \in SignIn /\ NoCookie \in CookieRow
  BY LoginAssumption DEF NoLogin, SignIn, NoCookie, CookieRow
<1> QED
  BY <1>1, <1>2 DEF LoginTypeOK, LoginTyped, LockRow, SignIn, CookieRow

(* The browsers are finitely many.                                         *)
LEMMA BrowsersAre ==
    /\ IsFiniteSet(Locking) /\ IsFiniteSet(Trying)
    /\ Cardinality(Locking) \in Nat /\ Cardinality(Trying) \in Nat /\ Cardinality(Clients) \in Nat
    /\ Cardinality(Locking) + Cardinality(Trying) <= Cardinality(Clients)
<1>1. IsFiniteSet(Clients) /\ Locking \subseteq Clients /\ Trying \subseteq Clients
  BY LoginAssumption DEF Locking, Trying
<1>2. IsFiniteSet(Locking) /\ IsFiniteSet(Trying) /\ IsFiniteSet(Locking \cup Trying)
  BY <1>1, FS_Subset, FS_Union
<1>3. Locking \cap Trying = {} /\ Locking \cup Trying \subseteq Clients
  BY <1>1 DEF Locking, Trying
<1>4. Cardinality(Locking \cup Trying) = Cardinality(Locking) + Cardinality(Trying)
  <2>1. Cardinality(Locking \cup Trying)
          = Cardinality(Locking) + Cardinality(Trying) - Cardinality(Locking \cap Trying)
    BY <1>2, FS_Union
  <2>2. Cardinality(Locking \cap Trying) = 0
    BY <1>3, FS_EmptySet
  <2> QED
    BY <1>2, <2>1, <2>2, FS_CardinalityType
<1>5. Cardinality(Locking \cup Trying) <= Cardinality(Clients)
  BY <1>1, <1>3, FS_Subset
<1> QED
  BY <1>1, <1>2, <1>4, <1>5, FS_CardinalityType

(* Fewer browsers than before.                                             *)
LEMMA FewerBrowsers ==
    ASSUME NEW S, NEW T, IsFiniteSet(T), S \subseteq T
    PROVE  Cardinality(S) \in Nat /\ Cardinality(T) \in Nat /\ Cardinality(S) <= Cardinality(T)
  BY FS_Subset, FS_CardinalityType

LEMMA LoginInvInit == LoginInit => LoginInv
<1> SUFFICES ASSUME LoginInit PROVE LoginInv
  OBVIOUS
<1> USE LoginAssumption
<1>1. LoginTypeOK
  BY LoginTypes DEF LoginTyped, LoginInit, Passwords
<1>2. RowFits /\ GuessFits /\ LockedFits
  BY DEF LoginInit, RowFits, GuessFits, LockedFits, NoRow, NoLogin
<1>3. UnlockedFits
  <2>1. tries = 0 /\ lock.failures = 0 /\ Threshold >= 1
    BY DEF LoginInit, NoRow
  <2> QED
    BY <2>1, BrowsersAre DEF UnlockedFits
<1> QED
  BY <1>1, <1>2, <1>3 DEF LoginInv

(* A step that leaves the lock alone and lets nobody past its look at it.  *)
LEMMA LoginKeeps ==
    ASSUME LoginInv, lock' = lock, tries' = tries, LoginTypeOK', GuessFits',
           \A c \in Clients : login'[c].pc = "lock" <=> login[c].pc = "lock",
           \A c \in Clients : login'[c].pc = "lock" => login'[c].failures = login[c].failures,
           lock.wait > 0 => \A c \in Clients : login'[c].pc \in {"verify", "fail"} => login[c].pc \in {"verify", "fail"}
    PROVE  LoginInv'
<1>1. Locking' = Locking
  BY DEF Locking
<1>2. RowFits'
  BY DEF LoginInv, RowFits
<1>3. UnlockedFits'
  BY <1>1 DEF LoginInv, UnlockedFits
<1>4. LockedFits'
  <2> SUFFICES ASSUME lock.wait > 0
               PROVE  tries + Cardinality(Trying') <= Threshold - 1 + Cardinality(Clients)
    BY DEF LockedFits
  <2>1. Trying' \subseteq Trying
    BY DEF Trying
  <2>2. Cardinality(Trying') \in Nat /\ Cardinality(Trying) \in Nat /\ Cardinality(Trying') <= Cardinality(Trying)
    BY <2>1, BrowsersAre, FewerBrowsers
  <2>3. tries + Cardinality(Trying) <= Threshold - 1 + Cardinality(Clients)
    BY DEF LoginInv, LockedFits
  <2> QED
    BY <2>2, <2>3, BrowsersAre, LoginAssumption DEF LoginInv, LoginTypeOK
<1> QED
  BY <1>2, <1>3, <1>4 DEF LoginInv

LEMMA LoginInvStep == LoginInv /\ [LoginNext]_loginVars => LoginInv'
<1> SUFFICES ASSUME LoginInv, [LoginNext]_loginVars PROVE LoginInv'
  OBVIOUS
<1> USE LoginAssumption
<1>0. LoginTypeOK
  BY DEF LoginInv
<1>1. CASE UNCHANGED loginVars
  BY <1>1 DEF loginVars, LoginInv, LoginTypeOK, RowFits, GuessFits, UnlockedFits, LockedFits, Locking, Trying
<1>2. ASSUME NEW c \in Clients, SignsIn(c) PROVE LoginInv'
  <2>1. PICK g \in Passwords \cup {"wrong"} : login' = [login EXCEPT ![c] = [NoLogin EXCEPT !.pc = "check", !.guess = g]]
    BY <1>2 DEF SignsIn
  <2>2. [NoLogin EXCEPT !.pc = "check", !.guess = g] \in SignIn
    BY DEF NoLogin, SignIn
  <2>3. LoginTypeOK'
    BY <1>0, <1>2, <2>1, <2>2, LoginTypes DEF LoginTyped, SignsIn
  <2>4. GuessFits'
    BY <1>0, <2>1, LoginTypes DEF LoginTyped, LoginInv, GuessFits, NoLogin
  <2> QED
    BY <1>0, <1>2, <2>1, <2>3, <2>4, LoginKeeps, LoginTypes DEF LoginTyped, SignsIn, LoginAt, NoLogin
<1>3. ASSUME NEW c \in Clients, CheckLockout(c) PROVE LoginInv'
  <2>1. CASE lock.wait > 0
    <3>1. login' = [login EXCEPT ![c] = NoLogin]
      BY <1>3, <2>1 DEF CheckLockout, LoginEnds
    <3>2. LoginTypeOK'
      BY <1>0, <1>3, <3>1, LoginTypes DEF LoginTyped, CheckLockout
    <3>3. GuessFits'
      BY <1>0, <3>1, LoginTypes DEF LoginTyped, LoginInv, GuessFits, NoLogin
    <3> QED
      BY <1>0, <1>3, <3>1, <3>2, <3>3, LoginKeeps, LoginTypes DEF LoginTyped, CheckLockout, LoginAt, NoLogin
  <2>2. CASE ~(lock.wait > 0)
    <3>1. login' = [login EXCEPT ![c].pc = "verify"]
      BY <1>3, <2>2 DEF CheckLockout, LoginGoes
    <3>2. LoginTypeOK'
      BY <1>0, <1>3, <3>1, LoginTypes DEF LoginTyped, CheckLockout, SignIn
    <3>3. GuessFits'
      BY <1>0, <3>1, LoginTypes DEF LoginTyped, LoginInv, GuessFits, SignIn
    <3> QED
      BY <1>0, <1>3, <2>2, <3>1, <3>2, <3>3, LoginKeeps, LoginTypes DEF LoginTyped, CheckLockout, LoginAt, SignIn
  <2> QED
    BY <2>1, <2>2
<1>4. ASSUME NEW c \in Clients, AuthenticateUser(c) PROVE LoginInv'
  <2>1. CASE login[c].guess = account.password
    <3>1. login' = [login EXCEPT ![c].pc = "reset"]
      BY <1>4, <2>1 DEF AuthenticateUser, LoginGoes
    <3>2. LoginTypeOK'
      BY <1>0, <1>4, <3>1, LoginTypes DEF LoginTyped, AuthenticateUser, SignIn
    <3>3. GuessFits'
      BY <1>0, <2>1, <3>1, LoginTypes DEF LoginTyped, LoginInv, GuessFits, SignIn
    <3> QED
      BY <1>0, <1>4, <3>1, <3>2, <3>3, LoginKeeps, LoginTypes DEF LoginTyped, AuthenticateUser, LoginAt, SignIn
  <2>2. CASE login[c].guess # account.password
    <3>1. login' = [login EXCEPT ![c].pc = "fail"]
      BY <1>4, <2>2 DEF AuthenticateUser, LoginGoes
    <3>2. LoginTypeOK'
      BY <1>0, <1>4, <3>1, LoginTypes DEF LoginTyped, AuthenticateUser, SignIn
    <3>3. GuessFits'
      BY <1>0, <3>1, LoginTypes DEF LoginTyped, LoginInv, GuessFits, SignIn
    <3> QED
      BY <1>0, <1>4, <3>1, <3>2, <3>3, LoginKeeps, LoginTypes DEF LoginTyped, AuthenticateUser, LoginAt, SignIn
  <2> QED
    BY <2>1, <2>2
<1>5. ASSUME NEW c \in Clients, FailCounts(c) PROVE LoginInv'
  <2>1. /\ lock' = Recorded /\ tries' = tries + 1 /\ tries \in Nat /\ login[c].pc = "fail"
        /\ lock.failures \in Nat /\ Recorded.failures \in Nat \ {0} /\ Recorded.wait = lock.wait
        /\ Recorded.age \in 0 .. Window + 1
    BY <1>0, <1>5 DEF FailCounts, LoginAt, Recorded, LoginTypeOK
  <2>2. lock' \in LockRow
    <3>1. lock \in LockRow
      BY <1>0, LoginTypes DEF LoginTyped
    <3>2. CASE lock.failures > 0 /\ lock.age <= Window
      BY <2>1, <3>1, <3>2 DEF Recorded, LockRow
    <3>3. CASE ~(lock.failures > 0 /\ lock.age <= Window)
      BY <2>1, <3>1, <3>3 DEF Recorded, LockRow
    <3> QED
      BY <3>2, <3>3
  <2>3. LoginTypeOK' /\ GuessFits'
    <3>1. CASE Recorded.failures < Threshold
      <4>1. login' = [login EXCEPT ![c] = NoLogin]
        BY <1>5, <3>1 DEF FailCounts, LoginEnds
      <4> QED
        BY <1>0, <1>5, <2>1, <2>2, <4>1, LoginTypes DEF LoginTyped, FailCounts, LoginInv, GuessFits, NoLogin
    <3>2. CASE ~(Recorded.failures < Threshold)
      <4> DEFINE new == [login[c] EXCEPT !.pc = "lock", !.failures = Recorded.failures]
      <4>1. login' = [login EXCEPT ![c] = new]
        BY <1>0, <1>5, <3>2, LoginTypes DEF LoginTyped, FailCounts
      <4>2. new \in SignIn /\ new.pc = "lock"
        BY <1>0, <2>1, LoginTypes DEF LoginTyped, SignIn
      <4> HIDE DEF new
      <4> QED
        BY <1>0, <1>5, <2>1, <2>2, <4>1, <4>2, LoginTypes DEF LoginTyped, FailCounts, LoginInv, GuessFits
    <3> QED
      BY <3>1, <3>2
  <2>4. RowFits'
    BY <1>0, <1>5, <2>1 DEF LoginInv, RowFits, FailCounts, LoginTypeOK, LoginEnds, NoLogin
  <2>5. UnlockedFits'
    <3> SUFFICES ASSUME lock.wait = 0
                 PROVE  /\ tries + 1 <= Threshold - 1 + Cardinality(Locking')
                        /\ tries + 1 <= Recorded.failures
                        /\ Recorded.age <= Window
      BY <2>1 DEF UnlockedFits
    <3>1. Recorded.age <= Window /\ tries + 1 <= Recorded.failures
      BY <1>0 DEF LoginInv, RowFits, UnlockedFits, Recorded, NoRow, LoginTypeOK
    <3>2. CASE Recorded.failures < Threshold
      <4>1. Locking' = Locking
        BY <1>0, <1>5, <3>2 DEF FailCounts, LoginAt, LoginEnds, NoLogin, Locking, LoginTypeOK
      <4> QED
        BY <2>1, <3>1, <3>2, <4>1, BrowsersAre
    <3>3. CASE ~(Recorded.failures < Threshold)
      <4>1. Locking' = Locking \cup {c} /\ c \notin Locking
        BY <1>0, <1>5, <3>3 DEF FailCounts, LoginAt, Locking, LoginTypeOK
      <4>2. Cardinality(Locking') = Cardinality(Locking) + 1
        BY <4>1, BrowsersAre, FS_AddElement
      <4>3. tries <= Threshold - 1 + Cardinality(Locking)
        BY DEF LoginInv, UnlockedFits
      <4> QED
        BY <2>1, <3>1, <4>2, <4>3, BrowsersAre
    <3> QED
      BY <3>2, <3>3
  <2>6. LockedFits'
    <3> SUFFICES ASSUME lock.wait > 0
                 PROVE  tries + 1 + Cardinality(Trying') <= Threshold - 1 + Cardinality(Clients)
      BY <2>1 DEF LockedFits
    <3>1. Trying' = Trying \ {c} /\ c \in Trying
      BY <1>0, <1>5, <2>1 DEF FailCounts, LoginAt, LoginEnds, NoLogin, Trying, LoginTypeOK
    <3>2. Cardinality(Trying') = Cardinality(Trying) - 1
      BY <3>1, BrowsersAre, FS_RemoveElement
    <3>3. tries + Cardinality(Trying) <= Threshold - 1 + Cardinality(Clients)
      BY DEF LoginInv, LockedFits
    <3> QED
      BY <2>1, <3>2, <3>3, BrowsersAre
  <2> QED
    BY <2>3, <2>4, <2>5, <2>6 DEF LoginInv
<1>6. ASSUME NEW c \in Clients, FailLocks(c) PROVE LoginInv'
  <2> DEFINE p == PenaltyFor(login[c].failures)
             w == IF lock.failures > 0 /\ p > lock.wait THEN p ELSE lock.wait
  <2>1. login[c].pc = "lock" /\ login[c].failures \in Nat /\ login[c].failures >= Threshold
    BY <1>0, <1>6 DEF FailLocks, LoginAt, LoginInv, RowFits, LoginTypeOK
  <2>2. p \in 1 .. MaxPenalty
    BY <2>1, PenaltyForIs
  <2>3. w \in 0 .. MaxPenalty /\ w >= lock.wait /\ (lock.failures > 0 => w > 0) /\ (lock.failures = 0 => w = lock.wait)
    <3> HIDE DEF p
    <3> QED
      BY <1>0, <2>2 DEF LoginTypeOK
  <2>4. lock' = [lock EXCEPT !.wait = w] /\ tries' = tries /\ login' = [login EXCEPT ![c] = NoLogin]
    BY <1>6 DEF FailLocks, LoginEnds
  <2> HIDE DEF p, w
  <2>5. lock'.wait = w /\ lock'.failures = lock.failures /\ lock'.age = lock.age
    BY <1>0, <2>4 DEF LoginTypeOK
  <2>6. LoginTypeOK'
    BY <1>0, <1>6, <2>3, <2>4 DEF FailLocks, LoginTypeOK, NoLogin
  <2>7. RowFits' /\ GuessFits'
    BY <1>0, <2>3, <2>4 DEF LoginInv, RowFits, GuessFits, LoginTypeOK, NoRow, NoLogin
  <2>8. Trying' = Trying /\ Locking' = Locking \ {c} /\ c \in Locking
    BY <1>0, <2>1, <2>4 DEF Trying, Locking, LoginTypeOK, NoLogin
  <2>9. Cardinality(Locking') \in Nat
    BY <2>8, BrowsersAre, FS_RemoveElement, FS_CardinalityType
  <2>10. UnlockedFits'
    <3> SUFFICES ASSUME w = 0
                 PROVE  /\ tries <= Threshold - 1 + Cardinality(Locking')
                        /\ tries <= lock.failures
                        /\ lock.age > Window => tries = 0
      BY <2>4, <2>5 DEF UnlockedFits
    <3>1. lock.failures = 0 /\ lock.wait = 0
      BY <1>0, <2>3 DEF LoginTypeOK
    <3>2. tries = 0
      BY <1>0, <3>1 DEF LoginInv, UnlockedFits, LoginTypeOK
    <3> QED
      BY <2>9, <3>1, <3>2
  <2>11. LockedFits'
    <3> SUFFICES tries + Cardinality(Trying) <= Threshold - 1 + Cardinality(Clients)
      BY <2>4, <2>8 DEF LockedFits
    <3>1. CASE lock.wait > 0
      BY <3>1 DEF LoginInv, LockedFits
    <3>2. CASE lock.wait = 0
      BY <1>0, <3>2, BrowsersAre DEF LoginInv, UnlockedFits, LoginTypeOK
    <3> QED
      BY <1>0, <3>1, <3>2 DEF LoginTypeOK
  <2> QED
    BY <2>6, <2>7, <2>10, <2>11 DEF LoginInv
<1>7. ASSUME NEW c \in Clients, ResetLockout(c) PROVE LoginInv'
  <2>1. lock' = NoRow /\ tries' = 0 /\ login' = [login EXCEPT ![c].pc = "issue"] /\ login[c].pc = "reset"
    BY <1>7 DEF ResetLockout, LoginGoes, LoginAt
  <2>2. LoginTypeOK'
    BY <1>0, <1>7, <2>1 DEF ResetLockout, LoginTypeOK, NoRow
  <2>3. RowFits' /\ GuessFits'
    BY <1>0, <2>1 DEF LoginInv, RowFits, GuessFits, LoginTypeOK
  <2>4. Locking' = Locking
    BY <1>0, <2>1 DEF Locking, LoginTypeOK
  <2>5. UnlockedFits' /\ LockedFits'
    BY <2>1, <2>4, BrowsersAre DEF UnlockedFits, LockedFits, NoRow
  <2> QED
    BY <2>2, <2>3, <2>5 DEF LoginInv
<1>8. ASSUME NEW c \in Clients, IssueSession(c) PROVE LoginInv'
  <2>1. /\ login' = [login EXCEPT ![c] = NoLogin] /\ login[c].pc = "issue"
        /\ cookies' = [cookies EXCEPT ![c] = [by |-> login[c].guess, age |-> 0]]
    BY <1>8 DEF IssueSession, LoginEnds, LoginAt
  <2>2. [by |-> login[c].guess, age |-> 0] \in CookieRow
    BY <2>1 DEF LoginInv, GuessFits, CookieRow
  <2>3. LoginTypeOK'
    BY <1>0, <1>8, <2>1, <2>2, LoginTypes DEF LoginTyped, IssueSession
  <2>4. GuessFits'
    BY <1>0, <2>1, LoginTypes DEF LoginTyped, LoginInv, GuessFits, NoLogin
  <2> QED
    BY <1>0, <1>8, <2>1, <2>3, <2>4, LoginKeeps, LoginTypes DEF LoginTyped, IssueSession, NoLogin
<1>9. ASSUME NEW c \in Clients, LookupSession(c) \/ LogsOut(c) PROVE LoginInv'
  <2>1. LoginTypeOK'
    BY <1>0, <1>9, LoginTypes DEF LoginTyped, LookupSession, LogsOut
  <2>2. GuessFits'
    BY <1>9 DEF LoginInv, GuessFits, LookupSession, LogsOut
  <2> QED
    BY <1>9, <2>1, <2>2, LoginKeeps DEF LookupSession, LogsOut
<1>10. CASE SetPassword \/ RevokeUser
  <2>1. account' \in [password: Passwords, passwd: {"idle", "set"}]
    <3>1. CASE SetPassword
      <4>1. (CHOOSE p \in Passwords : p # account.password) \in Passwords
        BY DEF Passwords
      <4> QED
        BY <3>1, <4>1 DEF SetPassword
    <3>2. CASE RevokeUser
      BY <1>0, <3>2, LoginTypes DEF LoginTyped, RevokeUser
    <3> QED
      BY <1>10, <3>1, <3>2
  <2>2. cookies' \in [Clients -> CookieRow]
    BY <1>0, <1>10, LoginTypes DEF LoginTyped, SetPassword, RevokeUser
  <2>3. LoginTypeOK' /\ GuessFits'
    BY <1>0, <1>10, <2>1, <2>2, LoginTypes DEF LoginTyped, SetPassword, RevokeUser, LoginInv, GuessFits
  <2> QED
    BY <1>10, <2>3, LoginKeeps DEF SetPassword, RevokeUser
<1>11. CASE LoginTick
  <2>1. Locking = {}
    BY <1>11 DEF LoginTick, LoginAt, Locking
  <2>2. Locking' = {} /\ Trying' = Trying
    BY <1>11, <2>1 DEF LoginTick, Locking, Trying
  <2>3. /\ lock.failures = 0 => lock' = lock
        /\ lock.failures # 0 =>
             /\ lock'.failures = lock.failures
             /\ lock'.age = IF lock.age <= Window THEN lock.age + 1 ELSE lock.age
             /\ lock'.wait = IF lock.wait > 0 THEN lock.wait - 1 ELSE 0
        /\ tries' = IF lock.wait = 1 \/ (lock.wait = 0 /\ lock.age = Window) THEN 0 ELSE tries
    BY <1>0, <1>11 DEF LoginTick, LoginTypeOK
  <2>4. lock' \in LockRow /\ tries' \in Nat
    <3>1. lock \in LockRow /\ tries \in Nat
      BY <1>0, LoginTypes DEF LoginTyped
    <3>2. CASE lock.failures = 0
      BY <2>3, <3>1, <3>2
    <3>3. CASE lock.failures # 0
      <4> DEFINE a == IF lock.age <= Window THEN lock.age + 1 ELSE lock.age
                 w == IF lock.wait > 0 THEN lock.wait - 1 ELSE 0
      <4>1. lock' = [lock EXCEPT !.age = a, !.wait = w]
        BY <1>11, <3>1, <3>3 DEF LoginTick, LockRow
      <4>2. a \in 0 .. Window + 1 /\ w \in 0 .. MaxPenalty
        BY <3>1 DEF LockRow
      <4> HIDE DEF a, w
      <4> QED
        BY <2>3, <3>1, <4>1, <4>2 DEF LockRow
    <3> QED
      BY <3>2, <3>3
  <2>5. cookies' \in [Clients -> CookieRow]
    BY <1>0, <1>11, LoginTypes DEF LoginTyped, LoginTick, CookieRow
  <2>6. LoginTypeOK' /\ GuessFits'
    BY <1>0, <1>11, <2>4, <2>5, LoginTypes DEF LoginTyped, LoginTick, LoginInv, GuessFits
  <2>7. RowFits'
    BY <1>0, <1>11, <2>3 DEF LoginTick, LoginInv, RowFits, NoRow, LoginTypeOK
  <2>8. UnlockedFits'
    <3>1. Cardinality(Locking) = 0 /\ Cardinality(Locking') = 0
      BY <2>1, <2>2, FS_EmptySet
    <3>2. CASE lock.failures = 0
      BY <1>0, <2>3, <3>1, <3>2 DEF LoginInv, RowFits, UnlockedFits, NoRow, LoginTypeOK
    <3>3. CASE lock.failures # 0
      BY <1>0, <2>3, <3>1, <3>3 DEF LoginInv, UnlockedFits, LoginTypeOK
    <3> QED
      BY <3>2, <3>3
  <2>9. LockedFits'
    BY <1>0, <2>2, <2>3, BrowsersAre DEF LoginInv, RowFits, LockedFits, NoRow, LoginTypeOK
  <2> QED
    BY <2>6, <2>7, <2>8, <2>9 DEF LoginInv
<1> QED
  BY <1>1, <1>2, <1>3, <1>4, <1>5, <1>6, <1>7, <1>8, <1>9, <1>10, <1>11 DEF LoginNext, LoginStep

(* The rows, the sign ins and the cookies keep their types, a lock is for  *)
(* MaxPenalty at most (Lockout.penaltyFor).                                *)
THEOREM LoginTypeOKHolds == LoginSpec => []LoginTypeOK
<1>1. LoginInv => LoginTypeOK
  BY DEF LoginInv
<1> QED
  BY LoginInvInit, LoginInvStep, <1>1, PTL DEF LoginSpec

(* However many browsers sign in at once, between two locks a subject      *)
(* fails no more often than the threshold allows, and once more for each   *)
(* browser (handleLogin, Lockout.Fail).                                    *)
THEOREM TriesAreBoundedHolds == LoginSpec => []TriesAreBounded
<1>1. LoginInv => TriesAreBounded
  <2> SUFFICES ASSUME LoginInv PROVE TriesAreBounded
    OBVIOUS
  <2>1. CASE lock.wait = 0
    BY <2>1, BrowsersAre, LoginAssumption DEF LoginInv, LoginTypeOK, UnlockedFits, TriesAreBounded
  <2>2. CASE lock.wait > 0
    BY <2>2, BrowsersAre, LoginAssumption DEF LoginInv, LoginTypeOK, LockedFits, TriesAreBounded
  <2> QED
    BY <2>1, <2>2 DEF LoginInv, LoginTypeOK
<1> QED
  BY LoginInvInit, LoginInvStep, <1>1, PTL DEF LoginSpec
-----------------------------------------------------------------------------
(* Backups.  What makes LastBackupIsThere inductive: the file of a run     *)
(* under way is never among those another run is about to delete, since    *)
(* what is doomed has BackupKeep newer files at every moment, and the file *)
(* of a run has not; and what a run deletes beyond its own file is older.  *)

\* There is room for the file of a run.
Roomy == \A x \in Targets : Cardinality({g \in Held : Before(x, g)}) < BackupKeep

DoomedIsOld == \A p \in Savers : \A f \in proc[p].doomed : Cardinality(Newer(f)) >= BackupKeep

\* The file of a run is its own, and is whole once it has been copied.
TargetsFit ==
    \A p \in Savers :
        /\ proc[p].pc \in Taking => proc[p].target \in Name
        /\ proc[p].pc \in Taking \ {"vacuum"} => proc[p].target \in DOMAIN dir
        /\ proc[p].pc \in Taking \ {"vacuum", "copy"} => dir[proc[p].target] = "whole"
        /\ \A q \in Savers \ {p} :
              {proc[p].pc, proc[q].pc} \subseteq Taking \ {"vacuum"} => proc[p].target # proc[q].target

OnlySaversTake == \A p \in StoreProcs \ Savers : proc[p].pc \notin Taking /\ proc[p].doomed = {}

StoreInv ==
    /\ StoreTypeOK /\ IsFiniteSet(DOMAIN dir)
    /\ Roomy /\ DoomedIsOld /\ TargetsFit /\ OnlySaversTake /\ LastBackupIsThere
ProcRow == [pc: {"down", "open", "migrate", "ready"} \cup Taking, applied: SUBSET Ships,
            target: Name \cup {NoName}, doomed: SUBSET Name]

(* Of two names one is before the other.                                   *)
LEMMA BeforeOrders ==
    /\ \A f, g, h \in Name : Before(f, g) /\ Before(g, h) => Before(f, h)
    /\ \A f, g \in Name : Before(f, g) \/ Before(g, f) \/ f = g
    /\ \A f \in Name : ~Before(f, f)
<1>1. Cardinality(Savers) \in Nat
  BY StoreAssumption, FS_CardinalityType
<1>2. \A m, n \in 0 .. Cardinality(Savers) :
         /\ SuffixOrder(m) \in Nat
         /\ SuffixOrder(m) = SuffixOrder(n) => m = n
  BY <1>1 DEF SuffixOrder
<1>3. \A f \in Name : f.at \in Nat /\ f.n \in 0 .. Cardinality(Savers) /\ SuffixOrder(f.n) \in Nat
  BY <1>2, StoreAssumption DEF Name
<1>4. \A f, g \in Name : f.at = g.at /\ f.n = g.n => f = g
  BY DEF Name
<1> QED
  BY <1>2, <1>3, <1>4 DEF Before

(* A set of natural numbers has a least one.                               *)
LEMMA SetLeast ==
    ASSUME NEW S, S \subseteq Nat, S # {}
    PROVE  \E m \in S : \A n \in S : m <= n
<1>1. PICK x \in S : \A y \in S : ~(<<y, x>> \in OpToRel(<, Nat))
  BY NatLessThanWellFounded, WFMin
<1>2. \A a, b \in Nat : a < b => <<a, b>> \in OpToRel(<, Nat)
  BY Zenon DEF OpToRel
<1>3. \A y \in S : ~(y < x)
  BY <1>1, <1>2
<1> QED
  BY <1>3

(* Of more than enough files that are newer than one, enough are among the *)
(* newest of all.                                                          *)
LEMMA NewestOfNewer ==
    ASSUME NEW D, IsFiniteSet(D), D \subseteq Name, NEW x \in Name,
           Cardinality({g \in D : Before(x, g)}) >= BackupKeep
    PROVE  \E z \in Name :
              /\ {g \in D : Before(z, g)} \subseteq {g \in D : Before(x, g)}
              /\ Cardinality({g \in D : Before(z, g)}) >= BackupKeep
              /\ \A y \in {g \in D : Before(z, g)} : Cardinality({g \in D : Before(y, g)}) < BackupKeep
<1> DEFINE N(z) == {g \in D : Before(z, g)}
           Q == {z \in D \cup {x} : Cardinality(N(z)) >= BackupKeep}
           S == {Cardinality(N(z)) : z \in Q}
<1>1. \A z : IsFiniteSet(N(z)) /\ Cardinality(N(z)) \in Nat
  BY FS_Subset, FS_CardinalityType
<1>2. S \subseteq Nat /\ S # {}
  BY <1>1
<1>3. PICK m \in S : \A n \in S : m <= n
  <2> HIDE DEF S
  <2> QED
    BY <1>2, SetLeast
<1>4. PICK z \in Q : Cardinality(N(z)) = m
  OBVIOUS
<1>5. z \in Name /\ \A y \in Q : Cardinality(N(z)) <= Cardinality(N(y))
  BY <1>3, <1>4
<1>6. ASSUME NEW y \in Name, NEW v \in Name, v \in N(y) PROVE Cardinality(N(v)) < Cardinality(N(y))
  <2>1. N(v) \subseteq N(y) /\ v \notin N(v)
    BY <1>6, BeforeOrders
  <2>2. N(v) # N(y)
    BY <1>6, <2>1
  <2> HIDE DEF N
  <2> QED
    BY <1>1, <2>1, <2>2, FS_Subset
<1>7. ASSUME NEW y \in N(z) PROVE Cardinality(N(y)) < BackupKeep
  <2>1. y \in Name /\ y \in D /\ Cardinality(N(y)) < Cardinality(N(z))
    BY <1>5, <1>6
  <2> HIDE DEF N
  <2>2. y \notin Q
    <3>1. Cardinality(N(y)) \in Nat /\ Cardinality(N(z)) \in Nat
      BY <1>1
    <3>2. ~(Cardinality(N(z)) <= Cardinality(N(y)))
      BY <2>1, <3>1
    <3> HIDE DEF Q
    <3> QED
      BY <1>5, <3>2
  <2> QED
    BY <1>1, <2>1, <2>2, StoreAssumption
<1>8. N(z) \subseteq N(x)
  <2>1. CASE Before(z, x)
    <3>1. N(x) \subseteq N(z)
      BY <1>5, <2>1, BeforeOrders
    <3>2. Cardinality(N(z)) <= Cardinality(N(x))
      <4>1. x \in Q
        OBVIOUS
      <4> HIDE DEF Q, N
      <4> QED
        BY <1>5, <4>1
    <3> HIDE DEF N
    <3>3. Cardinality(N(x)) <= Cardinality(N(z)) /\ (Cardinality(N(x)) = Cardinality(N(z)) => N(x) = N(z))
      BY <1>1, <3>1, FS_Subset
    <3> QED
      BY <1>1, <3>2, <3>3
  <2>2. CASE z = x
    BY <2>2
  <2>3. CASE Before(x, z)
    BY <1>5, <2>3, BeforeOrders
  <2> QED
    BY <1>5, <2>1, <2>2, <2>3, BeforeOrders
<1> QED
  BY <1>5, <1>7, <1>8

(* What is old stays old when old files are deleted.                       *)
LEMMA OldStaysOld ==
    ASSUME NEW D, IsFiniteSet(D), D \subseteq Name, NEW fs \in SUBSET Name,
           \A f \in fs : Cardinality({g \in D : Before(f, g)}) >= BackupKeep,
           NEW x \in Name, Cardinality({g \in D : Before(x, g)}) >= BackupKeep
    PROVE  Cardinality({g \in D \ fs : Before(x, g)}) >= BackupKeep
<1> DEFINE N(z) == {g \in D : Before(z, g)}
           R == {g \in D \ fs : Before(x, g)}
<1>1. PICK z \in Name : /\ N(z) \subseteq N(x) /\ Cardinality(N(z)) >= BackupKeep
                        /\ \A y \in N(z) : Cardinality(N(y)) < BackupKeep
  BY NewestOfNewer
<1>2. \A y : Cardinality(N(y)) \in Nat /\ IsFiniteSet(N(y))
  BY FS_Subset, FS_CardinalityType
<1>3. N(z) \cap fs = {}
  <2>1. ASSUME NEW y \in N(z), y \in fs PROVE FALSE
    <3>1. Cardinality(N(y)) >= BackupKeep
      BY <2>1
    <3> HIDE DEF N
    <3> QED
      BY <1>1, <1>2, <2>1, <3>1, StoreAssumption
  <2> QED
    BY <2>1
<1>4. N(z) \subseteq R
  BY <1>1, <1>3
<1>5. IsFiniteSet(R)
  BY FS_Subset
<1>6. Cardinality(R) \in Nat /\ Cardinality(N(z)) <= Cardinality(R)
  <2> HIDE DEF R, N
  <2> QED
    BY <1>4, <1>5, FS_Subset, FS_CardinalityType
<1> QED
  BY <1>1, <1>2, <1>6, StoreAssumption
(* The runs under way are finitely many, and so are the names they hold.   *)
LEMMA HeldIsFinite ==
    ASSUME IsFiniteSet(DOMAIN dir)
    PROVE  IsFiniteSet(Targets) /\ IsFiniteSet(Held)
<1> DEFINE S == {q \in Savers : proc[q].pc \in Taking}
           t == [q \in S |-> proc[q].target]
<1>1. IsFiniteSet(S)
  BY StoreAssumption, FS_Subset
<1>2. t \in Surjection(S, Targets)
  BY DEF Surjection, Targets
<1>3. IsFiniteSet(Targets)
  <2> HIDE DEF S, t
  <2> QED
    BY <1>1, <1>2, FS_Surjection
<1> QED
  BY <1>3, FS_Union DEF Held

StoreTyped ==
    /\ versions \subseteq Ships /\ proc \in [StoreProcs -> ProcRow]
    /\ DOMAIN dir \subseteq Name /\ \A f \in DOMAIN dir : dir[f] \in {"partial", "whole", "empty"}
    /\ second \in 1 .. Seconds /\ lastBackup \in 0 .. Seconds

LEMMA StoreTypes ==
    /\ StoreTypeOK <=> StoreTyped
    /\ StoreTypeOK' <=> StoreTyped'
    /\ NoProc \in ProcRow /\ NoProc.pc \notin Taking /\ NoProc.doomed = {}
<1>1. NoProc \in ProcRow /\ NoProc.pc \notin Taking /\ NoProc.doomed = {}
  BY DEF NoProc, ProcRow, Taking
<1> QED
  BY <1>1 DEF StoreTypeOK, StoreTyped, ProcRow

(* With fewer names, and none of a run that was not there, there is room.  *)
LEMMA RoomStays ==
    ASSUME IsFiniteSet(DOMAIN dir), Roomy, Targets' \subseteq Targets, Held' \subseteq Held
    PROVE  Roomy'
<1> SUFFICES ASSUME NEW x \in Targets' PROVE Cardinality({g \in Held' : Before(x, g)}) < BackupKeep
  BY DEF Roomy
<1> DEFINE S == {g \in Held : Before(x, g)}
           T == {g \in Held' : Before(x, g)}
<1>1. Cardinality(S) < BackupKeep
  BY DEF Roomy
<1>2. T \subseteq S
  OBVIOUS
<1>3. IsFiniteSet(S)
  BY HeldIsFinite, FS_Subset
<1> HIDE DEF S, T
<1>4. Cardinality(T) \in Nat /\ Cardinality(S) \in Nat /\ Cardinality(T) <= Cardinality(S)
  BY <1>2, <1>3, FS_Subset, FS_CardinalityType
<1>5. Cardinality(T) < BackupKeep
  BY <1>1, <1>4, StoreAssumption
<1> QED
  BY <1>5 DEF T

(* With more files what is old stays old.                                  *)
LEMMA NewerGrows ==
    ASSUME IsFiniteSet((DOMAIN dir)'), DOMAIN dir \subseteq (DOMAIN dir)', NEW f,
           Cardinality(Newer(f)) >= BackupKeep
    PROVE  Cardinality(Newer(f)') >= BackupKeep
<1> DEFINE S == {g \in DOMAIN dir : Before(f, g)}
           T == {g \in (DOMAIN dir)' : Before(f, g)}
<1>1. S \subseteq T /\ IsFiniteSet(T)
  BY FS_Subset
<1>2. S = Newer(f) /\ T = Newer(f)'
  BY DEF Newer
<1> HIDE DEF S, T
<1>3. Cardinality(T) \in Nat /\ Cardinality(S) \in Nat /\ Cardinality(S) <= Cardinality(T)
  BY <1>1, FS_Subset, FS_CardinalityType
<1> QED
  BY <1>2, <1>3, StoreAssumption

(* The file of a run is not doomed.                                        *)
LEMMA TargetsAreNew ==
    ASSUME StoreInv, NEW p \in Savers, NEW q \in Savers, proc[p].pc \in Taking,
           NEW f \in proc[q].doomed
    PROVE  f # proc[p].target /\ ~Before(proc[p].target, f)
<1> DEFINE t == proc[p].target
           A == {g \in Held : Before(t, g)}
           N(x) == {g \in DOMAIN dir : Before(x, g)}
<1>1. t \in Targets /\ t \in Name
  BY DEF Targets, StoreInv, TargetsFit
<1>2. f \in Name
  BY StoreTypes DEF StoreInv, StoreTyped, ProcRow, StoreProcs
<1>3. IsFiniteSet(A) /\ Cardinality(A) < BackupKeep /\ Cardinality(A) \in Nat
  <2>1. IsFiniteSet(Held)
    BY HeldIsFinite DEF StoreInv
  <2>2. IsFiniteSet(A)
    BY <2>1, FS_Subset
  <2>3. Cardinality(A) < BackupKeep
    BY <1>1 DEF StoreInv, Roomy
  <2> QED
    BY <2>2, <2>3, FS_CardinalityType
<1>4. Cardinality(N(f)) >= BackupKeep
  BY DEF StoreInv, DoomedIsOld, Newer
<1>5. ASSUME f = t \/ Before(t, f) PROVE FALSE
  <2>1. N(f) \subseteq A
    BY <1>1, <1>2, <1>5, BeforeOrders, StoreTypes DEF StoreInv, StoreTyped, Held
  <2> HIDE DEF N, A
  <2>2. Cardinality(N(f)) <= Cardinality(A) /\ Cardinality(N(f)) \in Nat
    BY <1>3, <2>1, FS_Subset, FS_CardinalityType
  <2> QED
    BY <1>3, <1>4, <2>2, StoreAssumption
<1> QED
  BY <1>5

LEMMA StoreInvInit == StoreInit => StoreInv
<1> SUFFICES ASSUME StoreInit PROVE StoreInv
  OBVIOUS
<1>1. DOMAIN dir = {}
  BY DEF StoreInit
<1>2. \A p \in StoreProcs : proc[p] = NoProc
  BY DEF StoreInit
<1>3. StoreTypeOK
  BY <1>1, StoreTypes, StoreAssumption DEF StoreInit, StoreTyped
<1>4. Targets = {}
  BY <1>2, StoreTypes DEF Targets, StoreProcs
<1> QED
  BY <1>1, <1>2, <1>3, <1>4, StoreTypes, FS_EmptySet
     DEF StoreInv, Roomy, DoomedIsOld, TargetsFit, OnlySaversTake, LastBackupIsThere, StoreProcs, StoreInit

(* A process that has no run under way, or has none from here on.          *)
LEMMA QuietStep ==
    ASSUME StoreInv, NEW p \in StoreProcs, NEW k \in ProcRow, proc' = [proc EXCEPT ![p] = k],
           k.pc \notin Taking, k.doomed \subseteq proc[p].doomed,
           UNCHANGED <<dir, second, lastBackup>>, versions' \subseteq Ships
    PROVE  StoreInv'
<1>1. proc \in [StoreProcs -> ProcRow] /\ Savers \subseteq StoreProcs
  BY StoreTypes DEF StoreInv, StoreTyped, StoreProcs
<1>2. StoreTypeOK'
  BY <1>1, StoreTypes DEF StoreInv, StoreTyped
<1>3. Targets' \subseteq Targets /\ Held' \subseteq Held
  BY <1>1 DEF Targets, Held
<1>4. Roomy'
  BY <1>3, RoomStays DEF StoreInv
<1>5. DoomedIsOld'
  BY <1>1 DEF StoreInv, DoomedIsOld, Newer
<1>6. TargetsFit'
  BY <1>1 DEF StoreInv, TargetsFit
<1>7. OnlySaversTake'
  BY <1>1 DEF StoreInv, OnlySaversTake
<1>8. IsFiniteSet(DOMAIN dir)' /\ LastBackupIsThere'
  BY DEF StoreInv, LastBackupIsThere
<1> QED
  BY <1>2, <1>4, <1>5, <1>6, <1>7, <1>8 DEF StoreInv

LEMMA FailsStep ==
    ASSUME StoreInv, NEW p \in StoreProcs, Fails(p)
    PROVE  StoreInv'
<1>1. proc' = [proc EXCEPT ![p] = NoProc] /\ UNCHANGED <<versions, dir, second, lastBackup>>
  BY DEF Fails
<1>2. versions \subseteq Ships
  BY DEF StoreInv, StoreTypeOK
<1>3. NoProc.doomed \subseteq proc[p].doomed
  BY StoreTypes
<1> QED
  BY <1>1, <1>2, <1>3, StoreTypes, QuietStep

(* A run that goes on, its file where it was.                              *)
LEMMA RunStep ==
    ASSUME StoreInv, NEW p \in Savers, proc[p].pc \in Taking \ {"vacuum"}, NEW s \in Taking \ {"vacuum"},
           NEW d \in SUBSET Name, proc' = [proc EXCEPT ![p] = [proc[p] EXCEPT !.pc = s, !.doomed = d]],
           \A f \in d : Cardinality(Newer(f)) >= BackupKeep,
           DOMAIN dir' = DOMAIN dir, \A f \in DOMAIN dir \ {proc[p].target} : dir'[f] = dir[f],
           dir'[proc[p].target] = IF s = "copy" THEN dir[proc[p].target] ELSE "whole",
           UNCHANGED <<versions, second>>, lastBackup' \in {lastBackup, proc[p].target.at},
           LastBackupIsThere'
    PROVE  StoreInv'
<1> DEFINE k == [proc[p] EXCEPT !.pc = s, !.doomed = d]
<1>1. proc \in [StoreProcs -> ProcRow] /\ Savers \subseteq StoreProcs /\ proc[p].target \in Name
  BY StoreTypes DEF StoreInv, StoreTyped, StoreProcs, TargetsFit
<1>2. k \in ProcRow
  BY <1>1 DEF ProcRow
<1>3. k.pc = s /\ k.doomed = d /\ k.target = proc[p].target
  BY <1>1 DEF ProcRow
<1> HIDE DEF k
<1>4. proc' = [proc EXCEPT ![p] = k]
  BY DEF k
<1>5. lastBackup' \in 0 .. Seconds
  BY <1>1, StoreTypes, StoreAssumption DEF StoreInv, StoreTyped, Name
<1>6. proc[p].target \in DOMAIN dir
  BY DEF StoreInv, TargetsFit
<1>7. StoreTypeOK'
  BY <1>1, <1>2, <1>4, <1>5, StoreTypes DEF StoreInv, StoreTyped
<1>8. Targets' = Targets
  BY <1>1, <1>3, <1>4 DEF Targets
<1>9. Roomy'
  BY <1>8, RoomStays DEF StoreInv, Held
<1>10. DoomedIsOld'
  BY <1>1, <1>3, <1>4 DEF StoreInv, DoomedIsOld, Newer
<1>11. TargetsFit'
  BY <1>1, <1>3, <1>4, <1>6 DEF StoreInv, TargetsFit
<1>12. OnlySaversTake'
  BY <1>1, <1>4 DEF StoreInv, OnlySaversTake
<1>13. IsFiniteSet(DOMAIN dir)'
  BY DEF StoreInv
<1> QED
  BY <1>7, <1>9, <1>10, <1>11, <1>12, <1>13 DEF StoreInv
LEMMA StoreInvStep == StoreInv /\ [StoreNext]_storeVars => StoreInv'
<1> SUFFICES ASSUME StoreInv, [StoreNext]_storeVars PROVE StoreInv'
  OBVIOUS
<1>1. StoreTyped /\ Savers \subseteq StoreProcs
  BY StoreTypes DEF StoreInv, StoreProcs
<1>2. CASE UNCHANGED storeVars \/ SecondPasses
  <2>1. StoreTypeOK'
    BY <1>1, <1>2, StoreTypes, StoreAssumption DEF StoreTyped, storeVars, SecondPasses
  <2>2. UNCHANGED <<versions, proc, dir, lastBackup>>
    BY <1>2 DEF storeVars, SecondPasses
  <2>3. Roomy'
    BY <2>2, RoomStays DEF StoreInv, Targets, Held
  <2>4. DoomedIsOld'
    BY <2>2 DEF StoreInv, DoomedIsOld, Newer
  <2>5. TargetsFit' /\ OnlySaversTake' /\ LastBackupIsThere' /\ IsFiniteSet(DOMAIN dir)'
    BY <2>2 DEF StoreInv, TargetsFit, OnlySaversTake, LastBackupIsThere
  <2> QED
    BY <2>1, <2>3, <2>4, <2>5 DEF StoreInv
<1>3. ASSUME NEW p \in StoreProcs, OpenStore(p) PROVE StoreInv'
  <2> DEFINE k == [proc[p] EXCEPT !.pc = "open"]
  <2>1. k \in ProcRow /\ k.pc \notin Taking /\ k.doomed = proc[p].doomed
    BY <1>1 DEF StoreTyped, ProcRow, Taking
  <2>2. proc' = [proc EXCEPT ![p] = k]
    BY <1>1, <1>3 DEF OpenStore, Continues, StoreTyped
  <2> HIDE DEF k
  <2> QED
    BY <1>1, <1>3, <2>1, <2>2, QuietStep DEF OpenStore, StoreTyped
<1>4. ASSUME NEW p \in StoreProcs, AppliedVersions(p) PROVE StoreInv'
  <2> DEFINE k == [proc[p] EXCEPT !.pc = "migrate", !.applied = versions]
  <2>1. k \in ProcRow /\ k.pc \notin Taking /\ k.doomed = proc[p].doomed
    BY <1>1 DEF StoreTyped, ProcRow, Taking
  <2>2. proc' = [proc EXCEPT ![p] = k]
    BY <1>1, <1>4 DEF AppliedVersions, StoreTyped
  <2> HIDE DEF k
  <2> QED
    BY <1>1, <1>4, <2>1, <2>2, QuietStep DEF AppliedVersions, StoreTyped
<1>5. ASSUME NEW p \in StoreProcs, ApplyMigration(p) \/ Migrated(p) PROVE StoreInv'
  <2> DEFINE k == [proc[p] EXCEPT !.pc = "ready"]
  <2>1. k \in ProcRow /\ k.pc \notin Taking /\ k.doomed = proc[p].doomed
    BY <1>1 DEF StoreTyped, ProcRow, Taking
  <2>2. CASE Continues(p, "ready") /\ versions' \subseteq Ships /\ UNCHANGED <<dir, second, lastBackup>>
    <3>1. proc' = [proc EXCEPT ![p] = k]
      BY <1>1, <2>2 DEF Continues, StoreTyped
    <3> HIDE DEF k
    <3> QED
      BY <2>1, <2>2, <3>1, QuietStep
  <2>3. CASE Fails(p)
    BY <2>3, FailsStep
  <2> QED
    BY <1>1, <1>5, <2>2, <2>3 DEF ApplyMigration, Migrated, Migrate, StoreTyped
<1>6. ASSUME NEW p \in StoreProcs, ProcDies(p) PROVE StoreInv'
  BY <1>6, FailsStep DEF ProcDies
<1>7. ASSUME NEW p \in Savers, FreeBackupPath(p) PROVE StoreInv'
  <2>1. PICK f \in Name :
          /\ NotCrowded(f)
          /\ proc' = [proc EXCEPT ![p].pc = "vacuum", ![p].target = f]
    BY <1>7 DEF FreeBackupPath
  <2>2. UNCHANGED <<versions, dir, second, lastBackup>> /\ proc[p].pc = "ready"
    BY <1>7 DEF FreeBackupPath, At
  <2> DEFINE k == [proc[p] EXCEPT !.pc = "vacuum", !.target = f]
  <2>3. k \in ProcRow /\ k.pc = "vacuum" /\ k.target = f /\ k.doomed = proc[p].doomed
    BY <1>1 DEF StoreTyped, ProcRow, Taking
  <2>4. proc' = [proc EXCEPT ![p] = k]
    BY <1>1, <2>1 DEF StoreTyped
  <2> HIDE DEF k
  <2>5. StoreTypeOK'
    BY <1>1, <2>2, <2>3, <2>4, StoreTypes DEF StoreTyped
  <2>6. Targets' = Targets \cup {f}
    BY <1>1, <2>2, <2>3, <2>4 DEF Targets, StoreTyped, Taking
  <2>7. Held' = Held \cup {f}
    BY <2>2, <2>6 DEF Held
  <2>8. Roomy'
    BY <2>1, <2>6, <2>7 DEF Roomy, NotCrowded, Before
  <2>9. DoomedIsOld'
    BY <1>1, <2>2, <2>3, <2>4 DEF StoreInv, DoomedIsOld, Newer, StoreTyped
  <2>10. TargetsFit'
    BY <1>1, <2>2, <2>3, <2>4 DEF StoreInv, TargetsFit, StoreTyped
  <2>11. OnlySaversTake'
    BY <1>1, <2>4 DEF StoreInv, OnlySaversTake, StoreTyped
  <2> QED
    BY <2>2, <2>5, <2>8, <2>9, <2>10, <2>11 DEF StoreInv, LastBackupIsThere
<1>8. ASSUME NEW p \in Savers, VacuumInto(p) PROVE StoreInv'
  <2> DEFINE t == proc[p].target
             k == [proc[p] EXCEPT !.pc = "copy"]
  <2>1. CASE Fails(p)
    BY <1>1, <2>1, FailsStep
  <2>2. CASE /\ t \notin DOMAIN dir /\ Put(t, "partial") /\ Continues(p, "copy")
             /\ UNCHANGED <<versions, second, lastBackup>>
    <3>1. proc[p].pc = "vacuum" /\ t \in Name /\ t \in Targets
      BY <1>8 DEF VacuumInto, At, StoreInv, TargetsFit, Taking, Targets
    <3>2. k \in ProcRow /\ k.pc = "copy" /\ k.target = t /\ k.doomed = proc[p].doomed
      BY <1>1 DEF StoreTyped, ProcRow, Taking
    <3>3. proc' = [proc EXCEPT ![p] = k]
      BY <1>1, <2>2 DEF Continues, StoreTyped
    <3>4. DOMAIN dir' = DOMAIN dir \cup {t} /\ dir'[t] = "partial" /\ \A f \in DOMAIN dir : dir'[f] = dir[f]
      BY <2>2 DEF Put
    <3> HIDE DEF k
    <3>5. StoreTypeOK'
      BY <1>1, <2>2, <3>1, <3>2, <3>3, <3>4, StoreTypes DEF StoreTyped
    <3>6. Targets' = Targets
      BY <1>1, <3>1, <3>2, <3>3 DEF Targets, StoreTyped, Taking
    <3>7. Held' = Held
      BY <3>1, <3>4, <3>6 DEF Held
    <3>8. Roomy'
      BY <3>6, <3>7, RoomStays DEF StoreInv
    <3>9. IsFiniteSet(DOMAIN dir)'
      BY <3>4, FS_AddElement DEF StoreInv
    <3>10. DoomedIsOld'
      BY <1>1, <3>2, <3>3, <3>4, <3>9, NewerGrows DEF StoreInv, DoomedIsOld, StoreTyped
    <3>11. TargetsFit'
      BY <1>1, <2>2, <3>1, <3>2, <3>3, <3>4 DEF StoreInv, TargetsFit, StoreTyped, Taking
    <3>12. OnlySaversTake'
      BY <1>1, <3>3 DEF StoreInv, OnlySaversTake, StoreTyped
    <3>13. LastBackupIsThere'
      BY <2>2, <3>4 DEF StoreInv, LastBackupIsThere
    <3> QED
      BY <3>5, <3>8, <3>9, <3>10, <3>11, <3>12, <3>13 DEF StoreInv
  <2> QED
    BY <1>8, <2>1, <2>2 DEF VacuumInto
<1>9. ASSUME NEW p \in Savers, NEW s \in Taking \ {"vacuum", "copy"}, proc[p].pc \in Taking \ {"vacuum"},
             proc[p].pc # "copy" \/ s = "chmod", Continues(p, s), UNCHANGED <<versions, second>>,
             dir' = dir \/ Put(proc[p].target, "whole"),
             dir' = dir => dir[proc[p].target] = "whole",
             lastBackup' \in {lastBackup, proc[p].target.at},
             lastBackup' # lastBackup => dir[proc[p].target] = "whole"
      PROVE  StoreInv'
  <2> DEFINE t == proc[p].target
             d == proc[p].doomed
  <2>1. t \in DOMAIN dir
    BY <1>9 DEF StoreInv, TargetsFit
  <2>2. DOMAIN dir' = DOMAIN dir /\ dir'[t] = "whole" /\ \A f \in DOMAIN dir \ {t} : dir'[f] = dir[f]
    BY <1>9, <2>1 DEF Put
  <2>3. d \in SUBSET Name /\ \A f \in d : Cardinality(Newer(f)) >= BackupKeep
    BY <1>1 DEF StoreTyped, ProcRow, StoreInv, DoomedIsOld
  <2>4. proc' = [proc EXCEPT ![p] = [proc[p] EXCEPT !.pc = s, !.doomed = d]]
    <3>1. [proc[p] EXCEPT !.pc = s, !.doomed = d] = [proc[p] EXCEPT !.pc = s]
      BY <1>1 DEF StoreTyped, ProcRow
    <3> QED
      BY <1>1, <1>9, <3>1 DEF Continues, StoreTyped
  <2>5. LastBackupIsThere'
    <3>1. t.at \in Nat
      BY <1>9, StoreAssumption DEF StoreInv, TargetsFit, Name
    <3>2. lastBackup' # lastBackup => lastBackup' = t.at
      BY <1>9
    <3>3. CASE lastBackup' # lastBackup
      BY <2>1, <2>2, <3>1, <3>2, <3>3 DEF LastBackupIsThere
    <3>4. CASE lastBackup' = lastBackup
      BY <2>1, <2>2, <3>4 DEF StoreInv, LastBackupIsThere
    <3> QED
      BY <3>3, <3>4
  <2> HIDE DEF t, d
  <2>6. d \in SUBSET Name /\ s # "copy" /\ s \in Taking \ {"vacuum"}
    BY <1>9, <2>3
  <2> QED
    BY <1>9, <2>2, <2>3, <2>4, <2>5, <2>6, RunStep DEF t
<1>10. ASSUME NEW p \in Savers, VacuumEnds(p) PROVE StoreInv'
  <2>1. proc[p].pc = "copy" /\ proc[p].target \in DOMAIN dir
    BY <1>10 DEF VacuumEnds, At, StoreInv, TargetsFit, Taking
  <2>2. CASE Fails(p)
    BY <1>1, <2>2, FailsStep
  <2>3. CASE ~Fails(p)
    <3>1. Put(proc[p].target, "whole") /\ Continues(p, "chmod") /\ UNCHANGED <<versions, second, lastBackup>>
      BY <1>10, <2>1, <2>3 DEF VacuumEnds
    <3>2. dir' = dir => dir[proc[p].target] = "whole"
      BY <2>1, <3>1 DEF Put
    <3> QED
      BY <1>9, <2>1, <3>1, <3>2 DEF Taking
  <2> QED
    BY <2>2, <2>3
<1>11. ASSUME NEW p \in Savers, Chmod(p) PROVE StoreInv'
  <2>1. proc[p].pc = "chmod" /\ dir[proc[p].target] = "whole"
    BY <1>11 DEF Chmod, At, StoreInv, TargetsFit, Taking
  <2>2. CASE Fails(p)
    BY <1>1, <2>2, FailsStep
  <2>3. CASE ~Fails(p)
    BY <1>9, <1>11, <2>1, <2>3 DEF Chmod, Taking
  <2> QED
    BY <2>2, <2>3
<1>12. ASSUME NEW p \in Savers, VerifyBackup(p) PROVE StoreInv'
  <2>1. proc[p].pc = "verify" /\ dir[proc[p].target] = "whole" /\ proc[p].target \in DOMAIN dir
    BY <1>12 DEF VerifyBackup, At, StoreInv, TargetsFit, Taking
  <2>2. Put(proc[p].target, "whole") /\ Continues(p, "record") /\ UNCHANGED <<versions, second, lastBackup>>
    BY <1>12, <2>1 DEF VerifyBackup, IntegrityCheck
  <2> QED
    BY <1>9, <2>1, <2>2 DEF Taking
<1>13. ASSUME NEW p \in Savers, RecordBackup(p) PROVE StoreInv'
  <2>1. proc[p].pc = "record" /\ dir[proc[p].target] = "whole"
    BY <1>13 DEF RecordBackup, At, StoreInv, TargetsFit, Taking
  <2> QED
    BY <1>9, <1>13, <2>1 DEF RecordBackup, Taking
<1>14. ASSUME NEW p \in Savers, PruneBackups(p) PROVE StoreInv'
  <2> DEFINE d == {f \in DOMAIN dir : Cardinality(Newer(f)) >= BackupKeep}
  <2>1. proc[p].pc = "prune" /\ dir[proc[p].target] = "whole"
    BY <1>14 DEF PruneBackups, At, StoreInv, TargetsFit, Taking
  <2>2. UNCHANGED <<versions, dir, second, lastBackup>>
    BY <1>14 DEF PruneBackups
  <2>3. proc' = [proc EXCEPT ![p] = [proc[p] EXCEPT !.pc = "remove", !.doomed = d]]
    BY <1>1, <1>14 DEF PruneBackups, StoreTyped
  <2>4. d \in SUBSET Name /\ \A f \in d : Cardinality(Newer(f)) >= BackupKeep
    BY <1>1 DEF StoreTyped
  <2>5. LastBackupIsThere'
    BY <2>2 DEF StoreInv, LastBackupIsThere
  <2>6. "remove" \in Taking \ {"vacuum"} /\ proc[p].pc \in Taking \ {"vacuum"}
    BY <2>1 DEF Taking
  <2> HIDE DEF d
  <2> QED
    BY <2>1, <2>2, <2>3, <2>4, <2>5, <2>6, RunStep
<1>15. ASSUME NEW p \in Savers, RemoveDoomed(p) PROVE StoreInv'
  <2>1. PICK fs \in SUBSET proc[p].doomed : dir' = Dropped(fs)
    BY <1>15 DEF RemoveDoomed
  <2>2. /\ proc[p].pc = "remove" /\ proc' = [proc EXCEPT ![p] = NoProc]
        /\ UNCHANGED <<versions, second, lastBackup>>
    BY <1>15 DEF RemoveDoomed, At
  <2>3. DOMAIN dir' = DOMAIN dir \ fs /\ \A f \in DOMAIN dir \ fs : dir'[f] = dir[f]
    BY <2>1 DEF Dropped
  <2>4. fs \subseteq Name /\ IsFiniteSet(DOMAIN dir) /\ DOMAIN dir \subseteq Name
    BY <1>1 DEF StoreTyped, ProcRow, StoreInv
  <2>5. StoreTypeOK'
    BY <1>1, <2>2, <2>3, StoreTypes DEF StoreTyped
  <2>6. IsFiniteSet(DOMAIN dir)'
    BY <2>3, <2>4, FS_Subset
  <2>7. Targets' \subseteq Targets /\ Held' \subseteq Held
    BY <1>1, <2>2, <2>3, StoreTypes DEF Targets, Held, StoreTyped
  <2>8. Roomy'
    BY <2>4, <2>7, RoomStays DEF StoreInv
  <2>9. DoomedIsOld'
    <3> SUFFICES ASSUME NEW q \in Savers, NEW x \in proc'[q].doomed
                 PROVE  Cardinality(Newer(x)') >= BackupKeep
      BY DEF DoomedIsOld
    <3>1. x \in proc[q].doomed /\ x \in Name
      BY <1>1, <2>2, StoreTypes DEF StoreTyped, ProcRow
    <3>2. \A f \in fs : Cardinality({g \in DOMAIN dir : Before(f, g)}) >= BackupKeep
      BY DEF StoreInv, DoomedIsOld, Newer
    <3>3. Cardinality({g \in DOMAIN dir : Before(x, g)}) >= BackupKeep
      BY <3>1 DEF StoreInv, DoomedIsOld, Newer
    <3>4. Cardinality({g \in DOMAIN dir \ fs : Before(x, g)}) >= BackupKeep
      BY <2>4, <3>1, <3>2, <3>3, OldStaysOld
    <3>5. Newer(x)' = {g \in DOMAIN dir \ fs : Before(x, g)}
      BY <2>3 DEF Newer
    <3> QED
      BY <3>4, <3>5
  <2>10. TargetsFit'
    <3>1. \A q \in Savers : proc[q].pc \in Taking => proc[q].target \notin fs
      BY <2>1, TargetsAreNew
    <3> QED
      BY <1>1, <2>2, <2>3, <3>1, StoreTypes DEF StoreInv, TargetsFit, StoreTyped
  <2>11. OnlySaversTake'
    BY <1>1, <2>2 DEF StoreInv, OnlySaversTake, StoreTyped
  <2>12. LastBackupIsThere'
    <3> SUFFICES ASSUME lastBackup # 0
                 PROVE  \E f \in DOMAIN dir' : dir'[f] = "whole" /\ f.at >= lastBackup
      BY <2>2 DEF LastBackupIsThere
    <3> DEFINE t == proc[p].target
    <3>1. PICK f \in DOMAIN dir : dir[f] = "whole" /\ f.at >= lastBackup
      BY DEF StoreInv, LastBackupIsThere
    <3>2. t \in DOMAIN dir /\ dir[t] = "whole" /\ t \in Name /\ proc[p].pc \in Taking
      BY <2>2 DEF StoreInv, TargetsFit, Taking
    <3>3. t \notin fs /\ \A g \in fs : ~Before(t, g)
      BY <3>2, TargetsAreNew
    <3>4. f.at \in Nat /\ t.at \in Nat /\ lastBackup \in Nat
      BY <1>1, <2>4, <3>1, <3>2, StoreAssumption DEF Name, StoreTyped
    <3>5. CASE t.at >= lastBackup
      BY <2>3, <3>2, <3>3, <3>5
    <3>6. CASE ~(t.at >= lastBackup)
      <4>1. Before(t, f)
        BY <3>1, <3>4, <3>6 DEF Before
      <4> QED
        BY <2>3, <3>1, <3>3, <4>1
    <3> QED
      BY <3>5, <3>6
  <2> QED
    BY <2>5, <2>6, <2>8, <2>9, <2>10, <2>11, <2>12 DEF StoreInv
<1> QED
  BY <1>2, <1>3, <1>4, <1>5, <1>6, <1>7, <1>8, <1>10, <1>11, <1>12, <1>13, <1>14, <1>15
     DEF StoreNext, Backup

(* However many processes take backups and die over them, and however many *)
(* of the partial files they leave are pruned: the runs keep their types,  *)
(* and two of them never write the same file (freeBackupPath, VACUUM INTO).*)
THEOREM StoreTypeOKHolds == StoreSpec => [](StoreTypeOK /\ TargetsFit)
<1>1. StoreInv => StoreTypeOK /\ TargetsFit
  BY DEF StoreInv
<1> QED
  BY StoreInvInit, StoreInvStep, <1>1, PTL DEF StoreSpec

(* Once a backup has been recorded, a whole one that is not older is in    *)
(* the directory at every moment, as long as not BackupKeep others begin   *)
(* while one is being taken (Backup, pruneBackups).                        *)
THEOREM LastBackupIsThereHolds == StoreSpec => []LastBackupIsThere
<1>1. StoreInv => LastBackupIsThere
  BY DEF StoreInv
<1> QED
  BY StoreInvInit, StoreInvStep, <1>1, PTL DEF StoreSpec
=============================================================================
