----------------------------- MODULE HiLinkClient -----------------------------
(***************************************************************************)
(* The HiLink driver (internal/device/hilink): one client for each dongle, *)
(* which its callers - the poll, a rotation, a task, a page - share with   *)
(* its one session.  The mutex of the session covers one look at it, never *)
(* a call: between two steps of one caller the others take their own.      *)
(***************************************************************************)
EXTENDS SimDongle

CONSTANTS
    Callers,        \* goroutines that share the client
    MaxAttempts,    \* attempts of a call
    BatchSize       \* TokenBatchSize

ASSUME ClientAssumption == {MaxAttempts, BatchSize} \subseteq Nat \ {0}

VARIABLES
    sess,       \* the session of the client
    call,       \* the call of each caller
    closed      \* the registry is closed

clientVars == <<SimVars, sess, call, closed>>

Empty == [cookie |-> "none", tokens |-> <<>>]
NoCall == [pc |-> "idle", kind |-> "status", attempt |-> 0, cookie |-> "none", token |-> "none",
           reply |-> "none", carried |-> 0, res |-> "none"]

ClientTypeOK ==
    /\ dongle \in DongleState /\ {faulty, closed} \subseteq BOOLEAN
    /\ sess \in [cookie: Known \cup {"none"}, tokens: Seq(Known)] /\ Len(sess.tokens) <= BatchSize
    /\ call \in [Callers ->
        [pc: {"idle", "ensure", "handshake", "install", "attempt", "serve", "reply", "retry"},
         kind: Reads \cup Writes, attempt: 0 .. MaxAttempts - 1,
         cookie: Known \cup {"none"}, token: Known \cup {"none"},
         reply: Known \cup {"none", "ok", "token", "refused", "unreachable"},
         carried: Nat, res: {"none", "ok", "token", "refused", "unreachable", "canceled"}]]

ClientInit == SimInit /\ sess = Empty /\ call = [c \in Callers |-> NoCall] /\ closed = FALSE

Has(c, s) == call[c].pc = s
Goes(c, s) == call' = [call EXCEPT ![c].pc = s]
\* Only the result of a write is kept.
Ends(c, r) == call' = [call EXCEPT ![c] = IF @.kind \in Reads THEN NoCall
                                          ELSE [NoCall EXCEPT !.kind = "setting", !.carried = call[c].carried, !.res = r]]

\* Every cookie and token handed out so far is none the dongle knows.
Old(x) == IF x = "good" THEN "stale" ELSE x
OldCall(k) == [k EXCEPT !.cookie = Old(@), !.token = Old(@), !.reply = Old(@)]
OldSession == [cookie |-> Old(sess.cookie), tokens |-> [i \in DOMAIN sess.tokens |-> Old(sess.tokens[i])]]
-----------------------------------------------------------------------------
\* Registry.ForAddr and a method of the client; a closed registry has none.
Begins(c, k) ==
    /\ Has(c, "idle")
    /\ call' = [call EXCEPT ![c] = IF closed THEN NoCall
                                   ELSE [NoCall EXCEPT !.kind = k, !.pc = "ensure"]]
    /\ UNCHANGED <<SimVars, sess, closed>>

\* session.snapshot.
Snapshot == sess.cookie # "none" /\ sess.tokens # <<>>

\* Client.ensureSession.
EnsureSession(c) ==
    /\ Has(c, "ensure") /\ Goes(c, IF Snapshot THEN "attempt" ELSE "handshake")
    /\ UNCHANGED <<SimVars, sess, closed>>

\* The dongle's part of Client.handshake, tokenStore.handshake: a new session
\* takes the place of the one before.
Handshake(c) ==
    /\ Has(c, "handshake") /\ UNCHANGED closed
    /\ \/ /\ dongle' = [dongle EXCEPT !.session = TRUE] /\ sess' = OldSession
          /\ call' = [[k \in Callers |-> OldCall(call[k])] EXCEPT ![c].pc = "install", ![c].reply = "good"]
          /\ UNCHANGED faulty
       \/ \E f \in FaultVerdicts : Ends(c, f) /\ UNCHANGED <<SimVars, sess>>

\* session.install.
Install(c) ==
    /\ Has(c, "install")
    /\ sess' = [cookie |-> call[c].reply, tokens |-> [i \in 1 .. BatchSize |-> call[c].reply]]
    /\ call' = [call EXCEPT ![c].pc = "attempt", ![c].reply = "none"]
    /\ UNCHANGED <<SimVars, closed>>

\* session.take for a POST; a GET takes a look, and neither finds anything in
\* a session another caller has reset meanwhile: ErrTokenInvalid.
TakeToken(c) ==
    /\ Has(c, "attempt") /\ UNCHANGED <<SimVars, closed>>
    /\ IF Snapshot
       THEN /\ call' = [call EXCEPT ![c].pc = "serve", ![c].cookie = sess.cookie, ![c].token = Head(sess.tokens)]
            /\ sess' = IF call[c].kind \in Writes THEN [sess EXCEPT !.tokens = Tail(@)] ELSE sess
       ELSE Goes(c, "retry") /\ UNCHANGED sess

\* The request at the dongle, SimDevice.ServeHTTP.
Serve(c) ==
    /\ Has(c, "serve") /\ UNCHANGED <<faulty, closed>>
    /\ \/ LET k == call[c]
              v == Verdict(dongle, k.kind, k.cookie, k.token)
              done == v = "ok" /\ k.kind \in Writes
              forgets == done /\ k.kind = "reboot"
              answer == IF done /\ ~Answers(k.kind) THEN "unreachable" ELSE v
          IN  /\ dongle' = IF done THEN Post(dongle, k.kind) ELSE dongle
              /\ sess' = IF forgets THEN OldSession ELSE sess
              /\ call' = [[x \in Callers |-> IF forgets THEN OldCall(call[x]) ELSE call[x]]
                             EXCEPT ![c].pc = "reply", ![c].reply = answer,
                                    ![c].carried = IF done THEN @ + 1 ELSE @]
       \/ \E f \in FaultVerdicts : call' = [call EXCEPT ![c].pc = "reply", ![c].reply = f] /\ UNCHANGED <<dongle, sess>>

\* session.absorb: the tokens of an answer go behind the others, and the
\* oldest go when there are too many.
Absorb(s, t) ==
    LET all == s.tokens \o t
    IN  [s EXCEPT !.tokens = SubSeq(all, IF Len(all) > BatchSize THEN Len(all) - BatchSize + 1 ELSE 1, Len(all))]

\* Every error is worth another attempt.
Bug_Again(r) == r \in {"token", "unreachable"}

\* IsTokenError.
Again(r) == r = "token"

\* The answer in Client.attempt: an answer that is lost is a dongle that cannot
\* be reached, and the answer to a write may bring a token of
\* the session it belongs to.
Reply(c) ==
    /\ Has(c, "reply") /\ UNCHANGED <<SimVars, closed>>
    /\ \E r \in {call[c].reply} \cup (IF Faults("lost") THEN {"unreachable"} ELSE {}) :
        /\ IF Again(r) THEN call' = [call EXCEPT ![c].pc = "retry", ![c].reply = "none"] ELSE Ends(c, r)
        /\ sess' \in {sess} \cup (IF r = "ok" /\ call[c].kind \in Writes
                                  THEN {Absorb(sess, <<call[c].cookie>>)} ELSE {})

\* Client.do between two attempts: a call that is not the last sleeps, resets
\* the session, whoever has installed it, and starts over; the context may end
\* first.
Retry(c) ==
    /\ Has(c, "retry") /\ UNCHANGED <<SimVars, closed>>
    /\ \/ /\ call[c].attempt + 1 < MaxAttempts /\ sess' = Empty
          /\ call' = [call EXCEPT ![c].pc = "ensure", ![c].attempt = @ + 1, ![c].cookie = "none", ![c].token = "none"]
       \/ /\ call[c].attempt + 1 = MaxAttempts /\ Ends(c, "token") /\ UNCHANGED sess
       \/ /\ call[c].attempt + 1 < MaxAttempts /\ Ends(c, "canceled") /\ UNCHANGED sess

\* Registry.Close: a call under way keeps its client.
RegistryClose == ~closed /\ closed' = TRUE /\ UNCHANGED <<SimVars, sess, call>>

\* tokenStore.expireAll: the tokens are old, the cookie is not.
TokensExpire ==
    /\ Faults("token_expire")
    /\ sess' = [sess EXCEPT !.tokens = OldSession.tokens]
    /\ call' = [c \in Callers |-> [call[c] EXCEPT !.token = Old(@)]]
    /\ UNCHANGED <<SimVars, closed>>

Works(c) ==
    \/ EnsureSession(c) \/ Handshake(c) \/ Install(c) \/ TakeToken(c)
    \/ Serve(c) \/ Reply(c) \/ Retry(c)

ClientNext ==
    \/ \E c \in Callers : Works(c) \/ \E k \in Reads \cup Writes : Begins(c, k)
    \/ RegistryClose \/ TokensExpire
    \/ FaultsEnd /\ UNCHANGED <<sess, call, closed>>

ClientFairness == \A c \in Callers : WF_clientVars(Works(c))
ClientSpec == ClientInit /\ [][ClientNext]_clientVars /\ ClientFairness
-----------------------------------------------------------------------------
(* What a call promises to its caller.                                     *)

\* A write is carried out once when the call succeeds, not at all when it is
\* refused or given up for the session, and never twice, whatever the other
\* callers do with the session and however the dongle answers (Client.do).
OncePerCall ==
    \A c \in Callers :
        LET k == call[c]
        IN  k.kind \in Writes =>
              /\ k.carried <= 1
              /\ k.res = "ok" => k.carried = 1
              /\ k.res \in {"token", "refused", "canceled"} => k.carried = 0
=============================================================================
