----------------------------- MODULE EgressProbe -----------------------------
(***************************************************************************)
(* One probe of the public address and one selftest (internal/rotate,      *)
(* probe.go and verify.go): the echo endpoints are asked in order, each    *)
(* with a timeout of its own, until one answers or the caller's budget is  *)
(* used up.  A rotation dials the echo from the slot's address and allows  *)
(* VerifyTimeout for all of them; the selftest goes through both services  *)
(* of the proxy and has no budget.                                         *)
(*                                                                         *)
(* Only waiting takes time.  The production endpoints are plain http, so   *)
(* neither TLS nor CONNECT through the http service is here.               *)
(***************************************************************************)
EXTENDS Naturals, Sequences, FiniteSets, FiniteSetsExt

CONSTANTS
    Echoes,         \* the endpoints in the order they are asked
    EchoTimeout,    \* for one endpoint: 10
    DialTimeout,    \* for one connection: 5
    ProbeBudget     \* what probeEgress allows for all of them: VerifyTimeout, 10

ASSUME ProbeAssumption ==
    /\ Echoes \in Seq(STRING) /\ Echoes # <<>>
    /\ {EchoTimeout, DialTimeout, ProbeBudget} \subseteq Nat \ {0}

VARIABLES
    job,        \* what is under way: a rotation's probe or a selftest
    via,        \* how the endpoint is reached now
    hop,        \* the step of once
    asked,      \* the endpoint that is asked, by its place
    spent,      \* seconds since attempt began
    began,      \* what was spent when this endpoint's turn came
    answer,     \* what each way has answered
    echoes,     \* world: what each endpoint does
    gate,       \* world: how each service of the proxy receives a caller
    creds,      \* world: the proxies row has a mode with credentials
    route       \* world: where the traffic of the slot leaves

probeWorld == <<echoes, gate, creds, route>>
probeVars  == <<job, via, hop, asked, spent, began, answer, probeWorld>>

Ways == {"source", "socks", "http"}
Conduct == {"up", "unreachable", "silent", "wrong"}

ProbeInit ==
    /\ job \in {"probe", "selftest"}
    /\ via = (IF job = "probe" THEN "source" ELSE "socks")
    /\ hop = "dial" /\ asked = 1 /\ spent = 0 /\ began = 0
    /\ answer = [w \in Ways |-> "none"]
    /\ echoes \in [1 .. Len(Echoes) -> Conduct]
    /\ gate \in [{"socks", "http"} -> {"open", "password", "closed"}]
    /\ creds \in BOOLEAN
    /\ route \in {"slot", "host"}

\* The context of the caller, and the one attempt makes for an endpoint.
Unlimited  == Len(Echoes) * EchoTimeout + 1
CallerEnds == IF via = "source" THEN ProbeBudget ELSE Unlimited
OneEnds    == Min({CallerEnds, began + EchoTimeout})

\* A dialer without a timeout of its own waits as long as the context.
Bug_DialEnds == OneEnds

\* plainDialer and sourceDialer have a timeout besides the context's.
DialEnds == Min({OneEnds, spent + DialTimeout})

Conducts(c) == echoes[asked] = c
Hop(h)   == hop' = h /\ UNCHANGED <<job, via, asked, began, answer, probeWorld>>
Fail(t)  == Hop("next") /\ spent' = t
-----------------------------------------------------------------------------
\* The connection: to the endpoint from the slot's address, or to the proxy.
Dial ==
    /\ hop = "dial"
    /\ \/ via = "source" /\ Conducts("unreachable") /\ Fail(DialEnds)
       \/ via = "source" /\ ~Conducts("unreachable") /\ Hop("read") /\ UNCHANGED spent
       \/ via # "source" /\ gate[via] = "closed" /\ Fail(spent)
       \/ via = "socks" /\ gate[via] # "closed" /\ Hop("greet") /\ UNCHANGED spent
       \/ via = "http" /\ gate[via] # "closed" /\ Hop("read") /\ UNCHANGED spent

\* socksConnect up to the credentials: a proxy that demands some the row does
\* not carry ends it; the answer to them is read and not looked at.
Greet ==
    /\ hop = "greet"
    /\ \/ gate[via] = "password" /\ ~creds /\ Fail(spent)
       \/ (gate[via] = "open" \/ creds) /\ Hop("connect") /\ UNCHANGED spent

\* CONNECT and drainSocksBound: a proxy that does not reach the endpoint says
\* so, or lets the caller wait.
SocksConnect ==
    /\ hop = "connect"
    /\ \/ Conducts("unreachable") /\ (Fail(spent) \/ Fail(OneEnds))
       \/ ~Conducts("unreachable") /\ Hop("read") /\ UNCHANGED spent

\* What the http service answers itself: a demand for credentials, or a
\* gateway error in place of an endpoint it does not reach.
Turned == via = "http" /\ ((gate[via] = "password" /\ ~creds) \/ Conducts("unreachable"))

\* readEchoPlain and ParseEgressIP.
ReadEcho ==
    /\ hop = "read"
    /\ \/ (Turned \/ Conducts("wrong")) /\ Fail(spent)
       \/ ~Turned /\ Conducts("silent") /\ Fail(OneEnds)
       \/ /\ ~Turned /\ Conducts("up")
          /\ answer' = [answer EXCEPT ![via] = route]
          /\ hop' = "answered"
          /\ UNCHANGED <<job, via, asked, spent, began, probeWorld>>

\* The loop of attempt: the context is looked at before every endpoint.
NextEcho ==
    /\ hop = "next"
    /\ IF asked < Len(Echoes) /\ spent < CallerEnds
       THEN /\ asked' = asked + 1 /\ began' = spent /\ hop' = "dial"
            /\ UNCHANGED answer
       ELSE /\ answer' = [answer EXCEPT ![via] = "failed"] /\ hop' = "answered"
            /\ UNCHANGED <<asked, began>>
    /\ UNCHANGED <<job, via, spent, probeWorld>>

\* Selftest asks the http service whatever the socks service answered.
SelftestGoesOn ==
    /\ hop = "answered" /\ job = "selftest" /\ via = "socks"
    /\ via' = "http" /\ hop' = "dial" /\ asked' = 1 /\ spent' = 0 /\ began' = 0
    /\ UNCHANGED <<job, answer, probeWorld>>

ProbeNext == \/ Dial \/ Greet \/ SocksConnect \/ ReadEcho \/ NextEcho
             \/ SelftestGoesOn

ProbeSpec == ProbeInit /\ [][ProbeNext]_probeVars
-----------------------------------------------------------------------------
\* CheckLeak: the address of the node itself means the host's uplink was used.
CheckLeak(a) == a = "host"

\* Selftest: the address is the socks service's when it has one.
Ok(w)      == answer[w] \notin {"none", "failed"}
EgressIP   == answer[IF Ok("socks") THEN "socks" ELSE "http"]
SelftestOk == Ok("socks") /\ Ok("http") /\ ~CheckLeak(EgressIP)

Over == hop = "answered" /\ ~(job = "selftest" /\ via = "socks")

(* A probe ends within its budget, as the clock of a rotation assumes; and *)
(* it comes back without an address while some endpoint works only when a  *)
(* silent endpoint or two unreachable ones were asked before: one endpoint *)
(* that is down never costs a rotation its verdict.                        *)
Working(i) == echoes[i] = "up"
Before(i, c) == {j \in 1 .. i - 1 : echoes[j] = c}
FallsBack ==
    job = "probe" /\ Over =>
        /\ spent <= ProbeBudget
        /\ answer["source"] = "failed" =>
               \A i \in DOMAIN echoes : Working(i) =>
                   Before(i, "silent") # {} \/ Cardinality(Before(i, "unreachable")) > 1

(* A selftest that finds nothing wrong has served a customer of the row    *)
(* through both services and has not left through the host.                *)
SelftestIsHonest ==
    job = "selftest" /\ Over /\ SelftestOk =>
        /\ route = "slot"
        /\ \A s \in DOMAIN gate : gate[s] = "open" \/ (gate[s] = "password" /\ creds)

(* Both reports can be relied on.                                          *)
ReportsAreTrue == FallsBack /\ SelftestIsHonest
=============================================================================
