----------------------------- MODULE ProxyConfig -----------------------------
(***************************************************************************)
(* The 3proxy configuration of a slot: which specifications are rendered   *)
(* at all, what the file says, what Verify asks of it, and what the        *)
(* supervisor and the probes can tell from it (internal/proxysup/spec.go   *)
(* and render.go, SpecFor of internal/reconcile/world.go).                 *)
(*                                                                         *)
(* A file is a sequence of lines [cmd, arg]; globals that never depend on  *)
(* the proxy (timeouts, log, nscache, maxconn) are left out.  A user is a  *)
(* pair of a name and a password, a network is a model value.              *)
(***************************************************************************)
EXTENDS Naturals, Sequences, FiniteSets, SequencesExt

CONSTANTS
    Users,      \* credentials a proxy may have over its life
    OddUsers,   \* those whose name or password 3proxy is never given
    Nets,       \* networks an admin may put on the whitelist
    SixNets,    \* those that are IPv6
    OwnNets     \* those that contain the address of the node itself

ASSUME ConfigAssumption ==
    /\ IsFiniteSet(Users) /\ Users # {} /\ IsFiniteSet(Nets) /\ OddUsers \subseteq Users
    /\ SixNets \subseteq Nets /\ OwnNets \subseteq Nets

AuthModes        == {"userpass", "iplist", "both"}
UsesUserPass(m)  == m \in {"userpass", "both"}
UsesIPList(m)    == m \in {"iplist", "both"}

\* What a proxies row and its proxy_auth_ips say about access.
Access == [mode : AuthModes, user : Users, nets : SUBSET Nets]
Specs  == [mode : AuthModes, users : SUBSET Users, nets : SUBSET Nets]

\* SpecFor passes the user and the networks of the row in every mode.
SpecFor(a) == [mode |-> a.mode, users |-> {a.user}, nets |-> a.nets]

\* ValidUsername and ValidPassword: the handlers accept any password, the
\* specification only one of the generated length and alphabet.
Plain(u) == u \notin OddUsers

\* Spec.validateUsers and Spec.validateAuthIPs.
UsersValid(sp) == (UsesUserPass(sp.mode) <=> sp.users # {}) /\ \A u \in sp.users : Plain(u)
NetsValid(sp)  == (UsesIPList(sp.mode) <=> sp.nets # {}) /\ sp.nets \cap SixNets = {}

\* Spec.Validate.
SpecValid(sp) == sp.mode \in AuthModes /\ UsersValid(sp) /\ NetsValid(sp)
-----------------------------------------------------------------------------
Line(c, a) == [cmd |-> c, arg |-> a]
Lines(c, args) == SetToSeq({Line(c, a) : a \in args})

AuthTypes(m) == IF UsesIPList(m) THEN {"iponly", "strong"} ELSE {"strong"}

\* A block that forgets to close itself.
Bug_ACLWithoutDeny(sp) == <<Line("flush", {})>> \o Lines("allow", sp.users) \o Lines("allow", sp.nets)

\* The access control lines before one service.
ACL(sp) ==
    <<Line("flush", {})>>
    \o (IF UsesUserPass(sp.mode) THEN Lines("allow", sp.users) ELSE <<>>)
    \o (IF UsesIPList(sp.mode) THEN Lines("allow", sp.nets) ELSE <<>>)
    \o <<Line("deny", {})>>

\* Render: globals, users, then one block per service.
Render(sp) ==
    <<Line("auth", AuthTypes(sp.mode))>> \o Lines("users", sp.users)
    \o ACL(sp) \o <<Line("proxy", {})>> \o ACL(sp) \o <<Line("socks", {})>>

Services == {"proxy", "socks"}
ArgsOf(cfg, c) == {cfg[i].arg : i \in {j \in DOMAIN cfg : cfg[j].cmd = c}}

\* Everything a service sees: the lines after the last flush before it.
BlockOf(cfg, i) ==
    LET flushes == {j \in 1 .. i : cfg[j].cmd = "flush"}
    IN  {k \in 1 .. i - 1 : \A j \in flushes : j < k}

\* verifyGlobals.
GlobalsVerify(cfg, sp) ==
    \A types \in ArgsOf(cfg, "auth") :
        "strong" \in types /\ (UsesIPList(sp.mode) <=> "iponly" \in types)

\* verifyUsers: the same users in the file and in the specification.
UsersVerify(cfg, sp) ==
    /\ UsesUserPass(sp.mode) <=> ArgsOf(cfg, "users") # {}
    /\ sp.users \subseteq ArgsOf(cfg, "users")

\* verifyACLBlocks: each service has its own flush, its allows and its deny.
BlocksVerify(cfg, sp) ==
    \A i \in {j \in DOMAIN cfg : cfg[j].cmd \in Services} :
        LET block == BlockOf(cfg, i)
            allow == {cfg[k].arg : k \in {j \in block : cfg[j].cmd = "allow"}}
            denies == {k \in block : cfg[k].cmd = "deny"}
        IN  /\ \E j \in 1 .. i : cfg[j].cmd = "flush"
            /\ \A k \in block : cfg[k].cmd \notin Services
            /\ denies # {}
            /\ \A k \in block, d \in denies : cfg[k].cmd = "allow" => k < d
            /\ UsesUserPass(sp.mode) => sp.users \subseteq allow
            /\ UsesIPList(sp.mode) => sp.nets # {} /\ sp.nets \subseteq allow

\* verifyServices: both services, once.
ServicesVerify(cfg) ==
    \A s \in Services : Cardinality({i \in DOMAIN cfg : cfg[i].cmd = s}) = 1

Verify(cfg, sp) ==
    /\ GlobalsVerify(cfg, sp) /\ UsersVerify(cfg, sp)
    /\ BlocksVerify(cfg, sp) /\ ServicesVerify(cfg)
-----------------------------------------------------------------------------
\* ConfigUsers and ConfigAuthNets.
ConfigUsers(cfg) == ArgsOf(cfg, "users")
ConfigNets(cfg)  == ArgsOf(cfg, "allow") \cap Nets

\* RevokesAccess: something the old file let in is not let in any more.
RevokesAccess(old, new) ==
    \/ ~(ConfigUsers(old) \subseteq ConfigUsers(new))
    \/ ~(ConfigNets(old) \subseteq ConfigNets(new))

-----------------------------------------------------------------------------
(* What a process that read the file does with a caller (external: 3proxy) *)
(* and what the supervisor's probes, which come from the node's own        *)
(* address, can tell from the answers.                                     *)

ServicesOf(cfg)  == {i \in DOMAIN cfg : cfg[i].cmd \in Services}
Serves(cfg, s)   == \E i \in ServicesOf(cfg) : cfg[i].cmd = s
Allowed(cfg, i)  == {cfg[k].arg : k \in {j \in BlockOf(cfg, i) : cfg[j].cmd = "allow"}}
Admits(cfg, s)   == {c \in ConfigUsers(cfg) \cup Nets :
                        \E i \in ServicesOf(cfg) : cfg[i].cmd = s /\ c \in Allowed(cfg, i)}
Grants(cfg)      == UNION {Admits(cfg, s) : s \in Services}

\* httpProxyStatus: a HEAD request of the node itself with these credentials.
HTTPProxyStatus(cfg, creds) ==
    IF ~Serves(cfg, "proxy") THEN "no answer"
    ELSE IF Admits(cfg, "proxy") \cap (OwnNets \cup creds) # {} THEN "served"
    ELSE "denied"

ProbeHTTPDenied(cfg)  == HTTPProxyStatus(cfg, {}) = "denied"
ProbeHTTPAuth(cfg, u) == HTTPProxyStatus(cfg, {u}) = "served"

\* Any answer in SOCKS5 will do.
ProbeSocksLive(cfg) == Serves(cfg, "socks")

\* The answer to the password itself is not looked at, the one to CONNECT is.
ProbeSocksAuth(cfg, u) ==
    /\ ProbeSocksLive(cfg) /\ "strong" \in UNION ArgsOf(cfg, "auth")
    /\ Admits(cfg, "socks") \cap (OwnNets \cup {u}) # {}

\* Spec.ProbeUser: the first user, if there is one.
ProbeUser(sp) == IF sp.users = {} THEN {} ELSE {CHOOSE u \in sp.users : TRUE}

\* probe: a request without credentials has to be denied, and the first user
\* of the specification, when there is one, accepted by both services.
Answers(cfg, sp) ==
    /\ ProbeHTTPDenied(cfg)
    /\ ProbeUser(sp) = {} => ProbeSocksLive(cfg)
    /\ \A u \in ProbeUser(sp) : ProbeSocksAuth(cfg, u) /\ ProbeHTTPAuth(cfg, u)
-----------------------------------------------------------------------------
(* Validate: the candidate is started in a network namespace of its own    *)
(* that has both addresses, and has to open every port in time.            *)

\* parseProcNetTCP and listeningPorts: what of the wanted is listening.
ListeningPorts(cfg, ports) == {s \in ports : Serves(cfg, s)}

\* runAndWait: as many ports as asked for, before it exits or time is up.
RunAndWait(cfg, ports, want) == Cardinality(ListeningPorts(cfg, ports)) >= want

\* validateNetns: both ports of the specification.
ValidateNetns(cfg) == RunAndWait(cfg, Services, Cardinality(Services))

NoSpec == [mode |-> "userpass", users |-> {}, nets |-> {}]
=============================================================================
