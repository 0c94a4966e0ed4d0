------------------------------- MODULE ApiKeys -------------------------------
(***************************************************************************)
(* How a customer rotates a proxy (internal/httpapi customer_rotate.go,    *)
(* link.go and admin_keys.go, internal/auth apikey.go and middleware.go,   *)
(* internal/ratelimit): with an API key, or with a link that stands for    *)
(* one.  A request reads the token, the key and the proxy one after the    *)
(* other, while an administrator creates, revokes and assigns.             *)
(*                                                                         *)
(* There is one proxy here; a key that covers others as well, or has not   *)
(* the scope, is a key that may not have a link.                           *)
(***************************************************************************)
EXTENDS Naturals

CONSTANTS
    Keys, Links,    \* ids still to be given
    Requests,       \* requests under way at once
    Customers,
    Burst,          \* Limit.Burst; a token comes back each tick
    LinkCooldown    \* linkGuard.cooldown, in ticks

ASSUME ApiKeysAssumption == {Burst, LinkCooldown} \subseteq Nat \ {0}

VARIABLES
    keys,       \* the rows of api_keys
    links,      \* the rows of link_tokens
    owned,      \* the proxy: its customer and whether it is active
    mint,       \* createLinkToken, between its check and its insert
    requests,   \* requests under way
    buckets,    \* Limiter.buckets
    cooling     \* linkGuard.last, as the ticks that are left

apiVars == <<keys, links, owned, mint, requests, buckets, cooling>>
apiTables == <<keys, links, owned, mint>>
apiMemory == <<buckets, cooling>>

NoKey == [state |-> "none", customer |-> "any", linkable |-> FALSE]
NoRequest == [pc |-> "idle", via |-> "key", key |-> "none", link |-> "none", customer |-> "any", late |-> FALSE]
Stages == {"idle", "key", "guard", "limit", "owner", "usable", "rotate"}

ApiKeysTypeOK ==
    /\ keys \in [Keys -> [state: {"none", "live", "revoked"}, customer: Customers \cup {"any"}, linkable: BOOLEAN]]
    /\ links \in [Links -> [state: {"none", "live", "revoked"}, key: Keys \cup {"none"}]]
    /\ owned \in [customer: Customers \cup {"none"}, active: BOOLEAN]
    /\ mint \in Keys \cup {"none"}
    /\ requests \in [Requests -> [pc: Stages, via: {"key", "link"}, key: Keys \cup {"none"}, link: Links \cup {"none"},
                                  customer: Customers \cup {"any"}, late: BOOLEAN]]
    /\ buckets \in [Keys -> 0 .. Burst] /\ cooling \in [Links -> 0 .. LinkCooldown]

ApiKeysInit ==
    /\ keys = [k \in Keys |-> NoKey] /\ links = [l \in Links |-> [state |-> "none", key |-> "none"]]
    /\ owned = [customer |-> "none", active |-> TRUE] /\ mint = "none"
    /\ requests = [r \in Requests |-> NoRequest]
    /\ buckets = [k \in Keys |-> Burst] /\ cooling = [l \in Links |-> 0]
-----------------------------------------------------------------------------
(* What an administrator does.                                             *)

\* createApiKey and Keys.Create: a customer must be there, a key has a scope.
CreateKey(k) ==
    /\ keys[k] = NoKey
    /\ \E c \in Customers \cup {"any"}, one \in BOOLEAN :
         keys' = [keys EXCEPT ![k] = [state |-> "live", customer |-> c, linkable |-> one]]
    /\ UNCHANGED <<links, owned, mint, requests, apiMemory>>

\* Keys.Revoke.
RevokeKey(k) ==
    /\ keys[k].state = "live" /\ keys' = [keys EXCEPT ![k].state = "revoked"]
    /\ UNCHANGED <<links, owned, mint, requests, apiMemory>>

\* createLinkToken, as far as it reads: a live key for just one proxy.
MintChecks(k) ==
    /\ mint = "none" /\ keys[k].state = "live" /\ keys[k].linkable /\ mint' = k
    /\ UNCHANGED <<keys, links, owned, requests, apiMemory>>

\* Keys.CreateLinkToken: the key need only be there.
CreateLinkToken(l) ==
    /\ mint # "none" /\ links[l].state = "none" /\ mint' = "none"
    /\ links' = [links EXCEPT ![l] = [state |-> "live", key |-> mint]]
    /\ UNCHANGED <<keys, owned, requests, apiMemory>>

\* Keys.RevokeLinkToken.
RevokeLinkToken(l) ==
    /\ links[l].state = "live" /\ links' = [links EXCEPT ![l].state = "revoked"]
    /\ UNCHANGED <<keys, owned, mint, requests, apiMemory>>

\* assignProxyCustomer and setProxyEnabled of the proxy.
ProxyChanges ==
    /\ owned' \in [customer: Customers \cup {"none"}, active: BOOLEAN] /\ owned' # owned
    /\ UNCHANGED <<keys, links, mint, requests, apiMemory>>
-----------------------------------------------------------------------------
(* Requests.                                                               *)

RequestAt(r, s) == requests[r].pc = s
RequestGoes(r, s) == requests' = [requests EXCEPT ![r].pc = s]
RequestEnds(r) == requests' = [requests EXCEPT ![r] = NoRequest]

\* Was the request made with what has been revoked already?
TooLate(k, l) == keys[k].state = "revoked" \/ (l # "none" /\ links[l].state = "revoked")

\* RequireKey with Keys.Authenticate: the row it read is the key from here on.
AuthenticateKey(r, k) ==
    /\ RequestAt(r, "idle") /\ keys[k].state = "live"
    /\ requests' = [requests EXCEPT ![r] =
          [NoRequest EXCEPT !.pc = "limit", !.key = k, !.customer = keys[k].customer]]
    /\ UNCHANGED <<apiTables, apiMemory>>

\* Keys.AuthenticateLink: the token first, ErrTokenRevoked.
AuthenticateLink(r, l) ==
    /\ RequestAt(r, "idle") /\ links[l].state = "live"
    /\ requests' = [requests EXCEPT ![r] =
          [NoRequest EXCEPT !.pc = "key", !.via = "link", !.key = links[l].key, !.link = l,
                            !.late = TooLate(links[l].key, l)]]
    /\ UNCHANGED <<apiTables, apiMemory>>

\* The key of a link is only looked up.
Bug_LinkTarget(r) ==
    /\ RequestAt(r, "key") /\ RequestGoes(r, "guard")
    /\ UNCHANGED <<apiTables, apiMemory>>

\* Then its key, ErrKeyRevoked; and linkTarget.
LinkTarget(r) ==
    /\ RequestAt(r, "key")
    /\ LET k == keys[requests[r].key]
       IN  IF k.state = "live" /\ k.linkable THEN RequestGoes(r, "guard") ELSE RequestEnds(r)
    /\ UNCHANGED <<apiTables, apiMemory>>

\* linkGuard.take: the link has been used, whatever comes of it.
TakeLink(r) ==
    /\ RequestAt(r, "guard")
    /\ LET l == requests[r].link
       IN  IF cooling[l] = 0
           THEN RequestGoes(r, "limit") /\ cooling' = [cooling EXCEPT ![l] = LinkCooldown]
           ELSE RequestEnds(r) /\ UNCHANGED cooling
    /\ UNCHANGED <<apiTables, buckets>>

\* Limiter.Allow; of a key without the scope too.
Allow(r) ==
    /\ RequestAt(r, "limit")
    /\ LET k == requests[r].key
       IN  IF buckets[k] > 0
           THEN /\ buckets' = [buckets EXCEPT ![k] = @ - 1]
                /\ RequestGoes(r, IF requests[r].via = "key" THEN "owner" ELSE "usable")
           ELSE RequestEnds(r) /\ UNCHANGED buckets
    /\ UNCHANGED <<apiTables, cooling>>

\* keyMayUseProxy, which a link is not asked.
KeyMayUseProxy(r) ==
    /\ RequestAt(r, "owner")
    /\ IF requests[r].customer \in {"any", owned.customer} THEN RequestGoes(r, "usable") ELSE RequestEnds(r)
    /\ UNCHANGED <<apiTables, apiMemory>>

\* customerProxyUsable.
CustomerProxyUsable(r) ==
    /\ RequestAt(r, "usable")
    /\ IF owned.active THEN RequestGoes(r, "rotate") ELSE RequestEnds(r)
    /\ UNCHANGED <<apiTables, apiMemory>>

\* customerRotate: Rotate, and Wait for as long as WaitCap.
CustomerRotate(r) ==
    /\ RequestAt(r, "rotate") /\ RequestEnds(r)
    /\ UNCHANGED <<apiTables, apiMemory>>

\* Limiter.refill of each bucket when it is next asked.
ApiTick ==
    /\ buckets' = [k \in Keys |-> IF buckets[k] < Burst THEN buckets[k] + 1 ELSE Burst]
    /\ cooling' = [l \in Links |-> IF cooling[l] > 0 THEN cooling[l] - 1 ELSE 0]
    /\ UNCHANGED <<apiTables, requests>>

\* The buckets, the cooldowns and the requests are in memory.
ApiRestarts ==
    /\ buckets' = [k \in Keys |-> Burst] /\ cooling' = [l \in Links |-> 0]
    /\ requests' = [r \in Requests |-> NoRequest] /\ mint' = "none"
    /\ UNCHANGED <<keys, links, owned>>

RequestStep(r) ==
    \/ \E k \in Keys : AuthenticateKey(r, k)
    \/ \E l \in Links : AuthenticateLink(r, l)
    \/ LinkTarget(r) \/ TakeLink(r) \/ Allow(r)
    \/ KeyMayUseProxy(r) \/ CustomerProxyUsable(r) \/ CustomerRotate(r)

ApiKeysNext ==
    \/ \E k \in Keys : CreateKey(k) \/ RevokeKey(k) \/ MintChecks(k)
    \/ \E l \in Links : CreateLinkToken(l) \/ RevokeLinkToken(l)
    \/ \E r \in Requests : RequestStep(r)
    \/ ProxyChanges \/ ApiTick \/ ApiRestarts

ApiKeysSpec == ApiKeysInit /\ [][ApiKeysNext]_apiVars
-----------------------------------------------------------------------------
(* What keys and links promise.                                            *)

\* No request made after its key, or its link, was revoked gets as far as the
\* cooldown, the limiter and the rotation; not through a link minted while its
\* key was being revoked either (AuthenticateLink, createLinkToken).
RevokedStaysOut == \A r \in Requests : requests[r].late => requests[r].pc \in {"idle", "key"}
=============================================================================
