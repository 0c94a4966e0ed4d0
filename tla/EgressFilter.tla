----------------------------- MODULE EgressFilter -----------------------------
(***************************************************************************)
(* What leaves the host from the sockets of the proxies (internal/fw): the *)
(* chain proxy_egress, and the fence a rotation puts before the interface  *)
(* of a dongle while customers go on connecting.  The chain sees the       *)
(* packets of the group of the proxies only; a rule with a rate limit may  *)
(* match or not.                                                           *)
(*                                                                         *)
(* A step is one nft command, one netlink dump or one netlink request.     *)
(***************************************************************************)
EXTENDS Naturals, Sequences

CONSTANTS
    Ifaces,     \* network interfaces of the host, lo among them
    Dongles,    \* dongle_ifaces: those of the dongles
    Publics,    \* public_ifaces
    Slot,       \* the interface that is rotated
    Conns       \* connections a customer may have through the dongle

ASSUME FilterAssumption ==
    /\ "lo" \in Ifaces /\ Dongles \subseteq Ifaces /\ Publics \subseteq Ifaces
    /\ Slot \in Dongles /\ Dongles \cap (Publics \cup {"lo"}) = {}

VARIABLES
    fenced,     \* fenced_ifaces
    conns,      \* TCP connections from the slot's address
    tracked,    \* conntrack entries with that source
    fence,      \* where cycle is
    todo,       \* sockets of the dump KillSockets works off, then entries
    skipped     \* history: a request of this cycle failed and was passed over

filterVars == <<fenced, conns, tracked, fence, todo, skipped>>

\* proxied: the source is a public address of the node and a port of the proxies.
Packets == [oif: Ifaces, proxied: BOOLEAN, reply: BOOLEAN, proto: {"tcp", "udp"},
            dst: {"gateway", "private", "internet"}, dport: {"dns", "smtp", "other"}]
-----------------------------------------------------------------------------
(* The chain.                                                              *)

\* EgressRuleOrder.
EgressRuleOrder ==
    <<"customer-facing leg", "farm-local probe leg", "fence tcp reset", "fence icmpx",
      "dns to dongle gateway", "ssrf log", "ssrf drop", "leak log", "leak drop",
      "smtp drop", "new connection rate limit", "default accept">>

\* A reply of a proxy's own listener; the gateways are in 192.168.0.0/16 too.
Answer(p)  == p.proxied /\ p.proto = "tcp" /\ p.reply
Private(p) == p.dst \in {"gateway", "private"}

\* ruleset.nft.tmpl.
Matches(rule, p) ==
    \/ rule = "customer-facing leg" /\ p.oif \in Publics /\ Answer(p)
    \/ rule = "farm-local probe leg" /\ p.oif = "lo" /\ Answer(p)
    \/ rule = "fence tcp reset" /\ p.oif \in fenced /\ p.proto = "tcp"
    \/ rule = "fence icmpx" /\ p.oif \in fenced
    \/ rule = "dns to dongle gateway" /\ p.proto = "udp" /\ p.dport = "dns" /\ p.dst = "gateway"
    \/ rule \in {"ssrf log", "ssrf drop"} /\ Private(p)
    \/ rule \in {"leak log", "leak drop"} /\ p.oif \notin Dongles
    \/ rule = "smtp drop" /\ p.proto = "tcp" /\ p.dport = "smtp"
    \/ rule = "new connection rate limit" /\ ~p.reply /\ p.oif \in Dongles
    \/ rule = "default accept"

Accepting == {"customer-facing leg", "farm-local probe leg", "dns to dongle gateway", "default accept"}
Limited   == {"ssrf log", "leak log", "new connection rate limit"}

\* The packet may get past every rule before an accepting one that matches.
Accepts(p) ==
    \E i \in DOMAIN EgressRuleOrder :
        /\ EgressRuleOrder[i] \in Accepting /\ Matches(EgressRuleOrder[i], p)
        /\ \A j \in 1 .. i - 1 :
               EgressRuleOrder[j] \in Limited \/ ~Matches(EgressRuleOrder[j], p)

\* A packet of a customer's connection through the slot.
Traffic(reply) == [oif |-> Slot, proxied |-> FALSE, reply |-> reply, proto |-> "tcp",
                   dst |-> "internet", dport |-> "other"]
-----------------------------------------------------------------------------
(* The fence of cycle.                                                     *)

FilterInit ==
    /\ fenced = {} /\ conns = {} /\ tracked = {}
    /\ fence = "open" /\ todo = {} /\ skipped = FALSE

Onto(s) == fence' = s /\ UNCHANGED <<todo, skipped>>

\* The sockets are destroyed first and the interface is fenced after it.
Bug_AddFence ==
    /\ fence = "open"
    /\ fence' = "list" /\ skipped' = FALSE
    /\ UNCHANGED <<fenced, conns, tracked, todo>>

\* Nft.Fence: the element is added, then looked for; an error ends cycle.
AddFence ==
    /\ fence = "open"
    /\ \/ fenced' = fenced \cup {Slot} /\ fence' = "confirm"
       \/ fenced' \in {fenced, fenced \cup {Slot}} /\ fence' = "failed"
    /\ skipped' = FALSE
    /\ UNCHANGED <<conns, tracked, todo>>

ConfirmFence ==
    /\ fence = "confirm"
    /\ (Slot \in fenced /\ Onto("list")) \/ Onto("failed")
    /\ UNCHANGED <<fenced, conns, tracked>>

\* KillSockets: one dump; an error of it is a note of the rotation.
ListSockets ==
    /\ fence = "list"
    /\ \/ fence' = "kill" /\ todo' = conns /\ UNCHANGED skipped
       \/ fence' = "list_entries" /\ skipped' = TRUE /\ UNCHANGED todo
    /\ UNCHANGED <<fenced, conns, tracked>>

\* One request for each socket of the dump; one that fails is passed over.
KillSocket ==
    /\ fence = "kill"
    /\ IF todo = {} THEN Onto("list_entries") /\ UNCHANGED conns
       ELSE \E c \in todo :
                /\ todo' = todo \ {c}
                /\ \/ conns' = conns \ {c} /\ UNCHANGED skipped
                   \/ skipped' = TRUE /\ UNCHANGED conns
                /\ UNCHANGED fence
    /\ UNCHANGED <<fenced, tracked>>

\* FlushConntrack, in the same way.
ListConntrack ==
    /\ fence = "list_entries"
    /\ \/ fence' = "flush" /\ todo' = tracked /\ UNCHANGED skipped
       \/ fence' = "behind" /\ todo' = {} /\ skipped' = TRUE
    /\ UNCHANGED <<fenced, conns, tracked>>

FlushEntry ==
    /\ fence = "flush"
    /\ IF todo = {} THEN Onto("behind") /\ UNCHANGED tracked
       ELSE \E c \in todo :
                /\ todo' = todo \ {c}
                /\ \/ tracked' = tracked \ {c} /\ UNCHANGED skipped
                   \/ skipped' = TRUE /\ UNCHANGED tracked
                /\ UNCHANGED fence
    /\ UNCHANGED <<fenced, conns>>

\* Nft.Unfence by the guard, after the hold or at the end of the rotation.  A
\* guard whose fence failed has nothing to release.
Unfence ==
    /\ fence \in {"behind", "failed"}
    /\ \/ fence = "behind" /\ fenced' = fenced \ {Slot}
       \/ UNCHANGED fenced
    /\ Onto("open")
    /\ UNCHANGED <<conns, tracked>>

Cycle == AddFence \/ ConfirmFence \/ ListSockets \/ KillSocket
         \/ ListConntrack \/ FlushEntry \/ Unfence
-----------------------------------------------------------------------------
(* External: the customers and the kernel.                                 *)

Connect(c) ==
    /\ c \notin conns /\ Accepts(Traffic(FALSE))
    /\ conns' = conns \cup {c} /\ tracked' = tracked \cup {c}
    /\ UNCHANGED <<fenced, fence, todo, skipped>>

\* A connection that sends into the fence is reset by it.
Send(c) ==
    /\ c \in conns
    /\ IF Accepts(Traffic(TRUE)) THEN tracked' = tracked \cup {c} /\ UNCHANGED conns
       ELSE conns' = conns \ {c} /\ UNCHANGED tracked
    /\ UNCHANGED <<fenced, fence, todo, skipped>>

Disconnect(c) ==
    /\ c \in conns
    /\ conns' = conns \ {c} /\ tracked' \in {tracked, tracked \ {c}}
    /\ UNCHANGED <<fenced, fence, todo, skipped>>

FilterNext == Cycle \/ \E c \in Conns : Connect(c) \/ Send(c) \/ Disconnect(c)

FilterSpec == FilterInit /\ [][FilterNext]_filterVars
-----------------------------------------------------------------------------
FilterTypeOK ==
    /\ fenced \subseteq {Slot} /\ conns \subseteq Conns /\ tracked \subseteq Conns
    /\ fence \in {"open", "confirm", "failed", "list", "kill", "list_entries", "flush", "behind"}
    /\ todo \subseteq Conns /\ skipped \in BOOLEAN

(* During the hold no connection of before the fence is left, and none has *)
(* come since, unless a request of KillSockets or FlushConntrack was lost. *)
FenceHolds == fence = "behind" /\ ~skipped => conns = {} /\ tracked = {}

(* What gets out at all: replies of a listener to its customers, questions *)
(* to the name server of a dongle, and what leaves through a dongle that   *)
(* is not fenced, towards the internet and not to a mail server.           *)
ThroughADongle(p) ==
    p.oif \in Dongles \ fenced /\ p.dst = "internet" /\ ~(p.proto = "tcp" /\ p.dport = "smtp")
CustomerReply(p) == p.oif \in Publics \cup {"lo"} /\ Answer(p)
NameQuery(p) == p.proto = "udp" /\ p.dport = "dns" /\ p.dst = "gateway" /\ p.oif \notin fenced
OnlyWhatIsMeant == \A p \in Packets : Accepts(p) => ThroughADongle(p) \/ CustomerReply(p) \/ NameQuery(p)
=============================================================================
