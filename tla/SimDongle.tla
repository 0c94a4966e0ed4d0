------------------------------ MODULE SimDongle ------------------------------
(***************************************************************************)
(* The dongle as its simulation answers for it (internal/device/sim): the  *)
(* session and its tokens, the data switch, what it refuses, the faults.   *)
(* RotationVerdict has the address that a hold of the data switch changes. *)
(*                                                                         *)
(* A cookie or a token is told apart only by whether the dongle still      *)
(* knows it; tokens are all different and the driver uses each once.       *)
(***************************************************************************)
EXTENDS Naturals, Sequences

CONSTANT SimFaults      \* which of the faults the injector forces

ASSUME SimAssumption ==
    SimFaults \subseteq {"timeout", "refuse", "token_expire", "lost"}

VARIABLES
    dongle,     \* settings and state of the dongle
    faulty      \* the injector still forces faults

SimVars == <<dongle, faulty>>

\* What the driver asks a dongle; every reading is told apart by nothing.
Reads == {"status"}

\* What it writes; of a setting and of a message only this matters: carried out
\* or not.
DialupWrites == {"data_on", "data_off", "setting"}
NetWrites == {"net_mode", "setting"}
DhcpWrites == {"move_lan", "setting"}
SmsWrites == {"setting"}
Writes == DialupWrites \cup NetWrites \cup DhcpWrites \cup SmsWrites \cup {"reboot"}
Known == {"good", "stale"}

DongleState == [data: BOOLEAN, session: BOOLEAN]

SimInit == dongle = [data |-> FALSE, session |-> FALSE] /\ faulty = (SimFaults # {})

Faults(f) == faulty /\ f \in SimFaults

\* faultInjector.SetRate(0).
FaultsEnd == faulty /\ faulty' = FALSE /\ UNCHANGED dongle
-----------------------------------------------------------------------------
(* Writes.  A request that is carried out changes the dongle; some are     *)
(* refused by what the dongle does just now.                               *)

\* SimDevice.setDataSwitch.
SetDataSwitch(d, on) == [d EXCEPT !.data = on]

\* SimDevice.reboot: the data session stays off, and the session is gone.
RebootSim == [data |-> FALSE, session |-> FALSE]

\* The net mode is refused while the data session is up.
Refused(d, w) == w = "net_mode" /\ d.data

\* SimDevice.post.
Post(d, w) ==
    CASE w \in {"data_on", "data_off"} -> SetDataSwitch(d, w = "data_on")
      [] w = "reboot"                  -> RebootSim
      [] OTHER                         -> d

\* SimDevice.setDHCP: a dongle that moves away never answers.
Answers(w) == w # "move_lan"

\* SimDevice.ServeHTTP: a request with this cookie and this token comes out as;
\* tokenStore.sessionValid, tokenStore.consume.
Verdict(d, kind, cookie, token) ==
    IF cookie # "good" \/ ~d.session \/ (kind \in Writes /\ token # "good") THEN "token"
    ELSE IF kind \in Writes /\ Refused(d, kind) THEN "refused" ELSE "ok"

\* faultInjector.next, before the request is looked at; a dongle with a login
\* refuses every write.
FaultVerdicts ==
    (IF Faults("timeout") THEN {"unreachable"} ELSE {}) \cup (IF Faults("refuse") THEN {"refused"} ELSE {})
=============================================================================
