------------------------------- MODULE MCAccess -------------------------------
(***************************************************************************)
(* Four things many callers share, checked in one run: the account of the  *)
(* panel and its lock (Login), keys and links (ApiKeys), the driver of a   *)
(* dongle (HiLinkClient), and the database file with its backups           *)
(* (StoreFile).  They share no state.  A behaviour is one of one of them,  *)
(* the others stay as they begin.                                          *)
(***************************************************************************)
EXTENDS Login, ApiKeys, HiLinkClient, StoreFile

VARIABLE part       \* the component this behaviour is about

accessVars == <<loginVars, apiVars, clientVars, storeVars, part>>

MCAccessInit ==
    /\ part \in {"login", "keys", "driver", "store"}
    /\ LoginInit /\ ApiKeysInit /\ ClientInit /\ StoreInit

MCAccessNext ==
    /\ UNCHANGED part
    /\ \/ part = "login" /\ LoginNext /\ UNCHANGED <<apiVars, clientVars, storeVars>>
       \/ part = "keys" /\ ApiKeysNext /\ UNCHANGED <<loginVars, clientVars, storeVars>>
       \/ part = "driver" /\ ClientNext /\ UNCHANGED <<loginVars, apiVars, storeVars>>
       \/ part = "store" /\ StoreNext /\ UNCHANGED <<loginVars, apiVars, clientVars>>

MCAccessSpec == MCAccessInit /\ [][MCAccessNext]_accessVars
=============================================================================
