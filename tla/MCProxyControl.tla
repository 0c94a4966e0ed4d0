---------------------------- MODULE MCProxyControl ----------------------------
(* Values of the constants of ProxyControl for TLC.                         *)
EXTENDS ProxyControl

CONSTANTS u1, n1

WithLists == {"userpass", "both"}
=============================================================================
