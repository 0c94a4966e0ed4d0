----------------------------- MODULE MCDeviceOps -----------------------------
(* Instances of DeviceOps for TLC. *)
EXTENDS DeviceOps

CONSTANTS o1, o2

\* An admin's reboot and a rotation of the proxy of the same dongle.
RebootAndRotate == [o \in Ops |-> IF o = o1 THEN "reboot" ELSE "rotate"]

\* A network mode change meets a reboot the daemon asked for.
MixedTasks  == [o \in Ops |-> IF o = o1 THEN "net_mode" ELSE "auto"]
===============================================================================
