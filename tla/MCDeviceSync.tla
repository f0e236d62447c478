----------------------------- MODULE MCDeviceSync -----------------------------
(***************************************************************************)
(* Instances of DeviceSync for TLC: which faults a run lets happen.        *)
(***************************************************************************)
EXTENDS DeviceSync

NoFaults      == {}
AllFaults     == FaultKinds
RetriedFaults == FaultKinds \ {"pull", "crash", "vault"}
LostPulls     == {"pull"}
InterruptedWrites == {"crash", "vault"}
===============================================================================
