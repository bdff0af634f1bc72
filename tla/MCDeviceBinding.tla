--------------------------- MODULE MCDeviceBinding ---------------------------
(* Small instances of DeviceBinding for TLC. *)
EXTENDS DeviceBinding, TLC

CONSTANTS r1, r2, r3, d1, d2

ThreeRequests == {r1, r2, r3}
TwoDevices    == {d1, d2}
AllModes      == {"disabled", "optional", "required", "bind_on_first_use"}
Symmetry == Permutations(Requests) \cup Permutations(Devices)
=============================================================================
