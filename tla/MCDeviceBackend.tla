--------------------------- MODULE MCDeviceBackend ---------------------------
(* Instances of DeviceBackend for TLC. *)
EXTENDS DeviceBackend

CONSTANTS mic, speaker

MCDevices == {mic, speaker}
MCLayouts == {<<2>>, <<1, 1>>, <<2, 1>>}
=============================================================================
