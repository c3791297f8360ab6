---------------------------- MODULE MCDeviceRun ----------------------------
(***************************************************************************)
(* The instance of DeviceRun for TLC: every script.                        *)
(***************************************************************************)
EXTENDS DeviceRun

AllScripts == DOMAIN Program
=============================================================================
