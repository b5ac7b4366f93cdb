------------------------------ MODULE MCUnload ------------------------------
(* A small instance of Unload for TLC.                                     *)
EXTENDS Unload, TLC

CONSTANTS comfy, other, m1, m2

\* ComfyUI, and a service that holds m1 but not m2.
TwoServices == <<comfy, other>>
OnlyM1 == comfy :> {NoModel} @@ other :> {NoModel, m1}
=============================================================================
