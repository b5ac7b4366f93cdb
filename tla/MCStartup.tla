----------------------------- MODULE MCStartup -----------------------------
(* Instances of Startup: three collectors, two tables. *)
EXTENDS Startup

MCRegistry == <<"gpu.nvml", "gpu.amdgpu", "cpu">>
=============================================================================
