---------------------------- MODULE MCInventory ----------------------------
(* A small instance of Inventory for TLC.                                  *)
EXTENDS Inventory, TLC

CONSTANTS g1, comfy, fourfold, cComfy, cStray, comfyName, strayName

OneGpu == <<g1>>

\* fourfold is configured without a container.
TwoServices == <<comfy, fourfold>>
TheirContainers == [s \in {comfy, fourfold} |->
    IF s = comfy THEN comfyName ELSE NoContainer]

\* The stray container had the service's name until it was recreated.
TheirNames == [c \in {cComfy, cStray} |->
    IF c = cComfy THEN {comfyName} ELSE {strayName, comfyName}]

Process(c, kinds, mem) == [container |-> c, gpu |-> g1, kinds |-> kinds, mem |-> mem]

\* A model server that computes and draws (it is on both lists of its
\* device), one whose memory NVML does not tell, a container of no service,
\* and a host process.
Four == {Process(cComfy, {"compute", "graphics"}, 2), Process(cComfy, {"compute"}, Null),
         Process(cStray, {"compute"}, 1), Process(NoContainer, {"graphics"}, 1)}

Symmetry == Permutations(Pids)
=============================================================================
