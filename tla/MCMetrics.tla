------------------------------ MODULE MCMetrics ------------------------------
(* Small hosts for Metrics.  Every device has watts of its own, so that a  *)
(* sum tells what is in it; only an AMD GPU's rail has those of its GPU.   *)
EXTENDS Conformance

W(n) == Value("num", n)

Stem(stem, value) == [s \in {stem} |-> value]
NoLabels == [s \in {} |-> ""]

Psu == [name |-> "psu", gpu |-> FALSE, files |-> {<<"power1", "input">>},
        labels |-> NoLabels, watts |-> Stem("power1", W(1))]
Psu2 == [Psu EXCEPT !.watts = Stem("power1", W(2))]     \* clashes with Psu
Vrm == [name |-> "vrm", gpu |-> FALSE,
        files |-> {<<"fan1", "input">>, <<"power1", "average">>, <<"power1", "input">>,
                   <<"power2", "input">>},
        labels |-> Stem("power1", "board"), watts |-> [power1 |-> W(4), power2 |-> W(64)]]
Hub == [name |-> "hub", gpu |-> FALSE, files |-> {<<"fan1", "input">>},
        labels |-> NoLabels, watts |-> NoLabels]
Rdna == [name |-> "amdgpu", gpu |-> TRUE,
         files |-> {<<"fan1", "input">>, <<"power1", "average">>},
         labels |-> NoLabels, watts |-> Stem("power1", W(8))]

Zone(type, n, gives) == [type |-> type, n |-> n, gives |-> gives]

Server == [nvml |-> <<W(16)>>, amd |-> <<W(8)>>, rapl |-> <<W(32)>>, models |-> "broken",
           chip |-> <<"Package id 0", "Core 0", "Core 1">>, zones |-> <<>>]
Dual == [Server EXCEPT !.chip = <<"Package id 0", "Core 0", "Package id 1", "Core 0">>]
Spark == [nvml |-> <<W(16), None>>, amd |-> <<>>, rapl |-> <<>>, models |-> "on", chip |-> <<>>,
          zones |-> <<Zone("acpitz", 0, FALSE), Zone("acpitz", 1, TRUE), Zone("soc", 2, TRUE),
                      Zone("acpitz", 3, TRUE)>>]
Board == [nvml |-> <<>>, amd |-> <<>>, rapl |-> <<>>, models |-> "off",
          chip |-> <<>>, zones |-> <<>>]

AllHosts == {Server, Spark, Board}
DualHosts == {Server, Dual}
AllSysfs == {<<Rdna, Vrm>>, <<Psu, Psu2, Hub>>, <<Hub>>}
OneSysfs == {<<Vrm>>}
AllDevices == {Psu, Rdna}
NoDevices == {}
=============================================================================
