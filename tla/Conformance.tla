----------------------------- MODULE Conformance -----------------------------
(***************************************************************************)
(* What the GET routes send, against the document, and the levels of       *)
(* Metrics' Merge against the recursion of the code.                       *)
(***************************************************************************)
EXTENDS Metrics, OpenApi

Promised == [tick |-> TickPayload, info |-> InfoPayload,
             models |-> ModelsPayload, health |-> Health]

(* What is sent conforms to the document at /openapi.json, undeclared keys *)
(* included, whatever the host withholds and whichever collectors fail.    *)
PayloadConforms == Sent => Conforms(Dict(payload), Promised[route])

-----------------------------------------------------------------------------

RECURSIVE merge(_, _)
merge(dst, src) == MergeLevel(merge, dst, src)

\* Parts of a payload that two collectors may both have, two at a time.
Shared ==
    LET dicts(keys, values) == {Dict(f) : f \in UNION {[K -> values] : K \in SUBSET keys}}
        powers == dicts({"sources"}, dicts({"gpu", "psu"}, {Value("num", 1), Value("num", 2)}))
        errors == dicts({"cpu", "hwmon"}, {Str})
        lists == {List(<<>>), List(<<1>>), List(<<2, 3>>)}
    IN  [{"power", "errors"} -> powers \cup errors] \cup [{"gpus", "fans"} -> lists]

\* Levels are enough.
ASSUME LevelsSuffice == \A dst, src \in Shared : Merge(dst, src) = merge(dst, src)
=============================================================================
