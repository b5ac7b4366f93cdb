------------------------------- MODULE OpenApi -------------------------------
(***************************************************************************)
(* The part of /openapi.json that describes what the GET routes answer,    *)
(* and what it means for a payload to conform to it.                       *)
(*                                                                         *)
(* A schema says which kinds of values are allowed and what is inside.     *)
(***************************************************************************)
EXTENDS JsonValues, Integers, Sequences, TLC

-----------------------------------------------------------------------------
(* JSON Schema, as far as the document uses it.                            *)

Integer == [type |-> {"int"}]
Number == [type |-> {"int", "num"}]
Text == [type |-> {"str"}]
Boolean == [type |-> {"bool"}]
_null(schema) == [schema EXCEPT !.type = @ \cup {"null"}]
Array(schema) == [type |-> {"list"}, items |-> schema]
MapTo(schema) == [type |-> {"dict"}, values |-> schema]
Object(required, optional) ==
    [type |-> {"dict"}, required |-> DOMAIN required, properties |-> required @@ optional]

\* Undeclared keys are errors, too: the repository's tests say so.
RECURSIVE Conforms(_, _)
Conforms(value, schema) ==
    /\ value.kind \in schema.type
    /\ value.kind = "list" =>
        \A i \in DOMAIN value.of : Conforms(value.of[i], schema.items)
    /\ value.kind = "dict" =>
        IF "values" \in DOMAIN schema
        THEN \A k \in DOMAIN value.of : Conforms(value.of[k], schema.values)
        ELSE /\ schema.required \subseteq DOMAIN value.of
             /\ \A k \in DOMAIN value.of :
                    /\ k \in DOMAIN schema.properties
                    /\ Conforms(value.of[k], schema.properties[k])

-----------------------------------------------------------------------------

_TEMPS == MapTo(Number)

Clocks == Object([graphics |-> _null(Integer), memory |-> _null(Integer)], Nothing)

_GPU_MEMORY == _null(Object([total |-> Integer, used |-> Integer, free |-> Integer,
                             used_pct |-> _null(Number)], Nothing))

GpuStatic ==
    Object([index |-> Integer, vendor |-> Text, name |-> Text, memory_kind |-> Text,
            vram_total |-> _null(Integer), power_limit_w |-> _null(Number),
            max_clocks_mhz |-> Clocks, temp_slowdown_c |-> _null(Number)],
           [uuid |-> _null(Text), driver_version |-> _null(Text), vbios |-> _null(Text)])

GpuFan == Object([pct |-> _null(Integer), rpm |-> _null(Integer)], Nothing)

GpuProcess == Object([pid |-> Integer, kind |-> Text, mem_bytes |-> _null(Integer),
                      name |-> _null(Text)], Nothing)

GpuSample ==
    Object([index |-> Integer, vendor |-> Text, util_gpu_pct |-> _null(Integer),
            util_memory_pct |-> _null(Integer), memory |-> _GPU_MEMORY,
            temperature_c |-> _null(Number), temperatures_c |-> _TEMPS,
            power_w |-> _null(Number), fans |-> Array(GpuFan), clocks_mhz |-> Clocks,
            perf_state |-> _null(Text), throttle_reasons |-> Array(Text),
            processes |-> Array(GpuProcess)], Nothing)

CpuStatic == Object([count |-> _null(Integer), count_physical |-> _null(Integer),
                     model |-> _null(Text)], Nothing)

CpuSample ==
    Object([usage_pct |-> Number, per_core_pct |-> Array(Number), count |-> _null(Integer),
            load_avg |-> Array(Number), freq_mhz |-> _null(Integer),
            temperature_c |-> _null(Number), temperatures_c |-> _TEMPS], Nothing)

MemorySample == Object([total |-> Integer, used |-> Integer, available |-> Integer,
                        used_pct |-> Number], Nothing)

SwapSample == Object([total |-> Integer, used |-> Integer, used_pct |-> Number], Nothing)

ChassisFan == Object([label |-> Text, rpm |-> Integer], Nothing)

Power == Object([measured_w |-> _null(Number), sources |-> MapTo(Number)], Nothing)

Errors == MapTo(Text)

Health == Object([ok |-> Boolean, uptime_s |-> Number], Nothing)

LoadedModel == Object([id |-> Text, name |-> Text, state |-> Text, vram_bytes |-> _null(Integer)],
                      [size_bytes |-> _null(Integer), type |-> _null(Text)])

ModelService ==
    Object([id |-> Text, kind |-> Text, container |-> _null(Text), granularity |-> Text,
            ok |-> Boolean, error |-> _null(Text), vram_bytes |-> _null(Integer),
            models |-> Array(LoadedModel)], Nothing)

OtherGpuProcess == Object([pid |-> Integer, name |-> _null(Text), container |-> _null(Text),
                           mem_bytes |-> _null(Integer)], Nothing)

ModelsPayload == Object([schema |-> Integer, host |-> Text, ts |-> Number,
                         services |-> Array(ModelService), other |-> Array(OtherGpuProcess)],
                        Nothing)

InfoPayload ==
    Object([schema |-> Integer, host |-> Text, started_at |-> Number, version |-> Text,
            platform |-> Object([machine |-> Text, kernel |-> Text, os |-> Text], Nothing),
            capabilities |-> Array(Text)],
           [cpu |-> CpuStatic, memory_total |-> Integer, gpus |-> Array(GpuStatic),
            errors |-> Errors])

TickPayload ==
    Object([schema |-> Integer, ts |-> Number, host |-> Text, tick_us |-> Integer,
            power |-> Power],
           [gpus |-> Array(GpuSample), cpu |-> CpuSample, memory |-> MemorySample,
            swap |-> SwapSample, fans |-> Array(ChassisFan), errors |-> Errors])
=============================================================================
