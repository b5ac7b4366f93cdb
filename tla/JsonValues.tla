------------------------------ MODULE JsonValues ------------------------------
(***************************************************************************)
(* The JSON values of the payloads.  A value carries its kind: "int",      *)
(* "num", "str", "bool", "null", "dict" or "list".  What a dict holds is a *)
(* function from its keys, what a list holds is a sequence.                *)
(***************************************************************************)

Value(kind, x) == [kind |-> kind, of |-> x]
Dict(f) == Value("dict", f)
List(items) == Value("list", items)
Str == Value("str", "")
None == [kind |-> "null"]

Nothing == <<>>     \* no keys, no items

\* isinstance(v, (int, float))
IsNumber(v) == v.kind \in {"int", "num"}

\* dict.update, of what is in two dicts: the later value of a key stays.
Update(dict, later) ==
    [k \in DOMAIN dict \cup DOMAIN later |->
        IF k \in DOMAIN later THEN later[k] ELSE dict[k]]
=============================================================================
