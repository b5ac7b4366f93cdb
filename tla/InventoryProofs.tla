-------------------------- MODULE InventoryProofs --------------------------
(***************************************************************************)
(* GET /models hides no process and charges none to the wrong service, for *)
(* any machine, GPUs and config, whatever starts and exits meanwhile.  The *)
(* argument follows the bytes: a process that runs all the while is on a   *)
(* list of its device, so it is sampled; what was sampled is still what    *)
(* its pid says, unless the pid is used again; and the loop leaves nothing *)
(* behind that it has passed.  Each of its turns gives the bytes of one    *)
(* process to one place, so that none is lost or counted twice.            *)
(***************************************************************************)
EXTENDS Inventory, Sums

-----------------------------------------------------------------------------
(* The lists.                                                              *)

LEMMA TailFacts ==
    ASSUME NEW S, NEW list \in Seq(S), list # <<>>
    PROVE  /\ Tail(list) \in Seq(S) /\ Head(list) = list[1] /\ Head(list) \in S
           /\ \A x \in ToSet(list) : x = Head(list) \/ x \in ToSet(Tail(list))
<1>1. \A i \in DOMAIN list : i # 1 => i - 1 \in DOMAIN Tail(list) /\ Tail(list)[i - 1] = list[i]
    OBVIOUS
<1>2. Tail(list) \in Seq(S) /\ Head(list) = list[1] /\ Head(list) \in S
    OBVIOUS
<1>3. QED
    BY <1>1, <1>2 DEF ToSet

LEMMA ConcatFacts ==
    ASSUME NEW S, NEW s \in Seq(S), NEW t \in Seq(S)
    PROVE  /\ s \o t \in Seq(S)
           /\ Len(s \o t) = Len(s) + Len(t)
           /\ \A i \in DOMAIN s : i \in DOMAIN (s \o t) /\ (s \o t)[i] = s[i]
           /\ \A i \in DOMAIN t : Len(s) + i \in DOMAIN (s \o t) /\ (s \o t)[Len(s) + i] = t[i]
           /\ \A i \in DOMAIN (s \o t) :
                 \/ i \in DOMAIN s /\ (s \o t)[i] = s[i]
                 \/ i - Len(s) \in DOMAIN t /\ (s \o t)[i] = t[i - Len(s)]
OBVIOUS

LEMMA AppendFacts ==
    ASSUME NEW S, NEW s \in Seq(S), NEW e \in S
    PROVE  /\ Append(s, e) \in Seq(S)
           /\ \A i \in DOMAIN s : i \in DOMAIN Append(s, e) /\ Append(s, e)[i] = s[i]
           /\ \A i \in DOMAIN Append(s, e) : i \in DOMAIN s \/ Append(s, e)[i] = e
           /\ Len(s) + 1 \in DOMAIN Append(s, e) /\ Append(s, e)[Len(s) + 1] = e
OBVIOUS

LEMMA ItemFacts ==
    ASSUME NEW S, NEW s \in Seq(S)
    PROVE  DOMAIN s = 1 .. Len(s) /\ Len(s) \in Nat /\ \A i \in DOMAIN s : s[i] \in S
OBVIOUS

LEMMA EmptyFacts ==
    ASSUME NEW S
    PROVE  <<>> \in Seq(S) /\ 1 \in 1 .. Len(<<>>) + 1
OBVIOUS

LEMMA Halves ==
    ASSUME NEW i \in Int
    PROVE  /\ (2 * i - 1 + 1) \div 2 = i /\ (2 * i - 1) % 2 = 1
           /\ (2 * i + 1) \div 2 = i /\ (2 * i) % 2 = 0
<1>1. (2 * i - 1 + 1) \div 2 = i
    OBVIOUS
<1>2. (2 * i - 1) % 2 = 1
    OBVIOUS
<1>3. (2 * i + 1) \div 2 = i
    OBVIOUS
<1>4. (2 * i) % 2 = 0
    OBVIOUS
<1>5. QED
    BY <1>1, <1>2, <1>3, <1>4

\* Both lists of every device are read.
LEMMA AllListsComplete ==
    ASSUME NEW gpu \in ToSet(Gpus), NEW kind \in {"compute", "graphics"}
    PROVE  <<gpu, kind>> \in ToSet(AllLists)
<1>1. PICK i \in DOMAIN Gpus : Gpus[i] = gpu
    BY DEF ToSet
<1>2. Len(Gpus) \in Nat /\ i \in 1 .. Len(Gpus)
    BY InventoryAssumption, <1>1
<1>3. CASE kind = "compute"
    <2>1. 2 * i - 1 \in 1 .. 2 * Len(Gpus) /\ (2 * i - 1 + 1) \div 2 = i /\ (2 * i - 1) % 2 = 1
        <3>1. 2 * i - 1 \in 1 .. 2 * Len(Gpus)
            BY <1>2
        <3>2. QED
            BY <1>2, <3>1, Halves
    <2>2. 2 * i - 1 \in DOMAIN AllLists /\ AllLists[2 * i - 1] = <<gpu, kind>>
        BY <1>1, <1>3, <2>1 DEF AllLists
    <2>3. QED
        BY <2>2 DEF ToSet
<1>4. CASE kind = "graphics"
    <2>1. 2 * i \in 1 .. 2 * Len(Gpus) /\ (2 * i + 1) \div 2 = i /\ (2 * i) % 2 # 1
        <3>1. 2 * i \in 1 .. 2 * Len(Gpus)
            BY <1>2
        <3>2. (2 * i + 1) \div 2 = i /\ (2 * i) % 2 = 0
            BY <1>2, Halves
        <3>3. QED
            BY <3>1, <3>2
    <2>2. 2 * i \in DOMAIN AllLists /\ AllLists[2 * i] = <<gpu, kind>>
        BY <1>1, <1>4, <2>1 DEF AllLists
    <2>3. QED
        BY <2>2 DEF ToSet
<1>5. QED
    BY <1>3, <1>4

LEMMA AllListsTyped == AllLists \in Seq(ToSet(Gpus) \X {"compute", "graphics"})
<1>1. Len(Gpus) \in Nat /\ DOMAIN Gpus = 1 .. Len(Gpus)
    BY InventoryAssumption
<1>2. \A k \in 1 .. 2 * Len(Gpus) : (k + 1) \div 2 \in 1 .. Len(Gpus)
    BY <1>1
<1>3. \A k \in 1 .. 2 * Len(Gpus) : Gpus[(k + 1) \div 2] \in ToSet(Gpus)
    BY <1>1, <1>2 DEF ToSet
<1>4. 2 * Len(Gpus) \in Nat
    BY <1>1
<1>5. QED
    BY <1>3, <1>4 DEF AllLists

\* An order of a set has every member of it.
LEMMA OrderIsOnto ==
    ASSUME NEW S, IsFiniteSet(S), NEW order \in SetToSeqs(S)
    PROVE  /\ order \in Seq(S)
           /\ \A x \in S : \E i \in DOMAIN order : order[i] = x
<1> DEFINE D == 1 .. Cardinality(S)
<1>1. Cardinality(S) \in Nat
    BY FS_CardinalityType
<1>2. order \in [D -> S] /\ \A i, j \in D : i # j => order[i] # order[j]
    BY DEF SetToSeqs
<1>3. order \in Injection(D, S)
    BY <1>2 DEF Injection, IsInjective
<1>4. IsFiniteSet(D) /\ Cardinality(D) = Cardinality(S)
    BY <1>1, FS_Interval
<1>5. order \in Surjection(D, S)
    BY <1>3, <1>4, FS_Injection
<1>6. QED
    BY <1>1, <1>2, <1>5 DEF Surjection

-----------------------------------------------------------------------------
(* The machine.                                                            *)

LEMMA InitEstablishesReplyInv == Init => ReplyInv
<1> SUFFICES ASSUME Init
             PROVE  ReplyInv
    OBVIOUS
<1>1. TypeOK
    <2>1. /\ ok \in [ServiceIds -> BOOLEAN] /\ vram \in [ServiceIds -> Nat \cup {Null}]
          /\ claimed \in [ServiceIds -> SUBSET Sampled]
        BY DEF Init
    <2>2. table \in [Pids -> Processes \cup {Free, Gone}]
        BY DEF Init
    <2>3. QED
        BY <2>1, <2>2, EmptyFacts DEF Init, TypeOK
<1>2. Phases /\ SampleKnown /\ SteadyKept /\ SteadySampled /\ PassedReplied
    BY DEF Init, Phases, SampleKnown, SteadyKept, SteadySampled, PassedReplied
<1>3. AttributionHonest
    BY DEF Init, AttributionHonest
<1>4. QED
    BY <1>1, <1>2, <1>3 DEF ReplyInv

LEMMA StartKeepsReplyInv ==
    ASSUME ReplyInv, NEW p \in Pids, NEW x \in Processes, Start(p, x)
    PROVE  ReplyInv'
<1> USE DEF ReplyInv
<1>1. /\ p \notin running /\ UNCHANGED <<steady, blind, request>>
      /\ table' \in [Pids -> Processes \cup {Free, Gone}]
      /\ \A q \in Pids : q # p => table'[q] = table[q]
      /\ table'[p] = x
      /\ reused' = IF table[p] = Gone /\ pc # "idle" THEN reused \cup {p} ELSE reused
    BY DEF Start, TypeOK
<1>2. UNCHANGED <<pc, lists, procs, ok, next, vram, other, claimed>>
    BY <1>1 DEF request
<1>3. TypeOK'
    BY <1>1, <1>2 DEF TypeOK
<1>4. Phases'
    BY <1>1, <1>2 DEF Phases
<1>5. SampleKnown'
    <2>1. ASSUME NEW i \in DOMAIN procs, procs[i].pid \notin reused'
          PROVE  table'[procs[i].pid] \in {procs[i].process, Gone}
        <3>1. procs[i] \in Sampled /\ pc # "idle"
            BY DEF TypeOK, Phases
        <3>2. procs[i].pid \notin reused /\ table[procs[i].pid] \in {procs[i].process, Gone}
            BY <1>1, <2>1 DEF SampleKnown
        <3>3. procs[i].pid # p
            BY <1>1, <2>1, <3>1, <3>2 DEF running, Sampled
        <3>4. QED
            BY <1>1, <3>1, <3>2, <3>3 DEF Sampled
    <2>2. QED
        BY <1>2, <2>1 DEF SampleKnown
<1>6. SteadyKept'
    BY <1>1, <1>2 DEF SteadyKept, running
<1>7. \A q \in steady : table'[q] = table[q]
    BY <1>1 DEF SteadyKept, running
<1>8. SteadySampled' /\ PassedReplied'
    BY <1>1, <1>2, <1>7 DEF SteadySampled, PassedReplied, Replied
<1>9. AttributionHonest'
    BY <1>1, <1>2 DEF AttributionHonest
<1>10. QED
    BY <1>3, <1>4, <1>5, <1>6, <1>8, <1>9

LEMMA ExitKeepsReplyInv ==
    ASSUME ReplyInv, NEW p \in Pids, ExitProcess(p)
    PROVE  ReplyInv'
<1> USE DEF ReplyInv
<1>1. /\ p \in running /\ UNCHANGED <<reused, blind, request>>
      /\ table' \in [Pids -> Processes \cup {Free, Gone}]
      /\ \A q \in Pids : q # p => table'[q] = table[q]
      /\ table'[p] = Gone
      /\ steady' = steady \ {p}
    BY DEF ExitProcess, TypeOK
<1>2. UNCHANGED <<pc, lists, procs, ok, next, vram, other, claimed>>
    BY <1>1 DEF request
<1>3. TypeOK'
    BY <1>1, <1>2 DEF TypeOK
<1>4. Phases'
    BY <1>1, <1>2 DEF Phases
<1>5. SampleKnown'
    <2>1. ASSUME NEW i \in DOMAIN procs
          PROVE  table'[procs[i].pid] \in {table[procs[i].pid], Gone}
        <3>1. procs[i] \in Sampled
            BY DEF TypeOK
        <3>2. QED
            BY <1>1, <3>1 DEF Sampled
    <2>2. QED
        BY <1>1, <1>2, <2>1 DEF SampleKnown
<1>6. SteadyKept'
    BY <1>1, <1>2 DEF SteadyKept, running
<1>7. steady' \subseteq steady /\ \A q \in steady' : table'[q] = table[q]
    BY <1>1 DEF SteadyKept, running
<1>8. SteadySampled' /\ PassedReplied'
    BY <1>1, <1>2, <1>7 DEF SteadySampled, PassedReplied, Replied
<1>9. AttributionHonest'
    BY <1>1, <1>2 DEF AttributionHonest
<1>10. QED
    BY <1>3, <1>4, <1>5, <1>6, <1>8, <1>9

-----------------------------------------------------------------------------
(* The request.                                                            *)

LEMMA BeginKeepsReplyInv ==
    ASSUME ReplyInv, Begin
    PROVE  ReplyInv'
<1> USE DEF ReplyInv
<1>1. /\ pc = "idle" /\ pc' = "sample" /\ lists' = AllLists /\ steady' = running
      /\ procs = <<>> /\ reused = {} /\ next = 1
      /\ UNCHANGED <<table, procs, ok, next, vram, other, claimed, reused, blind>>
    BY DEF Begin, Phases
<1>2. TypeOK'
    BY <1>1, AllListsTyped DEF TypeOK, running
<1>3. Phases' /\ SampleKnown' /\ PassedReplied'
    BY <1>1 DEF Phases, SampleKnown, PassedReplied
<1>4. SteadyKept'
    BY <1>1 DEF SteadyKept, running
<1>5. SteadySampled'
    <2>1. ASSUME NEW p \in running, NEW kind \in table[p].kinds
          PROVE  <<table[p].gpu, kind>> \in ToSet(AllLists)
        BY <2>1, InventoryAssumption, AllListsComplete DEF running
    <2>2. QED
        BY <1>1, <2>1 DEF SteadySampled
<1>6. AttributionHonest'
    BY <1>1 DEF AttributionHonest
<1>7. QED
    BY <1>2, <1>3, <1>4, <1>5, <1>6

LEMMA ReadListKeepsReplyInv ==
    ASSUME ReplyInv, ReadList
    PROVE  ReplyInv'
<1> USE DEF ReplyInv
<1> DEFINE list == Head(lists)
<1>1. PICK order \in SetToSeqs(Listed(list)) :
        procs' = procs \o [i \in DOMAIN order |->
            [pid |-> order[i], mem |-> table[order[i]].mem, process |-> table[order[i]]]]
    BY DEF ReadList
<1> DEFINE new == [i \in DOMAIN order |->
            [pid |-> order[i], mem |-> table[order[i]].mem, process |-> table[order[i]]]]
<1>2. /\ pc = "sample" /\ lists # <<>> /\ lists' = Tail(lists) /\ next = 1
      /\ UNCHANGED <<table, pc, ok, next, vram, other, claimed, steady, reused, blind>>
    BY DEF ReadList, Phases, history
<1>3. Listed(list) \subseteq running /\ running \subseteq Pids /\ IsFiniteSet(Listed(list))
    BY InventoryAssumption, FS_Subset DEF Listed, running
<1>4. order \in Seq(Listed(list)) /\ \A p \in Listed(list) : \E i \in DOMAIN order : order[i] = p
    BY <1>3, OrderIsOnto
<1>5. \A i \in DOMAIN order : order[i] \in running /\ new[i] \in Sampled
    BY <1>3, <1>4, InventoryAssumption DEF running, Sampled
<1>6. new \in Seq(Sampled) /\ DOMAIN new = DOMAIN order
    BY <1>4, <1>5
<1>7. procs \in Seq(Sampled) /\ procs' = procs \o new
    BY <1>1 DEF TypeOK
<1> HIDE DEF new
<1>8. /\ procs' \in Seq(Sampled) /\ Len(procs') \in Nat
      /\ \A i \in DOMAIN procs : i \in DOMAIN procs' /\ procs'[i] = procs[i]
      /\ \A i \in DOMAIN new : Len(procs) + i \in DOMAIN procs' /\ procs'[Len(procs) + i] = new[i]
      /\ \A i \in DOMAIN procs' :
            \/ i \in DOMAIN procs /\ procs'[i] = procs[i]
            \/ i - Len(procs) \in DOMAIN new /\ procs'[i] = new[i - Len(procs)]
    BY <1>6, <1>7, ConcatFacts
<1>9. lists' \in Seq(ToSet(Gpus) \X {"compute", "graphics"})
    BY <1>2, TailFacts DEF TypeOK
<1>10. TypeOK'
    BY <1>2, <1>8, <1>9 DEF TypeOK
<1>11. Phases'
    BY <1>2 DEF Phases
<1>12. \A i \in DOMAIN new : /\ new[i].pid = order[i] /\ new[i].mem = table[order[i]].mem
                             /\ new[i].process = table[order[i]]
    BY <1>6 DEF new
<1>13. SampleKnown'
    <2>1. \A i \in DOMAIN new : /\ new[i].mem = new[i].process.mem
                                /\ table[new[i].pid] = new[i].process
        BY <1>12
    <2>2. QED
        BY <1>2, <1>8, <2>1 DEF SampleKnown
<1>14. SteadyKept'
    BY <1>2 DEF SteadyKept, running
<1>15. SteadySampled'
    <2>1. ASSUME ~blind, NEW p \in steady, NEW kind \in table[p].kinds,
                 <<table[p].gpu, kind>> \notin ToSet(lists')
          PROVE  \E i \in DOMAIN procs' : procs'[i].pid = p
        <3>1. CASE <<table[p].gpu, kind>> \in ToSet(lists)
            <4>1. <<table[p].gpu, kind>> = list
                BY <1>2, <2>1, <3>1, TailFacts DEF TypeOK
            <4>2. p \in Listed(list)
                BY <4>1 DEF Listed, SteadyKept
            <4>3. PICK i \in DOMAIN new : order[i] = p
                BY <1>4, <1>6, <4>2
            <4>4. Len(procs) + i \in DOMAIN procs' /\ procs'[Len(procs) + i].pid = p
                BY <1>8, <1>12, <4>3
            <4>5. QED
                BY <4>4
        <3>2. CASE <<table[p].gpu, kind>> \notin ToSet(lists)
            BY <1>2, <1>8, <2>1, <3>2 DEF SteadySampled
        <3>3. QED
            BY <3>1, <3>2
    <2>2. QED
        BY <1>2, <2>1 DEF SteadySampled
<1>16. PassedReplied'
    <2>1. \A i \in DOMAIN procs' : ~(i < 1)
        BY <1>8
    <2>2. QED
        BY <1>2, <2>1 DEF PassedReplied
<1>17. AttributionHonest'
    BY <1>2 DEF AttributionHonest
<1>18. QED
    BY <1>10, <1>11, <1>13, <1>14, <1>15, <1>16, <1>17

\* A call that raised excuses the request, and the phases pass on what they
\* were given.
LEMMA FailuresKeepReplyInv ==
    ASSUME ReplyInv, FailToReadList \/ FailToSample
    PROVE  ReplyInv'
<1> USE DEF ReplyInv
<1>1. /\ pc = "sample" /\ next = 1 /\ blind'
      /\ lists # <<>> /\ lists' \in {Tail(lists), <<>>} /\ procs' \in {procs, <<>>}
      /\ UNCHANGED <<table, pc, ok, next, vram, other, claimed, steady, reused>>
    BY DEF FailToReadList, FailToSample, Phases
<1>2. lists' \in Seq(ToSet(Gpus) \X {"compute", "graphics"})
    <2> DEFINE S == ToSet(Gpus) \X {"compute", "graphics"}
    <2>1. lists \in Seq(S)
        BY DEF TypeOK
    <2> HIDE DEF S
    <2>2. Tail(lists) \in Seq(S) /\ <<>> \in Seq(S)
        BY <1>1, <2>1, TailFacts
    <2>3. QED
        BY <1>1, <2>2 DEF S
<1>3. procs' \in Seq(Sampled) /\ next \in 1 .. Len(procs') + 1
    <2>1. procs \in Seq(Sampled) /\ <<>> \in Seq(Sampled)
        BY DEF TypeOK
    <2>2. procs' \in Seq(Sampled)
        BY <1>1, <2>1
    <2>3. QED
        BY <1>1, <2>2
<1>4. TypeOK'
    BY <1>1, <1>2, <1>3 DEF TypeOK
<1>5. Phases' /\ SampleKnown'
    BY <1>1 DEF Phases, SampleKnown
<1>6. SteadyKept' /\ SteadySampled' /\ AttributionHonest'
    BY <1>1 DEF SteadyKept, SteadySampled, AttributionHonest, running
<1>7. PassedReplied'
    BY <1>1, <1>3 DEF PassedReplied
<1>8. QED
    BY <1>4, <1>5, <1>6, <1>7

LEMMA PhasesKeepReplyInv ==
    ASSUME ReplyInv, EndSample \/ ListServices \/ Reply
    PROVE  ReplyInv'
<1> USE DEF ReplyInv
<1>1. /\ pc # "idle" /\ pc' \in {"list", "attribute", "done"} /\ lists = <<>>
      /\ pc' = "list" => next = 1
      /\ pc' = "done" => next = Len(procs) + 1
      /\ ok' \in [ServiceIds -> BOOLEAN]
      /\ UNCHANGED <<table, lists, procs, next, vram, other, claimed, steady, reused, blind>>
    <2>1. CASE EndSample
        BY <2>1 DEF EndSample, Phases, TypeOK, history
    <2>2. CASE ListServices
        <3>1. ok' \in [ServiceIds -> BOOLEAN]
            BY <2>2 DEF ListServices, Lists
        <3>2. QED
            BY <2>2, <3>1 DEF ListServices, Phases, history
    <2>3. CASE Reply
        <3>1. next \in 1 .. Len(procs) + 1 /\ Len(procs) \in Nat /\ next > Len(procs)
            BY <2>3 DEF Reply, TypeOK
        <3>2. QED
            BY <2>3, <3>1 DEF Reply, Phases, TypeOK, history
    <2>4. QED
        BY <2>1, <2>2, <2>3
<1>2. TypeOK' /\ Phases'
    BY <1>1 DEF TypeOK, Phases
<1>3. SampleKnown' /\ SteadyKept' /\ SteadySampled' /\ PassedReplied' /\ AttributionHonest'
    BY <1>1 DEF SampleKnown, SteadyKept, SteadySampled, PassedReplied, Replied, AttributionHonest,
       running
<1>4. QED
    BY <1>2, <1>3

\* A name that some service is configured with has an owner.
LEMMA OwnedIfKnown ==
    ASSUME NEW cname, cname # NoContainer, Owners(cname) = {}
    PROVE  \A s \in ServiceIds : Container[s] # cname
<1> SUFFICES ASSUME NEW s \in ServiceIds, Container[s] = cname PROVE FALSE
    OBVIOUS
<1>1. PICK n \in Nat : n = Len(Services) /\ DOMAIN Services = 1 .. n
    BY InventoryAssumption
<1>2. PICK Back : Back = {n - j : j \in {i \in 1 .. n : Container[Services[i]] = cname}}
    OBVIOUS
<1>3. Back \in SUBSET Nat /\ Back # {}
    BY <1>1, <1>2 DEF ServiceIds, ToSet
<1>4. PICK b \in Back : \A c \in Back : b <= c
    BY <1>3, Least
<1>5. PICK k \in 1 .. n : b = n - k /\ Container[Services[k]] = cname
    BY <1>2, <1>4
<1>6. \A j \in 1 .. n : Container[Services[j]] = cname => j <= k
    <2>1. ASSUME NEW j \in 1 .. n, Container[Services[j]] = cname PROVE j <= k
        <3>1. n - j \in Back
            BY <1>2, <2>1
        <3>2. n - k <= n - j
            BY <1>4, <1>5, <3>1
        <3>3. QED
            BY <3>2
    <2>2. QED
        BY <2>1
<1>7. Services[k] \in ServiceIds
    BY <1>1, <1>5 DEF ServiceIds, ToSet
<1>8. Services[k] \in Owners(cname)
    BY <1>1, <1>5, <1>6, <1>7, InventoryAssumption DEF Owners
<1>9. QED
    BY <1>8

LEMMA AttributeKeepsReplyInv ==
    ASSUME ReplyInv, Attribute
    PROVE  ReplyInv'
<1> USE DEF ReplyInv
<1>0. PICK x : x = procs[next]
    OBVIOUS
<1>1. /\ pc = "attribute" /\ next \in DOMAIN procs /\ next' = next + 1 /\ x \in Sampled
      /\ UNCHANGED <<table, pc, lists, procs, ok, steady, reused, blind>>
    BY <1>0 DEF Attribute, TypeOK, history
<1>2. PICK cname \in NameOf(x.pid) :
            \/ \E s \in Owners(cname) :
                /\ vram' = [vram EXCEPT ![s] = Add(@, x.mem)]
                /\ claimed' = [claimed EXCEPT ![s] = @ \cup {x}]
                /\ UNCHANGED other
            \/ /\ Owners(cname) = {}
               /\ other' = Append(other, [pid |-> x.pid, mem |-> x.mem, container |-> cname])
               /\ UNCHANGED <<vram, claimed>>
    BY <1>0 DEF Attribute
<1>3. Phases' /\ SampleKnown' /\ SteadyKept' /\ SteadySampled' /\ next' \in 1 .. Len(procs') + 1
    BY <1>1 DEF Phases, SampleKnown, SteadyKept, SteadySampled, running, TypeOK
<1>4. CASE \E s \in Owners(cname) :
                /\ vram' = [vram EXCEPT ![s] = Add(@, x.mem)]
                /\ claimed' = [claimed EXCEPT ![s] = @ \cup {x}]
                /\ UNCHANGED other
    <2>1. PICK s \in Owners(cname) :
                /\ vram' = [vram EXCEPT ![s] = Add(@, x.mem)]
                /\ claimed' = [claimed EXCEPT ![s] = @ \cup {x}]
                /\ UNCHANGED other
        BY <1>4
    <2>2. s \in ServiceIds /\ cname # NoContainer /\ Container[s] = cname
        BY DEF Owners
    <2>3. /\ vram[s] \in Nat \cup {Null} /\ x.mem \in Nat \cup {Null}
          /\ vram'[s] = Add(vram[s], x.mem) /\ claimed'[s] = claimed[s] \cup {x}
          /\ \A t \in ServiceIds : t # s => vram'[t] = vram[t] /\ claimed'[t] = claimed[t]
        BY <1>1, <2>1, <2>2 DEF TypeOK, Sampled
    <2>4. /\ Add(vram[s], x.mem) \in Nat \cup {Null}
          /\ x.mem # Null \/ vram[s] # Null => Add(vram[s], x.mem) # Null
        BY <2>3, InventoryAssumption DEF Add
    <2>5. TypeOK'
        BY <1>1, <1>3, <2>1, <2>2, <2>4 DEF TypeOK
    <2>6. PassedReplied'
        <3>1. ASSUME NEW y, Replied(y)
              PROVE  Replied(y)'
            BY <2>1, <2>3, <2>4, <3>1 DEF Replied
        <3>2. Replied(x)'
            BY <2>2, <2>3, <2>4 DEF Replied
        <3>3. \A i \in DOMAIN procs : i < next' => i < next \/ i = next
            BY <1>1 DEF TypeOK
        <3>4. QED
            BY <1>0, <1>1, <3>1, <3>2, <3>3 DEF PassedReplied
    <2>7. AttributionHonest'
        <3>1. /\ x.pid \in running /\ table[x.pid].container \in Containers
              /\ cname \in Called[table[x.pid].container]
            BY <1>2, <2>2 DEF NameOf
        <3>2. x.pid \in reused \/ table[x.pid] = x.process
            BY <1>0, <1>1, <3>1, InventoryAssumption DEF SampleKnown, running
        <3>3. \/ x.pid \in reused
              \/ /\ x.process.container \in Containers
                 /\ Container[s] \in Called[x.process.container]
            BY <2>2, <3>1, <3>2
        <3>4. QED
            BY <1>1, <2>1, <2>2, <2>3, <3>3 DEF AttributionHonest
    <2>8. QED
        BY <1>3, <2>5, <2>6, <2>7
<1>5. CASE /\ Owners(cname) = {}
           /\ other' = Append(other, [pid |-> x.pid, mem |-> x.mem, container |-> cname])
           /\ UNCHANGED <<vram, claimed>>
    <2>0. PICK last : last = [pid |-> x.pid, mem |-> x.mem, container |-> cname]
        OBVIOUS
    <2>1. /\ other' \in Seq(Unowned)
          /\ \A j \in DOMAIN other : j \in DOMAIN other' /\ other'[j] = other[j]
          /\ \A j \in DOMAIN other' : j \in DOMAIN other \/ other'[j] = last
          /\ \E j \in DOMAIN other' : other'[j].pid = x.pid
        <3>1. cname \in Names \cup {NoContainer}
            BY <1>2, InventoryAssumption DEF NameOf
        <3>2. last \in Unowned /\ other \in Seq(Unowned)
            BY <1>1, <2>0, <3>1 DEF Sampled, Unowned, TypeOK
        <3>3. other' = Append(other, last) /\ last.pid = x.pid
            BY <1>5, <2>0
        <3>4. QED
            BY <3>2, <3>3, AppendFacts
    <2>2. TypeOK'
        BY <1>1, <1>3, <1>5, <2>1 DEF TypeOK
    <2>3. PassedReplied'
        <3>1. ASSUME NEW y, Replied(y)
              PROVE  Replied(y)'
            BY <1>5, <2>1, <3>1 DEF Replied
        <3>2. Replied(x)'
            BY <1>1, <2>1 DEF Replied
        <3>3. \A i \in DOMAIN procs : i < next' => i < next \/ i = next
            BY <1>1 DEF TypeOK
        <3>4. QED
            BY <1>0, <1>1, <3>1, <3>2, <3>3 DEF PassedReplied
    <2>4. AttributionHonest'
        <3>1. cname = NoContainer \/ \A s \in ServiceIds : Container[s] # cname
            BY <1>5, OwnedIfKnown
        <3>2. cname \in Names \cup {NoContainer}
            BY <1>2, InventoryAssumption DEF NameOf
        <3>3. last.container = cname
            BY <2>0
        <3>4. QED
            BY <1>1, <1>5, <2>1, <3>1, <3>2, <3>3 DEF AttributionHonest
    <2>5. QED
        BY <1>3, <2>2, <2>3, <2>4
<1>6. QED
    BY <1>2, <1>4, <1>5

LEMMA CloseKeepsReplyInv ==
    ASSUME ReplyInv, Close
    PROVE  ReplyInv'
<1> USE DEF ReplyInv, Close
<1>1. TypeOK'
    <2>1. /\ ok' \in [ServiceIds -> BOOLEAN] /\ vram' \in [ServiceIds -> Nat \cup {Null}]
          /\ claimed' \in [ServiceIds -> SUBSET Sampled]
        OBVIOUS
    <2>2. QED
        BY <2>1, EmptyFacts DEF TypeOK
<1>2. Phases' /\ SampleKnown' /\ SteadyKept' /\ SteadySampled' /\ PassedReplied'
    BY DEF Phases, SampleKnown, SteadyKept, SteadySampled, PassedReplied
<1>3. AttributionHonest'
    BY DEF AttributionHonest
<1>4. QED
    BY <1>1, <1>2, <1>3

\* ReplyInv is inductive.
LEMMA ReplyInvariantHolds == Spec => []ReplyInv
<1>1. ASSUME ReplyInv, [Next]_vars
      PROVE  ReplyInv'
    <2>1. CASE \E p \in Pids : ExitProcess(p) \/ \E x \in Processes : Start(p, x)
        BY <1>1, <2>1, StartKeepsReplyInv, ExitKeepsReplyInv
    <2>2. CASE Snapshot
        BY <1>1, <2>2, BeginKeepsReplyInv, ReadListKeepsReplyInv, FailuresKeepReplyInv,
           PhasesKeepReplyInv, AttributeKeepsReplyInv, CloseKeepsReplyInv DEF Snapshot
    <2>3. CASE UNCHANGED vars
        BY <1>1, <2>3 DEF vars, history, ReplyInv, TypeOK, Phases, SampleKnown, SteadyKept,
           SteadySampled, PassedReplied, Replied, AttributionHonest, running
    <2>4. QED
        BY <1>1, <2>1, <2>2, <2>3 DEF Next
<1>2. QED
    BY <1>1, InitEstablishesReplyInv, PTL DEF Spec

-----------------------------------------------------------------------------
(* The bytes.                                                              *)

\* A block is as many bytes as its size says.
LEMMA BlockSize ==
    ASSUME NEW k, NEW a \in Nat, NEW b \in Nat, a <= b
    PROVE  /\ IsFiniteSet({k} \X (a + 1 .. b))
           /\ Cardinality({k} \X (a + 1 .. b)) = b - a
<1>1. IsFiniteSet({k}) /\ Cardinality({k}) = 1
    BY FS_Singleton
<1>2. IsFiniteSet(a + 1 .. b) /\ Cardinality(a + 1 .. b) = b - a
    <2>1. PICK c \in Int : c = a + 1
        OBVIOUS
    <2>2. IsFiniteSet(c .. b) /\ Cardinality(c .. b) = (IF c > b THEN 0 ELSE b - c + 1)
        BY FS_Interval
    <2>3. QED
        BY <2>1, <2>2
<1>3. PICK S, T : S = {k} /\ T = a + 1 .. b
    OBVIOUS
<1>4. /\ IsFiniteSet(S \X T)
      /\ Cardinality(S \X T) = Cardinality(S) * Cardinality(T)
    BY <1>1, <1>2, <1>3, FS_Product
<1>5. Cardinality(S) = 1 /\ Cardinality(T) = b - a /\ 1 * (b - a) = b - a
    BY <1>1, <1>2, <1>3
<1>6. QED
    BY <1>3, <1>4, <1>5

LEMMA BytesFinite ==
    ASSUME NEW D, IsFiniteSet(D), NEW f \in [D -> Nat]
    PROVE  IsFiniteSet(Bytes(f)) /\ Total(f) \in Nat
<1> DEFINE Blocks == {{k} \X (1 .. f[k]) : k \in D}
           block == [k \in D |-> {k} \X (1 .. f[k])]
<1>1. block \in Surjection(D, Blocks)
    BY DEF Surjection
<1>2. IsFiniteSet(Blocks)
    BY <1>1, FS_Surjection
<1>3. ASSUME NEW k \in D
      PROVE  IsFiniteSet({k} \X (1 .. f[k]))
    <2>1. f[k] \in Nat /\ 0 <= f[k] /\ 0 \in Nat /\ 0 + 1 = 1
        OBVIOUS
    <2>2. QED
        BY <2>1, BlockSize
<1>4. IsFiniteSet(UNION Blocks)
    BY <1>2, <1>3, FS_UNION
<1>5. IsFiniteSet(Bytes(f))
    BY <1>4 DEF Bytes
<1>6. QED
    BY <1>5, FS_CardinalityType DEF Total

LEMMA NoBytes ==
    ASSUME NEW f, \A k \in DOMAIN f : f[k] = 0
    PROVE  Total(f) = 0
<1>1. ASSUME NEW e \in Bytes(f)
      PROVE  FALSE
    <2>1. PICK k \in DOMAIN f : e \in {k} \X (1 .. f[k])
        BY DEF Bytes
    <2>2. PICK b \in 1 .. f[k] : e = <<k, b>>
        BY <2>1
    <2>3. f[k] = 0
        OBVIOUS
    <2>4. QED
        BY <2>2, <2>3
<1>2. Bytes(f) = {}
    <2> SUFFICES ASSUME Bytes(f) # {} PROVE FALSE
        OBVIOUS
    <2>1. PICK e : e \in Bytes(f)
        OBVIOUS
    <2>2. QED
        BY <1>1, <2>1
<1>3. QED
    BY <1>2, FS_EmptySet DEF Total

\* One block grows, or is new: that many bytes are added.
LEMMA TotalGrows ==
    ASSUME NEW f, NEW g, NEW s, NEW added \in Nat,
           f \in [DOMAIN f -> Nat], IsFiniteSet(DOMAIN f), g \in [DOMAIN g -> Nat],
           DOMAIN g = DOMAIN f \cup {s}, \A k \in DOMAIN f \ {s} : g[k] = f[k],
           g[s] = (IF s \in DOMAIN f THEN f[s] ELSE 0) + added
    PROVE  Total(g) = Total(f) + added
<1> DEFINE n == IF s \in DOMAIN f THEN f[s] ELSE 0
           New == {s} \X (n + 1 .. g[s])
<1>0. n \in Nat /\ g[s] \in Nat /\ n <= g[s] /\ added = g[s] - n /\ s \in DOMAIN g
    OBVIOUS
<1>1. IsFiniteSet(New) /\ Cardinality(New) = added
    BY <1>0, BlockSize
<1>2. IsFiniteSet(Bytes(f))
    BY BytesFinite
<1>3. Bytes(f) \cap New = {}
    <2> SUFFICES ASSUME NEW e \in Bytes(f), e \in New PROVE FALSE
        OBVIOUS
    <2>1. PICK k \in DOMAIN f : e \in {k} \X (1 .. f[k])
        BY DEF Bytes
    <2>2. e[1] = s /\ e[1] = k /\ e[2] \in n + 1 .. g[s] /\ e[2] \in 1 .. f[k]
        BY <2>1
    <2>3. QED
        BY <2>2
<1>4. Bytes(g) = Bytes(f) \cup New
    <2>1. ASSUME NEW e \in Bytes(g)
          PROVE  e \in Bytes(f) \cup New
        <3>1. PICK k \in DOMAIN g : e \in {k} \X (1 .. g[k])
            BY DEF Bytes
        <3>2. CASE k = s
            <4>1. PICK b \in 1 .. g[s] : e = <<s, b>>
                BY <3>1, <3>2
            <4>2. CASE b > n
                BY <1>0, <4>1, <4>2
            <4>3. CASE b <= n
                <5>1. s \in DOMAIN f /\ b \in 1 .. f[s]
                    BY <1>0, <4>3
                <5>2. e \in {s} \X (1 .. f[s])
                    BY <4>1, <5>1
                <5>3. QED
                    BY <5>1, <5>2 DEF Bytes
            <4>4. QED
                BY <1>0, <4>2, <4>3
        <3>3. CASE k # s
            BY <3>1, <3>3 DEF Bytes
        <3>4. QED
            BY <3>2, <3>3
    <2>2. ASSUME NEW e \in Bytes(f)
          PROVE  e \in Bytes(g)
        <3>1. PICK k \in DOMAIN f : e \in {k} \X (1 .. f[k])
            BY DEF Bytes
        <3>2. k \in DOMAIN g /\ f[k] <= g[k] /\ f[k] \in Nat /\ g[k] \in Nat
            BY <1>0
        <3>3. e \in {k} \X (1 .. g[k])
            BY <3>1, <3>2
        <3>4. QED
            BY <3>2, <3>3 DEF Bytes
    <2>3. ASSUME NEW e \in New
          PROVE  e \in Bytes(g)
        <3>1. e \in {s} \X (1 .. g[s])
            BY <1>0
        <3>2. QED
            BY <1>0, <3>1 DEF Bytes
    <2>4. QED
        BY <2>1, <2>2, <2>3
<1>5. Cardinality(Bytes(g)) = Cardinality(Bytes(f)) + Cardinality(New) - Cardinality({})
    BY <1>1, <1>2, <1>3, <1>4, FS_Union
<1>6. Cardinality({}) = 0 /\ Cardinality(Bytes(f)) \in Nat
    BY <1>2, FS_EmptySet, FS_CardinalityType
<1> HIDE DEF New
<1>7. QED
    BY <1>1, <1>5, <1>6 DEF Total

LEMMA ServicesFinite == IsFiniteSet(ServiceIds)
<1>1. Services \in Surjection(1 .. Len(Services), ServiceIds) /\ Len(Services) \in Nat
    BY InventoryAssumption DEF ServiceIds, ToSet, Surjection
<1>2. IsFiniteSet(1 .. Len(Services))
    BY <1>1, FS_Interval
<1>3. QED
    BY <1>1, <1>2, FS_Surjection

\* What the three totals are made of.
LEMMA SizesTyped ==
    ASSUME TypeOK
    PROVE  /\ Given \in [ServiceIds -> Nat]
           /\ Listing \in [DOMAIN other -> Nat] /\ IsFiniteSet(DOMAIN other)
           /\ Told \in [1 .. next - 1 -> Nat] /\ IsFiniteSet(1 .. next - 1)
<1>1. \A m \in Nat \cup {Null} : Known(m) \in Nat
    BY DEF Known
<1>2. Given \in [ServiceIds -> Nat]
    BY <1>1 DEF TypeOK, Given
<1>3. DOMAIN other = 1 .. Len(other) /\ Len(other) \in Nat
    BY DEF TypeOK
<1>4. \A j \in DOMAIN other : other[j].mem \in Nat \cup {Null}
    <2>1. PICK R : R = Unowned /\ other \in Seq(R)
        BY DEF TypeOK
    <2>2. \A j \in DOMAIN other : other[j] \in R
        BY <2>1, ItemFacts
    <2>3. QED
        BY <2>1, <2>2 DEF Unowned
<1>5. \A i \in 1 .. next - 1 : procs[i].mem \in Nat \cup {Null}
    <2>1. \A i \in 1 .. next - 1 : procs[i] \in Sampled
        BY DEF TypeOK
    <2>2. QED
        BY <2>1 DEF Sampled
<1>6. next - 1 \in Nat
    BY DEF TypeOK
<1>7. Listing \in [DOMAIN other -> Nat] /\ Told \in [1 .. next - 1 -> Nat]
    BY <1>1, <1>4, <1>5 DEF Listing, Told
<1>8. IsFiniteSet(1 .. Len(other)) /\ IsFiniteSet(1 .. next - 1)
    BY <1>3, <1>6, FS_Interval
<1>9. QED
    BY <1>2, <1>3, <1>7, <1>8

LEMMA NothingGivenYet ==
    ASSUME vram = [s \in ServiceIds |-> Null], other = <<>>, next = 1
    PROVE  VramConserved
<1>1. Total(Given) = 0
    BY NoBytes DEF Given, Known
<1>2. Total(Listing) = 0
    BY NoBytes DEF Listing
<1>3. Total(Told) = 0
    BY NoBytes DEF Told
<1>4. QED
    BY <1>1, <1>2, <1>3 DEF VramConserved

\* The next process: its bytes are told, and given to one service or listed.
LEMMA AttributeConserves ==
    ASSUME ReplyInv, VramConserved, Attribute
    PROVE  VramConserved'
<1> USE DEF ReplyInv
<1>0. PICK x : x = procs[next]
    OBVIOUS
<1>1. /\ next \in DOMAIN procs /\ next' = next + 1 /\ next \in Nat /\ next >= 1
      /\ x \in Sampled /\ procs' = procs
    BY <1>0 DEF Attribute, TypeOK
<1>2. PICK n \in Nat : n = Known(x.mem)
    BY <1>1 DEF Known, Sampled
<1>3. TypeOK'
    BY AttributeKeepsReplyInv
<1>4. /\ Given \in [ServiceIds -> Nat] /\ Given' \in [ServiceIds -> Nat]
      /\ Listing \in [DOMAIN other -> Nat] /\ Listing' \in [DOMAIN other' -> Nat]
      /\ IsFiniteSet(DOMAIN other) /\ IsFiniteSet(1 .. next - 1)
      /\ Told \in [1 .. next - 1 -> Nat] /\ Told' \in [1 .. next -> Nat]
    <2>1. next' - 1 = next
        BY <1>1
    <2>2. /\ (Given \in [ServiceIds -> Nat])'
          /\ (Listing \in [DOMAIN other -> Nat])'
          /\ (Told \in [1 .. next - 1 -> Nat])'
        BY <1>3, SizesTyped, PTL
    <2>3. QED
        BY <2>1, <2>2, SizesTyped
<1>5. Total(Told') = Total(Told) + n
    <2>1. Told'[next] = n /\ \A i \in 1 .. next - 1 : Told'[i] = Told[i]
        BY <1>0, <1>1, <1>2 DEF Told
    <2>2. /\ DOMAIN Told = 1 .. next - 1 /\ DOMAIN Told' = 1 .. next
          /\ next \notin 1 .. next - 1 /\ 1 .. next = (1 .. next - 1) \cup {next}
        BY <1>1, <1>4
    <2>3. Told'[next] = (IF next \in DOMAIN Told THEN Told[next] ELSE 0) + n
        BY <1>2, <2>1, <2>2
    <2>4. /\ Told \in [DOMAIN Told -> Nat] /\ IsFiniteSet(DOMAIN Told)
          /\ Told' \in [DOMAIN Told' -> Nat] /\ DOMAIN Told' = DOMAIN Told \cup {next}
          /\ \A i \in DOMAIN Told \ {next} : Told'[i] = Told[i]
        BY <1>4, <2>1, <2>2
    <2>5. QED
        BY <1>2, <2>3, <2>4, TotalGrows
<1>6. Total(Given) \in Nat /\ Total(Listing) \in Nat /\ Total(Told) \in Nat
    BY <1>4, BytesFinite, ServicesFinite
<1>7. ASSUME NEW s \in ServiceIds,
             vram' = [vram EXCEPT ![s] = Add(@, x.mem)], UNCHANGED other
      PROVE  VramConserved'
    <2>1. Listing' = Listing
        BY <1>7 DEF Listing
    <2>2. vram[s] \in Nat \cup {Null} /\ vram'[s] = Add(vram[s], x.mem)
          /\ \A t \in ServiceIds : t # s => vram'[t] = vram[t]
        BY <1>7 DEF TypeOK
    <2>3. Given'[s] = Given[s] + n /\ \A t \in ServiceIds : t # s => Given'[t] = Given[t]
        <3>1. Known(Add(vram[s], x.mem)) = Known(vram[s]) + n
            BY <1>1, <1>2, <2>2, InventoryAssumption DEF Known, Add, Sampled
        <3>2. QED
            BY <2>2, <3>1 DEF Given
    <2>4. Total(Given') = Total(Given) + n
        <3>1. /\ DOMAIN Given = ServiceIds /\ DOMAIN Given' = ServiceIds \cup {s}
              /\ Given'[s] = (IF s \in DOMAIN Given THEN Given[s] ELSE 0) + n
            BY <1>4, <2>3
        <3>2. QED
            BY <1>2, <1>4, <2>3, <3>1, ServicesFinite, TotalGrows
    <2>5. QED
        BY <1>5, <1>6, <2>1, <2>4 DEF VramConserved
<1>8. ASSUME NEW cname, UNCHANGED vram,
             other' = Append(other, [pid |-> x.pid, mem |-> x.mem, container |-> cname])
      PROVE  VramConserved'
    <2>1. Given' = Given
        BY <1>8 DEF Given
    <2> DEFINE last == Len(other) + 1
    <2>2. /\ DOMAIN other' = DOMAIN other \cup {last} /\ last \notin DOMAIN other
          /\ other'[last].mem = x.mem /\ \A j \in DOMAIN other : other'[j] = other[j]
        <3>1. other \in Seq(Unowned)
            BY DEF TypeOK
        <3>2. QED
            BY <1>8, <3>1
    <2>3. Listing'[last] = n /\ \A j \in DOMAIN other : Listing'[j] = Listing[j]
        BY <1>2, <2>2 DEF Listing
    <2> HIDE DEF last
    <2>4. Total(Listing') = Total(Listing) + n
        <3>1. /\ DOMAIN Listing = DOMAIN other /\ DOMAIN Listing' = DOMAIN other \cup {last}
              /\ Listing'[last] = (IF last \in DOMAIN Listing THEN Listing[last] ELSE 0) + n
            BY <1>2, <1>4, <2>2, <2>3
        <3>2. /\ Listing \in [DOMAIN Listing -> Nat] /\ IsFiniteSet(DOMAIN Listing)
              /\ Listing' \in [DOMAIN Listing' -> Nat]
              /\ DOMAIN Listing' = DOMAIN Listing \cup {last}
              /\ \A j \in DOMAIN Listing \ {last} : Listing'[j] = Listing[j]
            BY <1>4, <2>3, <3>1
        <3>3. QED
            BY <1>2, <3>1, <3>2, TotalGrows
    <2>5. QED
        BY <1>5, <1>6, <2>1, <2>4 DEF VramConserved
<1>9. QED
    BY <1>0, <1>7, <1>8 DEF Attribute, Owners

\* Before the loop nothing was given, whatever becomes of the sample.
LEMMA SamplingConserves ==
    ASSUME ReplyInv, VramConserved,
           UNCHANGED <<vram, other, next>>, next = 1 \/ procs' = procs
    PROVE  VramConserved'
<1>1. Given' = Given /\ Listing' = Listing
    BY DEF Given, Listing
<1>2. Told' = Told
    BY DEF Told
<1>3. QED
    BY <1>1, <1>2 DEF VramConserved

LEMMA NextConserves == ReplyInv /\ VramConserved /\ [Next]_vars => VramConserved'
<1> SUFFICES ASSUME ReplyInv, VramConserved, [Next]_vars PROVE VramConserved'
    OBVIOUS
<1>1. CASE Attribute
    BY <1>1, AttributeConserves
<1>2. CASE Close
    <2>1. (vram = [s \in ServiceIds |-> Null] /\ other = <<>> /\ next = 1)'
        BY <1>2 DEF Close
    <2>2. QED
        BY <2>1, NothingGivenYet, PTL
<1>3. CASE ReadList \/ FailToSample
    BY <1>3, SamplingConserves DEF ReadList, FailToSample, ReplyInv, Phases
<1>4. CASE \/ \E p \in Pids : ExitProcess(p) \/ \E x \in Processes : Start(p, x)
           \/ Begin \/ FailToReadList \/ EndSample \/ ListServices \/ Reply
    BY <1>4, SamplingConserves
       DEF ExitProcess, Start, request, Begin, FailToReadList, EndSample, ListServices, Reply
<1>5. CASE UNCHANGED vars
    BY <1>5, SamplingConserves DEF vars
<1>6. QED
    BY <1>1, <1>2, <1>3, <1>4, <1>5 DEF Next, Snapshot

-----------------------------------------------------------------------------

(* The request's locals and the process table keep their types.            *)
THEOREM InventoryTypeCorrect == Spec => []TypeOK
<1>1. ReplyInv => TypeOK
    BY DEF ReplyInv
<1>2. QED
    BY <1>1, ReplyInvariantHolds, PTL

(* What GET /models says of the VRAM adds up to what NVML told, for any    *)
(* number of services and processes, whatever starts and exits meanwhile.  *)
THEOREM NoByteIsLost == Spec => []VramConserved
<1>1. Init => VramConserved
    BY NothingGivenYet DEF Init
<1>2. QED
    BY <1>1, ReplyInvariantHolds, NextConserves, PTL DEF Spec

(* Memory is charged to a service only for a process that was in a         *)
(* container of the service's name, unless its pid is used again before    *)
(* the lookup, and nothing in such a container is left to "other".         *)
THEOREM ChargedToTheOwner == Spec => []AttributionHonest
<1>1. ReplyInv => AttributionHonest
    BY DEF ReplyInv
<1>2. QED
    BY <1>1, ReplyInvariantHolds, PTL

(* "Nothing holding VRAM hides": what runs on a GPU for the whole request  *)
(* is in the reply, unless NVML raised or does not tell its memory.        *)
THEOREM NothingIsHidden == Spec => []NothingHides
<1>1. ASSUME ReplyInv, pc = "done", ~blind, NEW p \in steady
      PROVE  \/ table[p].mem = Null
             \/ \E i \in DOMAIN other : other[i].pid = p
             \/ \E s \in ServiceIds : vram[s] # Null /\ \E x \in claimed[s] : x.pid = p
    <2> USE <1>1 DEF ReplyInv
    <2>1. p \in running /\ p \notin reused /\ table[p] \in Processes
        BY DEF SteadyKept, running
    <2>2. PICK kind : kind \in table[p].kinds
        BY <2>1, InventoryAssumption
    <2>3. PICK i \in DOMAIN procs : procs[i].pid = p
        <3>1. lists = <<>>
            BY DEF Phases
        <3>2. QED
            BY <2>2, <3>1 DEF SteadySampled, ToSet
    <2>4. procs[i].mem = table[p].mem
        BY <2>1, <2>3, InventoryAssumption DEF SampleKnown
    <2>5. Replied(procs[i])
        BY <2>3 DEF PassedReplied, Phases, TypeOK
    <2>6. QED
        BY <2>3, <2>4, <2>5 DEF Replied
<1>2. ReplyInv => NothingHides
    BY <1>1 DEF NothingHides
<1>3. QED
    BY <1>2, ReplyInvariantHolds, PTL
=============================================================================
