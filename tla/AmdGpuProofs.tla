---------------------------- MODULE AmdGpuProofs ----------------------------
(***************************************************************************)
(* Until two calls overlap (so: for ever, if a lock guarded _rescan), the  *)
(* collector keeps its promises for any number of threads and cards and    *)
(* any history of the hardware, and with one change of the hardware it     *)
(* keeps them however calls overlap.  Two inductions, over SerialInv and   *)
(* OneChangeInv, that share what every call knows of its own list; one     *)
(* lemma per group of actions.                                             *)
(***************************************************************************)
EXTENDS AmdGpu, TLAPS

-----------------------------------------------------------------------------
(* What every call knows of its own list, whoever else is at work.         *)

ListInv == TypeOK /\ ProbeFirst /\ WindowCurrent /\ ListProgress

LEMMA ProcsAre == Threads \subseteq Procs /\ Main \in Procs /\ Main \notin Threads
BY AmdGpuAssumption DEF Procs

\* Nothing is listed, and no call is under way, before the probe is over.
LEMMA InitEstablishesListInv == Init => ListInv
<1> SUFFICES ASSUME Init PROVE ListInv
    OBVIOUS
<1>0. found \in BOOLEAN /\ overlapped \in BOOLEAN
    BY Zenon DEF Init
<1>1. TypeOK
    BY <1>0, AmdGpuAssumption DEF Init, TypeOK, ListsTyped, Nowhere, NoWindow
<1>2. ProbeFirst /\ WindowCurrent /\ ListProgress
    BY ProcsAre DEF Init, ProbeFirst, WindowCurrent, ListProgress, Listing
<1>3. QED
    BY <1>1, <1>2 DEF ListInv

\* The next daemon begins where the first one did.
LEMMA RestartKeepsListInv ==
    ASSUME ListInv, Restart
    PROVE  ListInv'
<1>0. found' \in BOOLEAN /\ overlapped' \in BOOLEAN
    BY Zenon DEF Restart
<1>1. TypeOK'
    BY <1>0 DEF Restart, ListInv, TypeOK, ListsTyped, Nowhere, NoWindow
<1>2. ProbeFirst' /\ WindowCurrent' /\ ListProgress'
    BY ProcsAre DEF Restart, ProbeFirst, WindowCurrent, ListProgress, Listing
<1>3. QED
    BY <1>1, <1>2 DEF ListInv

\* A hardware change only widens the window of every call under way.
LEMMA HardwareKeepsListInv ==
    ASSUME ListInv, NEW new \in SUBSET Cards, Change(new)
    PROVE  ListInv'
<1> USE DEF Change, ListInv, TypeOK, ListsTyped, listing
<1>1. TypeOK'
    <2>1. changes' \in 0 .. MaxChanges
        BY AmdGpuAssumption
    <2>2. always' \in [Threads -> SUBSET Cards] /\ ever' \in [Threads -> SUBSET Cards]
        OBVIOUS
    <2>3. UNCHANGED <<found, gpus, cards, pc, todo, seen, overlapped>> /\ ready' \in SUBSET Cards
        OBVIOUS
    <2>4. QED
        BY <2>1, <2>2, <2>3
<1>2. ProbeFirst'
    BY DEF ProbeFirst
<1>3. WindowCurrent' /\ ListProgress'
    BY DEF WindowCurrent, Within, ListProgress, Listing
<1>4. QED
    BY <1>1, <1>2, <1>3

\* Three shapes of a step: it begins a list, it goes on with one, or it
\* leaves every list alone.
LEMMA ProbeKeepsListInv ==
    ASSUME ListInv, Probe
    PROVE  ListInv'
<1> USE ProcsAre DEF ListInv, TypeOK, ListsTyped, window
<1>1. CASE Discover(Main)
    BY <1>1 DEF Discover, Go, Glob, ProbeFirst, WindowCurrent, Within, ListProgress, Listing
<1>2. CASE ReadCard(Main)
    BY <1>2 DEF ReadCard, Go, ProbeFirst, WindowCurrent, Within, ListProgress, Listing
<1>3. CASE Build
    <2>1. found' \in BOOLEAN /\ overlapped' \in BOOLEAN
        BY <1>3, Zenon DEF Build, TypeOK, window
    <2>2. ListsTyped'
        BY <1>3 DEF Build, Go
    <2>3. ProbeFirst' /\ WindowCurrent' /\ ListProgress'
        BY <1>3 DEF Build, Go, ProbeFirst, WindowCurrent, Within, ListProgress, Listing
    <2>4. QED
        BY <2>1, <2>2, <2>3
<1>4. QED
    BY <1>1, <1>2, <1>3 DEF Probe

LEMMA RescanKeepsListInv ==
    ASSUME ListInv, NEW t \in Threads, Rescan(t)
    PROVE  ListInv'
<1> USE ProcsAre DEF ListInv, TypeOK, ListsTyped, window, Go
<1>1. CASE Scan(t)
    <2>1. found' \in BOOLEAN /\ overlapped' \in BOOLEAN
        BY <1>1, Zenon DEF Scan, TypeOK
    <2>2. ListsTyped' /\ ProbeFirst'
        BY <1>1 DEF Scan, Glob, ProbeFirst
    <2>3. WindowCurrent' /\ ListProgress'
        BY <1>1 DEF Scan, Glob, WindowCurrent, Within, ListProgress, Listing
    <2>4. QED
        BY <2>1, <2>2, <2>3
<1>2. CASE ReadCard(t)
    <2>1. PICK c \in todo[t] :
            /\ todo' = [todo EXCEPT ![t] = @ \ {c}]
            /\ seen' = [seen EXCEPT ![t] = IF c \in ready THEN @ \cup {c} ELSE @]
        BY <1>2 DEF ReadCard
    <2>2. TypeOK' /\ ProbeFirst' /\ WindowCurrent'
        BY <1>2, <2>1 DEF ReadCard, ProbeFirst, WindowCurrent, Within
    <2>3. ListProgress'
        BY <1>2, <2>1 DEF ReadCard, WindowCurrent, Within, ListProgress, Listing
    <2>4. QED
        BY <2>2, <2>3
<1>3. CASE Discover(t)
    BY <1>3 DEF Discover, Glob, ProbeFirst, WindowCurrent, Within, ListProgress, Listing
<1>4. CASE Unchanged(t) \/ Changed(t)
    BY <1>4 DEF Unchanged, Changed, ProbeFirst, WindowCurrent, Within, ListProgress, Listing
<1>5. CASE Publish(t) \/ ReadBack(t) \/ Remember(t)
    BY <1>5 DEF Publish, ReadBack, Remember, ProbeFirst, WindowCurrent, Within,
                ListProgress, Listing
<1>6. CASE Sample(t)
    BY <1>6 DEF Sample, ProbeFirst, WindowCurrent, Within, ListProgress, Listing
<1>7. QED
    BY <1>1, <1>2, <1>3, <1>4, <1>5, <1>6 DEF Rescan

-----------------------------------------------------------------------------
(* One call at a time, however often the hardware changes.                 *)

\* What a serial execution adds to ListInv.
SerialPart == OneAtATime /\ RescanProgress /\ SampleCurrent /\ RestConsistent

LEMMA InitEstablishesSerialPart == Init => SerialPart
BY ProcsAre DEF Init, SerialPart, OneAtATime, RescanProgress, SampleCurrent, RestConsistent

LEMMA RestartKeepsSerialPart ==
    ASSUME Restart
    PROVE  SerialPart'
BY ProcsAre
   DEF Restart, SerialPart, OneAtATime, RescanProgress, SampleCurrent, RestConsistent

\* What is within a window is within a wider one.
LEMMA HardwareKeepsSerialPart ==
    ASSUME ListInv, SerialPart, NEW new \in SUBSET Cards, Change(new)
    PROVE  SerialPart'
<1> USE DEF Change, ListInv, TypeOK, ListsTyped, listing
<1>1. OneAtATime'
    BY DEF SerialPart, OneAtATime
<1>2. \A t \in Threads : pc[t] # "idle" /\ Within(gpus, t) => Within(gpus, t)'
    BY DEF Within
<1>3. RescanProgress' /\ SampleCurrent'
    BY <1>2 DEF SerialPart, RescanProgress, SampleCurrent
<1>4. RestConsistent'
    BY DEF SerialPart, RestConsistent
<1>5. QED
    BY <1>1, <1>3, <1>4 DEF SerialPart

\* While the main thread probes there are no calls.
LEMMA ProbeKeepsSerialPart ==
    ASSUME ListInv, SerialPart, Probe
    PROVE  SerialPart'
<1> USE ProcsAre DEF ListInv, TypeOK, ListsTyped, window
<1>1. pc[Main] # "idle" /\ \A t \in Threads : pc[t] = "idle"
    BY DEF Probe, Discover, ReadCard, Listing, Build, Go, ProbeFirst
<1>2. \A t \in Threads : pc'[t] = "idle"
    BY <1>1 DEF Probe, Discover, ReadCard, Build, Go
<1>3. ~overlapped' => cards' = gpus'
    BY <1>1 DEF Probe, Discover, ReadCard, Build, SerialPart, RescanProgress
<1>4. QED
    BY <1>2, <1>3 DEF SerialPart, OneAtATime, RescanProgress, SampleCurrent, RestConsistent

\* The steps that only look: the published list is what it was.
LEMMA LookingKeepsSerialPart ==
    ASSUME ListInv, SerialPart, NEW t \in Threads,
           \/ Scan(t) \/ ReadCard(t) \/ Unchanged(t) \/ Changed(t)
           \/ Discover(t) \/ ReadBack(t) \/ Sample(t)
    PROVE  SerialPart'
<1> USE ProcsAre DEF Go, ListInv, TypeOK, ListsTyped, window
<1>1. OneAtATime'
    <2>1. CASE Scan(t)
        <3>1. ~overlapped' => \A s \in Threads : pc[s] = "idle"
            BY <2>1 DEF Scan
        <3>2. \A s \in Threads : pc'[s] # "idle" => s = t \/ pc[s] # "idle"
            BY <2>1 DEF Scan
        <3>3. QED
            BY <3>1, <3>2 DEF OneAtATime
    <2>2. CASE ~Scan(t)
        BY <2>2 DEF SerialPart, OneAtATime, ReadCard, Listing, Unchanged, Changed,
                    Discover, ReadBack, Sample
    <2>3. QED
        BY <2>1, <2>2
<1>2. RescanProgress' /\ SampleCurrent' /\ RestConsistent'
    <2>1. CASE Scan(t)
        BY <2>1 DEF Scan, SerialPart, OneAtATime, RescanProgress, SampleCurrent,
                    RestConsistent, Within
    <2>2. CASE ReadCard(t)
        BY <2>2 DEF ReadCard, Listing, SerialPart, RescanProgress, SampleCurrent,
                    RestConsistent, Within
    <2>3. CASE Unchanged(t)
        <3>1. Within(seen[t], t)
            BY <2>3 DEF Unchanged, Listed, Listing, ListProgress, Within
        <3>2. QED
            BY <2>3, <3>1 DEF Unchanged, SerialPart, OneAtATime, RescanProgress,
                              SampleCurrent, RestConsistent, Within
    <2>4. CASE Changed(t) \/ Discover(t)
        BY <2>4 DEF Changed, Discover, SerialPart, OneAtATime, RescanProgress,
                    SampleCurrent, RestConsistent, Within
    <2>5. CASE ReadBack(t)
        BY <2>5 DEF ReadBack, SerialPart, OneAtATime, RescanProgress, SampleCurrent,
                    RestConsistent, Within
    <2>6. CASE Sample(t)
        BY <2>6 DEF Sample, SerialPart, OneAtATime, RescanProgress, SampleCurrent,
                    RestConsistent, Within
    <2>7. QED
        BY <2>1, <2>2, <2>3, <2>4, <2>5, <2>6
<1>3. QED
    BY <1>1, <1>2 DEF SerialPart

\* The two writes: first the list, then the set that describes it.
LEMMA WritingKeepsSerialPart ==
    ASSUME ListInv, SerialPart, NEW t \in Threads, Publish(t) \/ Remember(t)
    PROVE  SerialPart'
<1> USE ProcsAre DEF Go, ListInv, TypeOK, ListsTyped, window, SerialPart
<1>1. OneAtATime'
    BY DEF OneAtATime, Publish, Remember
<1>2. CASE Publish(t)
    <2>1. Within(seen[t], t)
        BY <1>2 DEF Publish, Listed, Listing, ListProgress, Within
    <2>2. RescanProgress' /\ SampleCurrent' /\ RestConsistent'
        BY <1>2, <2>1 DEF Publish, OneAtATime, RescanProgress, SampleCurrent,
                          RestConsistent, Within
    <2>3. QED
        BY <1>1, <2>2
<1>3. CASE Remember(t)
    BY <1>1, <1>3 DEF Remember, OneAtATime, RescanProgress, SampleCurrent,
                      RestConsistent, Within
<1>4. QED
    BY <1>2, <1>3

\* SerialInv is inductive.
LEMMA NextKeepsSerialInv ==
    ASSUME SerialInv, [Next]_vars
    PROVE  SerialInv'
<1>0. ListInv /\ SerialPart
    BY DEF SerialInv, ListInv, SerialPart
<1>1. CASE CardUp \/ CardDown
    <2>1. PICK new \in SUBSET Cards : Change(new)
        BY <1>1 DEF CardUp, CardDown, SerialInv, TypeOK, ListsTyped
    <2>2. QED
        BY <1>0, <2>1, HardwareKeepsListInv, HardwareKeepsSerialPart
        DEF SerialInv, ListInv, SerialPart
<1>2. CASE Restart
    BY <1>0, <1>2, RestartKeepsListInv, RestartKeepsSerialPart
    DEF SerialInv, ListInv, SerialPart
<1>3. CASE Probe
    BY <1>0, <1>3, ProbeKeepsListInv, ProbeKeepsSerialPart
    DEF SerialInv, ListInv, SerialPart
<1>4. ASSUME NEW t \in Threads, Rescan(t)
      PROVE  SerialInv'
    <2>1. ListInv'
        BY <1>0, <1>4, RescanKeepsListInv
    <2>2. SerialPart'
        BY <1>0, <1>4, LookingKeepsSerialPart, WritingKeepsSerialPart DEF Rescan
    <2>3. QED
        BY <2>1, <2>2 DEF SerialInv, ListInv, SerialPart
<1>5. CASE UNCHANGED vars
    BY <1>5 DEF vars, listing, window, SerialInv, TypeOK, ListsTyped, ProbeFirst,
                WindowCurrent, ListProgress, Listing, OneAtATime, RescanProgress,
                SampleCurrent, RestConsistent, Within
<1>6. QED
    BY <1>1, <1>2, <1>3, <1>4, <1>5 DEF Next

\* The invariant holds in every state of every behaviour.
LEMMA SerialInvariantHolds == Spec => []SerialInv
<1>1. Init => SerialInv
    BY InitEstablishesListInv, InitEstablishesSerialPart DEF SerialInv, ListInv, SerialPart
<1>2. SerialInv /\ [Next]_vars => SerialInv'
    BY NextKeepsSerialInv
<1>3. QED
    BY <1>1, <1>2, PTL DEF Spec

-----------------------------------------------------------------------------

(* Until calls overlap, no caller gets a list older than its own call: the *)
(* payload lists every card that was up all along since the call began and *)
(* none that was away all along, however often the hardware changes while  *)
(* the cards are listed one by one, once and once more.                    *)
THEOREM SerialSampleCurrent == Spec => []SampleCurrent
BY SerialInvariantHolds, PTL DEF SerialInv

(* Until calls overlap, the remembered card set describes self.gpus        *)
(* between them, so the comparison of the next rescan cannot hide a stale  *)
(* list.                                                                   *)
THEOREM SerialRestConsistent == Spec => []RestConsistent
BY SerialInvariantHolds, PTL DEF SerialInv

(* The published list, the remembered set and the threads' locals keep     *)
(* their types.                                                            *)
THEOREM AmdTypeCorrect == Spec => []TypeOK
BY SerialInvariantHolds, PTL DEF SerialInv

-----------------------------------------------------------------------------
(* One change of the hardware, however calls overlap.                      *)

LEMMA InitEstablishesOneChangePart == Init => OneChangeProgress /\ OneChangeCurrent
BY ProcsAre DEF Init, OneChangeProgress, OneChangeCurrent, Listing

LEMMA NextKeepsOneChangePart ==
    ASSUME ListInv, OneChangeProgress, OneChangeCurrent, [Next]_vars
    PROVE  OneChangeProgress' /\ OneChangeCurrent'
<1> USE ProcsAre DEF ListInv, TypeOK, ListsTyped, listing, window
<1>1. CASE CardUp \/ CardDown
    <2>1. PICK new \in SUBSET Cards : Change(new)
        BY <1>1 DEF CardUp, CardDown
    <2>2. changes' <= 1 => changes = 0 /\ changes' = 1
        BY <2>1 DEF Change
    <2>3. OneChangeProgress'
        BY <2>1, <2>2 DEF Change, ProbeFirst, OneChangeProgress, Listing, Exact
    <2>4. OneChangeCurrent'
        BY <2>1, <2>2 DEF Change, OneChangeCurrent, Within
    <2>5. QED
        BY <2>3, <2>4
<1>2. CASE Restart
    BY <1>2 DEF Restart, OneChangeProgress, OneChangeCurrent, Listing
<1>3. CASE Probe
    <2>1. pc[Main] # "idle" /\ \A t \in Threads : pc[t] = "idle" /\ pc'[t] = "idle"
        BY <1>3 DEF Probe, Discover, ReadCard, Listing, Build, Go, ProbeFirst
    <2>2. CASE Discover(Main) \/ ReadCard(Main)
        BY <2>1, <2>2 DEF Discover, ReadCard, Go, Glob, ProbeFirst, OneChangeProgress,
                          OneChangeCurrent, Listing, Exact
    <2>3. CASE Build
        BY <2>1, <2>3 DEF Build, Listed, Go, OneChangeProgress, OneChangeCurrent,
                          Listing, Exact
    <2>4. QED
        BY <1>3, <2>2, <2>3 DEF Probe
<1>4. ASSUME NEW t \in Threads, Rescan(t)
      PROVE  OneChangeProgress' /\ OneChangeCurrent'
    <2> USE DEF Go
    <2>1. CASE Scan(t)
        BY <2>1 DEF Scan, Glob, OneChangeProgress, OneChangeCurrent, Listing, Exact, Within
    <2>2. CASE ReadCard(t)
        <3>1. OneChangeProgress'
            BY <2>2 DEF ReadCard, OneChangeProgress, Listing, Exact
        <3>2. OneChangeCurrent'
            BY <2>2 DEF ReadCard, OneChangeCurrent, Within
        <3>3. QED
            BY <3>1, <3>2
    <2>3. CASE Unchanged(t)
        <3>1. Within(seen[t], t) /\ Within(ready, t)
            BY <2>3 DEF Unchanged, Listed, Listing, ListProgress, WindowCurrent, Within
        <3>2. OneChangeProgress'
            BY <2>3 DEF Unchanged, OneChangeProgress, Listing, Exact
        <3>3. OneChangeCurrent'
            BY <2>3, <3>1 DEF Unchanged, OneChangeProgress, OneChangeCurrent, Within
        <3>4. QED
            BY <3>2, <3>3
    <2>8. CASE Changed(t)
        <3>1. changes <= 1 => changes # 0
            BY <2>8 DEF Changed, Listed, Listing, ProbeFirst, OneChangeProgress, Exact
        <3>2. QED
            BY <2>8, <3>1 DEF Changed, OneChangeProgress, OneChangeCurrent, Listing,
                              Exact, Within
    <2>4. CASE Discover(t)
        BY <2>4 DEF Discover, Glob, ProbeFirst, OneChangeProgress, OneChangeCurrent,
                    Listing, Exact, Within
    <2>5. CASE Publish(t)
        BY <2>5 DEF Publish, Listed, ProbeFirst, WindowCurrent, OneChangeProgress,
                    OneChangeCurrent, Listing, Exact, Within
    <2>6. CASE ReadBack(t) \/ Remember(t) \/ Sample(t)
        BY <2>6 DEF ReadBack, Remember, Sample, WindowCurrent, OneChangeProgress,
                    OneChangeCurrent, Listing, Exact, Within
    <2>7. QED
        BY <1>4, <2>1, <2>2, <2>3, <2>4, <2>5, <2>6, <2>8 DEF Rescan
<1>5. CASE UNCHANGED vars
    BY <1>5 DEF vars, OneChangeProgress, OneChangeCurrent, Listing, Exact, Within
<1>6. QED
    BY <1>1, <1>2, <1>3, <1>4, <1>5 DEF Next

(* One change of the hardware is picked up without harm however the        *)
(* rescans overlap: no thread publishes the old list again.                *)
THEOREM OneChangeIsHarmless == Spec => []OneChangeCurrent
<1>1. SerialInv /\ OneChangeProgress /\ OneChangeCurrent /\ [Next]_vars
      => (OneChangeProgress /\ OneChangeCurrent)'
    BY NextKeepsOneChangePart DEF SerialInv, ListInv
<1>2. QED
    BY <1>1, SerialInvariantHolds, InitEstablishesOneChangePart, PTL DEF Spec
=============================================================================
