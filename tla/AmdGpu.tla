------------------------------- MODULE AmdGpu -------------------------------
(***************************************************************************)
(* The hot-plug rescan of AmdGpuCollector.  Every /metrics, /stream, /info *)
(* and /models handler thread begins its call with _rescan(): list the AMD *)
(* cards that are ready, compare with self._cards, and on a difference     *)
(* list them AGAIN for self.gpus and remember self.gpus' cards.  A list is *)
(* made card by card, while cards come and go.  There is no lock: two      *)
(* attributes are written one after the other, from a list that may be old *)
(* by then, and the next comparison trusts only one of them.  Cards come   *)
(* up on their own time (amdgpu initialises them asynchronously) and can   *)
(* be unplugged.                                                           *)
(***************************************************************************)
EXTENDS Integers, FiniteSets

CONSTANTS
    Threads,    \* handler threads that sample the collector
    Main,       \* the main thread, which probes
    Cards,      \* DRM cards with the AMD vendor id, in the order of their names
    MaxChanges  \* bound: how often a card comes up or goes away

ASSUME AmdGpuAssumption ==
    /\ Main \notin Threads
    /\ Cards \subseteq Int
    /\ MaxChanges \in Nat

Procs == Threads \cup {Main}

VARIABLES
    ready,      \* sysfs: the cards that have gpu_busy_percent
    changes,    \* how often ready changed
    found,      \* probe() found a card and built the collector
    gpus,       \* self.gpus, by card
    cards,      \* self._cards
    pc,         \* where each thread is
    todo,       \* of the cards that its glob found, those still to look at
    seen,       \* its latest list of ready cards, or of self.gpus
    always,     \* history: the cards that were ready ever since its call began
    ever,       \* history: the cards that were ready at some time since then
    overlapped  \* history: two calls were under way at the same time

listing == <<pc, todo, seen>>
window == <<always, ever>>
vars == <<ready, changes, found, gpus, cards, listing, window, overlapped>>

ListsTyped ==
    /\ ready \in SUBSET Cards
    /\ changes \in 0 .. MaxChanges
    /\ gpus \in SUBSET Cards
    /\ cards \in SUBSET Cards
    /\ pc \in [Procs -> {"idle", "scan", "discover", "list",
                         "readback", "remember", "sample"}]
    /\ todo \in [Procs -> SUBSET Cards]
    /\ seen \in [Procs -> SUBSET Cards]
    /\ always \in [Threads -> SUBSET Cards]
    /\ ever \in [Threads -> SUBSET Cards]

TypeOK == ListsTyped /\ found \in BOOLEAN /\ overlapped \in BOOLEAN

Nowhere == [p \in Procs |-> {}]
NoWindow == [t \in Threads |-> {}]

\* The main thread probes before there is a request.
Init ==
    /\ ready \in SUBSET Cards
    /\ changes = 0
    /\ found = FALSE /\ gpus = {} /\ cards = {}
    /\ pc = [p \in Procs |-> IF p = Main THEN "discover" ELSE "idle"]
    /\ todo = Nowhere /\ seen = Nowhere
    /\ always = NoWindow /\ ever = NoWindow
    /\ overlapped = FALSE

-----------------------------------------------------------------------------

Change(new) ==
    /\ changes < MaxChanges
    /\ changes' = changes + 1
    /\ ready' = new
    /\ always' = [t \in Threads |-> always[t] \cap new]
    /\ ever' = [t \in Threads |-> IF pc[t] = "idle" THEN {} ELSE ever[t] \cup new]
    /\ UNCHANGED <<found, gpus, cards, listing, overlapped>>

CardUp == \E c \in Cards \ ready : Change(ready \cup {c})

CardDown == \E c \in ready : Change(ready \ {c})

-----------------------------------------------------------------------------
(* _ready_cards(): a glob, then two files of one card after the other.     *)

Go(p, from, to) == pc[p] = from /\ pc' = [pc EXCEPT ![p] = to]

\* A ready card has a directory, and one that is not ready yet may have one.
Glob(p) ==
    /\ \E names \in SUBSET Cards :
        ready \subseteq names /\ todo' = [todo EXCEPT ![p] = names]
    /\ seen' = [seen EXCEPT ![p] = {}]

Listing(p) == pc[p] \in {"scan", "list"}
Listed(p) == Listing(p) /\ todo[p] = {}

ReadCard(p) ==
    /\ Listing(p)
    /\ \E c \in todo[p] :
        /\ \A d \in todo[p] : c <= d
        /\ todo' = [todo EXCEPT ![p] = @ \ {c}]
        /\ seen' = [seen EXCEPT ![p] = IF c \in ready THEN @ \cup {c} ELSE @]
    /\ UNCHANGED <<ready, changes, found, gpus, cards, pc, window, overlapped>>

\* _discover() of a rescan, or of probe().
Discover(p) ==
    /\ Go(p, "discover", "list")
    /\ Glob(p)
    /\ UNCHANGED <<ready, changes, found, gpus, cards, window, overlapped>>

\* probe() returns no collector on a host without a ready card.
Build ==
    /\ Listed(Main) /\ Go(Main, "list", "idle")
    /\ found' = (seen[Main] # {})
    /\ gpus' = seen[Main] /\ cards' = seen[Main]
    /\ seen' = [seen EXCEPT ![Main] = {}]
    /\ UNCHANGED <<ready, changes, todo, window, overlapped>>

Probe == Discover(Main) \/ ReadCard(Main) \/ Build

-----------------------------------------------------------------------------
(* _rescan(), one action per access to what other threads can change.      *)

\* cards = frozenset(c for c, _ in self._ready_cards(self._root))
Scan(t) ==
    /\ found
    /\ Go(t, "idle", "scan")
    /\ Glob(t)
    /\ always' = [always EXCEPT ![t] = ready]
    /\ ever' = [ever EXCEPT ![t] = ready]
    /\ overlapped' = (overlapped \/ \E s \in Threads : pc[s] # "idle")
    /\ UNCHANGED <<ready, changes, found, gpus, cards>>

Unchanged(t) ==
    /\ Listed(t) /\ Go(t, "scan", "sample")
    /\ seen[t] = cards
    /\ UNCHANGED <<ready, changes, found, gpus, cards, todo, seen, window, overlapped>>

\* Mutant: only new cards count as a change ("cards - self._cards").
ChangedIfMore(t) ==
    /\ Listed(t) /\ Go(t, "scan", IF seen[t] \subseteq cards THEN "sample" ELSE "discover")
    /\ seen[t] # cards
    /\ UNCHANGED <<ready, changes, found, gpus, cards, todo, seen, window, overlapped>>

\* Mutant: self._cards is written as soon as the difference is seen.
ChangedMarksFirst(t) ==
    /\ Listed(t) /\ Go(t, "scan", "discover")
    /\ seen[t] # cards
    /\ cards' = seen[t]
    /\ UNCHANGED <<ready, changes, found, gpus, todo, seen, window, overlapped>>

Changed(t) ==
    /\ Listed(t) /\ Go(t, "scan", "discover")
    /\ seen[t] # cards
    /\ UNCHANGED <<ready, changes, found, gpus, cards, todo, seen, window, overlapped>>

\* Mutant: new cards are added to the list, and the gone ones stay in it.
PublishMore(t) ==
    /\ Listed(t) /\ Go(t, "list", "readback")
    /\ gpus' = gpus \cup seen[t]
    /\ UNCHANGED <<ready, changes, found, cards, todo, seen, window, overlapped>>

\* self.gpus = ...
Publish(t) ==
    /\ Listed(t) /\ Go(t, "list", "readback")
    /\ gpus' = seen[t]
    /\ UNCHANGED <<ready, changes, found, cards, todo, seen, window, overlapped>>

\* Mutant: the comparison is made with the hardware of this moment, and not
\* with what was put into self.gpus.
ReadBackHardware(t) ==
    /\ Go(t, "readback", "remember")
    /\ seen' = [seen EXCEPT ![t] = ready]
    /\ UNCHANGED <<ready, changes, found, gpus, cards, todo, window, overlapped>>

\* frozenset(g.card for g in self.gpus): whatever list is there by now.
ReadBack(t) ==
    /\ Go(t, "readback", "remember")
    /\ seen' = [seen EXCEPT ![t] = gpus]
    /\ UNCHANGED <<ready, changes, found, gpus, cards, todo, window, overlapped>>

\* Mutant: the cards' places in the list are remembered, and not their names.
RememberPlaces(t) ==
    /\ Go(t, "remember", "sample")
    /\ cards' = {Cardinality({d \in seen[t] : d < c}) : c \in seen[t]}
    /\ UNCHANGED <<ready, changes, found, gpus, todo, seen, window, overlapped>>

\* self._cards = ...
Remember(t) ==
    /\ Go(t, "remember", "sample")
    /\ cards' = seen[t]
    /\ UNCHANGED <<ready, changes, found, gpus, todo, seen, window, overlapped>>

\* The payload is built from self.gpus, read once; the call's locals go.
Sample(t) ==
    /\ Go(t, "sample", "idle")
    /\ seen' = [seen EXCEPT ![t] = {}]
    /\ always' = [always EXCEPT ![t] = {}]
    /\ ever' = [ever EXCEPT ![t] = {}]
    /\ UNCHANGED <<ready, changes, found, gpus, cards, todo, overlapped>>

Rescan(t) ==
    \/ Scan(t) \/ ReadCard(t)
    \/ Unchanged(t) \/ Changed(t)
    \/ Discover(t) \/ Publish(t) \/ ReadBack(t) \/ Remember(t)
    \/ Sample(t)

\* The daemon starts again, its requests are gone, and it probes again.
Restart ==
    /\ found' = FALSE /\ gpus' = {} /\ cards' = {}
    /\ pc' = [p \in Procs |-> IF p = Main THEN "discover" ELSE "idle"]
    /\ todo' = Nowhere /\ seen' = Nowhere
    /\ always' = NoWindow /\ ever' = NoWindow
    /\ overlapped' = FALSE
    /\ UNCHANGED <<ready, changes>>

Next ==
    \/ CardUp \/ CardDown
    \/ Restart \/ Probe
    \/ \E t \in Threads : Rescan(t)

Spec == Init /\ [][Next]_vars

\* Clients keep polling, and a thread's file reads come to an end.
FairSpec == Spec /\ WF_vars(Probe) /\ \A t \in Threads : WF_vars(Rescan(t))

-----------------------------------------------------------------------------
\* What is listed was ready at some time since the call of t began, and what
\* is not listed was away at some time.
Within(list, t) == always[t] \subseteq list /\ list \subseteq ever[t]

(* A payload is never older than its own request: a card that was up all   *)
(* the time since the call began is in it, one that was away all the time  *)
(* is not, however often cards come and go while they are listed, once for *)
(* the comparison and once more for the payload.  (The list need not be    *)
(* that of one moment.)  So it is until calls overlap.                     *)
SampleCurrent ==
    ~overlapped => \A t \in Threads : pc[t] = "sample" => Within(gpus, t)

(* Calls that overlap do no harm to it as long as the hardware changes     *)
(* only once: every list that a late thread publishes is the new one.      *)
OneChangeCurrent ==
    changes <= 1 => \A t \in Threads : pc[t] = "sample" => Within(gpus, t)

(* Between calls the remembered set describes the published list.  It is   *)
(* what makes the next comparison mean anything: the rescan never looks at *)
(* self.gpus, so a list that differs from self._cards stays as it is.      *)
RestConsistent ==
    (~overlapped /\ \A t \in Threads : pc[t] \in {"idle", "sample"}) => cards = gpus

(* The promise of _rescan's docstring: cards that finish initialising, or  *)
(* are hot-plugged, are picked up once the hardware stops changing, and a  *)
(* restart of the daemon loses none.  There are two exceptions.  A daemon  *)
(* that started before any card was ready has no collector to rescan.  And *)
(* when calls overlapped while the hardware changed more than once, an old *)
(* list may be published after a newer one was compared, and no later      *)
(* rescan sees a difference.                                               *)
PicksUpCards == <>[](gpus = ready \/ ~found \/ (overlapped /\ changes > 1))

-----------------------------------------------------------------------------
(* The inductive invariants: what holds until rescans overlap, and what    *)
(* holds until the hardware changes for the second time.                   *)

\* Requests are served by a daemon that has probed, and has a collector.
ProbeFirst ==
    /\ pc[Main] \in {"idle", "discover", "list"}
    /\ found => pc[Main] = "idle"
    /\ \A t \in Threads : pc[t] # "idle" => found

\* The present is part of every call's window.
WindowCurrent ==
    \A t \in Threads : pc[t] # "idle" => Within(ready, t)

\* What a call has listed so far, and what it has still to look at.
ListProgress ==
    \A t \in Threads : Listing(t) =>
        always[t] \subseteq seen[t] \cup todo[t] /\ seen[t] \subseteq ever[t]

\* One call at a time.
OneAtATime ==
    ~overlapped => \A s, t \in Threads : pc[s] # "idle" /\ pc[t] # "idle" => s = t

\* What the thread in the middle of a rescan has written so far.
RescanProgress ==
    ~overlapped =>
        /\ \/ cards = gpus
           \/ \E t \in Threads : pc[t] \in {"readback", "remember"}
        /\ \A t \in Threads :
            /\ pc[t] \in {"readback", "remember"} => Within(gpus, t)
            /\ pc[t] = "remember" => seen[t] = gpus

\* The list so far is what the hardware is, as far as it was looked at.
Exact(p) == seen[p] \subseteq ready /\ ready \subseteq seen[p] \cup todo[p]

\* How far one change of the hardware has got: nobody leaves the old list
\* but for the new one, and the new card set is remembered after it.
OneChangeProgress ==
    changes <= 1 =>
        /\ gpus \in {cards, ready}
        /\ changes = 0 => gpus = cards /\ (found => cards = ready)
        /\ changes = 0 => \A p \in Procs : Listing(p) => Exact(p)
        /\ \A t \in Threads :
            /\ changes = 0 => pc[t] \in {"idle", "scan", "sample"}
            /\ pc[t] = "list" => Exact(t)
            /\ pc[t] = "remember" => seen[t] = ready
            /\ pc[t] \in {"readback", "remember"} => gpus = ready

OneChangeInv ==
    /\ TypeOK
    /\ ProbeFirst /\ WindowCurrent /\ ListProgress
    /\ OneChangeProgress
    /\ OneChangeCurrent

SerialInv ==
    /\ TypeOK
    /\ ProbeFirst /\ WindowCurrent /\ ListProgress
    /\ OneAtATime
    /\ RescanProgress
    /\ SampleCurrent
    /\ RestConsistent
=============================================================================
