------------------------------- MODULE Unload -------------------------------
(***************************************************************************)
(* POST /models/unload: the one route that changes anything outside the    *)
(* daemon.  Every request runs in a handler thread of its own              *)
(* (ThreadingMixIn) and Models.unload takes no lock, so requests interleave*)
(* with each other and with the prompts that users submit to ComfyUI.  A   *)
(* request that passes do_POST's guards visits its target services in      *)
(* config order; a service refuses (Busy, BadRequest), fails (any other    *)
(* exception), or does the work, and the work may be done although its     *)
(* reply is lost.  ComfyUI is asked for its queue first and restarted with *)
(* a second call: what happens between the two is the hard part.           *)
(***************************************************************************)
EXTENDS Integers, Sequences, SequencesExt

CONSTANTS
    Requests,       \* the handler threads
    Services,       \* self.services: the sequence of service ids in the config
    Restarted,      \* the services whose adapter is ComfyUI
    Accepts,        \* Accepts[s]: what may be named in an unload of service s
    Models,         \* model ids a request may name
    NoModel,        \* model is None
    All,            \* the service name "*"
    Unknown,        \* a service name the config does not have
    NeedsToken,     \* self.token is not None
    Prompts         \* bound: the ComfyUI prompts that can be outstanding

ServiceIds == ToSet(Services)

\* load() rejects duplicate ids and the id "*".  llama-swap passes any model
\* on, Fourfold knows its own, ComfyUI unloads all or nothing.  A comfyui
\* service is unique here because the model has one prompt queue.
ASSUME UnloadAssumption ==
    /\ Services \in Seq(ServiceIds) /\ IsInjective(Services)
    /\ All \notin ServiceIds /\ Unknown \notin ServiceIds /\ All # Unknown
    /\ Restarted \subseteq ServiceIds
    /\ \A s, u \in Restarted : s = u
    /\ NoModel \notin Models
    /\ Accepts \in [ServiceIds -> SUBSET (Models \cup {NoModel})]
    /\ \A s \in ServiceIds : NoModel \in Accepts[s]
    /\ \A s \in Restarted : Accepts[s] = {NoModel}

Body == [service : ServiceIds \cup {All, Unknown},
         model : Models \cup {NoModel}, force : BOOLEAN]

\* How http_json and the adapters can end; 200 stands for ok: True.
Codes == {200, 400, 409, 502}

VARIABLES
    running,    \* ComfyUI: the prompt being executed, a set of at most one
    pending,    \* ComfyUI: the prompts queued behind it
    pc,         \* where each handler thread is
    body,       \* the parsed body of its request
    todo,       \* the targets still to visit, in order
    results,    \* the local results list: service and code
    status,     \* the HTTP status so far
    took,       \* history: services on which this request's call took effect
    before,     \* history: prompts older than the request, not yet gone
    victims,    \* history: the prompts its restart destroyed
    unseen      \* history: its GET /queue got a reply with no queue in it

vars == <<running, pending, pc, body, todo, results, status, took, before, victims, unseen>>

outstanding == running \cup pending

TypeOK ==
    /\ running \in SUBSET Prompts /\ pending \in SUBSET Prompts
    /\ pc \in [Requests -> {"idle", "serving", "restarting", "replying", "answered"}]
    /\ body \in [Requests -> Body]
    /\ todo \in [Requests -> Seq(ServiceIds)]
    /\ results \in [Requests -> Seq([service : ServiceIds, code : Codes])]
    /\ status \in [Requests -> {200, 400, 401, 404, 409, 415, 502}]
    /\ took \in [Requests -> SUBSET ServiceIds]
    /\ before \in [Requests -> SUBSET Prompts]
    /\ victims \in [Requests -> SUBSET Prompts]
    /\ unseen \in [Requests -> BOOLEAN]

Blank == [service |-> Unknown, model |-> NoModel, force |-> FALSE]

Init ==
    /\ running = {} /\ pending = {}
    /\ pc = [r \in Requests |-> "idle"]
    /\ body = [r \in Requests |-> Blank]
    /\ todo = [r \in Requests |-> <<>>]
    /\ results = [r \in Requests |-> <<>>]
    /\ status = [r \in Requests |-> 200]
    /\ took = [r \in Requests |-> {}]
    /\ before = [r \in Requests |-> {}]
    /\ victims = [r \in Requests |-> {}]
    /\ unseen = [r \in Requests |-> FALSE]

-----------------------------------------------------------------------------
(* ComfyUI, and the people who use it.                                     *)

thread == <<pc, body, todo, results, status, took, victims, unseen>>

Submit(p) ==
    /\ p \notin outstanding
    /\ pending' = pending \cup {p}
    /\ UNCHANGED <<running, before, thread>>

Start(p) ==
    /\ running = {} /\ p \in pending
    /\ running' = {p}
    /\ pending' = pending \ {p}
    /\ UNCHANGED <<before, thread>>

Finish(p) ==
    /\ p \in running
    /\ running' = {}
    /\ before' = [r \in Requests |-> before[r] \ {p}]
    /\ UNCHANGED <<pending, thread>>

-----------------------------------------------------------------------------
(* do_POST: the guards, in their order, then the target list.              *)

Targets(b) ==
    IF b.service = All THEN Services
    ELSE IF b.service \in ServiceIds THEN <<b.service>> ELSE <<>>

\* Answer at once, without touching a service.
Refuse(r, code) ==
    /\ pc[r] = "idle"
    /\ pc' = [pc EXCEPT ![r] = "answered"]
    /\ status' = [status EXCEPT ![r] = code]
    /\ UNCHANGED <<running, pending, body, todo, results, took, before, victims, unseen>>

\* Another path or no models configured; a wrong token; a content type a
\* browser can send unasked; a body that does not parse.
RefuseHeaders(r) ==
    \E code \in {404, 401, 415, 400} :
        /\ code = 401 => NeedsToken
        /\ Refuse(r, code)

RefuseTarget(r) ==
    \E b \in Body :
        \/ Targets(b) = <<>> /\ Refuse(r, 404)
        \/ Targets(b) # <<>> /\ b.service = All /\ b.model # NoModel /\ Refuse(r, 400)

Accept(r) ==
    /\ pc[r] = "idle"
    /\ \E b \in Body :
        /\ Targets(b) # <<>>
        /\ ~ (b.service = All /\ b.model # NoModel)
        /\ body' = [body EXCEPT ![r] = b]
        /\ todo' = [todo EXCEPT ![r] = Targets(b)]
    /\ pc' = [pc EXCEPT ![r] = "serving"]
    /\ before' = [before EXCEPT ![r] = outstanding]
    /\ UNCHANGED <<running, pending, results, status, took, victims, unseen>>

-----------------------------------------------------------------------------
(* Models.unload: one service after the other.                             *)

At(r, s) ==
    /\ pc[r] = "serving" /\ todo[r] # <<>>
    /\ s = Head(todo[r])

\* Mutant: the service is not taken off the list, the loop visits it forever.
RecordAndRetry(r, s, code) ==
    /\ results' = [results EXCEPT ![r] = IF code = 200
                       THEN Append(@, [service |-> s, code |-> code]) ELSE @]
    /\ status' = [status EXCEPT ![r] = IF @ = 200 THEN code ELSE @]
    /\ todo' = [todo EXCEPT ![r] = IF code = 200 THEN Tail(@) ELSE @]
    /\ pc' = [pc EXCEPT ![r] = "serving"]

\* Mutant: the exception's class is stored for the status, and not its code.
RecordUntyped(r, s, code) ==
    /\ results' = [results EXCEPT ![r] = Append(@, [service |-> s, code |-> code])]
    /\ status' = [status EXCEPT ![r] = IF @ = 200 /\ code # 200 THEN 500 ELSE @]
    /\ todo' = [todo EXCEPT ![r] = Tail(@)]
    /\ pc' = [pc EXCEPT ![r] = "serving"]

\* Mutant: the status is that of the last failure.
RecordLast(r, s, code) ==
    /\ results' = [results EXCEPT ![r] = Append(@, [service |-> s, code |-> code])]
    /\ status' = [status EXCEPT ![r] = IF code = 200 THEN @ ELSE code]
    /\ todo' = [todo EXCEPT ![r] = Tail(@)]
    /\ pc' = [pc EXCEPT ![r] = "serving"]

Record(r, s, code) ==
    /\ results' = [results EXCEPT ![r] = Append(@, [service |-> s, code |-> code])]
    /\ status' = [status EXCEPT ![r] = IF @ = 200 THEN code ELSE @]
    /\ todo' = [todo EXCEPT ![r] = Tail(@)]
    /\ pc' = [pc EXCEPT ![r] = "serving"]

\* BadRequest: a model that the service does not unload on its own.
Mismatch(r, s) == body[r].model \notin Accepts[s]

RefuseModel(r) ==
    \E s \in ServiceIds :
        /\ At(r, s) /\ Mismatch(r, s)
        /\ Record(r, s, 400)
        /\ UNCHANGED <<running, pending, body, took, before, victims, unseen>>

\* ComfyUI.unload without force: GET /queue, then Busy or on to the restart.
AsksQueue(r, s) ==
    /\ At(r, s) /\ s \in Restarted
    /\ ~Mismatch(r, s)
    /\ ~body[r].force

\* Mutant: only the running prompt counts.
BusyRunning == running # {}

Busy == outstanding # {}

RefuseBusy(r) ==
    \E s \in ServiceIds :
        /\ AsksQueue(r, s)
        /\ Busy
        /\ Record(r, s, 409)
        /\ UNCHANGED <<running, pending, body, took, before, victims, unseen>>

FindQueueEmpty(r) ==
    \E s \in ServiceIds :
        /\ AsksQueue(r, s)
        /\ ~Busy
        /\ pc' = [pc EXCEPT ![r] = "restarting"]
        /\ UNCHANGED <<running, pending, body, todo, results, status, took, before, victims, unseen>>

\* The reply is empty, null, or an object without the two lists: n is 0.
SeeNoQueue(r) ==
    \E s \in ServiceIds :
        /\ AsksQueue(r, s)
        /\ pc' = [pc EXCEPT ![r] = "restarting"]
        /\ unseen' = [unseen EXCEPT ![r] = TRUE]
        /\ UNCHANGED <<running, pending, body, todo, results, status, took, before, victims>>

FailToAsk(r) ==
    \E s \in ServiceIds :
        /\ AsksQueue(r, s)
        /\ Record(r, s, 502)
        /\ UNCHANGED <<running, pending, body, took, before, victims, unseen>>

\* The call that does the work is next.
Ready(r, s) ==
    \/ pc[r] = "restarting" /\ s = Head(todo[r])
    \/ /\ At(r, s) /\ ~Mismatch(r, s)
       /\ s \in Restarted => body[r].force

\* The service unloads; the ComfyUI container restarts and its queue is gone.
WorkOn(r, s) ==
    /\ took' = [took EXCEPT ![r] = @ \cup {s}]
    /\ pc' = [pc EXCEPT ![r] = "replying"]
    /\ IF s \in Restarted
         THEN /\ victims' = [victims EXCEPT ![r] = outstanding]
              /\ before' = [q \in Requests |-> IF q = r THEN before[r]
                                         ELSE before[q] \ outstanding]
              /\ running' = {} /\ pending' = {}
         ELSE UNCHANGED <<victims, before, running, pending>>
    /\ UNCHANGED <<body, todo, results, status, unseen>>

Work(r) == \E s \in ServiceIds : Ready(r, s) /\ WorkOn(r, s)

Reply(r) ==
    /\ pc[r] = "replying"
    /\ Record(r, Head(todo[r]), 200)
    /\ UNCHANGED <<running, pending, body, took, before, victims, unseen>>

\* The work was done, the reply never came: timeout, reset connection.
LoseReply(r) ==
    /\ pc[r] = "replying"
    /\ Record(r, Head(todo[r]), 502)
    /\ UNCHANGED <<running, pending, body, took, before, victims, unseen>>

\* Mutant: an HTTP error of the service is not looked at ("status != 204").
FailToWorkSilently(r) ==
    \E s \in ServiceIds :
        /\ Ready(r, s)
        /\ Record(r, s, 200)
        /\ UNCHANGED <<running, pending, body, took, before, victims, unseen>>

\* The service is down, or answers with an error.
FailToWork(r) ==
    \E s \in ServiceIds :
        /\ Ready(r, s)
        /\ Record(r, s, 502)
        /\ UNCHANGED <<running, pending, body, took, before, victims, unseen>>

\* The results are written to the client.
Answer(r) ==
    /\ pc[r] = "serving" /\ todo[r] = <<>>
    /\ pc' = [pc EXCEPT ![r] = "answered"]
    /\ UNCHANGED <<running, pending, body, todo, results, status, took, before, victims, unseen>>

\* HTTP/1.0: the connection closes and the thread's locals are gone.
Close(r) ==
    /\ pc[r] = "answered"
    /\ pc' = [pc EXCEPT ![r] = "idle"]
    /\ body' = [body EXCEPT ![r] = Blank]
    /\ todo' = [todo EXCEPT ![r] = <<>>]
    /\ results' = [results EXCEPT ![r] = <<>>]
    /\ status' = [status EXCEPT ![r] = 200]
    /\ took' = [took EXCEPT ![r] = {}]
    /\ before' = [before EXCEPT ![r] = {}]
    /\ victims' = [victims EXCEPT ![r] = {}]
    /\ unseen' = [unseen EXCEPT ![r] = FALSE]
    /\ UNCHANGED <<running, pending>>

-----------------------------------------------------------------------------

Serve(r) ==
    \/ RefuseModel(r)
    \/ RefuseBusy(r) \/ FindQueueEmpty(r) \/ SeeNoQueue(r) \/ FailToAsk(r)
    \/ Work(r) \/ FailToWork(r) \/ Reply(r) \/ LoseReply(r)
    \/ Answer(r)

Next ==
    \/ \E p \in Prompts : Submit(p) \/ Start(p) \/ Finish(p)
    \/ \E r \in Requests : RefuseHeaders(r) \/ RefuseTarget(r) \/ Accept(r)
    \/ \E r \in Requests : Serve(r) \/ Close(r)

Spec == Init /\ [][Next]_vars

\* A handler thread is scheduled, and every call it makes has a timeout
\* (HTTP_TIMEOUT, docker.restart's stop_timeout + 30), so it does move on.
FairSpec == Spec /\ \A r \in Requests : WF_vars(Serve(r))

-----------------------------------------------------------------------------
(* What the caller sees of a request: nothing, its results piling up, and  *)
(* the reply.  The prompt queue and the two calls of a restart are inside. *)
Phase == [r \in Requests |-> CASE pc[r] = "idle" -> "none"
                               [] pc[r] = "answered" -> "answered"
                               [] OTHER -> "open"]
Sent == [r \in Requests |-> IF pc[r] = "answered" THEN status[r] ELSE 200]

Service == INSTANCE UnloadService WITH
    Plans <- {Targets(b) : b \in Body} \ {<<>>},
    phase <- Phase, affected <- took, status <- Sent

(* do_POST with Models.unload is the service that UnloadService describes: *)
(* it affects a target only in its turn and before its result, no service  *)
(* besides, and closes with the status of the first failure, however calls *)
(* fail and requests race.                                                 *)
ImplementsService == Service!Spec

(* ok: true is never a guess: the service did unload, or restart, on this  *)
(* request's call.  The converse fails (a lost reply), which is why a      *)
(* caller who sees 502 cannot conclude that nothing was unloaded; a        *)
(* refusal, 400 or 409, does mean that this request left it alone.         *)
ResultsTruthful ==
    \A r \in Requests : \A i \in DOMAIN results[r] :
        LET x == results[r][i] IN
            /\ x.code = 200 => x.service \in took[r]
            /\ x.code \in {400, 409} => x.service \notin took[r]

(* What the unlocked check-then-restart still guarantees, whatever other   *)
(* requests and users do meanwhile: an unforced unload never destroys a    *)
(* prompt that was running or queued before the request came in, unless    *)
(* ComfyUI's answer to GET /queue had no queue in it.                      *)
OldPromptsSurvive ==
    \A r \in Requests :
        ~body[r].force /\ ~unseen[r] => victims[r] \cap before[r] = {}

(* What the docstring of ComfyUI says: without force, no prompt is ever    *)
(* destroyed.  False even of a request that saw the queue: a prompt can    *)
(* arrive between GET /queue and the restart.                              *)
UnforcedSparesPrompts ==
    \A r \in Requests : ~body[r].force /\ ~unseen[r] => victims[r] = {}

(* Every accepted request is answered in the end: a dead, slow or refusing *)
(* service costs its own result and never the reply.                       *)
EveryRequestAnswered ==
    \A r \in Requests : pc[r] = "serving" ~> pc[r] = "answered"
=============================================================================
