---------------------------- MODULE UnloadProofs ----------------------------
(***************************************************************************)
(* POST /models/unload, for any config, any number of racing requests and  *)
(* any prompts: an unforced unload spares the prompts that were there      *)
(* before it, the results of a reply are true, and the handler implements  *)
(* the abstract UnloadService.                                             *)
(***************************************************************************)
EXTENDS Unload, TLAPS

-----------------------------------------------------------------------------
(* Old prompts survive, although nothing is locked between the look at the *)
(* queue and the restart: prompts that are older than a request can only   *)
(* leave the queue, so once it has been seen empty there are none,         *)
(* whatever is submitted later.  A reply without a queue is no look at it. *)

\* The part of TypeOK that the argument needs.
PromptsTyped ==
    /\ pc \in [Requests -> {"idle", "serving", "restarting", "replying", "answered"}]
    /\ body \in [Requests -> Body]
    /\ before \in [Requests -> SUBSET Prompts]
    /\ victims \in [Requests -> SUBSET Prompts]
    /\ unseen \in [Requests -> BOOLEAN]

\* What an unforced request knows of the prompts that are older than itself;
\* a thread without a request has destroyed none.
OldPromptsKnown ==
    \A r \in Requests :
        /\ pc[r] = "idle" => victims[r] = {}
        /\ ~body[r].force /\ ~unseen[r] =>
            /\ before[r] \subseteq outstanding
            /\ pc[r] = "restarting" => before[r] = {}
            /\ victims[r] = {} \/ before[r] = {}

\* ComfyUI executes one prompt at a time.
QueueTyped ==
    /\ running \in SUBSET Prompts /\ pending \in SUBSET Prompts
    /\ \A p, q \in running : p = q

PromptInv == QueueTyped /\ PromptsTyped /\ OldPromptsKnown

-----------------------------------------------------------------------------

LEMMA InitEstablishesPromptInv == Init => PromptInv
BY DEF Init, PromptInv, QueueTyped, PromptsTyped, OldPromptsKnown, outstanding, Body, Blank

\* What users do to the queue leaves no old prompt outside it.
LEMMA UsersKeepPromptInv ==
    ASSUME PromptInv, NEW p \in Prompts, Submit(p) \/ Start(p) \/ Finish(p)
    PROVE  PromptInv'
<1> USE DEF PromptInv, QueueTyped, PromptsTyped, outstanding, thread
<1>1. QueueTyped' /\ PromptsTyped'
    BY DEF Submit, Start, Finish
<1>2. CASE Submit(p)
    BY <1>1, <1>2 DEF OldPromptsKnown, Submit
<1>3. CASE Start(p)
    BY <1>1, <1>3 DEF OldPromptsKnown, Start
<1>4. CASE Finish(p)
    BY <1>1, <1>4 DEF OldPromptsKnown, Finish
<1>5. QED
    BY <1>2, <1>3, <1>4

\* A request that begins counts what is in the queue as older than itself;
\* one that ends forgets it.
LEMMA RequestsKeepPromptInv ==
    ASSUME PromptInv, NEW r \in Requests,
           RefuseHeaders(r) \/ RefuseTarget(r) \/ Accept(r) \/ Answer(r) \/ Close(r)
    PROVE  PromptInv'
<1> USE DEF PromptInv, QueueTyped, PromptsTyped, outstanding
<1>1. CASE RefuseHeaders(r) \/ RefuseTarget(r)
    <2>1. \E code \in {200, 400, 401, 404, 409, 415, 502} : Refuse(r, code)
        BY <1>1 DEF RefuseHeaders, RefuseTarget
    <2>2. QED
        BY <2>1 DEF Refuse, OldPromptsKnown
<1>2. CASE Accept(r)
    <2>1. PICK b \in Body : body' = [body EXCEPT ![r] = b]
        BY <1>2 DEF Accept
    <2>2. QueueTyped' /\ PromptsTyped'
        BY <1>2, <2>1 DEF Accept
    <2>3. OldPromptsKnown'
        BY <1>2, <2>1 DEF Accept, OldPromptsKnown
    <2>4. QED
        BY <2>2, <2>3
<1>3. CASE Answer(r)
    <2>1. /\ pc' = [pc EXCEPT ![r] = "answered"]
          /\ UNCHANGED <<running, pending, body, before, victims, unseen>>
        BY <1>3 DEF Answer
    <2>2. QED
        BY <2>1 DEF OldPromptsKnown
<1>4. CASE Close(r)
    <2>1. Blank \in Body
        BY DEF Blank, Body
    <2>2. /\ pc' = [pc EXCEPT ![r] = "idle"] /\ body' = [body EXCEPT ![r] = Blank]
          /\ before' = [before EXCEPT ![r] = {}] /\ victims' = [victims EXCEPT ![r] = {}]
          /\ unseen' = [unseen EXCEPT ![r] = FALSE]
          /\ UNCHANGED <<running, pending>>
        BY <1>4 DEF Close
    <2>3. QueueTyped' /\ PromptsTyped'
        BY <2>1, <2>2
    <2>4. OldPromptsKnown'
        BY <2>2 DEF OldPromptsKnown
    <2>5. QED
        BY <2>3, <2>4
<1>5. QED
    BY <1>1, <1>2, <1>3, <1>4

\* The loop's bookkeeping touches none of it but pc.
LEMMA RecordingKeepsPromptInv ==
    ASSUME PromptInv, NEW r \in Requests, NEW s, NEW code, Record(r, s, code),
           UNCHANGED <<running, pending, body, took, before, victims, unseen>>
    PROVE  PromptInv'
BY DEF PromptInv, QueueTyped, PromptsTyped, OldPromptsKnown, outstanding, Record

\* An empty queue has no old prompt in it.
LEMMA LookingKeepsPromptInv ==
    ASSUME PromptInv, NEW r \in Requests, FindQueueEmpty(r)
    PROVE  PromptInv'
<1> USE DEF PromptInv, QueueTyped, PromptsTyped, outstanding
<1>1. outstanding = {} /\ pc' = [pc EXCEPT ![r] = "restarting"]
    BY DEF FindQueueEmpty, Busy
<1>2. UNCHANGED <<running, pending, body, before, victims, unseen>>
    BY DEF FindQueueEmpty
<1>3. QED
    BY <1>1, <1>2 DEF OldPromptsKnown

\* Without a look at the queue, nothing is known of what is in it.
LEMMA NotLookingKeepsPromptInv ==
    ASSUME PromptInv, NEW r \in Requests, SeeNoQueue(r)
    PROVE  PromptInv'
<1> USE DEF PromptInv, QueueTyped, PromptsTyped, outstanding
<1>1. /\ pc[r] = "serving" /\ pc' = [pc EXCEPT ![r] = "restarting"]
      /\ unseen' = [unseen EXCEPT ![r] = TRUE]
      /\ UNCHANGED <<running, pending, body, before, victims>>
    BY DEF SeeNoQueue, AsksQueue, At
<1>2. QED
    BY <1>1 DEF OldPromptsKnown

\* A restart destroys the queue: its own old prompts only when forced, and
\* those of other requests are then gone for them, too.
LEMMA WorkKeepsPromptInv ==
    ASSUME PromptInv, NEW r \in Requests, Work(r)
    PROVE  PromptInv'
<1> USE DEF PromptInv, QueueTyped, PromptsTyped, outstanding
<1>1. PICK s \in ServiceIds : Ready(r, s) /\ WorkOn(r, s)
    BY DEF Work
<1>2. /\ pc' = [pc EXCEPT ![r] = "replying"]
      /\ UNCHANGED <<body, unseen>>
    BY <1>1 DEF WorkOn
<1>3. CASE s \notin Restarted
    <2>1. UNCHANGED <<victims, before, running, pending>>
        BY <1>1, <1>3 DEF WorkOn
    <2>2. QED
        BY <1>2, <2>1 DEF OldPromptsKnown
<1>4. CASE s \in Restarted
    <2>1. /\ victims' = [victims EXCEPT ![r] = outstanding]
          /\ before' = [q \in Requests |-> IF q = r THEN before[r]
                                      ELSE before[q] \ outstanding]
          /\ running' = {} /\ pending' = {}
        BY <1>1, <1>4 DEF WorkOn
    <2>2. QueueTyped' /\ PromptsTyped'
        BY <1>2, <2>1
    <2>3. ~body[r].force /\ ~unseen[r] => before[r] = {}
        BY <1>1, <1>4 DEF Ready, At, OldPromptsKnown
    <2>4. OldPromptsKnown'
        BY <1>2, <2>1, <2>3 DEF OldPromptsKnown
    <2>5. QED
        BY <2>2, <2>4
<1>5. QED
    BY <1>3, <1>4

\* PromptInv is inductive.
LEMMA NextKeepsPromptInv ==
    ASSUME PromptInv, [Next]_vars
    PROVE  PromptInv'
<1>1. ASSUME NEW p \in Prompts, Submit(p) \/ Start(p) \/ Finish(p)
      PROVE  PromptInv'
    BY <1>1, UsersKeepPromptInv
<1>2. ASSUME NEW r \in Requests,
             RefuseHeaders(r) \/ RefuseTarget(r) \/ Accept(r) \/ Answer(r) \/ Close(r)
      PROVE  PromptInv'
    BY <1>2, RequestsKeepPromptInv
<1>3. ASSUME NEW r \in Requests,
             \/ RefuseModel(r) \/ RefuseBusy(r) \/ FailToAsk(r)
             \/ FailToWork(r) \/ Reply(r) \/ LoseReply(r)
      PROVE  PromptInv'
    <2>1. PICK s, code : /\ Record(r, s, code)
                         /\ UNCHANGED <<running, pending, body, took, before, victims, unseen>>
        BY <1>3 DEF RefuseModel, RefuseBusy, FailToAsk, FailToWork, Reply, LoseReply
    <2>2. QED
        BY <2>1, RecordingKeepsPromptInv
<1>4. ASSUME NEW r \in Requests, FindQueueEmpty(r) \/ SeeNoQueue(r)
      PROVE  PromptInv'
    BY <1>4, LookingKeepsPromptInv, NotLookingKeepsPromptInv
<1>5. ASSUME NEW r \in Requests, Work(r)
      PROVE  PromptInv'
    BY <1>5, WorkKeepsPromptInv
<1>6. CASE UNCHANGED vars
    BY <1>6 DEF vars, PromptInv, QueueTyped, PromptsTyped, OldPromptsKnown, outstanding
<1>7. QED
    BY <1>1, <1>2, <1>3, <1>4, <1>5, <1>6 DEF Next, Serve

LEMMA PromptInvariantHolds == Spec => []PromptInv
<1>1. PromptInv /\ [Next]_vars => PromptInv'
    BY NextKeepsPromptInv
<1>2. QED
    BY <1>1, InitEstablishesPromptInv, PTL DEF Spec

-----------------------------------------------------------------------------

(* An unforced unload never destroys a prompt that was running or queued   *)
(* before the request came in, whatever other requests and users do, as    *)
(* long as ComfyUI answered GET /queue with its queue: the unlocked        *)
(* check-then-restart of ComfyUI.unload guarantees this much.              *)
THEOREM OldPromptsAreSafe == Spec => []OldPromptsSurvive
<1>1. PromptInv => OldPromptsSurvive
    BY DEF PromptInv, OldPromptsKnown, OldPromptsSurvive
<1>2. QED
    BY <1>1, PromptInvariantHolds, PTL

-----------------------------------------------------------------------------
(* do_POST with Models.unload implements UnloadService, for any number of  *)
(* racing requests and any config.  What carries the argument is that the  *)
(* services a request has still to visit are distinct, have no result yet, *)
(* and are untouched but for the one whose reply it is waiting for.        *)

PCs == {"idle", "serving", "restarting", "replying", "answered"}
Statuses == {200, 400, 401, 404, 409, 415, 502}
Result == [service : ServiceIds, code : Codes]

AnswersTyped ==
    /\ pc \in [Requests -> PCs]
    /\ body \in [Requests -> Body]
    /\ todo \in [Requests -> Seq(ServiceIds)]
    /\ results \in [Requests -> Seq(Result)]
    /\ status \in [Requests -> Statuses]
    /\ took \in [Requests -> SUBSET ServiceIds]

Injective(list) == \A i, j \in DOMAIN list : list[i] = list[j] => i = j

\* list has still to be visited: nothing in it has been answered for, and only
\* the head can have been affected, by the call that is under way.
Ahead(list, answers, done, waiting) ==
    /\ Injective(list)
    /\ \A i \in DOMAIN list, j \in DOMAIN answers : list[i] # answers[j].service
    /\ \A i \in DOMAIN list : list[i] \in done <=> (waiting /\ i = 1)

Told(list, done) ==
    \A i \in DOMAIN list : Service!Truthful(list[i].code, list[i].service \in done)

RequestInv(r) ==
    /\ pc[r] = "idle" => todo[r] = <<>> /\ results[r] = <<>> /\ took[r] = {} /\ status[r] = 200
    /\ pc[r] \in {"restarting", "replying"} => todo[r] # <<>>
    /\ pc[r] # "answered" => Service!StatusOf(results[r], status[r]) /\ status[r] \in Codes
    /\ Ahead(todo[r], results[r], took[r], pc[r] = "replying")
    /\ Told(results[r], took[r])

AnswerInv == AnswersTyped /\ \A r \in Requests : RequestInv(r)

-----------------------------------------------------------------------------
(* The lists.                                                              *)

LEMMA TailFacts ==
    ASSUME NEW S, NEW s \in Seq(S), s # <<>>
    PROVE  /\ Tail(s) \in Seq(S) /\ Head(s) \in S /\ Head(s) = s[1]
           /\ 1 \in DOMAIN s
           /\ \A i \in DOMAIN Tail(s) : i + 1 \in DOMAIN s /\ Tail(s)[i] = s[i + 1] /\ i \in Nat \ {0}
OBVIOUS

LEMMA AppendFacts ==
    ASSUME NEW S, NEW s \in Seq(S), NEW e \in S
    PROVE  /\ Append(s, e) \in Seq(S)
           /\ DOMAIN Append(s, e) = DOMAIN s \cup {Len(s) + 1}
           /\ \A i \in DOMAIN s : i \in Nat /\ i < Len(s) + 1 /\ Append(s, e)[i] = s[i]
           /\ Append(s, e)[Len(s) + 1] = e
           /\ Len(s) \in Nat
OBVIOUS

\* A result more leaves the first failure the first.
LEMMA StatusOfAppend ==
    ASSUME NEW list \in Seq(Result), NEW x \in Result, NEW c \in Codes,
           Service!StatusOf(list, c)
    PROVE  Service!StatusOf(Append(list, x), IF c = 200 THEN x.code ELSE c)
<1> DEFINE n == Len(list) + 1
           more == Append(list, x)
<1>1. /\ DOMAIN more = DOMAIN list \cup {n}
      /\ \A i \in DOMAIN list : i \in Nat /\ i < n /\ more[i] = list[i]
      /\ more[n] = x /\ n \in Nat
    BY AppendFacts
<1> HIDE DEF n, more
<1>2. CASE c = 200
    <2>1. \A i \in DOMAIN list : list[i].code = 200
        BY <1>2 DEF Service!StatusOf
    <2>2. CASE x.code = 200
        BY <1>1, <1>2, <2>1, <2>2 DEF Service!StatusOf, more
    <2>3. CASE x.code # 200
        <3>1. \A j \in DOMAIN more : j < n => more[j].code = 200
            BY <1>1, <2>1
        <3>2. n \in DOMAIN more /\ more[n].code = x.code
            BY <1>1
        <3>3. Service!StatusOf(more, x.code)
            BY <3>1, <3>2, <2>3 DEF Service!StatusOf
        <3>4. QED
            BY <3>3, <1>2 DEF more
    <2>4. QED
        BY <2>2, <2>3
<1>3. CASE c # 200
    <2>1. PICK i \in DOMAIN list : /\ list[i].code = c
                                   /\ \A j \in DOMAIN list : j < i => list[j].code = 200
        BY <1>3 DEF Service!StatusOf
    <2>2. i \in DOMAIN more /\ more[i].code = c
        BY <1>1, <2>1
    <2>3. \A j \in DOMAIN more : j < i => more[j].code = 200
        BY <1>1, <2>1
    <2>4. Service!StatusOf(more, c)
        BY <2>2, <2>3, <1>3 DEF Service!StatusOf
    <2>5. QED
        BY <2>4, <1>3 DEF more
<1>4. QED
    BY <1>2, <1>3

LEMMA AheadOfTail ==
    ASSUME NEW list \in Seq(ServiceIds), list # <<>>,
           NEW answers \in Seq(Result), NEW code \in Codes,
           NEW done, NEW waiting, Ahead(list, answers, done, waiting)
    PROVE  Ahead(Tail(list), Append(answers, [service |-> Head(list), code |-> code]),
                 done, FALSE)
<1> DEFINE x == [service |-> Head(list), code |-> code]
<1>1. /\ Head(list) \in ServiceIds /\ Head(list) = list[1] /\ 1 \in DOMAIN list
      /\ \A i \in DOMAIN Tail(list) : /\ i + 1 \in DOMAIN list /\ Tail(list)[i] = list[i + 1]
                                     /\ i \in Nat \ {0}
    BY TailFacts
<1>2. x \in Result
    BY <1>1 DEF Result
<1>3. /\ DOMAIN Append(answers, x) = DOMAIN answers \cup {Len(answers) + 1}
      /\ \A i \in DOMAIN answers : Append(answers, x)[i] = answers[i]
      /\ Append(answers, x)[Len(answers) + 1] = x
    BY <1>2, AppendFacts
<1>4. Injective(Tail(list))
    BY <1>1 DEF Ahead, Injective
<1>5. ASSUME NEW i \in DOMAIN Tail(list), NEW j \in DOMAIN Append(answers, x)
      PROVE  Tail(list)[i] # Append(answers, x)[j].service
    <2>1. CASE j \in DOMAIN answers
        BY <1>1, <1>3, <2>1 DEF Ahead
    <2>2. CASE j = Len(answers) + 1
        <3>1. Append(answers, x)[j].service = list[1]
            BY <1>1, <1>3, <2>2
        <3>2. i + 1 # 1 /\ i + 1 \in DOMAIN list
            BY <1>1
        <3>3. list[i + 1] # list[1]
            BY <1>1, <3>2 DEF Ahead, Injective
        <3>4. QED
            BY <1>1, <3>1, <3>3
    <2>3. QED
        BY <1>3, <2>1, <2>2
<1>6. \A i \in DOMAIN Tail(list) : Tail(list)[i] \notin done
    BY <1>1 DEF Ahead
<1>7. QED
    BY <1>4, <1>5, <1>6 DEF Ahead

-----------------------------------------------------------------------------
(* AnswerInv is inductive.                                                 *)

LEMMA InitEstablishesAnswerInv == Init => AnswerInv
<1> SUFFICES ASSUME Init PROVE AnswerInv
    OBVIOUS
<1>1. AnswersTyped
    BY DEF Init, AnswersTyped, PCs, Statuses, Body, Blank
<1>2. \A r \in Requests : RequestInv(r)
    BY DEF Init, RequestInv, Ahead, Injective, Told, Codes, Service!StatusOf
<1>3. QED
    BY <1>1, <1>2 DEF AnswerInv

\* The loop's bookkeeping, when the result is a truthful one.
LEMMA RecordingKeepsAnswerInv ==
    ASSUME AnswerInv, NEW r \in Requests, NEW code \in Codes,
           pc[r] \in {"serving", "restarting", "replying"}, todo[r] # <<>>,
           Service!Truthful(code, Head(todo[r]) \in took[r]),
           Record(r, Head(todo[r]), code), UNCHANGED <<body, took>>
    PROVE  AnswerInv'
<1> DEFINE x == [service |-> Head(todo[r]), code |-> code]
<1>1. /\ todo[r] \in Seq(ServiceIds) /\ results[r] \in Seq(Result) /\ RequestInv(r)
      /\ status[r] \in Codes
    BY DEF AnswerInv, AnswersTyped, RequestInv
<1>2. /\ Tail(todo[r]) \in Seq(ServiceIds) /\ Head(todo[r]) \in ServiceIds
    BY <1>1, TailFacts
<1>3. x \in Result
    BY <1>2 DEF Result
<1>4. /\ Append(results[r], x) \in Seq(Result)
      /\ DOMAIN Append(results[r], x) = DOMAIN results[r] \cup {Len(results[r]) + 1}
      /\ \A i \in DOMAIN results[r] : Append(results[r], x)[i] = results[r][i]
      /\ Append(results[r], x)[Len(results[r]) + 1] = x
    BY <1>1, <1>3, AppendFacts
<1>5. /\ results' = [results EXCEPT ![r] = Append(results[r], x)]
      /\ status' = [status EXCEPT ![r] = IF status[r] = 200 THEN code ELSE status[r]]
      /\ todo' = [todo EXCEPT ![r] = Tail(todo[r])]
      /\ pc' = [pc EXCEPT ![r] = "serving"]
    BY DEF Record
<1>6. AnswersTyped'
    BY <1>1, <1>2, <1>4, <1>5 DEF AnswerInv, AnswersTyped, PCs, Statuses, Codes
<1>7. RequestInv(r)'
    <2>1. /\ pc'[r] = "serving" /\ todo'[r] = Tail(todo[r])
          /\ results'[r] = Append(results[r], x) /\ took'[r] = took[r]
          /\ status'[r] = IF status[r] = 200 THEN code ELSE status[r]
        BY <1>5 DEF AnswerInv, AnswersTyped
    <2>2. Service!StatusOf(Append(results[r], x), IF status[r] = 200 THEN x.code ELSE status[r])
        BY <1>1, <1>3, StatusOfAppend DEF RequestInv
    <2>3. Ahead(Tail(todo[r]), Append(results[r], x), took[r], FALSE)
        BY <1>1, AheadOfTail DEF RequestInv
    <2>4. Told(Append(results[r], x), took[r])
        BY <1>1, <1>4 DEF RequestInv, Told
    <2>5. status'[r] \in Codes
        BY <1>1, <2>1
    <2>6. QED
        BY <2>1, <2>2, <2>3, <2>4, <2>5 DEF RequestInv, Ahead, Told, Service!StatusOf
<1>8. \A q \in Requests \ {r} : RequestInv(q)'
    <2>1. \A q \in Requests \ {r} : /\ pc'[q] = pc[q] /\ todo'[q] = todo[q]
                                    /\ results'[q] = results[q] /\ took'[q] = took[q]
                                    /\ status'[q] = status[q] /\ RequestInv(q)
        BY <1>5 DEF AnswerInv, AnswersTyped
    <2>2. QED
        BY <2>1 DEF RequestInv, Ahead, Told, Service!StatusOf
<1>9. QED
    BY <1>6, <1>7, <1>8 DEF AnswerInv

\* The call that takes effect: on a service nothing has been told about.
LEMMA WorkKeepsAnswerInv ==
    ASSUME AnswerInv, NEW r \in Requests, Work(r)
    PROVE  /\ AnswerInv'
           /\ Head(todo[r]) \notin took[r] /\ todo[r] # <<>>
           /\ pc[r] \in {"serving", "restarting"} /\ pc' = [pc EXCEPT ![r] = "replying"]
           /\ took' = [took EXCEPT ![r] = @ \cup {Head(todo[r])}]
           /\ UNCHANGED <<body, todo, results, status>>
<1>1. PICK s \in ServiceIds : Ready(r, s) /\ WorkOn(r, s)
    BY DEF Work
<1>2. /\ todo[r] \in Seq(ServiceIds) /\ results[r] \in Seq(Result) /\ RequestInv(r)
    BY DEF AnswerInv, AnswersTyped
<1>3. s = Head(todo[r]) /\ todo[r] # <<>> /\ pc[r] \in {"serving", "restarting"}
    BY <1>1, <1>2 DEF Ready, At, RequestInv
<1>4. /\ s = todo[r][1] /\ 1 \in DOMAIN todo[r]
    BY <1>2, <1>3, TailFacts
<1>5. s \notin took[r]
    BY <1>2, <1>3, <1>4 DEF RequestInv, Ahead
<1>6. /\ took' = [took EXCEPT ![r] = took[r] \cup {s}]
      /\ pc' = [pc EXCEPT ![r] = "replying"]
      /\ UNCHANGED <<body, todo, results, status>>
    BY <1>1 DEF WorkOn
<1>7. AnswersTyped'
    BY <1>6 DEF AnswerInv, AnswersTyped, PCs
<1>8. RequestInv(r)'
    <2>1. /\ pc'[r] = "replying" /\ took'[r] = took[r] \cup {s} /\ status'[r] = status[r]
          /\ todo'[r] = todo[r] /\ results'[r] = results[r]
        BY <1>6 DEF AnswerInv, AnswersTyped
    <2>2. Ahead(todo[r], results[r], took[r] \cup {s}, TRUE)
        BY <1>2, <1>3, <1>4 DEF RequestInv, Ahead, Injective
    <2>3. \A j \in DOMAIN results[r] : results[r][j].service # s
        BY <1>2, <1>4 DEF RequestInv, Ahead
    <2>4. Told(results[r], took[r] \cup {s})
        BY <1>2, <2>3 DEF RequestInv, Told
    <2>5. Service!StatusOf(results[r], status[r]) /\ status[r] \in Codes
        BY <1>2, <1>3 DEF RequestInv
    <2>6. QED
        BY <1>3, <2>1, <2>2, <2>4, <2>5 DEF RequestInv, Ahead, Told, Service!StatusOf
<1>9. \A q \in Requests \ {r} : RequestInv(q)'
    <2>1. \A q \in Requests \ {r} : /\ pc'[q] = pc[q] /\ todo'[q] = todo[q]
                                    /\ results'[q] = results[q] /\ took'[q] = took[q]
                                    /\ status'[q] = status[q] /\ RequestInv(q)
        BY <1>6 DEF AnswerInv, AnswersTyped
    <2>2. QED
        BY <2>1 DEF RequestInv, Ahead, Told, Service!StatusOf
<1>10. QED
    BY <1>3, <1>5, <1>6, <1>7, <1>8, <1>9 DEF AnswerInv

\* A request that gets past the guards has a plan without repetition.
LEMMA TargetsFacts ==
    ASSUME NEW b \in Body
    PROVE  Targets(b) \in Seq(ServiceIds) /\ Injective(Targets(b))
<1>1. CASE b.service = All
    BY <1>1, UnloadAssumption DEF Targets, Injective, IsInjective
<1>2. CASE b.service # All /\ b.service \in ServiceIds
    <2>1. Targets(b) = <<b.service>>
        BY <1>2 DEF Targets
    <2>2. QED
        BY <1>2, <2>1 DEF Injective
<1>3. CASE b.service # All /\ b.service \notin ServiceIds
    <2>1. Targets(b) = <<>>
        BY <1>3 DEF Targets
    <2>2. QED
        BY <2>1 DEF Injective
<1>4. QED
    BY <1>1, <1>2, <1>3

LEMMA AcceptKeepsAnswerInv ==
    ASSUME AnswerInv, NEW r \in Requests, Accept(r)
    PROVE  AnswerInv'
<1>1. PICK b \in Body : /\ body' = [body EXCEPT ![r] = b]
                        /\ todo' = [todo EXCEPT ![r] = Targets(b)]
    BY DEF Accept
<1>2. /\ pc[r] = "idle" /\ pc' = [pc EXCEPT ![r] = "serving"]
      /\ UNCHANGED <<results, status, took>>
    BY DEF Accept
<1>3. AnswersTyped'
    BY <1>1, <1>2, TargetsFacts DEF AnswerInv, AnswersTyped, PCs
<1>4. RequestInv(r)'
    <2>1. /\ results[r] = <<>> /\ took[r] = {} /\ status[r] = 200
        BY <1>2 DEF AnswerInv, RequestInv
    <2>2. /\ pc'[r] = "serving" /\ todo'[r] = Targets(b)
          /\ results'[r] = <<>> /\ took'[r] = {} /\ status'[r] = 200
        BY <1>1, <1>2, <2>1 DEF AnswerInv, AnswersTyped
    <2>3. QED
        BY <2>2, TargetsFacts DEF RequestInv, Ahead, Injective, Told, Codes, Service!StatusOf
<1>5. \A q \in Requests \ {r} : RequestInv(q)'
    <2>1. \A q \in Requests \ {r} : /\ pc'[q] = pc[q] /\ todo'[q] = todo[q]
                                    /\ results'[q] = results[q] /\ took'[q] = took[q]
                                    /\ status'[q] = status[q] /\ RequestInv(q)
        BY <1>1, <1>2 DEF AnswerInv, AnswersTyped
    <2>2. QED
        BY <2>1 DEF RequestInv, Ahead, Told, Service!StatusOf
<1>6. QED
    BY <1>3, <1>4, <1>5 DEF AnswerInv

\* The steps that only move a thread on, or turn its request away.
LEMMA MovingKeepsAnswerInv ==
    ASSUME AnswerInv, NEW r \in Requests,
           RefuseHeaders(r) \/ RefuseTarget(r) \/ FindQueueEmpty(r) \/ SeeNoQueue(r) \/ Answer(r)
    PROVE  AnswerInv'
<1>1. CASE RefuseHeaders(r) \/ RefuseTarget(r)
    <2>1. PICK code \in Statuses : Refuse(r, code)
        BY <1>1 DEF RefuseHeaders, RefuseTarget, Statuses
    <2>2. /\ pc[r] = "idle" /\ pc' = [pc EXCEPT ![r] = "answered"]
          /\ status' = [status EXCEPT ![r] = code]
          /\ UNCHANGED <<body, todo, results, took>>
        BY <2>1 DEF Refuse
    <2>3. QED
        BY <2>2 DEF AnswerInv, AnswersTyped, PCs, RequestInv, Ahead, Told, Service!StatusOf
<1>2. CASE FindQueueEmpty(r) \/ SeeNoQueue(r)
    <2>1. /\ pc[r] = "serving" /\ todo[r] # <<>>
          /\ pc' = [pc EXCEPT ![r] = "restarting"]
          /\ UNCHANGED <<body, todo, results, status, took>>
        BY <1>2 DEF FindQueueEmpty, SeeNoQueue, AsksQueue, At
    <2>2. QED
        BY <2>1 DEF AnswerInv, AnswersTyped, PCs, RequestInv, Ahead, Told, Service!StatusOf
<1>3. CASE Answer(r)
    <2>1. /\ pc[r] = "serving" /\ pc' = [pc EXCEPT ![r] = "answered"]
          /\ UNCHANGED <<body, todo, results, status, took>>
        BY <1>3 DEF Answer
    <2>2. QED
        BY <2>1 DEF AnswerInv, AnswersTyped, PCs, RequestInv, Ahead, Told, Service!StatusOf
<1>4. QED
    BY <1>1, <1>2, <1>3

LEMMA CloseKeepsAnswerInv ==
    ASSUME AnswerInv, NEW r \in Requests, Close(r)
    PROVE  AnswerInv'
<1>1. /\ pc' = [pc EXCEPT ![r] = "idle"] /\ body' = [body EXCEPT ![r] = Blank]
      /\ todo' = [todo EXCEPT ![r] = <<>>] /\ results' = [results EXCEPT ![r] = <<>>]
      /\ status' = [status EXCEPT ![r] = 200] /\ took' = [took EXCEPT ![r] = {}]
    BY DEF Close
<1>2. Blank \in Body
    BY DEF Blank, Body
<1>3. AnswersTyped'
    BY <1>1, <1>2 DEF AnswerInv, AnswersTyped, PCs, Statuses
<1>4. \A q \in Requests : RequestInv(q)'
    BY <1>1 DEF AnswerInv, AnswersTyped, RequestInv, Ahead, Injective, Told, Codes, Service!StatusOf
<1>5. QED
    BY <1>3, <1>4 DEF AnswerInv

\* Every action that records a result records a truthful one.
LEMMA ResultsAreEarned ==
    ASSUME AnswerInv, NEW r \in Requests,
           \/ RefuseModel(r) \/ RefuseBusy(r) \/ FailToAsk(r)
           \/ FailToWork(r) \/ Reply(r) \/ LoseReply(r)
    PROVE  \E code \in Codes :
               /\ pc[r] \in {"serving", "restarting", "replying"} /\ todo[r] # <<>>
               /\ Service!Truthful(code, Head(todo[r]) \in took[r])
               /\ Record(r, Head(todo[r]), code)
               /\ UNCHANGED <<body, took>>
<1>1. /\ todo[r] \in Seq(ServiceIds) /\ RequestInv(r)
    BY DEF AnswerInv, AnswersTyped
<1>2. todo[r] # <<>> => /\ Head(todo[r]) \in took[r] <=> pc[r] = "replying"
    BY <1>1, TailFacts DEF RequestInv, Ahead
<1>3. CASE RefuseModel(r)
    BY <1>2, <1>3 DEF RefuseModel, At, Codes, Service!Truthful
<1>4. CASE RefuseBusy(r)
    BY <1>2, <1>4 DEF RefuseBusy, AsksQueue, At, Codes, Service!Truthful
<1>5. CASE FailToAsk(r)
    BY <1>5 DEF FailToAsk, AsksQueue, At, Codes, Service!Truthful
<1>6. CASE FailToWork(r)
    BY <1>1, <1>6 DEF FailToWork, Ready, At, RequestInv, Codes, Service!Truthful
<1>7. CASE Reply(r)
    BY <1>1, <1>2, <1>7 DEF Reply, RequestInv, Codes, Service!Truthful
<1>8. CASE LoseReply(r)
    BY <1>1, <1>8 DEF LoseReply, RequestInv, Codes, Service!Truthful
<1>9. QED
    BY <1>3, <1>4, <1>5, <1>6, <1>7, <1>8

LEMMA NextKeepsAnswerInv ==
    ASSUME AnswerInv, [Next]_vars
    PROVE  AnswerInv'
<1> DEFINE locals == <<pc, body, todo, results, status, took>>
<1>1. ASSUME UNCHANGED locals PROVE AnswerInv'
    BY <1>1 DEF AnswerInv, AnswersTyped, RequestInv, Ahead, Told, Service!StatusOf
<1>2. ASSUME NEW p \in Prompts, Submit(p) \/ Start(p) \/ Finish(p)
      PROVE  AnswerInv'
    BY <1>1, <1>2 DEF Submit, Start, Finish, thread
<1>3. ASSUME NEW r \in Requests,
             \/ RefuseModel(r) \/ RefuseBusy(r) \/ FailToAsk(r)
             \/ FailToWork(r) \/ Reply(r) \/ LoseReply(r)
      PROVE  AnswerInv'
    BY <1>3, ResultsAreEarned, RecordingKeepsAnswerInv
<1>4. ASSUME NEW r \in Requests,
             \/ RefuseHeaders(r) \/ RefuseTarget(r)
             \/ FindQueueEmpty(r) \/ SeeNoQueue(r) \/ Answer(r)
      PROVE  AnswerInv'
    BY <1>4, MovingKeepsAnswerInv
<1>5. ASSUME NEW r \in Requests, Accept(r) \/ Work(r) \/ Close(r)
      PROVE  AnswerInv'
    BY <1>5, AcceptKeepsAnswerInv, WorkKeepsAnswerInv, CloseKeepsAnswerInv
<1>6. CASE UNCHANGED vars
    BY <1>1, <1>6 DEF vars
<1>7. QED
    BY <1>2, <1>3, <1>4, <1>5, <1>6 DEF Next, Serve

LEMMA AnswerInvariantHolds == Spec => []AnswerInv
<1>1. AnswerInv /\ [Next]_vars => AnswerInv'
    BY NextKeepsAnswerInv
<1>2. QED
    BY <1>1, InitEstablishesAnswerInv, PTL DEF Spec

(* The queue, the threads' locals and the history keep their types, for    *)
(* any number of requests, services, models and prompts.                   *)
THEOREM UnloadTypeCorrect == Spec => []TypeOK
<1>1. PromptInv /\ AnswerInv => TypeOK
    BY DEF PromptInv, QueueTyped, PromptsTyped, AnswerInv, AnswersTyped, PCs, Statuses,
           Result, TypeOK
<1>2. QED
    BY <1>1, PromptInvariantHolds, AnswerInvariantHolds, PTL

(* ok: true means that the service did unload on this request's call, and  *)
(* a refusal that this request left it alone, for any config, any number   *)
(* of racing requests and any failures (the results of Models.unload).     *)
THEOREM ResultsAreTruthful == Spec => []ResultsTruthful
<1>1. AnswerInv => ResultsTruthful
    BY DEF AnswerInv, RequestInv, Told, ResultsTruthful, Service!Truthful
<1>2. QED
    BY <1>1, AnswerInvariantHolds, PTL

-----------------------------------------------------------------------------
(* Step by step, Unload is UnloadService.                                  *)

\* The caller's view of a step that changes no thread but r.
LEMMA ViewOfWorking ==
    ASSUME AnswersTyped, NEW r \in Requests, NEW p, p \notin {"idle", "answered"},
           pc' = [pc EXCEPT ![r] = p],
           \A q \in Requests \ {r} : status'[q] = status[q]
    PROVE  Phase' = [Phase EXCEPT ![r] = "open"] /\ Sent' = [Sent EXCEPT ![r] = 200]
BY DEF AnswersTyped, Phase, Sent

LEMMA ViewOfClosing ==
    ASSUME AnswersTyped, NEW r \in Requests, NEW s,
           pc' = [pc EXCEPT ![r] = "answered"], status' = [status EXCEPT ![r] = s]
    PROVE  Phase' = [Phase EXCEPT ![r] = "answered"] /\ Sent' = [Sent EXCEPT ![r] = s]
BY DEF AnswersTyped, Phase, Sent

LEMMA ViewOfForgetting ==
    ASSUME AnswersTyped, NEW r \in Requests, NEW s,
           pc' = [pc EXCEPT ![r] = "idle"], status' = [status EXCEPT ![r] = s]
    PROVE  Phase' = [Phase EXCEPT ![r] = "none"] /\ Sent' = [Sent EXCEPT ![r] = 200]
BY DEF AnswersTyped, Phase, Sent

LEMMA ViewOfState ==
    ASSUME AnswersTyped, NEW r \in Requests
    PROVE  /\ pc[r] = "idle" => Phase[r] = "none"
           /\ pc[r] = "answered" => Phase[r] = "answered"
           /\ pc[r] \in {"serving", "restarting", "replying"} =>
                  /\ Phase[r] = "open" /\ Phase = [Phase EXCEPT ![r] = "open"]
           /\ pc[r] # "answered" => Sent = [Sent EXCEPT ![r] = 200]
BY DEF AnswersTyped, PCs, Phase, Sent

LEMMA InitRefines == Init => Service!Init
BY DEF Init, Service!Init, Phase, Sent

LEMMA OpenRefines ==
    ASSUME AnswerInv, NEW r \in Requests, Accept(r)
    PROVE  Service!Open(r)
<1>1. PICK b \in Body : /\ Targets(b) # <<>> /\ todo' = [todo EXCEPT ![r] = Targets(b)]
    BY DEF Accept
<1>2. /\ pc[r] = "idle" /\ pc' = [pc EXCEPT ![r] = "serving"]
      /\ UNCHANGED <<results, status, took>>
    BY DEF Accept
<1>3. status' = [status EXCEPT ![r] = status[r]]
    BY <1>2 DEF AnswerInv, AnswersTyped
<1>4. /\ Phase[r] = "none" /\ Phase' = [Phase EXCEPT ![r] = "open"]
      /\ UNCHANGED Sent
    BY <1>2, <1>3, ViewOfWorking, ViewOfState DEF AnswerInv
<1>5. QED
    BY <1>1, <1>2, <1>4 DEF Service!Open

LEMMA TurnAwayRefines ==
    ASSUME AnswerInv, NEW r \in Requests, RefuseHeaders(r) \/ RefuseTarget(r)
    PROVE  \E code \in {400, 401, 404, 415} : Service!TurnAway(r, code)
<1>1. PICK code \in {400, 401, 404, 415} : Refuse(r, code)
    BY DEF RefuseHeaders, RefuseTarget
<1>2. /\ pc[r] = "idle" /\ pc' = [pc EXCEPT ![r] = "answered"]
      /\ status' = [status EXCEPT ![r] = code]
      /\ UNCHANGED <<todo, results, took>>
    BY <1>1 DEF Refuse
<1>3. /\ Phase[r] = "none" /\ Phase' = [Phase EXCEPT ![r] = "answered"]
    BY <1>2 DEF AnswerInv, AnswersTyped, Phase
<1>4. Sent' = [Sent EXCEPT ![r] = code]
    BY <1>2 DEF AnswerInv, AnswersTyped, Sent
<1>5. Service!TurnAway(r, code)
    BY <1>2, <1>3, <1>4 DEF Service!TurnAway
<1>6. QED
    BY <1>1, <1>5

LEMMA SettleRefines ==
    ASSUME AnswerInv, NEW r \in Requests,
           \/ RefuseModel(r) \/ RefuseBusy(r) \/ FailToAsk(r)
           \/ FailToWork(r) \/ Reply(r) \/ LoseReply(r)
    PROVE  \E code \in Codes : Service!Settle(r, code)
<1>1. PICK code \in Codes :
          /\ pc[r] \in {"serving", "restarting", "replying"} /\ todo[r] # <<>>
          /\ Service!Truthful(code, Head(todo[r]) \in took[r])
          /\ Record(r, Head(todo[r]), code)
          /\ UNCHANGED <<body, took>>
    BY ResultsAreEarned
<1>2. /\ pc' = [pc EXCEPT ![r] = "serving"]
      /\ status' = [status EXCEPT ![r] = IF status[r] = 200 THEN code ELSE status[r]]
      /\ results' = [results EXCEPT ![r] =
                         Append(@, [service |-> Head(todo[r]), code |-> code])]
      /\ todo' = [todo EXCEPT ![r] = Tail(@)]
    BY <1>1 DEF Record, AnswerInv, AnswersTyped
<1>3. Phase[r] = "open" /\ UNCHANGED Phase
    BY <1>1, <1>2 DEF AnswerInv, AnswersTyped, Phase
<1>4. UNCHANGED Sent
    BY <1>1, <1>2 DEF AnswerInv, AnswersTyped, Sent
<1>5. Service!Settle(r, code)
    BY <1>1, <1>2, <1>3, <1>4 DEF Service!Settle
<1>6. QED
    BY <1>1, <1>5

LEMMA AnswerRefines ==
    ASSUME AnswerInv, NEW r \in Requests, Answer(r)
    PROVE  \E code \in Codes : Service!Answer(r, code)
<1>1. /\ pc[r] = "serving" /\ todo[r] = <<>> /\ pc' = [pc EXCEPT ![r] = "answered"]
      /\ UNCHANGED <<todo, results, status, took>>
    BY DEF Answer
<1>2. Service!StatusOf(results[r], status[r]) /\ status[r] \in Codes
    BY <1>1 DEF AnswerInv, RequestInv
<1>3. status' = [status EXCEPT ![r] = status[r]]
    BY <1>1 DEF AnswerInv, AnswersTyped
<1>4. /\ Phase[r] = "open" /\ Phase' = [Phase EXCEPT ![r] = "answered"]
      /\ Sent' = [Sent EXCEPT ![r] = status[r]]
    BY <1>1, <1>3, ViewOfClosing, ViewOfState DEF AnswerInv
<1>5. Service!Answer(r, status[r])
    BY <1>1, <1>2, <1>4 DEF Service!Answer
<1>6. QED
    BY <1>2, <1>5

LEMMA ForgetRefines ==
    ASSUME AnswerInv, NEW r \in Requests, Close(r)
    PROVE  Service!Forget(r)
<1>1. /\ pc[r] = "answered" /\ pc' = [pc EXCEPT ![r] = "idle"]
      /\ todo' = [todo EXCEPT ![r] = <<>>] /\ results' = [results EXCEPT ![r] = <<>>]
      /\ status' = [status EXCEPT ![r] = 200] /\ took' = [took EXCEPT ![r] = {}]
    BY DEF Close
<1>2. QED
    BY <1>1, ViewOfForgetting, ViewOfState DEF Service!Forget, AnswerInv

LEMMA AffectRefines ==
    ASSUME AnswerInv, NEW r \in Requests, Work(r)
    PROVE  Service!Affect(r)
<1>1. /\ Head(todo[r]) \notin took[r] /\ todo[r] # <<>>
      /\ pc[r] \in {"serving", "restarting"} /\ pc' = [pc EXCEPT ![r] = "replying"]
      /\ took' = [took EXCEPT ![r] = @ \cup {Head(todo[r])}]
      /\ UNCHANGED <<body, todo, results, status>>
    BY WorkKeepsAnswerInv
<1>2. UNCHANGED Phase
    BY <1>1 DEF AnswerInv, AnswersTyped, Phase
<1>3. UNCHANGED Sent
    BY <1>1 DEF AnswerInv, AnswersTyped, Sent
<1>4. QED
    BY <1>1, <1>2, <1>3, ViewOfState DEF Service!Affect, AnswerInv

LEMMA NextRefines ==
    ASSUME AnswerInv, [Next]_vars
    PROVE  [Service!Next]_(Service!vars)
<1>1. ASSUME UNCHANGED <<pc, todo, results, status, took>>
      PROVE  UNCHANGED Service!vars
    BY <1>1 DEF Service!vars, Phase, Sent
<1>2. ASSUME NEW p \in Prompts, Submit(p) \/ Start(p) \/ Finish(p)
      PROVE  UNCHANGED Service!vars
    BY <1>1, <1>2 DEF Submit, Start, Finish, thread
<1>3. ASSUME NEW r \in Requests, FindQueueEmpty(r) \/ SeeNoQueue(r)
      PROVE  UNCHANGED Service!vars
    <2>1. /\ pc[r] = "serving" /\ pc' = [pc EXCEPT ![r] = "restarting"]
          /\ UNCHANGED <<todo, results, status, took>>
        BY <1>3 DEF FindQueueEmpty, SeeNoQueue, AsksQueue, At
    <2>2. UNCHANGED Phase
        BY <2>1 DEF AnswerInv, AnswersTyped, Phase
    <2>3. UNCHANGED Sent
        BY <2>1 DEF AnswerInv, AnswersTyped, Sent
    <2>4. QED
        BY <2>1, <2>2, <2>3 DEF Service!vars
<1>4. ASSUME NEW r \in Requests,
             \/ RefuseHeaders(r) \/ RefuseTarget(r) \/ Accept(r) \/ Close(r)
             \/ RefuseModel(r) \/ RefuseBusy(r) \/ FailToAsk(r) \/ FailToWork(r)
             \/ Reply(r) \/ LoseReply(r) \/ Work(r) \/ Answer(r)
      PROVE  Service!Next
    BY <1>4, OpenRefines, TurnAwayRefines, SettleRefines, AnswerRefines, ForgetRefines,
       AffectRefines DEF Service!Next, Codes
<1>5. CASE UNCHANGED vars
    BY <1>1, <1>5 DEF vars
<1>6. QED
    BY <1>2, <1>3, <1>4, <1>5 DEF Next, Serve

(* do_POST with Models.unload implements UnloadService: it affects a       *)
(* target only in its turn and before its result, no service besides, and  *)
(* closes with the status of the first failure.                            *)
THEOREM UnloadImplementsService == Spec => ImplementsService
<1>1. AnswerInv /\ [Next]_vars => [Service!Next]_(Service!vars)
    BY NextRefines
<1>2. QED
    BY <1>1, InitRefines, AnswerInvariantHolds, PTL DEF Spec, ImplementsService, Service!Spec
=============================================================================
