------------------------------- MODULE Stream -------------------------------
(***************************************************************************)
(* GET /stream: one handler thread per client sends an info event and then *)
(* a tick per interval, for as long as the client is there.  next_t is the *)
(* schedule: it advances by one interval per tick, the thread sleeps until *)
(* it, and a thread that fell behind sets it to the present.  The socket   *)
(* buffers what the client has not read; a client that vanished silently   *)
(* never reads again, and only the socket timeout ends its thread.         *)
(*                                                                         *)
(* Time is relative: the model keeps next_t - now and how long ago the     *)
(* last ticks began, so that a stream may run forever.                     *)
(***************************************************************************)
EXTENDS Integers, FiniteSetsExt

CONSTANTS
    Interval,   \* 1 / hz, in units of the model's clock
    Room,       \* events that fit into the socket buffer
    Behind      \* bound: a larger delay than this is not told apart from it

ASSUME StreamAssumption ==
    /\ Interval \in Nat \ {0}
    /\ Room \in Nat \ {0}
    /\ Behind \in Nat /\ Behind >= Interval

VARIABLES
    at,         \* where the handler thread is
    slack,      \* next_t - time.monotonic()
    buffer,     \* events sent and not read yet
    client,     \* whether it reads, is silently gone, or has closed
    ago         \* history: time since the last three ticks began, up to Interval

streamVars == <<at, slack, buffer, client, ago>>

TypeOK ==
    /\ at \in {"info", "begin", "collect", "send", "pace", "sleep", "closed"}
    /\ slack \in (0 - Behind) .. Interval
    /\ buffer \in 0 .. Room
    /\ client \in {"reading", "silent", "closed"}
    /\ ago \in [1 .. 3 -> 0 .. Interval]

\* A client has connected.
StreamInit ==
    /\ at = "info"
    /\ slack = 0
    /\ buffer = 0
    /\ client = "reading"
    /\ ago = [i \in 1 .. 3 |-> Interval]

-----------------------------------------------------------------------------
(* Time, and the client.                                                   *)

Elapse ==
    /\ slack' = Max({slack - 1, 0 - Behind})
    /\ ago' = [i \in 1 .. 3 |-> Min({ago[i] + 1, Interval})]
    /\ UNCHANGED <<at, buffer, client>>

ReadEvent ==
    /\ client = "reading" /\ buffer > 0
    /\ buffer' = buffer - 1
    /\ UNCHANGED <<at, slack, client, ago>>

\* The client's host is gone without a word, or closes the connection.
Leave ==
    /\ client = "reading"
    /\ client' \in {"silent", "closed"}
    /\ UNCHANGED <<at, slack, buffer, ago>>

-----------------------------------------------------------------------------
(* _stream                                                                 *)

Go(from, to) == at = from /\ at' = to

SendInfo ==
    /\ Go("info", "begin")
    /\ buffer' = buffer + 1
    /\ slack' = 0
    /\ UNCHANGED <<client, ago>>

\* self.state.tick() begins.
BeginTick ==
    /\ Go("begin", "collect")
    /\ ago' = [i \in 1 .. 3 |-> IF i = 1 THEN 0 ELSE ago[i - 1]]
    /\ UNCHANGED <<slack, buffer, client>>

EndTick ==
    /\ Go("collect", "send")
    /\ UNCHANGED <<slack, buffer, client, ago>>

SendTick ==
    /\ Go("send", "pace")
    /\ buffer < Room
    /\ buffer' = buffer + 1
    /\ UNCHANGED <<slack, client, ago>>

\* Mutant: Handler.timeout is not set, and a full buffer blocks the thread.
NoTimeOut == FALSE /\ UNCHANGED streamVars

\* Handler.timeout: the write has been blocked for 30 seconds.
TimeOut ==
    /\ Go("send", "closed")
    /\ buffer = Room
    /\ UNCHANGED <<slack, buffer, client, ago>>

\* BrokenPipeError, ConnectionResetError: the connection was closed.
Break ==
    /\ at \in {"info", "send"} /\ client = "closed"
    /\ at' = "closed"
    /\ UNCHANGED <<slack, buffer, client, ago>>

\* next_t += interval; there is time left.
Ahead ==
    /\ slack + Interval > 0
    /\ Go("pace", "sleep")
    /\ slack' = slack + Interval
    /\ UNCHANGED <<buffer, client, ago>>

\* Mutant: the schedule is kept, and the missed ticks are sent at once.
CatchUp ==
    /\ slack + Interval <= 0
    /\ Go("pace", "begin")
    /\ slack' = slack + Interval
    /\ UNCHANGED <<buffer, client, ago>>

\* Mutant: "next_t = now + interval", to which the next turn adds another.
ResyncLate ==
    /\ slack + Interval <= 0
    /\ Go("pace", "begin")
    /\ slack' = Interval
    /\ UNCHANGED <<buffer, client, ago>>

\* Fell behind, resync.
Resync ==
    /\ slack + Interval <= 0
    /\ Go("pace", "begin")
    /\ slack' = 0
    /\ UNCHANGED <<buffer, client, ago>>

\* Mutant: the thread waits for the very instant, which it can miss.
WakeAtInstant ==
    /\ slack = 0
    /\ Go("sleep", "begin")
    /\ UNCHANGED <<slack, buffer, client, ago>>

\* time.sleep returns, at next_t or later.
WakeUp ==
    /\ slack <= 0
    /\ Go("sleep", "begin")
    /\ UNCHANGED <<slack, buffer, client, ago>>

\* Another client connects.
Connect ==
    /\ Go("closed", "info")
    /\ slack' = 0
    /\ buffer' = 0
    /\ client' = "reading"
    /\ ago' = [i \in 1 .. 3 |-> Interval]

Serve ==
    \/ SendInfo \/ BeginTick \/ EndTick
    \/ SendTick \/ TimeOut \/ Break
    \/ Ahead \/ Resync \/ WakeUp

StreamNext == Elapse \/ ReadEvent \/ Leave \/ Serve \/ Connect

StreamSpec == StreamInit /\ [][StreamNext]_streamVars

\* Time passes, and the handler thread is scheduled: a blocked write ends
\* with room in the buffer or with the timeout.
FairStreamSpec == StreamSpec /\ WF_streamVars(Elapse) /\ WF_streamVars(Serve)

-----------------------------------------------------------------------------
(* However long a tick or a write took, and however late the thread woke   *)
(* up, the client never gets a burst: three ticks in a row never begin     *)
(* within less than one interval.                                          *)
NoBurst == at = "collect" => ago[3] >= Interval

(* A client that is gone does not keep its handler thread for good, not    *)
(* even one whose host went down without closing the connection.           *)
GoneClientDropped == client # "reading" ~> at = "closed"

(* A stream never stops by itself: a thread that waits begins another tick *)
(* as long as the client reads, also after it fell behind.                 *)
TicksKeepComing == at = "sleep" ~> (at = "collect" \/ client # "reading")

-----------------------------------------------------------------------------
(* The inductive invariant behind NoBurst, on the schedule and the ticks:  *)
(* when the thread is due, its last tick began before next_t and the one   *)
(* before that by a whole interval more, or both are long past.            *)

\* The last tick but (i - 1) began n or more before next_t, or is long past.
BeganBy(i, n) == ago[i] >= Interval \/ ago[i] + slack >= n

PaceInv ==
    /\ TypeOK
    /\ at = "info" => buffer = 0 /\ \A i \in 1 .. 3 : ago[i] = Interval
    /\ at = "begin" => slack <= 0
    /\ at \in {"begin", "sleep"} => BeganBy(1, 0) /\ BeganBy(2, Interval)
    /\ at \in {"collect", "send", "pace"} =>
           slack <= 0 /\ BeganBy(2, 0) /\ ago[3] >= Interval
=============================================================================
