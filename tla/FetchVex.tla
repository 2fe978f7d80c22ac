------------------------------ MODULE FetchVex ------------------------------
(***************************************************************************)
(* The HTTP side of the pipeline, fetch_vex.py: the coroutines of one      *)
(* gather() share a request semaphore and one lazily started Playwright    *)
(* driver, which any of them may find dead and replace, until main() of    *)
(* update_stats.py closes it.                                              *)
(*                                                                         *)
(* A task is one call of get().  The places of a task are the awaits of    *)
(* its code: whatever happens between two awaits is one action.  How long  *)
(* a sleep lasts is left open.                                             *)
(***************************************************************************)
EXTENDS Integers, FiniteSets

CONSTANTS
    Tasks,          \* the calls of get() of one gather()
    MaxInFlight,    \* the size of _REQUEST_SEMAPHORE
    MaxFailures,    \* bound on what goes wrong outside the program
    MaxDrivers,     \* bound on the drivers started
    None            \* Python's None

ASSUME TasksAssumption == IsFiniteSet(Tasks) /\ Tasks # {}
ASSUME BoundsAssumption ==
    /\ MaxInFlight \in Nat \ {0}
    /\ MaxFailures \in Nat
    /\ MaxDrivers \in Nat

\* Drivers are numbered in the order in which they are started.
Drivers == 1..MaxDrivers

ASSUME NoneAssumption == None \notin Drivers /\ None \notin Tasks

VARIABLES
    playwright,     \* _playwright: the cached driver
    context,        \* _request_context, named by the driver it belongs to
    running,        \* the driver processes that run
    started,        \* how many drivers were started
    orphans,        \* ghost: drivers whose new_context() or stop() raised
    pc,             \* where each task is
    own,            \* each task's request_context (or the driver it starts or stops)
    main,           \* where main() is
    doomed,         \* the driver close() is stopping
    failures,       \* how much went wrong so far
    breakdowns      \* ghost: how often a driver or its connection broke

vars == <<playwright, context, running, started, orphans, pc, own, main, doomed,
          failures, breakdowns>>

\* Where a task holds a slot of the semaphore.
InSlot == {"context", "starting", "new_context", "pace", "request", "body",
           "discard", "stopping", "backoff"}
Places == InSlot \cup {"slot", "done", "raised"}

Holders == {t \in Tasks : pc[t] \in InSlot}

\* _init_lock is held across the awaits of _get_request_context() only.
LockFree == \A t \in Tasks : pc[t] \notin {"starting", "new_context"}

\* main() has not returned: afterwards asyncio.run() cancels every task.
LoopRuns == main # "closed"

Init ==
    /\ playwright = None
    /\ context = None
    /\ running = {}
    /\ started = 0
    /\ orphans = {}
    /\ pc = [t \in Tasks |-> "slot"]
    /\ own = [t \in Tasks |-> None]
    /\ main = "gather"
    /\ doomed = None
    /\ failures = 0
    /\ breakdowns = 0

Goto(t, place) == pc' = [pc EXCEPT ![t] = place]
counts == <<failures, breakdowns>>
Fail == failures < MaxFailures /\ failures' = failures + 1 /\ UNCHANGED breakdowns
Break == failures < MaxFailures /\ failures' = failures + 1 /\ breakdowns' = breakdowns + 1

shared == <<playwright, context, running, started, orphans>>
closing == <<main, doomed>>

-----------------------------------------------------------------------------
(* get(): slot and context *)

\* The semaphore has a slot left.
EnterSlot(t) ==
    /\ LoopRuns
    /\ pc[t] = "slot"
    /\ Cardinality(Holders) < MaxInFlight
    /\ Goto(t, "context")
    /\ UNCHANGED <<shared, closing, own, counts>>

\* Mutant: the check is not made under the lock.
GetRequestContext_Unlocked(t) ==
    /\ LoopRuns
    /\ pc[t] = "context"
    /\ own' = [own EXCEPT ![t] = context]
    /\ Goto(t, IF context = None THEN "starting" ELSE "pace")
    /\ UNCHANGED <<shared, closing, counts>>

\* Mutant: whatever is cached is returned, nothing is started.
GetRequestContext_NoStart(t) ==
    /\ LoopRuns
    /\ pc[t] = "context"
    /\ LockFree
    /\ own' = [own EXCEPT ![t] = context]
    /\ Goto(t, "pace")
    /\ UNCHANGED <<shared, closing, counts>>

\* _get_request_context(): the cached context, or the lock is kept to start one.
GetRequestContext(t) ==
    /\ LoopRuns
    /\ pc[t] = "context"
    /\ LockFree
    /\ own' = [own EXCEPT ![t] = context]
    /\ Goto(t, IF context = None THEN "starting" ELSE "pace")
    /\ UNCHANGED <<shared, closing, counts>>

\* async_playwright().start() returned: whatever was cached is overwritten.
StartDriver(t) ==
    /\ LoopRuns
    /\ pc[t] = "starting"
    /\ started < MaxDrivers
    /\ started' = started + 1
    /\ playwright' = started + 1
    /\ running' = running \cup {started + 1}
    /\ own' = [own EXCEPT ![t] = started + 1]
    /\ Goto(t, "new_context")
    /\ UNCHANGED <<context, orphans, closing, counts>>

NewContext(t) ==
    /\ LoopRuns
    /\ pc[t] = "new_context"
    /\ own[t] \in running
    /\ context' = own[t]
    /\ Goto(t, "pace")
    /\ UNCHANGED <<playwright, running, started, orphans, own, closing, counts>>

\* Neither call is inside a try: the exception ends the task, and the driver
\* of a failed new_context() stays behind in _playwright.
StartDriverRaises(t) ==
    /\ LoopRuns
    /\ pc[t] = "starting"
    /\ Break
    /\ Goto(t, "raised")
    /\ UNCHANGED <<shared, own, closing>>

NewContextRaises(t) ==
    /\ LoopRuns
    /\ pc[t] = "new_context"
    /\ \/ own[t] \notin running /\ UNCHANGED counts
       \/ Break
    /\ orphans' = orphans \cup {own[t]}
    /\ Goto(t, "raised")
    /\ UNCHANGED <<playwright, context, running, started, own, closing>>

-----------------------------------------------------------------------------
(* get(): one attempt *)

\* A token is chosen and rate_limiter.acquire() awaited; the context may be
\* discarded meanwhile.
Pace(t) ==
    /\ LoopRuns
    /\ pc[t] = "pace"
    /\ Goto(t, "request")
    /\ UNCHANGED <<shared, own, closing, counts>>

\* 2xx: the status is there, the body is still to be read.
Respond(t) ==
    /\ LoopRuns
    /\ pc[t] = "request"
    /\ own[t] \in running
    /\ Goto(t, "body")
    /\ UNCHANGED <<shared, own, closing, counts>>

\* res.json() is not inside the try: a driver that is gone by now, as when
\* another task discards it, ends the task with an exception.
ReadBody(t) ==
    /\ LoopRuns
    /\ pc[t] = "body"
    /\ Goto(t, IF own[t] \in running THEN "done" ELSE "raised")
    /\ UNCHANGED <<shared, own, closing, counts>>

\* 429 or 5xx: sleep and try again, in the same slot.
RetryLater(t) ==
    /\ LoopRuns
    /\ pc[t] = "request"
    /\ own[t] \in running
    /\ Fail
    /\ Goto(t, "backoff")
    /\ UNCHANGED <<shared, own, closing>>

\* Any other 4xx, or a body that cannot be read, ends the task with an exception.
ClientError(t) ==
    /\ LoopRuns
    /\ pc[t] \in {"request", "body"}
    /\ own[t] \in running
    /\ Fail
    /\ Goto(t, "raised")
    /\ UNCHANGED <<shared, own, closing>>

\* The request raises: always when its driver is gone, sometimes otherwise.
TransportError(t) ==
    /\ LoopRuns
    /\ pc[t] = "request"
    /\ \/ own[t] \notin running /\ UNCHANGED counts
       \/ own[t] \in running /\ Break
    /\ Goto(t, "discard")
    /\ UNCHANGED <<shared, own, closing>>

\* Mutant: any cached context is dropped.
DiscardRequestContext_Any(t) ==
    /\ LoopRuns
    /\ pc[t] = "discard"
    /\ LockFree
    /\ context' = None
    /\ playwright' = None
    /\ own' = [own EXCEPT ![t] = playwright]
    /\ Goto(t, IF playwright = None THEN "backoff" ELSE "stopping")
    /\ UNCHANGED <<running, started, orphans, closing, counts>>

\* Mutant: the dead context stays cached.
DiscardRequestContext_Keep(t) ==
    /\ LoopRuns
    /\ pc[t] = "discard"
    /\ Goto(t, "backoff")
    /\ UNCHANGED <<shared, own, closing, counts>>

\* _discard_request_context(): only if the context that failed is still cached.
DiscardRequestContext(t) ==
    /\ LoopRuns
    /\ pc[t] = "discard"
    /\ LockFree
    /\ IF context # own[t]
       THEN /\ Goto(t, "backoff")
            /\ UNCHANGED <<playwright, context, own>>
       ELSE /\ context' = None
            /\ playwright' = None
            /\ own' = [own EXCEPT ![t] = playwright]
            /\ Goto(t, IF playwright = None THEN "backoff" ELSE "stopping")
    /\ UNCHANGED <<running, started, orphans, closing, counts>>

\* dead_playwright.stop(), outside the lock.
StopDeadDriver(t) ==
    /\ LoopRuns
    /\ pc[t] = "stopping"
    /\ running' = running \ {own[t]}
    /\ Goto(t, "backoff")
    /\ UNCHANGED <<playwright, context, started, orphans, own, closing, counts>>

\* stop() raised and the exception is swallowed: nobody knows the driver now.
StopRaises(t) ==
    /\ LoopRuns
    /\ pc[t] = "stopping"
    /\ Fail
    /\ orphans' = orphans \cup {own[t]}
    /\ Goto(t, "backoff")
    /\ UNCHANGED <<playwright, context, running, started, own, closing>>

Retry(t) ==
    /\ LoopRuns
    /\ pc[t] = "backoff"
    /\ Goto(t, "context")
    /\ UNCHANGED <<shared, own, closing, counts>>

-----------------------------------------------------------------------------
(* main() and the environment *)

\* gather() returns when every task is done and raises with the first that
\* raised; the others keep running while main() goes on to close().
CloseBegins ==
    /\ main = "gather"
    /\ \/ \A t \in Tasks : pc[t] = "done"
       \/ \E t \in Tasks : pc[t] = "raised"
    /\ main' = IF context # None THEN "dispose" ELSE "forget"
    /\ UNCHANGED <<shared, pc, own, doomed, counts>>

\* _request_context.dispose() returned.
ContextDisposed ==
    /\ main = "dispose"
    /\ context' = None
    /\ main' = "forget"
    /\ UNCHANGED <<playwright, running, started, orphans, pc, own, doomed, counts>>

\* The second half of close(), up to the stop() of the driver it finds.
CloseStops ==
    /\ main = "forget"
    /\ doomed' = playwright
    /\ main' = IF playwright = None THEN "closed" ELSE "stop"
    /\ UNCHANGED <<shared, pc, own, counts>>

DriverStopped ==
    /\ main = "stop"
    /\ running' = running \ {doomed}
    /\ playwright' = None
    /\ doomed' = None
    /\ main' = "closed"
    /\ UNCHANGED <<context, started, orphans, pc, own, counts>>

\* Neither call of close() is inside a try: the rest of it is skipped.
CloseRaises ==
    /\ \/ main = "dispose" /\ context \notin running /\ UNCHANGED counts
       \/ main = "stop" /\ doomed \notin running /\ UNCHANGED counts
       \/ main \in {"dispose", "stop"} /\ Fail
    /\ main' = "closed"
    /\ UNCHANGED <<shared, pc, own, doomed>>

Close == CloseBegins \/ ContextDisposed \/ CloseStops \/ DriverStopped

\* A driver process crashes.
DriverDies ==
    /\ LoopRuns
    /\ Break
    /\ \E d \in running : running' = running \ {d}
    /\ UNCHANGED <<playwright, context, started, orphans, pc, own, closing>>

\* The steps of a task that end by themselves.
Step(t) ==
    \/ EnterSlot(t) \/ GetRequestContext(t) \/ StartDriver(t) \/ NewContext(t)
    \/ Pace(t) \/ Respond(t) \/ ReadBody(t) \/ TransportError(t)
    \/ DiscardRequestContext(t)
    \/ StopDeadDriver(t) \/ Retry(t) \/ NewContextRaises(t)

Next ==
    \/ Close
    \/ CloseRaises
    \/ DriverDies
    \/ \E t \in Tasks : \/ Step(t) \/ StartDriverRaises(t) \/ StopRaises(t)
                        \/ RetryLater(t) \/ ClientError(t)

Spec == Init /\ [][Next]_vars

\* The event loop runs every task that can go on; asyncio's lock and semaphore
\* are handed out in the order of asking, so no task waits for ever while
\* others pass.  What goes wrong is bounded but never required.
FairSpec ==
    /\ Spec
    /\ WF_vars(Close)
    /\ \A t \in Tasks : SF_vars(Step(t))

-----------------------------------------------------------------------------
(* Properties *)

\* Every variable has its type, and whoever is about to use a context or to
\* stop a driver has one: no attribute of None is ever called.
TypeOK ==
    /\ playwright \in Drivers \cup {None}
    /\ context \in Drivers \cup {None}
    /\ running \subseteq Drivers
    /\ started \in 0..MaxDrivers
    /\ orphans \subseteq Drivers
    /\ pc \in [Tasks -> Places]
    /\ own \in [Tasks -> Drivers \cup {None}]
    /\ \A t \in Tasks :
          pc[t] \in {"new_context", "pace", "request", "body", "discard", "stopping"} =>
              own[t] \in Drivers
    /\ main \in {"gather", "dispose", "forget", "stop", "closed"}
    /\ doomed \in Drivers \cup {None}
    /\ failures \in 0..MaxFailures
    /\ breakdowns \in 0..failures

\* Starting a driver per request "explodes to thousands of processes during a
\* season backfill": until close(), every driver but the first replaces one
\* that broke, and however many tasks were using that one, it is replaced once.
\* Answers that are merely retried (429, 5xx) cost no driver.
OneDriverPerBreakdown == main = "gather" => started <= breakdowns + 1

\* A season backfill must not multiply driver processes: until close(), a
\* running driver is the cached one, or somebody is stopping it, or its
\* new_context() raised (which ends the gather), or its stop() did.
DriversAccountedFor ==
    main = "gather" =>
        \A d \in running :
            \/ d = playwright
            \/ d \in orphans
            \/ \E t \in Tasks : pc[t] = "stopping" /\ own[t] = d

\* Recovery is not undone: the cached context only goes away when close()
\* takes it or when the request of the task that drops it failed on it.
FreshContextKept ==
    [][context # None /\ context' # context =>
          \/ main = "dispose"
          \/ \E t \in Tasks : pc[t] = "discard" /\ own[t] = context /\ pc'[t] # "discard"
      ]_vars

\* Every get() ends, whoever finds the driver dead: nobody retries for ever
\* against a dead context, no lock or slot is kept.
EveryFetchEnds ==
    \A t \in Tasks : pc[t] = "slot" ~> pc[t] \in {"done", "raised"} \/ main = "closed"

\* close() says "Call once, after all fetch_data() calls for a run have
\* completed".
CloseAfterAllFetches ==
    main # "gather" => \A t \in Tasks : pc[t] \in {"done", "raised"}
=============================================================================
