----------------------------- MODULE RateLimiter -----------------------------
(***************************************************************************)
(* TokenBucket of rate_limiter.py: coroutines that pace their requests by  *)
(* awaiting acquire().                                                     *)
(*                                                                         *)
(* Credit is counted in the amount one unit of time refills, so that the   *)
(* rate is 1 and one acquisition costs Cost (1/rate in units of time).     *)
(* Time is relative: how long ago the last refill was, how long the sleep  *)
(* of the coroutine that holds the lock still lasts.                       *)
(***************************************************************************)
EXTENDS Integers, Sequences

CONSTANTS
    Callers,    \* coroutines
    Cost,       \* the credit of one acquisition
    Capacity    \* the most credit the bucket holds

\* Nothing in TokenBucket requires a capacity of one acquisition, but the
\* module's limiter has exactly that, and with less nobody is ever served.
ASSUME CreditAssumption ==
    /\ Cost \in Nat \ {0}
    /\ Capacity \in Nat
    /\ Cost <= Capacity

ASSUME CallersAssumption == Callers # {}

VARIABLES
    tokens,     \* self._tokens
    elapsed,    \* time since self._last_refill; more than Capacity is as good
    wait,       \* what is left of the sleep of the coroutine in the lock
    queue,      \* the coroutines waiting for self._lock, first come first served
    pc,         \* where each coroutine is
    meter       \* ghost: an independent leaky bucket metering what was granted

vars == <<tokens, elapsed, wait, queue, pc, meter>>

Places == {"idle", "queued", "refill", "sleep"}

Lesser(a, b) == IF a <= b THEN a ELSE b

InLock == {c \in Callers : pc[c] \in {"refill", "sleep"}}

Init ==
    /\ tokens = Capacity
    /\ elapsed = 0
    /\ wait = 0
    /\ queue = <<>>
    /\ pc = [c \in Callers |-> "idle"]
    /\ meter = 0

\* acquire() is called: the coroutine asks for the lock.
Acquire(c) ==
    /\ pc[c] = "idle"
    /\ queue' = Append(queue, c)
    /\ pc' = [pc EXCEPT ![c] = "queued"]
    /\ UNCHANGED <<tokens, elapsed, wait, meter>>

\* The lock goes to the coroutine that asked first.
EnterLock(c) ==
    /\ InLock = {}
    /\ queue # <<>> /\ c = Head(queue)
    /\ queue' = Tail(queue)
    /\ pc' = [pc EXCEPT ![c] = "refill"]
    /\ UNCHANGED <<tokens, elapsed, wait, meter>>

\* The credit after bringing the bucket up to date.
Refilled == Lesser(Capacity, tokens + elapsed)

\* Mutant: the credit is spent without looking whether there is enough.
Grant_Unchecked(c) ==
    /\ pc[c] = "refill"
    /\ tokens' = Refilled - Cost
    /\ elapsed' = 0
    /\ meter' = meter + Cost
    /\ pc' = [pc EXCEPT ![c] = "idle"]
    /\ UNCHANGED <<wait, queue>>

\* One turn of the loop with enough credit: acquire() returns.
Grant(c) ==
    /\ pc[c] = "refill"
    /\ Refilled >= Cost
    /\ tokens' = Refilled - Cost
    /\ elapsed' = 0
    /\ meter' = meter + Cost
    /\ pc' = [pc EXCEPT ![c] = "idle"]
    /\ UNCHANGED <<wait, queue>>

\* Mutant: the time already credited is credited again after the sleep.
Sleep_KeepsElapsed(c) ==
    /\ pc[c] = "refill"
    /\ Refilled < Cost
    /\ tokens' = Refilled
    /\ wait' = Cost - Refilled
    /\ pc' = [pc EXCEPT ![c] = "sleep"]
    /\ UNCHANGED <<elapsed, queue, meter>>

\* Mutant: the sleep is rounded down.
Sleep_Short(c) ==
    /\ pc[c] = "refill"
    /\ Refilled < Cost
    /\ tokens' = Refilled
    /\ elapsed' = 0
    /\ wait' = Cost - Refilled - 1
    /\ pc' = [pc EXCEPT ![c] = "sleep"]
    /\ UNCHANGED <<queue, meter>>

\* Mutant: a sleeping coroutine resets the clock without taking the credit.
Sleep_DropsCredit(c) ==
    /\ pc[c] = "refill"
    /\ Refilled < Cost
    /\ tokens' = 0
    /\ elapsed' = 0
    /\ wait' = 1
    /\ pc' = [pc EXCEPT ![c] = "sleep"]
    /\ UNCHANGED <<queue, meter>>

\* One turn of the loop with too little: sleep, keeping the lock, just long
\* enough for the missing credit.
Sleep(c) ==
    /\ pc[c] = "refill"
    /\ Refilled < Cost
    /\ tokens' = Refilled
    /\ elapsed' = 0
    /\ wait' = Cost - Refilled
    /\ pc' = [pc EXCEPT ![c] = "sleep"]
    /\ UNCHANGED <<queue, meter>>

Wake(c) ==
    /\ pc[c] = "sleep"
    /\ wait = 0
    /\ pc' = [pc EXCEPT ![c] = "refill"]
    /\ UNCHANGED <<tokens, elapsed, wait, queue, meter>>

\* Time passes; a coroutine may be resumed later than it asked for.
Tick ==
    /\ elapsed' = Lesser(Capacity, elapsed + 1)
    /\ wait' = IF wait = 0 THEN 0 ELSE wait - 1
    /\ meter' = IF meter = 0 THEN 0 ELSE meter - 1
    /\ UNCHANGED <<tokens, queue, pc>>

Step(c) == EnterLock(c) \/ Grant(c) \/ Sleep(c) \/ Wake(c)

Next == Tick \/ \E c \in Callers : Acquire(c) \/ Step(c)

Spec == Init /\ [][Next]_vars

\* Time passes and the event loop runs every coroutine that can go on;
\* nobody has to call acquire().
FairSpec == Spec /\ WF_vars(Tick) /\ \A c \in Callers : WF_vars(Step(c))

-----------------------------------------------------------------------------
(* Properties *)

\* Every variable has its type: the credit of TokenBucket is never negative and
\* never exceeds the capacity, no sleep is longer than one acquisition takes.
TypeOK ==
    /\ tokens \in 0..Capacity
    /\ elapsed \in 0..Capacity
    /\ wait \in 0..Cost
    /\ queue \in Seq(Callers)
    /\ pc \in [Callers -> Places]
    /\ meter \in Nat

\* What the limiter is for: metered by a leaky bucket that drains at the rate,
\* the acquisitions granted never overflow one capacity.  Over any window of
\* time, that is, they cost at most the length of the window plus Capacity; at
\* Capacity = Cost they are at least Cost apart.
Paced == meter <= Capacity

\* The sleep is as long as it has to be: a coroutine that wakes is served.
SleepSuffices ==
    \A c \in Callers : pc[c] = "sleep" => tokens + elapsed + wait >= Cost

\* Every call of acquire() returns, however many others keep calling.
EveryCallerServed == \A c \in Callers : pc[c] = "queued" ~> pc[c] = "idle"
=============================================================================
