---------------------------- MODULE TokenRotation ----------------------------
(***************************************************************************)
(* How the VEX tokens are shared, tokens.py, by the retry loops of the     *)
(* concurrent calls of get() in fetch_vex.py.                              *)
(*                                                                         *)
(* The tokens are their positions in TOKENS.  Instead of a clock there is  *)
(* what is left of each cooldown and of each sleep; Tick lets time pass.   *)
(* How long a call waits for the rate limiter and for its answer, and how  *)
(* much jitter a sleep gets, is left open.                                 *)
(***************************************************************************)
EXTENDS Integers

CONSTANTS
    Callers,            \* the coroutines in get(), one call after the other
    N,                  \* len(TOKENS)
    DefaultBackoff,     \* default_backoff of get(), in ticks
    MaxBackoff,         \* max_backoff of get()
    MaxRetryAfter       \* the longest retry-after the server sends

ASSUME TokensAssumption == N \in Nat \ {0}
ASSUME BoundsAssumption ==
    /\ DefaultBackoff \in Nat \ {0} /\ MaxBackoff \in Nat /\ MaxRetryAfter \in Nat
    /\ DefaultBackoff <= MaxBackoff

VARIABLES
    next,           \* the token that token_cycle yields next
    cooldown,       \* what is left of _cooldown_until, per token
    pc,             \* where each caller is
    token,          \* its local variables: the token it uses,
    backoff,        \* its backoff,
    sleep,          \* what is left of its sleep
    \* Ghosts, which nothing in the code reads:
    mandated,       \* what is left of the wait the server asked the caller for
    rested,         \* how long ago the token was rate limited, up to DefaultBackoff
    passed,         \* choices of others since the token is usable and waits its turn
    desperate,      \* the callers that chose when every token was cooling down
    late            \* who used the token since it is cooling down

vars == <<next, cooldown, pc, token, backoff, sleep, mandated, rested, passed,
          desperate, late>>

TOKENS == 0..(N - 1)

LargerOf(a, b) == IF a >= b THEN a ELSE b
SmallerOf(a, b) == IF a <= b THEN a ELSE b
Less(left) == IF left > 0 THEN left - 1 ELSE 0

Init ==
    /\ next = 0
    /\ cooldown = [t \in TOKENS |-> 0]
    /\ pc = [c \in Callers |-> "idle"]
    /\ token = [c \in Callers |-> 0]
    /\ backoff = [c \in Callers |-> DefaultBackoff]
    /\ sleep = [c \in Callers |-> 0]
    /\ mandated = [c \in Callers |-> 0]
    /\ rested = [t \in TOKENS |-> DefaultBackoff]
    /\ passed = [t \in TOKENS |-> 0]
    /\ desperate = {}
    /\ late = [t \in TOKENS |-> {}]

Goto(c, place) == pc' = [pc EXCEPT ![c] = place]

\* get() is called for the next page.
Call(c) ==
    /\ pc[c] = "idle"
    /\ backoff' = [backoff EXCEPT ![c] = DefaultBackoff]
    /\ Goto(c, "choose")
    /\ UNCHANGED <<next, cooldown, token, sleep, mandated, rested, passed, desperate, late>>

(* -------------------------------- get_token() ----------------------------- *)

\* Mutant: a cooldown is not looked at.
Usable_Always(t) == TRUE

Usable(t) == cooldown[t] = 0

\* How many tokens the cycle yields before t.
Ahead(t) == IF t >= next THEN t - next ELSE t - next + N

\* Mutant: the scan starts with the first token each time.
After_First(t) == 0

\* The cycle goes on behind the token it has yielded.
After(t) == IF t + 1 = N THEN 0 ELSE t + 1

\* The first usable token of the cycle.
Scan(t) ==
    /\ Usable(t)
    /\ \A u \in TOKENS : Usable(u) => Ahead(t) <= Ahead(u)
    /\ next' = After(t)

\* Every token is cooling down: the scan has gone around once, the token that
\* recovers soonest is taken, the first of them in TOKENS.
FallBack(t) ==
    /\ \A u \in TOKENS : ~Usable(u)
    /\ \A u \in TOKENS : cooldown[t] <= cooldown[u] /\ (u < t => cooldown[t] < cooldown[u])
    /\ next' = next

GetToken(c) ==
    /\ pc[c] = "choose"
    /\ \E t \in TOKENS :
          /\ Scan(t) \/ FallBack(t)
          /\ token' = [token EXCEPT ![c] = t]
          /\ passed' = [u \in TOKENS |-> IF cooldown[u] > 0 \/ u = t THEN 0 ELSE passed[u] + 1]
    /\ desperate' = IF \A u \in TOKENS : cooldown[u] > 0 THEN desperate \cup {c}
                    ELSE desperate \ {c}
    /\ Goto(c, "pace")
    /\ UNCHANGED <<cooldown, backoff, sleep, mandated, rested, late>>

(* ------------------------- the rest of an attempt ------------------------- *)

\* rate_limiter.acquire() lets the caller go, with the token it has.
Send(c) ==
    /\ pc[c] = "pace"
    /\ late' = [late EXCEPT ![token[c]] = IF cooldown[token[c]] > 0 THEN @ \cup {c} ELSE {}]
    /\ Goto(c, "request")
    /\ UNCHANGED <<next, cooldown, token, backoff, sleep, mandated, rested, passed, desperate>>

\* mark_rate_limited(): whatever was left of the cooldown is forgotten.
MarkRateLimited(t, seconds) ==
    /\ cooldown' = [cooldown EXCEPT ![t] = seconds]
    /\ rested' = [rested EXCEPT ![t] = 0]
    /\ passed' = [passed EXCEPT ![t] = 0]

Sleep(c, seconds) ==
    /\ sleep' = [sleep EXCEPT ![c] = seconds]
    /\ Goto(c, "sleep")

\* Mutant: the retry-after of the server is trusted verbatim.
RateLimited_NoFloor(c) ==
    /\ pc[c] = "request"
    /\ \E asked \in 0..MaxRetryAfter :
          /\ MarkRateLimited(token[c], asked)
          /\ Sleep(c, asked)
          /\ mandated' = [mandated EXCEPT ![c] = asked]
    /\ UNCHANGED <<next, token, backoff, desperate, late>>

\* Mutant: the caller backs off as for any other error.
RateLimited_BackoffOnly(c) ==
    /\ pc[c] = "request"
    /\ \E asked \in 0..MaxRetryAfter :
          /\ MarkRateLimited(token[c], LargerOf(asked, backoff[c]))
          /\ Sleep(c, backoff[c])
          /\ mandated' = [mandated EXCEPT ![c] = asked]
    /\ UNCHANGED <<next, token, backoff, desperate, late>>

\* 429: the wait the server asks for, or the backoff if that is longer (or no
\* wait is asked for), for the token as well as for the caller.
RateLimited(c) ==
    /\ pc[c] = "request"
    /\ \E asked \in 0..MaxRetryAfter :
          /\ MarkRateLimited(token[c], LargerOf(asked, backoff[c]))
          /\ Sleep(c, LargerOf(asked, backoff[c]))
          /\ mandated' = [mandated EXCEPT ![c] = asked]
    /\ UNCHANGED <<next, token, backoff, desperate, late>>

\* 5xx or a transport error: the token is not to blame.
ServerError(c) ==
    /\ pc[c] = "request"
    /\ Sleep(c, backoff[c])
    /\ UNCHANGED <<next, cooldown, token, backoff, mandated, rested, passed, desperate, late>>

\* Mutant: the backoff doubles without a limit.
Retry_NoLimit(c) ==
    /\ pc[c] = "sleep"
    /\ sleep[c] = 0
    /\ backoff' = [backoff EXCEPT ![c] = 2 * @]
    /\ Goto(c, "choose")
    /\ UNCHANGED <<next, cooldown, token, sleep, mandated, rested, passed, desperate, late>>

\* The sleep is over, some jitter later perhaps.
Retry(c) ==
    /\ pc[c] = "sleep"
    /\ sleep[c] = 0
    /\ backoff' = [backoff EXCEPT ![c] = SmallerOf(2 * @, MaxBackoff)]
    /\ Goto(c, "choose")
    /\ UNCHANGED <<next, cooldown, token, sleep, mandated, rested, passed, desperate, late>>

\* The page, or the exception of a client error.
Return(c) ==
    /\ pc[c] = "request"
    /\ Goto(c, "idle")
    /\ UNCHANGED <<next, cooldown, token, backoff, sleep, mandated, rested, passed,
                   desperate, late>>

Tick ==
    /\ cooldown' = [t \in TOKENS |-> Less(cooldown[t])]
    /\ sleep' = [c \in Callers |-> Less(sleep[c])]
    /\ mandated' = [c \in Callers |-> Less(mandated[c])]
    /\ rested' = [t \in TOKENS |-> SmallerOf(rested[t] + 1, DefaultBackoff)]
    /\ late' = [t \in TOKENS |-> IF cooldown[t] > 1 THEN late[t] ELSE {}]
    /\ UNCHANGED <<next, pc, token, backoff, passed, desperate>>

Next ==
    \/ \E c \in Callers :
          \/ Call(c) \/ GetToken(c) \/ Send(c) \/ RateLimited(c) \/ ServerError(c)
          \/ Retry(c) \/ Return(c)
    \/ Tick

Spec == Init /\ [][Next]_vars

(* ------------------------------- properties ------------------------------- *)

LongestWait == LargerOf(MaxRetryAfter, MaxBackoff)

\* Type invariant, with the range of the backoff.
TypeOK ==
    /\ next \in TOKENS
    /\ cooldown \in [TOKENS -> 0..LongestWait]
    /\ pc \in [Callers -> {"idle", "choose", "pace", "request", "sleep"}]
    /\ token \in [Callers -> TOKENS]
    /\ backoff \in [Callers -> DefaultBackoff..MaxBackoff]
    /\ sleep \in [Callers -> 0..LongestWait]
    /\ mandated \in [Callers -> 0..MaxRetryAfter]
    /\ rested \in [TOKENS -> 0..DefaultBackoff]
    /\ passed \in [TOKENS -> Nat]
    /\ desperate \subseteq Callers
    /\ late \in [TOKENS -> SUBSET Callers]

\* "A rate-limited token isn't immediately handed back out to the next
\* caller" (tokens.py): whoever is told what, and however often the cooldown
\* of a token is overwritten by a shorter one, a token is not chosen within
\* DefaultBackoff of a 429 while another one is usable.
LimitedTokenRests ==
    [][\A c \in Callers :
          GetToken(c) => \/ rested[token'[c]] = DefaultBackoff
                         \/ \A t \in TOKENS : cooldown[t] > 0]_vars

\* The load is spread: of N choices in a row one falls on each token that is
\* usable all the while, wherever cooldowns of others begin and end meanwhile.
TurnComes == \A t \in TOKENS : passed[t] < N

\* A choice may be stale when it is used, for the caller waits for the rate
\* limiter in between; but no caller sends with one token twice during one
\* cooldown of it, unless there is no other.
OncePerCooldown ==
    [][\A c \in Callers :
          Send(c) /\ cooldown[token[c]] > 0 /\ c \notin desperate
             => c \notin late[token[c]]]_vars

\* "The server-mandated (or backed-off) wait is always honored" (fetch_vex.py):
\* a caller that was rate limited does not go on before.
MandatedWaitHonored ==
    \A c \in Callers : pc[c] \in {"choose", "pace", "request"} => mandated[c] = 0
=============================================================================
