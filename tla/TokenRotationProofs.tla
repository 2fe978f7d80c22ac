------------------------ MODULE TokenRotationProofs --------------------------
(***************************************************************************)
(* Theorems about TokenRotation, for any number of tokens and of callers,  *)
(* any backoffs and whatever waits the server asks for.                    *)
(***************************************************************************)
EXTENDS TokenRotation, TLAPS

\* A cooldown never ends within DefaultBackoff of the last 429 of its token.
CooldownLasts == \A t \in TOKENS : cooldown[t] + rested[t] >= DefaultBackoff

\* The cycle gets to a usable token before N choices have passed it.
TurnIsNear ==
    \A t \in TOKENS : IF cooldown[t] = 0 THEN passed[t] + Ahead(t) < N ELSE passed[t] = 0

\* The sleep covers what the server asked for.
SleepCovers ==
    \A c \in Callers : IF pc[c] = "sleep" THEN mandated[c] <= sleep[c] ELSE mandated[c] = 0

\* Only a caller that had no choice goes back to a token it has used while
\* that was cooling down.
LateNotAgain ==
    /\ \A t \in TOKENS : late[t] # {} => cooldown[t] > 0
    /\ \A c \in Callers : pc[c] = "pace" /\ c \in late[token[c]] => c \in desperate

IInv == TypeOK /\ CooldownLasts /\ TurnIsNear /\ SleepCovers /\ LateNotAgain

LEMMA LargerOfFacts ==
  ASSUME NEW a \in Nat, NEW b \in Nat
  PROVE  LargerOf(a, b) \in Nat /\ LargerOf(a, b) >= a /\ LargerOf(a, b) >= b
         /\ LargerOf(a, b) \in {a, b}
BY DEF LargerOf

LEMMA LongestWaitFacts ==
  LongestWait \in Nat /\ LongestWait >= MaxRetryAfter /\ LongestWait >= MaxBackoff
BY BoundsAssumption, LargerOfFacts DEF LongestWait

\* The choice of a token gets every other usable token nearer to its turn.
LEMMA ScanTakesTurn ==
  ASSUME NEW t \in TOKENS, next \in TOKENS, Scan(t)
  PROVE  /\ next' \in TOKENS
         /\ cooldown[t] = 0
         /\ Ahead(t)' < N
         /\ \A u \in TOKENS : cooldown[u] = 0 /\ u # t => Ahead(u)' < Ahead(u)
<1>1. /\ t \in 0..(N - 1) /\ next \in 0..(N - 1) /\ N \in Nat /\ N >= 1
      /\ next' = IF t + 1 = N THEN 0 ELSE t + 1
  BY TokensAssumption DEF Scan, After, TOKENS
<1>2. next' \in 0..(N - 1)
  BY <1>1
<1>3. Ahead(t)' < N
  BY <1>1 DEF Ahead
<1>4. ASSUME NEW u \in TOKENS, cooldown[u] = 0, u # t PROVE Ahead(u)' < Ahead(u)
  <2>1. Ahead(t) <= Ahead(u) /\ u \in 0..(N - 1)
    BY <1>4 DEF Scan, Usable, TOKENS
  <2> QED BY <1>1, <1>4, <2>1 DEF Ahead
<1> QED BY <1>2, <1>3, <1>4 DEF Scan, Usable, TOKENS

LEMMA GetTokenKeepsIInv ==
  ASSUME IInv, NEW c \in Callers, GetToken(c) PROVE IInv'
<1>1. PICK t \in TOKENS :
         /\ Scan(t) \/ FallBack(t)
         /\ token' = [token EXCEPT ![c] = t]
         /\ passed' = [u \in TOKENS |-> IF cooldown[u] > 0 \/ u = t THEN 0 ELSE passed[u] + 1]
  BY DEF GetToken
<1>2. /\ pc[c] = "choose" /\ pc' = [pc EXCEPT ![c] = "pace"]
      /\ UNCHANGED <<cooldown, backoff, sleep, mandated, rested, late>>
      /\ desperate' = IF \A u \in TOKENS : cooldown[u] > 0 THEN desperate \cup {c}
                      ELSE desperate \ {c}
  BY DEF GetToken, Goto
<1>3. TypeOK
  BY DEF IInv
<1>4. cooldown \in [TOKENS -> Nat] /\ passed \in [TOKENS -> Nat]
  BY <1>3, LongestWaitFacts DEF TypeOK
<1>5. next' \in TOKENS
  <2>1. CASE Scan(t)
    BY <1>3, <2>1, ScanTakesTurn DEF TypeOK
  <2>2. CASE FallBack(t)
    BY <1>3, <2>2 DEF FallBack, TypeOK
  <2> QED BY <1>1, <2>1, <2>2
<1>6. TypeOK'
  <2>1. token' \in [Callers -> TOKENS] /\ passed' \in [TOKENS -> Nat]
    BY <1>1, <1>3, <1>4 DEF TypeOK
  <2>2. pc' \in [Callers -> {"idle", "choose", "pace", "request", "sleep"}]
    BY <1>2, <1>3 DEF TypeOK
  <2>3. desperate' \subseteq Callers
    BY <1>2, <1>3 DEF TypeOK
  <2> QED BY <1>2, <1>3, <1>5, <2>1, <2>2, <2>3 DEF TypeOK
<1>7. CooldownLasts'
  BY <1>2 DEF IInv, CooldownLasts
<1>8. TurnIsNear'
  <2>1. CASE Scan(t)
    <3>1. /\ cooldown[t] = 0 /\ Ahead(t)' < N
          /\ \A u \in TOKENS : cooldown[u] = 0 /\ u # t => Ahead(u)' < Ahead(u)
      BY <1>3, <2>1, ScanTakesTurn DEF TypeOK
    <3> SUFFICES ASSUME NEW u \in TOKENS
                 PROVE  IF cooldown[u] = 0 THEN passed'[u] + Ahead(u)' < N ELSE passed'[u] = 0
      BY <1>2 DEF TurnIsNear
    <3>2. CASE cooldown[u] > 0
      BY <1>1, <1>4, <3>2
    <3>3. CASE u = t
      <4>1. passed'[u] = 0 /\ Ahead(u)' \in Int
        BY <1>1, <1>5, <3>3, TokensAssumption DEF Ahead, TOKENS
      <4> QED BY <3>1, <3>3, <4>1
    <3>4. CASE u # t /\ cooldown[u] = 0
      <4>1. passed'[u] = passed[u] + 1 /\ passed[u] \in Nat
        BY <1>1, <1>4, <3>4
      <4>2. passed[u] + Ahead(u) < N
        BY <3>4 DEF IInv, TurnIsNear
      <4>3. Ahead(u)' < Ahead(u)
        BY <3>1, <3>4
      <4>4. Ahead(u) \in Int /\ Ahead(u)' \in Int /\ N \in Int
        BY <1>3, <1>5, TokensAssumption DEF Ahead, TOKENS, TypeOK
      <4> QED BY <3>4, <4>1, <4>2, <4>3, <4>4
    <3> QED BY <1>4, <3>2, <3>3, <3>4
  <2>2. CASE FallBack(t)
    <3>1. \A u \in TOKENS : cooldown[u] > 0 /\ cooldown[u] # 0
      BY <1>4, <2>2 DEF FallBack, Usable
    <3>2. \A u \in TOKENS : passed'[u] = 0
      BY <1>1, <3>1
    <3> QED BY <1>2, <3>1, <3>2 DEF TurnIsNear
  <2> QED BY <1>1, <2>1, <2>2
<1>9. SleepCovers'
  BY <1>2, <1>3 DEF IInv, SleepCovers, TypeOK
<1>10. LateNotAgain'
  <2>1. \A u \in TOKENS : late'[u] # {} => cooldown'[u] > 0
    BY <1>2 DEF IInv, LateNotAgain
  <2>2. ASSUME NEW d \in Callers, pc'[d] = "pace", d \in late'[token'[d]]
        PROVE  d \in desperate'
    <3>1. CASE d # c
      BY <1>1, <1>2, <1>3, <2>2, <3>1 DEF IInv, LateNotAgain, TypeOK
    <3>2. CASE d = c
      <4>1. token'[d] = t /\ late[t] # {}
        BY <1>1, <1>2, <1>3, <2>2, <3>2 DEF TypeOK
      <4>2. cooldown[t] > 0
        BY <4>1 DEF IInv, LateNotAgain
      <4>3. FallBack(t)
        BY <1>1, <1>4, <4>2 DEF Scan, Usable
      <4>4. \A u \in TOKENS : cooldown[u] > 0
        BY <1>4, <4>3 DEF FallBack, Usable
      <4> QED BY <1>2, <3>2, <4>4
    <3> QED BY <3>1, <3>2
  <2> QED BY <2>1, <2>2 DEF LateNotAgain
<1> QED BY <1>6, <1>7, <1>8, <1>9, <1>10 DEF IInv

LEMMA SendKeepsIInv ==
  ASSUME IInv, NEW c \in Callers, Send(c) PROVE IInv'
<1>1. TypeOK'
  BY DEF IInv, TypeOK, Send, Goto
<1>2. CooldownLasts' /\ TurnIsNear'
  BY DEF IInv, CooldownLasts, TurnIsNear, Ahead, Send
<1>3. SleepCovers'
  BY DEF IInv, TypeOK, SleepCovers, Send, Goto
<1>4. LateNotAgain'
  BY DEF IInv, TypeOK, LateNotAgain, Send, Goto
<1> QED BY <1>1, <1>2, <1>3, <1>4 DEF IInv

LEMMA RateLimitedKeepsIInv ==
  ASSUME IInv, NEW c \in Callers, RateLimited(c) PROVE IInv'
<1>1. PICK asked \in 0..MaxRetryAfter :
         /\ MarkRateLimited(token[c], LargerOf(asked, backoff[c]))
         /\ Sleep(c, LargerOf(asked, backoff[c]))
         /\ mandated' = [mandated EXCEPT ![c] = asked]
  BY DEF RateLimited
<1>2. TypeOK
  BY DEF IInv
<1>3. PICK wait : wait = LargerOf(asked, backoff[c])
  OBVIOUS
<1>4. /\ wait \in Nat /\ wait >= DefaultBackoff /\ wait >= 1 /\ wait >= asked
      /\ wait \in 0..LongestWait
  <2>1. backoff[c] \in Nat /\ DefaultBackoff <= backoff[c] /\ backoff[c] <= MaxBackoff
    BY <1>2, BoundsAssumption DEF TypeOK
  <2>2. asked \in Nat /\ asked <= MaxRetryAfter
    BY BoundsAssumption
  <2>3. wait \in Nat /\ wait >= asked /\ wait >= backoff[c] /\ wait \in {asked, backoff[c]}
    BY <1>3, <2>1, <2>2, LargerOfFacts
  <2>4. wait <= LongestWait
    BY <2>1, <2>2, <2>3, BoundsAssumption, LongestWaitFacts
  <2> QED BY <2>1, <2>3, <2>4, BoundsAssumption, LongestWaitFacts
<1>5. /\ token[c] \in TOKENS
      /\ cooldown' = [cooldown EXCEPT ![token[c]] = wait]
      /\ rested' = [rested EXCEPT ![token[c]] = 0]
      /\ passed' = [passed EXCEPT ![token[c]] = 0]
      /\ sleep' = [sleep EXCEPT ![c] = wait]
      /\ pc' = [pc EXCEPT ![c] = "sleep"]
      /\ mandated' = [mandated EXCEPT ![c] = asked]
      /\ UNCHANGED <<next, token, backoff, desperate, late>>
  BY <1>1, <1>2, <1>3 DEF MarkRateLimited, Sleep, Goto, TypeOK, RateLimited
<1>6. TypeOK'
  BY <1>2, <1>4, <1>5, BoundsAssumption DEF TypeOK
<1>7. CooldownLasts'
  BY <1>2, <1>4, <1>5, BoundsAssumption DEF IInv, CooldownLasts, TypeOK
<1>8. TurnIsNear'
  BY <1>2, <1>4, <1>5 DEF IInv, TurnIsNear, Ahead, TypeOK
<1>9. SleepCovers'
  BY <1>2, <1>4, <1>5 DEF IInv, SleepCovers, TypeOK
<1>10. LateNotAgain'
  BY <1>2, <1>4, <1>5 DEF IInv, LateNotAgain, TypeOK
<1> QED BY <1>6, <1>7, <1>8, <1>9, <1>10 DEF IInv

LEMMA RetryKeepsIInv ==
  ASSUME IInv, NEW c \in Callers, Retry(c) PROVE IInv'
<1>1. TypeOK
  BY DEF IInv
<1>2. PICK longer : longer = SmallerOf(2 * backoff[c], MaxBackoff)
  OBVIOUS
<1>3. longer \in DefaultBackoff..MaxBackoff
  <2>1. backoff[c] \in DefaultBackoff..MaxBackoff
    BY <1>1 DEF TypeOK
  <2> QED BY <1>2, <2>1, BoundsAssumption DEF SmallerOf
<1>4. /\ backoff' = [backoff EXCEPT ![c] = longer]
      /\ pc' = [pc EXCEPT ![c] = "choose"] /\ pc[c] = "sleep" /\ sleep[c] = 0
      /\ UNCHANGED <<next, cooldown, token, sleep, mandated, rested, passed, desperate, late>>
  BY <1>2 DEF Retry, Goto
<1>5. TypeOK'
  BY <1>1, <1>3, <1>4 DEF TypeOK
<1>6. CooldownLasts' /\ TurnIsNear'
  BY <1>4 DEF IInv, CooldownLasts, TurnIsNear, Ahead
<1>7. SleepCovers'
  <2>1. mandated[c] = 0
    BY <1>1, <1>4 DEF IInv, SleepCovers, TypeOK
  <2> QED BY <1>1, <1>4, <2>1 DEF IInv, SleepCovers, TypeOK
<1>8. LateNotAgain'
  BY <1>1, <1>4 DEF IInv, LateNotAgain, TypeOK
<1> QED BY <1>5, <1>6, <1>7, <1>8 DEF IInv

LEMMA OtherStepsKeepIInv ==
  ASSUME IInv, NEW c \in Callers, Call(c) \/ ServerError(c) \/ Return(c) PROVE IInv'
<1>1. TypeOK
  BY DEF IInv
<1>2. /\ UNCHANGED <<next, cooldown, token, mandated, rested, passed, desperate, late>>
      /\ \E place \in {"choose", "sleep", "idle"} : pc' = [pc EXCEPT ![c] = place]
      /\ pc[c] \in {"idle", "request"}
  BY DEF Call, ServerError, Return, Goto, Sleep
<1>3. backoff' \in [Callers -> DefaultBackoff..MaxBackoff]
  BY <1>1, BoundsAssumption DEF Call, ServerError, Return, TypeOK
<1>4. sleep' \in [Callers -> 0..LongestWait] /\ sleep'[c] \in Nat
      /\ \A d \in Callers \ {c} : sleep'[d] = sleep[d]
  <2>1. backoff[c] \in 0..LongestWait /\ sleep \in [Callers -> 0..LongestWait]
    BY <1>1, BoundsAssumption, LongestWaitFacts DEF TypeOK
  <2>2. sleep' = sleep \/ sleep' = [sleep EXCEPT ![c] = backoff[c]]
    BY DEF Call, ServerError, Return, Sleep
  <2> QED BY <2>1, <2>2, LongestWaitFacts
<1>5. TypeOK'
  BY <1>1, <1>2, <1>3, <1>4 DEF TypeOK
<1>6. CooldownLasts' /\ TurnIsNear'
  BY <1>2 DEF IInv, CooldownLasts, TurnIsNear, Ahead
<1>7. SleepCovers'
  <2>1. mandated[c] = 0
    BY <1>2 DEF IInv, SleepCovers
  <2> QED BY <1>1, <1>2, <1>4, <2>1 DEF IInv, SleepCovers, TypeOK
<1>8. LateNotAgain'
  BY <1>1, <1>2 DEF IInv, LateNotAgain, TypeOK
<1> QED BY <1>5, <1>6, <1>7, <1>8 DEF IInv

LEMMA TickKeepsIInv ==
  ASSUME IInv, Tick PROVE IInv'
<1>1. TypeOK /\ LongestWait \in Nat
  BY LongestWaitFacts DEF IInv
<1>2. TypeOK'
  BY <1>1, BoundsAssumption DEF TypeOK, Tick, Less, SmallerOf
<1>3. CooldownLasts'
  BY <1>1, BoundsAssumption DEF IInv, TypeOK, CooldownLasts, Tick, Less, SmallerOf
<1>4. TurnIsNear'
  <2> SUFFICES ASSUME NEW t \in TOKENS
               PROVE  IF cooldown'[t] = 0 THEN passed[t] + Ahead(t) < N ELSE passed[t] = 0
    BY DEF Tick, TurnIsNear, Ahead
  <2>1. cooldown[t] \in Nat /\ cooldown'[t] = Less(cooldown[t])
    BY <1>1 DEF TypeOK, Tick
  <2>2. CASE cooldown[t] = 0
    BY <2>1, <2>2 DEF IInv, TurnIsNear, Less
  <2>3. CASE cooldown[t] > 0
    <3>1. passed[t] = 0
      BY <2>1, <2>3 DEF IInv, TurnIsNear
    <3>2. Ahead(t) \in Int /\ Ahead(t) < N
      BY <1>1, TokensAssumption DEF Ahead, TypeOK, TOKENS
    <3> QED BY <3>1, <3>2
  <2> QED BY <2>1, <2>2, <2>3
<1>5. SleepCovers'
  BY <1>1, BoundsAssumption DEF IInv, TypeOK, SleepCovers, Tick, Less
<1>6. LateNotAgain'
  <2>1. \A t \in TOKENS : late'[t] # {} => cooldown'[t] > 0
    BY <1>1 DEF TypeOK, Tick, Less
  <2>2. \A c \in Callers : c \in late'[token[c]] => c \in late[token[c]]
    BY <1>1 DEF TypeOK, Tick
  <2> QED BY <2>1, <2>2 DEF IInv, LateNotAgain, Tick
<1> QED BY <1>2, <1>3, <1>4, <1>5, <1>6 DEF IInv

LEMMA InitIInv == Init => IInv
<1> SUFFICES ASSUME Init PROVE IInv
  OBVIOUS
<1>1. TypeOK
  BY TokensAssumption, BoundsAssumption, LongestWaitFacts DEF Init, TypeOK, TOKENS
<1>2. CooldownLasts /\ SleepCovers /\ LateNotAgain
  BY BoundsAssumption DEF Init, CooldownLasts, SleepCovers, LateNotAgain
<1>3. TurnIsNear
  BY TokensAssumption DEF Init, TurnIsNear, Ahead, TOKENS
<1> QED BY <1>1, <1>2, <1>3 DEF IInv

\* The inductive invariant holds throughout.
THEOREM InductiveInvariant == Spec => []IInv
<1>1. ASSUME IInv, [Next]_vars PROVE IInv'
  <2>1. CASE UNCHANGED vars
    BY <1>1, <2>1
    DEF vars, IInv, TypeOK, CooldownLasts, TurnIsNear, Ahead, SleepCovers, LateNotAgain
  <2>2. CASE Next
    BY <1>1, <2>2, GetTokenKeepsIInv, SendKeepsIInv, RateLimitedKeepsIInv, RetryKeepsIInv,
       OtherStepsKeepIInv, TickKeepsIInv DEF Next
  <2> QED BY <1>1, <2>1, <2>2
<1> QED BY <1>1, InitIInv, PTL DEF Spec

\* Every variable keeps its type, and the backoff its limits.
THEOREM TypeCorrect == Spec => []TypeOK
<1>1. IInv => TypeOK
  BY DEF IInv
<1> QED BY <1>1, InductiveInvariant, PTL

\* Of N choices in a row, one falls on each token that stays usable.
THEOREM EveryTurnComes == Spec => []TurnComes
<1>1. IInv => TurnComes
  <2> SUFFICES ASSUME IInv, NEW t \in TOKENS PROVE passed[t] < N
    BY DEF TurnComes
  <2>1. /\ passed[t] \in Nat /\ N \in Nat /\ N >= 1
        /\ Ahead(t) \in Int /\ Ahead(t) >= 0
    BY TokensAssumption DEF IInv, TypeOK, Ahead, TOKENS
  <2> QED BY <2>1 DEF IInv, TurnIsNear
<1> QED BY <1>1, InductiveInvariant, PTL

\* No caller goes on before the wait the server asked it for is over.
THEOREM WaitsHonored == Spec => []MandatedWaitHonored
<1>1. IInv => MandatedWaitHonored
  BY DEF IInv, SleepCovers, MandatedWaitHonored
<1> QED BY <1>1, InductiveInvariant, PTL

\* A rate-limited token rests for DefaultBackoff while another one is usable.
THEOREM LimitedTokensRest == Spec => LimitedTokenRests
<1> DEFINE Rests(c) == GetToken(c) => \/ rested[token'[c]] = DefaultBackoff
                                      \/ \A t \in TOKENS : cooldown[t] > 0
<1>1. ASSUME IInv, NEW c \in Callers, GetToken(c)
      PROVE  rested[token'[c]] = DefaultBackoff \/ \A t \in TOKENS : cooldown[t] > 0
  <2>1. PICK t \in TOKENS : /\ Scan(t) \/ FallBack(t)
                            /\ token' = [token EXCEPT ![c] = t]
    BY <1>1 DEF GetToken
  <2>2. token'[c] = t /\ cooldown \in [TOKENS -> Nat] /\ rested[t] \in 0..DefaultBackoff
    BY <1>1, <2>1, LongestWaitFacts DEF IInv, TypeOK
  <2>3. CASE Scan(t)
    <3>1. cooldown[t] = 0 /\ cooldown[t] + rested[t] >= DefaultBackoff
      BY <1>1, <2>3 DEF Scan, Usable, IInv, CooldownLasts
    <3> QED BY <2>2, <3>1, BoundsAssumption
  <2>4. CASE FallBack(t)
    BY <2>2, <2>4 DEF FallBack, Usable
  <2> QED BY <2>1, <2>3, <2>4
<1>2. IInv => \A c \in Callers : Rests(c)
  BY <1>1
<1>3. ASSUME IInv PROVE [\A c \in Callers : Rests(c)]_vars
  BY <1>2, <1>3
<1>4. Spec => [][\A c \in Callers : Rests(c)]_vars
  BY <1>3, InductiveInvariant, PTL DEF Spec
<1> QED BY <1>4 DEF LimitedTokenRests

\* No caller uses a token twice within one cooldown of it if it has a choice.
THEOREM OnceDuringCooldown == Spec => OncePerCooldown
<1> DEFINE Once(c) == Send(c) /\ cooldown[token[c]] > 0 /\ c \notin desperate
                         => c \notin late[token[c]]
<1>1. IInv => \A c \in Callers : Once(c)
  BY DEF IInv, LateNotAgain, Send
<1>2. ASSUME IInv PROVE [\A c \in Callers : Once(c)]_vars
  BY <1>1, <1>2
<1>3. Spec => [][\A c \in Callers : Once(c)]_vars
  BY <1>2, InductiveInvariant, PTL DEF Spec
<1> QED BY <1>3 DEF OncePerCooldown
=============================================================================
