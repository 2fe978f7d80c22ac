------------------------- MODULE RateLimiterProofs -------------------------
(***************************************************************************)
(* Theorems about RateLimiter, for any number of coroutines, any rate and  *)
(* any capacity of at least one acquisition.                               *)
(***************************************************************************)
EXTENDS RateLimiter, TLAPS

\* Credit that is metered as spent is not in the bucket any more.
CreditConserved == meter + Refilled <= Capacity

Inv == TypeOK /\ CreditConserved /\ SleepSuffices

\* A full bucket with nobody in it.
LEMMA InvInit == Init => Inv
BY CreditAssumption
DEF Init, Inv, TypeOK, Places, CreditConserved, SleepSuffices, Refilled, Lesser

\* Every step keeps the types.
LEMMA TypeStep == TypeOK /\ [Next]_vars => TypeOK'
<1> SUFFICES ASSUME TypeOK, [Next]_vars PROVE TypeOK'
  OBVIOUS
<1> USE CreditAssumption DEF TypeOK, Places
<1>1. CASE Tick
  BY <1>1 DEF Tick, Lesser
<1>2. ASSUME NEW c \in Callers, Acquire(c) PROVE TypeOK'
  <2>1. queue' \in Seq(Callers)
    BY <1>2 DEF Acquire
  <2> QED BY <1>2, <2>1 DEF Acquire
<1>3. ASSUME NEW c \in Callers, EnterLock(c) PROVE TypeOK'
  <2>1. queue' \in Seq(Callers)
    BY <1>3 DEF EnterLock
  <2> QED BY <1>3, <2>1 DEF EnterLock
<1>4. ASSUME NEW c \in Callers, Grant(c) PROVE TypeOK'
  BY <1>4 DEF Grant, Refilled, Lesser
<1>5. ASSUME NEW c \in Callers, Sleep(c) PROVE TypeOK'
  BY <1>5 DEF Sleep, Refilled, Lesser
<1>6. ASSUME NEW c \in Callers, Wake(c) PROVE TypeOK'
  BY <1>6 DEF Wake
<1>7. CASE UNCHANGED vars
  BY <1>7 DEF vars
<1> QED BY <1>1, <1>2, <1>3, <1>4, <1>5, <1>6, <1>7 DEF Next, Step

\* Every step conserves credit: it is refilled as fast as the meter drains.
LEMMA CreditStep == TypeOK /\ CreditConserved /\ [Next]_vars => CreditConserved'
<1> SUFFICES ASSUME TypeOK, CreditConserved, [Next]_vars PROVE CreditConserved'
  OBVIOUS
<1> USE CreditAssumption DEF CreditConserved, Refilled, Lesser
<1>1. CASE Tick
  BY <1>1 DEF Tick, TypeOK
<1>2. ASSUME NEW c \in Callers, Acquire(c) \/ EnterLock(c) \/ Wake(c)
      PROVE  CreditConserved'
  BY <1>2 DEF Acquire, EnterLock, Wake
<1>3. ASSUME NEW c \in Callers, Grant(c) PROVE CreditConserved'
  BY <1>3 DEF Grant, TypeOK
<1>4. ASSUME NEW c \in Callers, Sleep(c) PROVE CreditConserved'
  BY <1>4 DEF Sleep, TypeOK
<1>5. CASE UNCHANGED vars
  BY <1>5 DEF vars
<1> QED BY <1>1, <1>2, <1>3, <1>4, <1>5 DEF Next, Step

-----------------------------------------------------------------------------
(* The lock                                                                *)

\* Mutual exclusion of the lock, and every queued coroutine waits exactly once.
LockConsistent ==
    /\ \A c, d \in InLock : c = d
    /\ \A c \in Callers : pc[c] = "queued" <=> \E i \in DOMAIN queue : queue[i] = c
    /\ \A i, j \in DOMAIN queue : queue[i] = queue[j] => i = j

\* Nobody holds or waits for the lock at first.
LEMMA LockInit == Init => LockConsistent
BY DEF Init, LockConsistent, InLock

\* Every step keeps the lock exclusive and its queue without repetition.
LEMMA LockStep == TypeOK /\ LockConsistent /\ [Next]_vars => LockConsistent'
<1> SUFFICES ASSUME TypeOK, LockConsistent, [Next]_vars PROVE LockConsistent'
  OBVIOUS
<1> USE DEF TypeOK, Places, LockConsistent, InLock
<1>1. CASE Tick
  BY <1>1 DEF Tick
<1>2. ASSUME NEW c \in Callers, Acquire(c) PROVE LockConsistent'
  <2>1. /\ queue' = Append(queue, c)
        /\ Len(queue') = Len(queue) + 1
        /\ DOMAIN queue = 1..Len(queue) /\ DOMAIN queue' = 1..Len(queue')
        /\ \A i \in DOMAIN queue : queue'[i] = queue[i]
        /\ queue'[Len(queue')] = c
    BY <1>2 DEF Acquire
  <2>2. \A i \in DOMAIN queue : queue[i] # c
    BY <1>2 DEF Acquire
  <2>3. Len(queue) \in Nat
    OBVIOUS
  <2>4. pc' = [pc EXCEPT ![c] = "queued"] /\ pc[c] = "idle"
    BY <1>2 DEF Acquire
  <2>5. \A d \in Callers : pc'[d] = "queued" <=> \E i \in DOMAIN queue' : queue'[i] = d
    BY <2>1, <2>3, <2>4
  <2>6. \A i, j \in DOMAIN queue' : queue'[i] = queue'[j] => i = j
    BY <2>1, <2>2, <2>3
  <2> QED BY <2>4, <2>5, <2>6
<1>3. ASSUME NEW c \in Callers, EnterLock(c) PROVE LockConsistent'
  <2>1. /\ queue' = Tail(queue) /\ queue # <<>> /\ c = queue[1]
        /\ Len(queue') = Len(queue) - 1 /\ Len(queue) \in Nat \ {0}
        /\ DOMAIN queue = 1..Len(queue) /\ DOMAIN queue' = 1..Len(queue')
        /\ \A i \in DOMAIN queue' : queue'[i] = queue[i + 1]
    BY <1>3 DEF EnterLock
  <2>2. pc' = [pc EXCEPT ![c] = "refill"] /\ \A d \in Callers : pc[d] \in {"idle", "queued"}
    BY <1>3 DEF EnterLock
  <2>3. \A d \in Callers : pc'[d] = "queued" <=> \E i \in DOMAIN queue' : queue'[i] = d
    <3>1. ASSUME NEW i \in DOMAIN queue' PROVE i + 1 \in DOMAIN queue /\ queue'[i] # c
      BY <2>1
    <3>2. ASSUME NEW d \in Callers, d # c, NEW j \in DOMAIN queue, queue[j] = d
          PROVE  \E i \in DOMAIN queue' : queue'[i] = d
      <4>1. j # 1 /\ j - 1 \in DOMAIN queue' /\ queue'[j - 1] = d
        BY <2>1, <3>2
      <4> QED BY <4>1
    <3> QED BY <2>1, <2>2, <3>1, <3>2
  <2>4. \A i, j \in DOMAIN queue' : queue'[i] = queue'[j] => i = j
    BY <2>1
  <2> QED BY <2>2, <2>3, <2>4
<1>4. ASSUME NEW c \in Callers, Grant(c) \/ Sleep(c) \/ Wake(c) PROVE LockConsistent'
  <2>1. /\ pc[c] \in {"refill", "sleep"} /\ queue' = queue
        /\ \E place \in {"idle", "sleep", "refill"} : pc' = [pc EXCEPT ![c] = place]
    BY <1>4 DEF Grant, Sleep, Wake
  <2> QED BY <2>1
<1>5. CASE UNCHANGED vars
  BY <1>5 DEF vars
<1> QED BY <1>1, <1>2, <1>3, <1>4, <1>5 DEF Next, Step

-----------------------------------------------------------------------------
(* The sleep                                                               *)

\* Only the coroutine in the lock changes the credit, so the sleeper's
\* computation stays right while it sleeps.
LEMMA SleepStep ==
    TypeOK /\ LockConsistent /\ SleepSuffices /\ [Next]_vars => SleepSuffices'
<1> SUFFICES ASSUME TypeOK, LockConsistent, SleepSuffices, [Next]_vars,
                    NEW d \in Callers, pc'[d] = "sleep"
             PROVE  tokens' + elapsed' + wait' >= Cost
  BY DEF SleepSuffices
<1> USE CreditAssumption DEF TypeOK, Places
<1>1. CASE Tick
  BY <1>1 DEF Tick, Lesser, SleepSuffices
<1>2. ASSUME NEW c \in Callers, Acquire(c) \/ EnterLock(c) \/ Wake(c)
      PROVE  tokens' + elapsed' + wait' >= Cost
  BY <1>2 DEF Acquire, EnterLock, Wake, SleepSuffices
<1>3. ASSUME NEW c \in Callers, Grant(c)
      PROVE  FALSE
  BY <1>3 DEF Grant, LockConsistent, InLock
<1>4. ASSUME NEW c \in Callers, Sleep(c)
      PROVE  tokens' + elapsed' + wait' >= Cost
  BY <1>4 DEF Sleep, Refilled, Lesser
<1>5. CASE UNCHANGED vars
  BY <1>5 DEF vars, SleepSuffices
<1> QED BY <1>1, <1>2, <1>3, <1>4, <1>5 DEF Next, Step

-----------------------------------------------------------------------------
(* Theorems                                                                *)

\* The conjunction of the three is an invariant.
LEMMA Invariance == Spec => [](Inv /\ LockConsistent)
<1>1. Inv /\ LockConsistent /\ [Next]_vars => (Inv /\ LockConsistent)'
  BY TypeStep, CreditStep, LockStep, SleepStep DEF Inv
<1> QED BY <1>1, InvInit, LockInit, PTL DEF Spec

\* The bucket's variables keep their types (TokenBucket.__init__()).
THEOREM TypeCorrect == Spec => []TypeOK
BY Invariance, PTL DEF Inv

\* Whatever the number of coroutines and however late they are resumed, the
\* acquisitions granted stay within the rate and one capacity (acquire()).
THEOREM PacingHolds == Spec => []Paced
<1>1. Inv => Paced
  BY CreditAssumption DEF Inv, TypeOK, CreditConserved, Paced, Refilled, Lesser
<1> QED BY <1>1, Invariance, PTL

\* One sleep is always enough: nobody goes round the loop a third time.
THEOREM OneSleepIsEnough == Spec => []SleepSuffices
BY Invariance, PTL DEF Inv

\* The lock admits one coroutine and loses none of those that wait for it.
THEOREM LockIsConsistent == Spec => []LockConsistent
BY Invariance, PTL
=============================================================================
