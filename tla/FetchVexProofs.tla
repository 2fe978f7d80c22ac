--------------------------- MODULE FetchVexProofs ---------------------------
(***************************************************************************)
(* Proofs about FetchVex: types, the accounting of driver processes, how   *)
(* many of them are ever started, and the protection of a fresh context,   *)
(* for any tasks, semaphore size and bounds on failures and drivers.       *)
(*                                                                         *)
(* The argument about drivers rests on _init_lock: at most one task is     *)
(* between the check of the cached context and the end of new_context(),   *)
(* and while one is, nothing is cached.  So the driver that start()        *)
(* overwrites in _playwright is one whose new_context() has raised.        *)
(* That no driver is started without need rests on discarding only the     *)
(* context that failed: as long as the newest driver runs and no request   *)
(* has failed on it, it stays cached, and a task that stops a driver stops *)
(* an older one.                                                           *)
(***************************************************************************)
EXTENDS FetchVex, TLAPS

\* The places where _get_request_context() holds _init_lock.
Locked == {"starting", "new_context"}

\* At most one task holds the lock.
LockHeldOnce == \A t, u \in Tasks : pc[t] \in Locked /\ pc[u] \in Locked => t = u

\* Whoever holds the lock has found no context, and nobody else makes one.
NoneWhileLocked == (\E t \in Tasks : pc[t] \in Locked) => context = None

\* Until close(), a driver that is cached without a context is still getting
\* one, or its new_context() raised.
BareDriverKnown ==
    main = "gather" /\ context = None =>
        \/ playwright = None
        \/ playwright \in orphans
        \/ \E t \in Tasks : pc[t] = "new_context" /\ own[t] = playwright

\* Nobody knows a driver that was not started.
Numbered ==
    /\ playwright \in 1..started \cup {None}
    /\ context \in 1..started \cup {None}
    /\ \A t \in Tasks : own[t] \in 1..started \cup {None}

\* The driver that waits for its context is known to the task that started it
\* only: no request was ever sent with it.
DriverIsNew ==
    \A t, u \in Tasks : pc[t] = "new_context" /\ u # t => own[u] # own[t]

\* A driver that is being stopped is not the one of the cached context.
StoppedIsDropped == \A t \in Tasks : pc[t] = "stopping" => own[t] # context

\* The driver started last works as far as anybody knows: its context is cached
\* and no request has failed on it, or it is about to get one.
Healthy ==
    \/ /\ context \in running
       /\ \A t \in Tasks : pc[t] = "discard" => own[t] # context
    \/ \E t \in Tasks : pc[t] = "new_context" /\ own[t] \in running

\* Every driver but the one that works has broken.
Budget ==
    main = "gather" =>
        /\ started <= breakdowns + 1
        /\ ~Healthy => started <= breakdowns

IInv ==
    /\ TypeOK
    /\ LockHeldOnce
    /\ NoneWhileLocked
    /\ BareDriverKnown
    /\ DriversAccountedFor
    /\ Numbered
    /\ DriverIsNew
    /\ StoppedIsDropped
    /\ Budget

USE NoneAssumption, BoundsAssumption

-----------------------------------------------------------------------------
(* The initial state *)

\* Before the first request nothing runs, nothing is cached and no slot is taken.
LEMMA InitEstablishes == Init => IInv
<1> SUFFICES ASSUME Init PROVE IInv
    OBVIOUS
<1>1. TypeOK
  BY DEF Init, TypeOK, Places, InSlot, Drivers
<1>2. LockHeldOnce /\ NoneWhileLocked /\ BareDriverKnown /\ DriversAccountedFor
  BY DEF Init, LockHeldOnce, Locked, NoneWhileLocked, BareDriverKnown,
         DriversAccountedFor
<1>3. /\ Numbered /\ DriverIsNew /\ StoppedIsDropped
      /\ Budget
  BY DEF Init, Numbered, DriverIsNew, StoppedIsDropped, Budget
<1> QED
  BY <1>1, <1>2, <1>3 DEF IInv

-----------------------------------------------------------------------------
(* Each conjunct is preserved by a step *)

\* A step keeps the types, and who uses a context or stops a driver has one.
LEMMA TypingStep ==
    ASSUME IInv, [Next]_vars
    PROVE  TypeOK'
<1> USE DEF IInv
<1>1. ASSUME NEW t \in Tasks, EnterSlot(t) PROVE TypeOK'
  BY <1>1 DEF EnterSlot, TypeOK, Goto, Fail, Break, shared, closing, counts,
     Places, InSlot, Drivers
<1>2. ASSUME NEW t \in Tasks, GetRequestContext(t) PROVE TypeOK'
  BY <1>2 DEF GetRequestContext, TypeOK, Goto, Fail, Break, shared, closing,
     counts, Places, InSlot, Drivers
<1>3. ASSUME NEW t \in Tasks, StartDriver(t) PROVE TypeOK'
  BY <1>3 DEF StartDriver, TypeOK, Goto, Fail, Break, shared, closing, counts,
     Places, InSlot, Drivers
<1>4. ASSUME NEW t \in Tasks, NewContext(t) PROVE TypeOK'
  BY <1>4 DEF NewContext, TypeOK, Goto, Fail, Break, shared, closing, counts,
     Places, InSlot, Drivers
<1>5. ASSUME NEW t \in Tasks, Pace(t) PROVE TypeOK'
  BY <1>5 DEF Pace, TypeOK, Goto, Fail, Break, shared, closing, counts, Places,
     InSlot, Drivers
<1>6. ASSUME NEW t \in Tasks, Respond(t) PROVE TypeOK'
  BY <1>6 DEF Respond, TypeOK, Goto, Fail, Break, shared, closing, counts,
     Places, InSlot, Drivers
<1>7. ASSUME NEW t \in Tasks, TransportError(t) PROVE TypeOK'
  BY <1>7 DEF TransportError, TypeOK, Goto, Fail, Break, shared, closing,
     counts, Places, InSlot, Drivers
<1>8. ASSUME NEW t \in Tasks, DiscardRequestContext(t) PROVE TypeOK'
  BY <1>8 DEF DiscardRequestContext, TypeOK, Goto, Fail, Break, shared, closing,
     counts, Places, InSlot, Drivers
<1>9. ASSUME NEW t \in Tasks, StopDeadDriver(t) PROVE TypeOK'
  BY <1>9 DEF StopDeadDriver, TypeOK, Goto, Fail, Break, shared, closing,
     counts, Places, InSlot, Drivers
<1>10. ASSUME NEW t \in Tasks, Retry(t) PROVE TypeOK'
  BY <1>10 DEF Retry, TypeOK, Goto, Fail, Break, shared, closing, counts,
     Places, InSlot, Drivers
<1>11. ASSUME NEW t \in Tasks, NewContextRaises(t) PROVE TypeOK'
  <2>1. own[t] \in Drivers
    BY <1>11 DEF NewContextRaises, TypeOK
  <2>2. orphans' \subseteq Drivers
    BY <1>11, <2>1 DEF NewContextRaises, TypeOK
  <2>3. failures' \in 0..MaxFailures /\ breakdowns' \in 0..failures'
    BY <1>11 DEF NewContextRaises, TypeOK, Break, counts
  <2>4. pc' = [pc EXCEPT ![t] = "raised"]
    BY <1>11 DEF NewContextRaises, Goto
  <2>5. /\ pc' \in [Tasks -> Places]
        /\ \A u \in Tasks : pc'[u] = IF u = t THEN "raised" ELSE pc[u]
    BY <2>4 DEF TypeOK, Places
  <2>6. UNCHANGED <<playwright, context, running, started, own, main, doomed>>
    BY <1>11 DEF NewContextRaises, closing
  <2> QED
    BY <2>2, <2>3, <2>5, <2>6 DEF TypeOK
<1>12. ASSUME NEW t \in Tasks, StartDriverRaises(t) PROVE TypeOK'
  BY <1>12 DEF StartDriverRaises, TypeOK, Goto, Fail, Break, shared, closing,
     counts, Places, InSlot, Drivers
<1>13. ASSUME NEW t \in Tasks, RetryLater(t) PROVE TypeOK'
  BY <1>13 DEF RetryLater, TypeOK, Goto, Fail, Break, shared, closing, counts,
     Places, InSlot, Drivers
<1>14. ASSUME NEW t \in Tasks, ClientError(t) PROVE TypeOK'
  BY <1>14 DEF ClientError, TypeOK, Goto, Fail, Break, shared, closing, counts,
     Places, InSlot, Drivers
<1>15. CASE CloseBegins
  BY <1>15 DEF CloseBegins, TypeOK, Goto, Fail, Break, shared, closing, counts,
     Places, InSlot, Drivers
<1>16. CASE ContextDisposed
  BY <1>16 DEF ContextDisposed, TypeOK, Goto, Fail, Break, shared, closing,
     counts, Places, InSlot, Drivers
<1>17. CASE CloseStops
  BY <1>17 DEF CloseStops, TypeOK, Goto, Fail, Break, shared, closing, counts,
     Places, InSlot, Drivers
<1>18. CASE DriverStopped
  BY <1>18 DEF DriverStopped, TypeOK, Goto, Fail, Break, shared, closing,
     counts, Places, InSlot, Drivers
<1>19. CASE DriverDies
  BY <1>19 DEF DriverDies, TypeOK, Goto, Fail, Break, shared, closing, counts,
     Places, InSlot, Drivers
<1>20. CASE UNCHANGED vars
  BY <1>20 DEF vars, shared, TypeOK, Goto, Fail, Break, shared, closing, counts,
     Places, InSlot, Drivers
<1>21. ASSUME NEW t \in Tasks, ReadBody(t) PROVE TypeOK'
  BY <1>21 DEF ReadBody, TypeOK, Goto, Fail, Break, shared, closing, counts,
     Places, InSlot, Drivers
<1>22. ASSUME NEW t \in Tasks, StopRaises(t) PROVE TypeOK'
  <2>1. own[t] \in Drivers
    BY <1>22 DEF StopRaises, TypeOK
  <2>2. orphans' \subseteq Drivers
    BY <1>22, <2>1 DEF StopRaises, TypeOK
  <2>3. failures' \in 0..MaxFailures /\ breakdowns' \in 0..failures'
    BY <1>22 DEF StopRaises, TypeOK, Fail
  <2>4. pc' = [pc EXCEPT ![t] = "backoff"]
    BY <1>22 DEF StopRaises, Goto
  <2>5. /\ pc' \in [Tasks -> Places]
        /\ \A u \in Tasks : pc'[u] = IF u = t THEN "backoff" ELSE pc[u]
    BY <2>4 DEF TypeOK, Places, InSlot
  <2>6. UNCHANGED <<playwright, context, running, started, own, main, doomed>>
    BY <1>22 DEF StopRaises, closing
  <2> QED
    BY <2>2, <2>3, <2>5, <2>6 DEF TypeOK
<1>23. CASE CloseRaises
  BY <1>23 DEF CloseRaises, TypeOK, Goto, Fail, Break, shared, closing, counts,
     Places, InSlot, Drivers
<1> QED
  BY <1>1, <1>2, <1>3, <1>4, <1>5, <1>6, <1>7, <1>8, <1>9, <1>10, <1>11,
     <1>12, <1>13, <1>14, <1>15, <1>16, <1>17, <1>18, <1>19, <1>20, <1>21,
     <1>22, <1>23 DEF Next, Step, Close

\* Only _get_request_context() takes the lock, and only when it is free.
LEMMA LockStep ==
    ASSUME TypeOK, LockHeldOnce, [Next]_vars
    PROVE  LockHeldOnce'
<1>1. ASSUME NEW t \in Tasks, EnterSlot(t) PROVE LockHeldOnce'
  BY <1>1 DEF EnterSlot, TypeOK, LockHeldOnce, Locked, Goto, LockFree, shared,
     closing
<1>2. ASSUME NEW t \in Tasks, GetRequestContext(t) PROVE LockHeldOnce'
  BY <1>2 DEF GetRequestContext, TypeOK, LockHeldOnce, Locked, Goto, LockFree,
     shared, closing
<1>3. ASSUME NEW t \in Tasks, StartDriver(t) PROVE LockHeldOnce'
  BY <1>3 DEF StartDriver, TypeOK, LockHeldOnce, Locked, Goto, LockFree, shared,
     closing
<1>4. ASSUME NEW t \in Tasks, NewContext(t) PROVE LockHeldOnce'
  BY <1>4 DEF NewContext, TypeOK, LockHeldOnce, Locked, Goto, LockFree, shared,
     closing
<1>5. ASSUME NEW t \in Tasks, Pace(t) PROVE LockHeldOnce'
  BY <1>5 DEF Pace, TypeOK, LockHeldOnce, Locked, Goto, LockFree, shared,
     closing
<1>6. ASSUME NEW t \in Tasks, Respond(t) PROVE LockHeldOnce'
  BY <1>6 DEF Respond, TypeOK, LockHeldOnce, Locked, Goto, LockFree, shared,
     closing
<1>7. ASSUME NEW t \in Tasks, TransportError(t) PROVE LockHeldOnce'
  BY <1>7 DEF TransportError, TypeOK, LockHeldOnce, Locked, Goto, LockFree,
     shared, closing
<1>8. ASSUME NEW t \in Tasks, DiscardRequestContext(t) PROVE LockHeldOnce'
  BY <1>8 DEF DiscardRequestContext, TypeOK, LockHeldOnce, Locked, Goto,
     LockFree, shared, closing
<1>9. ASSUME NEW t \in Tasks, StopDeadDriver(t) PROVE LockHeldOnce'
  BY <1>9 DEF StopDeadDriver, TypeOK, LockHeldOnce, Locked, Goto, LockFree,
     shared, closing
<1>10. ASSUME NEW t \in Tasks, Retry(t) PROVE LockHeldOnce'
  BY <1>10 DEF Retry, TypeOK, LockHeldOnce, Locked, Goto, LockFree, shared,
     closing
<1>11. ASSUME NEW t \in Tasks, NewContextRaises(t) PROVE LockHeldOnce'
  BY <1>11 DEF NewContextRaises, TypeOK, LockHeldOnce, Locked, Goto, LockFree,
     shared, closing
<1>12. ASSUME NEW t \in Tasks, StartDriverRaises(t) PROVE LockHeldOnce'
  BY <1>12 DEF StartDriverRaises, TypeOK, LockHeldOnce, Locked, Goto, LockFree,
     shared, closing
<1>13. ASSUME NEW t \in Tasks, RetryLater(t) PROVE LockHeldOnce'
  BY <1>13 DEF RetryLater, TypeOK, LockHeldOnce, Locked, Goto, LockFree, shared,
     closing
<1>14. ASSUME NEW t \in Tasks, ClientError(t) PROVE LockHeldOnce'
  BY <1>14 DEF ClientError, TypeOK, LockHeldOnce, Locked, Goto, LockFree,
     shared, closing
<1>15. CASE CloseBegins
  BY <1>15 DEF CloseBegins, TypeOK, LockHeldOnce, Locked, Goto, LockFree,
     shared, closing
<1>16. CASE ContextDisposed
  BY <1>16 DEF ContextDisposed, TypeOK, LockHeldOnce, Locked, Goto, LockFree,
     shared, closing
<1>17. CASE CloseStops
  BY <1>17 DEF CloseStops, TypeOK, LockHeldOnce, Locked, Goto, LockFree, shared,
     closing
<1>18. CASE DriverStopped
  BY <1>18 DEF DriverStopped, TypeOK, LockHeldOnce, Locked, Goto, LockFree,
     shared, closing
<1>19. CASE DriverDies
  BY <1>19 DEF DriverDies, TypeOK, LockHeldOnce, Locked, Goto, LockFree, shared,
     closing
<1>20. CASE UNCHANGED vars
  BY <1>20 DEF vars, shared, TypeOK, LockHeldOnce, Locked, Goto, LockFree,
     shared, closing
<1>21. ASSUME NEW t \in Tasks, ReadBody(t) PROVE LockHeldOnce'
  BY <1>21 DEF ReadBody, TypeOK, LockHeldOnce, Locked, Goto, LockFree, shared,
     closing
<1>22. ASSUME NEW t \in Tasks, StopRaises(t) PROVE LockHeldOnce'
  BY <1>22 DEF StopRaises, TypeOK, LockHeldOnce, Locked, Goto, LockFree, shared,
     closing
<1>23. CASE CloseRaises
  BY <1>23 DEF CloseRaises, TypeOK, LockHeldOnce, Locked, Goto, LockFree,
     shared, closing
<1> QED
  BY <1>1, <1>2, <1>3, <1>4, <1>5, <1>6, <1>7, <1>8, <1>9, <1>10, <1>11,
     <1>12, <1>13, <1>14, <1>15, <1>16, <1>17, <1>18, <1>19, <1>20, <1>21,
     <1>22, <1>23 DEF Next, Step, Close

\* Whoever goes on to start a driver has seen that there is no context, and
\* only the holder of the lock makes one.
LEMMA NoneWhileLockedStep ==
    ASSUME TypeOK, LockHeldOnce, NoneWhileLocked, [Next]_vars
    PROVE  NoneWhileLocked'
<1>1. ASSUME NEW t \in Tasks, EnterSlot(t) PROVE NoneWhileLocked'
  BY <1>1 DEF EnterSlot, TypeOK, LockHeldOnce, NoneWhileLocked, Locked, Goto,
     LockFree, shared, closing
<1>2. ASSUME NEW t \in Tasks, GetRequestContext(t) PROVE NoneWhileLocked'
  BY <1>2 DEF GetRequestContext, TypeOK, LockHeldOnce, NoneWhileLocked, Locked,
     Goto, LockFree, shared, closing
<1>3. ASSUME NEW t \in Tasks, StartDriver(t) PROVE NoneWhileLocked'
  BY <1>3 DEF StartDriver, TypeOK, LockHeldOnce, NoneWhileLocked, Locked, Goto,
     LockFree, shared, closing
<1>4. ASSUME NEW t \in Tasks, NewContext(t) PROVE NoneWhileLocked'
  BY <1>4 DEF NewContext, TypeOK, LockHeldOnce, NoneWhileLocked, Locked, Goto,
     LockFree, shared, closing
<1>5. ASSUME NEW t \in Tasks, Pace(t) PROVE NoneWhileLocked'
  BY <1>5 DEF Pace, TypeOK, LockHeldOnce, NoneWhileLocked, Locked, Goto,
     LockFree, shared, closing
<1>6. ASSUME NEW t \in Tasks, Respond(t) PROVE NoneWhileLocked'
  BY <1>6 DEF Respond, TypeOK, LockHeldOnce, NoneWhileLocked, Locked, Goto,
     LockFree, shared, closing
<1>7. ASSUME NEW t \in Tasks, TransportError(t) PROVE NoneWhileLocked'
  BY <1>7 DEF TransportError, TypeOK, LockHeldOnce, NoneWhileLocked, Locked,
     Goto, LockFree, shared, closing
<1>8. ASSUME NEW t \in Tasks, DiscardRequestContext(t) PROVE NoneWhileLocked'
  BY <1>8 DEF DiscardRequestContext, TypeOK, LockHeldOnce, NoneWhileLocked,
     Locked, Goto, LockFree, shared, closing
<1>9. ASSUME NEW t \in Tasks, StopDeadDriver(t) PROVE NoneWhileLocked'
  BY <1>9 DEF StopDeadDriver, TypeOK, LockHeldOnce, NoneWhileLocked, Locked,
     Goto, LockFree, shared, closing
<1>10. ASSUME NEW t \in Tasks, Retry(t) PROVE NoneWhileLocked'
  BY <1>10 DEF Retry, TypeOK, LockHeldOnce, NoneWhileLocked, Locked, Goto,
     LockFree, shared, closing
<1>11. ASSUME NEW t \in Tasks, NewContextRaises(t) PROVE NoneWhileLocked'
  BY <1>11 DEF NewContextRaises, TypeOK, LockHeldOnce, NoneWhileLocked, Locked,
     Goto, LockFree, shared, closing
<1>12. ASSUME NEW t \in Tasks, StartDriverRaises(t) PROVE NoneWhileLocked'
  BY <1>12 DEF StartDriverRaises, TypeOK, LockHeldOnce, NoneWhileLocked, Locked,
     Goto, LockFree, shared, closing
<1>13. ASSUME NEW t \in Tasks, RetryLater(t) PROVE NoneWhileLocked'
  BY <1>13 DEF RetryLater, TypeOK, LockHeldOnce, NoneWhileLocked, Locked, Goto,
     LockFree, shared, closing
<1>14. ASSUME NEW t \in Tasks, ClientError(t) PROVE NoneWhileLocked'
  BY <1>14 DEF ClientError, TypeOK, LockHeldOnce, NoneWhileLocked, Locked, Goto,
     LockFree, shared, closing
<1>15. CASE CloseBegins
  BY <1>15 DEF CloseBegins, TypeOK, LockHeldOnce, NoneWhileLocked, Locked, Goto,
     LockFree, shared, closing
<1>16. CASE ContextDisposed
  BY <1>16 DEF ContextDisposed, TypeOK, LockHeldOnce, NoneWhileLocked, Locked,
     Goto, LockFree, shared, closing
<1>17. CASE CloseStops
  BY <1>17 DEF CloseStops, TypeOK, LockHeldOnce, NoneWhileLocked, Locked, Goto,
     LockFree, shared, closing
<1>18. CASE DriverStopped
  BY <1>18 DEF DriverStopped, TypeOK, LockHeldOnce, NoneWhileLocked, Locked,
     Goto, LockFree, shared, closing
<1>19. CASE DriverDies
  BY <1>19 DEF DriverDies, TypeOK, LockHeldOnce, NoneWhileLocked, Locked, Goto,
     LockFree, shared, closing
<1>20. CASE UNCHANGED vars
  BY <1>20 DEF vars, shared, TypeOK, LockHeldOnce, NoneWhileLocked, Locked,
     Goto, LockFree, shared, closing
<1>21. ASSUME NEW t \in Tasks, ReadBody(t) PROVE NoneWhileLocked'
  BY <1>21 DEF ReadBody, TypeOK, LockHeldOnce, NoneWhileLocked, Locked, Goto,
     LockFree, shared, closing
<1>22. ASSUME NEW t \in Tasks, StopRaises(t) PROVE NoneWhileLocked'
  BY <1>22 DEF StopRaises, TypeOK, LockHeldOnce, NoneWhileLocked, Locked, Goto,
     LockFree, shared, closing
<1>23. CASE CloseRaises
  BY <1>23 DEF CloseRaises, TypeOK, LockHeldOnce, NoneWhileLocked, Locked, Goto,
     LockFree, shared, closing
<1> QED
  BY <1>1, <1>2, <1>3, <1>4, <1>5, <1>6, <1>7, <1>8, <1>9, <1>10, <1>11,
     <1>12, <1>13, <1>14, <1>15, <1>16, <1>17, <1>18, <1>19, <1>20, <1>21,
     <1>22, <1>23 DEF Next, Step, Close

\* A driver loses its context only together with its place in _playwright.
LEMMA BareDriverStep ==
    ASSUME TypeOK, BareDriverKnown, [Next]_vars
    PROVE  BareDriverKnown'
<1>1. ASSUME NEW t \in Tasks, EnterSlot(t) PROVE BareDriverKnown'
  BY <1>1 DEF EnterSlot, TypeOK, BareDriverKnown, Goto, shared, closing
<1>2. ASSUME NEW t \in Tasks, GetRequestContext(t) PROVE BareDriverKnown'
  BY <1>2 DEF GetRequestContext, TypeOK, BareDriverKnown, Goto, shared, closing
<1>3. ASSUME NEW t \in Tasks, StartDriver(t) PROVE BareDriverKnown'
  BY <1>3 DEF StartDriver, TypeOK, BareDriverKnown, Goto, shared, closing
<1>4. ASSUME NEW t \in Tasks, NewContext(t) PROVE BareDriverKnown'
  BY <1>4 DEF NewContext, TypeOK, BareDriverKnown, Goto, shared, closing
<1>5. ASSUME NEW t \in Tasks, Pace(t) PROVE BareDriverKnown'
  BY <1>5 DEF Pace, TypeOK, BareDriverKnown, Goto, shared, closing
<1>6. ASSUME NEW t \in Tasks, Respond(t) PROVE BareDriverKnown'
  BY <1>6 DEF Respond, TypeOK, BareDriverKnown, Goto, shared, closing
<1>7. ASSUME NEW t \in Tasks, TransportError(t) PROVE BareDriverKnown'
  BY <1>7 DEF TransportError, TypeOK, BareDriverKnown, Goto, shared, closing
<1>8. ASSUME NEW t \in Tasks, DiscardRequestContext(t) PROVE BareDriverKnown'
  BY <1>8 DEF DiscardRequestContext, TypeOK, BareDriverKnown, Goto, shared,
     closing
<1>9. ASSUME NEW t \in Tasks, StopDeadDriver(t) PROVE BareDriverKnown'
  BY <1>9 DEF StopDeadDriver, TypeOK, BareDriverKnown, Goto, shared, closing
<1>10. ASSUME NEW t \in Tasks, Retry(t) PROVE BareDriverKnown'
  BY <1>10 DEF Retry, TypeOK, BareDriverKnown, Goto, shared, closing
<1>11. ASSUME NEW t \in Tasks, NewContextRaises(t) PROVE BareDriverKnown'
  BY <1>11 DEF NewContextRaises, TypeOK, BareDriverKnown, Goto, shared, closing
<1>12. ASSUME NEW t \in Tasks, StartDriverRaises(t) PROVE BareDriverKnown'
  BY <1>12 DEF StartDriverRaises, TypeOK, BareDriverKnown, Goto, shared, closing
<1>13. ASSUME NEW t \in Tasks, RetryLater(t) PROVE BareDriverKnown'
  BY <1>13 DEF RetryLater, TypeOK, BareDriverKnown, Goto, shared, closing
<1>14. ASSUME NEW t \in Tasks, ClientError(t) PROVE BareDriverKnown'
  BY <1>14 DEF ClientError, TypeOK, BareDriverKnown, Goto, shared, closing
<1>15. CASE CloseBegins
  BY <1>15 DEF CloseBegins, TypeOK, BareDriverKnown, Goto, shared, closing
<1>16. CASE ContextDisposed
  BY <1>16 DEF ContextDisposed, TypeOK, BareDriverKnown, Goto, shared, closing
<1>17. CASE CloseStops
  BY <1>17 DEF CloseStops, TypeOK, BareDriverKnown, Goto, shared, closing
<1>18. CASE DriverStopped
  BY <1>18 DEF DriverStopped, TypeOK, BareDriverKnown, Goto, shared, closing
<1>19. CASE DriverDies
  BY <1>19 DEF DriverDies, TypeOK, BareDriverKnown, Goto, shared, closing
<1>20. CASE UNCHANGED vars
  BY <1>20 DEF vars, shared, TypeOK, BareDriverKnown, Goto, shared, closing
<1>21. ASSUME NEW t \in Tasks, ReadBody(t) PROVE BareDriverKnown'
  BY <1>21 DEF ReadBody, TypeOK, BareDriverKnown, Goto, shared, closing
<1>22. ASSUME NEW t \in Tasks, StopRaises(t) PROVE BareDriverKnown'
  BY <1>22 DEF StopRaises, TypeOK, BareDriverKnown, Goto, shared, closing
<1>23. CASE CloseRaises
  BY <1>23 DEF CloseRaises, TypeOK, BareDriverKnown, Goto, shared, closing
<1> QED
  BY <1>1, <1>2, <1>3, <1>4, <1>5, <1>6, <1>7, <1>8, <1>9, <1>10, <1>11,
     <1>12, <1>13, <1>14, <1>15, <1>16, <1>17, <1>18, <1>19, <1>20, <1>21,
     <1>22, <1>23 DEF Next, Step, Close

\* A driver is started only when the one in _playwright is accounted for.
LEMMA AccountingStep ==
    ASSUME IInv, [Next]_vars
    PROVE  DriversAccountedFor'
<1> USE DEF IInv
<1>1. ASSUME NEW t \in Tasks, EnterSlot(t) PROVE DriversAccountedFor'
  BY <1>1 DEF EnterSlot, TypeOK, DriversAccountedFor, Goto, shared, closing
<1>2. ASSUME NEW t \in Tasks, GetRequestContext(t) PROVE DriversAccountedFor'
  BY <1>2 DEF GetRequestContext, TypeOK, DriversAccountedFor, Goto, shared,
     closing
<1>3. ASSUME NEW t \in Tasks, StartDriver(t) PROVE DriversAccountedFor'
  <2> SUFFICES ASSUME main = "gather", NEW d \in running
               PROVE  \/ d = started + 1
                      \/ d \in orphans
                      \/ \E u \in Tasks : pc'[u] = "stopping" /\ own'[u] = d
    <3>1. running' = running \cup {started + 1} /\ playwright' = started + 1
      BY <1>3 DEF StartDriver
    <3>2. UNCHANGED <<orphans, main>>
      BY <1>3 DEF StartDriver, closing
    <3> QED
      BY <3>1, <3>2, Zenon DEF DriversAccountedFor
  <2>1. CASE d = playwright
    <3>1. context = None
      BY <1>3 DEF StartDriver, NoneWhileLocked, Locked
    <3>2. ~ \E u \in Tasks : pc[u] = "new_context"
      BY <1>3 DEF StartDriver, LockHeldOnce, Locked
    <3> QED
      BY <2>1, <3>1, <3>2 DEF BareDriverKnown, TypeOK
  <2>2. CASE d \in orphans
    BY <2>2
  <2>3. ASSUME NEW u \in Tasks, pc[u] = "stopping", own[u] = d
        PROVE  pc'[u] = "stopping" /\ own'[u] = d
    BY <1>3, <2>3 DEF StartDriver, Goto, TypeOK
  <2> QED
    BY <2>1, <2>2, <2>3 DEF DriversAccountedFor
<1>4. ASSUME NEW t \in Tasks, NewContext(t) PROVE DriversAccountedFor'
  BY <1>4 DEF NewContext, TypeOK, DriversAccountedFor, Goto, shared, closing
<1>5. ASSUME NEW t \in Tasks, Pace(t) PROVE DriversAccountedFor'
  BY <1>5 DEF Pace, TypeOK, DriversAccountedFor, Goto, shared, closing
<1>6. ASSUME NEW t \in Tasks, Respond(t) PROVE DriversAccountedFor'
  BY <1>6 DEF Respond, TypeOK, DriversAccountedFor, Goto, shared, closing
<1>7. ASSUME NEW t \in Tasks, TransportError(t) PROVE DriversAccountedFor'
  BY <1>7 DEF TransportError, TypeOK, DriversAccountedFor, Goto, shared, closing
<1>8. ASSUME NEW t \in Tasks, DiscardRequestContext(t) PROVE DriversAccountedFor'
  BY <1>8 DEF DiscardRequestContext, TypeOK, DriversAccountedFor, Goto, shared,
     closing
<1>9. ASSUME NEW t \in Tasks, StopDeadDriver(t) PROVE DriversAccountedFor'
  BY <1>9 DEF StopDeadDriver, TypeOK, DriversAccountedFor, Goto, shared, closing
<1>10. ASSUME NEW t \in Tasks, Retry(t) PROVE DriversAccountedFor'
  BY <1>10 DEF Retry, TypeOK, DriversAccountedFor, Goto, shared, closing
<1>11. ASSUME NEW t \in Tasks, NewContextRaises(t) PROVE DriversAccountedFor'
  BY <1>11 DEF NewContextRaises, TypeOK, DriversAccountedFor, Goto, shared,
     closing
<1>12. ASSUME NEW t \in Tasks, StartDriverRaises(t) PROVE DriversAccountedFor'
  BY <1>12 DEF StartDriverRaises, TypeOK, DriversAccountedFor, Goto, shared,
     closing
<1>13. ASSUME NEW t \in Tasks, RetryLater(t) PROVE DriversAccountedFor'
  BY <1>13 DEF RetryLater, TypeOK, DriversAccountedFor, Goto, shared, closing
<1>14. ASSUME NEW t \in Tasks, ClientError(t) PROVE DriversAccountedFor'
  BY <1>14 DEF ClientError, TypeOK, DriversAccountedFor, Goto, shared, closing
<1>15. CASE CloseBegins
  BY <1>15 DEF CloseBegins, TypeOK, DriversAccountedFor, Goto, shared, closing
<1>16. CASE ContextDisposed
  BY <1>16 DEF ContextDisposed, TypeOK, DriversAccountedFor, Goto, shared,
     closing
<1>17. CASE CloseStops
  BY <1>17 DEF CloseStops, TypeOK, DriversAccountedFor, Goto, shared, closing
<1>18. CASE DriverStopped
  BY <1>18 DEF DriverStopped, TypeOK, DriversAccountedFor, Goto, shared, closing
<1>19. CASE DriverDies
  BY <1>19 DEF DriverDies, TypeOK, DriversAccountedFor, Goto, shared, closing
<1>20. CASE UNCHANGED vars
  BY <1>20 DEF vars, shared, TypeOK, DriversAccountedFor, Goto, shared, closing
<1>21. ASSUME NEW t \in Tasks, ReadBody(t) PROVE DriversAccountedFor'
  BY <1>21 DEF ReadBody, TypeOK, DriversAccountedFor, Goto, shared, closing
<1>22. ASSUME NEW t \in Tasks, StopRaises(t) PROVE DriversAccountedFor'
  BY <1>22 DEF StopRaises, TypeOK, DriversAccountedFor, Goto, shared, closing
<1>23. CASE CloseRaises
  BY <1>23 DEF CloseRaises, TypeOK, DriversAccountedFor, Goto, shared, closing
<1> QED
  BY <1>1, <1>2, <1>3, <1>4, <1>5, <1>6, <1>7, <1>8, <1>9, <1>10, <1>11,
     <1>12, <1>13, <1>14, <1>15, <1>16, <1>17, <1>18, <1>19, <1>20, <1>21,
     <1>22, <1>23 DEF Next, Step, Close

\* own[t] and the cached context only ever take a driver that was started.
LEMMA NumberedStep ==
    ASSUME TypeOK, Numbered, [Next]_vars
    PROVE  Numbered'
<1> USE DEF Numbered, TypeOK
<1>1. ASSUME NEW t \in Tasks, GetRequestContext(t) PROVE Numbered'
  BY <1>1 DEF GetRequestContext, shared
<1>2. ASSUME NEW t \in Tasks, StartDriver(t) PROVE Numbered'
  BY <1>2 DEF StartDriver
<1>3. ASSUME NEW t \in Tasks, NewContext(t) PROVE Numbered'
  BY <1>3 DEF NewContext
<1>4. ASSUME NEW t \in Tasks, DiscardRequestContext(t) PROVE Numbered'
  BY <1>4 DEF DiscardRequestContext
<1>5. CASE ContextDisposed
  BY <1>5 DEF ContextDisposed
<1>6. CASE DriverStopped
  BY <1>6 DEF DriverStopped
<1>7. CASE UNCHANGED <<playwright, context, own, started>>
  BY <1>7
<1> QED
  BY <1>1, <1>2, <1>3, <1>4, <1>5, <1>6, <1>7
     DEF Next, Step, Close, EnterSlot, StartDriverRaises, NewContextRaises,
         Pace, Respond, ReadBody, RetryLater, ClientError, TransportError,
         StopDeadDriver, StopRaises, Retry, CloseBegins, CloseStops,
         CloseRaises, DriverDies, shared, vars

\* The number of a new driver is greater than any that a task knows.
LEMMA DriverIsNewStep ==
    ASSUME TypeOK, LockHeldOnce, Numbered, DriverIsNew, [Next]_vars
    PROVE  DriverIsNew'
<1>1. ASSUME NEW t \in Tasks, GetRequestContext(t) PROVE DriverIsNew'
  BY <1>1 DEF GetRequestContext, LockFree, Goto, DriverIsNew, TypeOK
<1>2. ASSUME NEW t \in Tasks, StartDriver(t) PROVE DriverIsNew'
  <2>1. \A u \in Tasks : own'[u] = IF u = t THEN started + 1 ELSE own[u]
    BY <1>2 DEF StartDriver, TypeOK
  <2>2. \A u \in Tasks : pc'[u] = "new_context" => u = t
    BY <1>2 DEF StartDriver, Goto, LockHeldOnce, Locked, TypeOK
  <2>3. \A u \in Tasks : own[u] # started + 1
    BY <1>2 DEF Numbered, TypeOK, StartDriver, Drivers
  <2> QED
    BY <2>1, <2>2, <2>3 DEF DriverIsNew
<1>3. ASSUME NEW t \in Tasks, DiscardRequestContext(t) PROVE DriverIsNew'
  BY <1>3 DEF DiscardRequestContext, LockFree, Goto, DriverIsNew, TypeOK
<1>4. CASE /\ UNCHANGED own
           /\ \A u \in Tasks : pc'[u] = "new_context" => pc[u] = "new_context"
  BY <1>4 DEF DriverIsNew
<1> QED
  BY <1>1, <1>2, <1>3, <1>4
     DEF TypeOK, Next, Step, Close, Goto, EnterSlot, NewContext,
         StartDriverRaises, NewContextRaises, Pace, Respond, ReadBody,
         RetryLater, ClientError, TransportError, StopDeadDriver, StopRaises,
         Retry, CloseBegins, ContextDisposed, CloseStops, DriverStopped,
         CloseRaises, DriverDies, shared, vars

\* A driver to be stopped left the cache with its context, and the next context
\* is that of a driver nobody has used.
LEMMA StoppedIsDroppedStep ==
    ASSUME TypeOK, DriverIsNew, StoppedIsDropped, [Next]_vars
    PROVE  StoppedIsDropped'
<1>1. ASSUME NEW t \in Tasks, GetRequestContext(t) PROVE StoppedIsDropped'
  BY <1>1 DEF GetRequestContext, shared, Goto, StoppedIsDropped, TypeOK
<1>2. ASSUME NEW t \in Tasks, StartDriver(t) PROVE StoppedIsDropped'
  BY <1>2 DEF StartDriver, Goto, StoppedIsDropped, TypeOK
<1>3. ASSUME NEW t \in Tasks, NewContext(t) PROVE StoppedIsDropped'
  BY <1>3 DEF NewContext, Goto, StoppedIsDropped, DriverIsNew, TypeOK
<1>4. ASSUME NEW t \in Tasks, DiscardRequestContext(t) PROVE StoppedIsDropped'
  BY <1>4 DEF DiscardRequestContext, Goto, StoppedIsDropped, TypeOK
<1>5. CASE ContextDisposed
  BY <1>5 DEF ContextDisposed, StoppedIsDropped, TypeOK
<1>6. CASE /\ UNCHANGED <<context, own>>
           /\ \A u \in Tasks : pc'[u] = "stopping" => pc[u] = "stopping"
  BY <1>6 DEF StoppedIsDropped
<1> QED
  BY <1>1, <1>2, <1>3, <1>4, <1>5, <1>6
     DEF TypeOK, Next, Step, Close, Goto, EnterSlot, StartDriverRaises,
         NewContextRaises, Pace, Respond, ReadBody, RetryLater, ClientError,
         TransportError, StopDeadDriver, StopRaises, Retry, CloseBegins,
         CloseStops, DriverStopped, CloseRaises, DriverDies, shared, vars

\* While a driver works none is started, and it stops working only when it
\* breaks, which pays for the next one.
LEMMA BudgetStep ==
    ASSUME IInv, [Next]_vars
    PROVE  Budget'
<1> USE DEF IInv, Budget
<1>0. started \in Nat /\ breakdowns \in Nat
  BY DEF TypeOK
<1>1. ASSUME NEW t \in Tasks, StartDriver(t) PROVE Budget'
  <2>1. ~Healthy
    BY <1>1 DEF StartDriver, Healthy, NoneWhileLocked, LockHeldOnce, Locked,
       TypeOK, Drivers
  <2>2. UNCHANGED <<main, breakdowns>> /\ started' = started + 1
    BY <1>1 DEF StartDriver, closing, counts
  <2>3. pc'[t] = "new_context" /\ own'[t] \in running'
    BY <1>1 DEF StartDriver, Goto, TypeOK
  <2>4. Healthy'
    BY <2>3 DEF Healthy
  <2> QED
    BY <1>0, <2>1, <2>2, <2>4
<1>2. ASSUME NEW t \in Tasks, NewContext(t) PROVE Budget'
  <2>1. UNCHANGED <<main, breakdowns, started, running, own>> /\ context' = own[t]
    BY <1>2 DEF NewContext, closing, counts
  <2>2. \A u \in Tasks : pc'[u] = "discard" => u # t /\ pc[u] = "discard"
    BY <1>2 DEF NewContext, Goto, TypeOK
  <2>3. Healthy'
    BY <1>2, <2>1, <2>2 DEF NewContext, Healthy, DriverIsNew
  <2> QED
    BY <2>1, <2>3
<1>3. ASSUME NEW t \in Tasks, NewContextRaises(t) PROVE Budget'
  <2>1. UNCHANGED <<main, started>>
    BY <1>3 DEF NewContextRaises, closing
  <2>2. CASE own[t] \notin running /\ UNCHANGED counts
    <3>1. ~Healthy
      BY <1>3, <2>2 DEF NewContextRaises, Healthy, NoneWhileLocked,
         LockHeldOnce, Locked, TypeOK, Drivers
    <3> QED
      BY <1>0, <2>1, <2>2, <3>1 DEF counts
  <2>3. CASE Break
    BY <1>0, <2>1, <2>3 DEF Break
  <2> QED
    BY <1>3, <2>2, <2>3 DEF NewContextRaises
<1>4. ASSUME NEW t \in Tasks, TransportError(t) PROVE Budget'
  <2>1. UNCHANGED <<main, started, context, running, own>>
    BY <1>4 DEF TransportError, shared, closing
  <2>2. CASE own[t] \notin running /\ UNCHANGED counts
    <3>1. /\ \A u \in Tasks : pc[u] = "new_context" => pc'[u] = "new_context"
          /\ \A u \in Tasks : pc'[u] = "discard" => pc[u] = "discard" \/ u = t
      BY <1>4 DEF TransportError, Goto, TypeOK
    <3>2. Healthy => Healthy'
      BY <2>1, <2>2, <3>1 DEF Healthy
    <3> QED
      BY <1>0, <2>1, <2>2, <3>2 DEF counts
  <2>3. CASE Break
    BY <1>0, <2>1, <2>3 DEF Break
  <2> QED
    BY <1>4, <2>2, <2>3 DEF TransportError
<1>5. ASSUME NEW t \in Tasks, DiscardRequestContext(t) PROVE Budget'
  <2>1. UNCHANGED <<main, started, running, breakdowns>>
    BY <1>5 DEF DiscardRequestContext, closing, counts
  <2>2. CASE context = own[t]
    <3>1. ~Healthy
      BY <1>5, <2>2 DEF DiscardRequestContext, Healthy, LockFree
    <3> QED
      BY <1>0, <2>1, <3>1
  <2>3. CASE context # own[t]
    <3>1. UNCHANGED <<context, own>>
      BY <1>5, <2>3 DEF DiscardRequestContext
    <3>2. /\ \A u \in Tasks : pc[u] = "new_context" => pc'[u] = "new_context"
          /\ \A u \in Tasks : pc'[u] = "discard" => pc[u] = "discard"
      BY <1>5, <2>3 DEF DiscardRequestContext, Goto, TypeOK
    <3>3. Healthy => Healthy'
      BY <2>1, <3>1, <3>2 DEF Healthy
    <3> QED
      BY <1>0, <2>1, <3>3
  <2> QED
    BY <2>2, <2>3
<1>6. ASSUME NEW t \in Tasks, StopDeadDriver(t) PROVE Budget'
  <2>1. /\ UNCHANGED <<main, started, breakdowns, context, own>>
        /\ running' = running \ {own[t]}
    BY <1>6 DEF StopDeadDriver, closing, counts
  <2>2. /\ \A u \in Tasks : pc[u] = "new_context" => pc'[u] = "new_context" /\ u # t
        /\ \A u \in Tasks : pc'[u] = "discard" => pc[u] = "discard"
    BY <1>6 DEF StopDeadDriver, Goto, TypeOK
  <2>3. own[t] # context
    BY <1>6 DEF StopDeadDriver, StoppedIsDropped
  <2>4. Healthy => Healthy'
    BY <2>1, <2>2, <2>3 DEF Healthy, DriverIsNew
  <2> QED
    BY <1>0, <2>1, <2>4
<1>7. CASE Break /\ UNCHANGED <<main, started>>
  BY <1>0, <1>7 DEF Break
<1>8. CASE main' # "gather"
  BY <1>8
<1>9. CASE /\ UNCHANGED <<main, started, breakdowns, context, running>>
           /\ \A u \in Tasks : pc[u] = "new_context" =>
                 pc'[u] = "new_context" /\ own'[u] = own[u]
           /\ \A u \in Tasks : pc'[u] = "discard" =>
                 pc[u] = "discard" /\ own'[u] = own[u]
  <2>1. Healthy => Healthy'
    BY <1>9 DEF Healthy
  <2> QED
    BY <1>0, <1>9, <2>1
<1>10. ASSUME NEW t \in Tasks, GetRequestContext(t) PROVE Budget'
  BY <1>9, <1>10 DEF GetRequestContext, TypeOK, Goto, shared, closing, counts
<1>11. ASSUME NEW t \in Tasks,
              \/ EnterSlot(t) \/ Pace(t) \/ Respond(t) \/ ReadBody(t)
              \/ RetryLater(t) \/ ClientError(t) \/ StopRaises(t) \/ Retry(t)
       PROVE  Budget'
  BY <1>9, <1>11 DEF EnterSlot, Pace, Respond, ReadBody, RetryLater,
     ClientError, StopRaises, Retry, TypeOK, Goto, Fail, shared, closing, counts
<1>12. ASSUME NEW t \in Tasks, StartDriverRaises(t) PROVE Budget'
  BY <1>7, <1>12 DEF StartDriverRaises, shared, closing
<1>13. CASE DriverDies
  BY <1>7, <1>13 DEF DriverDies, closing
<1>14. CASE Close \/ CloseRaises
  BY <1>8, <1>14 DEF Close, CloseBegins, ContextDisposed, CloseStops,
     DriverStopped, CloseRaises
<1>15. CASE UNCHANGED vars
  BY <1>9, <1>15 DEF vars
<1> QED
  BY <1>1, <1>2, <1>3, <1>4, <1>5, <1>6, <1>10, <1>11, <1>12, <1>13, <1>14,
     <1>15 DEF Next, Step

-----------------------------------------------------------------------------
(* The theorems *)

\* Every reachable state satisfies the invariant.
THEOREM InductiveInvariant == Spec => []IInv
<1>1. IInv /\ [Next]_vars => IInv'
  BY TypingStep, LockStep, NoneWhileLockedStep, BareDriverStep,
     AccountingStep, NumberedStep, DriverIsNewStep, StoppedIsDroppedStep,
     BudgetStep DEF IInv
<1> QED
  BY InitEstablishes, <1>1, PTL DEF Spec

\* No task uses a context, or stops a driver, that is None, however many tasks
\* find the driver dead at once.
THEOREM TypeCorrect == Spec => []TypeOK
BY InductiveInvariant, PTL DEF IInv

\* Before close(), every running driver is cached, being stopped or the one of
\* a new_context() that raised.
THEOREM NoDriverLeaks == Spec => []DriversAccountedFor
BY InductiveInvariant, PTL DEF IInv

\* Until close(), a driver is started only to replace one that broke, once for
\* each, however many requests fail on it and in whatever order they notice.
THEOREM DriversReplacedOnce == Spec => []OneDriverPerBreakdown
<1>1. IInv => OneDriverPerBreakdown
  BY DEF IInv, Budget, OneDriverPerBreakdown
<1> QED
  BY InductiveInvariant, <1>1, PTL

\* A context that replaced a dead one is only dropped by a request that failed
\* on it, or by close().
THEOREM FreshContextSurvives == Spec => FreshContextKept
<1> DEFINE Kept ==
       context # None /\ context' # context =>
          \/ main = "dispose"
          \/ \E t \in Tasks : pc[t] = "discard" /\ own[t] = context /\ pc'[t] # "discard"
<1>1. IInv /\ [Next]_vars => [Kept]_vars
  <2> SUFFICES ASSUME IInv, [Next]_vars, context # None, context' # context
               PROVE  Kept
    OBVIOUS
  <2>1. ASSUME NEW t \in Tasks, NewContext(t) PROVE Kept
    BY <2>1 DEF NewContext, IInv, NoneWhileLocked, Locked
  <2>2. ASSUME NEW t \in Tasks, DiscardRequestContext(t) PROVE Kept
    <3>1. pc[t] = "discard" /\ own[t] = context /\ pc'[t] # "discard"
      BY <2>2 DEF DiscardRequestContext, Goto, IInv, TypeOK
    <3> QED
      BY <3>1
  <2>3. CASE ContextDisposed
    BY <2>3 DEF ContextDisposed
  <2> QED
    BY <2>1, <2>2, <2>3
       DEF Next, Step, Close, EnterSlot, GetRequestContext, StartDriver,
           StartDriverRaises, NewContextRaises, Pace, Respond, ReadBody,
           RetryLater, ClientError, TransportError, StopDeadDriver, StopRaises,
           Retry, CloseBegins, CloseStops, DriverStopped, CloseRaises,
           DriverDies, shared, vars
<1> QED
  BY InductiveInvariant, <1>1, PTL DEF Spec, FreshContextKept
=============================================================================
