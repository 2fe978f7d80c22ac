------------------------ MODULE ChronologicalLedger ------------------------
(***************************************************************************)
(* What the ingestion pipeline promises about the set of recorded events,  *)
(* without saying how: an event of the newest season enters the ledger     *)
(* only when no earlier event of that season is still missing.  The        *)
(* checkpoint of the next run (the start of the event recorded last) can   *)
(* be trusted exactly as long as this holds.                               *)
(***************************************************************************)
EXTENDS Integers

CONSTANTS
    Events,         \* every event VEX will ever list
    EventStart,     \* the start of an event
    EventSeason,    \* the season of an event
    ScopeStart      \* events that start earlier are out of scope

VARIABLE ledger     \* the events recorded so far

\* No event of a later season is recorded.
Newest(season) == \A e \in ledger : EventSeason[e] <= season

\* The in-scope events of e's season that start before e.
Predecessors(e) ==
    {x \in Events : /\ EventSeason[x] = EventSeason[e]
                    /\ EventStart[x] >= ScopeStart
                    /\ EventStart[x] < EventStart[e]}

Init == ledger = {}

\* Recording an event again (it was still in progress) leaves the ledger as it is.
Ingest(e) ==
    /\ Newest(EventSeason[e]) => Predecessors(e) \subseteq ledger
    /\ ledger' = ledger \cup {e}

Next == \E e \in Events : Ingest(e)

Spec == Init /\ [][Next]_ledger
=============================================================================
