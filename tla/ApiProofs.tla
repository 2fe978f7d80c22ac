------------------------------ MODULE ApiProofs ------------------------------
(***************************************************************************)
(* Theorems about Api, for any number of clients, tokens, seasons, routes, *)
(* any size and lifetime of the cache, and any interleaving with refreshes,*)
(* backfills, archives and the management of tokens.                       *)
(***************************************************************************)
EXTENDS Api, TLAPS, SequenceTheorems

(* ------------------------------- the cache -------------------------------- *)

\* One entry per key.
Keyed(c) == \A i, j \in 1..Len(c) : c[i].route = c[j].route => i = j

\* A sequence without one of its elements.
RemoveIndex(s, i) == SubSeq(s, 1, i - 1) \o SubSeq(s, i + 1, Len(s))

LEMMA RemoveIndexProperties ==
  ASSUME NEW S, NEW s \in Seq(S), NEW i \in 1..Len(s)
  PROVE  /\ RemoveIndex(s, i) \in Seq(S)
         /\ Len(RemoveIndex(s, i)) = Len(s) - 1
         /\ \A j \in 1..Len(RemoveIndex(s, i)) :
               RemoveIndex(s, i)[j] = IF j < i THEN s[j] ELSE s[j + 1]
<1> DEFINE a == SubSeq(s, 1, i - 1)
           b == SubSeq(s, i + 1, Len(s))
           u == RemoveIndex(s, i)
<1>1. /\ a \in Seq(S)
      /\ Len(a) = i - 1
      /\ \A j \in 1..(i - 1) : a[j] = s[j]
  BY SubSeqProperties
<1>2. /\ b \in Seq(S)
      /\ Len(b) = Len(s) - i
      /\ \A j \in 1..(Len(s) - i) : b[j] = s[i + j]
  BY SubSeqProperties
<1>3. u = a \o b
  BY DEF RemoveIndex
<1> HIDE DEF a, b, u
<1>4. /\ u \in Seq(S)
      /\ Len(u) = Len(a) + Len(b)
      /\ \A j \in 1..(Len(a) + Len(b)) : u[j] = IF j <= Len(a) THEN a[j] ELSE b[j - Len(a)]
  BY <1>1, <1>2, <1>3, ConcatProperties
<1>5. Len(s) \in Nat /\ i \in Nat /\ 1 <= i /\ i <= Len(s)
  BY LenProperties
<1>6. Len(u) = Len(s) - 1
  BY <1>1, <1>2, <1>4, <1>5
<1>7. ASSUME NEW j \in 1..Len(u) PROVE u[j] = IF j < i THEN s[j] ELSE s[j + 1]
  <2>1. j \in Nat /\ 1 <= j /\ j <= Len(s) - 1
    BY <1>5, <1>6
  <2>2. u[j] = IF j <= i - 1 THEN a[j] ELSE b[j - (i - 1)]
    BY <2>1, <1>1, <1>2, <1>4, <1>5
  <2>3. CASE j < i
    BY <2>1, <2>2, <2>3, <1>1, <1>5
  <2>4. CASE ~(j < i)
    <3>1. j - (i - 1) \in 1..(Len(s) - i) /\ i + (j - (i - 1)) = j + 1
      BY <2>1, <2>4, <1>5
    <3> QED BY <2>1, <2>2, <2>4, <3>1, <1>2, <1>5
  <2> QED BY <2>3, <2>4
<1> QED BY <1>4, <1>6, <1>7 DEF u

\* Without() leaves the other entries, in their order, and no entry of the key.
LEMMA WithoutProperties ==
  ASSUME NEW S, cache \in Seq(S), Keyed(cache), NEW route
  PROVE  /\ Without(route) \in Seq(S)
         /\ Len(Without(route)) <= Len(cache)
         /\ Keyed(Without(route))
         /\ \A j \in 1..Len(Without(route)) : Without(route)[j].route # route
         /\ EntriesOf(route) # {} => Len(Without(route)) = Len(cache) - 1
<1> USE DEF Keyed
<1>1. CASE EntriesOf(route) = {}
  BY <1>1 DEF Without, EntriesOf
<1>2. CASE EntriesOf(route) # {}
  <2> DEFINE i == CHOOSE k \in EntriesOf(route) : TRUE
             u == RemoveIndex(cache, i)
  <2>1. i \in 1..Len(cache) /\ cache[i].route = route
    <3>1. i \in EntriesOf(route)
      BY <1>2
    <3> QED BY <3>1 DEF EntriesOf
  <2>2. Without(route) = u
    BY <1>2 DEF Without, RemoveIndex
  <2> HIDE DEF i
  <2>3. /\ u \in Seq(S)
        /\ Len(u) = Len(cache) - 1
        /\ \A j \in 1..Len(u) : u[j] = IF j < i THEN cache[j] ELSE cache[j + 1]
    BY <2>1, RemoveIndexProperties
  <2> HIDE DEF u
  <2>4. Len(cache) \in Nat
    BY LenProperties
  <2> DEFINE f(j) == IF j < i THEN j ELSE j + 1
  <2>5. ASSUME NEW j \in 1..Len(u)
        PROVE  f(j) \in 1..Len(cache) /\ f(j) # i /\ u[j] = cache[f(j)]
    BY <2>1, <2>3, <2>4
  <2>6. ASSUME NEW j \in 1..Len(u), NEW k \in 1..Len(u), f(j) = f(k) PROVE j = k
    BY <2>1, <2>3, <2>4, <2>6
  <2> HIDE DEF f
  <2>7. Keyed(u)
    BY <2>5, <2>6
  <2>8. \A j \in 1..Len(u) : u[j].route # route
    BY <2>1, <2>5
  <2> QED BY <2>2, <2>3, <2>4, <2>7, <2>8
<1> QED BY <1>1, <1>2

\* An entry of a new key at the end keeps the keys apart.
LEMMA AppendKeyed ==
  ASSUME NEW S, NEW c \in Seq(S), Keyed(c), NEW e \in S,
         \A j \in 1..Len(c) : c[j].route # e.route
  PROVE  /\ Append(c, e) \in Seq(S)
         /\ Len(Append(c, e)) = Len(c) + 1
         /\ Keyed(Append(c, e))
BY AppendProperties DEF Keyed

\* Put() stays within the limit and keeps one entry per key.
LEMMA PutProperties ==
  ASSUME NEW S, cache \in Seq(S), Keyed(cache), NEW e \in S
  PROVE  /\ Put(e) \in Seq(S)
         /\ Keyed(Put(e))
         /\ Len(Put(e)) <= MaxEntries
<1> DEFINE w == Without(e.route)
           all == Append(w, e)
<1>a. w \in Seq(S) /\ Keyed(w) /\ \A j \in 1..Len(w) : w[j].route # e.route
  BY WithoutProperties
<1>1. all \in Seq(S) /\ Keyed(all)
  <2> HIDE DEF w
  <2> QED BY <1>a, AppendKeyed
<1>2. Put(e) = IF Len(all) <= MaxEntries THEN all
               ELSE SubSeq(all, Len(all) - MaxEntries + 1, Len(all))
  BY DEF Put
<1> HIDE DEF all
<1>3. CASE Len(all) <= MaxEntries
  BY <1>1, <1>2, <1>3
<1>4. CASE ~(Len(all) <= MaxEntries)
  <2> DEFINE m == Len(all) - MaxEntries + 1
             u == SubSeq(all, m, Len(all))
  <2>1. Len(all) \in Nat /\ m \in 1..(Len(all) + 1)
    BY <1>1, <1>4, BoundsAssumption
  <2>2. /\ u \in Seq(S)
        /\ Len(u) = IF m <= Len(all) THEN Len(all) - m + 1 ELSE 0
        /\ \A i \in 1..(Len(all) - m + 1) : u[i] = all[m + i - 1]
    BY <1>1, <2>1, SubSeqProperties
  <2>3. Len(u) = MaxEntries
    BY <2>1, <2>2, BoundsAssumption
  <2>4. Keyed(u)
    <3> SUFFICES ASSUME NEW i \in 1..Len(u), NEW j \in 1..Len(u), u[i].route = u[j].route
                 PROVE  i = j
      BY DEF Keyed
    <3>1. u[i] = all[m + i - 1] /\ u[j] = all[m + j - 1]
      BY <2>1, <2>2, <2>3, BoundsAssumption
    <3>2. m + i - 1 \in 1..Len(all) /\ m + j - 1 \in 1..Len(all)
      <4>1. /\ Len(all) \in Nat /\ m \in Nat /\ m >= 1
            /\ i \in Nat /\ 1 <= i /\ j \in Nat /\ 1 <= j
        BY <2>1, <2>3, BoundsAssumption
      <4>2. i <= Len(all) - m + 1 /\ j <= Len(all) - m + 1
        BY <2>1, <2>3, BoundsAssumption
      <4> HIDE DEF m, u
      <4> QED BY <4>1, <4>2
    <3>3. m + i - 1 = m + j - 1
      <4>1. all[m + i - 1].route = all[m + j - 1].route
        BY <3>1
      <4>2. \A x, y \in 1..Len(all) : all[x].route = all[y].route => x = y
        BY <1>1 DEF Keyed
      <4> HIDE DEF m
      <4> QED BY <3>2, <4>1, <4>2
    <3>4. m \in Int /\ i \in Int /\ j \in Int
      BY <2>1, <2>3, BoundsAssumption
    <3> QED BY <3>3, <3>4
  <2> QED BY <1>2, <1>4, <2>2, <2>3, <2>4, BoundsAssumption
<1> QED BY <1>3, <1>4

(* -------------------------- the inductive invariant ----------------------- *)

\* The token was verified after the request came in.
Admitted == {"hit_touch", "auth_touch", "latest", "event", "table", "count", "rows"}

\* What the status of a token says of a request c at place p that presented it.
TokenOK(c, p) ==
    /\ c.before = "active" => status[c.token] # "unknown"
    /\ c.before = "revoked" => status[c.token] = "revoked"
    /\ p \in {"hit", "hit_touch"} => c.outcome = "ok"
    /\ p \in Admitted => c.before # "revoked"
    /\ p \in {"respond", "reply"} =>
          /\ c.outcome = "unauthorized" => ~(c.before = "active" /\ status[c.token] = "active")
          /\ c.outcome # "unauthorized" => c.before # "revoked"

\* What was owed when the request came in still is there to be found.
OwedOK(c) ==
    /\ c.route.kind = "seasons" => \A s \in c.owed : HasData(s)
    /\ c.route.kind \in {"list", "team"} =>
          c.season = c.route.season /\ \A s \in c.owed : s = c.season /\ Archived(s)
    /\ c.route.kind = "current_list" /\ c.owed # {} => \E s \in Seasons : summary[s] > 0
    /\ c.route.kind \notin {"seasons", "list", "team", "current_list"} => c.owed = {}

\* Which routes come to a place, and that nothing was counted before "count".
PlaceOK(c, p) ==
    /\ p = "latest" => c.route.kind \in OfCurrent
    /\ p = "event" => c.route.kind = "pick_list"
    /\ p = "table" => c.route.kind \notin Other
    /\ p = "count" => c.route.kind # "latest_run"
    /\ c.route.kind \in OfSeason => c.season \in Seasons
    /\ c.route.kind \in OfCurrent /\ p \in {"table", "count", "rows"} => c.season \in Seasons
    /\ p \in {"lookup", "auth", "auth_touch", "latest", "event", "table", "count"}
          => c.total = {}

\* What the statements so far have found, against the tables as they are now.
ReadOK(c, p) ==
    /\ p = "rows" /\ c.route.kind = "seasons" =>
          \A s \in c.owed : (\E row \in c.total : row[1] = s) \/ history[s] > 0
    /\ p \in {"count", "rows"} /\ c.route.kind \in {"list", "team"} /\ c.owed # {} =>
          c.table = "history"
    /\ p = "rows" /\ c.route.kind = "list" /\ c.owed # {} =>
          \A row \in c.total : row[1] = c.season /\ row[2] <= history[c.season]
    /\ p = "rows" /\ c.route.kind = "runs" =>
          \A row \in c.total : row[1] = NoSeason /\ row[2] <= runs /\ runs > 0

\* What the middleware is handed.
AnswerOK(c) ==
    /\ c.route.kind = "seasons" /\ c.outcome = "ok" =>
          \A s \in c.owed : \E row \in c.total \cup c.rows : row[1] = s
    /\ c.owed # {} /\ c.outcome # "unauthorized" =>
          c.outcome = "ok" /\ (c.route.kind \in {"list", "team"} => c.rows # {})
    /\ (c.route.kind = "list" /\ c.owed # {}) \/ c.route.kind = "runs" =>
          \A row \in c.total : \E newer \in c.rows : newer[1] = row[1] /\ newer[2] >= row[2]

RequestOK(c, p) ==
    /\ TokenOK(c, p)
    /\ OwedOK(c)
    /\ PlaceOK(c, p)
    /\ ReadOK(c, p)
    /\ p = "respond" => AnswerOK(c)

RequestsOK == \A r \in Requests : pc[r] # "idle" => RequestOK(call[r], pc[r])

\* The tables are never ahead of the results, and the history is not ahead of
\* the summary; if any season has a summary, one of them is the latest.
TablesOK ==
    /\ \A s \in Seasons :
          /\ summary[s] <= results[s]
          /\ history[s] <= results[s]
          /\ summary[s] > 0 => history[s] <= summary[s]
    /\ (\E s \in Seasons : summary[s] > 0) => \E s \in Seasons : IsLatest(s)

IInv == TypeOK /\ CacheBounded /\ TablesOK /\ RequestsOK

CacheOK == cache \in Seq(Entries) /\ Len(cache) <= MaxEntries /\ Keyed(cache)

LEMMA CacheOfIInv == IInv => CacheOK
BY DEF IInv, TypeOK, CacheBounded, CacheOK, Keyed

\* A request that moves without changing what the others, the tables or the
\* tokens are about only has to be in order itself.
LEMMA LocalStep ==
  ASSUME IInv, NEW r \in Requests,
         pc' \in [Requests -> Places], call' \in [Requests -> {<<>>} \cup Call],
         \A q \in Requests \ {r} : pc'[q] = pc[q] /\ call'[q] = call[q],
         UNCHANGED <<tables, status, scenario>>, CacheOK',
         pc'[r] # "idle" => call'[r] \in Call /\ RequestOK(call'[r], pc'[r])
  PROVE  IInv'
<1> USE DEF tables
<1>1. TypeOK'
  BY DEF IInv, TypeOK, CacheOK
<1>2. CacheBounded'
  BY DEF CacheBounded, CacheOK, Keyed
<1>3. TablesOK'
  BY DEF IInv, TablesOK, IsLatest
<1>4. RequestsOK'
  <2> SUFFICES ASSUME NEW q \in Requests, pc'[q] # "idle"
               PROVE  RequestOK(call[q], pc[q])'
    BY DEF RequestsOK
  <2>1. RequestOK(call'[q], pc'[q])
    BY DEF IInv, RequestsOK
  <2>2. TokenOK(call[q], pc[q])'
    BY <2>1 DEF RequestOK, TokenOK
  <2>3. OwedOK(call[q])'
    BY <2>1 DEF RequestOK, OwedOK, HasData, Archived
  <2>4. PlaceOK(call[q], pc[q])'
    BY <2>1 DEF RequestOK, PlaceOK
  <2>5. ReadOK(call[q], pc[q])'
    BY <2>1 DEF RequestOK, ReadOK
  <2>6. (pc[q] = "respond" => AnswerOK(call[q]))'
    BY <2>1 DEF RequestOK, AnswerOK
  <2> QED BY <2>2, <2>3, <2>4, <2>5, <2>6 DEF RequestOK
<1> QED BY <1>1, <1>2, <1>3, <1>4 DEF IInv

\* What the steps of a request at some place may rely on.
LEMMA AtPlace ==
  ASSUME IInv, NEW r \in Requests, pc[r] # "idle"
  PROVE  /\ call[r] \in Call
         /\ RequestOK(call[r], pc[r])
         /\ pc \in [Requests -> Places]
         /\ call \in [Requests -> {<<>>} \cup Call]
BY DEF IInv, TypeOK, RequestsOK

LEMMA RowsTyped ==
  ASSUME NEW table \in Versions, NEW S \in SUBSET Seasons
  PROVE  RowsOf(table, S) \in Rows
<1>1. ASSUME NEW s \in {t \in S : table[t] > 0} PROVE <<s, table[s]>> \in Seasons \X Nat
  BY DEF Versions
<1> QED BY <1>1 DEF RowsOf, Rows

LEMMA RunLogTyped == ASSUME runs \in Nat PROVE RunLog \in Rows
BY DEF RunLog, Rows, NoSeason

(* -------------------------- steps of the middleware ----------------------- *)

LEMMA RequestKeepsIInv ==
  ASSUME IInv, NEW r \in Requests, Request(r) PROVE IInv'
<1>1. PICK route \in scenario.routes, t \in scenario.presented :
         call' = [call EXCEPT ![r] =
                    [route |-> route, token |-> t, season |-> route.season,
                     table |-> "summary", total |-> {}, rows |-> {},
                     outcome |-> "none", owed |-> Owed(route), before |-> status[t]]]
  BY DEF Request
<1>2. route \in Route /\ t \in Tokens
  BY ScenariosAssumption DEF IInv, TypeOK, Scenario
<1>3. Owed(route) \in SUBSET Seasons
  <2>1. route.kind \in {"list", "team"} => route.season \in Seasons
    BY <1>2 DEF Route, OfSeason, OfCurrent, Other
  <2>2. CASE route.kind = "seasons"
    BY <2>2 DEF Owed
  <2>3. CASE route.kind = "current_list"
    BY <2>3 DEF Owed
  <2>4. CASE route.kind \in {"list", "team"}
    BY <2>1, <2>4 DEF Owed
  <2>5. CASE route.kind \notin {"seasons", "current_list", "list", "team"}
    BY <2>5 DEF Owed
  <2> QED BY <2>2, <2>3, <2>4, <2>5
<1>4. status[t] \in {"unknown", "active", "revoked"}
  BY <1>2 DEF IInv, TypeOK
<1>5. route.season \in Seasons \cup {NoSeason}
  BY <1>2 DEF Route
<1> DEFINE d == [route |-> route, token |-> t, season |-> route.season,
                 table |-> "summary", total |-> {}, rows |-> {},
                 outcome |-> "none", owed |-> Owed(route), before |-> status[t]]
<1>6. d \in Call
  BY <1>2, <1>3, <1>4, <1>5 DEF Call, Rows
<1>7. /\ d.route = route /\ d.token = t /\ d.season = route.season /\ d.total = {}
      /\ d.owed = Owed(route) /\ d.before = status[t]
  OBVIOUS
<1>8. /\ pc \in [Requests -> Places] /\ call \in [Requests -> {<<>>} \cup Call]
      /\ pc' = [pc EXCEPT ![r] = "lookup"] /\ call' = [call EXCEPT ![r] = d]
      /\ UNCHANGED <<tables, status, cache, scenario>>
  BY <1>1 DEF IInv, TypeOK, Request, Goto
<1> HIDE DEF d
<1>9. pc' \in [Requests -> Places] /\ call' \in [Requests -> {<<>>} \cup Call]
      /\ pc'[r] = "lookup" /\ call'[r] = d
      /\ \A q \in Requests \ {r} : pc'[q] = pc[q] /\ call'[q] = call[q]
  BY <1>6, <1>8 DEF Places
<1>10. TokenOK(d, "lookup")
  BY <1>7 DEF TokenOK, Admitted
<1>11. OwedOK(d)
  BY <1>7 DEF OwedOK, Owed, IsLatest
<1>12. PlaceOK(d, "lookup") /\ ReadOK(d, "lookup")
  <2>1. route.kind \in OfSeason => route.season \in Seasons
    BY <1>2 DEF Route, OfSeason, OfCurrent, Other
  <2> QED BY <1>7, <2>1 DEF PlaceOK, ReadOK
<1>13. RequestOK(d, "lookup")
  BY <1>10, <1>11, <1>12 DEF RequestOK
<1>14. CacheOK'
  BY <1>8, CacheOfIInv DEF CacheOK, Keyed
<1> QED BY <1>6, <1>8, <1>9, <1>13, <1>14, LocalStep

\* A request that only goes on to another place.
LEMMA MoveStep ==
  ASSUME IInv, NEW r \in Requests, pc[r] # "idle", NEW place \in Places,
         Goto(r, place), call' = call, UNCHANGED <<tables, status, scenario>>, CacheOK',
         RequestOK(call[r], place)
  PROVE  IInv'
<1>1. /\ call[r] \in Call
      /\ pc \in [Requests -> Places] /\ call \in [Requests -> {<<>>} \cup Call]
  BY AtPlace
<1>2. /\ pc' \in [Requests -> Places] /\ call' \in [Requests -> {<<>>} \cup Call]
      /\ pc'[r] = place /\ call'[r] = call[r]
      /\ \A q \in Requests \ {r} : pc'[q] = pc[q] /\ call'[q] = call[q]
  BY <1>1 DEF Goto
<1> QED BY <1>1, <1>2, LocalStep

\* A request that goes on having learnt something.
LEMMA LearnStep ==
  ASSUME IInv, NEW r \in Requests, pc[r] # "idle", NEW place \in Places, NEW d \in Call,
         Goto(r, place), call' = [call EXCEPT ![r] = d],
         UNCHANGED <<tables, status, scenario>>, CacheOK',
         RequestOK(d, place)
  PROVE  IInv'
<1>1. pc \in [Requests -> Places] /\ call \in [Requests -> {<<>>} \cup Call]
  BY AtPlace
<1>2. /\ pc' \in [Requests -> Places] /\ call' \in [Requests -> {<<>>} \cup Call]
      /\ pc'[r] = place /\ call'[r] = d
      /\ \A q \in Requests \ {r} : pc'[q] = pc[q] /\ call'[q] = call[q]
  BY <1>1 DEF Goto
<1> QED BY <1>2, LocalStep

LEMMA CacheUnchanged == ASSUME IInv, cache' = cache PROVE CacheOK'
BY CacheOfIInv DEF CacheOK, Keyed

LEMMA CacheMissKeepsIInv ==
  ASSUME IInv, NEW r \in Requests, CacheMiss(r) PROVE IInv'
<1>1. call[r] \in Call /\ RequestOK(call[r], "lookup")
  BY AtPlace DEF CacheMiss
<1>2. RequestOK(call[r], "auth")
  BY <1>1 DEF RequestOK, TokenOK, PlaceOK, ReadOK, Admitted
<1>3. CacheOK'
  <2> DEFINE w == Without(call[r].route)
  <2>1. w \in Seq(Entries) /\ Len(w) <= Len(cache) /\ Keyed(w)
    BY CacheOfIInv, WithoutProperties DEF CacheOK
  <2>2. cache' = w
    BY DEF CacheMiss
  <2> HIDE DEF w
  <2>3. Len(cache) \in Nat /\ Len(cache) <= MaxEntries /\ Len(w) \in Nat
    BY <2>1, CacheOfIInv, LenProperties DEF CacheOK
  <2> QED BY <2>1, <2>2, <2>3, BoundsAssumption DEF CacheOK, Keyed
<1> QED BY <1>2, <1>3, MoveStep DEF CacheMiss, Places

LEMMA CacheHitKeepsIInv ==
  ASSUME IInv, NEW r \in Requests, CacheHit(r) PROVE IInv'
<1> DEFINE w == Without(call[r].route)
<1>1. call[r] \in Call /\ RequestOK(call[r], "lookup")
  BY AtPlace DEF CacheHit
<1>2. PICK i \in EntriesOf(call[r].route) :
         /\ cache' = Append(w, cache[i])
         /\ call' = [call EXCEPT ![r].total = cache[i].total, ![r].rows = cache[i].rows,
                                 ![r].outcome = cache[i].outcome]
  BY DEF CacheHit
<1>3. cache[i] \in Entries /\ cache[i].route = call[r].route
  BY CacheOfIInv DEF CacheOK, EntriesOf
<1>4. /\ w \in Seq(Entries) /\ Keyed(w) /\ Len(w) = Len(cache) - 1
      /\ \A j \in 1..Len(w) : w[j].route # cache[i].route
  BY <1>3, CacheOfIInv, WithoutProperties DEF CacheOK
<1> HIDE DEF w
<1>5. CacheOK'
  <2>1. /\ Append(w, cache[i]) \in Seq(Entries) /\ Keyed(Append(w, cache[i]))
        /\ Len(Append(w, cache[i])) = Len(w) + 1
    BY <1>3, <1>4, AppendKeyed
  <2>2. Len(cache) \in Nat /\ Len(cache) <= MaxEntries
    BY CacheOfIInv, LenProperties DEF CacheOK
  <2> QED BY <1>2, <1>4, <2>1, <2>2, BoundsAssumption DEF CacheOK, Keyed
<1> DEFINE d == [call[r] EXCEPT !.total = cache[i].total, !.rows = cache[i].rows,
                                !.outcome = cache[i].outcome]
<1>6. d \in Call
  BY <1>1, <1>3 DEF Call, Entries
<1>7. /\ d.route = call[r].route /\ d.token = call[r].token /\ d.season = call[r].season
      /\ d.outcome = "ok" /\ d.owed = call[r].owed /\ d.before = call[r].before
  BY <1>1, <1>3 DEF Call, Entries
<1>8. call' = [call EXCEPT ![r] = d]
  BY <1>2, AtPlace DEF CacheHit
<1> HIDE DEF d
<1>9. RequestOK(d, "hit")
  BY <1>1, <1>7 DEF RequestOK, TokenOK, OwedOK, PlaceOK, ReadOK, Admitted
<1> QED BY <1>5, <1>6, <1>8, <1>9, LearnStep DEF CacheHit, Places

LEMMA VerifyHitKeepsIInv ==
  ASSUME IInv, NEW r \in Requests, VerifyHit(r) PROVE IInv'
<1>1. call[r] \in Call /\ RequestOK(call[r], "hit")
  BY AtPlace DEF VerifyHit
<1>2. CacheOK' /\ UNCHANGED <<tables, status, scenario>>
  BY CacheUnchanged DEF VerifyHit
<1>3. CASE Verified(r)
  <2>1. PICK place \in {"reply", "hit_touch"} : Goto(r, place) /\ call' = call
    BY <1>3 DEF VerifyHit
  <2>2. RequestOK(call[r], place)
    BY <1>1, <1>3, <2>1 DEF RequestOK, TokenOK, PlaceOK, ReadOK, Admitted, Verified
  <2> QED BY <1>2, <2>1, <2>2, MoveStep DEF VerifyHit, Places
<1>4. CASE ~Verified(r)
  <2> DEFINE d == [call[r] EXCEPT !.total = {}, !.rows = {}, !.outcome = "none"]
  <2>1. d \in Call
    BY <1>1 DEF Call, Rows
  <2>2. /\ d.route = call[r].route /\ d.token = call[r].token /\ d.season = call[r].season
        /\ d.total = {} /\ d.outcome = "none"
        /\ d.owed = call[r].owed /\ d.before = call[r].before
    BY <1>1 DEF Call
  <2>3. call' = [call EXCEPT ![r] = d] /\ Goto(r, "auth")
    BY <1>4, AtPlace DEF VerifyHit
  <2> HIDE DEF d
  <2>4. RequestOK(d, "auth")
    BY <1>1, <2>2 DEF RequestOK, TokenOK, OwedOK, PlaceOK, ReadOK, Admitted
  <2> QED BY <1>2, <2>1, <2>3, <2>4, LearnStep DEF VerifyHit, Places
<1> QED BY <1>3, <1>4

\* The place where a route starts suits what is known of its request.
LEMMA FirstPlaceOK ==
  ASSUME NEW c \in Call, NEW p \in {"auth", "auth_touch"}, RequestOK(c, p),
         c.before # "revoked", NEW place, place = FirstPlace(c.route.kind)
  PROVE  place \in Places /\ RequestOK(c, place)
<1>1. c.total = {}
  BY DEF RequestOK, PlaceOK
<1>2. /\ place \in {"latest", "event", "table", "count", "rows"}
      /\ c.route.kind \in OfCurrent => place = "latest"
      /\ c.route.kind = "pick_list" => place = "event"
      /\ c.route.kind \in {"list", "team"} => place = "table"
      /\ c.route.kind \in {"seasons", "runs"} => place = "count"
      /\ place = "latest" => c.route.kind \in OfCurrent
      /\ place = "event" => c.route.kind = "pick_list"
      /\ place = "table" => c.route.kind \in {"list", "team"}
      /\ place = "count" => c.route.kind \in {"seasons", "runs"}
  <2> DEFINE k == c.route.kind
  <2>1. CASE k \in OfCurrent
    BY <2>1 DEF FirstPlace, OfCurrent
  <2>2. CASE k = "pick_list"
    BY <2>2 DEF FirstPlace, OfCurrent
  <2>3. CASE k \in {"list", "team"}
    BY <2>3 DEF FirstPlace, OfCurrent
  <2>4. CASE k \in {"seasons", "runs"}
    BY <2>4 DEF FirstPlace, OfCurrent
  <2>5. CASE k \notin OfCurrent \cup {"pick_list", "list", "team", "seasons", "runs"}
    BY <2>5 DEF FirstPlace
  <2> QED BY <2>1, <2>2, <2>3, <2>4, <2>5
<1>3. TokenOK(c, place)
  BY <1>2 DEF RequestOK, TokenOK
<1>4. PlaceOK(c, place) /\ ReadOK(c, place)
  BY <1>1, <1>2 DEF RequestOK, PlaceOK, ReadOK, Other, OfCurrent
<1> QED BY <1>2, <1>3, <1>4 DEF RequestOK, Places

LEMMA AuthenticateKeepsIInv ==
  ASSUME IInv, NEW r \in Requests, Authenticate(r) PROVE IInv'
<1>1. call[r] \in Call /\ RequestOK(call[r], "auth")
  BY AtPlace DEF Authenticate
<1>2. CacheOK' /\ UNCHANGED <<tables, status, scenario>>
  BY CacheUnchanged DEF Authenticate
<1>3. call[r].before # "revoked"
  BY <1>1 DEF RequestOK, TokenOK, Authenticate, Verified
<1>4. CASE Goto(r, "auth_touch")
  <2>1. RequestOK(call[r], "auth_touch")
    BY <1>1, <1>3 DEF RequestOK, TokenOK, PlaceOK, ReadOK
  <2> QED BY <1>2, <1>4, <2>1, MoveStep DEF Authenticate, Places
<1>5. CASE Goto(r, FirstPlace(call[r].route.kind))
  <2>1. PICK place : place = FirstPlace(call[r].route.kind)
    OBVIOUS
  <2>2. place \in Places /\ RequestOK(call[r], place)
    BY <1>1, <1>3, <2>1, FirstPlaceOK
  <2>3. Goto(r, place)
    BY <1>5, <2>1
  <2> QED BY <1>2, <2>2, <2>3, MoveStep DEF Authenticate
<1> QED BY <1>4, <1>5 DEF Authenticate

LEMMA TouchKeepsIInv ==
  ASSUME IInv, NEW r \in Requests, Touch(r) PROVE IInv'
<1>1. call[r] \in Call /\ RequestOK(call[r], pc[r])
  BY AtPlace DEF Touch
<1>2. CacheOK' /\ UNCHANGED <<tables, status, scenario>> /\ call' = call
  BY CacheUnchanged DEF Touch
<1>3. CASE pc[r] = "hit_touch"
  <2>1. Goto(r, "reply")
    BY <1>3 DEF Touch, AfterTouch
  <2>2. RequestOK(call[r], "reply")
    BY <1>1, <1>3 DEF RequestOK, TokenOK, PlaceOK, ReadOK, Admitted
  <2> QED BY <1>2, <1>3, <2>1, <2>2, MoveStep DEF Places
<1>4. CASE pc[r] = "auth_touch"
  <2>1. PICK place : place = FirstPlace(call[r].route.kind)
    OBVIOUS
  <2>2. call[r].before # "revoked"
    BY <1>1, <1>4 DEF RequestOK, TokenOK, Admitted
  <2>3. place \in Places /\ RequestOK(call[r], place)
    BY <1>1, <1>4, <2>1, <2>2, FirstPlaceOK
  <2>4. Goto(r, place)
    BY <1>4, <2>1 DEF Touch, AfterTouch
  <2> QED BY <1>2, <1>4, <2>3, <2>4, MoveStep
<1> QED BY <1>3, <1>4 DEF Touch

LEMMA RefuseKeepsIInv ==
  ASSUME IInv, NEW r \in Requests, Refuse(r) PROVE IInv'
<1>1. call[r] \in Call /\ RequestOK(call[r], "auth")
  BY AtPlace DEF Refuse
<1>2. CacheOK' /\ UNCHANGED <<tables, status, scenario>>
  BY CacheUnchanged DEF Refuse
<1> DEFINE d == [call[r] EXCEPT !.outcome = "unauthorized"]
<1>3. d \in Call
  BY <1>1 DEF Call
<1>4. /\ d.route = call[r].route /\ d.token = call[r].token /\ d.season = call[r].season
      /\ d.total = call[r].total /\ d.outcome = "unauthorized"
      /\ d.owed = call[r].owed /\ d.before = call[r].before
  BY <1>1 DEF Call
<1>5. call' = [call EXCEPT ![r] = d] /\ Goto(r, "respond")
  BY AtPlace DEF Refuse
<1> HIDE DEF d
<1>6. RequestOK(d, "respond")
  BY <1>1, <1>4
  DEF RequestOK, TokenOK, OwedOK, PlaceOK, ReadOK, AnswerOK, Admitted, Refuse, Verified
<1> QED BY <1>2, <1>3, <1>5, <1>6, LearnStep DEF Refuse, Places

LEMMA RespondKeepsIInv ==
  ASSUME IInv, NEW r \in Requests, Respond(r) PROVE IInv'
<1>1. call[r] \in Call /\ RequestOK(call[r], "respond")
  BY AtPlace DEF Respond
<1>2. CacheOK'
  <2>1. CASE call[r].outcome = "ok"
    <3>1. Entry(r) \in Entries
      BY <1>1, <2>1, BoundsAssumption DEF Entry, Entries, Call
    <3>2. Put(Entry(r)) \in Seq(Entries) /\ Keyed(Put(Entry(r))) /\ Len(Put(Entry(r))) <= MaxEntries
      BY <3>1, CacheOfIInv, PutProperties DEF CacheOK
    <3>3. cache' = Put(Entry(r)) \/ cache' = cache
      BY DEF Respond
    <3> HIDE DEF Entry, Put
    <3> QED BY <3>2, <3>3, CacheOfIInv DEF CacheOK, Keyed
  <2>2. CASE call[r].outcome # "ok"
    BY <2>2, CacheUnchanged DEF Respond
  <2> QED BY <2>1, <2>2
<1>3. RequestOK(call[r], "reply")
  BY <1>1 DEF RequestOK, TokenOK, PlaceOK, ReadOK, Admitted
<1> QED BY <1>2, <1>3, MoveStep DEF Respond, Places

LEMMA ReplyKeepsIInv ==
  ASSUME IInv, NEW r \in Requests, Reply(r) PROVE IInv'
<1>1. /\ pc \in [Requests -> Places] /\ call \in [Requests -> {<<>>} \cup Call]
      /\ pc[r] # "idle"
  BY AtPlace DEF Reply
<1>2. /\ pc' \in [Requests -> Places] /\ call' \in [Requests -> {<<>>} \cup Call]
      /\ pc'[r] = "idle"
      /\ \A q \in Requests \ {r} : pc'[q] = pc[q] /\ call'[q] = call[q]
  BY <1>1 DEF Reply, Goto, Places
<1>3. CacheOK' /\ UNCHANGED <<tables, status, scenario>>
  BY CacheUnchanged DEF Reply
<1> QED BY <1>2, <1>3, LocalStep

(* --------------------------- steps of the routes -------------------------- *)

\* A route that found rows is in order if they are the ones it owes.
LEMMA FoundStep ==
  ASSUME IInv, NEW r \in Requests, pc[r] = "rows", NEW rows \in Rows, Found(r, rows),
         call[r].route.kind = "seasons" =>
            \A s \in call[r].owed : \E row \in call[r].total \cup rows : row[1] = s,
         call[r].route.kind \in {"list", "team"} /\ call[r].owed # {} => rows # {},
         (call[r].route.kind = "list" /\ call[r].owed # {}) \/ call[r].route.kind = "runs" =>
            \A row \in call[r].total : \E newer \in rows : newer[1] = row[1] /\ newer[2] >= row[2]
  PROVE  IInv'
<1>1. call[r] \in Call /\ RequestOK(call[r], "rows")
  BY AtPlace
<1>2. CacheOK' /\ UNCHANGED <<tables, status, scenario>>
  BY CacheUnchanged DEF Found
<1> DEFINE d == [call[r] EXCEPT !.rows = rows, !.outcome = "ok"]
<1>3. d \in Call
  BY <1>1 DEF Call
<1>4. /\ d.route = call[r].route /\ d.token = call[r].token /\ d.season = call[r].season
      /\ d.total = call[r].total /\ d.rows = rows /\ d.outcome = "ok"
      /\ d.owed = call[r].owed /\ d.before = call[r].before
  BY <1>1 DEF Call
<1>5. call' = [call EXCEPT ![r] = d] /\ Goto(r, "respond")
  BY AtPlace DEF Found
<1> HIDE DEF d
<1>6. TokenOK(d, "respond") /\ OwedOK(d)
  BY <1>1, <1>4 DEF RequestOK, TokenOK, OwedOK, Admitted
<1>7. AnswerOK(d)
  BY <1>4 DEF AnswerOK
<1>8. RequestOK(d, "respond")
  BY <1>1, <1>4, <1>6, <1>7 DEF RequestOK, PlaceOK, ReadOK
<1> QED BY <1>2, <1>3, <1>5, <1>8, LearnStep DEF Places

\* A route that finds nothing is in order if it owes nothing.
LEMMA NotFoundStep ==
  ASSUME IInv, NEW r \in Requests, pc[r] \in {"latest", "event", "rows"}, NotFound(r),
         call[r].owed = {}, call[r].route.kind # "runs"
  PROVE  IInv'
<1>1. call[r] \in Call /\ RequestOK(call[r], pc[r])
  BY AtPlace
<1>2. CacheOK' /\ UNCHANGED <<tables, status, scenario>>
  BY CacheUnchanged DEF NotFound
<1> DEFINE d == [call[r] EXCEPT !.outcome = "not_found"]
<1>3. d \in Call
  BY <1>1 DEF Call
<1>4. /\ d.route = call[r].route /\ d.token = call[r].token /\ d.season = call[r].season
      /\ d.outcome = "not_found" /\ d.owed = {} /\ d.before = call[r].before
  BY <1>1 DEF Call
<1>5. call' = [call EXCEPT ![r] = d] /\ Goto(r, "respond")
  BY AtPlace DEF NotFound
<1> HIDE DEF d
<1>6. TokenOK(d, "respond") /\ OwedOK(d)
  BY <1>1, <1>4 DEF RequestOK, TokenOK, OwedOK, Admitted
<1>7. RequestOK(d, "respond")
  BY <1>1, <1>4, <1>6 DEF RequestOK, PlaceOK, ReadOK, AnswerOK
<1> QED BY <1>2, <1>3, <1>5, <1>7, LearnStep DEF Places

LEMMA RequireLatestSeasonKeepsIInv ==
  ASSUME IInv, NEW r \in Requests, RequireLatestSeason(r) PROVE IInv'
<1>1. /\ call[r] \in Call /\ RequestOK(call[r], "latest")
      /\ call[r].route.kind \in {"current_list", "current_team"}
  <2>1. call[r] \in Call /\ RequestOK(call[r], "latest")
    BY AtPlace DEF RequireLatestSeason
  <2> QED BY <2>1 DEF RequestOK, PlaceOK, OfCurrent
<1>2. ASSUME NEW s \in Seasons, IsLatest(s),
             call' = [call EXCEPT ![r].season = s], Goto(r, "table"),
             UNCHANGED <<tables, status, cache, scenario>>
      PROVE  IInv'
  <2> DEFINE d == [call[r] EXCEPT !.season = s]
  <2>1. d \in Call
    BY <1>1 DEF Call
  <2>2. /\ d.route = call[r].route /\ d.token = call[r].token /\ d.season = s
        /\ d.total = call[r].total /\ d.outcome = call[r].outcome
        /\ d.owed = call[r].owed /\ d.before = call[r].before
    BY <1>1 DEF Call
  <2>3. call' = [call EXCEPT ![r] = d]
    BY <1>2, AtPlace DEF RequireLatestSeason
  <2> HIDE DEF d
  <2>4. RequestOK(d, "table")
    BY <1>1, <2>2 DEF RequestOK, TokenOK, OwedOK, PlaceOK, ReadOK, Admitted, OfSeason,
         OfCurrent, Other
  <2> QED BY <1>2, <2>1, <2>3, <2>4, CacheUnchanged, LearnStep DEF RequireLatestSeason, Places
<1>3. ASSUME \A s \in Seasons : summary[s] = 0, NotFound(r) PROVE IInv'
  <2>1. call[r].owed = {}
    BY <1>1, <1>3 DEF RequestOK, OwedOK
  <2> QED BY <1>1, <1>3, <2>1, NotFoundStep DEF RequireLatestSeason
<1> QED BY <1>2, <1>3 DEF RequireLatestSeason

LEMMA FindEventKeepsIInv ==
  ASSUME IInv, NEW r \in Requests, FindEvent(r) PROVE IInv'
<1>1. /\ call[r] \in Call /\ RequestOK(call[r], "event")
      /\ call[r].route.kind = "pick_list"
  <2>1. call[r] \in Call /\ RequestOK(call[r], "event")
    BY AtPlace DEF FindEvent
  <2> QED BY <2>1 DEF RequestOK, PlaceOK
<1>2. CASE Goto(r, "table") /\ UNCHANGED <<tables, status, cache, scenario, call>>
  <2>1. RequestOK(call[r], "table")
    BY <1>1 DEF RequestOK, TokenOK, PlaceOK, ReadOK, Admitted, OfSeason,
         OfCurrent, Other
  <2> QED BY <1>2, <2>1, CacheUnchanged, MoveStep DEF FindEvent, Places
<1>3. CASE results[call[r].season] = 0 /\ NotFound(r)
  <2>1. call[r].owed = {}
    BY <1>1 DEF RequestOK, OwedOK
  <2> QED BY <1>1, <1>3, <2>1, NotFoundStep DEF FindEvent
<1> QED BY <1>2, <1>3 DEF FindEvent

LEMMA SeasonModelKeepsIInv ==
  ASSUME IInv, NEW r \in Requests, SeasonModel(r) PROVE IInv'
<1>1. call[r] \in Call /\ RequestOK(call[r], "table")
  BY AtPlace DEF SeasonModel
<1> DEFINE k == call[r].route.kind
           table == IF IsLatest(call[r].season) THEN "summary" ELSE "history"
           place == IF k \in {"list", "current_list"} THEN "count" ELSE "rows"
           d == [call[r] EXCEPT !.table = table]
<1>2. d \in Call
  BY <1>1 DEF Call
<1>3. /\ d.route = call[r].route /\ d.token = call[r].token /\ d.season = call[r].season
      /\ d.table = table /\ d.total = {} /\ d.outcome = call[r].outcome
      /\ d.owed = call[r].owed /\ d.before = call[r].before
  BY <1>1 DEF Call, RequestOK, PlaceOK
<1>4. call' = [call EXCEPT ![r] = d] /\ Goto(r, place)
  BY AtPlace DEF SeasonModel
<1>5. k \in {"list", "team"} /\ call[r].owed # {} => table = "history"
  <2> SUFFICES ASSUME k \in {"list", "team"}, call[r].owed # {} PROVE ~IsLatest(call[r].season)
    OBVIOUS
  <2>1. Archived(call[r].season)
    BY <1>1 DEF RequestOK, OwedOK
  <2>2. call[r].season \in Seasons
    BY <1>1 DEF RequestOK, OwedOK, Call
  <2>3. PICK t \in Seasons : t > call[r].season /\ summary[t] > 0
    BY <2>1 DEF Archived
  <2>4. t \in Nat /\ call[r].season \in Nat /\ ~(t <= call[r].season)
    BY <2>2, <2>3, SeasonsAssumption
  <2> QED BY <2>3, <2>4 DEF IsLatest
<1>6. k \notin Other /\ k \notin {"seasons", "runs", "latest_run"}
  BY <1>1 DEF RequestOK, PlaceOK, Other
<1> HIDE DEF table
<1>7. ASSUME NEW p \in {"count", "rows"} PROVE RequestOK(d, p)
  <2> HIDE DEF d
  <2>1. TokenOK(d, p) /\ OwedOK(d)
    BY <1>1, <1>3 DEF RequestOK, TokenOK, OwedOK, Admitted
  <2>2. PlaceOK(d, p) /\ ReadOK(d, p)
    BY <1>1, <1>3, <1>5, <1>6 DEF RequestOK, PlaceOK, ReadOK
  <2> QED BY <2>1, <2>2 DEF RequestOK
<1> HIDE DEF d
<1>8. place \in {"count", "rows"}
  OBVIOUS
<1>9. PICK p \in {"count", "rows"} : p = place
  BY <1>8
<1> QED BY <1>2, <1>4, <1>7, <1>9, CacheUnchanged, LearnStep DEF SeasonModel, Places

LEMMA SeasonRowsTyped ==
  ASSUME IInv, NEW r \in Requests, pc[r] \in {"count", "rows"},
         call[r].route.kind \notin Other
  PROVE  SeasonRows(r) \in Rows
<1>1. /\ call[r] \in Call /\ RequestOK(call[r], pc[r])
      /\ summary \in Versions /\ history \in Versions
  BY AtPlace DEF IInv, TypeOK
<1>2. call[r].route.kind \in OfSeason \cup OfCurrent
  BY <1>1 DEF Call, Route
<1>3. {call[r].season} \in SUBSET Seasons
  BY <1>1, <1>2 DEF RequestOK, PlaceOK
<1> QED BY <1>1, <1>3, RowsTyped DEF SeasonRows

\* A request that is owed an archived season reads its one row.
LEMMA OwedRows ==
  ASSUME IInv, NEW r \in Requests, pc[r] \in {"count", "rows"},
         call[r].route.kind \in {"list", "team"}, call[r].owed # {}
  PROVE  /\ call[r].season \in Seasons
         /\ history[call[r].season] \in Nat /\ history[call[r].season] > 0
         /\ SeasonRows(r) = {<<call[r].season, history[call[r].season]>>}
<1>1. call[r] \in Call /\ RequestOK(call[r], pc[r]) /\ history \in Versions
  BY AtPlace DEF IInv, TypeOK
<1>2. call[r].season \in Seasons /\ history[call[r].season] > 0
  BY <1>1 DEF RequestOK, OwedOK, Call, Archived
<1>3. call[r].table = "history"
  BY <1>1 DEF RequestOK, ReadOK
<1> QED BY <1>1, <1>2, <1>3 DEF SeasonRows, RowsOf, Versions

LEMMA CountRowsKeepsIInv ==
  ASSUME IInv, NEW r \in Requests, CountRows(r) PROVE IInv'
<1>1. call[r] \in Call /\ RequestOK(call[r], "count")
  BY AtPlace DEF CountRows
<1>2. /\ summary \in Versions /\ history \in Versions /\ runs \in Nat
  BY DEF IInv, TypeOK
<1>3. PICK total :
         total = CASE call[r].route.kind = "seasons" -> SeasonsListed("count")
                   [] call[r].route.kind = "runs" -> RunLog
                   [] OTHER -> SeasonRows(r)
  OBVIOUS
<1>4. /\ call[r].route.kind = "seasons" => total = RowsOf(summary, Seasons)
      /\ call[r].route.kind = "runs" => total = RunLog
      /\ call[r].route.kind \notin {"seasons", "runs"} => total = SeasonRows(r)
  BY <1>3 DEF SeasonsListed
<1>5. total \in Rows
  <2>1. RowsOf(summary, Seasons) \in Rows /\ RunLog \in Rows
    BY <1>2, RowsTyped, RunLogTyped
  <2>2. CASE call[r].route.kind \notin Other
    BY <1>4, <2>2, SeasonRowsTyped DEF CountRows, Other
  <2>3. CASE call[r].route.kind \in Other
    <3>1. call[r].route.kind # "latest_run"
      BY <1>1 DEF RequestOK, PlaceOK
    <3> QED BY <1>4, <2>1, <2>3, <3>1 DEF Other
  <2> QED BY <2>2, <2>3
<1> DEFINE d == [call[r] EXCEPT !.total = total]
<1>6. d \in Call
  BY <1>1, <1>5 DEF Call
<1>7. /\ d.route = call[r].route /\ d.token = call[r].token /\ d.season = call[r].season
      /\ d.table = call[r].table /\ d.total = total /\ d.outcome = call[r].outcome
      /\ d.owed = call[r].owed /\ d.before = call[r].before
  BY <1>1 DEF Call
<1>8. call' = [call EXCEPT ![r] = d] /\ Goto(r, "rows")
  BY <1>3, AtPlace DEF CountRows
<1> HIDE DEF d
<1>9. TokenOK(d, "rows") /\ OwedOK(d) /\ PlaceOK(d, "rows")
  BY <1>1, <1>7 DEF RequestOK, TokenOK, OwedOK, PlaceOK, Admitted
<1>10. ASSUME d.route.kind = "seasons", NEW s \in d.owed
       PROVE  (\E row \in d.total : row[1] = s) \/ history[s] > 0
  <2>1. s \in Seasons /\ HasData(s)
    BY <1>1, <1>7, <1>10 DEF RequestOK, OwedOK, Call
  <2>2. CASE summary[s] > 0
    <3>1. <<s, summary[s]>> \in d.total
      BY <1>4, <1>7, <1>10, <2>1, <2>2 DEF RowsOf
    <3> QED BY <3>1
  <2> QED BY <2>1, <2>2 DEF HasData
<1>11. ASSUME d.route.kind = "list", d.owed # {}, NEW row \in d.total
       PROVE  row[1] = d.season /\ row[2] <= history[d.season]
  <2>1. /\ SeasonRows(r) = {<<d.season, history[d.season]>>}
        /\ history[d.season] \in Nat
    BY <1>7, <1>11, OwedRows DEF CountRows
  <2> QED BY <1>4, <1>7, <1>11, <2>1
<1>12. ASSUME d.route.kind = "runs", NEW row \in d.total
       PROVE  row[1] = NoSeason /\ row[2] <= runs /\ runs > 0
  BY <1>2, <1>4, <1>7, <1>12 DEF RunLog
<1>13. d.route.kind \in {"list", "team"} /\ d.owed # {} => d.table = "history"
  BY <1>1, <1>7 DEF RequestOK, ReadOK
<1>14. RequestOK(d, "rows")
  <2>1. ReadOK(d, "rows")
    BY <1>10, <1>11, <1>12, <1>13 DEF ReadOK
  <2> QED BY <1>9, <2>1 DEF RequestOK
<1> QED BY <1>6, <1>8, <1>14, CacheUnchanged, LearnStep DEF CountRows, Places

LEMMA ReadSeasonRowsKeepsIInv ==
  ASSUME IInv, NEW r \in Requests, ReadPage(r) \/ ReadTeam(r) PROVE IInv'
<1>1. /\ pc[r] = "rows" /\ call[r] \in Call /\ RequestOK(call[r], "rows")
      /\ call[r].route.kind \in {"list", "current_list", "pick_list", "team", "current_team"}
  BY AtPlace DEF ReadPage, ReadTeam
<1>2. PICK rows : rows = SeasonRows(r)
  OBVIOUS
<1>3. rows \in Rows
  BY <1>1, <1>2, SeasonRowsTyped DEF Other
<1>4. ASSUME call[r].route.kind \in {"list", "team"}, call[r].owed # {}
      PROVE  /\ rows # {}
             /\ call[r].route.kind = "list" =>
                   \A row \in call[r].total :
                      \E newer \in rows : newer[1] = row[1] /\ newer[2] >= row[2]
  <2>1. /\ rows = {<<call[r].season, history[call[r].season]>>}
        /\ history[call[r].season] \in Nat
    BY <1>1, <1>2, <1>4, OwedRows
  <2>2. ASSUME call[r].route.kind = "list", NEW row \in call[r].total
        PROVE  row[1] = call[r].season /\ row[2] \in Nat /\ row[2] <= history[call[r].season]
    <3>1. row \in (Seasons \cup {NoSeason}) \X Nat
      BY <1>1, <2>2 DEF Call, Rows
    <3> QED BY <1>1, <1>4, <2>2, <3>1 DEF RequestOK, ReadOK
  <2>3. ASSUME call[r].route.kind = "list", NEW row \in call[r].total
        PROVE  \E newer \in rows : newer[1] = row[1] /\ newer[2] >= row[2]
    <3>1. <<call[r].season, history[call[r].season]>> \in rows
      BY <2>1
    <3>2. history[call[r].season] >= row[2]
      BY <2>1, <2>2, <2>3
    <3> QED BY <2>2, <2>3, <3>1, <3>2
  <2> QED BY <2>1, <2>3
<1>5. CASE Found(r, rows)
  BY <1>1, <1>3, <1>4, <1>5, FoundStep
<1>6. CASE rows = {} /\ NotFound(r) /\ call[r].route.kind \in {"team", "current_team"}
  <2>1. call[r].owed = {}
    BY <1>1, <1>4, <1>6 DEF RequestOK, OwedOK
  <2> QED BY <1>1, <1>6, <2>1, NotFoundStep
<1> QED BY <1>2, <1>5, <1>6 DEF ReadPage, ReadTeam

LEMMA ReadTeamEventsKeepsIInv ==
  ASSUME IInv, NEW r \in Requests, ReadTeamEvents(r) PROVE IInv'
<1>1. /\ pc[r] = "rows" /\ call[r] \in Call /\ RequestOK(call[r], "rows")
      /\ call[r].route.kind \in {"trend", "awards"}
  BY AtPlace DEF ReadTeamEvents
<1>2. call[r].owed = {}
  BY <1>1 DEF RequestOK, OwedOK
<1>3. CASE NotFound(r)
  BY <1>1, <1>2, <1>3, NotFoundStep
<1>4. CASE Found(r, RowsOf(results, {call[r].season}))
  <2>1. {call[r].season} \in SUBSET Seasons /\ results \in Versions
    BY <1>1 DEF RequestOK, PlaceOK, OfSeason, IInv, TypeOK
  <2>2. PICK rows : rows = RowsOf(results, {call[r].season})
    OBVIOUS
  <2>3. rows \in Rows
    BY <2>1, <2>2, RowsTyped
  <2> QED BY <1>1, <1>2, <1>4, <2>2, <2>3, FoundStep
<1> QED BY <1>3, <1>4 DEF ReadTeamEvents

LEMMA ReadSeasonsKeepsIInv ==
  ASSUME IInv, NEW r \in Requests, ReadSeasons(r) PROVE IInv'
<1>1. /\ pc[r] = "rows" /\ call[r] \in Call /\ RequestOK(call[r], "rows")
      /\ call[r].route.kind = "seasons"
  BY AtPlace DEF ReadSeasons
<1>2. PICK rows : rows = RowsOf(history, Seasons)
  OBVIOUS
<1>3. Found(r, rows)
  BY <1>2 DEF ReadSeasons, SeasonsListed
<1>4. rows \in Rows
  BY <1>2, RowsTyped DEF IInv, TypeOK
<1>5. ASSUME NEW s \in call[r].owed PROVE \E row \in call[r].total \cup rows : row[1] = s
  <2>1. CASE history[s] > 0
    <3>1. s \in Seasons
      BY <1>1 DEF Call
    <3>2. <<s, history[s]>> \in rows
      BY <1>2, <2>1, <3>1 DEF RowsOf
    <3> QED BY <3>2
  <2>2. CASE \E row \in call[r].total : row[1] = s
    BY <2>2
  <2> QED BY <1>1, <2>1, <2>2 DEF RequestOK, ReadOK
<1> QED BY <1>1, <1>3, <1>4, <1>5, FoundStep

LEMMA ReadRunsKeepsIInv ==
  ASSUME IInv, NEW r \in Requests, ReadRuns(r) PROVE IInv'
<1>1. /\ pc[r] = "rows" /\ call[r] \in Call /\ RequestOK(call[r], "rows")
      /\ call[r].route.kind \in {"runs", "latest_run"}
  BY AtPlace DEF ReadRuns
<1>2. call[r].owed = {} /\ runs \in Nat
  BY <1>1 DEF RequestOK, OwedOK, IInv, TypeOK
<1>3. CASE call[r].route.kind = "latest_run" /\ NotFound(r)
  BY <1>1, <1>2, <1>3, NotFoundStep
<1>4. CASE Found(r, RunLog)
  <2>1. PICK rows : rows = RunLog
    OBVIOUS
  <2>2. ASSUME call[r].route.kind = "runs", NEW row \in call[r].total
        PROVE  \E newer \in rows : newer[1] = row[1] /\ newer[2] >= row[2]
    <3>1. row[1] = NoSeason /\ row[2] <= runs /\ runs > 0
      BY <1>1, <2>2 DEF RequestOK, ReadOK
    <3>2. row[2] \in Nat
      BY <1>1, <2>2 DEF Call, Rows
    <3>3. <<NoSeason, runs>> \in rows
      BY <2>1, <3>1 DEF RunLog
    <3> QED BY <1>2, <3>1, <3>2, <3>3
  <2> QED BY <1>1, <1>2, <1>4, <2>1, <2>2, RunLogTyped, FoundStep
<1> QED BY <1>3, <1>4 DEF ReadRuns

(* ------------------- ingestion, management and the clock ------------------ *)

\* Changes of the tables that no request has to fear.
TablesGrow ==
    /\ \A s \in Seasons : HasData(s) => HasData(s)'
    /\ \A s \in Seasons : Archived(s) => Archived(s)'
    /\ (\E s \in Seasons : summary[s] > 0) => \E s \in Seasons : summary'[s] > 0
    /\ \A s \in Seasons : history[s] <= history'[s]
    /\ runs <= runs'

LEMMA IngestStep ==
  ASSUME IInv, results' \in Versions, summary' \in Versions, history' \in Versions,
         runs' \in Nat, TablesOK', TablesGrow, UNCHANGED <<status, cache, scenario, pc, call>>
  PROVE  IInv'
<1>1. TypeOK' /\ CacheBounded'
  BY DEF IInv, TypeOK, CacheBounded
<1>2. RequestsOK'
  <2> SUFFICES ASSUME NEW r \in Requests, pc[r] # "idle"
               PROVE  RequestOK(call[r], pc[r])'
    BY DEF RequestsOK
  <2>1. call[r] \in Call /\ RequestOK(call[r], pc[r])
    BY AtPlace
  <2>2. TokenOK(call[r], pc[r])'
    BY <2>1 DEF RequestOK, TokenOK
  <2>3. OwedOK(call[r])'
    <3>1. call[r].owed \subseteq Seasons
      BY <2>1 DEF Call
    <3>2. OwedOK(call[r])
      BY <2>1 DEF RequestOK
    <3>3. call' = call
      OBVIOUS
    <3>4. call[r].route.kind = "seasons" => \A s \in call[r].owed : HasData(s)'
      BY <3>1, <3>2 DEF OwedOK, TablesGrow
    <3>5. call[r].route.kind \in {"list", "team"} =>
            call[r].season = call[r].route.season
            /\ \A s \in call[r].owed : s = call[r].season /\ Archived(s)'
      BY <3>1, <3>2 DEF OwedOK, TablesGrow
    <3>6. call[r].route.kind = "current_list" /\ call[r].owed # {}
            => \E s \in Seasons : summary'[s] > 0
      BY <3>2 DEF OwedOK, TablesGrow
    <3> QED BY <3>2, <3>3, <3>4, <3>5, <3>6 DEF OwedOK
  <2>4. PlaceOK(call[r], pc[r])'
    BY <2>1 DEF RequestOK, PlaceOK
  <2>5. ReadOK(call[r], pc[r])'
    <3> USE DEF RequestOK, ReadOK
    <3>1. ASSUME pc[r] = "rows", call[r].route.kind = "seasons", NEW s \in call[r].owed
          PROVE  (\E row \in call[r].total : row[1] = s) \/ history'[s] > 0
      <4>1. s \in Seasons /\ history[s] \in Nat /\ history'[s] \in Nat /\ history[s] <= history'[s]
        BY <2>1, <3>1 DEF Call, TablesGrow, IInv, TypeOK, Versions
      <4> QED BY <2>1, <3>1, <4>1
    <3>2. ASSUME pc[r] = "rows", call[r].route.kind = "list", call[r].owed # {},
                 NEW row \in call[r].total
          PROVE  row[1] = call[r].season /\ row[2] <= history'[call[r].season]
      <4>1. row[1] = call[r].season /\ row[2] <= history[call[r].season] /\ row[2] \in Nat
        BY <2>1, <3>2 DEF Call, Rows
      <4>2. call[r].season \in Seasons
        BY <2>1, <3>2 DEF PlaceOK, OfSeason
      <4>3. /\ history[call[r].season] \in Nat /\ history'[call[r].season] \in Nat
            /\ history[call[r].season] <= history'[call[r].season]
        BY <4>2 DEF TablesGrow, IInv, TypeOK, Versions
      <4> QED BY <4>1, <4>3
    <3>3. ASSUME pc[r] = "rows", call[r].route.kind = "runs", NEW row \in call[r].total
          PROVE  row[1] = NoSeason /\ row[2] <= runs' /\ runs' > 0
      <4>1. row[1] = NoSeason /\ row[2] <= runs /\ runs > 0 /\ row[2] \in Nat
        BY <2>1, <3>3 DEF Call, Rows
      <4> QED BY <4>1 DEF TablesGrow, IInv, TypeOK
    <3>4. pc[r] \in {"count", "rows"} /\ call[r].route.kind \in {"list", "team"}
            /\ call[r].owed # {} => call[r].table = "history"
      BY <2>1
    <3>5. pc' = pc /\ call' = call
      OBVIOUS
    <3> HIDE DEF RequestOK
    <3> QED BY <3>1, <3>2, <3>3, <3>4, <3>5
  <2>6. (pc[r] = "respond" => AnswerOK(call[r]))'
    BY <2>1 DEF RequestOK, AnswerOK
  <2> QED BY <2>2, <2>3, <2>4, <2>5, <2>6 DEF RequestOK
<1> QED BY <1>1, <1>2 DEF IInv

LEMMA StartRefreshRunKeepsIInv ==
  ASSUME IInv, StartRefreshRun PROVE IInv'
<1>1. runs \in Nat /\ runs' = runs + 1
  BY DEF StartRefreshRun, IInv, TypeOK
<1>2. UNCHANGED <<results, summary, history, status, cache, scenario, pc, call>>
  BY DEF StartRefreshRun, NoRequestMoves
<1>3. results \in Versions /\ summary \in Versions /\ history \in Versions
  BY DEF IInv, TypeOK
<1>4. TablesOK'
  BY <1>2 DEF IInv, TablesOK, IsLatest
<1>5. TablesGrow
  BY <1>1, <1>2, <1>3 DEF TablesGrow, HasData, Archived, Versions
<1> QED BY <1>1, <1>2, <1>3, <1>4, <1>5, IngestStep

LEMMA RecordEventResultsKeepsIInv ==
  ASSUME IInv, NEW s \in Seasons, RecordEventResults(s) PROVE IInv'
<1>1. results \in Versions /\ summary \in Versions /\ history \in Versions /\ runs \in Nat
  BY DEF IInv, TypeOK
<1>2. UNCHANGED <<summary, history, runs, status, cache, scenario, pc, call>>
  BY DEF RecordEventResults, NoRequestMoves
<1>3. /\ results' \in Versions
      /\ \A t \in Seasons : results[t] <= results'[t]
  BY <1>1 DEF RecordEventResults, Versions
<1>4. TablesOK'
  BY <1>1, <1>2, <1>3 DEF IInv, TablesOK, IsLatest, Versions
<1>5. TablesGrow
  BY <1>1, <1>2 DEF TablesGrow, HasData, Archived, Versions
<1> QED BY <1>1, <1>2, <1>3, <1>4, <1>5, IngestStep

LEMMA RefreshKeepsIInv ==
  ASSUME IInv, NEW s \in Seasons, RefreshTeamSeasonSummary(s) PROVE IInv'
<1>1. results \in Versions /\ summary \in Versions /\ history \in Versions /\ runs \in Nat
  BY DEF IInv, TypeOK
<1>2. UNCHANGED <<results, history, runs, status, cache, scenario, pc, call>>
  BY DEF RefreshTeamSeasonSummary, NoRequestMoves
<1>3. /\ summary' \in Versions
      /\ summary'[s] = results[s] /\ summary'[s] > 0
      /\ \A t \in Seasons \ {s} : summary'[t] = summary[t]
  BY <1>1 DEF RefreshTeamSeasonSummary, Versions
<1>4. TablesOK'
  <2>1. \A t \in Seasons : /\ summary'[t] <= results[t]
                           /\ history[t] <= results[t]
                           /\ summary'[t] > 0 => history[t] <= summary'[t]
    BY <1>1, <1>3 DEF IInv, TablesOK, Versions
  <2>2. \E t \in Seasons : IsLatest(t)'
    <3>1. CASE \E m \in Seasons : IsLatest(m)
      <4>1. PICK m \in Seasons : IsLatest(m)
        BY <3>1
      <4>2. m \in Nat /\ s \in Nat
        BY SeasonsAssumption
      <4>3. CASE s >= m
        <5>1. ASSUME NEW t \in Seasons, summary'[t] > 0 PROVE t <= s
          <6>1. CASE t = s
            BY <6>1, <4>2
          <6>2. CASE t # s
            <7>1. t <= m /\ t \in Nat
              BY <4>1, <5>1, <6>2, <1>3, SeasonsAssumption DEF IsLatest
            <7> QED BY <4>2, <4>3, <7>1
          <6> QED BY <6>1, <6>2
        <5>2. IsLatest(s)'
          BY <5>1, <1>3 DEF IsLatest
        <5> QED BY <5>2
      <4>4. CASE s < m
        <5>1. ASSUME NEW t \in Seasons, summary'[t] > 0 PROVE t <= m
          <6>1. CASE t = s
            BY <6>1, <4>2, <4>4
          <6>2. CASE t # s
            BY <4>1, <5>1, <6>2, <1>3 DEF IsLatest
          <6> QED BY <6>1, <6>2
        <5>2. summary'[m] > 0
          BY <4>1, <4>2, <4>4, <1>3 DEF IsLatest
        <5>3. IsLatest(m)'
          BY <5>1, <5>2 DEF IsLatest
        <5> QED BY <5>3
      <4> QED BY <4>2, <4>3, <4>4
    <3>2. CASE \A m \in Seasons : ~(summary[m] > 0)
      <4>1. ASSUME NEW t \in Seasons, summary'[t] > 0 PROVE t <= s
        BY <3>2, <4>1, <1>3, SeasonsAssumption
      <4>2. IsLatest(s)'
        BY <4>1, <1>3 DEF IsLatest
      <4> QED BY <4>2
    <3> QED BY <3>1, <3>2 DEF IInv, TablesOK
  <2> QED BY <2>1, <2>2, <1>2 DEF TablesOK
<1>5. \A t \in Seasons : summary[t] > 0 => summary'[t] > 0
  BY <1>3
<1>6. TablesGrow
  <2>1. \A t \in Seasons : HasData(t) => HasData(t)'
    BY <1>2, <1>5 DEF HasData
  <2>2. \A t \in Seasons : Archived(t) => Archived(t)'
    BY <1>2, <1>5 DEF Archived
  <2> QED BY <1>1, <1>2, <1>5, <2>1, <2>2 DEF TablesGrow, Versions
<1> QED BY <1>1, <1>2, <1>3, <1>4, <1>6, IngestStep

LEMMA ArchiveKeepsIInv ==
  ASSUME IInv, ArchiveCompletedSeasons PROVE IInv'
<1>1. results \in Versions /\ summary \in Versions /\ history \in Versions /\ runs \in Nat
  BY DEF IInv, TypeOK
<1>2. UNCHANGED <<results, runs, status, cache, scenario, pc, call>>
  BY DEF ArchiveCompletedSeasons, NoRequestMoves
<1>3. /\ summary' \in Versions /\ history' \in Versions
      /\ \A s \in Seasons : IsLatest(s) => summary'[s] = summary[s] /\ history'[s] = history[s]
      /\ \A s \in Seasons : ~IsLatest(s) =>
            /\ summary'[s] = 0
            /\ history'[s] = IF summary[s] > 0 THEN summary[s] ELSE history[s]
  BY <1>1 DEF ArchiveCompletedSeasons, Versions
<1>4. ASSUME NEW m \in Seasons, IsLatest(m) PROVE summary'[m] > 0 /\ IsLatest(m)'
  <2>1. summary'[m] > 0
    BY <1>3, <1>4 DEF IsLatest
  <2>2. ASSUME NEW t \in Seasons, summary'[t] > 0 PROVE t <= m
    BY <1>3, <1>4, <2>2 DEF IsLatest
  <2> QED BY <2>1, <2>2 DEF IsLatest
<1>5. \A s \in Seasons : /\ history[s] <= history'[s]
                         /\ summary'[s] <= results[s]
                         /\ history'[s] <= results[s]
                         /\ summary'[s] > 0 => history'[s] <= summary'[s]
  BY <1>1, <1>3 DEF IInv, TablesOK, Versions
<1>6. TablesOK'
  <2>1. ASSUME NEW s \in Seasons, summary'[s] > 0 PROVE \E m \in Seasons : IsLatest(m)'
    BY <1>3, <1>4, <2>1
  <2> QED BY <1>2, <1>5, <2>1 DEF TablesOK
<1>7. TablesGrow
  <2>1. ASSUME NEW s \in Seasons, HasData(s) PROVE HasData(s)'
    BY <1>1, <1>3, <2>1 DEF HasData, Versions
  <2>2. ASSUME NEW s \in Seasons, Archived(s) PROVE Archived(s)'
    <3>1. PICK t \in Seasons : t > s /\ summary[t] > 0
      BY <2>2 DEF Archived
    <3>2. PICK m \in Seasons : IsLatest(m)
      BY <3>1 DEF IInv, TablesOK
    <3>3. m > s
      <4>1. t <= m /\ t \in Nat /\ m \in Nat /\ s \in Nat
        BY <3>1, <3>2, SeasonsAssumption DEF IsLatest
      <4> QED BY <3>1, <4>1
    <3>4. history'[s] > 0
      <4>1. history[s] > 0 /\ history[s] \in Nat /\ history'[s] \in Nat /\ history[s] <= history'[s]
        BY <1>1, <1>3, <1>5, <2>2 DEF Archived, Versions
      <4> QED BY <4>1
    <3> QED BY <1>4, <3>2, <3>3, <3>4 DEF Archived
  <2>3. (\E s \in Seasons : summary[s] > 0) => \E s \in Seasons : summary'[s] > 0
    BY <1>4 DEF IInv, TablesOK
  <2> QED BY <1>1, <1>2, <1>5, <2>1, <2>2, <2>3 DEF TablesGrow
<1> QED BY <1>1, <1>2, <1>3, <1>6, <1>7, IngestStep

\* Tokens only go from unknown to active to revoked.
TokensAge ==
    \A t \in Tokens :
        \/ status'[t] = status[t]
        \/ status[t] = "unknown" /\ status'[t] = "active"
        \/ status[t] = "active" /\ status'[t] = "revoked"

LEMMA ManageTokensAge ==
  ASSUME IInv, ManageTokens
  PROVE  /\ status' \in [Tokens -> {"unknown", "active", "revoked"}]
         /\ TokensAge
         /\ UNCHANGED <<tables, cache, scenario, pc, call>>
<1>1. PICK t \in scenario.managed : CreateApiToken(t) \/ RevokeById(t) \/ RevokeByLabel(t)
  BY DEF ManageTokens
<1>2. status \in [Tokens -> {"unknown", "active", "revoked"}]
  BY DEF IInv, TypeOK
<1>3. CASE CreateApiToken(t)
  BY <1>2, <1>3 DEF CreateApiToken, TokensAge
<1>4. CASE RevokeById(t)
  BY <1>2, <1>4 DEF RevokeById, RevokeApiToken, TokensAge
<1>5. CASE RevokeByLabel(t)
  BY <1>2, <1>5 DEF RevokeByLabel, RevokeApiToken, TokensAge
<1> QED BY <1>1, <1>3, <1>4, <1>5

LEMMA ManageTokensKeepsIInv ==
  ASSUME IInv, ManageTokens PROVE IInv'
<1>1. /\ status' \in [Tokens -> {"unknown", "active", "revoked"}]
      /\ TokensAge
      /\ UNCHANGED <<tables, cache, scenario, pc, call>>
  BY ManageTokensAge
<1>2. TypeOK' /\ CacheBounded' /\ TablesOK'
  BY <1>1 DEF IInv, TypeOK, CacheBounded, TablesOK, IsLatest, tables
<1>3. RequestsOK'
  <2> SUFFICES ASSUME NEW r \in Requests, pc[r] # "idle"
               PROVE  RequestOK(call[r], pc[r])'
    BY <1>1 DEF RequestsOK
  <2>1. call[r] \in Call /\ RequestOK(call[r], pc[r])
    BY AtPlace
  <2>2. TokenOK(call[r], pc[r])'
    <3>1. call[r].token \in Tokens
      BY <2>1 DEF Call
    <3> QED BY <1>1, <2>1, <3>1 DEF RequestOK, TokenOK, TokensAge
  <2>3. OwedOK(call[r])'
    BY <1>1, <2>1 DEF RequestOK, OwedOK, HasData, Archived, tables
  <2>4. PlaceOK(call[r], pc[r])' /\ ReadOK(call[r], pc[r])'
    BY <1>1, <2>1 DEF RequestOK, PlaceOK, ReadOK, tables
  <2>5. (pc[r] = "respond" => AnswerOK(call[r]))'
    BY <1>1, <2>1 DEF RequestOK, AnswerOK
  <2> QED BY <2>2, <2>3, <2>4, <2>5 DEF RequestOK
<1> QED BY <1>2, <1>3 DEF IInv

LEMMA TickKeepsIInv ==
  ASSUME IInv, Tick PROVE IInv'
<1>1. CacheOK
  BY CacheOfIInv
<1>2. cache' = [i \in 1..Len(cache) |->
                  [cache[i] EXCEPT !.left = IF @ > 0 THEN @ - 1 ELSE 0]]
  BY DEF Tick
<1>3. Len(cache) \in Nat
  BY <1>1, LenProperties DEF CacheOK
<1>4. ASSUME NEW i \in 1..Len(cache)
      PROVE  cache'[i] \in Entries /\ cache'[i].route = cache[i].route
  <2>1. cache[i] \in Entries
    BY <1>1, <1>4 DEF CacheOK
  <2>2. cache'[i] = [cache[i] EXCEPT !.left = IF @ > 0 THEN @ - 1 ELSE 0]
    BY <1>2, <1>4
  <2> QED BY <2>1, <2>2, BoundsAssumption DEF Entries
<1>5. cache' \in [1..Len(cache) -> Entries]
  BY <1>2, <1>4
<1>6. cache' \in Seq(Entries) /\ Len(cache') = Len(cache)
  BY <1>3, <1>5
<1>7. CacheOK'
  BY <1>1, <1>4, <1>6 DEF CacheOK, Keyed
<1>8. TypeOK' /\ CacheBounded' /\ TablesOK'
  BY <1>7 DEF IInv, TypeOK, CacheBounded, CacheOK, Keyed, TablesOK, IsLatest, tables, Tick
<1>9. RequestsOK'
  BY DEF IInv, RequestsOK, RequestOK, TokenOK, OwedOK, PlaceOK, ReadOK, AnswerOK,
         HasData, Archived, tables, Tick
<1> QED BY <1>8, <1>9 DEF IInv

(* -------------------------------- theorems -------------------------------- *)

LEMMA StepKeepsIInv ==
  ASSUME IInv, NEW r \in Requests, Step(r) PROVE IInv'
BY CacheMissKeepsIInv, CacheHitKeepsIInv, VerifyHitKeepsIInv, AuthenticateKeepsIInv,
   RefuseKeepsIInv, TouchKeepsIInv, RequireLatestSeasonKeepsIInv, FindEventKeepsIInv,
   SeasonModelKeepsIInv, CountRowsKeepsIInv, ReadSeasonRowsKeepsIInv,
   ReadTeamEventsKeepsIInv, ReadSeasonsKeepsIInv, ReadRunsKeepsIInv,
   RespondKeepsIInv, ReplyKeepsIInv
DEF Step

LEMMA StutterKeepsIInv == ASSUME IInv, UNCHANGED vars PROVE IInv'
<1>1. TypeOK' /\ CacheBounded' /\ TablesOK'
  BY DEF IInv, TypeOK, CacheBounded, TablesOK, IsLatest, vars
<1>2. RequestsOK'
  BY DEF IInv, RequestsOK, RequestOK, TokenOK, OwedOK, PlaceOK, ReadOK, AnswerOK,
         HasData, Archived, vars
<1> QED BY <1>1, <1>2 DEF IInv

LEMMA InitIInv == Init => IInv
<1> SUFFICES ASSUME Init PROVE IInv
  OBVIOUS
<1> USE DEF Init
<1>1. cache \in Seq(Entries) /\ Len(cache) = 0
  OBVIOUS
<1>2. TypeOK
  BY <1>1, ScenariosAssumption DEF TypeOK, Versions, Places, Scenario
<1>3. CacheBounded
  BY <1>1, BoundsAssumption DEF CacheBounded
<1>4. TablesOK
  BY DEF TablesOK
<1>5. RequestsOK
  BY DEF RequestsOK
<1> QED BY <1>2, <1>3, <1>4, <1>5 DEF IInv

\* The inductive invariant holds throughout.
THEOREM InductiveInvariant == Spec => []IInv
<1>1. ASSUME IInv, [Next]_vars PROVE IInv'
  <2>1. CASE \E r \in Requests : Request(r) \/ Step(r)
    BY <1>1, <2>1, RequestKeepsIInv, StepKeepsIInv
  <2>2. CASE Ingest
    BY <1>1, <2>2, StartRefreshRunKeepsIInv, RecordEventResultsKeepsIInv,
       RefreshKeepsIInv, ArchiveKeepsIInv DEF Ingest
  <2>3. CASE ManageTokens
    BY <1>1, <2>3, ManageTokensKeepsIInv
  <2>4. CASE Tick
    BY <1>1, <2>4, TickKeepsIInv
  <2>5. CASE UNCHANGED vars
    BY <1>1, <2>5, StutterKeepsIInv
  <2> QED BY <1>1, <2>1, <2>2, <2>3, <2>4, <2>5 DEF Next
<1> QED BY <1>1, InitIInv, PTL DEF Spec

\* Every variable keeps its type; above all, only answers 200 are cached.
THEOREM TypeCorrect == Spec => []TypeOK
<1>1. IInv => TypeOK
  BY DEF IInv
<1> QED BY <1>1, InductiveInvariant, PTL

\* The cache of a worker never outgrows _CACHE_MAX_ENTRIES, nor does it hold
\* two answers for one key.
THEOREM CacheStaysBounded == Spec => []CacheBounded
<1>1. IInv => CacheBounded
  BY DEF IInv
<1> QED BY <1>1, InductiveInvariant, PTL

\* No request that comes in with a revoked token is given data, by a route or
\* by the cache.
THEOREM RevokedGetNothing == Spec => []RevokedTokenGetsNothing
<1>1. IInv => RevokedTokenGetsNothing
  BY DEF IInv, RequestsOK, RequestOK, TokenOK, RevokedTokenGetsNothing, Answered
<1> QED BY <1>1, InductiveInvariant, PTL

\* No valid caller is given the 401 of another one.
THEOREM ActiveNotRefused == Spec => []ActiveTokenNotRefused
<1>1. IInv => ActiveTokenNotRefused
  BY DEF IInv, RequestsOK, RequestOK, TokenOK, ActiveTokenNotRefused, Answered
<1> QED BY <1>1, InductiveInvariant, PTL

\* The listing of seasons loses none to an archive between its two statements.
THEOREM SeasonListsComplete == Spec => []SeasonListComplete
<1>1. IInv => SeasonListComplete
  BY DEF IInv, RequestsOK, RequestOK, AnswerOK, SeasonListComplete
<1> QED BY <1>1, InductiveInvariant, PTL

\* A season that was there to be found when a request came in is found.
THEOREM OwedSeasonsFound == Spec => []OwedSeasonFound
<1>1. IInv => OwedSeasonFound
  BY DEF IInv, RequestsOK, RequestOK, AnswerOK, OwedSeasonFound
<1> QED BY <1>1, InductiveInvariant, PTL

\* The page of an archived season, or of the runs, is as new as its total.
THEOREM PagesNotBehindTotal == Spec => []PageNotBehindTotal
<1>1. IInv => PageNotBehindTotal
  BY DEF IInv, RequestsOK, RequestOK, AnswerOK, PageNotBehindTotal
<1> QED BY <1>1, InductiveInvariant, PTL

\* Nothing brings a revoked token back.
THEOREM RevocationFinal == Spec => RevocationIsFinal
<1> DEFINE Final == \A t \in Tokens : status[t] = "revoked" => status'[t] = "revoked"
<1>1. ASSUME IInv, [Next]_vars PROVE [Final]_vars
  <2>1. CASE ManageTokens
    BY <1>1, <2>1, ManageTokensAge DEF TokensAge
  <2>2. CASE ~ManageTokens
    <3>1. status' = status
      BY <1>1, <2>2
      DEF Next, vars, Ingest, Tick, Request, Step, CacheMiss, CacheHit, VerifyHit,
          Authenticate, Refuse, Touch, RequireLatestSeason, FindEvent, SeasonModel,
          CountRows, ReadPage, ReadTeam, ReadTeamEvents, ReadSeasons, ReadRuns, Respond,
          Reply, Found, NotFound, StartRefreshRun, RecordEventResults,
          RefreshTeamSeasonSummary, ArchiveCompletedSeasons, NoRequestMoves
    <3> QED BY <3>1
  <2> QED BY <2>1, <2>2
<1>2. Spec => [][Final]_vars
  BY <1>1, InductiveInvariant, PTL DEF Spec
<1> QED BY <1>2 DEF RevocationIsFinal

(* ---------------------------- who writes the tables ----------------------- *)

\* Which steps change the tables of the seasons.
LEMMA TableWrites ==
  ASSUME IInv, [Next]_vars
  PROVE  \/ UNCHANGED <<results, summary, history>>
         \/ \E s \in Seasons : RecordEventResults(s) \/ RefreshTeamSeasonSummary(s)
         \/ ArchiveCompletedSeasons
<1>1. CASE \E r \in Requests : Request(r) \/ Step(r)
  BY <1>1
  DEF Request, Step, CacheMiss, CacheHit, VerifyHit, Authenticate, Refuse, Touch,
      RequireLatestSeason, FindEvent, SeasonModel, CountRows, ReadPage, ReadTeam,
      ReadTeamEvents, ReadSeasons, ReadRuns, Respond, Reply, Found, NotFound, tables
<1>2. CASE StartRefreshRun
  BY <1>2 DEF StartRefreshRun
<1>3. CASE ManageTokens
  BY <1>3 DEF ManageTokens, CreateApiToken, RevokeById, RevokeByLabel, RevokeApiToken, tables
<1>4. CASE Tick \/ UNCHANGED vars
  BY <1>4 DEF Tick, vars, tables
<1> QED BY <1>1, <1>2, <1>3, <1>4 DEF Next, Ingest

\* The rows the requests of a worker read are those of an ingestion that keeps
\* its promise: no request, cache, token or refresh run writes them.
THEOREM IngestionIsSeasonTables == Spec => Tables!Spec
<1>1. Init => Tables!Init
  BY DEF Init, Tables!Init
<1>2. ASSUME IInv, IInv', [Next]_vars
      PROVE  [Tables!Next]_(Tables!vars)
  <2>1. /\ \A t \in Seasons : results[t] \in Nat
        /\ scenario.maxVersion \in [Seasons -> Nat]
    BY <1>2, ScenariosAssumption DEF IInv, TypeOK, Versions, Scenario
  <2>2. ASSUME NEW s \in Seasons, RecordEventResults(s) PROVE Tables!Record(s)
    <3>1. PICK version \in results[s] + 1..scenario.maxVersion[s] :
              results' = [results EXCEPT ![s] = version]
      BY <2>2 DEF RecordEventResults
    <3>2. results'[s] = version /\ version \in Nat /\ version > results[s]
      BY <1>2, <2>1, <3>1 DEF IInv, TypeOK, Versions
    <3> QED BY <2>2, <3>1, <3>2 DEF RecordEventResults, Tables!Record
  <2>3. ASSUME NEW s \in Seasons, RefreshTeamSeasonSummary(s) PROVE Tables!Refresh(s)
    BY <2>3 DEF RefreshTeamSeasonSummary, Tables!Refresh
  <2>4. ASSUME ArchiveCompletedSeasons PROVE Tables!Archive
    BY <2>4 DEF ArchiveCompletedSeasons, Tables!Archive, IsLatest, Tables!IsLatest
  <2>5. CASE UNCHANGED <<results, summary, history>>
    BY <2>5 DEF Tables!vars
  <2> QED BY <1>2, <2>2, <2>3, <2>4, <2>5, TableWrites DEF Tables!Next
<1> QED BY <1>1, <1>2, InductiveInvariant, PTL DEF Spec, Tables!Spec

\* And nothing less: whatever such an ingestion commits, within the bounds of a
\* scenario and while no request moves, is one of the steps requests are
\* checked against.
THEOREM AnyIngestionIsCovered ==
  ASSUME Tables!Next, UNCHANGED <<runs, status, cache, scenario, pc, call>>,
         results \in Versions, scenario \in Scenario,
         \A s \in Seasons : results'[s] <= scenario.maxVersion[s]
  PROVE  Next
<1>1. ASSUME NEW s \in Seasons, Tables!Record(s) PROVE RecordEventResults(s)
  <2>1. /\ results[s] \in Nat /\ results'[s] \in Nat /\ results'[s] > results[s]
        /\ results'[s] <= scenario.maxVersion[s] /\ scenario.maxVersion[s] \in Nat
    BY <1>1 DEF Tables!Record, Versions, Scenario
  <2>2. results'[s] \in results[s] + 1..scenario.maxVersion[s]
    BY <2>1
  <2> QED BY <1>1, <2>2 DEF Tables!Record, RecordEventResults, NoRequestMoves
<1>2. ASSUME NEW s \in Seasons, Tables!Refresh(s) PROVE RefreshTeamSeasonSummary(s)
  BY <1>2 DEF Tables!Refresh, RefreshTeamSeasonSummary, NoRequestMoves
<1>3. ASSUME Tables!Archive PROVE ArchiveCompletedSeasons
  BY <1>3 DEF Tables!Archive, ArchiveCompletedSeasons, IsLatest, Tables!IsLatest,
              NoRequestMoves
<1> QED BY <1>1, <1>2, <1>3 DEF Tables!Next, Next, Ingest
=============================================================================
