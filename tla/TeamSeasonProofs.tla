--------------------------- MODULE TeamSeasonProofs ---------------------------
(***************************************************************************)
(* Theorems of module TeamSeason for every set of teams, every payload and *)
(* any number of records: the leaderboards are consistent, and those of    *)
(* the sorted lists of the code; they have no gap, the skills boards as    *)
(* long as no skills run is withdrawn; the snapshot created last is the    *)
(* rating; a team that has a region keeps it; the records add up.          *)
(***************************************************************************)
EXTENDS TeamSeason, SumTheorems

-----------------------------------------------------------------------------
(* Ranking: places are counted, so they are compared by comparing sets. *)

\* A team's rank lies between 1 and the number of teams.
LEMMA RankInRange ==
    ASSUME NEW S, IsFiniteSet(S), NEW value, NEW num,
           \A s \in S : value[s] \in Int /\ num[s] \in Int,
           NEW t \in S
    PROVE  /\ Ranked(S, value, num)[t] \in Nat
           /\ Ranked(S, value, num)[t] \in 1..Cardinality(S)
<1> DEFINE ahead == {u \in S : SortsBefore(value, num, u, t)}
<1>1. t \notin ahead
  BY DEF SortsBefore
<1>2. /\ Cardinality(ahead) \in Nat /\ Cardinality(S) \in Nat
      /\ Cardinality(ahead) < Cardinality(S)
  BY <1>1, ProperSubset
<1>3. Ranked(S, value, num)[t] = 1 + Cardinality(ahead)
  BY DEF Ranked
<1> QED
  BY <1>2, <1>3

\* Whoever sorts before a team has a smaller rank.
LEMMA RankOrders ==
    ASSUME NEW S, IsFiniteSet(S), NEW value, NEW num,
           \A s \in S : value[s] \in Int /\ num[s] \in Int,
           NEW t \in S, NEW u \in S, SortsBefore(value, num, u, t)
    PROVE  Ranked(S, value, num)[u] < Ranked(S, value, num)[t]
<1> DEFINE ahead(v) == {w \in S : SortsBefore(value, num, w, v)}
<1>1. ahead(u) \subseteq ahead(t) /\ u \in ahead(t) /\ u \notin ahead(u)
  BY DEF SortsBefore
<1>2. IsFiniteSet(ahead(t))
  BY Subset
<1>3. /\ Cardinality(ahead(u)) \in Nat /\ Cardinality(ahead(t)) \in Nat
      /\ Cardinality(ahead(u)) < Cardinality(ahead(t))
  <2> HIDE DEF ahead
  <2> QED
    BY <1>1, <1>2, ProperSubset
<1>4. /\ Ranked(S, value, num)[u] = 1 + Cardinality(ahead(u))
      /\ Ranked(S, value, num)[t] = 1 + Cardinality(ahead(t))
  BY DEF Ranked
<1> QED
  BY <1>3, <1>4

\* When no two teams have the same number, the rank is the sorting order.
LEMMA RankReflectsOrder ==
    ASSUME NEW S, IsFiniteSet(S), NEW value, NEW num,
           \A s \in S : value[s] \in Int /\ num[s] \in Int,
           NEW t \in S, NEW u \in S, t # u => num[t] # num[u]
    PROVE  /\ Ranked(S, value, num)[u] < Ranked(S, value, num)[t]
                <=> SortsBefore(value, num, u, t)
           /\ t # u => Ranked(S, value, num)[u] # Ranked(S, value, num)[t]
<1>1. /\ Ranked(S, value, num)[u] \in Nat /\ Ranked(S, value, num)[t] \in Nat
  BY RankInRange
<1>2. SortsBefore(value, num, u, t)
        => Ranked(S, value, num)[u] < Ranked(S, value, num)[t]
  BY RankOrders
<1>3. SortsBefore(value, num, t, u)
        => Ranked(S, value, num)[t] < Ranked(S, value, num)[u]
  BY RankOrders
<1>4. t # u => SortsBefore(value, num, u, t) \/ SortsBefore(value, num, t, u)
  BY DEF SortsBefore
<1>5. ~ SortsBefore(value, num, t, t)
  BY DEF SortsBefore
<1> QED
  BY <1>1, <1>2, <1>3, <1>4, <1>5

\* Among fewer teams a team's rank is not greater.
LEMMA RankAmongFewer ==
    ASSUME NEW S, IsFiniteSet(S), NEW value, NEW num,
           \A s \in S : value[s] \in Int /\ num[s] \in Int,
           NEW T, T \subseteq S, NEW t \in T
    PROVE  Ranked(T, value, num)[t] <= Ranked(S, value, num)[t]
<1> DEFINE part == {u \in T : SortsBefore(value, num, u, t)}
           all == {u \in S : SortsBefore(value, num, u, t)}
<1>1. part \subseteq all /\ IsFiniteSet(all)
  BY Subset
<1>2. /\ Cardinality(part) \in Nat /\ Cardinality(all) \in Nat
      /\ Cardinality(part) <= Cardinality(all)
  <2> HIDE DEF part, all
  <2> QED
    BY <1>1, Subset
<1>3. /\ Ranked(T, value, num)[t] = 1 + Cardinality(part)
      /\ Ranked(S, value, num)[t] = 1 + Cardinality(all)
  BY DEF Ranked
<1> QED
  BY <1>2, <1>3

\* Leaving teams out moves a team up by the number of those ahead of it.
LEMMA RankWithout ==
    ASSUME NEW S, IsFiniteSet(S), NEW value, NEW num,
           \A s \in S : value[s] \in Int /\ num[s] \in Int,
           NEW Q, NEW t \in S \ Q, NEW out \in SUBSET S,
           \A u \in S : u \in out <=> u \in Q /\ SortsBefore(value, num, u, t)
    PROVE  Ranked(S \ Q, value, num)[t] = Ranked(S, value, num)[t] - Cardinality(out)
<1> DEFINE all == {u \in S : SortsBefore(value, num, u, t)}
           rest == {u \in S \ Q : SortsBefore(value, num, u, t)}
<1>1. rest = all \ Q /\ all \cap Q = out
  OBVIOUS
<1>2. IsFiniteSet(all)
  BY Subset
<1>3. /\ Cardinality(all \ Q) = Cardinality(all) - Cardinality(all \cap Q)
      /\ Cardinality(all) \in Nat /\ Cardinality(all \cap Q) \in Nat
  <2> HIDE DEF all
  <2>1. IsFiniteSet(all \cap Q)
    BY <1>2, Subset
  <2> QED
    BY <1>2, <2>1, FS_Difference, FS_CardinalityType
<1>4. /\ Ranked(S \ Q, value, num)[t] = 1 + Cardinality(rest)
      /\ Ranked(S, value, num)[t] = 1 + Cardinality(all)
  BY DEF Ranked
<1>5. Ranked(S \ Q, value, num)[t] = Ranked(S, value, num)[t] - Cardinality(out)
  <2> HIDE DEF all, rest
  <2>1. Cardinality(rest) = Cardinality(all) - Cardinality(out)
    BY <1>1, <1>3
  <2>2. Cardinality(all) \in Nat /\ Cardinality(out) \in Nat
    BY <1>1, <1>3
  <2> QED
    BY <2>1, <2>2, <1>4
<1> QED
  BY <1>5

\* When no two teams have the same number, every place from 1 to the number of
\* teams is taken, by exactly one team.
LEMMA RanksFill ==
    ASSUME NEW S, IsFiniteSet(S), NEW value, NEW num,
           \A s \in S : value[s] \in Int /\ num[s] \in Int,
           \A s, t \in S : s # t => num[s] # num[t]
    PROVE  /\ \A t \in S : Ranked(S, value, num)[t] \in 1..Cardinality(S)
           /\ \A t, u \in S :
                 Ranked(S, value, num)[t] = Ranked(S, value, num)[u] => t = u
           /\ \A place \in 1..Cardinality(S) :
                 \E t \in S : Ranked(S, value, num)[t] = place
<1> DEFINE rank == Ranked(S, value, num)
           places == 1..Cardinality(S)
<1>1. \A t \in S : rank[t] \in places
  BY RankInRange
<1>2. \A t, u \in S : rank[t] = rank[u] => t = u
  BY RankReflectsOrder
<1>3. rank = [t \in S |-> rank[t]]
  BY DEF Ranked
<1>4. IsFiniteSet(places) /\ Cardinality(places) = Cardinality(S)
  <2>1. Cardinality(S) \in Nat
    BY FS_CardinalityType
  <2> QED
    BY <2>1, FS_Interval
<1> HIDE DEF rank, places
<1>5. rank \in Injection(S, places)
  BY <1>1, <1>2, <1>3 DEF Injection, IsInjective
<1>6. rank \in Surjection(S, places)
  BY <1>4, <1>5, FS_Injection
<1>7. \A place \in places : \E t \in S : rank[t] = place
  BY <1>6 DEF Surjection
<1> QED
  BY <1>1, <1>2, <1>7 DEF rank, places

\* The first k entries of a list without repetition are k teams.
LEMMA FirstEntries ==
    ASSUME NEW S, NEW n \in Nat, NEW list \in Injection(1..n, S),
           NEW k \in 0..n, NEW first \in SUBSET S,
           \A u \in S : u \in first <=> \E i \in 1..k : list[i] = u
    PROVE  Cardinality(first) = k
<1> DEFINE prefix == [i \in 1..k |-> list[i]]
<1>1. 1..k \subseteq 1..n
  OBVIOUS
<1>2. \A i \in 1..k : list[i] \in first
  BY <1>1 DEF Injection, IsInjective
<1>3. \A i, j \in 1..k : list[i] = list[j] => i = j
  BY <1>1 DEF Injection, IsInjective
<1>4. \A u \in first : \E i \in 1..k : list[i] = u
  OBVIOUS
<1>5. prefix \in Bijection(1..k, first)
  <2>1. prefix \in [1..k -> first]
    BY <1>2
  <2>2. prefix \in Injection(1..k, first)
    BY <2>1, <1>3 DEF Injection, IsInjective
  <2>3. prefix \in Surjection(1..k, first)
    BY <2>1, <1>4 DEF Surjection
  <2> QED
    BY <2>2, <2>3 DEF Bijection
<1>6. IsFiniteSet(1..k) /\ Cardinality(1..k) = k
  BY FS_Interval
<1>7. ExistsBijection(1..k, first)
  BY <1>5 DEF ExistsBijection
<1> QED
  BY <1>6, <1>7, FS_Bijection

\* ranked() of db.py:546 is sorted() and enumerate(): in a list of all the teams
\* in the order of the key, Ranked is the index of a team, counted from 1.
THEOREM RankIsPlaceInSortedList ==
    ASSUME NEW S, NEW n \in Nat, NEW list \in Bijection(1..n, S),
           NEW value, NEW num,
           \A s \in S : value[s] \in Int /\ num[s] \in Int,
           \A i, j \in 1..n : i < j => SortsBefore(value, num, list[i], list[j])
    PROVE  \A i \in 1..n : Ranked(S, value, num)[list[i]] = i
<1> SUFFICES ASSUME NEW i \in 1..n
             PROVE  Ranked(S, value, num)[list[i]] = i
  OBVIOUS
<1> DEFINE ahead == {u \in S : SortsBefore(value, num, u, list[i])}
<1>1. /\ list \in Injection(1..n, S)
      /\ \A j \in 1..n : list[j] \in S
      /\ \A u \in S : \E j \in 1..n : list[j] = u
  BY DEF Bijection, Injection, Surjection
<1>2. ASSUME NEW j \in 1..n
      PROVE  SortsBefore(value, num, list[j], list[i]) <=> j < i
  <2>1. CASE j < i
    BY <2>1
  <2>2. CASE j = i
    BY <1>1, <2>2 DEF SortsBefore
  <2>3. CASE i < j
    BY <1>1, <2>3 DEF SortsBefore
  <2> QED
    BY <2>1, <2>2, <2>3
<1>3. \A u \in S : u \in ahead <=> \E j \in 1..(i - 1) : list[j] = u
  <2>1. \A j \in 1..n : j < i <=> j \in 1..(i - 1)
    OBVIOUS
  <2>2. \A j \in 1..(i - 1) : j \in 1..n
    OBVIOUS
  <2> QED
    BY <1>1, <1>2, <2>1, <2>2
<1>4. ahead \in SUBSET S /\ i - 1 \in 0..n
  OBVIOUS
<1>5. Ranked(S, value, num)[list[i]] = 1 + Cardinality(ahead)
  BY <1>1 DEF Ranked
<1>6. Cardinality(ahead) = i - 1
  <2> HIDE DEF ahead
  <2> QED
    BY <1>1, <1>3, <1>4, FirstEntries
<1> QED
  BY <1>5, <1>6

\* Such a list exists, whatever the values are: the ranks say which it is.
LEMMA SortedListExists ==
    ASSUME NEW S, IsFiniteSet(S), NEW value, NEW num,
           \A s \in S : value[s] \in Int /\ num[s] \in Int,
           \A s, t \in S : s # t => num[s] # num[t]
    PROVE  \E list \in Bijection(1..Cardinality(S), S) :
              \A i, j \in 1..Cardinality(S) :
                  i < j => SortsBefore(value, num, list[i], list[j])
<1> DEFINE n == Cardinality(S)
           rank == Ranked(S, value, num)
           list == [k \in 1..n |-> CHOOSE t \in S : rank[t] = k]
<1>1. /\ \A t \in S : rank[t] \in 1..n
      /\ \A t, u \in S : rank[t] = rank[u] => t = u
      /\ \A k \in 1..n : \E t \in S : rank[t] = k
  BY RanksFill
<1>2. \A t, u \in S : rank[t] < rank[u] => SortsBefore(value, num, t, u)
  BY RankReflectsOrder
<1> HIDE DEF n, rank
<1>3. \A k \in 1..n : list[k] \in S /\ rank[list[k]] = k
  BY <1>1
<1>4. list \in [1..n -> S]
  BY <1>3
<1> HIDE DEF list
<1>5. list \in Injection(1..n, S)
  <2>1. DOMAIN list = 1..n
    BY <1>4
  <2>2. \A i, j \in 1..n : list[i] = list[j] => i = j
    BY <1>3
  <2> QED
    BY <1>4, <2>1, <2>2 DEF Injection, IsInjective
<1>6. list \in Surjection(1..n, S)
  <2>1. \A t \in S : rank[t] \in 1..n /\ list[rank[t]] = t
    BY <1>1, <1>3
  <2> QED
    BY <1>4, <2>1 DEF Surjection
<1>7. \A i, j \in 1..n : i < j => SortsBefore(value, num, list[i], list[j])
  BY <1>2, <1>3
<1> QED
  BY <1>5, <1>6, <1>7 DEF Bijection, n

\* Percentiles follow the values, ties share one, and the best team has 100.
LEMMA PercentileOrders ==
    ASSUME NEW S, IsFiniteSet(S), NEW value, \A s \in S : value[s] \in Int,
           NEW t \in S, NEW u \in S
    PROVE  /\ Percentiles(S, value)[t] <= Hundred(Cardinality(S))
           /\ value[t] = value[u] =>
                 Percentiles(S, value)[t] = Percentiles(S, value)[u]
           /\ value[t] > value[u] =>
                 Percentiles(S, value)[t] > Percentiles(S, value)[u]
           /\ (\A w \in S : value[w] <= value[t]) =>
                 Percentiles(S, value)[t] = Hundred(Cardinality(S))
<1> DEFINE better(v) == {w \in S : value[w] > value[v]}
           top == Hundred(Cardinality(S))
<1>1. top \in Int
  BY FS_CardinalityType DEF Hundred
<1>2. \A v \in S : Percentiles(S, value)[v] = top - Cardinality(better(v))
  BY DEF Percentiles
<1>3. \A v \in S : IsFiniteSet(better(v)) /\ Cardinality(better(v)) \in Nat
  BY Subset
<1>4. value[t] = value[u] => better(t) = better(u)
  OBVIOUS
<1>5. ASSUME value[t] > value[u]
      PROVE  Cardinality(better(t)) < Cardinality(better(u))
  <2>1. better(t) \subseteq better(u) /\ t \in better(u) /\ t \notin better(t)
    BY <1>5
  <2> HIDE DEF better
  <2> QED
    BY <1>3, <2>1, ProperSubset
<1>6. (\A w \in S : value[w] <= value[t]) => Cardinality(better(t)) = 0
  <2>1. (\A w \in S : value[w] <= value[t]) => better(t) = {}
    OBVIOUS
  <2> HIDE DEF better
  <2> QED
    BY <2>1, FS_EmptySet
<1> HIDE DEF better, top
<1>7. top = Hundred(Cardinality(S))
  BY DEF top
<1> QED
  BY <1>1, <1>2, <1>3, <1>4, <1>5, <1>6, <1>7

\* _percentiles() of db.py:622 walks the list sorted by falling value: every team
\* of a tie gets n - 1 - i, in units of 100 / (n - 1), where i is the index,
\* counted from 0, at which the tie begins.  (The only team of a map gets 100.)
THEOREM PercentileOfSortedList ==
    ASSUME NEW S, NEW n \in Nat, NEW list \in Bijection(1..n, S),
           NEW value, \A s \in S : value[s] \in Int,
           \A i, j \in 1..n : i < j => value[list[i]] >= value[list[j]],
           NEW first \in 1..n, NEW k \in first..n,
           value[list[k]] = value[list[first]],
           \A i \in 1..(first - 1) : value[list[i]] # value[list[first]]
    PROVE  Percentiles(S, value)[list[k]] = Hundred(n) - (first - 1)
<1> DEFINE better == {u \in S : value[u] > value[list[k]]}
<1>1. /\ list \in Injection(1..n, S)
      /\ \A j \in 1..n : list[j] \in S
      /\ \A u \in S : \E j \in 1..n : list[j] = u
  BY DEF Bijection, Injection, Surjection
<1>2. Cardinality(S) = n
  <2>1. ExistsBijection(1..n, S) /\ IsFiniteSet(1..n) /\ Cardinality(1..n) = n
    BY FS_Interval DEF ExistsBijection
  <2> QED
    BY <2>1, FS_Bijection
<1>3. k \in 1..n
  OBVIOUS
<1>4. ASSUME NEW j \in 1..n
      PROVE  value[list[j]] > value[list[k]] <=> j < first
  <2>1. value[list[j]] \in Int /\ value[list[first]] \in Int
    BY <1>1
  <2>2. CASE j < first
    <3>1. j \in 1..(first - 1) /\ value[list[j]] >= value[list[first]]
      BY <2>2
    <3> QED
      BY <2>1, <2>2, <3>1
  <2>3. CASE j = first
    BY <2>1, <2>3
  <2>4. CASE first < j
    BY <2>1, <2>4
  <2> QED
    BY <2>2, <2>3, <2>4
<1>5. \A u \in S : u \in better <=> \E j \in 1..(first - 1) : list[j] = u
  <2>1. \A j \in 1..n : j < first <=> j \in 1..(first - 1)
    OBVIOUS
  <2>2. \A j \in 1..(first - 1) : j \in 1..n
    OBVIOUS
  <2> QED
    BY <1>1, <1>4, <2>1, <2>2
<1>6. better \in SUBSET S /\ first - 1 \in 0..n
  OBVIOUS
<1>7. Percentiles(S, value)[list[k]] = Hundred(Cardinality(S)) - Cardinality(better)
  BY <1>1, <1>3 DEF Percentiles
<1>8. Cardinality(better) = first - 1
  <2> HIDE DEF better
  <2> QED
    BY <1>1, <1>5, <1>6, FirstEntries
<1> QED
  BY <1>2, <1>7, <1>8

-----------------------------------------------------------------------------
(* The inductive invariant *)

ProcessOK ==
    /\ todo \subseteq Events
    /\ now \in Nat
    /\ pc = "none" => ratings = Empty
    /\ pc \in {"none", "batches", "refreshed"}
    /\ DOMAIN ratings \subseteq Teams
    /\ \A t \in DOMAIN ratings : ratings[t] \in Int

\* A region is only known from a profile; a number is one of two.
TeamsOK ==
    /\ DOMAIN teams \subseteq Teams
    /\ seen \subseteq DOMAIN teams
    /\ \A t \in DOMAIN teams :
          /\ teams[t] \in TeamRow
          /\ teams[t].team_num \in {TeamNum[t], IdNum[t]}
          /\ teams[t].region # None => teams[t].profile_fetched

\* No two rows of a team were created at the same time.
ResultsOK ==
    /\ DOMAIN results = Events
    /\ \A e \in Events : DOMAIN results[e] \subseteq DOMAIN teams
    /\ \A e \in Events : \A t \in DOMAIN results[e] :
          /\ results[e][t].ts_exposed \in Int
          /\ results[e][t].skills_total \in Int \cup {None}
          /\ results[e][t].created_at \in 1..now
    /\ \A e, f \in Events : \A t \in DOMAIN results[e] \cap DOMAIN results[f] :
          e # f => results[e][t].created_at # results[f][t].created_at

\* Every summarised team still has rows, and is ranked in a region it has.
SummaryOK ==
    /\ DOMAIN summary \subseteq Entrants
    /\ \A t \in Placed("region_ts_rank") : teams[t].region # None

IInv ==
    /\ ProcessOK
    /\ TeamsOK
    /\ ResultsOK
    /\ SummaryOK
    /\ LatestSnapshot
    /\ RanksConsistent

LEMMA InitInvariant == Init => IInv
<1> SUFFICES ASSUME Init PROVE IInv
  OBVIOUS
<1> USE DEF Init, Empty
<1>1. ProcessOK
  BY DEF ProcessOK
<1>2. TeamsOK
  BY DEF TeamsOK
<1>3. ResultsOK
  BY DEF ResultsOK
<1>4. SummaryOK
  BY DEF SummaryOK, Placed, Summarised
<1>5. LatestSnapshot
  BY DEF LatestSnapshot
<1>6. RanksConsistent
  <2>1. Summarised = {} /\ Runners = {} /\ Placed("region_ts_rank") = {}
    BY DEF Summarised, Runners, Placed
  <2> QED
    BY <2>1 DEF RanksConsistent, Orders
<1> QED
  BY <1>1, <1>2, <1>3, <1>4, <1>5, <1>6 DEF IInv

\* Only a refresh writes the summary; what the leaderboards say of it also
\* depends on the regions, which recorded results and profiles do not change
\* for a team that is ranked in one.
LEMMA SummaryKept ==
    ASSUME IInv, summary' = summary, DOMAIN teams \subseteq DOMAIN teams',
           \A t \in DOMAIN teams : teams[t].region # None =>
                teams'[t].region = teams[t].region,
           DOMAIN results' = Events,
           \A e \in Events : DOMAIN results[e] \subseteq DOMAIN results'[e]
    PROVE  SummaryOK' /\ RanksConsistent'
<1>1. /\ Summarised' = Summarised /\ Runners' = Runners
      /\ Placed("region_ts_rank")' = Placed("region_ts_rank")
  BY DEF Summarised, Runners, Placed
<1>2. Entrants \subseteq Entrants'
  BY DEF Entrants, EventsOf, IInv, ResultsOK
<1>3. Entrants \subseteq DOMAIN teams
  BY DEF Entrants, EventsOf, IInv, ResultsOK
<1>4. \A t \in Placed("region_ts_rank") : teams'[t].region = teams[t].region
  BY <1>3 DEF IInv, SummaryOK, Placed, Summarised
<1>5. SummaryOK'
  BY <1>1, <1>2, <1>4 DEF IInv, SummaryOK
<1>6. RanksConsistent'
  BY <1>1, <1>4 DEF IInv, RanksConsistent, Orders
<1> QED
  BY <1>5, <1>6

-----------------------------------------------------------------------------
(* The row created last, for the table before and after a step *)

LEMMA MostIsGreatest ==
    ASSUME NEW R, NEW S, IsFiniteSet(S), S # {}, NEW t, NEW column,
           \A e \in S : R[e][t][column] \in Int
    PROVE  LET most == CHOOSE e \in S : \A f \in S : R[f][t][column] <= R[e][t][column]
           IN  most \in S /\ \A f \in S : R[f][t][column] <= R[most][t][column]
<1> DEFINE value == [e \in S |-> R[e][t][column]]
<1>1. value \in [S -> Int]
  OBVIOUS
<1>2. PICK e \in S : \A f \in S : value[f] <= value[e]
  <2> HIDE DEF value
  <2> QED
    BY <1>1, GreatestExists
<1>3. \E e1 \in S : \A f \in S : R[f][t][column] <= R[e1][t][column]
  BY <1>2
<1> QED
  BY <1>3

LEMMA GreatestIsMost ==
    ASSUME NEW R, NEW S, NEW t, NEW column, \A e \in S : R[e][t][column] \in Int,
           NEW x \in S, \A f \in S : f # x => R[f][t][column] < R[x][t][column]
    PROVE  (CHOOSE e \in S : \A f \in S : R[f][t][column] <= R[e][t][column]) = x
<1>1. \A f \in S : R[f][t][column] <= R[x][t][column]
  OBVIOUS
<1>2. \A e \in S : (\A f \in S : R[f][t][column] <= R[e][t][column]) => e = x
  OBVIOUS
<1> QED
  BY <1>1, <1>2

LEMMA EventsFinite == \A S : S \subseteq Events => IsFiniteSet(S)
BY PayloadsAssumption, FS_Subset

\* The latest row of a team is one of its rows, and newer than the others.
LEMMA LatestRow ==
    ASSUME ResultsOK, NEW t, EventsOf(t) # {}
    PROVE  /\ Latest(t) \in EventsOf(t)
           /\ \A f \in EventsOf(t) : f # Latest(t) =>
                 results[f][t].created_at < results[Latest(t)][t].created_at
<1>1. \A e \in EventsOf(t) : results[e][t]["created_at"] \in Int
  BY DEF EventsOf, ResultsOK
<1>2. IsFiniteSet(EventsOf(t))
  BY EventsFinite DEF EventsOf
<1>3. /\ Latest(t) \in EventsOf(t)
      /\ \A f \in EventsOf(t) :
            results[f][t]["created_at"] <= results[Latest(t)][t]["created_at"]
  BY <1>1, <1>2, MostIsGreatest DEF Latest, Most
<1> QED
  BY <1>1, <1>3 DEF EventsOf, ResultsOK

-----------------------------------------------------------------------------
(* Recording an event *)

LEMMA ScoredAreTeams ==
    ASSUME NEW e \in Events, NEW p \in Payloads[e]
    PROVE  Scored(p) \subseteq Teams /\ Players(p) \subseteq Scored(p)
<1>1. \A m \in Played(p) : m.red \cup m.blue \subseteq Teams
  BY PayloadsAssumption DEF Played, RawMatch
<1>2. Players(p) \subseteq Teams
  BY <1>1 DEF Players
<1>3. Played(p) = {} => Players(p) = {}
  BY DEF Players
<1> QED
  BY <1>2, <1>3, PayloadsAssumption DEF Scored

LEMMA SkillsTotalType ==
    ASSUME NEW e \in Events, NEW p \in Payloads[e], NEW t
    PROVE  SkillsTotal(p, t) \in Int \cup {None}
BY PayloadsAssumption DEF SkillsTotal

\* The next event of the list is one of it.
LEMMA MinOfTodo ==
    ASSUME NEW S, S \subseteq Events, S # {}
    PROVE  Min(S) \in S
<1>1. PICK n \in S : \A m \in S : n <= m
  BY LeastNat, PayloadsAssumption
<1> QED
  BY <1>1 DEF Min

\* A step that records payload p of event e, with the ratings it leads to.
Recorded(e, p, rated) ==
    /\ ratings' = rated
    /\ teams' = MergedTeams(p)
    /\ results' = [results EXCEPT ![e] =
          [t \in DOMAIN @ \cup Scored(p) |->
              IF t \in Scored(p) THEN EventResult(p, rated, t) ELSE @[t]]]
    /\ seen' = seen \cup Scored(p)
    /\ todo' = todo \ {e}
    /\ now' = now + 1
    /\ UNCHANGED <<pc, summary>>

LEMMA RecordedTables ==
    ASSUME IInv, NEW e \in Events, NEW p \in Payloads[e], NEW rated, Recorded(e, p, rated)
    PROVE  /\ DOMAIN results' = Events
           /\ DOMAIN results'[e] = DOMAIN results[e] \cup Scored(p)
           /\ \A t \in Scored(p) : results'[e][t] = EventResult(p, rated, t)
           /\ \A t \in DOMAIN results[e] \ Scored(p) : results'[e][t] = results[e][t]
           /\ \A f \in Events \ {e} : results'[f] = results[f]
           /\ DOMAIN teams' = DOMAIN teams \cup Scored(p)
           /\ \A t \in DOMAIN teams \ Scored(p) : teams'[t] = teams[t]
           /\ \A t \in Scored(p) : teams'[t] = MergeTeam(t, NumAt(p, t))
BY DEF IInv, ResultsOK, Recorded, MergedTeams

LEMMA RecordedTeams ==
    ASSUME IInv, NEW e \in Events, NEW p \in Payloads[e], NEW rated, Recorded(e, p, rated)
    PROVE  /\ TeamsOK'
           /\ \A t \in DOMAIN teams : /\ t \in DOMAIN teams'
                                      /\ teams'[t].region = teams[t].region
                                      /\ teams'[t].profile_fetched = teams[t].profile_fetched
<1>1. /\ DOMAIN teams' = DOMAIN teams \cup Scored(p)
      /\ \A t \in DOMAIN teams \ Scored(p) : teams'[t] = teams[t]
      /\ \A t \in Scored(p) : teams'[t] = MergeTeam(t, NumAt(p, t))
  BY RecordedTables
<1>2. ASSUME NEW t \in Scored(p)
      PROVE  /\ teams'[t] \in TeamRow
             /\ teams'[t].team_num \in {TeamNum[t], IdNum[t]}
             /\ teams'[t].region # None => teams'[t].profile_fetched
             /\ t \in DOMAIN teams => /\ teams'[t].region = teams[t].region
                                      /\ teams'[t].profile_fetched = teams[t].profile_fetched
  <2>1. NumAt(p, t) \in {TeamNum[t], IdNum[t]} /\ NumAt(p, t) \in Int
    BY ScoredAreTeams, TeamsAssumption DEF NumAt
  <2>2. CASE t \notin DOMAIN teams
    <3>1. teams'[t] = [team_num |-> NumAt(p, t), region |-> None,
                       profile_fetched |-> FALSE]
      BY <1>1, <2>2 DEF MergeTeam, NewTeam
    <3>2. teams'[t] \in TeamRow
      BY <2>1, <3>1 DEF TeamRow
    <3>3. teams'[t].team_num = NumAt(p, t) /\ teams'[t].region = None
      BY <3>1
    <3> QED
      BY <2>1, <2>2, <3>2, <3>3
  <2>3. CASE t \in DOMAIN teams
    <3>1. teams'[t] = [teams[t] EXCEPT !.team_num = NumAt(p, t)]
      BY <1>1, <2>3 DEF MergeTeam
    <3>2. teams[t] \in TeamRow /\ (teams[t].region # None => teams[t].profile_fetched)
      BY <2>3 DEF IInv, TeamsOK
    <3> QED
      BY <2>1, <2>3, <3>1, <3>2 DEF TeamRow
  <2> QED
    BY <2>2, <2>3
<1>3. seen' = seen \cup Scored(p) /\ Scored(p) \subseteq Teams
  BY ScoredAreTeams DEF Recorded
<1> QED
  BY <1>1, <1>2, <1>3 DEF IInv, TeamsOK

LEMMA EventResultColumns ==
    ASSUME NEW p, NEW rated, NEW t
    PROVE  /\ EventResult(p, rated, t).ts_exposed = Get(rated, t, 0)
           /\ EventResult(p, rated, t).skills_total = SkillsTotal(p, t)
           /\ EventResult(p, rated, t).created_at = now + 1
BY DEF EventResult

\* The ratings an event leads to: new ones for its players.
LEMMA NewRatings ==
    ASSUME IInv, NEW e \in Events, NEW p \in Payloads[e], NEW rated \in CalcTs(p)
    PROVE  /\ DOMAIN rated = DOMAIN ratings \cup Players(p)
           /\ DOMAIN rated \subseteq Teams
           /\ \A t \in DOMAIN rated : rated[t] \in Int
           /\ \A t \in DOMAIN rated \ Players(p) : rated[t] = ratings[t]
<1>1. PICK outcome \in Outcomes :
         rated = [t \in DOMAIN ratings \cup Players(p) |->
                     IF t \in Players(p) THEN outcome[t] ELSE ratings[t]]
  BY DEF CalcTs
<1>2. \A t \in Teams : outcome[t] \in Int
  BY BoundsAssumption
<1>3. Players(p) \subseteq Teams
  BY ScoredAreTeams
<1>4. /\ DOMAIN ratings \subseteq Teams
      /\ \A t \in DOMAIN ratings : ratings[t] \in Int
  BY DEF IInv, ProcessOK
<1> QED
  BY <1>1, <1>2, <1>3, <1>4

LEMMA RecordedResults ==
    ASSUME IInv, NEW e \in Events, NEW p \in Payloads[e], NEW rated \in CalcTs(p),
           Recorded(e, p, rated)
    PROVE  ResultsOK'
<1>1. /\ DOMAIN results' = Events
      /\ DOMAIN results'[e] = DOMAIN results[e] \cup Scored(p)
      /\ \A t \in Scored(p) : results'[e][t] = EventResult(p, rated, t)
      /\ \A t \in DOMAIN results[e] \ Scored(p) : results'[e][t] = results[e][t]
      /\ \A f \in Events \ {e} : results'[f] = results[f]
      /\ DOMAIN teams' = DOMAIN teams \cup Scored(p)
  BY RecordedTables
<1>2. now \in Nat /\ now' = now + 1
  BY DEF IInv, ProcessOK, Recorded
<1>3. /\ \A f \in Events : DOMAIN results[f] \subseteq DOMAIN teams
      /\ \A f \in Events : \A t \in DOMAIN results[f] :
            /\ results[f][t].ts_exposed \in Int
            /\ results[f][t].skills_total \in Int \cup {None}
            /\ results[f][t].created_at \in 1..now
  BY DEF IInv, ResultsOK
<1>4. \A t \in DOMAIN rated : rated[t] \in Int
  BY NewRatings
<1>5. \A t \in Scored(p) : /\ results'[e][t].ts_exposed \in Int
                           /\ results'[e][t].skills_total \in Int \cup {None}
                           /\ results'[e][t].created_at = now + 1
  BY <1>1, <1>4, SkillsTotalType, EventResultColumns DEF Get
<1>6. \A f \in Events : DOMAIN results'[f] \subseteq DOMAIN teams'
  BY <1>1, <1>3
<1>7. ASSUME NEW f \in Events, NEW t \in DOMAIN results'[f]
      PROVE  /\ results'[f][t].ts_exposed \in Int
             /\ results'[f][t].skills_total \in Int \cup {None}
             /\ results'[f][t].created_at \in 1..now'
             /\ results'[f][t].created_at = now + 1 => f = e /\ t \in Scored(p)
             /\ ~ (f = e /\ t \in Scored(p)) => /\ t \in DOMAIN results[f]
                                                /\ results'[f][t] = results[f][t]
  <2>1. CASE f = e /\ t \in Scored(p)
    BY <1>2, <1>5, <2>1
  <2>2. CASE ~ (f = e /\ t \in Scored(p))
    <3>1. t \in DOMAIN results[f] /\ results'[f][t] = results[f][t]
      BY <1>1, <1>7, <2>2
    <3> QED
      BY <1>2, <1>3, <2>2, <3>1
  <2> QED
    BY <2>1, <2>2
<1>8. ASSUME NEW f \in Events, NEW g \in Events,
             NEW t \in DOMAIN results'[f] \cap DOMAIN results'[g], f # g
      PROVE  results'[f][t].created_at # results'[g][t].created_at
  <2>1. CASE f = e /\ t \in Scored(p)
    BY <1>5, <1>7, <1>8, <2>1
  <2>2. CASE g = e /\ t \in Scored(p)
    BY <1>5, <1>7, <1>8, <2>2
  <2>3. CASE ~ (f = e /\ t \in Scored(p)) /\ ~ (g = e /\ t \in Scored(p))
    <3>1. /\ t \in DOMAIN results[f] /\ results'[f][t] = results[f][t]
          /\ t \in DOMAIN results[g] /\ results'[g][t] = results[g][t]
      BY <1>7, <2>3
    <3> QED
      BY <1>8, <3>1 DEF IInv, ResultsOK
  <2> QED
    BY <2>1, <2>2, <2>3
<1> QED
  BY <1>1, <1>6, <1>7, <1>8 DEF ResultsOK

\* The snapshot written is the new rating, and the row is now the latest; a
\* team the event does not score keeps its rating and its rows.
LEMMA RecordedSnapshot ==
    ASSUME IInv, NEW e \in Events, NEW p \in Payloads[e], NEW rated \in CalcTs(p),
           Recorded(e, p, rated), pc = "batches"
    PROVE  LatestSnapshot'
<1>1. /\ DOMAIN results' = Events
      /\ DOMAIN results'[e] = DOMAIN results[e] \cup Scored(p)
      /\ \A t \in Scored(p) : results'[e][t] = EventResult(p, rated, t)
      /\ \A t \in DOMAIN results[e] \ Scored(p) : results'[e][t] = results[e][t]
      /\ \A f \in Events \ {e} : results'[f] = results[f]
  BY RecordedTables
<1>2. now \in Nat /\ pc' # "refreshed"
  BY DEF IInv, ProcessOK, Recorded
<1>3. ResultsOK /\ ResultsOK'
  BY RecordedResults DEF IInv
<1>4. ratings' = rated /\ Players(p) \subseteq Scored(p)
  BY ScoredAreTeams DEF Recorded
<1>5. SUFFICES ASSUME NEW t \in DOMAIN ratings'
               PROVE  EventsOf(t)' # {} /\ results'[Latest(t)'][t].ts_exposed = ratings'[t]
  BY <1>2 DEF LatestSnapshot
<1>6. \A f \in EventsOf(t)' : results'[f][t]["created_at"] \in Int
  BY <1>3 DEF EventsOf, ResultsOK
<1>7. ASSUME NEW x \in EventsOf(t)',
             \A f \in EventsOf(t)' : f # x =>
                results'[f][t].created_at < results'[x][t].created_at
      PROVE  Latest(t)' = x
  <2>1. (CHOOSE g \in EventsOf(t)' : \A f \in EventsOf(t)' :
            results'[f][t]["created_at"] <= results'[g][t]["created_at"]) = x
    BY <1>6, <1>7, GreatestIsMost
  <2> QED
    BY <2>1 DEF Latest, Most
<1>8. CASE t \in Scored(p)
  <2>1. e \in EventsOf(t)'
    BY <1>1, <1>8 DEF EventsOf
  <2>2. results'[e][t].created_at = now + 1
    BY <1>1, <1>8, EventResultColumns
  <2>3. \A f \in EventsOf(t)' : f # e => results'[f][t].created_at < now + 1
    BY <1>1, <1>2, <1>3 DEF EventsOf, ResultsOK
  <2>4. Latest(t)' = e
    BY <1>7, <2>1, <2>2, <2>3
  <2>5. results'[e][t].ts_exposed = ratings'[t]
    BY <1>1, <1>4, <1>5, <1>8, EventResultColumns DEF Get
  <2> QED
    BY <2>1, <2>4, <2>5
<1>9. CASE t \notin Scored(p)
  <2>1. t \in DOMAIN ratings /\ ratings'[t] = ratings[t]
    BY <1>4, <1>5, <1>9, NewRatings
  <2>2. EventsOf(t)' = EventsOf(t) /\ \A f \in EventsOf(t) : results'[f][t] = results[f][t]
    BY <1>1, <1>3, <1>9 DEF EventsOf, ResultsOK
  <2>3. /\ EventsOf(t) # {}
        /\ results[Latest(t)][t].ts_exposed = ratings[t]
    BY <2>1 DEF IInv, LatestSnapshot
  <2>4. /\ Latest(t) \in EventsOf(t)
        /\ \A f \in EventsOf(t) : f # Latest(t) =>
              results[f][t].created_at < results[Latest(t)][t].created_at
    BY <1>3, <2>3, LatestRow
  <2>5. Latest(t)' = Latest(t)
    BY <1>7, <2>2, <2>4
  <2> QED
    BY <2>1, <2>2, <2>3, <2>4, <2>5
<1> QED
  BY <1>8, <1>9

LEMMA RecordKeepsInvariant ==
    ASSUME IInv, RecordEventResults
    PROVE  /\ IInv'
           /\ \A t \in DOMAIN teams : /\ t \in DOMAIN teams'
                                      /\ teams'[t].region = teams[t].region
                                      /\ teams'[t].profile_fetched = teams[t].profile_fetched
<1>1. PICK e \in Events : \E p \in Payloads[e] : \E rated \in CalcTs(p) :
         Recorded(e, p, rated)
  BY MinOfTodo DEF IInv, ProcessOK, RecordEventResults, Recorded
<1>2. PICK p \in Payloads[e] : \E rated \in CalcTs(p) : Recorded(e, p, rated)
  BY <1>1
<1>3. PICK rated \in CalcTs(p) : Recorded(e, p, rated)
  BY <1>2
<1>4. pc = "batches"
  BY DEF RecordEventResults
<1>5. /\ TeamsOK'
      /\ \A t \in DOMAIN teams : /\ t \in DOMAIN teams'
                                 /\ teams'[t].region = teams[t].region
                                 /\ teams'[t].profile_fetched = teams[t].profile_fetched
  BY <1>3, RecordedTeams
<1>6. ResultsOK'
  BY <1>3, RecordedResults
<1>7. LatestSnapshot'
  BY <1>3, <1>4, RecordedSnapshot
<1>8. ProcessOK'
  <2>1. /\ DOMAIN rated \subseteq Teams
        /\ \A t \in DOMAIN rated : rated[t] \in Int
    BY NewRatings
  <2> QED
    BY <1>3, <1>4, <2>1 DEF Recorded, IInv, ProcessOK
<1>9. /\ DOMAIN results' = Events
      /\ \A f \in Events : DOMAIN results[f] \subseteq DOMAIN results'[f]
      /\ summary' = summary
  BY <1>3, RecordedTables DEF Recorded
<1>10. SummaryOK' /\ RanksConsistent'
  BY <1>5, <1>9, SummaryKept
<1> QED
  BY <1>5, <1>6, <1>7, <1>8, <1>10 DEF IInv

-----------------------------------------------------------------------------
(* Refreshing the summary *)

\* What the rank lemmas need to know of the maps a refresh ranks by.
LEMMA RankedMaps ==
    ASSUME IInv
    PROVE  /\ IsFiniteSet(Entrants) /\ Entrants \subseteq DOMAIN teams
           /\ \A t \in Entrants : Exposed[t] \in Int /\ TeamNums[t] \in Int
           /\ \A t, u \in Entrants : t # u => TeamNums[t] # TeamNums[u]
           /\ \A t \in Entrants : Skills[t] \in Int \cup {None}
<1>1. Entrants \subseteq Teams /\ Entrants \subseteq DOMAIN teams
  BY DEF Entrants, EventsOf, IInv, ResultsOK
<1>2. IsFiniteSet(Entrants)
  BY <1>1, TeamsAssumption, FS_Subset
<1>3. ASSUME NEW t \in Entrants
      PROVE  Exposed[t] \in Int
  <2>1. Latest(t) \in EventsOf(t)
    BY LatestRow DEF IInv, Entrants
  <2> QED
    BY <2>1 DEF Exposed, EventsOf, IInv, ResultsOK
<1>4. \A t \in Entrants : TeamNums[t] \in {TeamNum[t], IdNum[t]}
  BY <1>1 DEF TeamNums, IInv, TeamsOK
<1>5. /\ \A t \in Entrants : TeamNums[t] \in Int
      /\ \A t, u \in Entrants : t # u => TeamNums[t] # TeamNums[u]
  BY <1>1, <1>4, TeamsAssumption
<1>6. ASSUME NEW t \in Entrants
      PROVE  Skills[t] \in Int \cup {None}
  <2> DEFINE ran == {e \in EventsOf(t) : results[e][t].skills_total # None}
  <2>1. Skills[t] = IF ran = {} THEN None
                    ELSE results[Most(ran, t, "skills_total")][t].skills_total
    BY DEF Skills, BestSkills
  <2>2. \A e \in ran : results[e][t]["skills_total"] \in Int
    BY DEF EventsOf, IInv, ResultsOK
  <2>3. IsFiniteSet(ran)
    BY EventsFinite DEF EventsOf
  <2>4. ran # {} => Most(ran, t, "skills_total") \in ran
    BY <2>2, <2>3, MostIsGreatest DEF Most
  <2> QED
    BY <2>1, <2>2, <2>4
<1> QED
  BY <1>1, <1>2, <1>3, <1>5, <1>6

\* The columns of a new row that the leaderboards use.
LEMMA SeasonSummaryColumns ==
    ASSUME NEW t
    PROVE  /\ SeasonSummary(t).ts_exposed = Exposed[t]
           /\ SeasonSummary(t).ts_rank = Ranked(Entrants, Exposed, TeamNums)[t]
           /\ SeasonSummary(t).region_ts_rank =
                 Get(RankedByRegion(Entrants, TeamRegions, None, Exposed, TeamNums), t, None)
           /\ SeasonSummary(t).percentile_ts = Percentiles(Entrants, Exposed)[t]
           /\ SeasonSummary(t).skills_total = Skills[t]
           /\ SeasonSummary(t).skills_global_rank =
                 SkillsRank(t, Ranked(SkillsTeams, Skills, TeamNums), "skills_global_rank")
           /\ SeasonSummary(t).unqualed_worlds_skills_global_rank =
                 SkillsRank(t, Ranked(NotQualed("qualed_worlds"), Skills, TeamNums),
                            "unqualed_worlds_skills_global_rank")
           /\ SeasonSummary(t).qualed_worlds = SomeEvent(t, "qualed_worlds")
BY DEF SeasonSummary

\* After a refresh the rows are those of the teams with results, all new.
LEMMA Refreshed ==
    ASSUME IInv, RefreshTeamSeasonSummary
    PROVE  /\ DOMAIN summary' = Entrants
           /\ \A t \in Entrants : summary'[t] = SeasonSummary(t)
           /\ Runners' = SkillsTeams
<1>1. /\ DOMAIN summary' = Entrants
      /\ \A t \in Entrants : summary'[t] = SeasonSummary(t)
  BY DEF RefreshTeamSeasonSummary, IInv, SummaryOK
<1>2. \A t \in Entrants : summary'[t].skills_total = Skills[t]
  BY <1>1, SeasonSummaryColumns
<1> QED
  BY <1>1, <1>2 DEF Runners, Summarised, SkillsTeams

\* The place in the region, for the teams that have one.
LEMMA RegionPlace ==
    ASSUME IInv, RefreshTeamSeasonSummary, NEW t \in Entrants
    PROVE  /\ t \in Placed("region_ts_rank")' <=> teams[t].region # None
           /\ teams[t].region # None =>
                 summary'[t].region_ts_rank =
                     Ranked({u \in Entrants : teams[u].region = teams[t].region},
                            Exposed, TeamNums)[t]
<1> DEFINE byRegion == RankedByRegion(Entrants, TeamRegions, None, Exposed, TeamNums)
           mates == {u \in Entrants : teams[u].region = teams[t].region}
<1>1. \A u \in Entrants : TeamRegions[u] = teams[u].region
  BY DEF TeamRegions
<1>2. summary'[t].region_ts_rank = Get(byRegion, t, None)
  BY Refreshed, SeasonSummaryColumns
<1>3. DOMAIN byRegion = {u \in Entrants : teams[u].region # None}
  BY <1>1 DEF RankedByRegion
<1>4. ASSUME teams[t].region # None
      PROVE  byRegion[t] = Ranked(mates, Exposed, TeamNums)[t]
  <2>1. mates = {u \in Entrants : TeamRegions[u] = TeamRegions[t]}
    BY <1>1
  <2> QED
    BY <1>1, <1>4, <2>1 DEF RankedByRegion
<1>5. Ranked(mates, Exposed, TeamNums)[t] \in Nat
  <2>1. IsFiniteSet(mates) /\ t \in mates
        /\ \A u \in mates : Exposed[u] \in Int /\ TeamNums[u] \in Int
    BY RankedMaps, Subset
  <2> QED
    BY <2>1, RankInRange
<1>6. t \in Placed("region_ts_rank")' <=> summary'[t].region_ts_rank # None
  BY Refreshed DEF Placed, Summarised
<1>7. \A n \in Nat : n # None
  BY TeamsAssumption
<1> QED
  BY <1>2, <1>3, <1>4, <1>5, <1>6, <1>7 DEF Get

\* The TrueSkill ranks of a refresh.
LEMMA RefreshedTrueSkill ==
    ASSUME IInv, RefreshTeamSeasonSummary
    PROVE  /\ Orders(Summarised, "ts_exposed", "ts_rank")'
           /\ \A t, u \in Entrants :
                 /\ summary'[t].ts_rank \in 1..Cardinality(Entrants)
                 /\ summary'[t].ts_rank < summary'[u].ts_rank
                       <=> SortsBefore(Exposed, TeamNums, t, u)
<1> DEFINE rank == Ranked(Entrants, Exposed, TeamNums)
<1>1. /\ IsFiniteSet(Entrants)
      /\ \A t \in Entrants : Exposed[t] \in Int /\ TeamNums[t] \in Int
      /\ \A t, u \in Entrants : t # u => TeamNums[t] # TeamNums[u]
  BY RankedMaps
<1>2. DOMAIN summary' = Entrants
  BY Refreshed
<1>3. \A t \in Entrants : /\ summary'[t].ts_rank = rank[t]
                          /\ summary'[t].ts_exposed = Exposed[t]
  BY Refreshed, SeasonSummaryColumns
<1>4. \A t \in Entrants : rank[t] \in 1..Cardinality(Entrants)
  BY <1>1, RankInRange
<1>5. \A t, u \in Entrants :
         /\ rank[t] < rank[u] <=> SortsBefore(Exposed, TeamNums, t, u)
         /\ t # u => rank[t] # rank[u]
  BY <1>1, RankReflectsOrder
<1>6. \A t, u \in Entrants : Exposed[t] > Exposed[u] => SortsBefore(Exposed, TeamNums, t, u)
  BY DEF SortsBefore
<1> HIDE DEF rank
<1>7. ASSUME NEW t \in Entrants, NEW u \in Entrants, t # u
      PROVE  /\ summary'[t]["ts_rank"] # summary'[u]["ts_rank"]
             /\ summary'[t]["ts_exposed"] > summary'[u]["ts_exposed"]
                   => summary'[t]["ts_rank"] < summary'[u]["ts_rank"]
  BY <1>3, <1>5, <1>6, <1>7
<1>8. Orders(Summarised, "ts_exposed", "ts_rank")'
  BY <1>2, <1>7 DEF Orders, Summarised
<1> QED
  BY <1>3, <1>4, <1>5, <1>8

\* The ranks within the regions.
LEMMA RefreshedRegions ==
    ASSUME IInv, RefreshTeamSeasonSummary
    PROVE  /\ \A t \in Placed("region_ts_rank")' :
                 summary'[t].region_ts_rank <= summary'[t].ts_rank
           /\ \A t, u \in Placed("region_ts_rank")' :
                 teams[t].region = teams[u].region /\ summary'[t].ts_rank < summary'[u].ts_rank
                     => summary'[t].region_ts_rank < summary'[u].region_ts_rank
<1> DEFINE Mates(t) == {u \in Entrants : teams[u].region = teams[t].region}
<1>1. /\ IsFiniteSet(Entrants)
      /\ \A t \in Entrants : Exposed[t] \in Int /\ TeamNums[t] \in Int
  BY RankedMaps
<1>2. Placed("region_ts_rank")' \subseteq Entrants
  BY Refreshed DEF Placed, Summarised
<1>3. \A t \in Placed("region_ts_rank")' :
         summary'[t].region_ts_rank = Ranked(Mates(t), Exposed, TeamNums)[t]
  BY <1>2, RegionPlace
<1>4. ASSUME NEW t \in Placed("region_ts_rank")'
      PROVE  summary'[t].region_ts_rank <= summary'[t].ts_rank
  <2>1. t \in Mates(t) /\ Mates(t) \subseteq Entrants
    BY <1>2, <1>4
  <2>2. summary'[t].ts_rank = Ranked(Entrants, Exposed, TeamNums)[t]
    BY <1>2, <1>4, Refreshed, SeasonSummaryColumns
  <2>3. Ranked(Mates(t), Exposed, TeamNums)[t] <= Ranked(Entrants, Exposed, TeamNums)[t]
    <3> HIDE DEF Mates
    <3> QED
      BY <1>1, <2>1, RankAmongFewer
  <2> QED
    BY <1>3, <1>4, <2>2, <2>3
<1>5. ASSUME NEW t \in Placed("region_ts_rank")', NEW u \in Placed("region_ts_rank")',
             teams[t].region = teams[u].region, summary'[t].ts_rank < summary'[u].ts_rank
      PROVE  summary'[t].region_ts_rank < summary'[u].region_ts_rank
  <2>1. SortsBefore(Exposed, TeamNums, t, u)
    BY <1>2, <1>5, RefreshedTrueSkill
  <2>2. Mates(t) = Mates(u) /\ t \in Mates(u) /\ u \in Mates(u) /\ Mates(u) \subseteq Entrants
    BY <1>2, <1>5
  <2>3. Ranked(Mates(u), Exposed, TeamNums)[t] < Ranked(Mates(u), Exposed, TeamNums)[u]
    <3> HIDE DEF Mates
    <3>1. IsFiniteSet(Mates(u)) /\ \A s \in Mates(u) : Exposed[s] \in Int /\ TeamNums[s] \in Int
      BY <1>1, <2>2, Subset
    <3> QED
      BY <2>1, <2>2, <3>1, RankOrders
  <2> QED
    BY <1>3, <1>5, <2>2, <2>3
<1> QED
  BY <1>4, <1>5

\* The skills ranks; an unqualified team is moved up past the qualified ones.
LEMMA RefreshedSkills ==
    ASSUME IInv, RefreshTeamSeasonSummary
    PROVE  /\ Orders(Runners, "skills_total", "skills_global_rank")'
           /\ \A t \in Runners' :
                /\ summary'[t].qualed_worlds <=>
                      summary'[t].unqualed_worlds_skills_global_rank = None
                /\ ~summary'[t].qualed_worlds =>
                      summary'[t].unqualed_worlds_skills_global_rank =
                      summary'[t].skills_global_rank -
                          Cardinality({u \in Runners' :
                              /\ summary'[u].qualed_worlds
                              /\ summary'[u].skills_global_rank
                                    < summary'[t].skills_global_rank})
<1> DEFINE S == SkillsTeams
           Q == {u \in S : SomeEvent(u, "qualed_worlds")}
           rank == Ranked(S, Skills, TeamNums)
           unqualed == Ranked(S \ Q, Skills, TeamNums)
<1>1. /\ S \subseteq Entrants /\ IsFiniteSet(S)
      /\ \A t \in S : Skills[t] \in Int /\ TeamNums[t] \in Int
      /\ \A t, u \in S : t # u => TeamNums[t] # TeamNums[u]
  BY RankedMaps, Subset DEF SkillsTeams
<1>2. /\ Runners' = S
      /\ \A t \in S : summary'[t] = SeasonSummary(t)
  BY <1>1, Refreshed
<1>3. NotQualed("qualed_worlds") = S \ Q
  BY DEF NotQualed
<1>4. \A t \in S : Get(rank, t, None) = rank[t]
  BY DEF Get, Ranked
<1>5. \A t \in S : Get(unqualed, t, None) = IF t \in Q THEN None ELSE unqualed[t]
  BY DEF Get, Ranked
<1>6. ASSUME NEW t \in S
      PROVE  /\ summary'[t].skills_total = Skills[t]
             /\ summary'[t].skills_global_rank = rank[t]
             /\ summary'[t].unqualed_worlds_skills_global_rank =
                   IF t \in Q THEN None ELSE unqualed[t]
             /\ summary'[t].qualed_worlds = SomeEvent(t, "qualed_worlds")
  <2>1. /\ SkillsRank(t, rank, "skills_global_rank") = rank[t]
        /\ SkillsRank(t, unqualed, "unqualed_worlds_skills_global_rank") =
              IF t \in Q THEN None ELSE unqualed[t]
    BY <1>4, <1>5 DEF SkillsRank
  <2>2. /\ summary'[t].skills_total = Skills[t]
        /\ summary'[t].skills_global_rank = SkillsRank(t, rank, "skills_global_rank")
        /\ summary'[t].unqualed_worlds_skills_global_rank =
              SkillsRank(t, Ranked(NotQualed("qualed_worlds"), Skills, TeamNums),
                         "unqualed_worlds_skills_global_rank")
        /\ summary'[t].qualed_worlds = SomeEvent(t, "qualed_worlds")
    BY <1>2, SeasonSummaryColumns
  <2> QED
    BY <1>3, <2>1, <2>2
<1>7. \A t, u \in S :
         /\ rank[t] < rank[u] <=> SortsBefore(Skills, TeamNums, t, u)
         /\ t # u => rank[t] # rank[u]
  <2> HIDE DEF S
  <2> QED
    BY <1>1, RankReflectsOrder
<1>8. \A t, u \in S : Skills[t] > Skills[u] => SortsBefore(Skills, TeamNums, t, u)
  BY DEF SortsBefore
<1>9. ASSUME NEW t \in S \ Q
      PROVE  unqualed[t] = rank[t] -
         Cardinality({u \in S : u \in Q /\ SortsBefore(Skills, TeamNums, u, t)})
  <2> DEFINE out == {u \in S : u \in Q /\ SortsBefore(Skills, TeamNums, u, t)}
  <2>1. out \in SUBSET S
        /\ \A u \in S : u \in out <=> u \in Q /\ SortsBefore(Skills, TeamNums, u, t)
    OBVIOUS
  <2> HIDE DEF S, Q, out
  <2>2. Ranked(S \ Q, Skills, TeamNums)[t] =
           Ranked(S, Skills, TeamNums)[t] - Cardinality(out)
    BY <1>1, <2>1, RankWithout
  <2> QED
    BY <2>2 DEF out
<1>10. \A t \in S \ Q : unqualed[t] # None
  <2> HIDE DEF S, Q
  <2>1. IsFiniteSet(S \ Q)
    BY <1>1, Subset
  <2>2. \A t \in S \ Q : unqualed[t] \in Nat
    BY <1>1, <2>1, RankInRange
  <2> QED
    BY <2>2, TeamsAssumption
<1>11. \A t \in S : t \in Q <=> summary'[t].qualed_worlds
  BY <1>6
<1>12. \A t \in S : {u \in S : u \in Q /\ SortsBefore(Skills, TeamNums, u, t)} =
                    {u \in S : /\ summary'[u].qualed_worlds
                               /\ summary'[u].skills_global_rank
                                     < summary'[t].skills_global_rank}
  BY <1>6, <1>7, <1>11
<1> HIDE DEF S, Q, rank, unqualed
<1>13. ASSUME NEW t \in S, NEW u \in S, t # u
       PROVE  /\ summary'[t]["skills_global_rank"] # summary'[u]["skills_global_rank"]
              /\ summary'[t]["skills_total"] > summary'[u]["skills_total"]
                    => summary'[t]["skills_global_rank"] < summary'[u]["skills_global_rank"]
  BY <1>6, <1>7, <1>8, <1>13
<1>14. Orders(Runners, "skills_total", "skills_global_rank")'
  BY <1>2, <1>13 DEF Orders
<1>15. ASSUME NEW t \in S
       PROVE  /\ summary'[t].qualed_worlds <=>
                    summary'[t].unqualed_worlds_skills_global_rank = None
              /\ ~summary'[t].qualed_worlds =>
                    summary'[t].unqualed_worlds_skills_global_rank =
                    summary'[t].skills_global_rank -
                       Cardinality({u \in S :
                           /\ summary'[u].qualed_worlds
                           /\ summary'[u].skills_global_rank
                                 < summary'[t].skills_global_rank})
  <2>1. CASE t \in Q
    BY <1>6, <1>11, <2>1
  <2>2. CASE t \notin Q
    BY <1>6, <1>9, <1>10, <1>11, <1>12, <2>2
  <2> QED
    BY <2>1, <2>2
<1> QED
  BY <1>2, <1>14, <1>15

\* The percentiles of a refresh.
LEMMA RefreshedPercentiles ==
    ASSUME IInv, RefreshTeamSeasonSummary
    PROVE  \A t, u \in Entrants :
              /\ summary'[t].ts_exposed = summary'[u].ts_exposed =>
                    summary'[t].percentile_ts = summary'[u].percentile_ts
              /\ summary'[t].ts_exposed > summary'[u].ts_exposed =>
                    summary'[t].percentile_ts > summary'[u].percentile_ts
              /\ summary'[t].percentile_ts <= Hundred(Cardinality(Entrants))
              /\ summary'[t].ts_rank = 1 =>
                    summary'[t].percentile_ts = Hundred(Cardinality(Entrants))
<1> DEFINE pct == Percentiles(Entrants, Exposed)
<1> SUFFICES ASSUME NEW t \in Entrants, NEW u \in Entrants
             PROVE  /\ Exposed[t] = Exposed[u] => pct[t] = pct[u]
                    /\ Exposed[t] > Exposed[u] => pct[t] > pct[u]
                    /\ pct[t] <= Hundred(Cardinality(Entrants))
                    /\ summary'[t].ts_rank = 1 => pct[t] = Hundred(Cardinality(Entrants))
  BY Refreshed, SeasonSummaryColumns
<1>1. /\ IsFiniteSet(Entrants)
      /\ \A s \in Entrants : Exposed[s] \in Int
  BY RankedMaps
<1>2. ASSUME summary'[t].ts_rank = 1, NEW w \in Entrants
      PROVE  Exposed[w] <= Exposed[t]
  <2>1. SUFFICES ASSUME Exposed[w] > Exposed[t] PROVE FALSE
    BY <1>1
  <2>2. SortsBefore(Exposed, TeamNums, w, t)
    BY <2>1 DEF SortsBefore
  <2>3. summary'[w].ts_rank < summary'[t].ts_rank /\ summary'[w].ts_rank \in Nat \ {0}
    BY <2>2, RefreshedTrueSkill, FS_CardinalityType, <1>1
  <2> QED
    BY <1>2, <2>3
<1> QED
  BY <1>1, <1>2, PercentileOrders

LEMMA RefreshKeepsInvariant ==
    ASSUME IInv, RefreshTeamSeasonSummary
    PROVE  IInv'
<1>1. UNCHANGED <<todo, seen, ratings, now, teams, results>> /\ pc' = "refreshed"
  BY DEF RefreshTeamSeasonSummary
<1>2. ProcessOK' /\ TeamsOK' /\ ResultsOK'
  BY <1>1 DEF IInv, ProcessOK, TeamsOK, ResultsOK, RefreshTeamSeasonSummary
<1>3. Entrants' = Entrants /\ DOMAIN summary' = Entrants /\ Summarised' = Entrants
  BY <1>1, Refreshed DEF Entrants, EventsOf, Summarised
<1>4. SummaryOK'
  <2>1. \A t \in Placed("region_ts_rank")' : t \in Entrants
    BY Refreshed DEF Placed, Summarised
  <2> QED
    BY <1>1, <1>3, <2>1, RegionPlace DEF SummaryOK
<1>5. LatestSnapshot'
  <2>1. SUFFICES ASSUME NEW t \in DOMAIN ratings
                 PROVE  /\ EventsOf(t) # {}
                        /\ results[Latest(t)][t].ts_exposed = ratings[t]
                        /\ summary'[t].ts_exposed = ratings[t]
    BY <1>1 DEF LatestSnapshot, EventsOf, Latest, Most
  <2>2. /\ EventsOf(t) # {}
        /\ results[Latest(t)][t].ts_exposed = ratings[t]
    BY DEF IInv, LatestSnapshot
  <2>3. t \in Entrants
    BY <2>2 DEF Entrants, IInv, ProcessOK
  <2>4. summary'[t].ts_exposed = Exposed[t]
    BY <2>3, Refreshed, SeasonSummaryColumns
  <2> QED
    BY <2>2, <2>3, <2>4 DEF Exposed
<1>6. RanksConsistent'
  <2>1. IsFiniteSet(Entrants)
    BY RankedMaps
  <2>2. /\ Orders(Summarised, "ts_exposed", "ts_rank")'
        /\ \A t \in Summarised' : summary'[t].ts_rank <= Cardinality(Summarised')
    BY <1>3, <2>1, RefreshedTrueSkill, FS_CardinalityType
  <2>3. \A t, u \in Placed("region_ts_rank")' :
           teams'[t].region = teams'[u].region /\ summary'[t].ts_rank < summary'[u].ts_rank
               => summary'[t].region_ts_rank < summary'[u].region_ts_rank
    BY <1>1, RefreshedRegions
  <2> QED
    BY <1>3, <2>2, <2>3, RefreshedRegions, RefreshedSkills, RefreshedPercentiles
       DEF RanksConsistent
<1> QED
  BY <1>2, <1>4, <1>5, <1>6 DEF IInv

-----------------------------------------------------------------------------
(* The other steps *)

LEMMA ResetKeepsInvariant ==
    ASSUME IInv, ResetState
    PROVE  IInv'
<1>1. UNCHANGED <<seen, ratings, now, teams, results, summary>>
  BY DEF ResetState
<1>2. pc' = "batches" /\ ratings = Empty /\ todo' \subseteq Events
  BY DEF ResetState, IInv, ProcessOK
<1>3. ProcessOK' /\ TeamsOK' /\ ResultsOK' /\ LatestSnapshot'
  BY <1>1, <1>2
     DEF IInv, ProcessOK, TeamsOK, ResultsOK, LatestSnapshot, Empty
<1>4. SummaryOK' /\ RanksConsistent'
  BY <1>1, SummaryKept DEF IInv, ResultsOK
<1> QED
  BY <1>3, <1>4 DEF IInv

LEMMA ExitKeepsInvariant ==
    ASSUME IInv, Exit
    PROVE  IInv'
<1>1. UNCHANGED <<now, teams, results, summary>>
  BY DEF Exit
<1>2. pc' = "none" /\ ratings' = Empty /\ todo' = {} /\ seen' = {}
  BY DEF Exit
<1>3. ProcessOK' /\ TeamsOK' /\ ResultsOK' /\ LatestSnapshot'
  BY <1>1, <1>2
     DEF IInv, ProcessOK, TeamsOK, ResultsOK, LatestSnapshot, Empty
<1>4. SummaryOK' /\ RanksConsistent'
  BY <1>1, SummaryKept DEF IInv, ResultsOK
<1> QED
  BY <1>3, <1>4 DEF IInv

\* A profile is only written for a team that has none.
LEMMA ProfilesKeepInvariant ==
    ASSUME IInv, FetchMissingTeamProfiles
    PROVE  /\ IInv'
           /\ \A t \in DOMAIN teams : teams[t].profile_fetched =>
                 t \in DOMAIN teams' /\ teams'[t] = teams[t]
<1>1. UNCHANGED <<pc, todo, ratings, now, results, summary>> /\ seen' = {}
  BY DEF FetchMissingTeamProfiles
<1>2. PICK fetched \in SUBSET {t \in seen : MissingProfile(t)} :
         teams' = [t \in DOMAIN teams \cup fetched |->
              IF t \in fetched THEN Profile(t) ELSE teams[t]]
  BY DEF FetchMissingTeamProfiles
<1>3. DOMAIN teams' = DOMAIN teams /\ fetched \subseteq DOMAIN teams
  BY <1>2 DEF IInv, TeamsOK
<1>4. \A t \in DOMAIN teams \ fetched : teams'[t] = teams[t]
  BY <1>2
<1>5. \A t \in fetched : ~teams[t].profile_fetched
  BY <1>2, <1>3 DEF MissingProfile
<1>6. ASSUME NEW t \in fetched
      PROVE  /\ teams'[t] \in TeamRow
             /\ teams'[t].team_num = TeamNum[t]
             /\ teams'[t].profile_fetched
  <2>1. teams'[t] = [team_num |-> TeamNum[t], region |-> Region[t], profile_fetched |-> TRUE]
    BY <1>2, <1>6, teams'[t] = Profile(t) DEF Profile
  <2>2. TeamNum[t] \in Int /\ Region[t] \in Regions \cup {None}
    BY <1>3, <1>6, TeamsAssumption DEF IInv, TeamsOK
  <2> QED
    BY <2>1, <2>2 DEF TeamRow
<1>7. TeamsOK'
  BY <1>1, <1>3, <1>4, <1>6 DEF IInv, TeamsOK
<1>8. ProcessOK' /\ ResultsOK' /\ LatestSnapshot'
  BY <1>1, <1>3
     DEF IInv, ProcessOK, ResultsOK, LatestSnapshot, EventsOf, Latest, Most
<1>9. \A t \in DOMAIN teams : teams[t].region # None => teams'[t].region = teams[t].region
  BY <1>4, <1>5 DEF IInv, TeamsOK
<1>10. SummaryOK' /\ RanksConsistent'
  BY <1>1, <1>3, <1>9, SummaryKept DEF IInv, ResultsOK
<1>11. \A t \in DOMAIN teams : teams[t].profile_fetched => teams'[t] = teams[t]
  BY <1>4, <1>5
<1> QED
  BY <1>3, <1>7, <1>8, <1>10, <1>11 DEF IInv

LEMMA NextKeepsInvariant == IInv /\ [Next]_vars => IInv'
<1> SUFFICES ASSUME IInv, [Next]_vars PROVE IInv'
  OBVIOUS
<1>1. CASE ResetState
  BY <1>1, ResetKeepsInvariant
<1>2. CASE RecordEventResults
  BY <1>2, RecordKeepsInvariant
<1>3. CASE FetchMissingTeamProfiles
  BY <1>3, ProfilesKeepInvariant
<1>4. CASE RefreshTeamSeasonSummary
  BY <1>4, RefreshKeepsInvariant
<1>5. CASE Exit
  BY <1>5, ExitKeepsInvariant
<1>6. CASE UNCHANGED vars
  <2>1. UNCHANGED <<pc, todo, seen, ratings, now, teams, results, summary>>
    BY <1>6 DEF vars, process
  <2>2. ProcessOK' /\ TeamsOK' /\ ResultsOK'
    BY <2>1 DEF IInv, ProcessOK, TeamsOK, ResultsOK
  <2>3. LatestSnapshot'
    BY <2>1 DEF IInv, LatestSnapshot, EventsOf, Latest, Most
  <2>4. SummaryOK' /\ RanksConsistent'
    BY <2>1, SummaryKept DEF IInv, ResultsOK
  <2> QED
    BY <2>2, <2>3, <2>4 DEF IInv
<1> QED
  BY <1>1, <1>2, <1>3, <1>4, <1>5, <1>6 DEF Next

\* What a step leaves of the profiles and of the ranks within the regions.
LEMMA StepKeepsPlaces ==
    ASSUME IInv, [Next]_vars
    PROVE  /\ \A t \in DOMAIN teams : teams[t].profile_fetched =>
                /\ t \in DOMAIN teams' /\ teams'[t].profile_fetched
                /\ teams'[t].region = teams[t].region
           /\ \A t \in Placed("region_ts_rank") :
                /\ t \in DOMAIN summary'
                /\ summary'[t].region_ts_rank # None
<1>1. CASE RecordEventResults
  BY <1>1, RecordKeepsInvariant DEF RecordEventResults, Placed, Summarised
<1>2. CASE FetchMissingTeamProfiles
  BY <1>2, ProfilesKeepInvariant DEF FetchMissingTeamProfiles, Placed, Summarised
<1>3. CASE RefreshTeamSeasonSummary
  <2>1. teams' = teams
    BY <1>3 DEF RefreshTeamSeasonSummary
  <2>2. \A t \in Placed("region_ts_rank") : t \in Entrants /\ teams[t].region # None
    BY DEF IInv, SummaryOK, Placed, Summarised
  <2>3. \A t \in Placed("region_ts_rank") : t \in Placed("region_ts_rank")'
    BY <1>3, <2>2, RegionPlace
  <2> QED
    BY <2>1, <2>3 DEF Placed, Summarised
<1>4. CASE ResetState \/ Exit \/ UNCHANGED vars
  BY <1>4 DEF ResetState, Exit, vars, process, Placed, Summarised
<1> QED
  BY <1>1, <1>2, <1>3, <1>4 DEF Next

-----------------------------------------------------------------------------
(* Leaderboards without gaps *)

\* The places of T in a column are 1, 2, 3 and so on, each taken by one team.
Fills(rows, T, column) ==
    /\ \A t \in T : rows[t][column] \in 1..Cardinality(T)
    /\ \A t, u \in T : rows[t][column] = rows[u][column] => t = u
    /\ \A place \in 1..Cardinality(T) : \E t \in T : rows[t][column] = place

InRegion(T, region) == {t \in T : teams[t].region = region}

\* db.py:535-619: the TrueSkill columns, and the skills columns of the teams that
\* have a skills total, are lists of places without gap or tie, of the whole
\* season, of the teams not yet qualified or of a region, between refreshes too:
\* profiles that arrive, teams that qualify and rows kept from earlier refreshes
\* leave them as they are.  A team that lost its only skills run keeps its old
\* skills ranks; it is not among the Runners, and SkillsBoardsDense below says
\* when the columns hold no such rank.
BoardsDense ==
    /\ Fills(summary, Summarised, "ts_rank")
    /\ Fills(summary, Runners, "skills_global_rank")
    /\ Fills(summary, {t \in Runners : ~summary[t].qualed_worlds},
             "unqualed_worlds_skills_global_rank")
    /\ \A region \in Regions :
          /\ Fills(summary, InRegion(Placed("region_ts_rank"), region), "region_ts_rank")
          /\ Fills(summary, InRegion(Runners \cap Placed("skills_region_rank"), region),
                   "skills_region_rank")
          /\ Fills(summary,
                   InRegion(Runners \cap Placed("unqualed_regionals_skills_region_rank"),
                            region),
                   "unqualed_regionals_skills_region_rank")
    /\ \A t \in Runners :
          /\ summary[t].skills_region_rank # None <=> summary[t].region_ts_rank # None
          /\ summary[t].unqualed_regionals_skills_region_rank # None <=>
                /\ summary[t].region_ts_rank # None
                /\ ~summary[t].qualed_regionals
    /\ pc = "refreshed" => \A t \in Summarised :
          summary[t].region_ts_rank # None <=> teams[t].region # None

\* A column that holds the ranks of T is a board of T.
LEMMA RankedFills ==
    ASSUME NEW rows, NEW T, IsFiniteSet(T), NEW column, NEW value, NEW num,
           \A s \in T : value[s] \in Int /\ num[s] \in Int,
           \A s, t \in T : s # t => num[s] # num[t],
           \A t \in T : rows[t][column] = Ranked(T, value, num)[t]
    PROVE  Fills(rows, T, column)
BY RanksFill DEF Fills

\* What RankedByRegion() of a part of the teams gives one of them.
LEMMA PlaceInRegion ==
    ASSUME IInv, NEW S \in SUBSET Entrants, NEW value, \A s \in S : value[s] \in Int,
           NEW t \in S
    PROVE  LET place == Get(RankedByRegion(S, TeamRegions, None, value, TeamNums), t, None)
           IN  /\ place # None <=> teams[t].region # None
               /\ teams[t].region # None =>
                     place = Ranked(InRegion(S, teams[t].region), value, TeamNums)[t]
<1> DEFINE byRegion == RankedByRegion(S, TeamRegions, None, value, TeamNums)
           mates == InRegion(S, teams[t].region)
<1>1. \A u \in S : TeamRegions[u] = teams[u].region
  BY DEF TeamRegions
<1>2. DOMAIN byRegion = {u \in S : teams[u].region # None}
  BY <1>1 DEF RankedByRegion
<1>3. ASSUME teams[t].region # None
      PROVE  byRegion[t] = Ranked(mates, value, TeamNums)[t]
  <2>1. mates = {u \in S : TeamRegions[u] = TeamRegions[t]}
    BY <1>1 DEF InRegion
  <2> QED
    BY <1>1, <1>3, <2>1 DEF RankedByRegion
<1>4. Ranked(mates, value, TeamNums)[t] \in Nat
  <2>1. /\ IsFiniteSet(mates) /\ t \in mates
        /\ \A u \in mates : value[u] \in Int /\ TeamNums[u] \in Int
    BY RankedMaps, Subset DEF InRegion
  <2> QED
    BY <2>1, RankInRange
<1>5. \A n \in Nat : n # None
  BY TeamsAssumption
<1> QED
  BY <1>2, <1>3, <1>4, <1>5 DEF Get

\* A column filled from RankedByRegion() is a board of each region.
LEMMA RegionFills ==
    ASSUME IInv, NEW S \in SUBSET Entrants, NEW value, \A s \in S : value[s] \in Int,
           NEW rows, NEW column,
           \A t \in S : rows[t][column] =
               Get(RankedByRegion(S, TeamRegions, None, value, TeamNums), t, None),
           NEW region \in Regions
    PROVE  Fills(rows, InRegion(S, region), column)
<1> DEFINE T == InRegion(S, region)
<1>1. T \subseteq S /\ \A t \in T : teams[t].region = region /\ region # None
  BY TeamsAssumption DEF InRegion
<1>2. /\ IsFiniteSet(T)
      /\ \A s \in T : value[s] \in Int /\ TeamNums[s] \in Int
      /\ \A s, t \in T : s # t => TeamNums[s] # TeamNums[t]
  <2>1. IsFiniteSet(T)
    BY <1>1, RankedMaps, FS_Subset
  <2> HIDE DEF T
  <2> QED
    BY <1>1, <2>1, RankedMaps
<1>3. ASSUME NEW t \in T
      PROVE  rows[t][column] = Ranked(T, value, TeamNums)[t]
  <2>1. t \in S /\ teams[t].region = region /\ region # None
    BY <1>1
  <2>2. Get(RankedByRegion(S, TeamRegions, None, value, TeamNums), t, None) =
           Ranked(InRegion(S, teams[t].region), value, TeamNums)[t]
    BY <2>1, PlaceInRegion
  <2> QED
    BY <2>1, <2>2
<1> HIDE DEF T
<1>4. Fills(rows, T, column)
  BY <1>2, <1>3, RankedFills
<1> QED
  BY <1>4 DEF T

\* The rank columns of a new row, for the teams that have a skills score.
LEMMA SkillsColumns ==
    ASSUME NEW t \in SkillsTeams
    PROVE  /\ SeasonSummary(t).skills_region_rank =
                 Get(RankedByRegion(SkillsTeams, TeamRegions, None, Skills, TeamNums),
                     t, None)
           /\ SeasonSummary(t).unqualed_worlds_skills_global_rank =
                 Get(Ranked(NotQualed("qualed_worlds"), Skills, TeamNums), t, None)
           /\ SeasonSummary(t).unqualed_regionals_skills_region_rank =
                 Get(RankedByRegion(NotQualed("qualed_regionals"), TeamRegions, None,
                                    Skills, TeamNums), t, None)
           /\ SeasonSummary(t).skills_global_rank =
                 Get(Ranked(SkillsTeams, Skills, TeamNums), t, None)
           /\ SeasonSummary(t).qualed_worlds = SomeEvent(t, "qualed_worlds")
           /\ SeasonSummary(t).qualed_regionals = SomeEvent(t, "qualed_regionals")
BY DEF SeasonSummary, SkillsRank

\* The maps of the skills boards.
LEMMA SkillsMaps ==
    ASSUME IInv
    PROVE  /\ SkillsTeams \in SUBSET Entrants /\ IsFiniteSet(SkillsTeams)
           /\ \A t \in SkillsTeams : Skills[t] \in Int /\ TeamNums[t] \in Int
           /\ \A t, u \in SkillsTeams : t # u => TeamNums[t] # TeamNums[u]
           /\ \A flag : /\ NotQualed(flag) \in SUBSET SkillsTeams
                        /\ IsFiniteSet(NotQualed(flag))
<1>1. SkillsTeams \in SUBSET Entrants
  BY DEF SkillsTeams
<1>2. \A flag : NotQualed(flag) \in SUBSET SkillsTeams
  BY DEF NotQualed
<1>3. IsFiniteSet(SkillsTeams)
  BY <1>1, RankedMaps, FS_Subset
<1>4. \A t \in SkillsTeams : Skills[t] \in Int /\ TeamNums[t] \in Int
  BY <1>1, RankedMaps DEF SkillsTeams
<1> QED
  BY <1>1, <1>2, <1>3, <1>4, RankedMaps, FS_Subset

\* The skills board of the season and the one without the qualified teams.
LEMMA SkillsBoards ==
    ASSUME IInv, RefreshTeamSeasonSummary
    PROVE  /\ Fills(summary', Runners', "skills_global_rank")
           /\ Fills(summary', {t \in Runners' : ~summary'[t].qualed_worlds},
                    "unqualed_worlds_skills_global_rank")
<1> DEFINE U == NotQualed("qualed_worlds")
<1>1. Runners' = SkillsTeams /\ \A t \in SkillsTeams : summary'[t] = SeasonSummary(t)
  BY Refreshed, SkillsMaps
<1>2. \A t \in SkillsTeams :
         /\ summary'[t]["skills_global_rank"] =
               Get(Ranked(SkillsTeams, Skills, TeamNums), t, None)
         /\ summary'[t]["unqualed_worlds_skills_global_rank"] =
               Get(Ranked(U, Skills, TeamNums), t, None)
         /\ summary'[t].qualed_worlds = SomeEvent(t, "qualed_worlds")
  BY <1>1, SkillsColumns
<1>3. {t \in Runners' : ~summary'[t].qualed_worlds} = U
  BY <1>1, <1>2 DEF NotQualed
<1>4. U \subseteq SkillsTeams /\ IsFiniteSet(U)
  BY SkillsMaps
<1>5. \A S : \A t \in S :
         Get(Ranked(S, Skills, TeamNums), t, None) = Ranked(S, Skills, TeamNums)[t]
  BY DEF Get, Ranked
<1> HIDE DEF U
<1>6. Fills(summary', SkillsTeams, "skills_global_rank")
  BY <1>2, <1>5, SkillsMaps, RankedFills
<1>7. Fills(summary', U, "unqualed_worlds_skills_global_rank")
  <2>1. \A t \in U : summary'[t]["unqualed_worlds_skills_global_rank"] =
                        Ranked(U, Skills, TeamNums)[t]
    BY <1>2, <1>4, <1>5
  <2>2. /\ \A s \in U : Skills[s] \in Int /\ TeamNums[s] \in Int
        /\ \A s, t \in U : s # t => TeamNums[s] # TeamNums[t]
    BY <1>4, SkillsMaps
  <2> QED
    BY <1>4, <2>1, <2>2, RankedFills
<1> QED
  BY <1>1, <1>3, <1>6, <1>7

\* Who is on the boards of the regions.
LEMMA OnRegionBoards ==
    ASSUME IInv, RefreshTeamSeasonSummary
    PROVE  /\ \A t \in Entrants : summary'[t].region_ts_rank # None <=> teams[t].region # None
           /\ \A t \in SkillsTeams :
                 /\ summary'[t].skills_region_rank # None <=> teams[t].region # None
                 /\ summary'[t].unqualed_regionals_skills_region_rank # None <=>
                       teams[t].region # None /\ t \in NotQualed("qualed_regionals")
                 /\ summary'[t].qualed_regionals <=> t \notin NotQualed("qualed_regionals")
<1>1. \A t \in Entrants : summary'[t].region_ts_rank # None <=> teams[t].region # None
  BY RegionPlace, Refreshed DEF Placed, Summarised
<1>2. ASSUME NEW t \in SkillsTeams
      PROVE  summary'[t] = SeasonSummary(t)
  BY Refreshed, SkillsMaps
<1>3. ASSUME NEW t \in SkillsTeams
      PROVE  summary'[t].skills_region_rank # None <=> teams[t].region # None
  <2>1. /\ SkillsTeams \in SUBSET Entrants
        /\ \A s \in SkillsTeams : Skills[s] \in Int
    BY SkillsMaps
  <2>2. Get(RankedByRegion(SkillsTeams, TeamRegions, None, Skills, TeamNums), t, None) # None
           <=> teams[t].region # None
    BY <2>1, PlaceInRegion
  <2> QED
    BY <1>2, <2>2, SkillsColumns
<1>4. ASSUME NEW t \in SkillsTeams
      PROVE  summary'[t].unqualed_regionals_skills_region_rank # None <=>
                teams[t].region # None /\ t \in NotQualed("qualed_regionals")
  <2> DEFINE U == NotQualed("qualed_regionals")
             place == Get(RankedByRegion(U, TeamRegions, None, Skills, TeamNums), t, None)
  <2>1. /\ U \in SUBSET Entrants
        /\ \A s \in U : Skills[s] \in Int
    BY SkillsMaps
  <2>2. t \notin U => place = None
    BY DEF Get, RankedByRegion
  <2>3. t \in U => (place # None <=> teams[t].region # None)
    <3> HIDE DEF U
    <3> QED
      BY <2>1, PlaceInRegion
  <2> QED
    BY <1>2, <2>2, <2>3, SkillsColumns
<1>5. ASSUME NEW t \in SkillsTeams
      PROVE  summary'[t].qualed_regionals <=> t \notin NotQualed("qualed_regionals")
  BY <1>2, SkillsColumns DEF NotQualed
<1> QED
  BY <1>1, <1>3, <1>4, <1>5

\* The boards of a region.
LEMMA RegionBoards ==
    ASSUME IInv, RefreshTeamSeasonSummary, NEW region \in Regions
    PROVE  /\ Fills(summary, InRegion(Placed("region_ts_rank"), region), "region_ts_rank")'
           /\ Fills(summary, InRegion(Runners \cap Placed("skills_region_rank"), region),
                    "skills_region_rank")'
           /\ Fills(summary,
                    InRegion(Runners \cap Placed("unqualed_regionals_skills_region_rank"),
                             region),
                    "unqualed_regionals_skills_region_rank")'
<1> DEFINE U == NotQualed("qualed_regionals")
<1>1. /\ teams' = teams /\ region # None
      /\ Summarised' = Entrants /\ Runners' = SkillsTeams
  BY Refreshed, TeamsAssumption DEF RefreshTeamSeasonSummary, Summarised
<1>2. /\ SkillsTeams \in SUBSET Entrants /\ U \in SUBSET SkillsTeams
      /\ \A t \in SkillsTeams : Skills[t] \in Int
      /\ \A t \in Entrants : Exposed[t] \in Int
  BY SkillsMaps, RankedMaps
<1>3. \A t \in Entrants : summary'[t] = SeasonSummary(t)
  BY Refreshed
<1>4. InRegion(Placed("region_ts_rank"), region)' = InRegion(Entrants, region)
  BY <1>1, OnRegionBoards DEF InRegion, Placed
<1>5. InRegion(Runners \cap Placed("skills_region_rank"), region)' =
         InRegion(SkillsTeams, region)
  BY <1>1, <1>2, OnRegionBoards DEF InRegion, Placed
<1>6. InRegion(Runners \cap Placed("unqualed_regionals_skills_region_rank"), region)' =
         InRegion(U, region)
  BY <1>1, <1>2, OnRegionBoards DEF InRegion, Placed
<1>7. \A t \in Entrants : summary'[t]["region_ts_rank"] =
         Get(RankedByRegion(Entrants, TeamRegions, None, Exposed, TeamNums), t, None)
  BY <1>3, SeasonSummaryColumns
<1>8. \A t \in SkillsTeams : summary'[t]["skills_region_rank"] =
         Get(RankedByRegion(SkillsTeams, TeamRegions, None, Skills, TeamNums), t, None)
  BY <1>2, <1>3, SkillsColumns
<1>9. \A t \in U : summary'[t]["unqualed_regionals_skills_region_rank"] =
         Get(RankedByRegion(U, TeamRegions, None, Skills, TeamNums), t, None)
  BY <1>2, <1>3, SkillsColumns
<1> HIDE DEF U
<1>10. Fills(summary', InRegion(Entrants, region), "region_ts_rank")
  BY <1>2, <1>7, RegionFills
<1>11. Fills(summary', InRegion(SkillsTeams, region), "skills_region_rank")
  BY <1>2, <1>8, RegionFills
<1>12. Fills(summary', InRegion(U, region), "unqualed_regionals_skills_region_rank")
  BY <1>2, <1>9, RegionFills
<1> QED
  BY <1>4, <1>5, <1>6, <1>10, <1>11, <1>12 DEF Fills

LEMMA RefreshFillsBoards ==
    ASSUME IInv, RefreshTeamSeasonSummary
    PROVE  BoardsDense'
<1>1. /\ teams' = teams
      /\ Summarised' = Entrants /\ Runners' = SkillsTeams /\ SkillsTeams \subseteq Entrants
  BY Refreshed, SkillsMaps DEF RefreshTeamSeasonSummary, Summarised
<1>2. Fills(summary', Summarised', "ts_rank")
  <2>1. \A t \in Entrants :
           summary'[t]["ts_rank"] = Ranked(Entrants, Exposed, TeamNums)[t]
    BY Refreshed, SeasonSummaryColumns
  <2>2. Fills(summary', Entrants, "ts_rank")
    BY <2>1, RankedMaps, RankedFills
  <2> QED
    BY <1>1, <2>2
<1>3. \A t \in Runners' :
         /\ summary'[t].skills_region_rank # None <=> summary'[t].region_ts_rank # None
         /\ summary'[t].unqualed_regionals_skills_region_rank # None <=>
               /\ summary'[t].region_ts_rank # None
               /\ ~summary'[t].qualed_regionals
  BY <1>1, OnRegionBoards
<1>4. \A t \in Summarised' :
         summary'[t].region_ts_rank # None <=> teams'[t].region # None
  BY <1>1, OnRegionBoards
<1>5. \A region \in Regions :
         /\ Fills(summary, InRegion(Placed("region_ts_rank"), region), "region_ts_rank")'
         /\ Fills(summary, InRegion(Runners \cap Placed("skills_region_rank"), region),
                  "skills_region_rank")'
         /\ Fills(summary,
                  InRegion(Runners \cap Placed("unqualed_regionals_skills_region_rank"),
                           region),
                  "unqualed_regionals_skills_region_rank")'
  BY RegionBoards
<1>6. /\ Fills(summary, Summarised, "ts_rank")'
      /\ Fills(summary, Runners, "skills_global_rank")'
      /\ Fills(summary, {t \in Runners : ~summary[t].qualed_worlds},
               "unqualed_worlds_skills_global_rank")'
  BY <1>2, SkillsBoards
<1> QED
  BY <1>3, <1>4, <1>5, <1>6 DEF BoardsDense

\* The other steps leave the rows alone, and the regions of those on a board.
LEMMA BoardsKept ==
    ASSUME IInv, BoardsDense, summary' = summary,
           \A t \in DOMAIN teams : teams[t].profile_fetched =>
               teams'[t].region = teams[t].region,
           pc' = "refreshed" => pc = "refreshed" /\ teams' = teams
    PROVE  BoardsDense'
<1>1. /\ Summarised' = Summarised /\ Runners' = Runners
      /\ \A column : Placed(column)' = Placed(column)
  BY DEF Summarised, Runners, Placed
<1>2. \A t \in Placed("region_ts_rank") : teams'[t].region = teams[t].region
  <2>1. \A t \in Placed("region_ts_rank") : t \in DOMAIN teams /\ teams[t].region # None
    BY RankedMaps DEF IInv, SummaryOK, Placed, Summarised
  <2> QED
    BY <2>1 DEF IInv, TeamsOK
<1>3. /\ Runners \cap Placed("skills_region_rank") \subseteq Placed("region_ts_rank")
      /\ Runners \cap Placed("unqualed_regionals_skills_region_rank")
            \subseteq Placed("region_ts_rank")
  BY DEF BoardsDense, Placed, Runners
<1>4. \A T \in SUBSET Placed("region_ts_rank") : \A region \in Regions :
         {t \in T : teams'[t].region = region} = {t \in T : teams[t].region = region}
  BY <1>2
<1>5. \A region \in Regions :
         /\ InRegion(Placed("region_ts_rank"), region)' =
               InRegion(Placed("region_ts_rank"), region)
         /\ InRegion(Runners \cap Placed("skills_region_rank"), region)' =
               InRegion(Runners \cap Placed("skills_region_rank"), region)
         /\ InRegion(Runners \cap Placed("unqualed_regionals_skills_region_rank"), region)' =
               InRegion(Runners \cap Placed("unqualed_regionals_skills_region_rank"), region)
  BY <1>1, <1>3, <1>4 DEF InRegion
<1>6. \A T, column : Fills(summary', T, column) <=> Fills(summary, T, column)
  BY DEF Fills
<1> QED
  BY <1>1, <1>5, <1>6 DEF BoardsDense

LEMMA StepKeepsBoards ==
    ASSUME IInv, BoardsDense, [Next]_vars
    PROVE  BoardsDense'
<1>1. CASE RefreshTeamSeasonSummary
  BY <1>1, RefreshFillsBoards
<1>2. CASE ~RefreshTeamSeasonSummary
  <2>1. summary' = summary
    BY <1>2 DEF Next, vars, process, ResetState, RecordEventResults,
                FetchMissingTeamProfiles, Exit
  <2>2. pc' = "refreshed" => pc = "refreshed" /\ teams' = teams
    BY <1>2 DEF Next, vars, process, ResetState, RecordEventResults,
                FetchMissingTeamProfiles, Exit
  <2>3. \A t \in DOMAIN teams : teams[t].profile_fetched =>
           teams'[t].region = teams[t].region
    BY StepKeepsPlaces
  <2> QED
    BY <2>1, <2>2, <2>3, BoardsKept
<1> QED
  BY <1>1, <1>2

-----------------------------------------------------------------------------
(* The whole columns *)

\* The two TrueSkill columns of a season, with every rank they hold: the places
\* of the season and of each region; just after a refresh the teams with a
\* region are all placed.
TrueSkillBoardsDense ==
    /\ Fills(summary, Summarised, "ts_rank")
    /\ \A region \in Regions :
          Fills(summary, InRegion(Placed("region_ts_rank"), region), "region_ts_rank")
    /\ pc = "refreshed" => \A t \in Summarised :
          summary[t].region_ts_rank # None <=> teams[t].region # None

\* The four skills columns of a season, with every rank they hold, and nobody
\* but the teams with a skills total among them.
SkillsBoardsDense ==
    /\ Placed("skills_global_rank") = Runners
    /\ Fills(summary, Placed("skills_global_rank"), "skills_global_rank")
    /\ Fills(summary, Placed("unqualed_worlds_skills_global_rank"),
             "unqualed_worlds_skills_global_rank")
    /\ \A region \in Regions :
          /\ Fills(summary, InRegion(Placed("skills_region_rank"), region),
                   "skills_region_rank")
          /\ Fills(summary,
                   InRegion(Placed("unqualed_regionals_skills_region_rank"), region),
                   "unqualed_regionals_skills_region_rank")

\* A fetch of an event never answers that a team that ran skills there did not.
NoRunWithdrawn ==
    \A e \in Events : \A t \in DOMAIN results[e] :
        results[e][t].skills_total # None => results'[e][t].skills_total # None

HasRun(t) == \E e \in EventsOf(t) : results[e][t].skills_total # None

\* The ranks that the merge keeps for a team without a skills total are none,
\* and a team with one still has the run it comes from.
NoStaleRank ==
    /\ \A t \in Runners : HasRun(t)
    /\ \A t \in Summarised \ Runners :
          /\ summary[t].skills_global_rank = None
          /\ summary[t].skills_region_rank = None
          /\ summary[t].unqualed_worlds_skills_global_rank = None
          /\ summary[t].unqualed_regionals_skills_region_rank = None

\* Who has a skills total for the season: the teams that ran somewhere.
LEMMA SkillsTeamsRan == IInv => \A t \in Entrants : t \in SkillsTeams <=> HasRun(t)
<1> SUFFICES ASSUME IInv, NEW t \in Entrants
             PROVE  t \in SkillsTeams <=> HasRun(t)
  OBVIOUS
<1> DEFINE ran == {e \in EventsOf(t) : results[e][t].skills_total # None}
<1>1. t \in SkillsTeams <=> BestSkills(t) # None
  BY DEF SkillsTeams, Skills
<1>2. CASE ran = {}
  BY <1>1, <1>2 DEF BestSkills, HasRun
<1>3. CASE ran # {}
  <2>1. Most(ran, t, "skills_total") \in ran
    <3>1. ran \subseteq EventsOf(t) /\ ran \subseteq Events
      BY DEF EventsOf
    <3>2. \A e \in ran : results[e][t]["skills_total"] \in Int
      BY <3>1 DEF IInv, ResultsOK, EventsOf
    <3> HIDE DEF ran
    <3> QED
      BY <1>3, <3>1, <3>2, EventsFinite, MostIsGreatest DEF Most
  <2>2. BestSkills(t) = results[Most(ran, t, "skills_total")][t].skills_total
    BY <1>3 DEF BestSkills
  <2> QED
    BY <1>1, <2>1, <2>2 DEF HasRun
<1> QED
  BY <1>2, <1>3

\* A refresh gives the teams that ran their ranks and keeps none for the others.
LEMMA RefreshKeepsNoStaleRank ==
    ASSUME IInv, NoStaleRank, RefreshTeamSeasonSummary
    PROVE  NoStaleRank'
<1>1. /\ Summarised' = Entrants /\ Runners' = SkillsTeams
      /\ \A t \in Entrants : summary'[t] = SeasonSummary(t)
      /\ results' = results /\ SkillsTeams \subseteq Entrants
  BY Refreshed, SkillsMaps DEF RefreshTeamSeasonSummary, Summarised
<1>2. \A t : HasRun(t)' <=> HasRun(t)
  BY <1>1 DEF HasRun, EventsOf
<1>3. ASSUME NEW t \in Entrants, t \notin SkillsTeams
      PROVE  /\ SeasonSummary(t).skills_global_rank = None
             /\ SeasonSummary(t).skills_region_rank = None
             /\ SeasonSummary(t).unqualed_worlds_skills_global_rank = None
             /\ SeasonSummary(t).unqualed_regionals_skills_region_rank = None
  <2>1. t \notin Runners
    BY <1>3, SkillsTeamsRan DEF NoStaleRank
  <2>2. /\ SkillsRank(t, Ranked(SkillsTeams, Skills, TeamNums), "skills_global_rank") = None
        /\ SkillsRank(t, RankedByRegion(SkillsTeams, TeamRegions, None, Skills, TeamNums),
                      "skills_region_rank") = None
        /\ SkillsRank(t, Ranked(NotQualed("qualed_worlds"), Skills, TeamNums),
                      "unqualed_worlds_skills_global_rank") = None
        /\ SkillsRank(t, RankedByRegion(NotQualed("qualed_regionals"), TeamRegions, None,
                                        Skills, TeamNums),
                      "unqualed_regionals_skills_region_rank") = None
    BY <1>3, <2>1 DEF NoStaleRank, SkillsRank, Summarised
  <2> QED
    BY <2>2 DEF SeasonSummary
<1> QED
  BY <1>1, <1>2, <1>3, SkillsTeamsRan DEF NoStaleRank

\* No row of team_event_results is ever deleted.
LEMMA StepKeepsRows ==
    ASSUME IInv, [Next]_vars
    PROVE  \A e \in Events : DOMAIN results[e] \subseteq DOMAIN results'[e]
<1>1. CASE RecordEventResults
  <2>1. PICK e \in Events : \E p \in Payloads[e] : \E rated \in CalcTs(p) :
           Recorded(e, p, rated)
    BY <1>1, MinOfTodo DEF IInv, ProcessOK, RecordEventResults, Recorded
  <2>2. PICK p \in Payloads[e] : \E rated \in CalcTs(p) : Recorded(e, p, rated)
    BY <2>1
  <2>3. PICK rated \in CalcTs(p) : Recorded(e, p, rated)
    BY <2>2
  <2> QED
    BY <2>3, RecordedTables
<1>2. CASE results' = results
  BY <1>2
<1> QED
  BY <1>1, <1>2 DEF Next, vars, process, ResetState, FetchMissingTeamProfiles,
                    RefreshTeamSeasonSummary, Exit

\* Unless a run is withdrawn, the other steps take no run away.
LEMMA StepKeepsNoStaleRank ==
    ASSUME IInv, NoStaleRank, [Next]_vars, [NoRunWithdrawn]_vars
    PROVE  NoStaleRank'
<1>1. CASE RefreshTeamSeasonSummary
  BY <1>1, RefreshKeepsNoStaleRank
<1>2. CASE ~RefreshTeamSeasonSummary
  <2>1. summary' = summary
    BY <1>2 DEF Next, vars, process, ResetState, RecordEventResults,
                FetchMissingTeamProfiles, Exit
  <2>2. \A e \in Events : DOMAIN results[e] \subseteq DOMAIN results'[e]
    BY StepKeepsRows
  <2>3. \A e \in Events : \A t \in DOMAIN results[e] :
           results[e][t].skills_total # None => results'[e][t].skills_total # None
    BY DEF NoRunWithdrawn, vars
  <2>4. \A t : HasRun(t) => HasRun(t)'
    BY <2>2, <2>3 DEF HasRun, EventsOf
  <2>5. Runners' = Runners /\ Summarised' = Summarised
    BY <2>1 DEF Runners, Summarised
  <2> QED
    BY <2>1, <2>4, <2>5 DEF NoStaleRank
<1> QED
  BY <1>1, <1>2

\* Without stale ranks the columns hold the ranks of the teams that ran.
LEMMA NoStaleRankIsEnough == IInv /\ BoardsDense /\ NoStaleRank => SkillsBoardsDense
<1> SUFFICES ASSUME IInv, BoardsDense, NoStaleRank PROVE SkillsBoardsDense
  OBVIOUS
<1>1. \A n \in Nat : n # None
  BY TeamsAssumption
<1>2. Runners \subseteq Summarised /\ \A column : Placed(column) \subseteq Summarised
  BY DEF Runners, Placed
<1>3. Placed("skills_global_rank") = Runners
  <2>1. \A t \in Runners : summary[t]["skills_global_rank"] \in 1..Cardinality(Runners)
    BY DEF BoardsDense, Fills
  <2> QED
    BY <1>1, <1>2, <2>1 DEF NoStaleRank, Placed
<1>4. Placed("unqualed_worlds_skills_global_rank") = {t \in Runners : ~summary[t].qualed_worlds}
  <2>1. \A t \in Runners : summary[t].qualed_worlds <=>
                summary[t].unqualed_worlds_skills_global_rank = None
    BY DEF IInv, RanksConsistent
  <2> QED
    BY <1>2, <2>1 DEF NoStaleRank, Placed
<1>5. Placed("skills_region_rank") = Runners \cap Placed("skills_region_rank")
  BY <1>2 DEF NoStaleRank, Placed
<1>6. Placed("unqualed_regionals_skills_region_rank") =
         Runners \cap Placed("unqualed_regionals_skills_region_rank")
  BY <1>2 DEF NoStaleRank, Placed
<1> QED
  BY <1>3, <1>4, <1>5, <1>6 DEF SkillsBoardsDense, BoardsDense

-----------------------------------------------------------------------------
(* The records of one event *)

Elims(p) == {m \in Played(p) : m.round = "elim"}

\* The teams an elimination match is a win, a loss or a draw for.
Winners(m) == IF m.red_score > m.blue_score THEN m.red
              ELSE IF m.blue_score > m.red_score THEN m.blue ELSE {}
Losers(m) == IF m.red_score > m.blue_score THEN m.blue
             ELSE IF m.blue_score > m.red_score THEN m.red ELSE {}
Drawn(m) == IF m.red_score = m.blue_score THEN m.red \cup m.blue ELSE {}

LEMMA MatchFacts ==
    ASSUME NEW e \in Events, NEW p \in Payloads[e]
    PROVE  /\ IsFiniteSet(Elims(p)) /\ IsFiniteSet(Scored(p))
           /\ \A m \in Elims(p) :
                 /\ m \in Played(p)
                 /\ m.red \subseteq Scored(p) /\ m.blue \subseteq Scored(p)
                 /\ m.red \cap m.blue = {}
                 /\ IsFiniteSet(m.red) /\ IsFiniteSet(m.blue)
                 /\ Cardinality(m.red) = 2 /\ Cardinality(m.blue) = 2
                 /\ m.red_score \in Nat /\ m.blue_score \in Nat
<1>1. IsFiniteSet(p.matches) /\ Elims(p) \subseteq p.matches /\ p.matches \subseteq RawMatch
  BY PayloadsAssumption DEF Elims, Played
<1>2. IsFiniteSet(Elims(p))
  BY <1>1, Subset
<1>3. Scored(p) \subseteq Teams /\ Players(p) \subseteq Scored(p)
  BY ScoredAreTeams
<1>4. IsFiniteSet(Scored(p))
  BY <1>3, Subset, TeamsAssumption
<1>5. ASSUME NEW m \in Elims(p)
      PROVE  /\ m \in Played(p)
             /\ m.red \subseteq Scored(p) /\ m.blue \subseteq Scored(p)
             /\ m.red \cap m.blue = {}
             /\ IsFiniteSet(m.red) /\ IsFiniteSet(m.blue)
             /\ Cardinality(m.red) = 2 /\ Cardinality(m.blue) = 2
             /\ m.red_score \in Nat /\ m.blue_score \in Nat
  <2>1. /\ m \in Played(p) /\ m \in p.matches
        /\ Cardinality(m.red) = 2 /\ Cardinality(m.blue) = 2
    BY DEF Elims, Played
  <2>2. m.red \subseteq Players(p) /\ m.blue \subseteq Players(p)
    BY <2>1 DEF Players
  <2>3. m.red_score \in Nat /\ m.blue_score \in Nat
    BY <1>1, <2>1 DEF RawMatch
  <2>4. m.red \cap m.blue = {}
    BY <2>1, PayloadsAssumption
  <2>5. IsFiniteSet(m.red) /\ IsFiniteSet(m.blue)
    BY <1>3, <1>4, <2>2, Subset
  <2> QED
    BY <1>3, <2>1, <2>2, <2>3, <2>4, <2>5
<1> QED
  BY <1>2, <1>4, <1>5

\* The elimination columns count the matches a team won, lost and drew.
LEMMA ElimColumns ==
    ASSUME NEW e \in Events, NEW p \in Payloads[e], NEW t
    PROVE  /\ ElimRecord(p, t).wins = Cardinality({m \in Elims(p) : t \in Winners(m)})
           /\ ElimRecord(p, t).losses = Cardinality({m \in Elims(p) : t \in Losers(m)})
           /\ ElimRecord(p, t).draws = Cardinality({m \in Elims(p) : t \in Drawn(m)})
           /\ ElimRecord(p, t).matches =
                 Cardinality({m \in Elims(p) : t \in m.red \cup m.blue})
<1> DEFINE mine == {m \in Played(p) : m.round = "elim" /\ t \in m.red \cup m.blue}
           Margin(m) == IF t \in m.red THEN m.red_score - m.blue_score
                                       ELSE m.blue_score - m.red_score
<1>1. mine = {m \in Elims(p) : t \in m.red \cup m.blue}
  BY DEF Elims
<1>2. ASSUME NEW m \in Elims(p)
      PROVE  /\ t \in Winners(m) <=> t \in m.red \cup m.blue /\ Margin(m) > 0
             /\ t \in Losers(m) <=> t \in m.red \cup m.blue /\ Margin(m) < 0
             /\ t \in Drawn(m) <=> t \in m.red \cup m.blue /\ Margin(m) = 0
  <2>1. m.red_score \in Nat /\ m.blue_score \in Nat /\ m.red \cap m.blue = {}
    BY MatchFacts
  <2> QED
    BY <2>1 DEF Winners, Losers, Drawn
<1>3. /\ {m \in mine : Margin(m) > 0} = {m \in Elims(p) : t \in Winners(m)}
      /\ {m \in mine : Margin(m) < 0} = {m \in Elims(p) : t \in Losers(m)}
      /\ {m \in mine : Margin(m) = 0} = {m \in Elims(p) : t \in Drawn(m)}
  BY <1>1, <1>2
<1>4. /\ ElimRecord(p, t).matches = Cardinality(mine)
      /\ ElimRecord(p, t).wins = Cardinality({m \in mine : Margin(m) > 0})
      /\ ElimRecord(p, t).losses = Cardinality({m \in mine : Margin(m) < 0})
      /\ ElimRecord(p, t).draws = Cardinality({m \in mine : Margin(m) = 0})
  BY DEF ElimRecord, Record
<1> QED
  BY <1>1, <1>3, <1>4, Zenon

\* Summed over the teams, a column counts each match once per team it is for.
LEMMA ElimTotal ==
    ASSUME NEW e \in Events, NEW p \in Payloads[e],
           NEW W, NEW column,
           \A m \in Elims(p) : W[m] \subseteq Scored(p),
           \A t \in Scored(p) : column[t] = Cardinality({m \in Elims(p) : t \in W[m]})
    PROVE  SumFunctionOnSet(column, Scored(p)) =
           SumFunctionOnSet([m \in Elims(p) |-> Cardinality(W[m])], Elims(p))
<1> DEFINE S == Scored(p)
           M == Elims(p)
           R == {pair \in S \X M : pair[1] \in W[pair[2]]}
           size == [m \in M |-> Cardinality(W[m])]
<1>1. IsFiniteSet(S) /\ IsFiniteSet(M)
  BY MatchFacts
<1>2. ASSUME NEW t \in S
      PROVE  column[t] = Cardinality(RowOf(R, M, t))
  <2>1. RowOf(R, M, t) = {m \in M : t \in W[m]}
    BY DEF RowOf
  <2> QED
    BY <2>1
<1>3. ASSUME NEW m \in M
      PROVE  size[m] = Cardinality(ColumnOf(R, S, m))
  <2>1. ColumnOf(R, S, m) = W[m]
    BY DEF ColumnOf
  <2> QED
    BY <2>1
<1> HIDE DEF S, M, R, size
<1>4. SumFunctionOnSet(column, S) = SumFunctionOnSet(size, M)
  <2>1. \A t \in S : column[t] = Cardinality(RowOf(R, M, t))
    BY <1>2
  <2>2. \A m \in M : size[m] = Cardinality(ColumnOf(R, S, m))
    BY <1>3
  <2> QED
    BY ONLY <1>1, <2>1, <2>2, DoubleCounting
<1> QED
  BY <1>4 DEF S, M, size

\* Two win and two lose, or four draw.
LEMMA ElimBalances ==
    ASSUME NEW e \in Events, NEW p \in Payloads[e], NEW wins, NEW losses, NEW draws,
           \A t \in Scored(p) : /\ wins[t] = ElimRecord(p, t).wins
                                /\ losses[t] = ElimRecord(p, t).losses
                                /\ draws[t] = ElimRecord(p, t).draws
    PROVE  /\ SumFunctionOnSet(wins, Scored(p)) = SumFunctionOnSet(losses, Scored(p))
           /\ SumFunctionOnSet(draws, Scored(p)) % 4 = 0
<1> DEFINE M == Elims(p)
           won == [m \in M |-> Winners(m)]
           lost == [m \in M |-> Losers(m)]
           drew == [m \in M |-> Drawn(m)]
           Sizes(W) == [m \in M |-> Cardinality(W[m])]
<1>1. ASSUME NEW m \in M
      PROVE  /\ won[m] \subseteq Scored(p) /\ lost[m] \subseteq Scored(p)
             /\ drew[m] \subseteq Scored(p)
             /\ Cardinality(won[m]) = Cardinality(lost[m])
             /\ Cardinality(drew[m]) \in {0, 4}
  <2>1. /\ m.red \subseteq Scored(p) /\ m.blue \subseteq Scored(p)
        /\ m.red \cap m.blue = {}
        /\ IsFiniteSet(m.red) /\ IsFiniteSet(m.blue)
        /\ Cardinality(m.red) = 2 /\ Cardinality(m.blue) = 2
        /\ m.red_score \in Nat /\ m.blue_score \in Nat
    BY MatchFacts
  <2>2. Cardinality(m.red \cup m.blue) = 4
    <3>1. Cardinality(m.red \cup m.blue) =
             Cardinality(m.red) + Cardinality(m.blue) - Cardinality(m.red \cap m.blue)
      BY <2>1, FS_Union
    <3>2. Cardinality(m.red \cap m.blue) = 0
      BY <2>1, FS_EmptySet, Zenon
    <3> QED
      BY <2>1, <3>1, <3>2
  <2> QED
    BY <2>1, <2>2, FS_EmptySet DEF Winners, Losers, Drawn
<1>2. /\ \A t \in Scored(p) : wins[t] = Cardinality({m \in M : t \in won[m]})
      /\ \A t \in Scored(p) : losses[t] = Cardinality({m \in M : t \in lost[m]})
      /\ \A t \in Scored(p) : draws[t] = Cardinality({m \in M : t \in drew[m]})
  <2> SUFFICES ASSUME NEW t \in Scored(p)
               PROVE  /\ wins[t] = Cardinality({m \in M : t \in won[m]})
                      /\ losses[t] = Cardinality({m \in M : t \in lost[m]})
                      /\ draws[t] = Cardinality({m \in M : t \in drew[m]})
    OBVIOUS
  <2>1. /\ {m \in M : t \in won[m]} = {m \in M : t \in Winners(m)}
        /\ {m \in M : t \in lost[m]} = {m \in M : t \in Losers(m)}
        /\ {m \in M : t \in drew[m]} = {m \in M : t \in Drawn(m)}
    OBVIOUS
  <2>2. /\ ElimRecord(p, t).wins = Cardinality({m \in M : t \in Winners(m)})
        /\ ElimRecord(p, t).losses = Cardinality({m \in M : t \in Losers(m)})
        /\ ElimRecord(p, t).draws = Cardinality({m \in M : t \in Drawn(m)})
    BY ElimColumns
  <2> HIDE DEF won, lost, drew, M
  <2> QED
    BY <2>1, <2>2, Zenon
<1>3. /\ SumFunctionOnSet(wins, Scored(p)) = SumFunctionOnSet(Sizes(won), M)
      /\ SumFunctionOnSet(losses, Scored(p)) = SumFunctionOnSet(Sizes(lost), M)
      /\ SumFunctionOnSet(draws, Scored(p)) = SumFunctionOnSet(Sizes(drew), M)
  <2>1. \A m \in M : won[m] \subseteq Scored(p)
    BY <1>1
  <2>2. \A m \in M : lost[m] \subseteq Scored(p)
    BY <1>1
  <2>3. \A m \in M : drew[m] \subseteq Scored(p)
    BY <1>1
  <2> HIDE DEF won, lost, drew
  <2> QED
    BY <1>2, <2>1, <2>2, <2>3, ElimTotal
<1>4. Sizes(won) = Sizes(lost)
  BY <1>1
<1>5. SumFunctionOnSet(Sizes(drew), M) % 4 = 0
  <2>1. \A m \in M : Sizes(drew)[m] \in Nat /\ Sizes(drew)[m] % 4 = 0
    BY <1>1
  <2>2. IsFiniteSet(M)
    BY MatchFacts
  <2> HIDE DEF Sizes, M
  <2> QED
    BY <2>1, <2>2, SumOfFours
<1> HIDE DEF Sizes, won, lost, drew, M
<1> QED
  BY <1>3, <1>4, <1>5

-----------------------------------------------------------------------------
(* Types *)

LEMMA RecordType ==
    ASSUME NEW a \in Nat, NEW b \in Nat, NEW c \in Nat, NEW d \in Nat
    PROVE  Record(a, b, c, d) \in WinLossDraw
BY DEF Record, WinLossDraw

LEMMA PlusRecord ==
    ASSUME NEW a \in WinLossDraw, NEW b \in WinLossDraw
    PROVE  /\ Plus(a, b) \in WinLossDraw
           /\ Plus(a, b) = Record(a.matches + b.matches, a.wins + b.wins,
                                  a.losses + b.losses, a.draws + b.draws)
<1>1. DOMAIN a = {"matches", "wins", "losses", "draws"}
  BY DEF WinLossDraw
<1>2. /\ a.matches \in Nat /\ a.wins \in Nat /\ a.losses \in Nat /\ a.draws \in Nat
      /\ b.matches \in Nat /\ b.wins \in Nat /\ b.losses \in Nat /\ b.draws \in Nat
  BY DEF WinLossDraw
<1>3. Plus(a, b) = [f \in {"matches", "wins", "losses", "draws"} |-> a[f] + b[f]]
  BY <1>1 DEF Plus
<1>4. Plus(a, b) = Record(a.matches + b.matches, a.wins + b.wins,
                          a.losses + b.losses, a.draws + b.draws)
  BY <1>3 DEF Record
<1> QED
  BY <1>2, <1>4, RecordType

\* A record made from a payload is typed and adds up.
LEMMA PayloadRecords ==
    ASSUME NEW e \in Events, NEW p \in Payloads[e], NEW t
    PROVE  /\ QualRecord(p, t) \in WinLossDraw /\ AddsUp(QualRecord(p, t))
           /\ ElimRecord(p, t) \in WinLossDraw /\ AddsUp(ElimRecord(p, t))
<1>1. QualRecord(p, t) \in WinLossDraw /\ AddsUp(QualRecord(p, t))
  <2>1. CASE t \in DOMAIN p.rankings
    <3> DEFINE row == p.rankings[t]
    <3>1. row.wins \in Nat /\ row.losses \in Nat /\ row.ties \in Nat
      BY <2>1, PayloadsAssumption DEF Ranking
    <3> HIDE DEF row
    <3>2. QualRecord(p, t) =
             Record(row.wins + row.losses + row.ties, row.wins, row.losses, row.ties)
      BY <2>1 DEF QualRecord, row
    <3> QED
      BY <3>1, <3>2, RecordType DEF AddsUp, Record
  <2>2. CASE t \notin DOMAIN p.rankings
    BY <2>2, RecordType DEF QualRecord, NoRecord, AddsUp, Record
  <2> QED
    BY <2>1, <2>2
<1>2. ElimRecord(p, t) \in WinLossDraw /\ AddsUp(ElimRecord(p, t))
  <2> DEFINE all == {m \in Elims(p) : t \in m.red \cup m.blue}
             won == {m \in Elims(p) : t \in Winners(m)}
             lost == {m \in Elims(p) : t \in Losers(m)}
             drew == {m \in Elims(p) : t \in Drawn(m)}
  <2>1. /\ ElimRecord(p, t).matches = Cardinality(all)
        /\ ElimRecord(p, t).wins = Cardinality(won)
        /\ ElimRecord(p, t).losses = Cardinality(lost)
        /\ ElimRecord(p, t).draws = Cardinality(drew)
    BY ElimColumns
  <2>2. ASSUME NEW m \in Elims(p)
        PROVE  /\ m \in all <=> m \in won \/ m \in lost \/ m \in drew
               /\ ~ (m \in won /\ m \in lost)
               /\ ~ (m \in won /\ m \in drew)
               /\ ~ (m \in lost /\ m \in drew)
    <3>1. /\ m.red_score \in Nat /\ m.blue_score \in Nat
          /\ m.red \cap m.blue = {}
      BY MatchFacts
    <3> QED
      BY <3>1 DEF Winners, Losers, Drawn
  <2>3. IsFiniteSet(won) /\ IsFiniteSet(lost) /\ IsFiniteSet(drew)
    <3>1. IsFiniteSet(Elims(p))
      BY MatchFacts
    <3>2. won \subseteq Elims(p) /\ lost \subseteq Elims(p) /\ drew \subseteq Elims(p)
      OBVIOUS
    <3> HIDE DEF won, lost, drew
    <3> QED
      BY <3>1, <3>2, Subset
  <2>4. /\ all = (won \cup lost) \cup drew
        /\ won \cap lost = {} /\ (won \cup lost) \cap drew = {}
    BY <2>2
  <2> HIDE DEF all, won, lost, drew
  <2>5. /\ Cardinality(won) \in Nat /\ Cardinality(lost) \in Nat /\ Cardinality(drew) \in Nat
        /\ Cardinality(all) = Cardinality(won) + Cardinality(lost) + Cardinality(drew)
    <3>1. /\ IsFiniteSet(won \cup lost)
          /\ Cardinality(won \cup lost) =
                Cardinality(won) + Cardinality(lost) - Cardinality(won \cap lost)
      BY <2>3, FS_Union
    <3>2. Cardinality((won \cup lost) \cup drew) =
             Cardinality(won \cup lost) + Cardinality(drew)
                - Cardinality((won \cup lost) \cap drew)
      BY <2>3, <3>1, FS_Union
    <3>3. Cardinality(won \cap lost) = 0 /\ Cardinality((won \cup lost) \cap drew) = 0
      BY <2>4, FS_EmptySet, Zenon
    <3>4. Cardinality(won) \in Nat /\ Cardinality(lost) \in Nat /\ Cardinality(drew) \in Nat
      BY <2>3, FS_CardinalityType
    <3>5. Cardinality(all) = Cardinality((won \cup lost) \cup drew)
      BY <2>4
    <3> QED
      BY <3>1, <3>2, <3>3, <3>4, <3>5
  <2>6. ElimRecord(p, t) = Record(Cardinality(all), Cardinality(won),
                                  Cardinality(lost), Cardinality(drew))
    BY <2>1 DEF ElimRecord, Record
  <2> QED
    BY <2>5, <2>6, RecordType DEF AddsUp, Record
<1> QED
  BY <1>1, <1>2

\* A row of an event whose three records agree.
Balanced(row) ==
    /\ AddsUp(row.qual) /\ AddsUp(row.elim)
    /\ row.total = Plus(row.qual, row.elim)

LEMMA EventResultType ==
    ASSUME now \in Nat, NEW e \in Events, NEW p \in Payloads[e],
           NEW rated, \A u \in DOMAIN rated : rated[u] \in Exposures, NEW t
    PROVE  /\ EventResult(p, rated, t) \in ResultRow
           /\ Balanced(EventResult(p, rated, t))
           /\ EventResult(p, rated, t).elim = ElimRecord(p, t)
<1> DEFINE qual == QualRecord(p, t)
           elim == ElimRecord(p, t)
           row == EventResult(p, rated, t)
<1>1. /\ qual \in WinLossDraw /\ AddsUp(qual)
      /\ elim \in WinLossDraw /\ AddsUp(elim)
  BY PayloadRecords
<1>2. Plus(qual, elim) \in WinLossDraw
  <2> HIDE DEF qual, elim
  <2> QED
    BY <1>1, PlusRecord
<1>3. SkillsTotal(p, t) \in Nat \cup {None}
  BY PayloadsAssumption DEF SkillsTotal
<1>4. Get(rated, t, 0) \in Exposures
  BY BoundsAssumption DEF Get
<1>5. row = [qual |-> qual, elim |-> elim, total |-> Plus(qual, elim),
             ts_exposed |-> Get(rated, t, 0), skills_total |-> SkillsTotal(p, t),
             qualed_worlds |-> Qualed(p, t, "worlds"),
             qualed_regionals |-> Qualed(p, t, "regionals"),
             created_at |-> now + 1]
  BY DEF EventResult
<1>6. Qualed(p, t, "worlds") \in BOOLEAN /\ Qualed(p, t, "regionals") \in BOOLEAN
  BY DEF Qualed
<1>7. now + 1 \in Nat \ {0}
  OBVIOUS
<1> HIDE DEF qual, elim, row
<1>8. row \in ResultRow /\ Balanced(row) /\ row.elim = elim
  BY <1>1, <1>2, <1>3, <1>4, <1>5, <1>6, <1>7 DEF ResultRow, Balanced
<1> QED
  BY <1>8 DEF row, elim

\* A rank is a positive number; a team outside the ranked set has none.
LEMMA RankType ==
    ASSUME NEW S, IsFiniteSet(S), NEW value, NEW num,
           \A s \in S : value[s] \in Int /\ num[s] \in Int,
           NEW region, NEW t
    PROVE  /\ Get(Ranked(S, value, num), t, None) \in Rank \cup {None}
           /\ Get(RankedByRegion(S, region, None, value, num), t, None)
                 \in Rank \cup {None}
<1>1. ASSUME NEW T \in SUBSET S, NEW u \in T
      PROVE  Ranked(T, value, num)[u] \in Rank
  <2>1. IsFiniteSet(T) /\ Cardinality(T) \in Nat
    BY Subset
  <2>2. Ranked(T, value, num)[u] \in 1..Cardinality(T)
    BY <2>1, RankInRange
  <2> QED
    BY <2>1, <2>2 DEF Rank
<1>2. DOMAIN Ranked(S, value, num) = S
  BY DEF Ranked
<1>3. Get(Ranked(S, value, num), t, None) \in Rank \cup {None}
  BY <1>1, <1>2 DEF Get
<1> DEFINE byRegion == RankedByRegion(S, region, None, value, num)
<1>4. ASSUME t \in DOMAIN byRegion
      PROVE  byRegion[t] \in Rank
  <2> DEFINE mates == {u \in S : region[u] = region[t]}
  <2>1. t \in S /\ byRegion[t] = Ranked(mates, value, num)[t]
    BY <1>4 DEF RankedByRegion
  <2>2. mates \in SUBSET S /\ t \in mates
    BY <2>1
  <2> HIDE DEF mates
  <2> QED
    BY <1>1, <2>1, <2>2
<1>5. Get(byRegion, t, None) \in Rank \cup {None}
  <2> HIDE DEF byRegion
  <2> QED
    BY <1>4 DEF Get
<1> QED
  BY <1>3, <1>5

\* A percentile lies between 0 and the number of teams.
LEMMA PercentileInRange ==
    ASSUME NEW S, IsFiniteSet(S), NEW value, \A s \in S : value[s] \in Int, NEW t \in S
    PROVE  Percentiles(S, value)[t] \in 0..Cardinality(S)
<1> DEFINE better == {u \in S : value[u] > value[t]}
<1>1. better \subseteq S /\ t \notin better
  OBVIOUS
<1>2. Percentiles(S, value)[t] = Hundred(Cardinality(S)) - Cardinality(better)
  BY DEF Percentiles
<1> HIDE DEF better
<1>3. /\ Cardinality(better) \in Nat /\ Cardinality(S) \in Nat
      /\ Cardinality(better) < Cardinality(S)
  BY <1>1, ProperSubset
<1> QED
  BY <1>2, <1>3 DEF Hundred

\* The columns of Season() are sums over the team's events.
Column(t, scope, f) == [e \in EventsOf(t) |-> results[e][t][scope][f]]
ColumnSum(t, scope, f) == SumFunctionOnSet(Column(t, scope, f), EventsOf(t))

RowsTyped == \A e \in Events : \A t \in DOMAIN results[e] : results[e][t] \in ResultRow
RowsBalanced == \A e \in Events : \A t \in DOMAIN results[e] : Balanced(results[e][t])

LEMMA SeasonFields ==
    ASSUME NEW t, NEW scope
    PROVE  Season(t, scope) = Record(ColumnSum(t, scope, "matches"), ColumnSum(t, scope, "wins"),
                                     ColumnSum(t, scope, "losses"), ColumnSum(t, scope, "draws"))
<1>1. ASSUME NEW f
      PROVE  SumFunction([e \in EventsOf(t) |-> results[e][t][scope][f]])
                = ColumnSum(t, scope, f)
  BY DEF SumFunction, ColumnSum, Column
<1> QED
  BY <1>1 DEF Season

LEMMA SeasonRecords ==
    ASSUME RowsTyped, NEW t
    PROVE  /\ Season(t, "qual") \in WinLossDraw
           /\ Season(t, "elim") \in WinLossDraw
           /\ Season(t, "total") \in WinLossDraw
           /\ RowsBalanced =>
                 /\ AddsUp(Season(t, "qual")) /\ AddsUp(Season(t, "elim"))
                 /\ Season(t, "total") = Plus(Season(t, "qual"), Season(t, "elim"))
<1> DEFINE S == EventsOf(t)
<1>1. IsFiniteSet(S)
  BY EventsFinite DEF EventsOf
<1>2. ASSUME NEW e \in S
      PROVE  /\ results[e][t].qual \in WinLossDraw
             /\ results[e][t].elim \in WinLossDraw
             /\ results[e][t].total \in WinLossDraw
             /\ RowsBalanced => Balanced(results[e][t])
  BY DEF EventsOf, RowsTyped, RowsBalanced, ResultRow
<1>3. ASSUME NEW scope \in {"qual", "elim", "total"},
             NEW f \in {"matches", "wins", "losses", "draws"}
      PROVE  /\ \A e \in S : /\ Column(t, scope, f)[e] \in Nat
                             /\ Column(t, scope, f)[e] \in Int
                             /\ Column(t, scope, f)[e] = results[e][t][scope][f]
             /\ ColumnSum(t, scope, f) \in Nat
  <2>1. \A e \in S : /\ Column(t, scope, f)[e] \in Nat
                     /\ Column(t, scope, f)[e] = results[e][t][scope][f]
    BY <1>2 DEF Column, WinLossDraw
  <2> QED
    BY <1>1, <2>1, SumNat DEF ColumnSum
<1>4. ASSUME NEW scope \in {"qual", "elim", "total"}
      PROVE  Season(t, scope) \in WinLossDraw
  BY <1>3, SeasonFields, RecordType
<1>5. ASSUME RowsBalanced, NEW scope \in {"qual", "elim"}
      PROVE  AddsUp(Season(t, scope))
  <2> DEFINE lost == [e \in S |-> Column(t, scope, "losses")[e] + Column(t, scope, "draws")[e]]
  <2>1. SumFunctionOnSet(lost, S) = ColumnSum(t, scope, "losses") + ColumnSum(t, scope, "draws")
    <3>1. \A e \in S : /\ Column(t, scope, "losses")[e] \in Int
                       /\ Column(t, scope, "draws")[e] \in Int
                       /\ lost[e] = Column(t, scope, "losses")[e] + Column(t, scope, "draws")[e]
      BY <1>3
    <3> HIDE DEF lost, S
    <3> QED
      BY <1>1, <3>1, SumOfSums DEF ColumnSum, S
  <2>2. ColumnSum(t, scope, "matches") = ColumnSum(t, scope, "wins") + SumFunctionOnSet(lost, S)
    <3>1. \A e \in S : /\ Column(t, scope, "wins")[e] \in Int
                       /\ lost[e] \in Int
                       /\ Column(t, scope, "matches")[e] = Column(t, scope, "wins")[e] + lost[e]
      <4> SUFFICES ASSUME NEW e \in S
                   PROVE  /\ Column(t, scope, "wins")[e] \in Int
                          /\ lost[e] \in Int
                          /\ Column(t, scope, "matches")[e] =
                                Column(t, scope, "wins")[e] + lost[e]
        OBVIOUS
      <4>1. AddsUp(results[e][t][scope])
        BY <1>2, <1>5 DEF Balanced
      <4>2. \A f \in {"matches", "wins", "losses", "draws"} :
               /\ Column(t, scope, f)[e] \in Nat
               /\ Column(t, scope, f)[e] = results[e][t][scope][f]
        BY <1>3
      <4>3. lost[e] = Column(t, scope, "losses")[e] + Column(t, scope, "draws")[e]
        OBVIOUS
      <4> QED
        BY <4>1, <4>2, <4>3 DEF AddsUp
    <3> HIDE DEF lost, S
    <3> QED
      BY <1>1, <3>1, SumOfSums DEF ColumnSum, S
  <2>3. /\ ColumnSum(t, scope, "wins") \in Nat /\ ColumnSum(t, scope, "losses") \in Nat
        /\ ColumnSum(t, scope, "draws") \in Nat
    BY <1>3
  <2> HIDE DEF lost
  <2> QED
    BY <2>1, <2>2, <2>3, SeasonFields DEF AddsUp, Record
<1>6. ASSUME RowsBalanced, NEW f \in {"matches", "wins", "losses", "draws"}
      PROVE  ColumnSum(t, "total", f) = ColumnSum(t, "qual", f) + ColumnSum(t, "elim", f)
  <2>1. ASSUME NEW e \in S
        PROVE  /\ Column(t, "qual", f)[e] \in Int /\ Column(t, "elim", f)[e] \in Int
               /\ Column(t, "total", f)[e] = Column(t, "qual", f)[e] + Column(t, "elim", f)[e]
    <3> DEFINE row == results[e][t]
    <3>1. row.qual \in WinLossDraw /\ row.elim \in WinLossDraw
          /\ row.total = Plus(row.qual, row.elim)
      BY <1>2, <1>6 DEF Balanced
    <3>2. row.total = Record(row.qual.matches + row.elim.matches, row.qual.wins + row.elim.wins,
                             row.qual.losses + row.elim.losses, row.qual.draws + row.elim.draws)
      BY <3>1, PlusRecord
    <3>3. row.total[f] = row.qual[f] + row.elim[f]
      BY <3>2 DEF Record
    <3>4. \A scope \in {"qual", "elim", "total"} :
             /\ Column(t, scope, f)[e] \in Int
             /\ Column(t, scope, f)[e] = row[scope][f]
      BY <1>3
    <3> QED
      BY <3>3, <3>4
  <2>2. \A e \in S : /\ Column(t, "qual", f)[e] \in Int /\ Column(t, "elim", f)[e] \in Int
                     /\ Column(t, "total", f)[e] =
                           Column(t, "qual", f)[e] + Column(t, "elim", f)[e]
    BY <2>1
  <2> QED
    BY <1>1, <2>2, SumOfSums DEF ColumnSum
<1>7. ASSUME RowsBalanced
      PROVE  Season(t, "total") = Plus(Season(t, "qual"), Season(t, "elim"))
  <2>1. Season(t, "qual") \in WinLossDraw /\ Season(t, "elim") \in WinLossDraw
    BY <1>4
  <2>2. Plus(Season(t, "qual"), Season(t, "elim")) =
           Record(Season(t, "qual").matches + Season(t, "elim").matches,
                  Season(t, "qual").wins + Season(t, "elim").wins,
                  Season(t, "qual").losses + Season(t, "elim").losses,
                  Season(t, "qual").draws + Season(t, "elim").draws)
    BY <2>1, PlusRecord
  <2> QED
    BY <1>6, <1>7, <2>2, SeasonFields DEF Record
<1> QED
  BY <1>4, <1>5, <1>7

\* A column of the skills ranks: a new rank, or what the row held.
LEMMA SkillsRankType ==
    ASSUME NEW t, NEW column, NEW ranks,
           Get(ranks, t, None) \in Rank \cup {None},
           t \in DOMAIN summary => summary[t][column] \in Rank \cup {None}
    PROVE  SkillsRank(t, ranks, column) \in Rank \cup {None}
BY DEF SkillsRank

LEMMA SeasonSummaryType ==
    ASSUME IInv, TypeOK, NEW t \in Entrants
    PROVE  SeasonSummary(t) \in SummaryRow
<1> DEFINE row == SeasonSummary(t)
<1>1. /\ IsFiniteSet(Entrants) /\ Entrants \subseteq DOMAIN teams /\ Entrants \subseteq Teams
      /\ \A u \in Entrants : Exposed[u] \in Int /\ TeamNums[u] \in Int
      /\ \A u \in Entrants : Skills[u] \in Int \cup {None}
  BY RankedMaps DEF Entrants
<1>2. RowsTyped
  BY DEF TypeOK, IsTable, RowsTyped
<1>3. /\ Season(t, "qual") \in WinLossDraw /\ Season(t, "elim") \in WinLossDraw
      /\ Season(t, "total") \in WinLossDraw
  BY <1>2, SeasonRecords
<1>4. Cardinality(EventsOf(t)) \in Nat \ {0}
  <2>1. IsFiniteSet(EventsOf(t)) /\ EventsOf(t) # {}
    BY EventsFinite DEF EventsOf, Entrants
  <2> QED
    BY <2>1, FS_EmptySet, FS_CardinalityType
<1>5. Exposed[t] \in Exposures
  <2>1. Latest(t) \in EventsOf(t)
    BY LatestRow DEF IInv, Entrants
  <2> QED
    BY <1>2, <2>1 DEF Exposed, EventsOf, RowsTyped, ResultRow
<1>6. Skills[t] \in Nat \cup {None}
  <2> DEFINE ran == {e \in EventsOf(t) : results[e][t].skills_total # None}
  <2>1. Skills[t] = IF ran = {} THEN None
                    ELSE results[Most(ran, t, "skills_total")][t].skills_total
    BY DEF Skills, BestSkills
  <2>2. \A e \in ran : results[e][t]["skills_total"] \in Nat
    BY <1>2 DEF EventsOf, RowsTyped, ResultRow
  <2>3. IsFiniteSet(ran)
    BY EventsFinite DEF EventsOf
  <2>4. ran # {} => Most(ran, t, "skills_total") \in ran
    <3>1. \A e \in ran : results[e][t]["skills_total"] \in Int
      BY <2>2
    <3> QED
      BY <2>3, <3>1, MostIsGreatest DEF Most
  <2> QED
    BY <2>1, <2>2, <2>4
<1>7. row.ts_rank \in Rank /\ row.region_ts_rank \in Rank \cup {None}
  <2>1. /\ Get(Ranked(Entrants, Exposed, TeamNums), t, None) \in Rank \cup {None}
        /\ Get(RankedByRegion(Entrants, TeamRegions, None, Exposed, TeamNums), t, None)
              \in Rank \cup {None}
    BY <1>1, RankType
  <2>2. Ranked(Entrants, Exposed, TeamNums)[t] \in Nat
        /\ Ranked(Entrants, Exposed, TeamNums)[t] \in 1..Cardinality(Entrants)
    BY <1>1, RankInRange
  <2>3. Cardinality(Entrants) \in Nat
    BY <1>1, FS_CardinalityType
  <2> QED
    BY <2>1, <2>2, <2>3, SeasonSummaryColumns DEF Rank
<1>8. row.percentile_ts \in 0..Cardinality(Teams)
  <2>1. Percentiles(Entrants, Exposed)[t] \in 0..Cardinality(Entrants)
    BY <1>1, PercentileInRange
  <2>2. /\ Cardinality(Entrants) \in Nat /\ Cardinality(Teams) \in Nat
        /\ Cardinality(Entrants) <= Cardinality(Teams)
    BY <1>1, TeamsAssumption, Subset
  <2> QED
    BY <2>1, <2>2, SeasonSummaryColumns
<1>9. /\ row.skills_global_rank \in Rank \cup {None}
      /\ row.skills_region_rank \in Rank \cup {None}
      /\ row.unqualed_worlds_skills_global_rank \in Rank \cup {None}
      /\ row.unqualed_regionals_skills_region_rank \in Rank \cup {None}
  <2>1. ASSUME NEW S \in SUBSET SkillsTeams
        PROVE  /\ Get(Ranked(S, Skills, TeamNums), t, None) \in Rank \cup {None}
               /\ Get(RankedByRegion(S, TeamRegions, None, Skills, TeamNums), t, None)
                     \in Rank \cup {None}
    <3>1. \A u \in S : Skills[u] \in Int /\ TeamNums[u] \in Int
      BY <1>1 DEF SkillsTeams
    <3>2. IsFiniteSet(S)
      BY <1>1, Subset DEF SkillsTeams
    <3> QED
      BY <3>1, <3>2, RankType
  <2>2. NotQualed("qualed_worlds") \in SUBSET SkillsTeams
        /\ NotQualed("qualed_regionals") \in SUBSET SkillsTeams
    BY DEF NotQualed
  <2>3. t \in DOMAIN summary => summary[t] \in SummaryRow
    BY DEF TypeOK, IsTable
  <2>4. t \in DOMAIN summary =>
          /\ summary[t]["skills_global_rank"] \in Rank \cup {None}
          /\ summary[t]["skills_region_rank"] \in Rank \cup {None}
          /\ summary[t]["unqualed_worlds_skills_global_rank"] \in Rank \cup {None}
          /\ summary[t]["unqualed_regionals_skills_region_rank"] \in Rank \cup {None}
    BY <2>3 DEF SummaryRow
  <2>5. SkillsTeams \in SUBSET SkillsTeams
    OBVIOUS
  <2>6. SkillsRank(t, Ranked(SkillsTeams, Skills, TeamNums), "skills_global_rank")
           \in Rank \cup {None}
    BY <2>1, <2>4, <2>5, SkillsRankType
  <2>7. SkillsRank(t, RankedByRegion(SkillsTeams, TeamRegions, None, Skills, TeamNums),
                   "skills_region_rank") \in Rank \cup {None}
    BY <2>1, <2>4, <2>5, SkillsRankType
  <2>8. SkillsRank(t, Ranked(NotQualed("qualed_worlds"), Skills, TeamNums),
                   "unqualed_worlds_skills_global_rank") \in Rank \cup {None}
    BY <2>1, <2>2, <2>4, SkillsRankType
  <2>9. SkillsRank(t, RankedByRegion(NotQualed("qualed_regionals"), TeamRegions, None,
                                     Skills, TeamNums),
                   "unqualed_regionals_skills_region_rank") \in Rank \cup {None}
    BY <2>1, <2>2, <2>4, SkillsRankType
  <2> QED
    BY <2>6, <2>7, <2>8, <2>9 DEF SeasonSummary
<1>10. TeamNums[t] \in Int
  BY <1>1
<1>11. SomeEvent(t, "qualed_worlds") \in BOOLEAN /\ SomeEvent(t, "qualed_regionals") \in BOOLEAN
  BY DEF SomeEvent
<1>12. row = [team_num |-> TeamNums[t], events_count |-> Cardinality(EventsOf(t)),
              qual |-> Season(t, "qual"), elim |-> Season(t, "elim"),
              total |-> Season(t, "total"), ts_exposed |-> Exposed[t],
              ts_rank |-> row.ts_rank, region_ts_rank |-> row.region_ts_rank,
              percentile_ts |-> row.percentile_ts, skills_total |-> Skills[t],
              skills_global_rank |-> row.skills_global_rank,
              skills_region_rank |-> row.skills_region_rank,
              unqualed_worlds_skills_global_rank |-> row.unqualed_worlds_skills_global_rank,
              unqualed_regionals_skills_region_rank |->
                  row.unqualed_regionals_skills_region_rank,
              qualed_worlds |-> SomeEvent(t, "qualed_worlds"),
              qualed_regionals |-> SomeEvent(t, "qualed_regionals")]
  BY DEF SeasonSummary
<1> HIDE DEF row
<1>13. row \in SummaryRow
  BY <1>3, <1>4, <1>5, <1>6, <1>7, <1>8, <1>9, <1>10, <1>11, <1>12 DEF SummaryRow
<1> QED
  BY <1>13 DEF row

-----------------------------------------------------------------------------
(* The inductive invariant: typed tables, rows whose records agree *)

\* The last call for an event left elimination records that balance.
EventBalance(rows) ==
    LET Sum(f) == SumFunction([t \in Newest(rows) |-> rows[t].elim[f]])
    IN  Sum("wins") = Sum("losses") /\ Sum("draws") % 4 = 0

SummaryBalance ==
    \A t \in DOMAIN summary :
        /\ AddsUp(summary[t].qual) /\ AddsUp(summary[t].elim)
        /\ summary[t].total = Plus(summary[t].qual, summary[t].elim)

TInv ==
    /\ TypeOK
    /\ RowsBalanced
    /\ \A e \in Events : EventBalance(results[e])
    /\ SummaryBalance

LEMMA TInvIsEnough == TInv => TypeOK /\ RecordsBalance
BY DEF TInv, RecordsBalance, EventBalance, SummaryBalance

\* A table without a row balances.
LEMMA InitTotals == Init => TInv
<1> SUFFICES ASSUME Init PROVE TInv
  OBVIOUS
<1>1. DOMAIN Empty = {} /\ \A R : Empty \in [{} -> R]
  BY DEF Empty
<1>2. \A R : IsTable(Empty, R)
  BY <1>1 DEF IsTable
<1>3. \A e \in Events : results[e] = Empty
  BY DEF Init
<1>4. Entrants = {}
  BY <1>1, <1>3 DEF Entrants, EventsOf
<1>5. TypeOK
  <2>1. DOMAIN results = Events
    BY DEF Init
  <2> QED
    BY <1>2, <1>3, <1>4, <2>1, BoundsAssumption DEF Init, TypeOK
<1>6. RowsBalanced
  BY <1>1, <1>3 DEF RowsBalanced
<1>7. EventBalance(Empty)
  <2> DEFINE Of(f) == [t \in Newest(Empty) |-> Empty[t].elim[f]]
  <2>1. Newest(Empty) = {}
    BY <1>1 DEF Newest
  <2>2. ASSUME NEW f
        PROVE  SumFunction(Of(f)) = 0
    BY <2>1, SumEmpty DEF SumFunction
  <2>3. /\ SumFunction(Of("wins")) = SumFunction(Of("losses"))
        /\ SumFunction(Of("draws")) % 4 = 0
    <3> HIDE DEF Of
    <3> QED
      BY <2>2
  <2> QED
    BY <2>3, Zenon DEF EventBalance
<1>8. SummaryBalance
  BY <1>1 DEF Init, SummaryBalance
<1> QED
  BY <1>3, <1>5, <1>6, <1>7, <1>8 DEF TInv

\* The rows just written are the newest of their event.
LEMMA RecordedNewest ==
    ASSUME IInv, NEW e \in Events, NEW p \in Payloads[e], NEW rated,
           Recorded(e, p, rated), Scored(p) # {}
    PROVE  Newest(results'[e]) = Scored(p)
<1>1. /\ DOMAIN results'[e] = DOMAIN results[e] \cup Scored(p)
      /\ \A t \in Scored(p) : results'[e][t] = EventResult(p, rated, t)
      /\ \A t \in DOMAIN results[e] \ Scored(p) : results'[e][t] = results[e][t]
  BY RecordedTables
<1>2. \A t \in Scored(p) : results'[e][t].created_at = now + 1
  BY <1>1, EventResultColumns
<1>3. now \in Nat /\ \A t \in DOMAIN results[e] : results[e][t].created_at \in 1..now
  BY DEF IInv, ProcessOK, ResultsOK
<1>4. \A t \in DOMAIN results[e] \ Scored(p) :
         results'[e][t].created_at \in 1..now
  BY <1>1, <1>3
<1> QED
  BY <1>1, <1>2, <1>3, <1>4 DEF Newest

LEMMA RecordedBalance ==
    ASSUME IInv, TypeOK, NEW e \in Events, NEW p \in Payloads[e], NEW rated,
           \A u \in DOMAIN rated : rated[u] \in Exposures,
           Recorded(e, p, rated), EventBalance(results[e])
    PROVE  EventBalance(results'[e])
<1>1. CASE Scored(p) = {}
  <2>1. results[e] \in [DOMAIN results[e] -> ResultRow]
    BY DEF TypeOK, IsTable
  <2>2. results'[e] = [t \in DOMAIN results[e] |-> results[e][t]]
    BY <1>1 DEF Recorded, TypeOK
  <2>3. results'[e] = results[e]
    BY <2>1, <2>2
  <2> QED
    BY <2>3
<1>2. CASE Scored(p) # {}
  <2> DEFINE S == Scored(p)
             Of(f) == [t \in Newest(results'[e]) |-> results'[e][t].elim[f]]
  <2>1. Newest(results'[e]) = S
    BY <1>2, RecordedNewest
  <2>2. \A t \in S : results'[e][t].elim = ElimRecord(p, t)
    <3>1. \A t \in S : results'[e][t] = EventResult(p, rated, t)
      BY RecordedTables
    <3>2. now \in Nat
      BY DEF IInv, ProcessOK
    <3> QED
      BY <3>1, <3>2, EventResultType
  <2>3. ASSUME NEW f
        PROVE  SumFunction(Of(f)) = SumFunctionOnSet(Of(f), S)
    BY <2>1 DEF SumFunction
  <2>4. \A t \in S : /\ Of("wins")[t] = ElimRecord(p, t).wins
                     /\ Of("losses")[t] = ElimRecord(p, t).losses
                     /\ Of("draws")[t] = ElimRecord(p, t).draws
    BY <2>1, <2>2
  <2>5. /\ SumFunctionOnSet(Of("wins"), S) = SumFunctionOnSet(Of("losses"), S)
        /\ SumFunctionOnSet(Of("draws"), S) % 4 = 0
    <3> HIDE DEF Of
    <3> QED
      BY <2>4, ElimBalances
  <2>6. /\ SumFunction(Of("wins")) = SumFunction(Of("losses"))
        /\ SumFunction(Of("draws")) % 4 = 0
    <3> HIDE DEF Of, S
    <3> QED
      BY <2>3, <2>5
  <2> QED
    BY <2>6, Zenon DEF EventBalance
<1> QED
  BY <1>1, <1>2

\* RecordEventResults: the rows of one event are replaced or kept.
LEMMA RecordKeepsTotals ==
    ASSUME IInv, IInv', TInv, RecordEventResults
    PROVE  TInv'
<1>1. /\ todo # {} /\ now < MaxRecords
      /\ \E p \in Payloads[Min(todo)] : \E rated \in CalcTs(p) : Recorded(Min(todo), p, rated)
  BY DEF RecordEventResults, Recorded
<1>2. Min(todo) \in todo /\ todo \subseteq Events
  BY <1>1, MinOfTodo DEF IInv, ProcessOK
<1>3. PICK e \in Events : \E p \in Payloads[e] : \E rated \in CalcTs(p) : Recorded(e, p, rated)
  BY <1>1, <1>2
<1>4. PICK p \in Payloads[e] : \E rated \in CalcTs(p) : Recorded(e, p, rated)
  BY <1>3
<1>5. PICK rated \in CalcTs(p) : Recorded(e, p, rated)
  BY <1>4
<1>6. /\ DOMAIN results' = Events
      /\ DOMAIN results'[e] = DOMAIN results[e] \cup Scored(p)
      /\ \A t \in Scored(p) : results'[e][t] = EventResult(p, rated, t)
      /\ \A t \in DOMAIN results[e] \ Scored(p) : results'[e][t] = results[e][t]
      /\ \A f \in Events \ {e} : results'[f] = results[f]
  BY <1>5, RecordedTables
<1>7. Scored(p) \subseteq Teams /\ Players(p) \subseteq Scored(p)
  BY ScoredAreTeams
<1>8. IsTable(rated, Exposures)
  <2>1. PICK outcome \in Outcomes :
           rated = [t \in DOMAIN ratings \cup Players(p) |->
                       IF t \in Players(p) THEN outcome[t] ELSE ratings[t]]
    BY DEF CalcTs
  <2>2. \A t \in Teams : outcome[t] \in Exposures
    BY BoundsAssumption
  <2>3. DOMAIN ratings \subseteq Teams /\ \A t \in DOMAIN ratings : ratings[t] \in Exposures
    BY DEF TInv, TypeOK, IsTable
  <2> QED
    BY <1>7, <2>1, <2>2, <2>3 DEF IsTable
<1>9. now \in Nat
  BY DEF IInv, ProcessOK
<1>10. \A t \in Scored(p) : /\ results'[e][t] \in ResultRow
                           /\ Balanced(results'[e][t])
  BY <1>6, <1>8, <1>9, EventResultType DEF IsTable
<1>11. \A f \in Events : IsTable(results[f], ResultRow)
  BY DEF TInv, TypeOK
<1>12. IsTable(results'[e], ResultRow)
  <2>1. results'[e] = [t \in DOMAIN results[e] \cup Scored(p) |->
           IF t \in Scored(p) THEN EventResult(p, rated, t) ELSE results[e][t]]
    BY <1>5 DEF Recorded, TInv, TypeOK
  <2>2. results'[e] = [t \in DOMAIN results'[e] |-> results'[e][t]]
    BY <2>1
  <2>3. \A t \in DOMAIN results'[e] : results'[e][t] \in ResultRow
    BY <1>6, <1>10, <1>11 DEF IsTable
  <2>4. DOMAIN results'[e] \subseteq Teams
    BY <1>6, <1>7, <1>11 DEF IsTable
  <2> QED
    BY <2>2, <2>3, <2>4 DEF IsTable
<1>13. IsTable(teams', TeamRow)
  <2>1. teams' = [t \in DOMAIN teams \cup Scored(p) |->
                     IF t \in Scored(p) THEN MergeTeam(t, NumAt(p, t)) ELSE teams[t]]
    BY <1>5 DEF Recorded, MergedTeams
  <2>2. teams' = [t \in DOMAIN teams' |-> teams'[t]]
    BY <2>1
  <2>3. DOMAIN teams' \subseteq Teams /\ \A t \in DOMAIN teams' : teams'[t] \in TeamRow
    BY DEF IInv, TeamsOK
  <2> QED
    BY <2>2, <2>3 DEF IsTable
<1>14. TypeOK'
  <2>1. /\ pc' \in {"none", "batches", "refreshed"} /\ todo' \subseteq Events
        /\ seen' \subseteq Teams
    BY DEF IInv, ProcessOK, TeamsOK
  <2>2. ratings' = rated /\ now' = now + 1 /\ summary' = summary
    BY <1>5 DEF Recorded
  <2>3. now' \in 0..MaxRecords
    BY <1>1, <1>9, <2>2, BoundsAssumption
  <2>4. \A f \in Events : IsTable(results'[f], ResultRow)
    BY <1>6, <1>11, <1>12
  <2>5. Entrants' \subseteq DOMAIN teams'
    BY DEF IInv, ResultsOK, Entrants, EventsOf
  <2>6. IsTable(summary', SummaryRow) /\ IsTable(ratings', Exposures)
    BY <1>8, <2>2 DEF TInv, TypeOK
  <2> QED
    BY <1>6, <1>13, <2>1, <2>3, <2>4, <2>5, <2>6 DEF TypeOK
<1>15. RowsBalanced'
  BY <1>6, <1>10 DEF TInv, RowsBalanced
<1>16. \A f \in Events : EventBalance(results'[f])
  <2>1. EventBalance(results'[e])
    BY <1>5, <1>8, RecordedBalance DEF IsTable, TInv
  <2> QED
    BY <1>6, <2>1 DEF TInv
<1>17. SummaryBalance'
  BY <1>5 DEF Recorded, TInv, SummaryBalance
<1> QED
  BY <1>14, <1>15, <1>16, <1>17 DEF TInv

\* RefreshTeamSeasonSummary: every row is made from the season's rows.
LEMMA RefreshKeepsTotals ==
    ASSUME IInv, TInv, RefreshTeamSeasonSummary
    PROVE  TInv'
<1>1. UNCHANGED <<todo, seen, ratings, now, teams, results>> /\ pc' = "refreshed"
  BY DEF RefreshTeamSeasonSummary
<1>2. DOMAIN summary' = Entrants /\ \A t \in Entrants : summary'[t] = SeasonSummary(t)
  BY Refreshed
<1>3. Entrants' = Entrants
  BY <1>1 DEF Entrants, EventsOf
<1>4. IsTable(summary', SummaryRow)
  <2>1. summary' = [t \in DOMAIN summary' |-> summary'[t]]
    BY DEF RefreshTeamSeasonSummary
  <2>2. \A t \in Entrants : summary'[t] \in SummaryRow
    BY <1>2, SeasonSummaryType DEF TInv
  <2>3. Entrants \subseteq Teams
    BY DEF Entrants
  <2> QED
    BY <1>2, <2>1, <2>2, <2>3 DEF IsTable
<1>5. TypeOK'
  BY <1>1, <1>3, <1>4 DEF TInv, TypeOK
<1>6. SummaryBalance'
  <2>1. RowsTyped
    BY DEF TInv, TypeOK, IsTable, RowsTyped
  <2>2. ASSUME NEW t \in Entrants
        PROVE  /\ AddsUp(Season(t, "qual")) /\ AddsUp(Season(t, "elim"))
               /\ Season(t, "total") = Plus(Season(t, "qual"), Season(t, "elim"))
    BY <2>1, SeasonRecords DEF TInv
  <2>3. ASSUME NEW t \in Entrants
        PROVE  /\ summary'[t].qual = Season(t, "qual")
               /\ summary'[t].elim = Season(t, "elim")
               /\ summary'[t].total = Season(t, "total")
    BY <1>2 DEF SeasonSummary
  <2> QED
    BY <1>2, <2>2, <2>3 DEF SummaryBalance
<1>7. RowsBalanced' /\ \A e \in Events : EventBalance(results'[e])
  BY <1>1 DEF TInv, RowsBalanced
<1> QED
  BY <1>5, <1>6, <1>7 DEF TInv

\* Profiles are rows of teams; the other tables stay.
LEMMA ProfilesKeepTotals ==
    ASSUME IInv, IInv', TInv, FetchMissingTeamProfiles
    PROVE  TInv'
<1>1. UNCHANGED <<pc, todo, ratings, now, results, summary>>
  BY DEF FetchMissingTeamProfiles
<1>2. teams' = [t \in DOMAIN teams' |-> teams'[t]]
  BY DEF FetchMissingTeamProfiles
<1>3. /\ DOMAIN teams' \subseteq Teams /\ \A t \in DOMAIN teams' : teams'[t] \in TeamRow
      /\ seen' \subseteq Teams
  BY DEF IInv, TeamsOK
<1>4. IsTable(teams', TeamRow)
  BY <1>2, <1>3 DEF IsTable
<1>5. Entrants' \subseteq DOMAIN teams'
  BY DEF IInv, ResultsOK, Entrants, EventsOf
<1>6. TypeOK'
  BY <1>1, <1>3, <1>4, <1>5 DEF TInv, TypeOK
<1> QED
  BY <1>1, <1>6 DEF TInv, RowsBalanced, SummaryBalance

\* ResetState, Exit and a stutter leave the tables alone.
LEMMA IdleKeepsTotals ==
    ASSUME TInv, ResetState \/ Exit \/ UNCHANGED vars
    PROVE  TInv'
<1>1. UNCHANGED <<now, teams, results, summary>>
  BY DEF ResetState, Exit, vars, process
<1>2. /\ pc' \in {"none", "batches", "refreshed"} /\ todo' \subseteq Events
      /\ seen' \subseteq Teams /\ IsTable(ratings', Exposures)
  <2>1. IsTable(Empty, Exposures)
    BY DEF IsTable, Empty
  <2> QED
    BY <2>1 DEF ResetState, Exit, vars, process, TInv, TypeOK
<1>3. TypeOK'
  BY <1>1, <1>2 DEF TInv, TypeOK, Entrants, EventsOf
<1> QED
  BY <1>1, <1>3 DEF TInv, RowsBalanced, SummaryBalance

LEMMA StepKeepsTotals ==
    ASSUME IInv, IInv', TInv, [Next]_vars
    PROVE  TInv'
BY RecordKeepsTotals, RefreshKeepsTotals, ProfilesKeepTotals, IdleKeepsTotals DEF Next

-----------------------------------------------------------------------------
(* Theorems *)

\* Every reachable state satisfies the inductive invariant.
THEOREM InductiveInvariant == Spec => []IInv
<1>1. Init => IInv
  BY InitInvariant
<1>2. IInv /\ [Next]_vars => IInv'
  BY NextKeepsInvariant
<1> QED
  BY <1>1, <1>2, PTL DEF Spec

\* The leaderboards of a season (db.py:535-644) agree with the numbers they
\* rank and with each other after every refresh, for any teams and payloads.
THEOREM LeaderboardsConsistent == Spec => []RanksConsistent
<1>1. IInv => RanksConsistent
  BY DEF IInv
<1> QED
  BY <1>1, InductiveInvariant, PTL

\* The rating of every team a process has rated is what the row created last
\* holds (tournament_stats.py:158-166), and what the summary then shows.
THEOREM SnapshotIsRating == Spec => []LatestSnapshot
<1>1. IInv => LatestSnapshot
  BY DEF IInv
<1> QED
  BY <1>1, InductiveInvariant, PTL

\* Recording results never takes a profile back (db.py:329), so a team ranked
\* in its region stays ranked there.
THEOREM PlacesKept == Spec => PlacedForGood
<1>1. IInv /\ [Next]_vars =>
        [/\ \A t \in DOMAIN teams : teams[t].profile_fetched =>
             /\ t \in DOMAIN teams' /\ teams'[t].profile_fetched
             /\ teams'[t].region = teams[t].region
         /\ \A t \in Placed("region_ts_rank") :
             /\ t \in DOMAIN summary'
             /\ summary'[t].region_ts_rank # None]_vars
  BY StepKeepsPlaces
<1> QED
  BY <1>1, InductiveInvariant, PTL DEF Spec, PlacedForGood

\* The boards of the teams that have a skills total, and the TrueSkill boards,
\* are dense whatever is recorded, fetched or kept from earlier refreshes.
LEMMA BoardsInvariant == Spec => []BoardsDense
<1>1. Init => BoardsDense
  <2> SUFFICES ASSUME Init PROVE BoardsDense
    OBVIOUS
  <2>1. Summarised = {} /\ Runners = {} /\ pc # "refreshed"
        /\ Placed("region_ts_rank") = {}
    BY DEF Init, Empty, Summarised, Runners, Placed
  <2>2. \A rows, column : Fills(rows, {}, column)
    BY FS_EmptySet DEF Fills
  <2>3. \A region : /\ InRegion({}, region) = {}
                    /\ \A column : InRegion({} \cap Placed(column), region) = {}
    BY DEF InRegion
  <2>4. {t \in {} : ~summary[t].qualed_worlds} = {}
    OBVIOUS
  <2> QED
    BY <2>1, <2>2, <2>3, <2>4 DEF BoardsDense
<1>2. IInv /\ BoardsDense /\ [Next]_vars => BoardsDense'
  BY StepKeepsBoards
<1> QED
  BY <1>1, <1>2, InductiveInvariant, PTL DEF Spec

\* The TrueSkill boards of a season and of each region (db.py:578-619) are lists
\* of places 1, 2, 3, ... without gap or tie at every moment, between refreshes
\* too, whatever is recorded and whichever profiles arrive.
THEOREM TrueSkillBoardsHaveNoGap == Spec => []TrueSkillBoardsDense
<1>1. BoardsDense => TrueSkillBoardsDense
  BY DEF BoardsDense, TrueSkillBoardsDense
<1> QED
  BY <1>1, BoardsInvariant, PTL

\* The four skills boards (db.py:535-575) are such lists too, of the teams with a
\* skills total, as long as no fetch takes a team's skills runs back.  The
\* assumption is needed: the merge of the row keeps the ranks of a team whose
\* only runs are withdrawn, next to the new ranks of the others.
THEOREM SkillsBoardsHaveNoGap ==
    Spec /\ [][NoRunWithdrawn]_vars => []SkillsBoardsDense
<1>1. Init => NoStaleRank
  <2> SUFFICES ASSUME Init PROVE NoStaleRank
    OBVIOUS
  <2>1. Summarised = {} /\ Runners = {}
    BY DEF Init, Empty, Summarised, Runners
  <2> QED
    BY <2>1 DEF NoStaleRank
<1>2. IInv /\ NoStaleRank /\ [Next]_vars /\ [NoRunWithdrawn]_vars => NoStaleRank'
  BY StepKeepsNoStaleRank
<1>3. IInv /\ BoardsDense /\ NoStaleRank => SkillsBoardsDense
  BY NoStaleRankIsEnough
<1> QED
  BY <1>1, <1>2, <1>3, InductiveInvariant, BoardsInvariant, PTL DEF Spec

\* The tables are typed, and the rows of every event agree with themselves and
\* with each other, in every reachable state.
THEOREM TotalsInvariant == Spec => []TInv
<1>1. Init => TInv
  BY InitTotals
<1>2. IInv /\ IInv' /\ TInv /\ [Next]_vars => TInv'
  BY StepKeepsTotals
<1> QED
  BY <1>1, <1>2, InductiveInvariant, PTL DEF Spec

\* Every table keeps its type, and the join of refresh_team_season_summary()
\* (db.py:455-644) drops no team that has a result.
THEOREM TablesTyped == Spec => []TypeOK
<1>1. TInv => TypeOK
  BY TInvIsEnough
<1> QED
  BY <1>1, TotalsInvariant, PTL

\* Every win in an elimination match is somebody's loss (tournament_stats.py:
\* 90-125), and the season's records add up, for any teams and any payloads in
\* which a team plays on one side of a match.
THEOREM RecordsAddUp == Spec => []RecordsBalance
<1>1. TInv => RecordsBalance
  BY TInvIsEnough
<1> QED
  BY <1>1, TotalsInvariant, PTL
=============================================================================
