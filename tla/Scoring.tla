------------------------------ MODULE Scoring ------------------------------
(***************************************************************************)
(* What a network is worth: the two searches the final scoreboard rests on  *)
(* (scoring.ts, graph/), on every network a table can build.                *)
(*                                                                          *)
(*  - The longest trail of a side: a depth-first search per component with  *)
(*    an upper bound (graph/longestTrail.ts).                               *)
(*  - The tickets of a side: each of its stations borrows one track of the  *)
(*    others, chosen by a branch-and-bound search over the components of    *)
(*    the side's own track (graph/connectivity.ts, evaluateTickets).        *)
(*                                                                          *)
(* Each is compared with its definition, and the tickets locked while the   *)
(* game runs with those that count at its end.  The table only grows:       *)
(* claims, stations, tickets, in any order, for nobody is forced to claim   *)
(* on a turn.  Cards, trains and turns are module Turn.  Left out: the      *)
(* step budgets of the searches, far above what they need here, the         *)
(* blessings of the random events, and the ranking of equal totals.         *)
(***************************************************************************)
EXTENDS Integers, Sequences, FiniteSets, SequencesExt, FiniteSetsExt

CONSTANTS Player, City, Route, Ticket,
          Ends,         \* route -> its two cities
          Length,       \* route -> its length
          Group,        \* route -> its parallel group
          Goal,         \* ticket -> [a, b, value]
          StationsPer,  \* ruleParams.stationsPerPlayer
          Rules,        \* bound: the rules [side, unlimited, lenient] a game is played by
          Claimers, Builders, Builds,  \* bound: who claims, who builds stations, and where
          Keeper,       \* bound: who draws the last ticket
          FirstTickets  \* player -> the tickets kept at the start

ASSUME ScoringAssumption ==
  /\ Route \subseteq Nat \ {0} /\ IsFiniteSet(Route) /\ City \subseteq Nat
  /\ Ticket \subseteq Nat /\ IsFiniteSet(Ticket)
  /\ \A r \in Route : Ends[r] \in City \X City /\ Ends[r][1] # Ends[r][2] /\ Length[r] \in Nat \ {0}
  /\ \A t \in Ticket : Goal[t] \in [a : City, b : City, value : Nat \ {0}] /\ Goal[t].a # Goal[t].b
  /\ Player \subseteq Nat \ {0} /\ Keeper \in Player /\ Claimers \subseteq Player /\ Builders \subseteq Player
  /\ Builds \subseteq City
  /\ FirstTickets \in [Player -> SUBSET Ticket]
  /\ \A g \in Rules : g.side \in [Player -> SUBSET Player] /\ \A p \in Player : p \in g.side[p]

VARIABLES owner,     \* route -> its owner, or 0
          stations,  \* the stations in the order they were built: <<player, city>>
          kept,      \* player -> tickets kept
          locked,    \* player -> completedTickets
          rules      \* the rules of this game, fixed at its creation

vars == <<owner, stations, kept, locked, rules>>

Side(p) == rules.side[p]
Track(p) == {r \in Route : owner[r] \in Side(p)}
\* The stations of the side, by their place in the order they were built.
Built(p) == {i \in DOMAIN stations : stations[i][1] \in Side(p)}

(***************************************************************************)
(* UnionFind: once the given tracks are joined, the class of each city.     *)
(***************************************************************************)
Class ==
  [edges \in SUBSET Route |->
     FoldSet(LAMBDA r, P : [c \in City |-> IF P[c] = P[Ends[r][1]] THEN P[Ends[r][2]] ELSE P[c]],
             [c \in City |-> c], edges)]
Same(edges, a, b) == Class[edges][a] = Class[edges][b]
Met(edges, ts) == {t \in ts : Same(edges, Goal[t].a, Goal[t].b)}

(***************************************************************************)
(* Borrowing.                                                               *)
(***************************************************************************)
\* borrowCandidatesForCity: the tracks of the other sides at a city.
Candidates(p, c) ==
  {r \in Route : c \in {Ends[r][1], Ends[r][2]} /\ owner[r] # 0 /\ r \notin Track(p)}
\* stationBorrowEdges: everything the side's stations see.
BorrowEdges(p) == UNION {Candidates(p, s[2]) : s \in {x \in ToSet(stations) : x[1] \in Side(p)}}

(***************************************************************************)
(* Instant completion (lockCompletedTickets), after every claim, station    *)
(* and keep: with all borrows under unlimitedStationBorrow, else by track.  *)
(***************************************************************************)
\* The mutant takes the borrows of the player's own stations only.
BorrowedByOwn(p) ==
  UNION {Candidates(p, s[2]) : s \in {x \in ToSet(stations) : x[1] = p}}
Borrowed(p) == BorrowEdges(p)
Network(p) == Track(p) \cup IF rules.unlimited THEN Borrowed(p) ELSE {}
Connected(p) == Met(Network(p), kept[p])
Lock == locked' = [p \in Player |-> locked[p] \cup Connected(p)']

Init ==
  /\ owner = [r \in Route |-> 0] /\ stations = <<>>
  /\ kept = FirstTickets /\ locked = [p \in Player |-> {}]
  /\ rules \in Rules

\* applyClaimRoute: a free track of a group in which the side holds none.
ClaimRoute(p, r) ==
  /\ owner[r] = 0
  /\ \A o \in Route : Group[o] = Group[r] => owner[o] \notin Side(p)
  /\ owner' = [owner EXCEPT ![r] = p]
  /\ UNCHANGED <<stations, kept, rules>>
  /\ Lock

\* applyBuildStation: one station per city, stationsPerPlayer per player.
BuildStation(p, c) ==
  /\ \A s \in ToSet(stations) : s[2] # c
  /\ Len(SelectSeq(stations, LAMBDA s : s[1] = p)) < StationsPer
  /\ stations' = Append(stations, <<p, c>>)
  /\ UNCHANGED <<owner, kept, rules>>
  /\ Lock

\* applyKeepTickets: a ticket kept late may be complete at once.
KeepTicket(p, t) ==
  /\ \A q \in Player : t \notin kept[q]
  /\ kept' = [kept EXCEPT ![p] = @ \cup {t}]
  /\ UNCHANGED <<owner, stations, rules>>
  /\ Lock

Next ==
  \/ \E p \in Claimers, r \in Route : ClaimRoute(p, r)
  \/ \E p \in Builders, c \in Builds : BuildStation(p, c)
  \/ \E t \in Ticket : KeepTicket(Keeper, t)

Spec == Init /\ [][Next]_vars

(***************************************************************************)
(* evaluateTickets, for the side of p.  The stations are taken in the order *)
(* they were built; a station's options are the candidates that join two    *)
(* components of the side's track, one for each pair of components.         *)
(***************************************************************************)
Goals(p) == UNION {kept[q] : q \in Side(p)}
Worth == [t \in Ticket |-> Goal[t].value]
Value(ts) == MapThenSumSet(LAMBDA t : Worth[t], ts)
Gain(ts) == IF rules.lenient THEN Value(ts) ELSE 2 * Value(ts)
NothingMet(ts) == IF rules.lenient THEN 0 ELSE -Value(ts)

Pair(edges, r) == {Class[edges][Ends[r][1]], Class[edges][Ends[r][2]]}
Options(p, i) ==
  LET C == Candidates(p, stations[i][2])
      own == Track(p)
  IN {r \in C : /\ Cardinality(Pair(own, r)) = 2
               /\ \A o \in C : o < r => Pair(own, o) # Pair(own, r)}

\* A loop over numbers, in ascending order.
InOrder(step(_, _), start, S) == MapThenFoldSet(step, start, LAMBDA x : x, Max, S)

\* The greedy assignment: every station takes what completes most value now.
GreedyStep(acc, opts) ==
  LET gain(r) == Gain(Met(acc.joined \cup {r}, acc.pending))
      most == {r \in opts : gain(r) > 0 /\ \A o \in opts : gain(o) <= gain(r)}
      joined == acc.joined \cup {Min(most)}
  IN IF most = {} THEN acc
     ELSE [joined |-> joined, net |-> acc.net + gain(Min(most)),
          pending |-> acc.pending \ Met(joined, acc.pending)]
Greedy(own, goals, options) ==
  LET base == Met(own, goals)
      step(i, acc) == GreedyStep(acc, options[i])
  IN InOrder(step, [joined |-> own, net |-> NothingMet(goals) + Gain(base), pending |-> goals \ base],
             DOMAIN options).net

\* consider: more net, then more tickets, then fewer borrows.
Borrows(a) == Cardinality({i \in DOMAIN a : a[i] # 0})
Consider(best, net, done, a) ==
  IF \/ net > best.net
     \/ net = best.net /\ done > best.done
     \/ net = best.net /\ done = best.done /\ Borrows(a) < Borrows(best.assign)
  THEN [net |-> net, done |-> done, assign |-> a, floor |-> Max({best.floor, net})]
  ELSE best

\* A branch that cannot reach what is known to be achievable is cut.  The mutant cuts one that
\* can only equal it.
CannotBeat(bound, floor) == bound <= floor
CannotReach(bound, floor) == bound < floor

\* dfs.  A node: the stations that have not chosen yet, the tracks joined, what is met so far, what
\* may still be met, the assignment.
Best(D) == [net : Int, done : Int, assign : [D -> Nat], floor : Int]
Node(D) ==
  [left : SUBSET D, joined : SUBSET Route, net : Int, done : Int, pending : SUBSET Ticket, assign : [D -> Nat]]
Search(options, first, root) ==
  LET D == DOMAIN options
      search[x \in Best(D) \X Node(D)] ==
        LET n == x[2]
            met == Met(n.joined, n.pending)
            net == n.net + Gain(met)
            done == n.done + Cardinality(met)
            here == Consider(x[1], net, done, n.assign)
            rest == UNION {options[k] : k \in n.left}
            live == Met(n.joined \cup rest, n.pending \ met)
            i == Min(n.left)
            child(edges, a) ==
              [left |-> n.left \ {i}, joined |-> edges, net |-> net, done |-> done, pending |-> live, assign |-> a]
            try(r, b) == IF Same(n.joined, Ends[r][1], Ends[r][2]) THEN b
                         ELSE search[<<b, child(n.joined \cup {r}, [n.assign EXCEPT ![i] = r])>>]
        IN IF n.pending \ met = {} \/ n.left = {} THEN here
           ELSE IF live = {} \/ CannotReach(net + Gain(live), here.floor) THEN here
           ELSE InOrder(try, search[<<here, child(n.joined, n.assign)>>], options[i])
  IN search[<<first, root>>]

\* Stations without an option keep their empty place.
Evaluate(own, goals, options) ==
  LET none == [i \in DOMAIN options |-> 0]
      active == {i \in DOMAIN options : options[i] # {}}
      least == NothingMet(goals)
  IN Search(options,
            [net |-> least - 1, done |-> -1, assign |-> none, floor |-> Greedy(own, goals, options)],
            [left |-> active, joined |-> own, net |-> least, done |-> 0, pending |-> goals, assign |-> none])
EvaluateTickets(p) == Evaluate(Track(p), Goals(p), [i \in Built(p) |-> Options(p, i)])

\* evaluateSideTickets: the tickets that count for p at the end of the game.
Assigned(p) == LET a == EvaluateTickets(p).assign IN {r \in Route : \E i \in DOMAIN a : a[i] = r}
Counted(p) ==
  Met(Track(p) \cup IF rules.unlimited THEN BorrowEdges(p) ELSE Assigned(p), kept[p])

(***************************************************************************)
(* longestTrail.                                                            *)
(***************************************************************************)
Size(edges) == MapThenSumSet(LAMBDA r : Length[r], edges)
Touches(r, c) == c \in {Ends[r][1], Ends[r][2]}
Other(r, c) == IF Ends[r][1] = c THEN Ends[r][2] ELSE Ends[r][1]
Vertices(edges) == {c \in City : \E r \in edges : Touches(r, c)}

\* dfs.  A node: the city arrived at, the tracks not used yet, the length so far, the longest seen.
Walk == [at : City, free : SUBSET Route, acc : Nat, best : Nat]
TrailFrom(start, edges, longest) ==
  LET trail[n \in Walk] ==
        LET b == Max({n.best, n.acc})
            step(r, x) == trail[[at |-> Other(r, n.at), free |-> n.free \ {r}, acc |-> n.acc + Length[r], best |-> x]]
        IN IF n.acc + Size(n.free) <= b THEN b
           ELSE FoldSet(step, b, {r \in n.free : Touches(r, n.at)})
  IN trail[[at |-> start, free |-> edges, acc |-> 0, best |-> longest]]

\* The mutant starts at one vertex only.
StartsOnce(edges) == {Min(Vertices(edges))}
Starts(edges) == Vertices(edges)
LongestInComponent(edges) ==
  FoldSet(LAMBDA c, b : IF b = Size(edges) THEN b ELSE TrailFrom(c, edges, b), 0, Starts(edges))
Component(edges, r) == {o \in edges : Same(edges, Ends[o][1], Ends[r][1])}
LongestTrail(edges) == Max({0} \cup {LongestInComponent(Component(edges, r)) : r \in edges})

(***************************************************************************)
(* Properties.                                                              *)
(***************************************************************************)
\* A set of tracks is one trail exactly if it is connected and at most two cities have an odd
\* number of its ends.
IsTrail(edges) ==
  /\ Cardinality({Class[edges][Ends[r][1]] : r \in edges}) <= 1
  /\ Cardinality({c \in City : Cardinality({r \in edges : Touches(r, c)}) % 2 = 1}) <= 2

\* The bonus goes by the heaviest trail there is: neither the bound of the search, nor its early
\* stop, nor the split into components loses one (longestTrail).
TrailIsLongest ==
  \A edges \in {Track(p) : p \in Player} :
    LongestTrail(edges) = Max({Size(s) : s \in {x \in SUBSET edges : IsTrail(x)}})

\* The borrows are those of the plain enumeration: most net points, then most tickets, then
\* fewest borrows, then the earliest options, station by station (evaluateTickets says it
\* returns "the SAME optimum (and the same canonical assignment)").
Assignments(p) ==
  {a \in [Built(p) -> Route \cup {0}] : \A i \in Built(p) : a[i] # 0 => a[i] \in Candidates(p, stations[i][2])}
Taken(a) == {a[i] : i \in DOMAIN a} \ {0}
Earlier(a, b) == \E i \in DOMAIN a : a[i] < b[i] /\ \A j \in DOMAIN a : j < i => a[j] = b[j]
Better(a, b, met) ==
  \/ Value(met[a]) > Value(met[b])
  \/ /\ Value(met[a]) = Value(met[b])
     /\ \/ Cardinality(met[a]) > Cardinality(met[b])
        \/ /\ Cardinality(met[a]) = Cardinality(met[b])
           /\ \/ Borrows(a) < Borrows(b)
              \/ Borrows(a) = Borrows(b) /\ Earlier(a, b)
BorrowsAreBest ==
  ~rules.unlimited =>
    \A p \in {Min(Side(q)) : q \in Player} :
      LET best == EvaluateTickets(p).assign
          met == [a \in Assignments(p) |-> Met(Track(p) \cup Taken(a), Goals(p))]
      IN best \in Assignments(p) /\ \A a \in Assignments(p) \ {best} : Better(best, a, met)

\* What was announced as complete counts in the end, and where stations borrow without limit
\* nothing else does (lockCompletedTickets: "the locked set equals the end-game total").
LockedIsFinal ==
  \A p \in Player : /\ locked[p] \subseteq Counted(p)
                    /\ rules.unlimited => locked[p] = Counted(p)
=============================================================================
