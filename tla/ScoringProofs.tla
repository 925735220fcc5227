--------------------------- MODULE ScoringProofs ---------------------------
(***************************************************************************)
(* Proofs about Scoring, for any map, any tickets, any players and sides.  *)
(* Two cities are in the same class once some tracks are joined exactly    *)
(* if no division of the cities that keeps the ends of each of these       *)
(* tracks together tells them apart.  So more track never separates what   *)
(* was connected, and since track, stations and tickets only grow, the     *)
(* tickets locked on the way are those that are connected in the end.      *)
(*                                                                          *)
(* A set of tracks is a trail by the degrees of its cities exactly if a    *)
(* walk uses each of them once, and the search for the longest trail       *)
(* returns the longest walk: first the walks and what can be made of them, *)
(* then Euler's theorem about them, then the search.                       *)
(*                                                                         *)
(* The borrows are found by a search too.  It walks a tree: a node has     *)
(* chosen at some stations and leads to all assignments that agree with    *)
(* it there.  If the best of all assignments is among them, the search     *)
(* from the node returns it; this is shown for the nodes with the fewest   *)
(* stations left first.  The cut is safe because the floor is what some    *)
(* assignment scores; a track between cities already joined may be passed  *)
(* over because leaving it out meets the same with fewer borrows; and of   *)
(* the tracks between the same two components the first is enough.         *)
(***************************************************************************)
EXTENDS Scoring, NaturalLemmas

(* Every city by itself, and what joining a track makes of the classes. *)
Apart == [c \in City |-> c]
Joined(r, P) == [c \in City |-> IF P[c] = P[Ends[r][1]] THEN P[Ends[r][2]] ELSE P[c]]
Joining(edges) == [q \in edges \X [City -> City] |-> Joined(q[1], q[2])]

(* P gives the two ends of each of the tracks the same class. *)
Keeps(P, edges) == \A r \in edges : P[Ends[r][1]] = P[Ends[r][2]]

(* P puts no two cities together that some such division tells apart. *)
Finest(P, edges) ==
  \A Q \in [City -> City] : Keeps(Q, edges) => \A a, b \in City : P[a] = P[b] => Q[a] = Q[b]

Joins(edges, h) ==
  h = [s \in SUBSET edges |-> IF s = {} THEN Apart ELSE Joined(Chosen(s), h[s \ {Chosen(s)}])]

LEMMA ClassIs ==
  ASSUME NEW edges \in SUBSET Route
  PROVE  Class[edges] = (CHOOSE h : Joins(edges, h))[edges]
BY DEF Class, FoldSet, MapThenFoldSet, Joins, Joined, Apart, Chosen

LEMMA EndsAreCities ==
  ASSUME NEW r \in Route
  PROVE  Ends[r][1] \in City /\ Ends[r][2] \in City
BY ScoringAssumption

(* One more track: its ends are together, the others stay, and nothing is put
   together without need. *)
LEMMA JoiningKeeps ==
  ASSUME NEW s \in SUBSET Route, NEW r \in s, NEW P \in [City -> City],
         Keeps(P, s \ {r}), Finest(P, s \ {r})
  PROVE  Joined(r, P) \in [City -> City] /\ Keeps(Joined(r, P), s) /\ Finest(Joined(r, P), s)
PROOF
  <1> DEFINE u == Ends[r][1]
             v == Ends[r][2]
             J == Joined(r, P)
  <1>1. u \in City /\ v \in City
    BY EndsAreCities
  <1>2. \A c \in City : J[c] = IF P[c] = P[u] THEN P[v] ELSE P[c]
    BY DEF Joined
  <1>3. J \in [City -> City]
    BY <1>1 DEF Joined
  <1>4. Keeps(J, s)
    <2> SUFFICES ASSUME NEW o \in s
                 PROVE  J[Ends[o][1]] = J[Ends[o][2]]
      BY DEF Keeps
    <2>1. Ends[o][1] \in City /\ Ends[o][2] \in City
      BY EndsAreCities
    <2>2. CASE o = r
      <3>1. J[u] = P[v] /\ J[v] = P[v]
        <4> HIDE DEF J, u, v
        <4> QED BY <1>1, <1>2
      <3> QED BY <2>2, <3>1
    <2>3. CASE o # r
      <3>1. P[Ends[o][1]] = P[Ends[o][2]]
        BY <2>3 DEF Keeps
      <3> HIDE DEF J, u, v
      <3> QED BY <1>2, <2>1, <3>1
    <2> QED BY <2>2, <2>3
  <1>5. ASSUME NEW Q \in [City -> City], Keeps(Q, s), NEW a \in City, NEW b \in City, J[a] = J[b]
        PROVE  Q[a] = Q[b]
    <2>1. Keeps(Q, s \ {r}) /\ Q[u] = Q[v]
      BY <1>5 DEF Keeps
    <2>2. \A c, d \in City : P[c] = P[d] => Q[c] = Q[d]
      BY <2>1 DEF Finest
    <2> HIDE DEF J, u, v
    <2>3. J[a] = (IF P[a] = P[u] THEN P[v] ELSE P[a]) /\ J[b] = (IF P[b] = P[u] THEN P[v] ELSE P[b])
      BY <1>2
    <2> QED BY <1>1, <1>5, <2>1, <2>2, <2>3
  <1> HIDE DEF J
  <1>6. Finest(J, s)
    BY <1>5 DEF Finest
  <1> QED BY <1>3, <1>4, <1>6 DEF J

(* The classes after joining some tracks. *)
LEMMA ClassIsFinest ==
  ASSUME NEW edges \in SUBSET Route
  PROVE  Class[edges] \in [City -> City] /\ Keeps(Class[edges], edges) /\ Finest(Class[edges], edges)
PROOF
  <1> DEFINE V == [City -> City]
             I == {q \in (SUBSET edges) \X V : Keeps(q[2], q[1]) /\ Finest(q[2], q[1])}
             op == Joining(edges)
  <1>1. IsFiniteSet(edges) /\ Apart \in V
    BY ScoringAssumption, FS_Subset DEF Apart
  <1>2. ASSUME NEW r \in edges, NEW P \in V
        PROVE  op[<<r, P>>] = Joined(r, P) /\ Joined(r, P) \in V
    BY EndsAreCities DEF Joining, Joined
  <1>3. op \in [edges \X V -> V]
    BY <1>2 DEF Joining
  <1>4. <<{}, Apart>> \in I
    BY <1>1 DEF Keeps, Finest, Apart
  <1>5. IsKept(I, op, edges, V)
    <2> SUFFICES ASSUME NEW s \in SUBSET edges, NEW r \in s, NEW P \in V, <<s \ {r}, P>> \in I
                 PROVE  <<s, op[<<r, P>>]>> \in I
      BY DEF IsKept
    <2>1. Keeps(P, s \ {r}) /\ Finest(P, s \ {r})
      OBVIOUS
    <2>2. Keeps(Joined(r, P), s) /\ Finest(Joined(r, P), s) /\ Joined(r, P) \in V
      BY <2>1, JoiningKeeps
    <2> HIDE DEF op, V
    <2> QED BY <1>2, <2>2
  <1>6. ASSUME NEW h
        PROVE  IsFold(op, Apart, edges, h) <=> Joins(edges, h)
    <2> DEFINE k == [s \in SUBSET edges |-> Joined(Chosen(s), h[s \ {Chosen(s)}])]
               f == [s \in SUBSET edges |-> IF s = {} THEN Apart ELSE Joined(Chosen(s), h[s \ {Chosen(s)}])]
               g == [s \in SUBSET edges |-> IF s = {} THEN Apart ELSE k[s]]
    <2>1. ASSUME NEW s \in SUBSET edges, s # {}, h[s \ {Chosen(s)}] \in V
          PROVE  k[s] = op[<<Chosen(s), h[s \ {Chosen(s)}]>>]
      <3>1. Chosen(s) \in edges
        BY <1>1, <2>1, OneIsChosen
      <3> HIDE DEF op, V
      <3> QED BY <1>2, <2>1, <3>1
    <2>2. f = g
      <3>1. \A s \in SUBSET edges : f[s] = g[s]
        OBVIOUS
      <3> QED BY <3>1
    <2> HIDE DEF op, V
    <2>3. StepsAlike(k, op, edges, V, h)
      <3> HIDE DEF k
      <3> QED BY <2>1 DEF StepsAlike
    <2>4. IsFold(op, Apart, edges, h) <=> IsFoldBy(k, Apart, edges, h)
      <3> HIDE DEF k
      <3> QED BY <1>1, <1>3, <2>3, SameFold
    <2> QED BY <2>2, <2>4 DEF IsFoldBy, Joins
  <1>7. \E h : Joins(edges, h)
    <2>1. \E h : IsFold(op, Apart, edges, h)
      <3> HIDE DEF op, V
      <3> QED BY <1>1, <1>3, FoldExists
    <2> QED BY <1>6, <2>1
  <1> DEFINE h == CHOOSE i : Joins(edges, i)
  <1>8. Joins(edges, h)
    BY <1>7
  <1> HIDE DEF h
  <1>9. IsFold(op, Apart, edges, h)
    BY <1>6, <1>8
  <1>10. h[edges] \in V /\ <<edges, h[edges]>> \in I
    <2>1. \A s \in SUBSET edges : h[s] \in V /\ <<s, h[s]>> \in I
      <3> HIDE DEF op, V, I
      <3> QED BY <1>1, <1>3, <1>4, <1>5, <1>9, FoldKeeps
    <2> HIDE DEF V, I
    <2> QED BY <2>1
  <1>11. Class[edges] = h[edges]
    BY ClassIs DEF h
  <1> QED BY <1>10, <1>11

-----------------------------------------------------------------------------
(* More track. *)

(* What some tracks connect, more tracks connect. *)
LEMMA SameGrows ==
  ASSUME NEW edges \in SUBSET Route, NEW more \in SUBSET Route, edges \subseteq more,
         NEW a \in City, NEW b \in City, Same(edges, a, b)
  PROVE  Same(more, a, b)
PROOF
  <1>1. Class[more] \in [City -> City] /\ Keeps(Class[more], edges)
    BY ClassIsFinest DEF Keeps
  <1>2. Finest(Class[edges], edges)
    BY ClassIsFinest
  <1> QED BY <1>1, <1>2 DEF Finest, Same

LEMMA MetGrows ==
  ASSUME NEW edges \in SUBSET Route, NEW more \in SUBSET Route, edges \subseteq more,
         NEW ts \in SUBSET Ticket, NEW us \in SUBSET Ticket, ts \subseteq us
  PROVE  Met(edges, ts) \subseteq Met(more, us)
PROOF
  <1> SUFFICES ASSUME NEW t \in ts, Same(edges, Goal[t].a, Goal[t].b)
               PROVE  Same(more, Goal[t].a, Goal[t].b)
    BY DEF Met
  <1>1. Goal[t].a \in City /\ Goal[t].b \in City
    BY ScoringAssumption
  <1> QED BY <1>1, SameGrows

(* No ticket is met without track. *)
LEMMA NothingIsMet ==
  ASSUME NEW ts \in SUBSET Ticket
  PROVE  Met({}, ts) = {}
PROOF
  <1>1. {} \in SUBSET Route /\ Apart \in [City -> City] /\ Keeps(Apart, {})
    BY DEF Apart, Keeps
  <1>2. Finest(Class[{}], {})
    BY <1>1, ClassIsFinest
  <1> SUFFICES ASSUME NEW t \in ts, Same({}, Goal[t].a, Goal[t].b)
               PROVE  FALSE
    BY DEF Met
  <1>3. Goal[t].a \in City /\ Goal[t].b \in City /\ Goal[t].a # Goal[t].b
    BY ScoringAssumption
  <1>4. Apart[Goal[t].a] = Apart[Goal[t].b]
    BY <1>1, <1>2, <1>3 DEF Finest, Same
  <1> QED BY <1>3, <1>4 DEF Apart

-----------------------------------------------------------------------------
(* The table. *)

TypeOK ==
  /\ owner \in [Route -> Player \cup {0}]
  /\ stations \in Seq(Player \X City)
  /\ kept \in [Player -> SUBSET Ticket] /\ locked \in [Player -> SUBSET Ticket]
  /\ rules \in Rules

(* What is locked is what is connected, to the ticket. *)
LocksAreExact == \A p \in Player : locked[p] = Connected(p)

ScoringInv == TypeOK /\ LocksAreExact

LEMMA NetworkIsTrack ==
  ASSUME NEW p
  PROVE  Track(p) \in SUBSET Route /\ BorrowEdges(p) \in SUBSET Route /\ Network(p) \in SUBSET Route
BY DEF Track, BorrowEdges, Borrowed, Candidates, Network

LEMMA SidesArePlayers ==
  ASSUME TypeOK, NEW p \in Player
  PROVE  Side(p) \in SUBSET Player /\ p \in Side(p) /\ 0 \notin Side(p)
BY ScoringAssumption DEF TypeOK, Side

(* Nothing is taken back: track and stations stay where they are. *)
LEMMA TableGrows ==
  ASSUME TypeOK, Next
  PROVE  /\ TypeOK'
         /\ \A p \in Player : /\ Network(p) \subseteq Network(p)' /\ kept[p] \subseteq kept'[p]
                              /\ locked'[p] = locked[p] \cup Connected(p)'
PROOF
  <1> DEFINE Grown ==
        /\ rules' = rules /\ owner' \in [Route -> Player \cup {0}]
        /\ \A r \in Route : owner[r] # 0 => owner'[r] = owner[r]
        /\ stations' \in Seq(Player \X City) /\ ToSet(stations) \subseteq ToSet(stations')
        /\ kept' \in [Player -> SUBSET Ticket] /\ \A p \in Player : kept[p] \subseteq kept'[p]
        /\ Lock
  <1>1. Grown
    <2>1. ASSUME NEW p \in Claimers, NEW r \in Route, ClaimRoute(p, r)
          PROVE  Grown
      BY <2>1, ScoringAssumption DEF ClaimRoute, TypeOK
    <2>2. ASSUME NEW p \in Builders, NEW c \in Builds, BuildStation(p, c)
          PROVE  Grown
      <3>1. <<p, c>> \in Player \X City
        BY ScoringAssumption
      <3>2. stations' = Append(stations, <<p, c>>) /\ stations \in Seq(Player \X City)
        BY <2>2 DEF BuildStation, TypeOK
      <3>3. stations' \in Seq(Player \X City)
        BY <3>1, <3>2
      <3>4. ASSUME NEW i \in DOMAIN stations
            PROVE  stations[i] \in ToSet(stations')
        <4>1. i \in DOMAIN stations' /\ stations'[i] = stations[i]
          BY <3>1, <3>2, <3>4
        <4> QED BY <4>1 DEF ToSet
      <3>5. ToSet(stations) \subseteq ToSet(stations')
        BY <3>4 DEF ToSet
      <3> QED BY <2>2, <3>3, <3>5 DEF BuildStation, TypeOK
    <2>3. ASSUME NEW t \in Ticket, KeepTicket(Keeper, t)
          PROVE  Grown
      BY <2>3, ScoringAssumption DEF KeepTicket, TypeOK
    <2> HIDE DEF Grown
    <2> QED BY <2>1, <2>2, <2>3 DEF Next
  <1>2. \A p \in Player : locked'[p] = locked[p] \cup Connected(p)'
    BY <1>1 DEF Lock
  <1>3. ASSUME NEW p \in Player
        PROVE  Network(p) \subseteq Network(p)' /\ Connected(p)' \in SUBSET Ticket
    <2>1. Side(p)' = Side(p) /\ 0 \notin Side(p)
      BY <1>1, SidesArePlayers DEF Side
    <2>2. ASSUME NEW r \in Track(p)
          PROVE  r \in Track(p)'
      BY <1>1, <2>1 DEF Track
    <2>3. ASSUME NEW c, NEW r \in Candidates(p, c)
          PROVE  r \in Candidates(p, c)'
      BY <1>1, <2>1 DEF Candidates, Track
    <2>4. BorrowEdges(p) \subseteq BorrowEdges(p)'
      BY <1>1, <2>1, <2>3 DEF BorrowEdges
    <2>5. Network(p) \subseteq Network(p)'
      BY <1>1, <2>2, <2>4 DEF Network, Borrowed
    <2>6. Connected(p)' \in SUBSET Ticket
      BY <1>1 DEF Connected, Met
    <2> QED BY <2>5, <2>6
  <1>4. locked' \in [Player -> SUBSET Ticket]
    BY <1>1, <1>3 DEF Lock, TypeOK
  <1> QED BY <1>1, <1>2, <1>3, <1>4 DEF TypeOK

(* So what is connected stays connected. *)
LEMMA ConnectedGrows ==
  ASSUME TypeOK, Next, NEW p \in Player
  PROVE  Connected(p) \subseteq Connected(p)'
PROOF
  <1>1. Network(p) \subseteq Network(p)' /\ kept[p] \subseteq kept'[p] /\ TypeOK'
    BY TableGrows
  <1>2. Network(p) \in SUBSET Route /\ Network(p)' \in SUBSET Route
    BY NetworkIsTrack DEF Network, Track, Borrowed, BorrowEdges, Candidates
  <1>3. kept[p] \in SUBSET Ticket /\ kept'[p] \in SUBSET Ticket
    BY <1>1 DEF TypeOK
  <1>4. Met(Network(p), kept[p]) \subseteq Met(Network(p)', kept'[p])
    BY <1>1, <1>2, <1>3, MetGrows
  <1> QED BY <1>4 DEF Connected, Met, Same

(* The invariant is inductive: nothing is connected at first, and each step locks
   what is connected after it, which what was locked before is part of. *)
LEMMA ScoringInvInductive ==
  /\ Init => ScoringInv
  /\ ScoringInv /\ [Next]_vars => ScoringInv'
PROOF
  <1>1. ASSUME Init
        PROVE  ScoringInv
    <2>1. TypeOK
      BY <1>1, ScoringAssumption DEF Init, TypeOK
    <2>2. ASSUME NEW p \in Player
          PROVE  Network(p) = {}
      <3>1. Track(p) = {}
        BY <1>1, <2>1, SidesArePlayers DEF Init, Track
      <3>2. BorrowEdges(p) = {}
        BY <1>1 DEF Init, BorrowEdges, Candidates
      <3> QED BY <3>1, <3>2 DEF Network, Borrowed
    <2>3. ASSUME NEW p \in Player
          PROVE  Connected(p) = {}
      BY <2>1, <2>2, NothingIsMet DEF Connected, TypeOK
    <2> QED BY <1>1, <2>1, <2>3 DEF ScoringInv, LocksAreExact, Init
  <1>2. ASSUME ScoringInv, Next
        PROVE  ScoringInv'
    <2>1. TypeOK' /\ \A p \in Player : locked'[p] = locked[p] \cup Connected(p)'
      BY <1>2, TableGrows DEF ScoringInv
    <2>2. \A p \in Player : locked[p] = Connected(p) /\ Connected(p) \subseteq Connected(p)'
      BY <1>2, ConnectedGrows DEF ScoringInv, LocksAreExact
    <2>3. \A p \in Player : locked'[p] = Connected(p)'
      BY <2>1, <2>2
    <2> QED BY <2>1, <2>3 DEF ScoringInv, LocksAreExact
  <1>3. ASSUME ScoringInv, UNCHANGED vars
        PROVE  ScoringInv'
    <2>1. ASSUME NEW p \in Player
          PROVE  Connected(p)' = Connected(p)
      BY <1>3 DEF Connected, Met, Same, Network, Track, Side, Borrowed, BorrowEdges, Candidates, vars
    <2> QED BY <1>3, <2>1 DEF ScoringInv, TypeOK, LocksAreExact, vars
  <1> QED BY <1>1, <1>2, <1>3

LEMMA ScoringInvHolds == Spec => []ScoringInv
PROOF
  <1> QED BY ScoringInvInductive, PTL DEF Spec

(* At any time what is locked for a player is exactly what is connected for it
   by the rule of the lock (lockCompletedTickets): no claim, station or ticket is
   missed, whoever's it is. *)
THEOREM LocksAreExactHolds == Spec => []LocksAreExact
PROOF
  <1>1. ScoringInv => LocksAreExact
    BY DEF ScoringInv
  <1> QED BY <1>1, ScoringInvHolds, PTL

(* What was announced as complete counts in the end, and where stations borrow
   without limit nothing else does, for any map, tickets and sides
   (lockCompletedTickets against evaluateSideTickets). *)
THEOREM LockedIsFinalHolds == Spec => []LockedIsFinal
PROOF
  <1>1. ASSUME ScoringInv
        PROVE  LockedIsFinal
    <2> SUFFICES ASSUME NEW p \in Player
                 PROVE  locked[p] \subseteq Counted(p) /\ (rules.unlimited => locked[p] = Counted(p))
      BY DEF LockedIsFinal
    <2>1. locked[p] = Met(Network(p), kept[p]) /\ kept[p] \in SUBSET Ticket
      BY <1>1 DEF ScoringInv, LocksAreExact, Connected, TypeOK
    <2>2. CASE rules.unlimited
      BY <2>1, <2>2 DEF Network, Borrowed, Counted
    <2>3. CASE ~rules.unlimited
      <3>1. Assigned(p) \in SUBSET Route
        BY DEF Assigned
      <3>2. Track(p) \cup Assigned(p) \in SUBSET Route /\ Network(p) = Track(p)
        BY <2>3, <3>1, NetworkIsTrack DEF Network
      <3>3. Met(Track(p), kept[p]) \subseteq Met(Track(p) \cup Assigned(p), kept[p])
        BY <2>1, <3>2, NetworkIsTrack, MetGrows
      <3> QED BY <2>1, <2>3, <3>2, <3>3 DEF Counted
    <2> QED BY <2>2, <2>3
  <1> QED BY <1>1, ScoringInvHolds, PTL

-----------------------------------------------------------------------------
(* Walks. *)

(* A trip: a city to start from, a city to arrive at, the tracks used.  The
   walks are the least set of trips that has every city by itself and that a
   track not used yet may be put in front of. *)
Trip == City \X City \X SUBSET Route

Grows(W) ==
  /\ \A c \in City : <<c, c, {}>> \in W
  /\ \A r \in Route, c \in City, b \in City, s \in SUBSET Route :
        (Touches(r, c) /\ r \notin s /\ <<Other(r, c), b, s>> \in W) => <<c, b, s \cup {r}>> \in W

Walks == {w \in Trip : \A W \in SUBSET Trip : Grows(W) => w \in W}
Goes(a, b, s) == <<a, b, s>> \in Walks

LEMMA EndOfTrack ==
  ASSUME NEW r \in Route, NEW c \in City, Touches(r, c)
  PROVE  /\ Other(r, c) \in City /\ Other(r, c) # c
         /\ Touches(r, Other(r, c)) /\ Other(r, Other(r, c)) = c
         /\ \A d \in City : Touches(r, d) <=> d \in {c, Other(r, c)}
BY ScoringAssumption DEF Touches, Other

LEMMA WalksGrow == Grows(Walks)
PROOF
  <1>1. ASSUME NEW c \in City
        PROVE  <<c, c, {}>> \in Walks
    <2>1. <<c, c, {}>> \in Trip
      BY DEF Trip
    <2> QED BY <2>1 DEF Walks, Grows
  <1>2. ASSUME NEW r \in Route, NEW c \in City, NEW b \in City, NEW s \in SUBSET Route,
               Touches(r, c), r \notin s, <<Other(r, c), b, s>> \in Walks
        PROVE  <<c, b, s \cup {r}>> \in Walks
    <2>1. <<c, b, s \cup {r}>> \in Trip
      BY DEF Trip
    <2>2. ASSUME NEW W \in SUBSET Trip, Grows(W)
          PROVE  <<c, b, s \cup {r}>> \in W
      <3>1. <<Other(r, c), b, s>> \in W
        BY <1>2, <2>2 DEF Walks
      <3> QED BY <1>2, <2>2, <3>1 DEF Grows
    <2> QED BY <2>1, <2>2 DEF Walks
  <1> QED BY <1>1, <1>2 DEF Grows

LEMMA WalksAreLeast ==
  ASSUME NEW W \in SUBSET Trip, Grows(W)
  PROVE  \A a, b \in City, s \in SUBSET Route : Goes(a, b, s) => <<a, b, s>> \in W
BY DEF Walks, Goes

(* Nothing but a city alone, or a first track and the rest of the walk. *)
LEMMA FirstTrack ==
  ASSUME NEW a \in City, NEW b \in City, NEW s \in SUBSET Route, Goes(a, b, s)
  PROVE  \/ s = {} /\ a = b
         \/ \E r \in s : Touches(r, a) /\ Goes(Other(r, a), b, s \ {r})
PROOF
  <1> DEFINE First(w) == \/ w[3] = {} /\ w[1] = w[2]
                         \/ \E r \in w[3] : Touches(r, w[1]) /\ Goes(Other(r, w[1]), w[2], w[3] \ {r})
             W == {w \in Trip : First(w)}
  <1>1. Grows(W)
    <2>1. ASSUME NEW c \in City
          PROVE  <<c, c, {}>> \in W
      BY DEF Trip
    <2>2. ASSUME NEW r \in Route, NEW c \in City, NEW d \in City, NEW t \in SUBSET Route,
                 Touches(r, c), r \notin t, <<Other(r, c), d, t>> \in W
          PROVE  <<c, d, t \cup {r}>> \in W
      <3>0. Other(r, c) \in City
        BY <2>2, EndOfTrack
      <3>1. Goes(Other(r, c), d, t)
        <4>1. First(<<Other(r, c), d, t>>)
          BY <2>2
        <4>2. CASE t = {} /\ Other(r, c) = d
          BY <3>0, <4>2, WalksGrow DEF Grows, Goes
        <4>3. CASE ~(t = {} /\ Other(r, c) = d)
          <5>1. PICK o \in t : Touches(o, Other(r, c)) /\ Goes(Other(o, Other(r, c)), d, t \ {o})
            BY <4>1, <4>3
          <5>2. t = (t \ {o}) \cup {o} /\ t \ {o} \in SUBSET Route /\ o \in Route
            BY <5>1
          <5> QED BY <3>0, <5>1, <5>2, WalksGrow DEF Grows, Goes
        <4> QED BY <4>2, <4>3
      <3>2. (t \cup {r}) \ {r} = t
        BY <2>2
      <3>3. <<c, d, t \cup {r}>> \in Trip
        BY DEF Trip
      <3> QED BY <2>2, <3>1, <3>2, <3>3
    <2> HIDE DEF W
    <2> QED BY <2>1, <2>2 DEF Grows
  <1>2. <<a, b, s>> \in W
    <2>1. W \in SUBSET Trip
      OBVIOUS
    <2> HIDE DEF W
    <2> QED BY <1>1, <2>1, WalksAreLeast
  <1> QED BY <1>2

(* What is in a set that has the cities and grows along walks holds of every
   walk. *)
Along(W) ==
  /\ \A c \in City : <<c, c, {}>> \in W
  /\ \A r \in Route, c \in City, b \in City, s \in SUBSET Route :
        (Touches(r, c) /\ r \notin s /\ Goes(Other(r, c), b, s) /\ <<Other(r, c), b, s>> \in W)
           => <<c, b, s \cup {r}>> \in W

LEMMA WalkInduction ==
  ASSUME NEW W \in SUBSET Trip, Along(W)
  PROVE  \A a, b \in City, s \in SUBSET Route : Goes(a, b, s) => <<a, b, s>> \in W
PROOF
  <1> DEFINE V == W \cap Walks
  <1>1. Grows(V)
    BY WalksGrow DEF Grows, Along, Goes
  <1> HIDE DEF V
  <1>2. V \in SUBSET Trip
    BY DEF V
  <1>3. \A a, b \in City, s \in SUBSET Route : Goes(a, b, s) => <<a, b, s>> \in V
    BY <1>1, <1>2, WalksAreLeast
  <1> QED BY <1>3 DEF V

(* Walks one after the other. *)
LEMMA WalkOn ==
  ASSUME NEW a \in City, NEW b \in City, NEW c \in City, NEW s \in SUBSET Route, NEW t \in SUBSET Route,
         Goes(a, b, s), Goes(b, c, t), s \cap t = {}
  PROVE  Goes(a, c, s \cup t)
PROOF
  <1> DEFINE W == {w \in Trip : \A d \in City, u \in SUBSET Route :
                                   (Goes(w[2], d, u) /\ w[3] \cap u = {}) => Goes(w[1], d, w[3] \cup u)}
  <1>1. Along(W)
    <2>1. ASSUME NEW x \in City
          PROVE  <<x, x, {}>> \in W
      <3>1. \A u : {} \cup u = u
        OBVIOUS
      <3> QED BY <3>1 DEF Trip
    <2>2. ASSUME NEW r \in Route, NEW x \in City, NEW y \in City, NEW v \in SUBSET Route,
                 Touches(r, x), r \notin v, <<Other(r, x), y, v>> \in W
          PROVE  <<x, y, v \cup {r}>> \in W
      <3>1. ASSUME NEW d \in City, NEW u \in SUBSET Route, Goes(y, d, u), (v \cup {r}) \cap u = {}
            PROVE  Goes(x, d, (v \cup {r}) \cup u)
        <4>1. Goes(Other(r, x), d, v \cup u)
          <5>1. v \cap u = {}
            BY <3>1
          <5> QED BY <2>2, <3>1, <5>1
        <4>2. r \notin v \cup u /\ (v \cup u) \cup {r} = (v \cup {r}) \cup u /\ v \cup u \in SUBSET Route
          BY <2>2, <3>1
        <4>3. Goes(x, d, (v \cup u) \cup {r})
          BY <2>2, <4>1, <4>2, WalksGrow DEF Grows, Goes
        <4> QED BY <4>2, <4>3
      <3> QED BY <3>1 DEF Trip
    <2> HIDE DEF W
    <2> QED BY <2>1, <2>2 DEF Along
  <1>2. <<a, b, s>> \in W
    <2>1. W \in SUBSET Trip
      OBVIOUS
    <2> HIDE DEF W
    <2> QED BY <1>1, <2>1, WalkInduction
  <1> QED BY <1>2

(* The same way back. *)
LEMMA OneTrack ==
  ASSUME NEW r \in Route, NEW c \in City, Touches(r, c)
  PROVE  Goes(c, Other(r, c), {r})
PROOF
  <1>1. Other(r, c) \in City
    BY EndOfTrack
  <1>2. Goes(c, Other(r, c), {} \cup {r})
    BY <1>1, WalksGrow DEF Grows, Goes
  <1> QED BY <1>2

LEMMA WalkBack ==
  ASSUME NEW a \in City, NEW b \in City, NEW s \in SUBSET Route, Goes(a, b, s)
  PROVE  Goes(b, a, s)
PROOF
  <1> DEFINE W == {w \in Trip : Goes(w[2], w[1], w[3])}
  <1>1. Along(W)
    <2>1. ASSUME NEW x \in City
          PROVE  <<x, x, {}>> \in W
      BY WalksGrow DEF Trip, Grows, Goes
    <2>2. ASSUME NEW r \in Route, NEW x \in City, NEW y \in City, NEW v \in SUBSET Route,
                 Touches(r, x), r \notin v, <<Other(r, x), y, v>> \in W
          PROVE  <<x, y, v \cup {r}>> \in W
      <3>1. Other(r, x) \in City /\ Touches(r, Other(r, x)) /\ Other(r, Other(r, x)) = x
        BY <2>2, EndOfTrack
      <3>2. Goes(Other(r, x), x, {r})
        BY <3>1, OneTrack
      <3>3. Goes(y, Other(r, x), v) /\ v \cap {r} = {} /\ {r} \in SUBSET Route
        BY <2>2
      <3>4. Goes(y, x, v \cup {r})
        BY <3>1, <3>2, <3>3, WalkOn
      <3> QED BY <3>4 DEF Trip
    <2> HIDE DEF W
    <2> QED BY <2>1, <2>2 DEF Along
  <1>2. <<a, b, s>> \in W
    <2>1. W \in SUBSET Trip
      OBVIOUS
    <2> HIDE DEF W
    <2> QED BY <1>1, <2>1, WalkInduction
  <1> QED BY <1>2

(* A walk passes every city its tracks touch: it is a walk to there and a walk
   from there on. *)
Parts(a, v, b, s) ==
  \E s1, s2 \in SUBSET Route : s1 \cap s2 = {} /\ s1 \cup s2 = s /\ Goes(a, v, s1) /\ Goes(v, b, s2)

LEMMA WalkPasses ==
  ASSUME NEW a \in City, NEW b \in City, NEW s \in SUBSET Route, Goes(a, b, s),
         NEW v \in City, \E r \in s : Touches(r, v)
  PROVE  Parts(a, v, b, s)
PROOF
  <1> DEFINE W == {w \in Trip : Goes(w[1], w[2], w[3]) /\
                                   \A x \in City : (\E r \in w[3] : Touches(r, x)) => Parts(w[1], x, w[2], w[3])}
  <1>1. Along(W)
    <2>1. ASSUME NEW x \in City
          PROVE  <<x, x, {}>> \in W
      BY WalksGrow DEF Trip, Grows, Goes
    <2>2. ASSUME NEW r \in Route, NEW x \in City, NEW y \in City, NEW u \in SUBSET Route,
                 Touches(r, x), r \notin u, <<Other(r, x), y, u>> \in W
          PROVE  <<x, y, u \cup {r}>> \in W
      <3>1. Other(r, x) \in City /\ \A d \in City : Touches(r, d) <=> d \in {x, Other(r, x)}
        BY <2>2, EndOfTrack
      <3>2. Goes(Other(r, x), y, u)
        BY <2>2
      <3>3. Goes(x, y, u \cup {r})
        BY <2>2, <3>2, WalksGrow DEF Grows, Goes
      <3>4. ASSUME NEW z \in City, \E o \in u \cup {r} : Touches(o, z)
            PROVE  Parts(x, z, y, u \cup {r})
        <4>1. CASE z = x
          <5>1. Goes(x, x, {}) /\ {} \cap (u \cup {r}) = {} /\ {} \cup (u \cup {r}) = u \cup {r}
            BY WalksGrow DEF Grows, Goes
          <5> QED BY <3>3, <4>1, <5>1 DEF Parts
        <4>2. CASE z = Other(r, x)
          <5>1. Goes(x, z, {r}) /\ {r} \cap u = {} /\ {r} \cup u = u \cup {r} /\ {r} \in SUBSET Route
            BY <2>2, <4>2, OneTrack
          <5> QED BY <3>2, <4>2, <5>1 DEF Parts
        <4>3. CASE z # x /\ z # Other(r, x)
          <5>1. \E o \in u : Touches(o, z)
            BY <3>1, <3>4, <4>3
          <5>2. Parts(Other(r, x), z, y, u)
            BY <2>2, <5>1
          <5>3. PICK s1, s2 \in SUBSET Route : /\ s1 \cap s2 = {} /\ s1 \cup s2 = u
                                               /\ Goes(Other(r, x), z, s1) /\ Goes(z, y, s2)
            BY <5>2 DEF Parts
          <5>4. Goes(x, z, s1 \cup {r})
            BY <2>2, <5>3, WalksGrow DEF Grows, Goes
          <5>5. (s1 \cup {r}) \cap s2 = {} /\ (s1 \cup {r}) \cup s2 = u \cup {r} /\ s1 \cup {r} \in SUBSET Route
            BY <2>2, <5>3
          <5> QED BY <5>3, <5>4, <5>5 DEF Parts
        <4> QED BY <4>1, <4>2, <4>3
      <3> QED BY <3>3, <3>4 DEF Trip
    <2> HIDE DEF W
    <2> QED BY <2>1, <2>2 DEF Along
  <1>2. <<a, b, s>> \in W
    <2>1. W \in SUBSET Trip
      OBVIOUS
    <2> HIDE DEF W
    <2> QED BY <1>1, <2>1, WalkInduction
  <1> QED BY <1>2

-----------------------------------------------------------------------------
(* The tracks of s at a city, and the cities with an odd number of them. *)
At(c, s) == {r \in s : Touches(r, c)}
IsOdd(c, s) == Cardinality(At(c, s)) % 2 = 1

LEMMA OddOfBoth ==
  ASSUME NEW c \in City, NEW s \in SUBSET Route, NEW t \in SUBSET Route, s \cap t = {}
  PROVE  IsOdd(c, s \cup t) <=> (IsOdd(c, s) <=> ~IsOdd(c, t))
PROOF
  <1>1. IsFiniteSet(At(c, s)) /\ IsFiniteSet(At(c, t))
    BY ScoringAssumption, FS_Subset DEF At
  <1>2. At(c, s \cup t) = At(c, s) \cup At(c, t) /\ At(c, s) \cap At(c, t) = {}
    BY DEF At
  <1>3. Cardinality(At(c, s \cup t)) = Cardinality(At(c, s)) + Cardinality(At(c, t)) - Cardinality({})
    <2> DEFINE A == At(c, s)
               B == At(c, t)
    <2> HIDE DEF A, B
    <2>1. IsFiniteSet(A) /\ IsFiniteSet(B)
      BY <1>1 DEF A, B
    <2>2. Cardinality(A \cup B) = Cardinality(A) + Cardinality(B) - Cardinality(A \cap B)
      BY <2>1, FS_Union
    <2>3. A \cup B = At(c, s \cup t) /\ A \cap B = {}
      BY <1>2 DEF A, B
    <2>4. Cardinality(A) = Cardinality(At(c, s)) /\ Cardinality(B) = Cardinality(At(c, t))
      BY DEF A, B
    <2> QED BY <2>2, <2>3, <2>4
  <1>4. Cardinality({}) = 0 /\ Cardinality(At(c, s)) \in Nat /\ Cardinality(At(c, t)) \in Nat
    BY <1>1, FS_EmptySet, FS_CardinalityType
  <1>5. \A m, n \in Nat : (m + n) % 2 = 1 <=> (m % 2 = 1 <=> n % 2 # 1)
    OBVIOUS
  <1>6. IsOdd(c, s \cup t) <=> (Cardinality(At(c, s)) + Cardinality(At(c, t))) % 2 = 1
    BY <1>3, <1>4 DEF IsOdd
  <1> QED BY <1>4, <1>5, <1>6 DEF IsOdd

LEMMA OddOfOne ==
  ASSUME NEW c \in City, NEW r \in Route
  PROVE  /\ ~IsOdd(c, {})
         /\ IsOdd(c, {r}) <=> Touches(r, c)
PROOF
  <1>1. At(c, {}) = {} /\ At(c, {r}) = IF Touches(r, c) THEN {r} ELSE {}
    BY DEF At
  <1>2. Cardinality({}) = 0 /\ Cardinality({r}) = 1
    BY FS_EmptySet, FS_Singleton
  <1> QED BY <1>1, <1>2 DEF IsOdd

(* A walk comes to every city as often as it leaves it, but for its two ends. *)
LEMMA WalkEnds ==
  ASSUME NEW a \in City, NEW b \in City, NEW s \in SUBSET Route, Goes(a, b, s), NEW c \in City
  PROVE  IsOdd(c, s) <=> (c = a <=> c # b)
PROOF
  <1> DEFINE W == {w \in Trip : \A x \in City : IsOdd(x, w[3]) <=> (x = w[1] <=> x # w[2])}
  <1>1. Along(W)
    <2>1. ASSUME NEW x \in City
          PROVE  <<x, x, {}>> \in W
      <3>1. \A z \in City : ~IsOdd(z, {})
        <4>1. CASE Route = {}
          <5>1. \A z : At(z, {}) = {}
            BY DEF At
          <5> QED BY <5>1, FS_EmptySet DEF IsOdd
        <4> QED BY <4>1, OddOfOne
      <3> QED BY <3>1 DEF Trip
    <2>2. ASSUME NEW r \in Route, NEW x \in City, NEW y \in City, NEW u \in SUBSET Route,
                 Touches(r, x), r \notin u, <<Other(r, x), y, u>> \in W
          PROVE  <<x, y, u \cup {r}>> \in W
      <3>1. /\ Other(r, x) \in City /\ Other(r, x) # x
            /\ \A d \in City : Touches(r, d) <=> d \in {x, Other(r, x)}
        BY <2>2, EndOfTrack
      <3>2. ASSUME NEW z \in City
            PROVE  IsOdd(z, u \cup {r}) <=> (z = x <=> z # y)
        <4>1. u \cap {r} = {} /\ {r} \in SUBSET Route
          BY <2>2
        <4>2. IsOdd(z, u \cup {r}) <=> (IsOdd(z, u) <=> ~IsOdd(z, {r}))
          BY <4>1, OddOfBoth
        <4>3. IsOdd(z, {r}) <=> (z = x \/ z = Other(r, x))
          BY <3>1, OddOfOne
        <4>4. IsOdd(z, u) <=> (z = Other(r, x) <=> z # y)
          BY <2>2
        <4> HIDE DEF W
        <4> QED BY <3>1, <4>2, <4>3, <4>4
      <3> QED BY <3>2 DEF Trip
    <2> HIDE DEF W
    <2> QED BY <2>1, <2>2 DEF Along
  <1>2. <<a, b, s>> \in W
    <2>1. W \in SUBSET Trip
      OBVIOUS
    <2> HIDE DEF W
    <2> QED BY <1>1, <2>1, WalkInduction
  <1> QED BY <1>2

(* All its tracks are in one component. *)
LEMMA TrackJoins ==
  ASSUME NEW s \in SUBSET Route, NEW r \in s, NEW c \in City, Touches(r, c)
  PROVE  Same(s, Ends[r][1], c) /\ Same(s, c, Other(r, c))
PROOF
  <1>1. Class[s][Ends[r][1]] = Class[s][Ends[r][2]]
    BY ClassIsFinest DEF Keeps
  <1> QED BY <1>1 DEF Same, Touches, Other

LEMMA WalkConnects ==
  ASSUME NEW a \in City, NEW b \in City, NEW s \in SUBSET Route, Goes(a, b, s)
  PROVE  \A r \in s : Same(s, Ends[r][1], a)
PROOF
  <1> DEFINE W == {w \in Trip : \A r \in w[3] : Same(w[3], Ends[r][1], w[1])}
  <1>1. Along(W)
    <2>1. ASSUME NEW x \in City
          PROVE  <<x, x, {}>> \in W
      BY DEF Trip
    <2>2. ASSUME NEW r \in Route, NEW x \in City, NEW y \in City, NEW u \in SUBSET Route,
                 Touches(r, x), r \notin u, <<Other(r, x), y, u>> \in W
          PROVE  <<x, y, u \cup {r}>> \in W
      <3> DEFINE more == u \cup {r}
      <3>1. Other(r, x) \in City /\ more \in SUBSET Route /\ r \in more
        BY <2>2, EndOfTrack
      <3>2. Same(more, Ends[r][1], x) /\ Same(more, x, Other(r, x))
        BY <2>2, <3>1, TrackJoins
      <3>3. ASSUME NEW o \in u
            PROVE  Same(more, Ends[o][1], x)
        <4>1. Same(u, Ends[o][1], Other(r, x)) /\ Ends[o][1] \in City
          BY <2>2, EndsAreCities
        <4>2. Same(more, Ends[o][1], Other(r, x))
          BY <3>1, <4>1, SameGrows
        <4> HIDE DEF more
        <4> QED BY <3>2, <4>2 DEF Same
      <3> QED BY <3>2, <3>3 DEF Trip
    <2> HIDE DEF W
    <2> QED BY <2>1, <2>2 DEF Along
  <1>2. <<a, b, s>> \in W
    <2>1. W \in SUBSET Trip
      OBVIOUS
    <2> HIDE DEF W
    <2> QED BY <1>1, <2>1, WalkInduction
  <1> QED BY <1>2

-----------------------------------------------------------------------------
(* The tracks of a walk are a trail. *)
Joint(edges) == {Class[edges][Ends[r][1]] : r \in edges}
Odd(edges) == {c \in City : IsOdd(c, edges)}

LEMMA TrailIs ==
  ASSUME NEW edges
  PROVE  IsTrail(edges) <=> Cardinality(Joint(edges)) <= 1 /\ Cardinality(Odd(edges)) <= 2
BY DEF IsTrail, Joint, Odd, IsOdd, At

LEMMA WalkIsTrail ==
  ASSUME NEW a \in City, NEW b \in City, NEW s \in SUBSET Route, Goes(a, b, s)
  PROVE  IsTrail(s)
PROOF
  <1>1. Joint(s) \subseteq {Class[s][a]}
    BY WalkConnects DEF Joint, Same
  <1>2. Odd(s) \subseteq {a, b}
    BY WalkEnds DEF Odd
  <1> QED BY <1>1, <1>2, AtMostOne, AtMostTwo, TrailIs

(* Of the walks of some kind along tracks of a set there is one that no other
   is longer than. *)
LEMMA LongestWalk ==
  ASSUME NEW edges \in SUBSET Route, NEW S \in SUBSET (City \X City \X SUBSET edges), S # {}
  PROVE  \E w \in S : \A x \in S : Cardinality(x[3]) <= Cardinality(w[3])
PROOF
  <1> DEFINE T == {Cardinality(w[3]) : w \in S}
             n == Cardinality(edges)
  <1>1. IsFiniteSet(edges) /\ n \in Nat
    BY ScoringAssumption, FS_Subset, FS_CardinalityType
  <1>2. ASSUME NEW w \in S
        PROVE  Cardinality(w[3]) \in 0 .. n
    <2>1. w[3] \in SUBSET edges
      OBVIOUS
    <2>2. IsFiniteSet(w[3]) /\ Cardinality(w[3]) \in Nat /\ Cardinality(w[3]) <= n
      BY <1>1, <2>1, FS_Subset, FS_CardinalityType
    <2> QED BY <1>1, <2>2
  <1>3. T \in SUBSET (0 .. n) /\ T # {}
    BY <1>2
  <1>4. IsFiniteSet(T) /\ T \in SUBSET Nat
    <2>1. IsFiniteSet(0 .. n)
      BY <1>1, FS_Interval
    <2>2. T \in SUBSET Nat
      BY <1>1, <1>3
    <2> HIDE DEF T, n
    <2>3. IsFiniteSet(T)
      BY <1>3, <2>1, FS_Subset
    <2> QED BY <2>2, <2>3
  <1> HIDE DEF n
  <1>5. PICK k \in T : \A j \in T : j <= k
    <2> HIDE DEF T
    <2> QED BY <1>3, <1>4, LargestNatural
  <1> QED BY <1>5

(* And a trail is a walk. *)

(* More tracks are more. *)
LEMMA LargerWith ==
  ASSUME NEW s \in SUBSET Route, NEW u \in SUBSET Route, u # {}, s \cap u = {}
  PROVE  Cardinality(s) < Cardinality(s \cup u)
PROOF
  <1>1. IsFiniteSet(s) /\ IsFiniteSet(u)
    BY ScoringAssumption, FS_Subset
  <1>2. Cardinality(s \cup u) = Cardinality(s) + Cardinality(u) - Cardinality({})
    BY <1>1, FS_Union
  <1>3. Cardinality({}) = 0 /\ Cardinality(s) \in Nat /\ Cardinality(u) \in Nat /\ Cardinality(u) # 0
    BY <1>1, FS_EmptySet, FS_CardinalityType
  <1> QED BY <1>2, <1>3

(* In one component, what is not all touches the rest. *)
LEMMA RestTouches ==
  ASSUME NEW edges \in SUBSET Route, Cardinality(Joint(edges)) <= 1,
         NEW s \in SUBSET edges, s # {}, s # edges
  PROVE  \E v \in City : (\E o \in s : Touches(o, v)) /\ (\E r \in edges \ s : Touches(r, v))
PROOF
  <1> SUFFICES ASSUME \A v \in City : (\E o \in s : Touches(o, v)) => ~(\E r \in edges \ s : Touches(r, v))
               PROVE  FALSE
    OBVIOUS
  <1>1. PICK o \in s, r \in edges : r \notin s
    OBVIOUS
  <1> DEFINE p == Ends[o][1]
             q == Ends[o][2]
             Q == [c \in City |-> IF \E i \in s : Touches(i, c) THEN p ELSE q]
  <1>2. /\ o \in Route /\ r \in Route /\ p \in City /\ q \in City /\ p # q
        /\ Ends[r][1] \in City /\ Ends[r][2] \in City
    BY <1>1, ScoringAssumption
  <1>3. Q \in [City -> City]
    BY <1>2
  <1>4. Keeps(Q, edges)
    <2> SUFFICES ASSUME NEW i \in edges
                 PROVE  Q[Ends[i][1]] = Q[Ends[i][2]]
      BY DEF Keeps
    <2>1. /\ Ends[i][1] \in City /\ Ends[i][2] \in City
          /\ Touches(i, Ends[i][1]) /\ Touches(i, Ends[i][2])
      BY EndsAreCities DEF Touches
    <2>2. CASE i \in s
      BY <2>1, <2>2
    <2>3. CASE i \notin s
      <3>1. ~(\E j \in s : Touches(j, Ends[i][1])) /\ ~(\E j \in s : Touches(j, Ends[i][2]))
        BY <2>1, <2>3
      <3> QED BY <2>1, <3>1
    <2> QED BY <2>2, <2>3
  <1>5. Class[edges][Ends[o][1]] = Class[edges][Ends[r][1]]
    <2>1. IsFiniteSet(Joint(edges))
      <3>1. IsFiniteSet(edges)
        BY ScoringAssumption, FS_Subset
      <3> DEFINE f == [i \in edges |-> Class[edges][Ends[i][1]]]
      <3>2. IsFiniteSet({f[i] : i \in edges})
        <4>1. f \in [edges -> Joint(edges)]
          BY DEF Joint
        <4> HIDE DEF f
        <4> QED BY <3>1, <4>1, ImageIsFinite
      <3>3. {f[i] : i \in edges} = Joint(edges)
        BY DEF Joint
      <3> QED BY <3>2, <3>3
    <2>2. Class[edges][Ends[o][1]] \in Joint(edges) /\ Class[edges][Ends[r][1]] \in Joint(edges)
      BY <1>1 DEF Joint
    <2> QED BY <2>1, <2>2, OnlyOne
  <1>6. Q[Ends[o][1]] = Q[Ends[r][1]]
    <2>1. Finest(Class[edges], edges)
      BY ClassIsFinest
    <2> HIDE DEF Q
    <2> QED BY <1>2, <1>3, <1>4, <1>5, <2>1 DEF Finest
  <1>7. Q[Ends[o][1]] = p
    BY <1>1, <1>2 DEF Touches
  <1>8. Q[Ends[r][1]] = q
    <2>1. Touches(r, Ends[r][1])
      BY DEF Touches
    <2>2. ~\E i \in s : Touches(i, Ends[r][1])
      BY <1>1, <1>2, <2>1
    <2> QED BY <1>2, <2>2
  <1> QED BY <1>2, <1>6, <1>7, <1>8

LEMMA OddIsFinite ==
  ASSUME NEW edges \in SUBSET Route
  PROVE  IsFiniteSet(Odd(edges)) /\ IsFiniteSet(Vertices(edges)) /\ Odd(edges) \subseteq Vertices(edges)
PROOF
  <1>1. IsFiniteSet(edges)
    BY ScoringAssumption, FS_Subset
  <1> DEFINE f == [r \in edges |-> Ends[r][1]]
             g == [r \in edges |-> Ends[r][2]]
             F == {f[r] : r \in edges}
             G == {g[r] : r \in edges}
  <1>2. IsFiniteSet(F) /\ IsFiniteSet(G)
    <2>1. f \in [edges -> City] /\ g \in [edges -> City]
      BY EndsAreCities
    <2> HIDE DEF f, g
    <2> QED BY <1>1, <2>1, ImageIsFinite
  <1>3. IsFiniteSet(F \cup G)
    <2> HIDE DEF F, G
    <2> QED BY <1>2, FS_Union
  <1>4. Vertices(edges) \subseteq F \cup G
    BY DEF Vertices, Touches
  <1>5. IsFiniteSet(Vertices(edges))
    <2> HIDE DEF F, G
    <2> QED BY <1>3, <1>4, FS_Subset
  <1>6. ASSUME NEW c \in Odd(edges)
        PROVE  c \in Vertices(edges)
    <2>1. CASE At(c, edges) = {}
      BY <1>6, <2>1, FS_EmptySet DEF Odd, IsOdd
    <2>2. CASE At(c, edges) # {}
      BY <1>6, <2>2 DEF Odd, At, Vertices
    <2> QED BY <2>1, <2>2
  <1> QED BY <1>5, <1>6, FS_Subset

(* Where every city has an even number of tracks, a walk that no other from
   there is longer than comes back. *)
LEMMA RoundTrip ==
  ASSUME NEW t \in SUBSET Route, \A c \in City : ~IsOdd(c, t),
         NEW r \in t, NEW v \in City, Touches(r, v)
  PROVE  \E u \in SUBSET t : u # {} /\ Goes(v, v, u)
PROOF
  <1> DEFINE S == {x \in City \X City \X SUBSET t : x \in Walks /\ x[1] = v}
  <1>1. Other(r, v) \in City /\ Goes(v, Other(r, v), {r})
    BY EndOfTrack, OneTrack
  <1>2. <<v, Other(r, v), {r}>> \in S
    BY <1>1 DEF Goes
  <1>3. PICK x \in S : \A y \in S : Cardinality(y[3]) <= Cardinality(x[3])
    <2>1. S \in SUBSET (City \X City \X SUBSET t) /\ S # {}
      BY <1>2
    <2> HIDE DEF S
    <2> QED BY <2>1, LongestWalk
  <1>4. PICK w \in City, u \in SUBSET t : x = <<v, w, u>> /\ Goes(v, w, u)
    BY <1>3 DEF Goes
  <1>5. ASSUME NEW y \in City, NEW s \in SUBSET t, Goes(v, y, s)
        PROVE  Cardinality(s) <= Cardinality(u)
    <2>1. <<v, y, s>> \in S
      BY <1>5 DEF Goes
    <2> HIDE DEF S
    <2> QED BY <1>3, <1>4, <2>1
  <1>6. u # {}
    <2>1. Cardinality({r}) = 1 /\ Cardinality({}) = 0
      BY FS_Singleton, FS_EmptySet
    <2>2. Cardinality({r}) <= Cardinality(u)
      BY <1>1, <1>5
    <2> QED BY <2>1, <2>2
  <1>7. w = v
    <2> SUFFICES ASSUME w # v
                 PROVE  FALSE
      OBVIOUS
    <2>1. IsOdd(w, u)
      BY <1>4, WalkEnds
    <2>2. IsOdd(w, t \ u)
      <3>1. u \cap (t \ u) = {} /\ u \cup (t \ u) = t /\ u \in SUBSET Route /\ t \ u \in SUBSET Route
        OBVIOUS
      <3>2. IsOdd(w, u \cup (t \ u)) <=> (IsOdd(w, u) <=> ~IsOdd(w, t \ u))
        BY <3>1, OddOfBoth
      <3> QED BY <2>1, <3>1, <3>2
    <2>3. PICK o \in t \ u : Touches(o, w)
      <3>1. At(w, t \ u) # {}
        <4> SUFFICES ASSUME At(w, t \ u) = {}
                     PROVE  FALSE
          OBVIOUS
        <4>1. Cardinality(At(w, t \ u)) = 0
          BY FS_EmptySet
        <4> QED BY <2>2, <4>1 DEF IsOdd
      <3> QED BY <3>1 DEF At
    <2>4. Other(o, w) \in City /\ Goes(w, Other(o, w), {o})
      BY <2>3, EndOfTrack, OneTrack
    <2>5. u \cap {o} = {} /\ {o} # {} /\ {o} \in SUBSET Route /\ u \in SUBSET Route /\ u \cup {o} \in SUBSET t
      BY <2>3
    <2>6. Goes(v, Other(o, w), u \cup {o})
      BY <1>4, <2>4, <2>5, WalkOn
    <2>7. Cardinality(u \cup {o}) <= Cardinality(u)
      BY <1>5, <2>4, <2>5, <2>6
    <2>8. Cardinality(u) < Cardinality(u \cup {o})
      BY <2>5, LargerWith
    <2>9. Cardinality(u) \in Nat /\ Cardinality(u \cup {o}) \in Nat
      BY <2>5, ScoringAssumption, FS_Subset, FS_CardinalityType
    <2> QED BY <2>7, <2>8, <2>9
  <1> QED BY <1>4, <1>6, <1>7

LEMMA TrailIsWalk ==
  ASSUME NEW edges \in SUBSET Route, edges # {}, IsTrail(edges)
  PROVE  \E a, b \in City : Goes(a, b, edges)
PROOF
  <1>0. Cardinality(Joint(edges)) <= 1 /\ Cardinality(Odd(edges)) <= 2
    BY TrailIs
  <1> DEFINE S == {x \in City \X City \X SUBSET edges : x \in Walks}
  <1>1. PICK i \in edges : i \in Route /\ Ends[i][1] \in City /\ Touches(i, Ends[i][1])
    BY EndsAreCities DEF Touches
  <1>2. Other(i, Ends[i][1]) \in City /\ Goes(Ends[i][1], Other(i, Ends[i][1]), {i})
    BY <1>1, EndOfTrack, OneTrack
  <1>3. <<Ends[i][1], Other(i, Ends[i][1]), {i}>> \in S
    BY <1>1, <1>2 DEF Goes
  <1>4. PICK x \in S : \A y \in S : Cardinality(y[3]) <= Cardinality(x[3])
    <2>1. S \in SUBSET (City \X City \X SUBSET edges) /\ S # {}
      BY <1>3
    <2> HIDE DEF S
    <2> QED BY <2>1, LongestWalk
  <1>5. PICK a \in City, b \in City, s \in SUBSET edges : x = <<a, b, s>> /\ Goes(a, b, s)
    BY <1>4 DEF Goes
  <1>6. ASSUME NEW c \in City, NEW d \in City, NEW u \in SUBSET edges, u # {}, s \cap u = {}, Goes(c, d, s \cup u)
        PROVE  FALSE
    <2>1. <<c, d, s \cup u>> \in S
      BY <1>6 DEF Goes
    <2>2. Cardinality(s \cup u) <= Cardinality(s)
      <3> HIDE DEF S
      <3> QED BY <1>4, <1>5, <2>1
    <2>3. Cardinality(s) < Cardinality(s \cup u)
      BY <1>6, LargerWith
    <2>4. Cardinality(s) \in Nat /\ Cardinality(s \cup u) \in Nat
      BY ScoringAssumption, FS_Subset, FS_CardinalityType
    <2> QED BY <2>2, <2>3, <2>4
  <1>7. s # {}
    <2>1. {} \cap {i} = {} /\ {} \cup {i} = {i} /\ {i} # {} /\ {i} \in SUBSET edges
      OBVIOUS
    <2> QED BY <1>1, <1>2, <1>6, <2>1
  <1> SUFFICES ASSUME s # edges
               PROVE  FALSE
    BY <1>5
  <1>8. PICK v \in City : (\E o \in s : Touches(o, v)) /\ (\E r \in edges \ s : Touches(r, v))
    BY <1>0, <1>7, RestTouches
  <1>9. PICK r \in edges \ s : Touches(r, v)
    BY <1>8
  <1>10. ASSUME NEW o \in edges \ s, NEW c \in City, NEW d \in City, Touches(o, c), Goes(c, d, s)
         PROVE  FALSE
    <2>1. Other(o, c) \in City /\ Touches(o, Other(o, c)) /\ Other(o, Other(o, c)) = c
      BY <1>10, EndOfTrack
    <2>2. Goes(Other(o, c), d, s \cup {o})
      BY <1>10, <2>1, WalksGrow DEF Grows, Goes
    <2>3. {o} \in SUBSET edges /\ {o} # {} /\ s \cap {o} = {}
      OBVIOUS
    <2> QED BY <1>6, <2>1, <2>2, <2>3
  <1>11. a # b
    <2> SUFFICES ASSUME a = b
                 PROVE  FALSE
      OBVIOUS
    <2>1. PICK s1, s2 \in SUBSET Route : s1 \cap s2 = {} /\ s1 \cup s2 = s /\ Goes(a, v, s1) /\ Goes(v, a, s2)
      <3>1. Parts(a, v, a, s)
        BY <1>5, <1>8, WalkPasses
      <3> QED BY <3>1 DEF Parts
    <2>2. s2 \cap s1 = {} /\ s2 \cup s1 = s
      BY <2>1
    <2>3. Goes(v, v, s)
      BY <2>1, <2>2, WalkOn
    <2> QED BY <1>9, <1>10, <2>3
  <1>12. Goes(b, a, s)
    BY <1>5, WalkBack
  <1>13. /\ \A o \in edges \ s : ~Touches(o, a) /\ ~Touches(o, b)
         /\ IsOdd(a, s) /\ IsOdd(b, s)
    BY <1>5, <1>10, <1>11, <1>12, WalkEnds
  <1>14. a \in Odd(edges) /\ b \in Odd(edges)
    <2>1. At(a, edges) = At(a, s) /\ At(b, edges) = At(b, s)
      BY <1>13 DEF At
    <2> QED BY <1>13, <2>1 DEF Odd, IsOdd
  <1>15. Odd(edges) = {a, b}
    BY <1>0, <1>11, <1>14, OddIsFinite, OnlyTwo
  <1>16. ASSUME NEW c \in City
         PROVE  ~IsOdd(c, edges \ s)
    <2>1. s \cap (edges \ s) = {} /\ s \cup (edges \ s) = edges /\ s \in SUBSET Route /\ edges \ s \in SUBSET Route
      OBVIOUS
    <2>2. IsOdd(c, s \cup (edges \ s)) <=> (IsOdd(c, s) <=> ~IsOdd(c, edges \ s))
      BY <2>1, OddOfBoth
    <2>3. IsOdd(c, edges) <=> c \in {a, b}
      BY <1>15 DEF Odd
    <2>4. IsOdd(c, s) <=> (c = a <=> c # b)
      BY <1>5, WalkEnds
    <2> QED BY <1>11, <2>1, <2>2, <2>3, <2>4
  <1>17. PICK u \in SUBSET (edges \ s) : u # {} /\ Goes(v, v, u)
    <2>1. edges \ s \in SUBSET Route
      OBVIOUS
    <2> QED BY <1>9, <1>16, <2>1, RoundTrip
  <1>18. PICK s1, s2 \in SUBSET Route : s1 \cap s2 = {} /\ s1 \cup s2 = s /\ Goes(a, v, s1) /\ Goes(v, b, s2)
    <2>1. Parts(a, v, b, s)
      BY <1>5, <1>8, WalkPasses
    <2> QED BY <2>1 DEF Parts
  <1>19. Goes(a, v, s1 \cup u)
    <2>1. s1 \cap u = {} /\ u \in SUBSET Route
      BY <1>17, <1>18
    <2> QED BY <1>17, <1>18, <2>1, WalkOn
  <1>20. Goes(a, b, s \cup u)
    <2>1. (s1 \cup u) \cap s2 = {} /\ (s1 \cup u) \cup s2 = s \cup u /\ s1 \cup u \in SUBSET Route
      BY <1>17, <1>18
    <2>2. Goes(a, b, (s1 \cup u) \cup s2)
      BY <1>18, <1>19, <2>1, WalkOn
    <2> QED BY <2>1, <2>2
  <1>21. u \in SUBSET edges /\ u # {} /\ s \cap u = {}
    BY <1>17
  <1> QED BY <1>6, <1>20, <1>21

-----------------------------------------------------------------------------
(* What the walks from a city along tracks of a set are worth. *)

LEMMA SizeIs ==
  ASSUME NEW t \in SUBSET Route, NEW s \in SUBSET t
  PROVE  /\ Size(s) \in Nat /\ Size(s) <= Size(t) /\ Size({}) = 0
         /\ \A r \in Route \ s : Size(s \cup {r}) = Size(s) + Length[r]
PROOF
  <1>1. \A e : Size(e) = Sum(Length, e)
    BY DEF Size, Sum
  <1>2. IsFiniteSet(Route) /\ \A r \in Route : Length[r] \in Nat
    BY ScoringAssumption
  <1>3. Sum(Length, s) \in Nat /\ Sum(Length, s) <= Sum(Length, t)
    BY <1>2, SumIsMonotone
  <1>4. \A r \in Route \ s : Sum(Length, s \cup {r}) = Sum(Length, s) + Length[r]
    BY <1>2, SumOfOneMore
  <1>5. Sum(Length, {}) = 0
    BY SumOfNone
  <1> QED BY <1>1, <1>3, <1>4, <1>5

Reached(c, free) == {s \in SUBSET free : \E b \in City : Goes(c, b, s)}
Reach(c, free) == Max({Size(s) : s \in Reached(c, free)})

LEMMA SizesAreFinite ==
  ASSUME NEW edges \in SUBSET Route, NEW S \in SUBSET (SUBSET edges)
  PROVE  IsFiniteSet({Size(s) : s \in S}) /\ {Size(s) : s \in S} \in SUBSET Nat
PROOF
  <1>1. IsFiniteSet(SUBSET edges)
    BY ScoringAssumption, FS_Subset, FS_SUBSET
  <1>2. IsFiniteSet(S)
    BY <1>1, FS_Subset
  <1>3. \A s \in S : Size(s) \in Nat
    BY SizeIs
  <1> DEFINE f == [s \in S |-> Size(s)]
  <1>4. f \in [S -> Nat]
    BY <1>3
  <1>5. IsFiniteSet({f[s] : s \in S})
    <2> HIDE DEF f
    <2> QED BY <1>2, <1>4, ImageIsFinite
  <1>6. {f[s] : s \in S} = {Size(s) : s \in S}
    OBVIOUS
  <1> QED BY <1>3, <1>5, <1>6

LEMMA ReachIs ==
  ASSUME NEW c \in City, NEW free \in SUBSET Route
  PROVE  /\ Reach(c, free) \in Nat /\ Reach(c, free) <= Size(free)
         /\ \E s \in Reached(c, free) : Reach(c, free) = Size(s)
         /\ \A s \in Reached(c, free) : Size(s) <= Reach(c, free)
PROOF
  <1> DEFINE T == {Size(s) : s \in Reached(c, free)}
  <1>1. {} \in Reached(c, free)
    BY WalksGrow DEF Reached, Grows, Goes
  <1>2. IsFiniteSet(T) /\ T \in SUBSET Nat
    BY SizesAreFinite DEF Reached
  <1>3. T # {}
    BY <1>1
  <1>4. Max(T) \in T /\ \A j \in T : j <= Max(T)
    <2> HIDE DEF T
    <2> QED BY <1>2, <1>3, MaxIsLargest
  <1>5. Reach(c, free) = Max(T)
    BY DEF Reach
  <1>6. PICK s \in Reached(c, free) : Max(T) = Size(s)
    BY <1>4
  <1>7. s \in SUBSET free
    BY DEF Reached
  <1>8. Size(s) \in Nat /\ Size(s) <= Size(free)
    BY <1>7, SizeIs
  <1>9. \A z \in Reached(c, free) : Size(z) <= Max(T)
    BY <1>4
  <1> HIDE DEF T
  <1> QED BY <1>5, <1>6, <1>8, <1>9

(* It is nothing, or a first track and what there is from its other end. *)
LEMMA ReachBySteps ==
  ASSUME NEW c \in City, NEW free \in SUBSET Route
  PROVE  /\ \A r \in At(c, free) : Length[r] + Reach(Other(r, c), free \ {r}) <= Reach(c, free)
         /\ \/ Reach(c, free) = 0
            \/ \E r \in At(c, free) : Reach(c, free) = Length[r] + Reach(Other(r, c), free \ {r})
PROOF
  <1>1. ASSUME NEW r \in At(c, free)
        PROVE  /\ r \in Route /\ Touches(r, c) /\ Other(r, c) \in City /\ free \ {r} \in SUBSET Route
               /\ Length[r] \in Nat /\ Reach(Other(r, c), free \ {r}) \in Nat
    <2>1. r \in free /\ r \in Route /\ Touches(r, c)
      BY DEF At
    <2>2. Other(r, c) \in City
      BY <2>1, EndOfTrack
    <2> QED BY <2>1, <2>2, ReachIs, ScoringAssumption
  <1>2. ASSUME NEW r \in At(c, free)
        PROVE  Length[r] + Reach(Other(r, c), free \ {r}) <= Reach(c, free)
    <2>1. PICK s \in Reached(Other(r, c), free \ {r}) : Reach(Other(r, c), free \ {r}) = Size(s)
      BY <1>1, ReachIs
    <2>2. PICK b \in City : s \in SUBSET (free \ {r}) /\ Goes(Other(r, c), b, s)
      BY DEF Reached
    <2>3. r \notin s /\ s \in SUBSET Route /\ r \in free
      BY <2>2 DEF At
    <2>4. Goes(c, b, s \cup {r})
      BY <1>1, <2>2, <2>3, WalksGrow DEF Grows, Goes
    <2>5. s \cup {r} \in Reached(c, free)
      BY <2>2, <2>3, <2>4 DEF Reached
    <2>6. Size(s \cup {r}) = Size(s) + Length[r]
      BY <1>1, <2>3, SizeIs
    <2>7. Size(s \cup {r}) <= Reach(c, free)
      BY <2>5, ReachIs
    <2> QED BY <1>1, <2>1, <2>6, <2>7
  <1>3. PICK s \in Reached(c, free) : Reach(c, free) = Size(s)
    BY ReachIs
  <1>4. PICK b \in City : s \in SUBSET free /\ Goes(c, b, s)
    BY DEF Reached
  <1>5. CASE s = {}
    BY <1>2, <1>3, <1>5, SizeIs
  <1>6. CASE s # {}
    <2>1. PICK r \in s : Touches(r, c) /\ Goes(Other(r, c), b, s \ {r})
      BY <1>4, <1>6, FirstTrack
    <2>2. r \in At(c, free)
      BY <1>4, <2>1 DEF At
    <2>3. s \ {r} \in Reached(Other(r, c), free \ {r})
      BY <1>4, <2>1 DEF Reached
    <2>4. Size(s \ {r}) <= Reach(Other(r, c), free \ {r})
      BY <1>1, <2>2, <2>3, ReachIs
    <2>5. Size(s) = Size(s \ {r}) + Length[r] /\ Size(s \ {r}) \in Nat
      <3>1. (s \ {r}) \cup {r} = s /\ s \ {r} \in SUBSET Route /\ r \in Route \ (s \ {r})
        BY <1>4, <2>1
      <3> QED BY <3>1, SizeIs
    <2>6. Reach(c, free) = Length[r] + Reach(Other(r, c), free \ {r})
      <3>1. Length[r] + Reach(Other(r, c), free \ {r}) <= Reach(c, free)
        BY <1>2, <2>2
      <3>2. Reach(c, free) = Size(s \ {r}) + Length[r]
        BY <1>3, <2>5
      <3>3. Length[r] \in Nat /\ Reach(Other(r, c), free \ {r}) \in Nat
        BY <1>1, <2>2
      <3> QED BY <2>4, <2>5, <3>1, <3>2, <3>3
    <2> QED BY <1>2, <2>2, <2>6
  <1> QED BY <1>5, <1>6

-----------------------------------------------------------------------------
(* The search.  What it steps on to from a node, what it folds there, and what
   it returns. *)
Larger(x, y) == IF x >= y THEN x ELSE y
StepTo(n, r, x) == [at |-> Other(r, n.at), free |-> n.free \ {r}, acc |-> n.acc + Length[r], best |-> x]
Onwards(F, n, b, h) ==
  h = [s \in SUBSET At(n.at, n.free) |->
         IF s = {} THEN b ELSE F[StepTo(n, Chosen(s), h[s \ {Chosen(s)}])]]
Folded(F, n, b) == (CHOOSE h : Onwards(F, n, b, h))[At(n.at, n.free)]
Searched(F, n) ==
  LET b == Max({n.best, n.acc})
  IN IF n.acc + Size(n.free) <= b THEN b ELSE Folded(F, n, b)
Searches(F) == F = [n \in Walk |-> Searched(F, n)]

LEMMA TrailFromIs ==
  ASSUME NEW start, NEW edges, NEW longest
  PROVE  TrailFrom(start, edges, longest) =
           (CHOOSE F : Searches(F))[[at |-> start, free |-> edges, acc |-> 0, best |-> longest]]
BY DEF TrailFrom, Searches, Searched, Folded, Onwards, StepTo, At, Chosen, FoldSet, MapThenFoldSet

(* It is to return the longer of what was seen before and the best there is. *)
Answer(n) == Larger(n.best, n.acc + Reach(n.at, n.free))

LEMMA AnswerIs ==
  ASSUME NEW n \in Walk
  PROVE  /\ Answer(n) \in Nat /\ Reach(n.at, n.free) \in Nat
         /\ n.at \in City /\ n.free \in SUBSET Route /\ n.acc \in Nat /\ n.best \in Nat
PROOF
  <1>1. n.at \in City /\ n.free \in SUBSET Route /\ n.acc \in Nat /\ n.best \in Nat
    BY DEF Walk
  <1>2. Reach(n.at, n.free) \in Nat
    BY <1>1, ReachIs
  <1> QED BY <1>1, <1>2 DEF Answer, Larger

(* F does so wherever the search steps on to from n. *)
Agrees(F, n) == \A r \in At(n.at, n.free), x \in Nat : F[StepTo(n, r, x)] = Answer(StepTo(n, r, x))

(* Then what is folded is the longest of all that goes on from there. *)
LEMMA FoldedIs ==
  ASSUME NEW n \in Walk, NEW F, Agrees(F, n), NEW b \in Nat, n.acc <= b
  PROVE  Folded(F, n, b) = Larger(b, n.acc + Reach(n.at, n.free))
PROOF
  <1> DEFINE T == At(n.at, n.free)
             more(r) == n.acc + Length[r] + Reach(Other(r, n.at), n.free \ {r})
             op == [q \in T \X Nat |-> Larger(q[2], more(q[1]))]
             I == {q \in (SUBSET T) \X Nat :
                     /\ b <= q[2] /\ \A r \in q[1] : more(r) <= q[2]
                     /\ q[2] = b \/ \E r \in q[1] : q[2] = more(r)}
  <1>0. n.at \in City /\ n.free \in SUBSET Route /\ n.acc \in Nat /\ n.best \in Nat /\ Reach(n.at, n.free) \in Nat
    BY AnswerIs
  <1>1. IsFiniteSet(T)
    BY <1>0, ScoringAssumption, FS_Subset DEF At
  <1>2. ASSUME NEW r \in T
        PROVE  more(r) \in Nat /\ Length[r] \in Nat /\ Reach(Other(r, n.at), n.free \ {r}) \in Nat
    <2>1. r \in Route /\ Touches(r, n.at) /\ Length[r] \in Nat /\ n.free \ {r} \in SUBSET Route
      BY <1>0, ScoringAssumption DEF At
    <2>2. Other(r, n.at) \in City
      BY <1>0, <2>1, EndOfTrack
    <2>3. Reach(Other(r, n.at), n.free \ {r}) \in Nat
      BY <2>1, <2>2, ReachIs
    <2> QED BY <1>0, <2>1, <2>3
  <1>3. ASSUME NEW r \in T, NEW x \in Nat
        PROVE  op[<<r, x>>] = F[StepTo(n, r, x)] /\ op[<<r, x>>] = Larger(x, more(r)) /\ op[<<r, x>>] \in Nat
    <2>1. F[StepTo(n, r, x)] = Larger(x, more(r))
      BY DEF Agrees, Answer, StepTo
    <2>2. Larger(x, more(r)) \in Nat
      BY <1>2 DEF Larger
    <2> HIDE DEF more
    <2> QED BY <2>1, <2>2
  <1> HIDE DEF more
  <1>4. op \in [T \X Nat -> Nat]
    <2>1. \A r \in T, x \in Nat : Larger(x, more(r)) \in Nat
      BY <1>2 DEF Larger
    <2> QED BY <2>1
  <1>5. <<{}, b>> \in I
    OBVIOUS
  <1>6. IsKept(I, op, T, Nat)
    <2> SUFFICES ASSUME NEW s \in SUBSET T, NEW r \in s, NEW v \in Nat, <<s \ {r}, v>> \in I
                 PROVE  <<s, op[<<r, v>>]>> \in I
      BY DEF IsKept
    <2>1. op[<<r, v>>] = Larger(v, more(r)) /\ more(r) \in Nat /\ \A o \in s : more(o) \in Nat
      BY <1>2, <1>3
    <2>2. /\ b <= v /\ \A o \in s \ {r} : more(o) <= v
          /\ v = b \/ \E o \in s \ {r} : v = more(o)
      OBVIOUS
    <2> DEFINE w == Larger(v, more(r))
    <2>3. w \in Nat /\ b <= w /\ v <= w /\ more(r) <= w /\ (w = v \/ w = more(r))
      BY <2>1, <2>2 DEF Larger
    <2> HIDE DEF w
    <2>4. \A o \in s : more(o) <= w
      BY <2>1, <2>2, <2>3
    <2>5. w = b \/ \E o \in s : w = more(o)
      BY <2>2, <2>3
    <2>6. <<s, w>> \in I
      BY <2>3, <2>4, <2>5
    <2> QED BY <2>1, <2>6 DEF w
  <1> HIDE DEF op
  <1>7. ASSUME NEW h
        PROVE  IsFold(op, b, T, h) <=> Onwards(F, n, b, h)
    <2> DEFINE k == [s \in SUBSET T |-> F[StepTo(n, Chosen(s), h[s \ {Chosen(s)}])]]
               g == [s \in SUBSET T |-> IF s = {} THEN b ELSE k[s]]
               f == [s \in SUBSET T |-> IF s = {} THEN b ELSE F[StepTo(n, Chosen(s), h[s \ {Chosen(s)}])]]
    <2>1. ASSUME NEW s \in SUBSET T, s # {}, h[s \ {Chosen(s)}] \in Nat
          PROVE  k[s] = op[<<Chosen(s), h[s \ {Chosen(s)}]>>]
      <3>1. Chosen(s) \in T
        BY <1>1, <2>1, OneIsChosen
      <3> QED BY <1>3, <2>1, <3>1
    <2>2. f = g
      <3>1. \A s \in SUBSET T : f[s] = g[s]
        OBVIOUS
      <3> QED BY <3>1
    <2>3. Onwards(F, n, b, h) <=> h = f
      BY DEF Onwards
    <2>4. StepsAlike(k, op, T, Nat, h)
      <3> HIDE DEF k
      <3> QED BY <2>1 DEF StepsAlike
    <2>5. IsFold(op, b, T, h) <=> IsFoldBy(k, b, T, h)
      <3> HIDE DEF k, T
      <3> QED BY <1>1, <1>4, <2>4, SameFold
    <2>6. IsFoldBy(k, b, T, h) <=> h = g
      BY DEF IsFoldBy
    <2> QED BY <2>2, <2>3, <2>5, <2>6
  <1>8. \E h : Onwards(F, n, b, h)
    <2>1. \E h : IsFold(op, b, T, h)
      <3> HIDE DEF T
      <3> QED BY <1>1, <1>4, FoldExists
    <2> QED BY <1>7, <2>1
  <1> DEFINE h == CHOOSE i : Onwards(F, n, b, i)
  <1>9. Onwards(F, n, b, h)
    BY <1>8
  <1>10. Folded(F, n, b) = h[T]
    BY DEF Folded
  <1> HIDE DEF h
  <1>11. h[T] \in Nat /\ <<T, h[T]>> \in I
    <2>1. \A s \in SUBSET T : h[s] \in Nat /\ <<s, h[s]>> \in I
      <3>1. IsFold(op, b, T, h)
        BY <1>7, <1>9
      <3> HIDE DEF T, I
      <3> QED BY <1>1, <1>4, <1>5, <1>6, <3>1, FoldKeeps
    <2> HIDE DEF I, T
    <2> QED BY <2>1
  <1>12. /\ b <= h[T] /\ \A r \in T : more(r) <= h[T]
         /\ h[T] = b \/ \E r \in T : h[T] = more(r)
    BY <1>11
  <1>13. /\ \A r \in T : more(r) <= n.acc + Reach(n.at, n.free)
         /\ Reach(n.at, n.free) = 0 \/ \E r \in T : n.acc + Reach(n.at, n.free) = more(r)
    <2>1. /\ \A r \in T : Length[r] + Reach(Other(r, n.at), n.free \ {r}) <= Reach(n.at, n.free)
          /\ \/ Reach(n.at, n.free) = 0
             \/ \E r \in T : Reach(n.at, n.free) = Length[r] + Reach(Other(r, n.at), n.free \ {r})
      BY <1>0, ReachBySteps
    <2> HIDE DEF T
    <2> QED BY <1>0, <1>2, <2>1 DEF more
  <1> HIDE DEF T
  <1>14. n.acc + Reach(n.at, n.free) <= h[T]
    BY <1>0, <1>11, <1>12, <1>13
  <1>15. h[T] = b \/ h[T] = n.acc + Reach(n.at, n.free)
    BY <1>0, <1>2, <1>11, <1>12, <1>13, <1>14
  <1> QED BY <1>0, <1>10, <1>11, <1>12, <1>14, <1>15 DEF Larger

(* The bound cuts nothing off. *)
LEMMA SearchedIs ==
  ASSUME NEW n \in Walk, NEW F, Agrees(F, n)
  PROVE  Searched(F, n) = Answer(n)
PROOF
  <1> DEFINE b == Max({n.best, n.acc})
  <1>1. /\ n.at \in City /\ n.free \in SUBSET Route /\ n.acc \in Nat /\ n.best \in Nat
        /\ Reach(n.at, n.free) \in Nat
    BY AnswerIs
  <1>2. b = Larger(n.best, n.acc)
    BY <1>1, MaxOfTwo DEF Larger
  <1>3. b \in Nat /\ n.acc <= b /\ n.best <= b /\ (b = n.best \/ b = n.acc)
    BY <1>1, <1>2 DEF Larger
  <1>4. Searched(F, n) = IF n.acc + Size(n.free) <= b THEN b ELSE Folded(F, n, b)
    BY DEF Searched
  <1> HIDE DEF b
  <1>5. Folded(F, n, b) = Larger(b, n.acc + Reach(n.at, n.free))
    BY <1>3, FoldedIs
  <1>6. Larger(b, n.acc + Reach(n.at, n.free)) = Answer(n)
    BY <1>1, <1>2, <1>3 DEF Larger, Answer
  <1>7. CASE n.acc + Size(n.free) <= b
    <2>1. Reach(n.at, n.free) <= Size(n.free) /\ Size(n.free) \in Nat
      BY <1>1, ReachIs, SizeIs
    <2>2. Larger(b, n.acc + Reach(n.at, n.free)) = b
      BY <1>1, <1>3, <1>7, <2>1 DEF Larger
    <2> QED BY <1>4, <1>6, <1>7, <2>2
  <1>8. CASE ~(n.acc + Size(n.free) <= b)
    BY <1>4, <1>5, <1>6, <1>8
  <1> QED BY <1>7, <1>8

LEMMA StepsOn ==
  ASSUME NEW n \in Walk, NEW r \in At(n.at, n.free), NEW x \in Nat
  PROVE  /\ StepTo(n, r, x) \in Walk
         /\ Cardinality(StepTo(n, r, x).free) < Cardinality(n.free)
         /\ Cardinality(n.free) \in Nat /\ Cardinality(StepTo(n, r, x).free) \in Nat
PROOF
  <1>1. n.at \in City /\ n.free \in SUBSET Route /\ n.acc \in Nat
    BY AnswerIs
  <1>2. r \in Route /\ r \in n.free /\ Touches(r, n.at) /\ Length[r] \in Nat
    BY <1>1, ScoringAssumption DEF At
  <1>3. Other(r, n.at) \in City
    BY <1>1, <1>2, EndOfTrack
  <1>4. IsFiniteSet(n.free)
    BY <1>1, ScoringAssumption, FS_Subset
  <1>5. Cardinality(n.free \ {r}) = Cardinality(n.free) - 1 /\ Cardinality(n.free) \in Nat
    BY <1>2, <1>4, FS_RemoveElement, FS_CardinalityType
  <1>6. IsFiniteSet(n.free \ {r})
    BY <1>4, FS_Subset
  <1>7. Cardinality(n.free \ {r}) \in Nat
    BY <1>6, FS_CardinalityType
  <1>8. StepTo(n, r, x).free = n.free \ {r}
    BY DEF StepTo
  <1>9. StepTo(n, r, x) \in Walk
    BY <1>1, <1>2, <1>3 DEF StepTo, Walk
  <1> QED BY <1>5, <1>7, <1>8, <1>9

LEMMA SearchIsExact ==
  ASSUME NEW n \in Walk
  PROVE  (CHOOSE F : Searches(F))[n] = Answer(n)
PROOF
  <1> DEFINE G == [m \in Walk |-> Answer(m)]
  <1>1. Searches(G)
    <2> DEFINE H == [m \in Walk |-> Searched(G, m)]
    <2>1. ASSUME NEW m \in Walk
          PROVE  Searched(G, m) = Answer(m)
      <3>1. Agrees(G, m)
        BY StepsOn DEF Agrees
      <3> HIDE DEF G
      <3> QED BY <3>1, SearchedIs
    <2>2. \A m \in Walk : G[m] = H[m]
      BY <2>1
    <2>3. G = H
      <3>1. G = [m \in Walk |-> G[m]] /\ H = [m \in Walk |-> H[m]]
        OBVIOUS
      <3> QED BY <2>2, <3>1
    <2> QED BY <2>3 DEF Searches
  <1> DEFINE F == CHOOSE f : Searches(f)
  <1>2. Searches(F)
    BY <1>1
  <1> HIDE DEF F
  <1> DEFINE Bad == {Cardinality(m.free) : m \in {i \in Walk : F[i] # Answer(i)}}
  <1>3. ASSUME Bad # {}
        PROVE  FALSE
    <2>1. \A m \in Walk : Cardinality(m.free) \in Nat
      BY ScoringAssumption, FS_Subset, FS_CardinalityType DEF Walk
    <2>2. PICK k \in Bad : \A j \in Bad : k <= j
      <3>1. Bad \in SUBSET Nat
        BY <2>1
      <3> HIDE DEF Bad
      <3> QED BY <1>3, <3>1, LeastNatural
    <2>3. PICK m \in Walk : F[m] # Answer(m) /\ k = Cardinality(m.free)
      BY <2>2
    <2>4. ASSUME NEW r \in At(m.at, m.free), NEW x \in Nat
          PROVE  F[StepTo(m, r, x)] = Answer(StepTo(m, r, x))
      <3>1. /\ StepTo(m, r, x) \in Walk /\ Cardinality(StepTo(m, r, x).free) < k
            /\ k \in Nat /\ Cardinality(StepTo(m, r, x).free) \in Nat
        BY <2>3, StepsOn
      <3>2. Cardinality(StepTo(m, r, x).free) \notin Bad
        <4> HIDE DEF Bad
        <4> QED BY <2>2, <3>1
      <3> QED BY <3>1, <3>2
    <2>5. Agrees(F, m)
      BY <2>4 DEF Agrees
    <2>6. F[m] = Searched(F, m)
      BY <1>2 DEF Searches
    <2> QED BY <2>3, <2>5, <2>6, SearchedIs
  <1>4. F[n] = Answer(n)
    BY <1>3
  <1> QED BY <1>4 DEF F

LEMMA TrailFromIsExact ==
  ASSUME NEW start \in City, NEW edges \in SUBSET Route, NEW longest \in Nat
  PROVE  TrailFrom(start, edges, longest) = Larger(longest, Reach(start, edges))
PROOF
  <1> DEFINE n == [at |-> start, free |-> edges, acc |-> 0, best |-> longest]
  <1>1. n \in Walk
    BY DEF Walk
  <1>2. Answer(n) = Larger(longest, Reach(start, edges))
    BY ReachIs DEF Answer
  <1>3. TrailFrom(start, edges, longest) = (CHOOSE F : Searches(F))[n]
    BY TrailFromIs
  <1> HIDE DEF n
  <1> QED BY <1>1, <1>2, <1>3, SearchIsExact

-----------------------------------------------------------------------------
(* The starts of a component: what is folded over them. *)
Tried(edges, h) ==
  h = [s \in SUBSET Vertices(edges) |->
         IF s = {} THEN 0
         ELSE IF h[s \ {Chosen(s)}] = Size(edges) THEN h[s \ {Chosen(s)}]
              ELSE TrailFrom(Chosen(s), edges, h[s \ {Chosen(s)}])]

LEMMA LongestInComponentFolds ==
  ASSUME NEW edges
  PROVE  LongestInComponent(edges) = (CHOOSE h : Tried(edges, h))[Vertices(edges)]
BY DEF LongestInComponent, Tried, Starts, FoldSet, MapThenFoldSet, Chosen

(* To stop at a trail of all tracks loses nothing either. *)
LEMMA LongestInComponentIs ==
  ASSUME NEW edges \in SUBSET Route
  PROVE  /\ LongestInComponent(edges) \in Nat
         /\ \A c \in Vertices(edges) : Reach(c, edges) <= LongestInComponent(edges)
         /\ \/ LongestInComponent(edges) = 0
            \/ \E c \in Vertices(edges) : LongestInComponent(edges) = Reach(c, edges)
PROOF
  <1> DEFINE T == Vertices(edges)
             V == 0 .. Size(edges)
             op == [q \in T \X V |-> Larger(q[2], Reach(q[1], edges))]
             I == {q \in (SUBSET T) \X V :
                     /\ \A c \in q[1] : Reach(c, edges) <= q[2]
                     /\ q[2] = 0 \/ \E c \in q[1] : q[2] = Reach(c, edges)}
  <1>1. IsFiniteSet(T) /\ \A c \in T : c \in City
    BY OddIsFinite DEF Vertices
  <1>2. Size(edges) \in Nat
    BY SizeIs
  <1>3. \A c \in T : Reach(c, edges) \in Nat /\ Reach(c, edges) <= Size(edges)
    BY <1>1, ReachIs
  <1>4. ASSUME NEW c \in T, NEW x \in V
        PROVE  /\ op[<<c, x>>] = IF x = Size(edges) THEN x ELSE TrailFrom(c, edges, x)
               /\ op[<<c, x>>] = Larger(x, Reach(c, edges)) /\ Larger(x, Reach(c, edges)) \in V
    <2>1. TrailFrom(c, edges, x) = Larger(x, Reach(c, edges))
      BY <1>1, <1>2, TrailFromIsExact
    <2>2. x = Size(edges) => Larger(x, Reach(c, edges)) = x
      BY <1>2, <1>3 DEF Larger
    <2>3. Larger(x, Reach(c, edges)) \in V
      BY <1>2, <1>3 DEF Larger
    <2>4. op[<<c, x>>] = Larger(x, Reach(c, edges))
      OBVIOUS
    <2> HIDE DEF op
    <2> QED BY <2>1, <2>2, <2>3, <2>4
  <1>5. op \in [T \X V -> V]
    <2>1. \A c \in T, x \in V : Larger(x, Reach(c, edges)) \in V
      BY <1>4
    <2> HIDE DEF T, V
    <2> QED BY <2>1
  <1> HIDE DEF op
  <1>6. <<{}, 0>> \in I /\ 0 \in V
    BY <1>2
  <1>7. IsKept(I, op, T, V)
    <2> SUFFICES ASSUME NEW s \in SUBSET T, NEW c \in s, NEW v \in V, <<s \ {c}, v>> \in I
                 PROVE  <<s, op[<<c, v>>]>> \in I
      BY DEF IsKept
    <2> DEFINE w == Larger(v, Reach(c, edges))
    <2>1. op[<<c, v>>] = w /\ w \in V
      BY <1>4
    <2>2. /\ \A d \in s \ {c} : Reach(d, edges) <= v
          /\ v = 0 \/ \E d \in s \ {c} : v = Reach(d, edges)
      OBVIOUS
    <2>3. v <= w /\ Reach(c, edges) <= w /\ (w = v \/ w = Reach(c, edges))
      BY <1>2, <1>3 DEF Larger
    <2> HIDE DEF w
    <2>4. \A d \in s : Reach(d, edges) <= w
      BY <1>2, <1>3, <2>1, <2>2, <2>3
    <2>5. w = 0 \/ \E d \in s : w = Reach(d, edges)
      BY <2>2, <2>3
    <2>6. <<s, w>> \in I
      BY <2>1, <2>4, <2>5
    <2> QED BY <2>1, <2>6
  <1>8. ASSUME NEW h
        PROVE  IsFold(op, 0, T, h) <=> Tried(edges, h)
    <2> DEFINE last(s) == h[s \ {Chosen(s)}]
               k == [s \in SUBSET T |->
                       IF last(s) = Size(edges) THEN last(s) ELSE TrailFrom(Chosen(s), edges, last(s))]
               f == [s \in SUBSET T |->
                       IF s = {} THEN 0
                       ELSE IF last(s) = Size(edges) THEN last(s) ELSE TrailFrom(Chosen(s), edges, last(s))]
               g == [s \in SUBSET T |-> IF s = {} THEN 0 ELSE k[s]]
    <2>1. ASSUME NEW s \in SUBSET T, s # {}, last(s) \in V
          PROVE  k[s] = op[<<Chosen(s), last(s)>>]
      <3>1. Chosen(s) \in T
        BY <1>1, <2>1, OneIsChosen
      <3>2. k[s] = IF last(s) = Size(edges) THEN last(s) ELSE TrailFrom(Chosen(s), edges, last(s))
        OBVIOUS
      <3> HIDE DEF T, V, k, last
      <3> QED BY <1>4, <2>1, <3>1, <3>2
    <2>2. f = g
      <3>1. \A s \in SUBSET T : f[s] = g[s]
        OBVIOUS
      <3> QED BY <3>1
    <2>3. Tried(edges, h) <=> h = f
      BY DEF Tried
    <2>4. StepsAlike(k, op, T, V, h)
      <3> HIDE DEF k
      <3> QED BY <2>1 DEF StepsAlike
    <2>5. IsFold(op, 0, T, h) <=> IsFoldBy(k, 0, T, h)
      <3> HIDE DEF k, T, V
      <3> QED BY <1>1, <1>5, <1>6, <2>4, SameFold
    <2>6. IsFoldBy(k, 0, T, h) <=> h = g
      BY DEF IsFoldBy
    <2> QED BY <2>2, <2>3, <2>5, <2>6
  <1>9. \E h : Tried(edges, h)
    <2>1. \E h : IsFold(op, 0, T, h)
      <3> HIDE DEF T, V
      <3> QED BY <1>1, <1>5, <1>6, FoldExists
    <2> QED BY <1>8, <2>1
  <1> DEFINE h == CHOOSE i : Tried(edges, i)
  <1>10. Tried(edges, h)
    BY <1>9
  <1>11. LongestInComponent(edges) = h[T]
    BY LongestInComponentFolds
  <1> HIDE DEF h
  <1>12. h[T] \in V /\ <<T, h[T]>> \in I
    <2>1. \A s \in SUBSET T : h[s] \in V /\ <<s, h[s]>> \in I
      <3>1. IsFold(op, 0, T, h)
        BY <1>8, <1>10
      <3> HIDE DEF T, V, I
      <3> QED BY <1>1, <1>5, <1>6, <1>7, <3>1, FoldKeeps
    <2> HIDE DEF I, T, V
    <2> QED BY <2>1
  <1>13. /\ \A c \in T : Reach(c, edges) <= h[T]
         /\ h[T] = 0 \/ \E c \in T : h[T] = Reach(c, edges)
    BY <1>12
  <1> HIDE DEF T
  <1>14. h[T] \in Nat
    BY <1>2, <1>12
  <1> QED BY <1>11, <1>13, <1>14 DEF T

(* Every trail lies in one component. *)
LEMMA InOneComponent ==
  ASSUME NEW edges \in SUBSET Route, NEW s \in SUBSET edges, s # {},
         NEW a \in City, NEW b \in City, Goes(a, b, s)
  PROVE  \E r \in edges : /\ s \in SUBSET Component(edges, r)
                          /\ a \in Vertices(Component(edges, r))
PROOF
  <1>1. PICK r \in s : Touches(r, a)
    BY FirstTrack
  <1>2. ASSUME NEW o \in s
        PROVE  o \in Component(edges, r)
    <2>1. Same(s, Ends[o][1], a) /\ Same(s, Ends[r][1], a)
      BY WalkConnects
    <2>2. Same(s, Ends[o][1], Ends[r][1])
      BY <2>1 DEF Same
    <2>3. Ends[o][1] \in City /\ Ends[r][1] \in City
      BY EndsAreCities
    <2>4. Same(edges, Ends[o][1], Ends[r][1])
      BY <2>2, <2>3, SameGrows
    <2> QED BY <2>4 DEF Component
  <1>3. a \in Vertices(Component(edges, r))
    BY <1>1, <1>2 DEF Vertices
  <1> QED BY <1>2, <1>3

LEMMA LongestTrailIs ==
  ASSUME NEW edges \in SUBSET Route
  PROVE  LongestTrail(edges) = Max({Size(s) : s \in {x \in SUBSET edges : IsTrail(x)}})
PROOF
  <1> DEFINE trails == {x \in SUBSET edges : IsTrail(x)}
             T == {Size(s) : s \in trails}
             f == [r \in edges |-> LongestInComponent(Component(edges, r))]
             S == {0} \cup {f[r] : r \in edges}
  <1>1. ASSUME NEW r \in edges
        PROVE  Component(edges, r) \in SUBSET edges /\ f[r] \in Nat
    <2>1. Component(edges, r) \in SUBSET Route
      BY DEF Component
    <2>2. LongestInComponent(Component(edges, r)) \in Nat
      BY <2>1, LongestInComponentIs
    <2> QED BY <2>2 DEF Component
  <1>2. {} \in trails
    <2>1. Joint({}) \subseteq {0} /\ Odd({}) \subseteq {0}
      <3>1. Vertices({}) = {}
        BY DEF Vertices
      <3>2. Odd({}) \subseteq Vertices({})
        BY OddIsFinite
      <3> QED BY <3>1, <3>2 DEF Joint
    <2>2. Cardinality(Joint({})) <= 1
      BY <2>1, AtMostOne
    <2>3. Cardinality(Odd({})) <= 2
      <3>1. Odd({}) \subseteq {0, 0}
        BY <2>1
      <3> QED BY <3>1, AtMostTwo
    <2> QED BY <2>2, <2>3, TrailIs
  <1>3. IsFiniteSet(T) /\ T \in SUBSET Nat /\ T # {}
    <2>1. trails \in SUBSET (SUBSET edges)
      OBVIOUS
    <2> HIDE DEF trails
    <2> QED BY <1>2, <2>1, SizesAreFinite
  <1>4. Max(T) \in T /\ \A j \in T : j <= Max(T)
    <2> HIDE DEF T
    <2> QED BY <1>3, MaxIsLargest
  <1>5. IsFiniteSet(S) /\ S \in SUBSET Nat /\ S # {}
    <2>1. IsFiniteSet(edges) /\ f \in [edges -> Nat]
      BY <1>1, ScoringAssumption, FS_Subset
    <2>2. IsFiniteSet({f[r] : r \in edges})
      <3> HIDE DEF f
      <3> QED BY <2>1, ImageIsFinite
    <2>3. \A r \in edges : f[r] \in Nat
      BY <1>1
    <2> DEFINE R == {f[r] : r \in edges}
    <2>4. R \in SUBSET Nat
      BY <2>3
    <2>5. IsFiniteSet({0})
      BY FS_Singleton
    <2> HIDE DEF R
    <2>6. IsFiniteSet(R)
      BY <2>2 DEF R
    <2>7. IsFiniteSet({0} \cup R)
      BY <2>5, <2>6, FS_Union
    <2>8. S = {0} \cup R
      BY DEF R
    <2> HIDE DEF S
    <2>9. {0} \cup R \in SUBSET Nat /\ {0} \cup R # {}
      BY <2>4
    <2> QED BY <2>7, <2>8, <2>9, Zenon
  <1>6. Max(S) \in S /\ \A j \in S : j <= Max(S)
    <2> HIDE DEF S
    <2> QED BY <1>5, MaxIsLargest
  <1>7. LongestTrail(edges) = Max(S)
    <2>1. S = {0} \cup {LongestInComponent(Component(edges, r)) : r \in edges}
      OBVIOUS
    <2> HIDE DEF S
    <2> QED BY <2>1 DEF LongestTrail
  <1>8. Max(S) \in T
    <2>1. 0 \in T
      BY <1>2, SizeIs
    <2>2. ASSUME NEW r \in edges
          PROVE  f[r] \in T
      <3> DEFINE C == Component(edges, r)
      <3>1. C \in SUBSET edges /\ C \in SUBSET Route /\ f[r] = LongestInComponent(C)
        BY <1>1
      <3> HIDE DEF C, f
      <3>2. CASE f[r] = 0
        BY <2>1, <3>2
      <3>3. CASE f[r] # 0
        <4>1. PICK c \in Vertices(C) : f[r] = Reach(c, C)
          BY <3>1, <3>3, LongestInComponentIs
        <4>2. c \in City
          BY DEF Vertices
        <4>3. PICK s \in Reached(c, C) : Reach(c, C) = Size(s)
          BY <3>1, <4>2, ReachIs
        <4>4. PICK b \in City : s \in SUBSET C /\ Goes(c, b, s)
          BY DEF Reached
        <4>5. IsTrail(s)
          BY <3>1, <4>2, <4>4, WalkIsTrail
        <4>6. s \in trails
          BY <3>1, <4>4, <4>5
        <4> QED BY <4>1, <4>3, <4>6
      <3> QED BY <3>2, <3>3
    <2> QED BY <1>6, <2>1, <2>2
  <1>9. ASSUME NEW s \in trails
        PROVE  Size(s) <= Max(S)
    <2>1. s \in SUBSET edges /\ s \in SUBSET Route /\ IsTrail(s)
      OBVIOUS
    <2>2. CASE s = {}
      <3>1. Size(s) = 0 /\ 0 \in S
        BY <2>2, SizeIs
      <3> HIDE DEF S
      <3> QED BY <1>6, <3>1
    <2>3. CASE s # {}
      <3>1. PICK a, b \in City : Goes(a, b, s)
        BY <2>1, <2>3, TrailIsWalk
      <3>2. PICK r \in edges : s \in SUBSET Component(edges, r) /\ a \in Vertices(Component(edges, r))
        BY <2>1, <2>3, <3>1, InOneComponent
      <3> DEFINE C == Component(edges, r)
      <3>3. C \in SUBSET Route /\ f[r] = LongestInComponent(C) /\ f[r] \in S /\ f[r] \in Nat
        BY <1>1
      <3>4. s \in Reached(a, C) /\ a \in Vertices(C)
        BY <3>1, <3>2 DEF Reached
      <3> HIDE DEF C, f, S
      <3>5. Size(s) <= Reach(a, C) /\ Reach(a, C) \in Nat
        BY <3>1, <3>3, <3>4, ReachIs
      <3>6. Reach(a, C) <= f[r]
        BY <3>3, <3>4, LongestInComponentIs
      <3>7. f[r] <= Max(S) /\ Max(S) \in Nat
        BY <1>5, <1>6, <3>3
      <3>8. Size(s) \in Nat
        BY <2>1, SizeIs
      <3> QED BY <3>3, <3>5, <3>6, <3>7, <3>8
    <2> QED BY <2>2, <2>3
  <1>10. Max(T) <= Max(S) /\ Max(S) <= Max(T)
    <2>1. PICK s \in trails : Max(T) = Size(s)
      BY <1>4
    <2>2. Max(T) <= Max(S)
      BY <1>9, <2>1
    <2> HIDE DEF T, S
    <2> QED BY <1>4, <1>8, <2>2
  <1>11. Max(T) \in Nat /\ Max(S) \in Nat
    <2> HIDE DEF T, S
    <2> QED BY <1>3, <1>4, <1>8
  <1>12. Max(S) = Max(T)
    <2> HIDE DEF T, S
    <2> QED BY <1>10, <1>11
  <1> QED BY <1>7, <1>12

(* The bonus goes by the heaviest trail, on every network of any map: neither
   the bound of the search, nor its early stop, nor the split into components
   loses one (longestTrail). *)
THEOREM TrailIsLongestHolds == Spec => []TrailIsLongest
PROOF
  <1>1. ScoringInv => TrailIsLongest
    <2>1. \A p \in Player : Track(p) \in SUBSET Route
      BY DEF Track
    <2> QED BY <2>1, LongestTrailIs DEF TrailIsLongest
  <1> QED BY <1>1, ScoringInvHolds, PTL

-----------------------------------------------------------------------------
(* The search for the best borrows: what networks and tickets are worth. *)

(* Two networks join the same cities if each keeps what the other joins. *)
LEMMA SameInFiner ==
  ASSUME NEW e \in SUBSET Route, NEW f \in SUBSET Route, Keeps(Class[e], f),
         NEW a \in City, NEW b \in City, Same(f, a, b)
  PROVE  Same(e, a, b)
PROOF
  <1>1. Class[e] \in [City -> City] /\ Finest(Class[f], f)
    BY ClassIsFinest
  <1> QED BY <1>1 DEF Finest, Same

(* A ticket asks for two cities of the map. *)
LEMMA GoalIsCities ==
  ASSUME NEW t \in Ticket
  PROVE  Goal[t].a \in City /\ Goal[t].b \in City
BY ScoringAssumption

(* So a network that keeps what another joins meets what the other meets. *)
LEMMA MetInFiner ==
  ASSUME NEW e \in SUBSET Route, NEW f \in SUBSET Route, Keeps(Class[e], f), NEW ts \in SUBSET Ticket
  PROVE  Met(f, ts) \subseteq Met(e, ts)
PROOF
  <1> SUFFICES ASSUME NEW t \in ts, Same(f, Goal[t].a, Goal[t].b)
               PROVE  Same(e, Goal[t].a, Goal[t].b)
    BY DEF Met
  <1> QED BY GoalIsCities, SameInFiner

(* A track between cities that are joined meets no more tickets. *)
LEMMA NoMoreIsMet ==
  ASSUME NEW e \in SUBSET Route, NEW f \in SUBSET Route, NEW r \in Route, e \subseteq f,
         Same(e, Ends[r][1], Ends[r][2]), NEW ts \in SUBSET Ticket
  PROVE  Met(f \cup {r}, ts) = Met(f, ts)
PROOF
  <1>1. f \cup {r} \in SUBSET Route
    OBVIOUS
  <1>2. Same(f, Ends[r][1], Ends[r][2])
    BY EndsAreCities, SameGrows
  <1>3. Keeps(Class[f], f)
    BY ClassIsFinest
  <1>4. Keeps(Class[f], f \cup {r})
    BY <1>2, <1>3 DEF Keeps, Same
  <1>5. Met(f \cup {r}, ts) \subseteq Met(f, ts)
    BY <1>1, <1>4, MetInFiner
  <1>6. Met(f, ts) \subseteq Met(f \cup {r}, ts)
    BY <1>1, MetGrows
  <1> QED BY <1>5, <1>6

(* What tickets are worth. *)
LEMMA ValueIsSum ==
  ASSUME NEW ts
  PROVE  Value(ts) = Sum(Worth, ts)
BY DEF Value, Sum

LEMMA WorthIsNat == \A t \in Ticket : Worth[t] \in Nat
BY ScoringAssumption DEF Worth

(* The value of tickets is a number, grows with them, and adds up. *)
LEMMA ValueIs ==
  ASSUME NEW ts \in SUBSET Ticket, NEW us \in SUBSET Ticket
  PROVE  /\ Value(ts) \in Nat /\ Value({}) = 0
         /\ ts \subseteq us => Value(ts) <= Value(us)
         /\ ts \cap us = {} => Value(ts \cup us) = Value(ts) + Value(us)
PROOF
  <1>1. IsFiniteSet(Ticket)
    BY ScoringAssumption
  <1>2. Value(ts) = Sum(Worth, ts) /\ Value(us) = Sum(Worth, us)
        /\ Value(ts \cup us) = Sum(Worth, ts \cup us) /\ Value({}) = Sum(Worth, {})
    BY ValueIsSum
  <1>3. Sum(Worth, ts) \in Nat
    BY <1>1, WorthIsNat, SumIsMonotone
  <1>4. ts \subseteq us => Sum(Worth, ts) <= Sum(Worth, us)
    BY <1>1, WorthIsNat, SumIsMonotone
  <1>5. ts \cap us = {} => Sum(Worth, ts \cup us) = Sum(Worth, ts) + Sum(Worth, us)
    BY <1>1, WorthIsNat, SumOfBoth
  <1>6. Sum(Worth, {}) = 0
    BY SumOfNone
  <1> QED BY <1>2, <1>3, <1>4, <1>5, <1>6

(* So is the gain, and it orders sets of tickets as the value does. *)
LEMMA GainIs ==
  ASSUME NEW ts \in SUBSET Ticket, NEW us \in SUBSET Ticket
  PROVE  /\ Gain(ts) \in Nat /\ Gain({}) = 0 /\ NothingMet(ts) \in Int
         /\ ts \subseteq us => Gain(ts) <= Gain(us)
         /\ ts \cap us = {} => Gain(ts \cup us) = Gain(ts) + Gain(us)
         /\ Gain(ts) > Gain(us) <=> Value(ts) > Value(us)
         /\ Gain(ts) = Gain(us) <=> Value(ts) = Value(us)
PROOF
  <1>1. Value(ts) \in Nat /\ Value(us) \in Nat /\ Value({}) = 0
    BY ValueIs
  <1>2. ts \subseteq us => Value(ts) <= Value(us)
    BY ValueIs
  <1>3. ts \cap us = {} => Value(ts \cup us) = Value(ts) + Value(us)
    BY ValueIs
  <1>4. CASE rules.lenient
    BY <1>1, <1>2, <1>3, <1>4 DEF Gain, NothingMet
  <1>5. CASE ~rules.lenient
    BY <1>1, <1>2, <1>3, <1>5 DEF Gain, NothingMet
  <1> QED BY <1>4, <1>5

(* What is met is part of what is asked. *)
LEMMA MetIsPart ==
  ASSUME NEW e, NEW ts \in SUBSET Ticket
  PROVE  Met(e, ts) \in SUBSET ts /\ Met(e, ts) \in SUBSET Ticket /\ IsFiniteSet(Met(e, ts))
         /\ Cardinality(Met(e, ts)) \in Nat
PROOF
  <1>1. Met(e, ts) \in SUBSET ts /\ Met(e, ts) \in SUBSET Ticket
    BY DEF Met
  <1> QED BY <1>1, ScoringAssumption, FS_Subset, FS_CardinalityType

(* A deal of tickets is finite. *)
LEMMA TicketsAreFinite ==
  ASSUME NEW ts \in SUBSET Ticket
  PROVE  IsFiniteSet(ts) /\ Cardinality(ts) \in Nat
BY ScoringAssumption, FS_Subset, FS_CardinalityType

(* Tickets apart are counted apart. *)
LEMMA BothCounted ==
  ASSUME NEW ts \in SUBSET Ticket, NEW us \in SUBSET Ticket, ts \cap us = {}
  PROVE  Cardinality(ts \cup us) = Cardinality(ts) + Cardinality(us)
PROOF
  <1>1. IsFiniteSet(ts) /\ IsFiniteSet(us) /\ Cardinality(ts) \in Nat /\ Cardinality(us) \in Nat
    BY TicketsAreFinite
  <1>2. Cardinality(ts \cap us) = 0
    BY FS_EmptySet
  <1>3. Cardinality(ts \cup us) = Cardinality(ts) + Cardinality(us) - Cardinality(ts \cap us)
    BY <1>1, FS_Union
  <1> QED BY <1>1, <1>2, <1>3

-----------------------------------------------------------------------------
(* The assignments of the options. *)
Over(options) ==
  {a \in [DOMAIN options -> Route \cup {0}] : \A i \in DOMAIN options : a[i] # 0 => a[i] \in options[i]}
MetBy(own, goals, options) == [a \in Over(options) |-> Met(own \cup Taken(a), goals)]

(* Finitely many places and values make finitely many functions. *)
LEMMA FunctionsAreFinite ==
  ASSUME NEW D, IsFiniteSet(D), NEW V, IsFiniteSet(V)
  PROVE  IsFiniteSet([D -> V])
PROOF
  <1> DEFINE T == SUBSET (D \X V)
             f == [a \in [D -> V] |-> {<<i, a[i]>> : i \in D}]
  <1>1. IsFiniteSet(T)
    BY FS_Product, FS_SUBSET
  <1>2. f \in [[D -> V] -> T]
    OBVIOUS
  <1>3. ASSUME NEW a \in [D -> V], NEW b \in [D -> V], f[a] = f[b]
        PROVE  a = b
    <2>1. ASSUME NEW i \in D
          PROVE  a[i] = b[i]
      <3>1. <<i, a[i]>> \in f[a]
        OBVIOUS
      <3>2. PICK j \in D : <<i, a[i]>> = <<j, b[j]>>
        BY <1>3, <3>1
      <3> QED BY <3>2
    <2> HIDE DEF f
    <2> QED BY <2>1
  <1>4. f \in Injection([D -> V], T)
    <2> HIDE DEF f, T
    <2> QED BY <1>2, <1>3 DEF Injection, IsInjective
  <1> HIDE DEF f, T
  <1> QED BY <1>1, <1>4, FS_Injection

(* There are finitely many assignments, the empty one among them. *)
LEMMA OverIs ==
  ASSUME NEW D, IsFiniteSet(D), NEW options \in [D -> SUBSET Route]
  PROVE  /\ IsFiniteSet(Over(options)) /\ Over(options) \in SUBSET [D -> Route \cup {0}]
         /\ [i \in D |-> 0] \in Over(options)
         /\ \A a \in Over(options) : Taken(a) \in SUBSET Route
PROOF
  <1>1. DOMAIN options = D
    OBVIOUS
  <1>2. IsFiniteSet(Route \cup {0})
    BY ScoringAssumption, FS_AddElement
  <1>3. IsFiniteSet([D -> Route \cup {0}])
    BY <1>2, FunctionsAreFinite
  <1>4. Over(options) \in SUBSET [D -> Route \cup {0}]
    BY <1>1 DEF Over
  <1>5. [i \in D |-> 0] \in Over(options)
    BY <1>1 DEF Over
  <1>6. \A a \in Over(options) : Taken(a) \in SUBSET Route
    BY <1>1 DEF Over, Taken
  <1> QED BY <1>3, <1>4, <1>5, <1>6, FS_Subset

(* The number of borrows is a number. *)
LEMMA BorrowsIsNat ==
  ASSUME NEW D, IsFiniteSet(D), NEW a, DOMAIN a = D
  PROVE  Borrows(a) \in Nat
PROOF
  <1>1. {i \in D : a[i] # 0} \in SUBSET D
    OBVIOUS
  <1>2. Borrows(a) = Cardinality({i \in D : a[i] # 0})
    BY DEF Borrows
  <1>3. IsFiniteSet({i \in D : a[i] # 0})
    BY <1>1, FS_Subset
  <1> QED BY <1>2, <1>3, FS_CardinalityType

(* An assignment that is empty wherever another one is borrows no more. *)
LEMMA BorrowsNoMore ==
  ASSUME NEW D, IsFiniteSet(D), NEW a, DOMAIN a = D, NEW b, DOMAIN b = D,
         \A i \in D : a[i] # 0 => b[i] # 0
  PROVE  Borrows(a) <= Borrows(b)
PROOF
  <1> DEFINE A == {i \in D : a[i] # 0}
             B == {i \in D : b[i] # 0}
  <1>1. A \in SUBSET B /\ B \in SUBSET D
    BY DEF A, B
  <1>2. Borrows(a) = Cardinality(A) /\ Borrows(b) = Cardinality(B)
    BY DEF Borrows
  <1> HIDE DEF A, B
  <1>3. IsFiniteSet(B)
    BY <1>1, FS_Subset
  <1> QED BY <1>1, <1>2, <1>3, FS_Subset

(* Functions that agree everywhere are the same. *)
LEMMA Alike ==
  ASSUME NEW D, NEW V, NEW a \in [D -> V], NEW b \in [D -> V], \A i \in D : a[i] = b[i]
  PROVE  a = b
OBVIOUS

(* Earlier orders the assignments. *)
LEMMA EarlierOrders ==
  ASSUME NEW D, \A i \in D : i \in Nat, NEW a \in [D -> Nat], NEW b \in [D -> Nat]
  PROVE  /\ a = b \/ Earlier(a, b) \/ Earlier(b, a)
         /\ ~Earlier(a, a) /\ ~(Earlier(a, b) /\ Earlier(b, a))
         /\ \A c \in [D -> Nat] : Earlier(a, b) /\ Earlier(b, c) => Earlier(a, c)
PROOF
  <1>1. a = b \/ Earlier(a, b) \/ Earlier(b, a)
    <2>0. SUFFICES ASSUME a # b
                 PROVE  Earlier(a, b) \/ Earlier(b, a)
      OBVIOUS
    <2> DEFINE U == {i \in D : a[i] # b[i]}
    <2>1. U # {} /\ U \in SUBSET Nat
      <3> HIDE DEF U
      <3>1. ASSUME \A i \in D : a[i] = b[i]
            PROVE  FALSE
        <4>1. a = b
          BY <3>1, Alike
        <4> QED BY <2>0, <4>1
      <3>2. \E i \in D : a[i] # b[i]
        BY <3>1
      <3> QED BY <3>2 DEF U
    <2>2. PICK i \in U : \A j \in U : i <= j
      BY <2>1, LeastNatural
    <2>3. i \in D /\ i \in Nat /\ a[i] \in Nat /\ b[i] \in Nat /\ a[i] # b[i]
      BY <2>2
    <2>4. \A j \in D : j < i => a[j] = b[j]
      BY <2>2, <2>3
    <2>5. a[i] < b[i] \/ b[i] < a[i]
      BY <2>3
    <2> HIDE DEF U
    <2> QED BY <2>3, <2>4, <2>5 DEF Earlier
  <1>2. ~Earlier(a, a)
    BY DEF Earlier
  <1>3. ASSUME NEW c \in [D -> Nat], Earlier(a, b), Earlier(b, c)
        PROVE  Earlier(a, c)
    <2>1. PICK i \in D : a[i] < b[i] /\ \A j \in D : j < i => a[j] = b[j]
      BY <1>3 DEF Earlier
    <2>2. PICK k \in D : b[k] < c[k] /\ \A j \in D : j < k => b[j] = c[j]
      BY <1>3 DEF Earlier
    <2>3. i \in Nat /\ k \in Nat /\ a[i] \in Nat /\ b[i] \in Nat /\ c[i] \in Nat
          /\ a[k] \in Nat /\ b[k] \in Nat /\ c[k] \in Nat
      OBVIOUS
    <2>4. CASE i <= k
      <3>1. a[i] < c[i]
        <4>1. CASE i = k
          BY <2>1, <2>2, <2>3, <4>1
        <4>2. CASE i < k
          <5>1. b[i] = c[i]
            BY <2>2, <4>2
          <5> QED BY <2>1, <5>1
        <4> QED BY <2>3, <2>4, <4>1, <4>2
      <3>2. \A j \in D : j < i => a[j] = c[j]
        BY <2>1, <2>2, <2>3, <2>4
      <3> QED BY <3>1, <3>2 DEF Earlier
    <2>5. CASE k < i
      <3>1. a[k] < c[k]
        <4>1. a[k] = b[k]
          BY <2>1, <2>5
        <4> QED BY <2>2, <4>1
      <3>2. \A j \in D : j < k => a[j] = c[j]
        BY <2>1, <2>2, <2>3, <2>5
      <3> QED BY <3>1, <3>2 DEF Earlier
    <2> QED BY <2>3, <2>4, <2>5
  <1>4. ~(Earlier(a, b) /\ Earlier(b, a))
    BY <1>2, <1>3
  <1> QED BY <1>1, <1>2, <1>3, <1>4

(* Better orders the assignments too. *)
Ranks(D, a, M) == a \in [D -> Nat] /\ Value(M[a]) \in Nat /\ Cardinality(M[a]) \in Nat

LEMMA BetterOrders ==
  ASSUME NEW D, IsFiniteSet(D), \A i \in D : i \in Nat, NEW M,
         NEW a, Ranks(D, a, M), NEW b, Ranks(D, b, M)
  PROVE  /\ a = b \/ Better(a, b, M) \/ Better(b, a, M)
         /\ ~(Better(a, b, M) /\ Better(b, a, M))
         /\ \A c : Ranks(D, c, M) /\ Better(a, b, M) /\ Better(b, c, M) => Better(a, c, M)
PROOF
  <1> DEFINE v(x) == Value(M[x])
             k(x) == Cardinality(M[x])
  <1>1. ASSUME NEW x, Ranks(D, x, M)
        PROVE  v(x) \in Nat /\ k(x) \in Nat /\ Borrows(x) \in Nat /\ x \in [D -> Nat]
    <2>1. DOMAIN x = D /\ x \in [D -> Nat]
      BY <1>1 DEF Ranks
    <2> QED BY <1>1, <2>1, BorrowsIsNat DEF Ranks
  <1>2. ASSUME NEW x, NEW y
        PROVE  Better(x, y, M) <=>
                 \/ v(x) > v(y)
                 \/ /\ v(x) = v(y)
                    /\ \/ k(x) > k(y)
                       \/ /\ k(x) = k(y)
                          /\ \/ Borrows(x) < Borrows(y)
                             \/ Borrows(x) = Borrows(y) /\ Earlier(x, y)
    BY DEF Better
  <1>3. v(a) \in Nat /\ k(a) \in Nat /\ Borrows(a) \in Nat /\ a \in [D -> Nat]
    BY <1>1
  <1>4. v(b) \in Nat /\ k(b) \in Nat /\ Borrows(b) \in Nat /\ b \in [D -> Nat]
    BY <1>1
  <1> HIDE DEF v, k
  <1>5. a = b \/ Earlier(a, b) \/ Earlier(b, a)
    BY <1>3, <1>4, EarlierOrders
  <1>6. ~(Earlier(a, b) /\ Earlier(b, a))
    BY <1>3, <1>4, EarlierOrders
  <1>7. a = b \/ Better(a, b, M) \/ Better(b, a, M)
    BY <1>2, <1>3, <1>4, <1>5
  <1>8. ~(Better(a, b, M) /\ Better(b, a, M))
    BY <1>2, <1>3, <1>4, <1>6
  <1>9. ASSUME NEW c, Ranks(D, c, M), Better(a, b, M), Better(b, c, M)
        PROVE  Better(a, c, M)
    <2>1. v(c) \in Nat /\ k(c) \in Nat /\ Borrows(c) \in Nat /\ c \in [D -> Nat]
      BY <1>1, <1>9
    <2>2. Earlier(a, b) /\ Earlier(b, c) => Earlier(a, c)
      BY <1>3, <1>4, <2>1, EarlierOrders
    <2> QED BY <1>2, <1>3, <1>4, <1>9, <2>1, <2>2
  <1> QED BY <1>7, <1>8, <1>9

(* What a search is called with: the side's track, its tickets, the options by station. *)
Suits(own, goals, options) ==
  /\ own \in SUBSET Route /\ goals \in SUBSET Ticket
  /\ IsFiniteSet(DOMAIN options) /\ \A i \in DOMAIN options : i \in Nat
  /\ options \in [DOMAIN options -> SUBSET Route]

With(own, a) == own \cup Taken(a)
NetOf(own, goals, a) == NothingMet(goals) + Gain(Met(With(own, a), goals))
DoneOf(own, goals, a) == Cardinality(Met(With(own, a), goals))

IsBest(own, goals, options, s) ==
  s \in Over(options) /\ \A a \in Over(options) : a = s \/ Better(s, a, MetBy(own, goals, options))

(* The assignments are ranked by numbers. *)
LEMMA OverRanks ==
  ASSUME NEW own, NEW goals, NEW options, Suits(own, goals, options), NEW a \in Over(options)
  PROVE  /\ Ranks(DOMAIN options, a, MetBy(own, goals, options))
         /\ With(own, a) \in SUBSET Route
         /\ MetBy(own, goals, options)[a] = Met(With(own, a), goals)
         /\ Met(With(own, a), goals) \in SUBSET goals
         /\ NetOf(own, goals, a) \in Int /\ DoneOf(own, goals, a) \in Nat
         /\ NetOf(own, goals, a) >= NothingMet(goals) /\ NothingMet(goals) \in Int
         /\ Borrows(a) \in Nat
PROOF
  <1>1. own \in SUBSET Route /\ goals \in SUBSET Ticket /\ IsFiniteSet(DOMAIN options)
        /\ options \in [DOMAIN options -> SUBSET Route]
    BY DEF Suits
  <1>2. a \in [DOMAIN options -> Route \cup {0}] /\ Taken(a) \in SUBSET Route
    BY <1>1, OverIs
  <1>3. a \in [DOMAIN options -> Nat]
    <2>1. Route \cup {0} \subseteq Nat
      BY ScoringAssumption
    <2> QED BY <1>2, <2>1
  <1>4. MetBy(own, goals, options)[a] = Met(With(own, a), goals)
    BY DEF MetBy, With
  <1>5. With(own, a) \in SUBSET Route
    BY <1>1, <1>2 DEF With
  <1> DEFINE m == Met(With(own, a), goals)
  <1>6. m \in SUBSET goals /\ m \in SUBSET Ticket /\ Cardinality(m) \in Nat
    BY <1>1, MetIsPart
  <1> HIDE DEF m
  <1>7. Value(m) \in Nat /\ Gain(m) \in Nat /\ NothingMet(goals) \in Int
    BY <1>1, <1>6, ValueIs, GainIs
  <1>8. Borrows(a) \in Nat
    BY <1>1, <1>3, BorrowsIsNat
  <1> QED BY <1>3, <1>4, <1>5, <1>6, <1>7, <1>8 DEF Ranks, NetOf, DoneOf, m

(* Better in the numbers the search compares. *)
LEMMA BetterByNet ==
  ASSUME NEW own, NEW goals, NEW options, Suits(own, goals, options),
         NEW a \in Over(options), NEW b \in Over(options)
  PROVE  Better(a, b, MetBy(own, goals, options)) <=>
           \/ NetOf(own, goals, a) > NetOf(own, goals, b)
           \/ /\ NetOf(own, goals, a) = NetOf(own, goals, b)
              /\ \/ DoneOf(own, goals, a) > DoneOf(own, goals, b)
                 \/ /\ DoneOf(own, goals, a) = DoneOf(own, goals, b)
                    /\ \/ Borrows(a) < Borrows(b)
                       \/ Borrows(a) = Borrows(b) /\ Earlier(a, b)
PROOF
  <1> DEFINE ma == Met(With(own, a), goals)
             mb == Met(With(own, b), goals)
  <1>1. MetBy(own, goals, options)[a] = ma /\ ma \in SUBSET goals
    BY OverRanks
  <1>2. MetBy(own, goals, options)[b] = mb /\ mb \in SUBSET goals
    BY OverRanks
  <1>3. NetOf(own, goals, a) = NothingMet(goals) + Gain(ma) /\ DoneOf(own, goals, a) = Cardinality(ma)
    BY DEF NetOf, DoneOf
  <1>4. NetOf(own, goals, b) = NothingMet(goals) + Gain(mb) /\ DoneOf(own, goals, b) = Cardinality(mb)
    BY DEF NetOf, DoneOf
  <1> HIDE DEF ma, mb
  <1>5. goals \in SUBSET Ticket
    BY DEF Suits
  <1>6. /\ Gain(ma) \in Nat /\ NothingMet(goals) \in Int
        /\ Gain(ma) > Gain(mb) <=> Value(ma) > Value(mb)
        /\ Gain(ma) = Gain(mb) <=> Value(ma) = Value(mb)
    BY <1>1, <1>2, <1>5, GainIs
  <1>7. Gain(mb) \in Nat
    BY <1>2, <1>5, GainIs
  <1>8. /\ NetOf(own, goals, a) > NetOf(own, goals, b) <=> Value(ma) > Value(mb)
        /\ NetOf(own, goals, a) = NetOf(own, goals, b) <=> Value(ma) = Value(mb)
    BY <1>3, <1>4, <1>6, <1>7
  <1> QED BY <1>1, <1>2, <1>3, <1>4, <1>8 DEF Better

(* One assignment is better than all others. *)
LEMMA BestExists ==
  ASSUME NEW own, NEW goals, NEW options, Suits(own, goals, options)
  PROVE  \E s : IsBest(own, goals, options, s)
PROOF
  <1> DEFINE M == MetBy(own, goals, options)
             S == Over(options)
             R == {q \in S \X S : Better(q[1], q[2], M)}
             D == DOMAIN options
  <1>1. IsFiniteSet(D) /\ \A i \in D : i \in Nat
    BY DEF Suits
  <1>2. options \in [D -> SUBSET Route]
    BY DEF Suits
  <1>3. IsFiniteSet(S) /\ S # {}
    BY <1>1, <1>2, OverIs
  <1>4. \A a \in S : Ranks(D, a, M)
    BY OverRanks
  <1>5. \A a, b \in S : <<a, b>> \in R <=> Better(a, b, M)
    OBVIOUS
  <1> HIDE DEF M, S, R, D
  <1>6. ASSUME NEW a \in S, NEW b \in S
        PROVE  /\ a = b \/ Better(a, b, M) \/ Better(b, a, M)
               /\ \A c \in S : Better(a, b, M) /\ Better(b, c, M) => Better(a, c, M)
    BY <1>1, <1>4, BetterOrders
  <1>7. OrdersAll(R, S)
    BY <1>5, <1>6 DEF OrdersAll
  <1>8. PICK m : IsFirst(m, R, S)
    BY <1>3, <1>7, FirstExists
  <1> QED BY <1>5, <1>8 DEF IsFirst, IsBest, M, S

-----------------------------------------------------------------------------
(* What the search computes at a node. *)
MetAt(n) == Met(n.joined, n.pending)
Reaches(options, n) == n.joined \cup UNION {options[k] : k \in n.left}
LiveAt(options, n) == Met(Reaches(options, n), n.pending \ MetAt(n))
NetAt(n) == n.net + Gain(MetAt(n))
DoneAt(n) == n.done + Cardinality(MetAt(n))
ChildOf(options, n, edges, a) ==
  [left |-> n.left \ {Min(n.left)}, joined |-> edges, net |-> NetAt(n), done |-> DoneAt(n),
   pending |-> LiveAt(options, n), assign |-> a]

(* The assignments a node leads to, and what it has to know of them. *)
Completions(options, n) ==
  {c \in Over(options) : \A j \in DOMAIN options : j \notin n.left => c[j] = n.assign[j]}
IsNode(own, goals, options, n) ==
  /\ n \in Node(DOMAIN options)
  /\ n.assign \in Over(options) /\ \A j \in n.left : n.assign[j] = 0
  /\ n.joined = With(own, n.assign)
  /\ \A c \in Completions(options, n) :
       /\ NetOf(own, goals, c) = n.net + Gain(Met(With(own, c), n.pending))
       /\ DoneOf(own, goals, c) = n.done + Cardinality(Met(With(own, c), n.pending))

(* What a node is made of. *)
LEMMA NodeIs ==
  ASSUME NEW D, IsFiniteSet(D), \A i \in D : i \in Nat, NEW n \in Node(D)
  PROVE  /\ n.left \in SUBSET D /\ n.joined \in SUBSET Route /\ n.pending \in SUBSET Ticket
         /\ n.net \in Int /\ n.done \in Int /\ n.assign \in [D -> Nat]
         /\ IsFiniteSet(n.left) /\ Cardinality(n.left) \in Nat /\ n.left \in SUBSET Nat
         /\ MetAt(n) \in SUBSET n.pending /\ MetAt(n) \in SUBSET Ticket
         /\ NetAt(n) \in Int /\ DoneAt(n) \in Int
         /\ n.left # {} => /\ Min(n.left) \in n.left /\ Min(n.left) \in Nat
                           /\ \A j \in n.left : Min(n.left) <= j
                           /\ Cardinality(n.left \ {Min(n.left)}) < Cardinality(n.left)
PROOF
  <1>1. /\ n.left \in SUBSET D /\ n.joined \in SUBSET Route /\ n.pending \in SUBSET Ticket
        /\ n.net \in Int /\ n.done \in Int /\ n.assign \in [D -> Nat]
    BY DEF Node
  <1>2. IsFiniteSet(n.left) /\ Cardinality(n.left) \in Nat /\ n.left \in SUBSET Nat
    BY <1>1, FS_Subset, FS_CardinalityType
  <1> DEFINE m == Met(n.joined, n.pending)
  <1>3. m \in SUBSET n.pending /\ m \in SUBSET Ticket /\ Cardinality(m) \in Nat
    BY <1>1, MetIsPart
  <1>4. MetAt(n) = m
    BY DEF MetAt
  <1> HIDE DEF m
  <1>5. Gain(m) \in Nat
    BY <1>3, GainIs
  <1>6. NetAt(n) = n.net + Gain(m) /\ DoneAt(n) = n.done + Cardinality(m)
    BY <1>4 DEF NetAt, DoneAt
  <1>7. ASSUME n.left # {}
        PROVE  /\ Min(n.left) \in n.left /\ \A j \in n.left : Min(n.left) <= j
               /\ Cardinality(n.left \ {Min(n.left)}) < Cardinality(n.left)
    <2>1. Min(n.left) \in n.left /\ \A j \in n.left : Min(n.left) <= j
      BY <1>2, <1>7, MinIsLeast
    <2> DEFINE i == Min(n.left)
               u == n.left
    <2>2. i \in u /\ IsFiniteSet(u) /\ Cardinality(u) \in Nat
      BY <1>2, <2>1
    <2> HIDE DEF i, u
    <2>3. Cardinality(u \ {i}) < Cardinality(u)
      <3>1. Cardinality(u \ {i}) = Cardinality(u) - 1
        BY <2>2, FS_RemoveElement
      <3> QED BY <2>2, <3>1
    <2> QED BY <2>1, <2>3 DEF i, u
  <1> QED BY <1>1, <1>2, <1>3, <1>4, <1>5, <1>6, <1>7

(* Tickets that are still live are among those pending that are not met. *)
LEMMA LiveIs ==
  ASSUME NEW D, IsFiniteSet(D), \A i \in D : i \in Nat, NEW options \in [D -> SUBSET Route], NEW n \in Node(D)
  PROVE  /\ Reaches(options, n) \in SUBSET Route /\ n.joined \subseteq Reaches(options, n)
         /\ LiveAt(options, n) \in SUBSET (n.pending \ MetAt(n)) /\ LiveAt(options, n) \in SUBSET Ticket
PROOF
  <1>1. n.left \in SUBSET D /\ n.joined \in SUBSET Route /\ n.pending \in SUBSET Ticket
    BY NodeIs
  <1>2. Reaches(options, n) \in SUBSET Route /\ n.joined \subseteq Reaches(options, n)
    BY <1>1 DEF Reaches
  <1> QED BY <1>1, <1>2, MetIsPart DEF LiveAt

(* What a search is called with, part by part. *)
LEMMA SuitsIs ==
  ASSUME NEW own, NEW goals, NEW options, Suits(own, goals, options)
  PROVE  /\ own \in SUBSET Route /\ goals \in SUBSET Ticket
         /\ IsFiniteSet(DOMAIN options) /\ \A i \in DOMAIN options : i \in Nat
         /\ options \in [DOMAIN options -> SUBSET Route]
BY DEF Suits

(* An assignment chooses an option or nothing at each station. *)
LEMMA OverHas ==
  ASSUME NEW options, NEW a
  PROVE  a \in Over(options) <=> /\ a \in [DOMAIN options -> Route \cup {0}]
                                 /\ \A i \in DOMAIN options : a[i] # 0 => a[i] \in options[i]
BY DEF Over

(* The tracks an assignment takes. *)
LEMMA TakenHas ==
  ASSUME NEW D, NEW a, DOMAIN a = D
  PROVE  \A r : r \in Taken(a) <=> r # 0 /\ \E i \in D : a[i] = r
BY DEF Taken

(* An assignment the node leads to joins what the node has joined, and no more than it can reach. *)
LEMMA CompletionIs ==
  ASSUME NEW own, NEW goals, NEW options, Suits(own, goals, options),
         NEW n, IsNode(own, goals, options, n), NEW c \in Completions(options, n)
  PROVE  n.joined \subseteq With(own, c) /\ With(own, c) \subseteq Reaches(options, n)
         /\ With(own, c) \in SUBSET Route
PROOF
  <1> DEFINE D == DOMAIN options
             a == n.assign
  <1>1. c \in Over(options) /\ a \in Over(options) /\ n.joined = own \cup Taken(a)
        /\ \A j \in D : j \notin n.left => c[j] = a[j]
    BY DEF IsNode, Completions, With
  <1>2. c \in [D -> Route \cup {0}] /\ a \in [D -> Route \cup {0}]
        /\ \A i \in D : c[i] # 0 => c[i] \in options[i]
    BY <1>1, OverHas
  <1>3. \A j \in n.left : a[j] = 0
    BY DEF IsNode
  <1>4. n.left \in SUBSET D
    BY DEF IsNode, Node
  <1> HIDE DEF D, a
  <1>5. DOMAIN c = D /\ DOMAIN a = D
    BY <1>2
  <1>6. \A r : r \in Taken(c) <=> r # 0 /\ \E i \in D : c[i] = r
    BY <1>5, TakenHas
  <1>7. \A r : r \in Taken(a) <=> r # 0 /\ \E i \in D : a[i] = r
    BY <1>5, TakenHas
  <1>8. Taken(a) \subseteq Taken(c)
    BY <1>1, <1>3, <1>6, <1>7
  <1>9. Taken(c) \subseteq Taken(a) \cup UNION {options[k] : k \in n.left}
    <2> SUFFICES ASSUME NEW r \in Taken(c), r \notin Taken(a)
                 PROVE  \E k \in n.left : r \in options[k]
      OBVIOUS
    <2>1. PICK i \in D : c[i] = r /\ r # 0
      BY <1>6
    <2>2. i \in n.left
      BY <1>1, <1>7, <2>1
    <2> QED BY <1>2, <2>1, <2>2
  <1>10. With(own, c) \in SUBSET Route
    BY <1>1, OverRanks
  <1> QED BY <1>1, <1>8, <1>9, <1>10 DEF With, Reaches

(* What such an assignment scores is what the node has and what it gains of the live tickets.
   That is what the cut may rest on. *)
LEMMA Accounts ==
  ASSUME NEW own, NEW goals, NEW options, Suits(own, goals, options),
         NEW n, IsNode(own, goals, options, n), NEW c \in Completions(options, n)
  PROVE  /\ NetOf(own, goals, c) = NetAt(n) + Gain(Met(With(own, c), LiveAt(options, n)))
         /\ DoneOf(own, goals, c) = DoneAt(n) + Cardinality(Met(With(own, c), LiveAt(options, n)))
         /\ Gain(Met(With(own, c), LiveAt(options, n))) <= Gain(LiveAt(options, n))
         /\ LiveAt(options, n) = {} => /\ NetOf(own, goals, c) = NetAt(n)
                                       /\ DoneOf(own, goals, c) = DoneAt(n)
PROOF
  <1> DEFINE w == With(own, c)
             met == MetAt(n)
             live == LiveAt(options, n)
             more == Met(w, live)
             D == DOMAIN options
  <1>1. IsFiniteSet(D) /\ (\A i \in D : i \in Nat) /\ options \in [D -> SUBSET Route]
    BY SuitsIs
  <1>2. n \in Node(D)
    BY DEF IsNode
  <1>3. n.joined \in SUBSET Route /\ n.pending \in SUBSET Ticket /\ met \in SUBSET n.pending
        /\ met \in SUBSET Ticket /\ n.net \in Int /\ n.done \in Int
    BY <1>1, <1>2, NodeIs
  <1>4. Reaches(options, n) \in SUBSET Route /\ live \in SUBSET (n.pending \ met) /\ live \in SUBSET Ticket
    BY <1>1, <1>2, LiveIs
  <1>5. n.joined \subseteq w /\ w \subseteq Reaches(options, n) /\ w \in SUBSET Route
    BY CompletionIs
  <1>6. Met(w, n.pending) = met \cup more /\ met \cap more = {}
    <2>1. met \subseteq Met(w, n.pending)
      BY <1>3, <1>5, MetGrows DEF MetAt
    <2>2. Met(w, n.pending \ met) \subseteq live
      BY <1>3, <1>4, <1>5, MetGrows DEF LiveAt
    <2>3. Met(w, n.pending) \subseteq met \cup more
      BY <2>2 DEF Met
    <2>4. more \subseteq Met(w, n.pending) /\ more \subseteq live
      BY <1>4 DEF Met
    <2> QED BY <1>4, <2>1, <2>3, <2>4
  <1>7. more \in SUBSET Ticket /\ more \in SUBSET live /\ Cardinality(more) \in Nat
    BY <1>4, MetIsPart
  <1>8. Cardinality(met) \in Nat
    BY <1>3, TicketsAreFinite
  <1> HIDE DEF met, live, more, D
  <1>9. Gain(met) \in Nat /\ Gain(met \cup more) = Gain(met) + Gain(more)
    BY <1>3, <1>6, <1>7, GainIs
  <1>10. Gain(more) \in Nat /\ Gain(more) <= Gain(live)
    BY <1>4, <1>7, GainIs
  <1>11. Cardinality(met \cup more) = Cardinality(met) + Cardinality(more)
    BY <1>3, <1>6, <1>7, BothCounted
  <1>12. NetOf(own, goals, c) = n.net + Gain(Met(w, n.pending))
         /\ DoneOf(own, goals, c) = n.done + Cardinality(Met(w, n.pending))
    BY DEF IsNode
  <1>13. NetAt(n) = n.net + Gain(met) /\ DoneAt(n) = n.done + Cardinality(met)
    BY DEF NetAt, DoneAt, met
  <1>14. NetOf(own, goals, c) = NetAt(n) + Gain(more)
    BY <1>3, <1>6, <1>9, <1>10, <1>12, <1>13
  <1>15. DoneOf(own, goals, c) = DoneAt(n) + Cardinality(more)
    BY <1>3, <1>6, <1>7, <1>8, <1>11, <1>12, <1>13
  <1>16. live = {} => Gain(more) = 0 /\ Cardinality(more) = 0
    <2>1. Gain({}) = 0 /\ Cardinality({}) = 0
      BY <1>3, GainIs, FS_EmptySet
    <2> QED BY <1>7, <2>1
  <1>17. NetAt(n) \in Int /\ DoneAt(n) \in Int
    BY <1>3, <1>8, <1>9, <1>13
  <1>18. live = {} => NetOf(own, goals, c) = NetAt(n) /\ DoneOf(own, goals, c) = DoneAt(n)
    BY <1>14, <1>15, <1>16, <1>17
  <1> QED BY <1>10, <1>14, <1>15, <1>18 DEF more, live

(* A node leads to its own assignment and has its score. *)
LEMMA NodeItself ==
  ASSUME NEW own, NEW goals, NEW options, Suits(own, goals, options),
         NEW n, IsNode(own, goals, options, n)
  PROVE  /\ n.assign \in Completions(options, n)
         /\ NetOf(own, goals, n.assign) = NetAt(n) /\ DoneOf(own, goals, n.assign) = DoneAt(n)
PROOF
  <1>1. n.assign \in Completions(options, n)
    BY DEF IsNode, Completions
  <1>2. With(own, n.assign) = n.joined
    BY DEF IsNode
  <1> QED BY <1>1, <1>2 DEF IsNode, NetAt, DoneAt, MetAt

(* The node's own assignment is the first of those it leads to, with the fewest borrows. *)
LEMMA FirstOfAll ==
  ASSUME NEW own, NEW goals, NEW options, Suits(own, goals, options),
         NEW n, IsNode(own, goals, options, n), NEW c \in Completions(options, n)
  PROVE  /\ c = n.assign \/ Earlier(n.assign, c)
         /\ Borrows(n.assign) <= Borrows(c)
PROOF
  <1> DEFINE D == DOMAIN options
             a == n.assign
  <1>1. IsFiniteSet(D) /\ \A i \in D : i \in Nat
    BY SuitsIs
  <1>2. c \in Over(options) /\ a \in Over(options) /\ \A j \in D : j \notin n.left => c[j] = a[j]
    BY DEF IsNode, Completions
  <1>3. Ranks(D, c, MetBy(own, goals, options)) /\ Ranks(D, a, MetBy(own, goals, options))
    BY <1>2, OverRanks
  <1>4. c \in [D -> Nat] /\ a \in [D -> Nat]
    BY <1>3 DEF Ranks
  <1>5. \A j \in D : a[j] # c[j] => a[j] = 0
    BY <1>2 DEF IsNode
  <1> HIDE DEF D, a
  <1>6. Borrows(a) <= Borrows(c)
    <2>1. \A j \in D : a[j] # 0 => c[j] # 0
      BY <1>5
    <2>2. DOMAIN a = D /\ DOMAIN c = D
      BY <1>4
    <2> QED BY <1>1, <2>1, <2>2, BorrowsNoMore
  <1>7. ~Earlier(c, a)
    <2> SUFFICES ASSUME NEW i \in D, c[i] < a[i]
                 PROVE  FALSE
      <3>1. DOMAIN c = D
        BY <1>4
      <3> QED BY <3>1 DEF Earlier
    <2>1. c[i] \in Nat /\ a[i] \in Nat /\ a[i] # c[i]
      BY <1>4
    <2> QED BY <1>5, <2>1
  <1>8. c = a \/ Earlier(c, a) \/ Earlier(a, c)
    BY <1>1, <1>4, EarlierOrders
  <1> QED BY <1>6, <1>7, <1>8 DEF a

(* A child is a node: of the assignments with its choice at the station. *)
LEMMA ChildIs ==
  ASSUME NEW own, NEW goals, NEW options, Suits(own, goals, options),
         NEW n, IsNode(own, goals, options, n), n.left # {},
         NEW r \in options[Min(n.left)] \cup {0}, NEW a, a = [n.assign EXCEPT ![Min(n.left)] = r]
  PROVE  LET child == ChildOf(options, n, With(own, a), a)
         IN  /\ IsNode(own, goals, options, child)
             /\ Completions(options, child) = {c \in Completions(options, n) : c[Min(n.left)] = r}
             /\ Cardinality(child.left) \in Nat /\ Cardinality(child.left) < Cardinality(n.left)
             /\ With(own, a) = IF r = 0 THEN n.joined ELSE n.joined \cup {r}
             /\ r = 0 => a = n.assign
PROOF
  <1> DEFINE D == DOMAIN options
             i == Min(n.left)
             old == n.assign
             child == ChildOf(options, n, With(own, a), a)
  <1>1. IsFiniteSet(D) /\ (\A j \in D : j \in Nat) /\ options \in [D -> SUBSET Route] /\ own \in SUBSET Route
    BY SuitsIs
  <1>2. n \in Node(D) /\ old \in Over(options) /\ (\A j \in n.left : old[j] = 0)
        /\ n.joined = own \cup Taken(old)
    BY DEF IsNode, With
  <1>3. /\ n.left \in SUBSET D /\ i \in n.left /\ i \in D
        /\ n.joined \in SUBSET Route /\ NetAt(n) \in Int /\ DoneAt(n) \in Int
        /\ Cardinality(n.left) \in Nat /\ Cardinality(n.left \ {i}) < Cardinality(n.left)
    BY <1>1, <1>2, NodeIs
  <1>4. LiveAt(options, n) \in SUBSET Ticket
    BY <1>1, <1>2, LiveIs
  <1>5. old \in [D -> Route \cup {0}] /\ \A j \in D : old[j] # 0 => old[j] \in options[j]
    BY <1>2, OverHas
  <1> DEFINE o == options[i]
  <1>6. r \in Route \cup {0}
    BY <1>1, <1>3
  <1> HIDE DEF D, i, old
  <1>7. a = [old EXCEPT ![i] = r]
    BY DEF i, old
  <1>8. a \in [D -> Route \cup {0}] /\ a[i] = r /\ \A j \in D : j # i => a[j] = old[j]
    BY <1>3, <1>5, <1>6, <1>7
  <1>9. r # 0 => r \in options[i]
    BY DEF i
  <1>10. \A j \in D : a[j] # 0 => a[j] \in options[j]
    BY <1>3, <1>5, <1>8, <1>9
  <1>11. a \in Over(options)
    BY <1>8, <1>10, OverHas DEF D
  <1>12. a \in [D -> Nat] /\ With(own, a) \in SUBSET Route
    <2>1. Ranks(D, a, MetBy(own, goals, options)) /\ With(own, a) \in SUBSET Route
      BY <1>11, OverRanks DEF D
    <2> QED BY <2>1 DEF Ranks
  <1>13. /\ child.left = n.left \ {i} /\ child.joined = With(own, a) /\ child.net = NetAt(n)
         /\ child.done = DoneAt(n) /\ child.pending = LiveAt(options, n) /\ child.assign = a
    BY DEF ChildOf, i
  <1>14. child \in Node(D)
    <2>1. n.left \ {i} \in SUBSET D
      BY <1>3
    <2> QED BY <1>3, <1>4, <1>12, <2>1 DEF ChildOf, Node, i
  <1> HIDE DEF child, o
  <1>15. Completions(options, child) = {c \in Completions(options, n) : c[i] = r}
    <2>1. ASSUME NEW c
          PROVE  (\A j \in D : j \notin child.left => c[j] = a[j]) <=>
                   (\A j \in D : j \notin n.left => c[j] = old[j]) /\ c[i] = r
      BY <1>3, <1>8, <1>13
    <2>2. \A c : c \in Completions(options, child) <=>
                   c \in Over(options) /\ \A j \in D : j \notin child.left => c[j] = a[j]
      BY <1>13 DEF Completions, D
    <2>3. \A c : c \in Completions(options, n) <=>
                   c \in Over(options) /\ \A j \in D : j \notin n.left => c[j] = old[j]
      BY DEF Completions, D, old
    <2> QED BY <2>1, <2>2, <2>3
  <1>16. IsNode(own, goals, options, child)
    <2>1. \A j \in child.left : child.assign[j] = 0
      BY <1>2, <1>3, <1>8, <1>13
    <2>2. ASSUME NEW c \in Completions(options, child)
          PROVE  /\ NetOf(own, goals, c) = child.net + Gain(Met(With(own, c), child.pending))
                 /\ DoneOf(own, goals, c) = child.done + Cardinality(Met(With(own, c), child.pending))
      <3>1. c \in Completions(options, n)
        BY <1>15
      <3> QED BY <1>13, <3>1, Accounts
    <2> QED BY <1>11, <1>13, <1>14, <2>1, <2>2 DEF IsNode, D
  <1>17. Cardinality(child.left) \in Nat /\ Cardinality(child.left) < Cardinality(n.left)
    <2>1. IsFiniteSet(n.left)
      BY <1>1, <1>3, FS_Subset
    <2>2. Cardinality(n.left \ {i}) \in Nat
      BY <2>1, FS_RemoveElement, FS_CardinalityType
    <2> QED BY <1>3, <1>13, <2>2
  <1>18. With(own, a) = IF r = 0 THEN n.joined ELSE n.joined \cup {r}
    <2>1. DOMAIN a = D /\ DOMAIN old = D
      BY <1>5, <1>8
    <2>2. \A q : q \in Taken(a) <=> q # 0 /\ \E j \in D : a[j] = q
      BY <2>1, TakenHas
    <2>3. \A q : q \in Taken(old) <=> q # 0 /\ \E j \in D : old[j] = q
      BY <2>1, TakenHas
    <2>4. old[i] = 0
      BY <1>2, <1>3
    <2>5. \A q : q \in Taken(a) <=> q \in Taken(old) \/ (q = r /\ r # 0)
      BY <1>3, <1>8, <2>2, <2>3, <2>4
    <2> QED BY <1>2, <2>5 DEF With
  <1>19. r = 0 => a = old
    <2> SUFFICES ASSUME r = 0
                 PROVE  a = old
      OBVIOUS
    <2>1. \A j \in D : a[j] = old[j]
      BY <1>2, <1>3, <1>8
    <2> QED BY <1>5, <1>8, <2>1, Alike
  <1> QED BY <1>15, <1>16, <1>17, <1>18, <1>19 DEF child, i, old

-----------------------------------------------------------------------------
(* The search as an equation: F, for what was found so far and a node, is what
   is found after it.  A branch for each option r, in ascending order. *)
TryOf(F, options, n, r, b) ==
  IF Same(n.joined, Ends[r][1], Ends[r][2]) THEN b
  ELSE F[<<b, ChildOf(options, n, n.joined \cup {r}, [n.assign EXCEPT ![Min(n.left)] = r])>>]
Branches(F, options, n, start, S, h) ==
  h = [s \in SUBSET S |-> IF s = {} THEN start ELSE TryOf(F, options, n, Max(s), h[s \ {Max(s)}])]
Branched(F, options, n, start, S) == (CHOOSE h : Branches(F, options, n, start, S, h))[S]
Here(b, n) == Consider(b, NetAt(n), DoneAt(n), n.assign)
Sought(F, options, x) ==
  LET n == x[2]
      here == Here(x[1], n)
      live == LiveAt(options, n)
  IN IF n.pending \ MetAt(n) = {} \/ n.left = {} THEN here
     ELSE IF live = {} \/ CannotReach(NetAt(n) + Gain(live), here.floor) THEN here
     ELSE Branched(F, options, n, F[<<here, ChildOf(options, n, n.joined, n.assign)>>], options[Min(n.left)])
Seeks(F, options) == F = [x \in Best(DOMAIN options) \X Node(DOMAIN options) |-> Sought(F, options, x)]

(* The search is a solution of the equation. *)
LEMMA SearchIs ==
  ASSUME NEW options, NEW first, NEW root
  PROVE  Search(options, first, root) = (CHOOSE F : Seeks(F, options))[<<first, root>>]
BY DEF Search, Seeks, Sought, Branched, Branches, TryOf, Here, ChildOf, LiveAt, Reaches, NetAt, DoneAt, MetAt,
       InOrder, MapThenFoldSet

TriesBy(F, options, n, S, V, op) == \A r \in S, v \in V : TryOf(F, options, n, r, v) = op[<<r, v>>]

(* The branches of a node are taken one after the other. *)
LEMMA BranchedIs ==
  ASSUME NEW S, IsFiniteSet(S), PicksOne(Largest(S), S), NEW V, NEW start \in V, NEW op, IsStepOn(op, S, V),
         NEW F, NEW options, NEW n, TriesBy(F, options, n, S, V, op)
  PROVE  \E h : FoldsIn(Largest(S), op, start, S, h) /\ h[S] = Branched(F, options, n, start, S)
PROOF
  <1>0. op \in [S \X V -> V] /\ \A r \in S, v \in V : TryOf(F, options, n, r, v) = op[<<r, v>>]
    BY DEF IsStepOn, TriesBy
  <1> DEFINE ch == Largest(S)
  <1>1. PicksOne(ch, S) /\ \A s \in SUBSET S : ch[s] = Max(s)
    BY DEF Largest
  <1> HIDE DEF ch
  <1>2. ASSUME NEW h
        PROVE  Branches(F, options, n, start, S, h) <=> FoldsIn(ch, op, start, S, h)
    <2> DEFINE k == [s \in SUBSET S |-> TryOf(F, options, n, Max(s), h[s \ {Max(s)}])]
    <2>1. StepsIn(ch, k, op, S, V, h)
      <3> SUFFICES ASSUME NEW s \in SUBSET S, s # {}, h[s \ {ch[s]}] \in V
                   PROVE  k[s] = op[<<ch[s], h[s \ {ch[s]}]>>]
        BY DEF StepsIn
      <3>1. ch[s] = Max(s) /\ ch[s] \in S
        BY <1>1 DEF PicksOne
      <3>2. k[s] = TryOf(F, options, n, ch[s], h[s \ {ch[s]}])
        BY <3>1
      <3> HIDE DEF k
      <3> QED BY <1>0, <3>1, <3>2
    <2>2. Branches(F, options, n, start, S, h) <=> IsFoldBy(k, start, S, h)
      <3> DEFINE f == [s \in SUBSET S |-> IF s = {} THEN start ELSE TryOf(F, options, n, Max(s), h[s \ {Max(s)}])]
                 g == [s \in SUBSET S |-> IF s = {} THEN start ELSE k[s]]
      <3>1. f = g
        OBVIOUS
      <3> QED BY <3>1 DEF Branches, IsFoldBy
    <2> HIDE DEF k
    <2>3. FoldsIn(ch, op, start, S, h) <=> IsFoldBy(k, start, S, h)
      BY <1>0, <1>1, <2>1, SameFoldIn
    <2> QED BY <2>2, <2>3
  <1>3. \E h : FoldsIn(ch, op, start, S, h)
    BY <1>0, <1>1, FoldInExists
  <1>4. Branches(F, options, n, start, S, CHOOSE h : Branches(F, options, n, start, S, h))
    BY <1>2, <1>3
  <1> QED BY <1>2, <1>4 DEF Branched, ch

(* Considering an assignment gives the old best or that assignment. *)
LEMMA ConsiderIs ==
  ASSUME NEW D, NEW b \in Best(D), NEW net \in Int, NEW done \in Int, NEW a \in [D -> Nat]
  PROVE  /\ Consider(b, net, done, a) \in Best(D)
         /\ Consider(b, net, done, a).floor \in {b.floor, net}
         /\ Consider(b, net, done, a) = b \/ /\ Consider(b, net, done, a).net = net
                                             /\ Consider(b, net, done, a).done = done
                                             /\ Consider(b, net, done, a).assign = a
PROOF
  <1>1. b.floor \in Int
    BY DEF Best
  <1>2. Max({b.floor, net}) \in {b.floor, net}
    BY <1>1, MaxOfTwo
  <1> DEFINE f == Max({b.floor, net})
  <1> HIDE DEF f
  <1>3. [net |-> net, done |-> done, assign |-> a, floor |-> f] \in Best(D)
    <2>1. f \in Int
      BY <1>1, <1>2 DEF f
    <2> QED BY <2>1 DEF Best
  <1> QED BY <1>2, <1>3 DEF Consider, f

(* A child has a station less to choose. *)
LEMMA ChildIsNode ==
  ASSUME NEW D, IsFiniteSet(D), \A i \in D : i \in Nat, NEW options \in [D -> SUBSET Route],
         NEW n \in Node(D), n.left # {}, NEW edges \in SUBSET Route, NEW a \in [D -> Nat]
  PROVE  /\ ChildOf(options, n, edges, a) \in Node(D)
         /\ Cardinality(ChildOf(options, n, edges, a).left) < Cardinality(n.left)
PROOF
  <1>1. LiveAt(options, n) \in SUBSET Ticket
    BY LiveIs
  <1>2. n.left \in SUBSET D /\ NetAt(n) \in Int /\ DoneAt(n) \in Int
        /\ Cardinality(n.left \ {Min(n.left)}) < Cardinality(n.left)
    BY NodeIs
  <1> QED BY <1>1, <1>2 DEF ChildOf, Node

(* F answers at every node that is smaller than n. *)
Answers(F, D, n) ==
  \A b \in Best(D), m \in Node(D) : Cardinality(m.left) < Cardinality(n.left) => F[<<b, m>>] \in Best(D)

(* So trying an option answers. *)
LEMMA TryIs ==
  ASSUME NEW D, IsFiniteSet(D), \A i \in D : i \in Nat, NEW options \in [D -> SUBSET Route],
         NEW n \in Node(D), n.left # {}, NEW F, Answers(F, D, n),
         NEW b \in Best(D), NEW r \in options[Min(n.left)]
  PROVE  TryOf(F, options, n, r, b) \in Best(D)
PROOF
  <1> DEFINE a == [n.assign EXCEPT ![Min(n.left)] = r]
             i == Min(n.left)
  <1>1. i \in D /\ n.joined \in SUBSET Route /\ n.assign \in [D -> Nat]
    BY NodeIs
  <1>2. r \in Route
    BY <1>1
  <1>3. r \in Nat
    BY <1>2, ScoringAssumption
  <1>4. a \in [D -> Nat]
    BY <1>1, <1>3
  <1>5. n.joined \cup {r} \in SUBSET Route
    BY <1>1, <1>2
  <1> HIDE DEF a
  <1> DEFINE m == ChildOf(options, n, n.joined \cup {r}, a)
  <1>6. m \in Node(D) /\ Cardinality(m.left) < Cardinality(n.left)
    BY <1>4, <1>5, ChildIsNode
  <1> HIDE DEF m
  <1>7. F[<<b, m>>] \in Best(D)
    BY <1>6 DEF Answers
  <1> QED BY <1>7 DEF TryOf, m, a

(* What is found at a node depends on what is found at smaller ones. *)
LEMMA SoughtIs ==
  ASSUME NEW D, IsFiniteSet(D), \A i \in D : i \in Nat, NEW options \in [D -> SUBSET Route],
         NEW b \in Best(D), NEW n \in Node(D), NEW F, NEW G, Answers(F, D, n),
         \A c \in Best(D), m \in Node(D) : Cardinality(m.left) < Cardinality(n.left) => F[<<c, m>>] = G[<<c, m>>]
  PROVE  Sought(F, options, <<b, n>>) \in Best(D) /\ Sought(F, options, <<b, n>>) = Sought(G, options, <<b, n>>)
PROOF
  <1> DEFINE here == Here(b, n)
             S == options[Min(n.left)]
             child == ChildOf(options, n, n.joined, n.assign)
  <1>1. here \in Best(D)
    <2>1. NetAt(n) \in Int /\ DoneAt(n) \in Int /\ n.assign \in [D -> Nat]
      BY NodeIs
    <2> QED BY <2>1, ConsiderIs DEF Here
  <1>2. CASE n.left = {}
    <2>1. Sought(F, options, <<b, n>>) = here /\ Sought(G, options, <<b, n>>) = here
      BY <1>2 DEF Sought
    <2> QED BY <1>1, <2>1
  <1>3. CASE n.left # {}
    <2>1. S \in SUBSET Route
      <3>1. Min(n.left) \in D
        BY <1>3, NodeIs
      <3> QED BY <3>1
    <2>2. S \in SUBSET Nat /\ IsFiniteSet(S)
      BY <2>1, ScoringAssumption, FS_Subset
    <2>3. child \in Node(D) /\ Cardinality(child.left) < Cardinality(n.left)
      <3>1. n.joined \in SUBSET Route /\ n.assign \in [D -> Nat]
        BY NodeIs
      <3> QED BY <1>3, <3>1, ChildIsNode
    <2> HIDE DEF child, here
    <2> DEFINE start == F[<<here, child>>]
               op == [q \in S \X Best(D) |-> TryOf(F, options, n, q[1], q[2])]
    <2>4. start \in Best(D) /\ G[<<here, child>>] = start
      BY <1>1, <2>3 DEF Answers
    <2>5. \A r \in S, c \in Best(D) : TryOf(F, options, n, r, c) \in Best(D)
      BY <1>3, TryIs
    <2>6. ASSUME NEW r \in S, NEW c \in Best(D)
          PROVE  TryOf(G, options, n, r, c) = TryOf(F, options, n, r, c)
      <3> DEFINE a == [n.assign EXCEPT ![Min(n.left)] = r]
                 m == ChildOf(options, n, n.joined \cup {r}, a)
      <3>1. m \in Node(D) /\ Cardinality(m.left) < Cardinality(n.left)
        <4>1. n.joined \in SUBSET Route /\ n.assign \in [D -> Nat]
          BY NodeIs
        <4>2. r \in Route /\ r \in Nat
          BY <2>1, <2>2
        <4>3. n.joined \cup {r} \in SUBSET Route /\ a \in [D -> Nat]
          BY <4>1, <4>2
        <4> HIDE DEF a
        <4> QED BY <1>3, <4>3, ChildIsNode
      <3> HIDE DEF m
      <3>2. F[<<c, m>>] = G[<<c, m>>]
        BY <3>1
      <3> QED BY <3>2 DEF TryOf, m
    <2>7. op \in [S \X Best(D) -> Best(D)]
      BY <2>5
    <2>8. /\ \A r \in S, c \in Best(D) : TryOf(F, options, n, r, c) = op[<<r, c>>]
          /\ \A r \in S, c \in Best(D) : TryOf(G, options, n, r, c) = op[<<r, c>>]
      BY <2>6
    <2>20. start \in Best(D) /\ op \in [S \X Best(D) -> Best(D)]
      BY <2>4, <2>7
    <2>11. IsFiniteSet(S) /\ PicksOne(Largest(S), S)
      BY <2>2, LargestPicks
    <2> DEFINE V == Best(D)
    <2> HIDE DEF op, start, S, V
    <2>21. start \in V /\ IsStepOn(op, S, V)
      BY <2>20 DEF V, IsStepOn
    <2>22. TriesBy(F, options, n, S, V, op) /\ TriesBy(G, options, n, S, V, op)
      BY <2>8 DEF V, TriesBy
    <2>9. PICK f : FoldsIn(Largest(S), op, start, S, f) /\ f[S] = Branched(F, options, n, start, S)
      BY <2>11, <2>21, <2>22, BranchedIs
    <2>10. PICK g : FoldsIn(Largest(S), op, start, S, g) /\ g[S] = Branched(G, options, n, start, S)
      BY <2>11, <2>21, <2>22, BranchedIs
    <2>12. f[S] = g[S] /\ f[S] \in Best(D)
      <3>1. f[S] = g[S] /\ f[S] \in V
        <4>1. FoldsIn(Largest(S), op, start, S, f) /\ FoldsIn(Largest(S), op, start, S, g)
          BY <2>9, <2>10
        <4> QED BY <2>11, <2>21, <4>1, OnlyOneFold
      <3> QED BY <3>1 DEF V
    <2>13. Branched(F, options, n, start, S) \in Best(D)
           /\ Branched(F, options, n, F[<<here, child>>], S) = Branched(G, options, n, G[<<here, child>>], S)
      BY <2>4, <2>9, <2>10, <2>12 DEF start
    <2> QED BY <1>1, <2>13 DEF Sought, here, child, S, start
  <1> QED BY <1>2, <1>3

(* So the equation has a solution. *)
LEMMA SeeksExists ==
  ASSUME NEW D, IsFiniteSet(D), \A i \in D : i \in Nat, NEW options \in [D -> SUBSET Route]
  PROVE  \E F : Seeks(F, options)
PROOF
  <1> DEFINE X == Best(D) \X Node(D)
             V == Best(D)
             size == [x \in X |-> Cardinality(x[2].left)]
             G == [f \in [X -> V] |-> [x \in X |-> Sought(f, options, x)]]
             v == [net |-> 0, done |-> 0, assign |-> [i \in D |-> 0], floor |-> 0]
             k == Cardinality(D) + 1
  <1>1. v \in V
    BY DEF Best
  <1>2. k \in Nat
    BY FS_CardinalityType
  <1>3. ASSUME NEW x \in X
        PROVE  size[x] \in Nat /\ size[x] < k /\ size[x] = Cardinality(x[2].left)
    <2>1. PICK b \in Best(D), n \in Node(D) : x = <<b, n>>
      OBVIOUS
    <2>2. n.left \in SUBSET D /\ Cardinality(n.left) \in Nat /\ x[2] = n
      BY <2>1, NodeIs
    <2>3. Cardinality(x[2].left) <= Cardinality(D) /\ Cardinality(D) \in Nat
      BY <2>2, FS_Subset, FS_CardinalityType
    <2> QED BY <2>2, <2>3
  <1>4. size \in [X -> Nat]
    BY <1>3
  <1>5. ASSUME NEW f \in [X -> V], NEW g \in [X -> V], NEW b \in Best(D), NEW n \in Node(D),
               \A y \in X : size[y] < size[<<b, n>>] => f[y] = g[y]
        PROVE  Sought(f, options, <<b, n>>) \in V
               /\ Sought(f, options, <<b, n>>) = Sought(g, options, <<b, n>>)
    <2>1. Answers(f, D, n)
      BY DEF Answers
    <2>2. ASSUME NEW c \in Best(D), NEW m \in Node(D), Cardinality(m.left) < Cardinality(n.left)
          PROVE  f[<<c, m>>] = g[<<c, m>>]
      BY <1>5, <2>2
    <2> QED BY <2>1, <2>2, SoughtIs
  <1>6. ASSUME NEW f \in [X -> V], NEW x \in X
        PROVE  Sought(f, options, x) \in V
    <2>1. PICK b \in Best(D), n \in Node(D) : x = <<b, n>>
      OBVIOUS
    <2> HIDE DEF X, V, size
    <2> QED BY <1>5, <2>1
  <1>7. G \in [[X -> V] -> [X -> V]]
    <2> HIDE DEF X, V
    <2> QED BY <1>6
  <1>8. Looks(G, X, V, size)
    <2> SUFFICES ASSUME NEW f \in [X -> V], NEW g \in [X -> V], NEW x \in X,
                        \A y \in X : size[y] < size[x] => f[y] = g[y]
                 PROVE  G[f][x] = G[g][x]
      BY DEF Looks
    <2>1. PICK b \in Best(D), n \in Node(D) : x = <<b, n>>
      OBVIOUS
    <2> HIDE DEF X, V, size
    <2>2. Sought(f, options, x) = Sought(g, options, x)
      BY <1>5, <2>1
    <2> QED BY <2>2
  <1> HIDE DEF X, V, size, G, v, k
  <1>9. PICK f \in [X -> V] : G[f] = f
    <2>1. \A x \in X : size[x] < k
      BY <1>3
    <2>2. Sizes(size, X, k) /\ IsRound(G, X, V)
      BY <1>4, <1>7, <2>1 DEF Sizes, IsRound
    <2> QED BY <1>1, <1>2, <1>8, <2>2, FixedPoint
  <1>10. f = [x \in X |-> Sought(f, options, x)]
    BY <1>9 DEF G
  <1> QED BY <1>10 DEF Seeks, X

(* No assignment scores more than the best. *)
LEMMA NoneIsBetter ==
  ASSUME NEW own, NEW goals, NEW options, Suits(own, goals, options),
         NEW s, IsBest(own, goals, options, s), NEW a \in Over(options)
  PROVE  /\ NetOf(own, goals, a) <= NetOf(own, goals, s)
         /\ ~Better(a, s, MetBy(own, goals, options))
         /\ a = s \/ Better(s, a, MetBy(own, goals, options))
PROOF
  <1> DEFINE M == MetBy(own, goals, options)
             D == DOMAIN options
  <1>1. s \in Over(options) /\ (a = s \/ Better(s, a, M))
    BY DEF IsBest
  <1>2. Ranks(D, s, M) /\ Ranks(D, a, M)
    BY <1>1, OverRanks
  <1>3. IsFiniteSet(D) /\ \A i \in D : i \in Nat
    BY SuitsIs
  <1>4. NetOf(own, goals, a) \in Int /\ NetOf(own, goals, s) \in Int
    BY <1>1, OverRanks
  <1>5. NetOf(own, goals, a) <= NetOf(own, goals, s)
    BY <1>1, <1>4, BetterByNet
  <1> HIDE DEF M, D
  <1>6. ~(Better(s, a, M) /\ Better(a, s, M))
    BY <1>2, <1>3, BetterOrders
  <1>7. ~Better(s, s, M)
    BY <1>2, <1>3, BetterOrders
  <1> QED BY <1>1, <1>5, <1>6, <1>7 DEF M

(* A track that joins nothing is not in the best assignment. *)
LEMMA IdleTrack ==
  ASSUME NEW own, NEW goals, NEW options, Suits(own, goals, options),
         NEW n, IsNode(own, goals, options, n), NEW c \in Completions(options, n),
         NEW i \in n.left, NEW r \in Route, c[i] = r, Same(n.joined, Ends[r][1], Ends[r][2])
  PROVE  \E z \in Over(options) : Better(z, c, MetBy(own, goals, options))
PROOF
  <1> DEFINE D == DOMAIN options
             z == [c EXCEPT ![i] = 0]
  <1>1. IsFiniteSet(D) /\ (\A j \in D : j \in Nat) /\ options \in [D -> SUBSET Route]
        /\ own \in SUBSET Route /\ goals \in SUBSET Ticket
    BY SuitsIs
  <1>2. c \in Over(options) /\ \A j \in D : j \notin n.left => c[j] = n.assign[j]
    BY DEF Completions
  <1>3. c \in [D -> Route \cup {0}] /\ \A j \in D : c[j] # 0 => c[j] \in options[j]
    BY <1>2, OverHas
  <1>4. i \in D
    BY DEF IsNode, Node
  <1> HIDE DEF D
  <1>5. z \in [D -> Route \cup {0}] /\ z[i] = 0 /\ \A j \in D : j # i => z[j] = c[j]
    BY <1>3, <1>4
  <1> HIDE DEF z
  <1>6. \A j \in D : z[j] # 0 => z[j] \in options[j]
    BY <1>3, <1>5
  <1>7. z \in Over(options)
    BY <1>5, <1>6, OverHas DEF D
  <1>8. z \in Completions(options, n)
    BY <1>2, <1>5, <1>7 DEF Completions, D
  <1>9. n.joined \subseteq With(own, z) /\ With(own, z) \in SUBSET Route
    BY <1>8, CompletionIs
  <1>10. With(own, c) = With(own, z) \cup {r}
    <2>1. DOMAIN c = D /\ DOMAIN z = D
      BY <1>3, <1>5
    <2>2. \A q : q \in Taken(c) <=> q # 0 /\ \E j \in D : c[j] = q
      BY <2>1, TakenHas
    <2>3. \A q : q \in Taken(z) <=> q # 0 /\ \E j \in D : z[j] = q
      BY <2>1, TakenHas
    <2>4. r # 0
      BY ScoringAssumption
    <2>5. \A q : q \in Taken(c) <=> q \in Taken(z) \/ q = r
      BY <1>4, <1>5, <2>2, <2>3, <2>4
    <2> QED BY <2>5 DEF With
  <1>11. n.joined \in SUBSET Route
    BY <1>9
  <1>12. Met(With(own, c), goals) = Met(With(own, z), goals)
    <2> DEFINE e == n.joined
               f == With(own, z)
    <2>1. e \in SUBSET Route /\ f \in SUBSET Route /\ e \subseteq f /\ goals \in SUBSET Ticket
          /\ Same(e, Ends[r][1], Ends[r][2])
      BY <1>1, <1>9, <1>11
    <2> HIDE DEF e, f
    <2>2. Met(f \cup {r}, goals) = Met(f, goals)
      BY <2>1, NoMoreIsMet
    <2> QED BY <1>10, <2>2 DEF f
  <1>13. NetOf(own, goals, c) = NetOf(own, goals, z) /\ DoneOf(own, goals, c) = DoneOf(own, goals, z)
    BY <1>12 DEF NetOf, DoneOf
  <1>14. Borrows(z) <= Borrows(c) /\ Borrows(z) \in Nat /\ Borrows(c) \in Nat
    <2>1. \A j \in D : z[j] # 0 => c[j] # 0
      BY <1>5
    <2>2. DOMAIN z = D /\ DOMAIN c = D
      BY <1>3, <1>5
    <2> QED BY <1>1, <2>1, <2>2, BorrowsNoMore, BorrowsIsNat
  <1>15. Earlier(z, c)
    <2>1. DOMAIN z = D
      BY <1>5
    <2>2. z[i] < c[i]
      BY <1>5, ScoringAssumption
    <2>3. \A j \in D : j < i => z[j] = c[j]
      BY <1>1, <1>4, <1>5
    <2> QED BY <1>4, <2>1, <2>2, <2>3 DEF Earlier
  <1> QED BY <1>2, <1>7, <1>13, <1>14, <1>15, BetterByNet

-----------------------------------------------------------------------------
(* The search so far: b is what was found, s the best there is.  Before node n
   it may be anything worth less than the empty network; else it is an
   assignment and its values.  It comes before all that n leads to. *)
Recorded(own, goals, options, s, b) ==
  /\ b \in Best(DOMAIN options) /\ b.assign \in Over(options)
  /\ b.net = NetOf(own, goals, b.assign) /\ b.done = DoneOf(own, goals, b.assign)
  /\ b.floor <= NetOf(own, goals, s)
Ready(own, goals, options, s, n, b) ==
  /\ b \in Best(DOMAIN options) /\ b.assign \in Over(options) /\ b.floor <= NetOf(own, goals, s)
  /\ Recorded(own, goals, options, s, b) \/ b.net < NothingMet(goals)
  /\ \A c \in Completions(options, n) : c = b.assign \/ Earlier(b.assign, c)
(* After node n: what was found is kept or better, and the best is found if n leads to it. *)
Found(own, goals, options, s, n, b, f) ==
  /\ Recorded(own, goals, options, s, f)
  /\ f.assign = b.assign \/ f.assign \in Completions(options, n)
  /\ Recorded(own, goals, options, s, b) /\ b.assign = s => f.assign = s
  /\ s \in Completions(options, n) => f.assign = s

(* Considering the node's own assignment. *)
LEMMA HereIs ==
  ASSUME NEW own, NEW goals, NEW options, Suits(own, goals, options),
         NEW s, IsBest(own, goals, options, s),
         NEW n, IsNode(own, goals, options, n), NEW b, Ready(own, goals, options, s, n, b)
  PROVE  /\ Recorded(own, goals, options, s, Here(b, n))
         /\ Here(b, n).assign \in {b.assign, n.assign}
         /\ Recorded(own, goals, options, s, b) /\ b.assign = s => Here(b, n).assign = s
         /\ s = n.assign => Here(b, n).assign = s
PROOF
  <1> DEFINE D == DOMAIN options
             a == n.assign
             h == Here(b, n)
             net == NetAt(n)
             done == DoneAt(n)
             M == MetBy(own, goals, options)
  <1>1. IsFiniteSet(D) /\ \A i \in D : i \in Nat
    BY SuitsIs
  <1>2. a \in Over(options) /\ a \in Completions(options, n)
        /\ NetOf(own, goals, a) = net /\ DoneOf(own, goals, a) = done
    BY NodeItself DEF IsNode
  <1>3. s \in Over(options)
    BY DEF IsBest
  <1>4. /\ NetOf(own, goals, a) \in Int /\ DoneOf(own, goals, a) \in Nat /\ Borrows(a) \in Nat
        /\ NothingMet(goals) \in Int /\ NetOf(own, goals, a) >= NothingMet(goals) /\ Ranks(D, a, M)
    BY <1>2, OverRanks
  <1>5. a \in [D -> Nat]
    BY <1>4 DEF Ranks
  <1>6. /\ b \in Best(D) /\ b.assign \in Over(options) /\ b.floor <= NetOf(own, goals, s)
        /\ \A c \in Completions(options, n) : c = b.assign \/ Earlier(b.assign, c)
        /\ Recorded(own, goals, options, s, b) \/ b.net < NothingMet(goals)
    BY DEF Ready
  <1>7. b.net \in Int /\ b.done \in Int /\ b.floor \in Int
    BY <1>6 DEF Best
  <1>8. /\ NetOf(own, goals, b.assign) \in Int /\ DoneOf(own, goals, b.assign) \in Nat /\ Borrows(b.assign) \in Nat
        /\ NetOf(own, goals, b.assign) >= NothingMet(goals) /\ Ranks(D, b.assign, M)
    BY <1>6, OverRanks
  <1>9. b.assign \in [D -> Nat]
    BY <1>8 DEF Ranks
  <1> DEFINE more == \/ net > b.net
                     \/ net = b.net /\ done > b.done
                     \/ net = b.net /\ done = b.done /\ Borrows(a) < Borrows(b.assign)
  <1>10. h = Consider(b, net, done, a)
    BY DEF Here
  <1>11. (more => h.net = net /\ h.done = done /\ h.assign = a) /\ (~more => h = b)
    BY <1>10 DEF Consider
  <1> HIDE DEF D, a, h, net, done, M
  <1>12. net \in Int /\ done \in Int
    BY <1>2, <1>4
  <1>13. h \in Best(D) /\ h.floor \in {b.floor, net}
    BY <1>5, <1>6, <1>10, <1>12, ConsiderIs
  <1>14. net <= NetOf(own, goals, s)
    BY <1>2, NoneIsBetter
  <1>15. h.floor <= NetOf(own, goals, s)
    BY <1>6, <1>13, <1>14
  <1>16. ~more => Recorded(own, goals, options, s, b)
    BY <1>2, <1>4, <1>6, <1>7
  <1>17. Recorded(own, goals, options, s, h)
    <2>1. CASE more
      BY <1>2, <1>11, <1>13, <1>15, <2>1 DEF Recorded, D
    <2>2. CASE ~more
      BY <1>11, <1>16, <2>2
    <2> QED BY <2>1, <2>2
  <1>18. h.assign \in {b.assign, a}
    BY <1>11
  <1>19. ASSUME Recorded(own, goals, options, s, b)
         PROVE  /\ b.net = NetOf(own, goals, b.assign) /\ b.done = DoneOf(own, goals, b.assign)
                /\ Better(a, b.assign, M) <=>
                     more \/ (/\ net = b.net /\ done = b.done /\ Borrows(a) = Borrows(b.assign)
                              /\ Earlier(a, b.assign))
    <2>1. b.net = NetOf(own, goals, b.assign) /\ b.done = DoneOf(own, goals, b.assign)
      BY <1>19 DEF Recorded
    <2>2. Better(a, b.assign, M) <=>
           \/ NetOf(own, goals, a) > NetOf(own, goals, b.assign)
           \/ /\ NetOf(own, goals, a) = NetOf(own, goals, b.assign)
              /\ \/ DoneOf(own, goals, a) > DoneOf(own, goals, b.assign)
                 \/ /\ DoneOf(own, goals, a) = DoneOf(own, goals, b.assign)
                    /\ \/ Borrows(a) < Borrows(b.assign)
                       \/ Borrows(a) = Borrows(b.assign) /\ Earlier(a, b.assign)
      BY <1>2, <1>6, BetterByNet DEF M
    <2> QED BY <1>2, <2>1, <2>2
  <1>20. ASSUME Recorded(own, goals, options, s, b), b.assign = s
         PROVE  h.assign = s
    <2>1. ~Better(a, s, M)
      BY <1>2, NoneIsBetter DEF M
    <2>2. ~more
      BY <1>19, <1>20, <2>1
    <2> QED BY <1>11, <1>20, <2>2
  <1>21. ASSUME s = a
         PROVE  h.assign = s
    <2>1. CASE more
      BY <1>11, <1>21, <2>1
    <2>2. CASE ~more
      <3>1. Recorded(own, goals, options, s, b) /\ h = b
        BY <1>11, <1>16, <2>2
      <3>2. ASSUME b.assign # s
            PROVE  FALSE
        <4>1. Better(a, b.assign, M)
          BY <1>6, <1>21, <3>2, NoneIsBetter DEF M
        <4>2. Earlier(a, b.assign)
          BY <1>19, <2>2, <3>1, <4>1
        <4>3. Earlier(b.assign, a)
          BY <1>2, <1>6, <1>21, <3>2
        <4> QED BY <1>1, <1>5, <1>9, <4>2, <4>3, EarlierOrders
      <3> QED BY <3>1, <3>2
    <2> QED BY <2>1, <2>2
  <1> QED BY <1>17, <1>18, <1>20, <1>21 DEF h, a

(* What is found then comes before all the node leads to. *)
LEMMA FromHere ==
  ASSUME NEW own, NEW goals, NEW options, Suits(own, goals, options),
         NEW s, IsBest(own, goals, options, s),
         NEW n, IsNode(own, goals, options, n), NEW b, Ready(own, goals, options, s, n, b),
         NEW c \in Completions(options, n)
  PROVE  c = Here(b, n).assign \/ Earlier(Here(b, n).assign, c)
PROOF
  <1>1. Here(b, n).assign \in {b.assign, n.assign}
    BY HereIs
  <1>2. c = b.assign \/ Earlier(b.assign, c)
    BY DEF Ready
  <1>3. c = n.assign \/ Earlier(n.assign, c)
    BY FirstOfAll
  <1> QED BY <1>1, <1>2, <1>3

(* Where nothing more can be met, or too little, or there is nothing to choose,
   the search stops: it has what it came for. *)
LEMMA StopsInTime ==
  ASSUME NEW own, NEW goals, NEW options, Suits(own, goals, options),
         NEW s, IsBest(own, goals, options, s),
         NEW n, IsNode(own, goals, options, n), NEW b, Ready(own, goals, options, s, n, b),
         \/ n.left = {}
         \/ LiveAt(options, n) = {}
         \/ NetAt(n) + Gain(LiveAt(options, n)) < Here(b, n).floor
  PROVE  Found(own, goals, options, s, n, b, Here(b, n))
PROOF
  <1> DEFINE h == Here(b, n)
             a == n.assign
             D == DOMAIN options
  <1>1. /\ Recorded(own, goals, options, s, h) /\ h.assign \in {b.assign, a}
        /\ Recorded(own, goals, options, s, b) /\ b.assign = s => h.assign = s
        /\ s = a => h.assign = s
    BY HereIs
  <1>2. a \in Completions(options, n) /\ a \in Over(options)
        /\ NetOf(own, goals, a) = NetAt(n) /\ DoneOf(own, goals, a) = DoneAt(n)
    BY NodeItself DEF IsNode
  <1>3. ASSUME s \in Completions(options, n)
        PROVE  s = a
    <2>1. s \in Over(options)
      BY DEF IsBest
    <2>2. a = s \/ Earlier(a, s)
      BY <1>3, FirstOfAll
    <2>3. Borrows(a) <= Borrows(s)
      BY <1>3, FirstOfAll
    <2>4. CASE n.left = {}
      <3>1. \A j \in D : s[j] = a[j]
        BY <1>3, <2>4 DEF Completions
      <3>2. DOMAIN a = D
        BY <1>2 DEF Over
      <3>3. ~Earlier(a, s)
        <4>1. s \in [D -> Route \cup {0}] /\ a \in [D -> Route \cup {0}]
          BY <1>2, <2>1 DEF Over
        <4>2. \A j \in D : ~(a[j] < s[j])
          <5> SUFFICES ASSUME NEW j \in D
                       PROVE  ~(a[j] < s[j])
            OBVIOUS
          <5>1. a[j] = s[j] /\ a[j] \in Route \cup {0}
            BY <3>1, <4>1
          <5>2. a[j] \in Nat
            <6>1. Route \cup {0} \subseteq Nat
              BY ScoringAssumption
            <6> QED BY <5>1, <6>1
          <5> QED BY <5>1, <5>2
        <4> QED BY <3>2, <4>2 DEF Earlier
      <3> QED BY <2>2, <3>3
    <2>5. CASE LiveAt(options, n) = {}
      <3>1. NetOf(own, goals, s) = NetOf(own, goals, a) /\ DoneOf(own, goals, s) = DoneOf(own, goals, a)
        BY <1>2, <1>3, <2>5, Accounts
      <3>2. Borrows(a) \in Nat /\ Borrows(s) \in Nat
        BY <1>2, <2>1, OverRanks
      <3>3. Earlier(a, s) => Better(a, s, MetBy(own, goals, options))
        BY <1>2, <2>1, <2>3, <3>1, <3>2, BetterByNet
      <3>4. ~Better(a, s, MetBy(own, goals, options))
        BY <1>2, NoneIsBetter
      <3> QED BY <2>2, <3>3, <3>4
    <2>6. CASE NetAt(n) + Gain(LiveAt(options, n)) < h.floor
      <3> DEFINE w == Gain(Met(With(own, s), LiveAt(options, n)))
                 g == Gain(LiveAt(options, n))
      <3>1. NetOf(own, goals, s) = NetAt(n) + w /\ w <= g
        BY <1>3, Accounts
      <3>2. h.floor <= NetOf(own, goals, s) /\ h.floor \in Int
        BY <1>1 DEF Recorded, Best
      <3>3. NetAt(n) \in Int /\ w \in Nat /\ g \in Nat
        <4>1. NetAt(n) \in Int
          BY <1>2, OverRanks
        <4>2. IsFiniteSet(D) /\ (\A j \in D : j \in Nat) /\ options \in [D -> SUBSET Route] /\ n \in Node(D)
          BY SuitsIs DEF IsNode
        <4>3. LiveAt(options, n) \in SUBSET Ticket
          BY <4>2, LiveIs
        <4>4. Met(With(own, s), LiveAt(options, n)) \in SUBSET Ticket
          BY <4>3, MetIsPart
        <4> QED BY <4>1, <4>3, <4>4, GainIs
      <3> HIDE DEF w, g, h
      <3> QED BY <2>6, <3>1, <3>2, <3>3 DEF g
    <2> QED BY <2>4, <2>5, <2>6
  <1> QED BY <1>1, <1>2, <1>3 DEF Found

(* A branch: with option r at the first station that has not chosen. *)
LEMMA BranchIs ==
  ASSUME NEW own, NEW goals, NEW options, Suits(own, goals, options),
         NEW n, IsNode(own, goals, options, n), n.left # {}, NEW r \in options[Min(n.left)]
  PROVE  LET m == ChildOf(options, n, n.joined \cup {r}, [n.assign EXCEPT ![Min(n.left)] = r])
         IN  /\ IsNode(own, goals, options, m)
             /\ Completions(options, m) = {c \in Completions(options, n) : c[Min(n.left)] = r}
             /\ Cardinality(m.left) \in Nat /\ Cardinality(m.left) < Cardinality(n.left)
PROOF
  <1> DEFINE a == [n.assign EXCEPT ![Min(n.left)] = r]
  <1>1. r # 0
    <2>1. n \in Node(DOMAIN options)
      BY DEF IsNode
    <2>2. IsFiniteSet(DOMAIN options) /\ (\A i \in DOMAIN options : i \in Nat)
          /\ options \in [DOMAIN options -> SUBSET Route]
      BY SuitsIs
    <2>3. Min(n.left) \in DOMAIN options
      BY <2>1, <2>2, NodeIs
    <2>4. r \in Route
      BY <2>2, <2>3
    <2> QED BY <2>4, ScoringAssumption
  <1> DEFINE m == ChildOf(options, n, With(own, a), a)
  <1>2. r \in options[Min(n.left)] \cup {0} /\ a = [n.assign EXCEPT ![Min(n.left)] = r]
    OBVIOUS
  <1> HIDE DEF a
  <1>3. /\ IsNode(own, goals, options, m)
        /\ Completions(options, m) = {c \in Completions(options, n) : c[Min(n.left)] = r}
        /\ Cardinality(m.left) \in Nat /\ Cardinality(m.left) < Cardinality(n.left)
    BY <1>2, ChildIs
  <1>4. With(own, a) = n.joined \cup {r}
    BY <1>1, <1>2, ChildIs
  <1> QED BY <1>3, <1>4 DEF a

(* The branch in which it borrows nothing. *)
LEMMA BareBranchIs ==
  ASSUME NEW own, NEW goals, NEW options, Suits(own, goals, options),
         NEW n, IsNode(own, goals, options, n), n.left # {}
  PROVE  LET m == ChildOf(options, n, n.joined, n.assign)
         IN  /\ IsNode(own, goals, options, m)
             /\ Completions(options, m) = {c \in Completions(options, n) : c[Min(n.left)] = 0}
             /\ Cardinality(m.left) \in Nat /\ Cardinality(m.left) < Cardinality(n.left)
PROOF
  <1> DEFINE a == [n.assign EXCEPT ![Min(n.left)] = 0]
             m == ChildOf(options, n, With(own, a), a)
  <1>1. 0 \in options[Min(n.left)] \cup {0} /\ a = [n.assign EXCEPT ![Min(n.left)] = 0]
    OBVIOUS
  <1> HIDE DEF a
  <1>2. /\ IsNode(own, goals, options, m)
        /\ Completions(options, m) = {c \in Completions(options, n) : c[Min(n.left)] = 0}
        /\ Cardinality(m.left) \in Nat /\ Cardinality(m.left) < Cardinality(n.left)
        /\ With(own, a) = n.joined
        /\ a = n.assign
    BY <1>1, ChildIs
  <1> QED BY <1>2

(* F finds what it should at every node that is smaller than n. *)
Solves(F, own, goals, options, s, n) ==
  \A m \in Node(DOMAIN options), c \in Best(DOMAIN options) :
    (/\ IsNode(own, goals, options, m) /\ Cardinality(m.left) < Cardinality(n.left)
     /\ Ready(own, goals, options, s, m, c))
      => Found(own, goals, options, s, m, c, F[<<c, m>>])

LEMMA SolvesIt ==
  ASSUME NEW F, NEW own, NEW goals, NEW options, NEW s, NEW n, Solves(F, own, goals, options, s, n),
         NEW m, IsNode(own, goals, options, m), Cardinality(m.left) < Cardinality(n.left),
         NEW c, Ready(own, goals, options, s, m, c)
  PROVE  Found(own, goals, options, s, m, c, F[<<c, m>>])
BY DEF Solves, IsNode, Ready

(* Of two assignments a node leads to, the one with the smaller choice at its station is earlier. *)
LEMMA EarlierByOne ==
  ASSUME NEW own, NEW goals, NEW options, Suits(own, goals, options),
         NEW n, IsNode(own, goals, options, n), n.left # {},
         NEW c \in Completions(options, n), NEW d \in Completions(options, n), c[Min(n.left)] < d[Min(n.left)]
  PROVE  Earlier(c, d)
PROOF
  <1> DEFINE D == DOMAIN options
             i == Min(n.left)
  <1>1. IsFiniteSet(D) /\ (\A j \in D : j \in Nat) /\ n \in Node(D)
    BY SuitsIs DEF IsNode
  <1>2. i \in D /\ i \in Nat /\ \A j \in n.left : i <= j
    BY <1>1, NodeIs
  <1>3. DOMAIN c = D /\ \A j \in D : j \notin n.left => c[j] = d[j]
    BY DEF Completions, Over
  <1> HIDE DEF D, i
  <1>4. \A j \in D : j < i => c[j] = d[j]
    <2> SUFFICES ASSUME NEW j \in D, j < i
                 PROVE  j \notin n.left
      BY <1>3
    <2> QED BY <1>1, <1>2
  <1>5. c[i] < d[i]
    BY DEF i
  <1> QED BY <1>2, <1>3, <1>4, <1>5 DEF Earlier

(* Trying an option finds the best assignment if it takes that option. *)
LEMMA TryFinds ==
  ASSUME NEW own, NEW goals, NEW options, Suits(own, goals, options),
         NEW s, IsBest(own, goals, options, s),
         NEW n, IsNode(own, goals, options, n), n.left # {}, NEW r \in options[Min(n.left)],
         NEW F, Solves(F, own, goals, options, s, n),
         NEW v, Recorded(own, goals, options, s, v),
         \A c \in Completions(options, n) : c[Min(n.left)] = r => c = v.assign \/ Earlier(v.assign, c)
  PROVE  LET w == TryOf(F, options, n, r, v)
         IN  /\ Recorded(own, goals, options, s, w)
             /\ w.assign = v.assign \/ (w.assign \in Completions(options, n) /\ w.assign[Min(n.left)] = r)
             /\ v.assign = s => w.assign = s
             /\ s \in Completions(options, n) /\ s[Min(n.left)] = r => w.assign = s
PROOF
  <1> DEFINE w == TryOf(F, options, n, r, v)
             i == Min(n.left)
  <1>1. CASE Same(n.joined, Ends[r][1], Ends[r][2])
    <2>1. w = v
      BY <1>1 DEF TryOf
    <2>2. ASSUME s \in Completions(options, n), s[i] = r
          PROVE  FALSE
      <3>1. IsFiniteSet(DOMAIN options) /\ (\A j \in DOMAIN options : j \in Nat)
            /\ options \in [DOMAIN options -> SUBSET Route] /\ n \in Node(DOMAIN options)
        BY SuitsIs DEF IsNode
      <3>2. i \in n.left /\ i \in DOMAIN options
        BY <3>1, NodeIs
      <3>3. r \in Route
        BY <3>1, <3>2
      <3>4. \E z \in Over(options) : Better(z, s, MetBy(own, goals, options))
        BY <1>1, <2>2, <3>2, <3>3, IdleTrack
      <3> QED BY <3>4, NoneIsBetter
    <2> QED BY <2>1, <2>2
  <1>2. CASE ~Same(n.joined, Ends[r][1], Ends[r][2])
    <2> DEFINE m == ChildOf(options, n, n.joined \cup {r}, [n.assign EXCEPT ![Min(n.left)] = r])
    <2>1. /\ IsNode(own, goals, options, m)
          /\ Completions(options, m) = {c \in Completions(options, n) : c[Min(n.left)] = r}
          /\ Cardinality(m.left) < Cardinality(n.left)
      <3> HIDE DEF i, w
      <3> DEFINE k == options[Min(n.left)]
      <3>1. LET q == ChildOf(options, n, n.joined \cup {r}, [n.assign EXCEPT ![Min(n.left)] = r])
            IN  /\ IsNode(own, goals, options, q)
                /\ Completions(options, q) = {c \in Completions(options, n) : c[Min(n.left)] = r}
                /\ Cardinality(q.left) \in Nat /\ Cardinality(q.left) < Cardinality(n.left)
        <4> HIDE DEF m
        <4> QED BY BranchIs, Zenon
      <3> QED BY <3>1
    <2>2. w = F[<<v, m>>]
      BY <1>2 DEF TryOf
    <2> HIDE DEF m, i, w
    <2>3. \A c \in Completions(options, m) : c = v.assign \/ Earlier(v.assign, c)
      BY <2>1 DEF i
    <2>4. Ready(own, goals, options, s, m, v)
      BY <2>3 DEF Ready, Recorded
    <2>5. Found(own, goals, options, s, m, v, w)
      BY <2>1, <2>2, <2>4, SolvesIt
    <2> QED BY <2>1, <2>5 DEF Found, i, w
  <1> QED BY <1>1, <1>2

(* After the branches of the options in t. *)
Passed(own, goals, options, s, n, h, t, v) ==
  /\ Recorded(own, goals, options, s, v)
  /\ \/ v.assign = h.assign
     \/ v.assign \in Completions(options, n) /\ v.assign[Min(n.left)] \in t \cup {0}
  /\ h.assign = s => v.assign = s
  /\ s \in Completions(options, n) /\ s[Min(n.left)] \in t \cup {0} => v.assign = s

(* And trying all of them finds it if the node leads to it. *)
LEMMA BranchedFinds ==
  ASSUME NEW own, NEW goals, NEW options, Suits(own, goals, options),
         NEW s, IsBest(own, goals, options, s),
         NEW n, IsNode(own, goals, options, n), n.left # {},
         NEW b, Ready(own, goals, options, s, n, b),
         NEW F, Solves(F, own, goals, options, s, n), Answers(F, DOMAIN options, n)
  PROVE  Found(own, goals, options, s, n, b,
               Branched(F, options, n, F[<<Here(b, n), ChildOf(options, n, n.joined, n.assign)>>],
                        options[Min(n.left)]))
PROOF
  <1> DEFINE D == DOMAIN options
             V == Best(D)
             i == Min(n.left)
             S == options[i]
             h == Here(b, n)
             m == ChildOf(options, n, n.joined, n.assign)
             start == F[<<h, m>>]
             op == [q \in S \X V |-> TryOf(F, options, n, q[1], q[2])]
             I == {q \in (SUBSET S) \X V : Passed(own, goals, options, s, n, h, q[1], q[2])}
             done == Branched(F, options, n, start, S)
  <1>1. IsFiniteSet(D) /\ (\A j \in D : j \in Nat) /\ options \in [D -> SUBSET Route] /\ n \in Node(D)
    BY SuitsIs DEF IsNode
  <1>2. i \in n.left /\ i \in D
    BY <1>1, NodeIs
  <1>3. S \in SUBSET Route /\ IsFiniteSet(S) /\ PicksOne(Largest(S), S) /\ 0 \notin S
        /\ \A t \in SUBSET S : t # {} => Largest(S)[t] = Max(t) /\ Max(t) \in t /\ \A x \in t : x <= Max(t)
    <2>1. S \in SUBSET Route /\ S \in SUBSET Nat /\ IsFiniteSet(S) /\ 0 \notin S
      <3>1. S \in SUBSET Route
        BY <1>1, <1>2
      <3> QED BY <3>1, ScoringAssumption, FS_Subset
    <2> QED BY <2>1, LargestPicks
  <1>4. /\ Recorded(own, goals, options, s, h)
        /\ h.assign = b.assign \/ h.assign \in Completions(options, n)
        /\ Recorded(own, goals, options, s, b) /\ b.assign = s => h.assign = s
        /\ \A c \in Completions(options, n) : c = h.assign \/ Earlier(h.assign, c)
    <2>1. n.assign \in Completions(options, n)
      BY NodeItself
    <2> QED BY <2>1, HereIs, FromHere
  <1>5. /\ IsNode(own, goals, options, m)
        /\ Completions(options, m) = {c \in Completions(options, n) : c[i] = 0}
        /\ Cardinality(m.left) < Cardinality(n.left)
    BY BareBranchIs
  <1> HIDE DEF h, m
  <1>6. Ready(own, goals, options, s, m, h)
    BY <1>4, <1>5 DEF Ready, Recorded
  <1>7. Found(own, goals, options, s, m, h, start)
    BY <1>5, <1>6, SolvesIt
  <1>8. Passed(own, goals, options, s, n, h, {}, start)
    BY <1>4, <1>5, <1>7 DEF Found, Passed
  <1>9. start \in V /\ \A r \in S, v \in V : TryOf(F, options, n, r, v) \in V
    <2>1. start \in V
      BY <1>7 DEF Found, Recorded
    <2> QED BY <1>1, <2>1, TryIs
  <1>10. IsStepOn(op, S, V) /\ TriesBy(F, options, n, S, V, op)
    BY <1>9 DEF IsStepOn, TriesBy
  <1>11. \A r \in S, v \in V : op[<<r, v>>] = TryOf(F, options, n, r, v)
    OBVIOUS
  <1>12. \A t, v : <<t, v>> \in I <=>
           t \in SUBSET S /\ v \in V /\ Passed(own, goals, options, s, n, h, t, v)
    OBVIOUS
  <1> HIDE DEF V, S, start, op, I, i, D
  <1>13. <<{}, start>> \in I
    BY <1>8, <1>9, <1>12
  <1>14. KeptIn(Largest(S), I, op, S, V)
    <2> SUFFICES ASSUME NEW t \in SUBSET S, NEW v \in V, t # {}, <<t \ {Largest(S)[t]}, v>> \in I
                 PROVE  <<t, op[<<Largest(S)[t], v>>]>> \in I
      BY DEF KeptIn
    <2> DEFINE r == Max(t)
               w == TryOf(F, options, n, r, v)
    <2>1. Largest(S)[t] = r /\ r \in t /\ r \in S /\ \A x \in t : x <= r
      BY <1>3
    <2>2. Passed(own, goals, options, s, n, h, t \ {r}, v)
      BY <1>12, <2>1
    <2>3. op[<<Largest(S)[t], v>>] = w /\ w \in V
      BY <1>9, <1>11, <2>1
    <2> HIDE DEF r, w
    <2>4. ASSUME NEW c \in Completions(options, n), c[i] = r
          PROVE  c = v.assign \/ Earlier(v.assign, c)
      <3>1. CASE v.assign = h.assign
        BY <1>4, <3>1
      <3>2. CASE v.assign \in Completions(options, n) /\ v.assign[i] \in (t \ {r}) \cup {0}
        <4>1. v.assign[i] < c[i]
          <5>1. S \subseteq Nat /\ r # 0
            BY <1>3, <2>1, ScoringAssumption
          <5>2. v.assign[i] \in Nat /\ r \in Nat /\ v.assign[i] <= r /\ v.assign[i] # r
            BY <2>1, <3>2, <5>1
          <5> QED BY <2>4, <5>2
        <4> QED BY <3>2, <4>1, EarlierByOne DEF i
      <3> QED BY <2>2, <3>1, <3>2 DEF Passed, i
    <2>5. /\ Recorded(own, goals, options, s, w)
          /\ w.assign = v.assign \/ (w.assign \in Completions(options, n) /\ w.assign[i] = r)
          /\ v.assign = s => w.assign = s
          /\ s \in Completions(options, n) /\ s[i] = r => w.assign = s
      <3>1. Recorded(own, goals, options, s, v)
        BY <2>2 DEF Passed
      <3>2. r \in options[Min(n.left)]
        BY <2>1 DEF S, i
      <3>3. \A c \in Completions(options, n) : c[Min(n.left)] = r => c = v.assign \/ Earlier(v.assign, c)
        BY <2>4 DEF i
      <3> QED BY <3>1, <3>2, <3>3, TryFinds DEF w, i
    <2>6. Passed(own, goals, options, s, n, h, t, w)
      BY <2>1, <2>2, <2>5 DEF Passed, i
    <2> QED BY <1>12, <2>3, <2>6
  <1>15. PICK g : FoldsIn(Largest(S), op, start, S, g) /\ g[S] = done
    BY <1>3, <1>9, <1>10, BranchedIs
  <1>16. \A t \in SUBSET S : g[t] \in V /\ <<t, g[t]>> \in I
    BY <1>3, <1>9, <1>10, <1>13, <1>14, <1>15, FoldInKeeps
  <1>17. Passed(own, goals, options, s, n, h, S, done)
    <2>1. <<S, done>> \in I
      BY <1>15, <1>16
    <2> HIDE DEF done
    <2> QED BY <1>12, <2>1
  <1> HIDE DEF done
  <1>18. s \in Completions(options, n) => s[i] \in S \cup {0}
    <2>1. s \in Over(options)
      BY DEF IsBest
    <2> QED BY <1>2, <2>1 DEF Over, S, D
  <1>19. Found(own, goals, options, s, n, b, done)
    BY <1>4, <1>17, <1>18 DEF Passed, Found, i
  <1> QED BY <1>19 DEF done, start, h, m, S, i

(* The equation, applied. *)
LEMMA SoughtByIt ==
  ASSUME NEW options, NEW F, Seeks(F, options), NEW b \in Best(DOMAIN options), NEW n \in Node(DOMAIN options)
  PROVE  F[<<b, n>>] = Sought(F, options, <<b, n>>)
BY DEF Seeks

(* A solution answers at every node: there is none at which it does not with the
   fewest stations left. *)
LEMMA SearchAnswers ==
  ASSUME NEW D, IsFiniteSet(D), \A i \in D : i \in Nat, NEW options \in [D -> SUBSET Route],
         NEW F, Seeks(F, options), NEW n \in Node(D)
  PROVE  Answers(F, D, n)
PROOF
  <1> DEFINE Good(m) == \A b \in Best(D) : F[<<b, m>>] \in Best(D)
             Bad == {Cardinality(m.left) : m \in {x \in Node(D) : ~Good(x)}}
  <1>1. DOMAIN options = D
    OBVIOUS
  <1>2. ASSUME Bad # {}
        PROVE  FALSE
    <2> HIDE DEF Good
    <2>1. \A m \in Node(D) : Cardinality(m.left) \in Nat
      BY NodeIs
    <2>2. PICK k \in Bad : \A j \in Bad : k <= j
      <3>1. Bad \in SUBSET Nat
        BY <2>1
      <3> QED BY <1>2, <3>1, LeastNatural
    <2>3. PICK m \in Node(D) : ~Good(m) /\ k = Cardinality(m.left)
      BY <2>2
    <2>4. ASSUME NEW x \in Node(D), Cardinality(x.left) < Cardinality(m.left)
          PROVE  Good(x)
      <3>1. Cardinality(x.left) \notin Bad
        <4> HIDE DEF Bad
        <4>1. Cardinality(x.left) \in Nat /\ Cardinality(m.left) \in Nat
          BY <2>1
        <4> QED BY <2>2, <2>3, <2>4, <4>1
      <3> QED BY <3>1
    <2>5. Answers(F, D, m)
      BY <2>4 DEF Answers, Good
    <2>6. ASSUME NEW b \in Best(D)
          PROVE  F[<<b, m>>] \in Best(D)
      <3>1. Sought(F, options, <<b, m>>) \in Best(D)
        BY <2>5, SoughtIs
      <3> QED BY <1>1, <3>1, SoughtByIt
    <2> QED BY <2>3, <2>6 DEF Good
  <1>3. \A m \in Node(D) : Good(m)
    <2> HIDE DEF Good
    <2> QED BY <1>2
  <1> QED BY <1>3 DEF Answers

(* And it finds the best assignment wherever it is ready to, by the same argument. *)
LEMMA SearchFinds ==
  ASSUME NEW own, NEW goals, NEW options, Suits(own, goals, options),
         NEW s, IsBest(own, goals, options, s), NEW F, Seeks(F, options),
         NEW n, IsNode(own, goals, options, n), NEW b, Ready(own, goals, options, s, n, b)
  PROVE  Found(own, goals, options, s, n, b, F[<<b, n>>])
PROOF
  <1> DEFINE D == DOMAIN options
             Good(m) == IsNode(own, goals, options, m) =>
                          \A c \in Best(D) : Ready(own, goals, options, s, m, c) =>
                                               Found(own, goals, options, s, m, c, F[<<c, m>>])
             Bad == {Cardinality(m.left) : m \in {x \in Node(D) : ~Good(x)}}
  <1>1. IsFiniteSet(D) /\ (\A i \in D : i \in Nat) /\ options \in [D -> SUBSET Route]
    BY SuitsIs
  <1>2. ASSUME Bad # {}
        PROVE  FALSE
    <2> HIDE DEF Good
    <2>1. \A m \in Node(D) : Cardinality(m.left) \in Nat
      BY <1>1, NodeIs
    <2>2. PICK k \in Bad : \A j \in Bad : k <= j
      <3>1. Bad \in SUBSET Nat
        BY <2>1
      <3> QED BY <1>2, <3>1, LeastNatural
    <2>3. PICK m \in Node(D) : ~Good(m) /\ k = Cardinality(m.left)
      BY <2>2
    <2>4. ASSUME NEW x \in Node(D), Cardinality(x.left) < Cardinality(m.left)
          PROVE  Good(x)
      <3>1. Cardinality(x.left) \notin Bad
        <4> HIDE DEF Bad
        <4>1. Cardinality(x.left) \in Nat /\ Cardinality(m.left) \in Nat
          BY <2>1
        <4> QED BY <2>2, <2>3, <2>4, <4>1
      <3> QED BY <3>1
    <2>5. Solves(F, own, goals, options, s, m)
      BY <2>4 DEF Solves, Good
    <2>6. Answers(F, D, m)
      BY <1>1, SearchAnswers
    <2>7. ASSUME IsNode(own, goals, options, m), NEW c \in Best(D), Ready(own, goals, options, s, m, c)
          PROVE  Found(own, goals, options, s, m, c, F[<<c, m>>])
      <3>1. F[<<c, m>>] = Sought(F, options, <<c, m>>)
        BY SoughtByIt
      <3> DEFINE here == Here(c, m)
                 live == LiveAt(options, m)
      <3>2. CASE \/ m.left = {} \/ live = {} \/ NetAt(m) + Gain(live) < here.floor
        <4>1. Found(own, goals, options, s, m, c, here)
          BY <2>7, <3>2, StopsInTime
        <4>2. m.pending \ MetAt(m) = {} => live = {}
          BY <1>1, LiveIs
        <4>3. Sought(F, options, <<c, m>>) = here
          BY <3>2 DEF Sought, CannotReach
        <4> QED BY <3>1, <4>1, <4>3
      <3>3. CASE ~(\/ m.left = {} \/ live = {} \/ NetAt(m) + Gain(live) < here.floor)
        <4>1. m.pending \ MetAt(m) # {}
          BY <1>1, <3>3, LiveIs
        <4> DEFINE after == Branched(F, options, m, F[<<here, ChildOf(options, m, m.joined, m.assign)>>],
                                     options[Min(m.left)])
        <4>2. Sought(F, options, <<c, m>>) = after
          BY <3>3, <4>1 DEF Sought, CannotReach
        <4>3. Found(own, goals, options, s, m, c, after)
          BY <2>5, <2>6, <2>7, <3>3, BranchedFinds
        <4> HIDE DEF after
        <4> QED BY <3>1, <4>2, <4>3
      <3> QED BY <3>2, <3>3
    <2> QED BY <2>3, <2>7 DEF Good
  <1>3. n \in Node(D) /\ b \in Best(D)
    BY DEF IsNode, Ready
  <1>4. Good(n)
    <2> HIDE DEF Good
    <2> QED BY <1>2, <1>3
  <1> QED BY <1>3, <1>4

(* From the root it leads to all assignments. *)
LEMMA EvaluateFinds ==
  ASSUME NEW own, NEW goals, NEW options, Suits(own, goals, options),
         NEW s, IsBest(own, goals, options, s),
         Greedy(own, goals, options) \in Int, Greedy(own, goals, options) <= NetOf(own, goals, s)
  PROVE  Evaluate(own, goals, options).assign = s
PROOF
  <1> DEFINE D == DOMAIN options
             none == [i \in D |-> 0]
             active == {i \in D : options[i] # {}}
             least == NothingMet(goals)
             floor == Greedy(own, goals, options)
             first == [net |-> least - 1, done |-> -1, assign |-> none, floor |-> floor]
             root == [left |-> active, joined |-> own, net |-> least, done |-> 0, pending |-> goals, assign |-> none]
             F == CHOOSE f : Seeks(f, options)
  <1>1. /\ IsFiniteSet(D) /\ (\A i \in D : i \in Nat) /\ options \in [D -> SUBSET Route]
        /\ own \in SUBSET Route /\ goals \in SUBSET Ticket
    BY SuitsIs
  <1>2. Evaluate(own, goals, options) = F[<<first, root>>]
    <2>1. Evaluate(own, goals, options) = Search(options, first, root)
      BY DEF Evaluate
    <2> HIDE DEF first, root
    <2> QED BY <2>1, SearchIs
  <1>3. Seeks(F, options)
    BY <1>1, SeeksExists
  <1>4. none \in Over(options) /\ least \in Int
    <2>1. none \in Over(options)
      BY <1>1, OverIs
    <2> QED BY <2>1, OverRanks
  <1>5. With(own, none) = own
    BY DEF With, Taken
  <1>6. Completions(options, root) = Over(options)
    <2> SUFFICES ASSUME NEW c \in Over(options), NEW j \in D, j \notin active
                 PROVE  c[j] = 0
      BY DEF Completions
    <2> QED BY DEF Over
  <1>7. IsNode(own, goals, options, root)
    <2>1. root \in Node(D)
      BY <1>1, <1>4 DEF Node
    <2>2. ASSUME NEW c \in Over(options)
          PROVE  /\ NetOf(own, goals, c) = root.net + Gain(Met(With(own, c), root.pending))
                 /\ DoneOf(own, goals, c) = root.done + Cardinality(Met(With(own, c), root.pending))
      <3>1. DoneOf(own, goals, c) \in Nat
        BY OverRanks
      <3> QED BY <3>1 DEF NetOf, DoneOf
    <2>3. root.assign \in Over(options) /\ (\A j \in root.left : root.assign[j] = 0)
          /\ root.joined = With(own, root.assign)
      BY <1>4, <1>5
    <2> HIDE DEF root
    <2> QED BY <1>6, <2>1, <2>2, <2>3 DEF IsNode
  <1>8. \A c \in Over(options) : c = none \/ Earlier(none, c)
    <2>1. root.assign = none
      OBVIOUS
    <2> HIDE DEF root, none
    <2> QED BY <1>6, <1>7, <2>1, FirstOfAll
  <1>9. Ready(own, goals, options, s, root, first)
    <2>1. first \in Best(D)
      BY <1>4 DEF Best
    <2>2. first.assign = none /\ first.floor = floor /\ first.net < least
      BY <1>4
    <2> HIDE DEF first, root, none
    <2> QED BY <1>4, <1>6, <1>8, <2>1, <2>2 DEF Ready
  <1> HIDE DEF first, root, F
  <1>10. Found(own, goals, options, s, root, first, F[<<first, root>>])
    BY <1>3, <1>7, <1>9, SearchFinds
  <1>11. s \in Over(options)
    BY DEF IsBest
  <1> QED BY <1>2, <1>6, <1>10, <1>11 DEF Found

-----------------------------------------------------------------------------
(* The greedy assignment is one of them: what it scores, the best one scores. *)
Acc == [joined : SUBSET Route, net : Int, pending : SUBSET Ticket]
Begun(own, goals) ==
  [joined |-> own, net |-> NothingMet(goals) + Gain(Met(own, goals)), pending |-> goals \ Met(own, goals)]
GreedyFolds(own, goals, options, h) ==
  h = [t \in SUBSET DOMAIN options |->
         IF t = {} THEN Begun(own, goals) ELSE GreedyStep(h[t \ {Max(t)}], options[Max(t)])]

(* The greedy pass is a fold over the stations. *)
LEMMA GreedyFoldIs ==
  ASSUME NEW own, NEW goals, NEW options
  PROVE  Greedy(own, goals, options) = (CHOOSE h : GreedyFolds(own, goals, options, h))[DOMAIN options].net
BY DEF Greedy, GreedyFolds, Begun, InOrder, MapThenFoldSet

(* So far: the stations in t have chosen as a says. *)
Stands(own, goals, options, t, acc, a) ==
  /\ a \in Over(options) /\ \A j \in DOMAIN options : j \notin t => a[j] = 0
  /\ acc.joined = With(own, a)
  /\ acc.pending = goals \ Met(acc.joined, goals)
  /\ acc.net = NothingMet(goals) + Gain(Met(acc.joined, goals))

(* A step of it takes one option or none. *)
LEMMA GreedyStepIs ==
  ASSUME NEW acc \in Acc, NEW opts \in SUBSET Route
  PROVE  /\ GreedyStep(acc, opts) \in Acc
         /\ \/ GreedyStep(acc, opts) = acc
            \/ \E r \in opts : LET joined == acc.joined \cup {r}
                                   met == Met(joined, acc.pending)
                               IN  GreedyStep(acc, opts) = [joined |-> joined, net |-> acc.net + Gain(met),
                                                            pending |-> acc.pending \ met]
PROOF
  <1> DEFINE gain(r) == Gain(Met(acc.joined \cup {r}, acc.pending))
             most == {r \in opts : gain(r) > 0 /\ \A o \in opts : gain(o) <= gain(r)}
             r == Min(most)
             new == [joined |-> acc.joined \cup {r}, net |-> acc.net + Gain(Met(acc.joined \cup {r}, acc.pending)),
                     pending |-> acc.pending \ Met(acc.joined \cup {r}, acc.pending)]
  <1>1. GreedyStep(acc, opts) = IF most = {} THEN acc ELSE new
    BY DEF GreedyStep
  <1>2. acc.joined \in SUBSET Route /\ acc.net \in Int /\ acc.pending \in SUBSET Ticket
    BY DEF Acc
  <1>3. CASE most = {}
    BY <1>1, <1>3
  <1>4. CASE most # {}
    <2>1. most \in SUBSET opts /\ most \in SUBSET Nat
      <3>1. most \in SUBSET opts
        OBVIOUS
      <3> HIDE DEF most
      <3> QED BY <3>1, ScoringAssumption
    <2>2. r \in opts
      <3> HIDE DEF most
      <3> QED BY <1>4, <2>1, MinIsLeast
    <2> HIDE DEF r, most
    <2>3. Met(acc.joined \cup {r}, acc.pending) \in SUBSET Ticket
      BY <1>2, MetIsPart
    <2>4. Gain(Met(acc.joined \cup {r}, acc.pending)) \in Nat
      BY <2>3, GainIs
    <2>5. new \in Acc
      BY <1>2, <2>2, <2>4 DEF Acc
    <2> QED BY <1>1, <1>4, <2>2, <2>5
  <1> QED BY <1>3, <1>4

(* Either way an assignment stands for what was joined so far. *)
LEMMA StandsOn ==
  ASSUME NEW own, NEW goals, NEW options, Suits(own, goals, options),
         NEW t \in SUBSET DOMAIN options, NEW i \in t, NEW acc \in Acc,
         NEW a, Stands(own, goals, options, t \ {i}, acc, a)
  PROVE  \E b : Stands(own, goals, options, t, GreedyStep(acc, options[i]), b)
PROOF
  <1> DEFINE D == DOMAIN options
             new == GreedyStep(acc, options[i])
  <1>1. own \in SUBSET Route /\ goals \in SUBSET Ticket /\ options \in [D -> SUBSET Route] /\ i \in D
    BY SuitsIs
  <1>2. options[i] \in SUBSET Route
    BY <1>1
  <1>3. a \in Over(options) /\ (\A j \in D : j \notin t \ {i} => a[j] = 0) /\ acc.joined = With(own, a)
        /\ acc.pending = goals \ Met(acc.joined, goals)
        /\ acc.net = NothingMet(goals) + Gain(Met(acc.joined, goals))
    BY DEF Stands
  <1>4. CASE new = acc
    <2>1. Stands(own, goals, options, t, acc, a)
      BY <1>3 DEF Stands
    <2> QED BY <1>4, <2>1
  <1>5. CASE \E r \in options[i] :
               LET joined == acc.joined \cup {r}
                   met == Met(joined, acc.pending)
               IN  new = [joined |-> joined, net |-> acc.net + Gain(met), pending |-> acc.pending \ met]
    <2>1. PICK r \in options[i] :
             new = [joined |-> acc.joined \cup {r}, net |-> acc.net + Gain(Met(acc.joined \cup {r}, acc.pending)),
                    pending |-> acc.pending \ Met(acc.joined \cup {r}, acc.pending)]
      BY <1>5
    <2> DEFINE b == [a EXCEPT ![i] = r]
               old == Met(acc.joined, goals)
               joined == acc.joined \cup {r}
               met == Met(joined, acc.pending)
    <2>2. r \in Route /\ r # 0
      BY <1>2, ScoringAssumption
    <2>3. a \in [D -> Route \cup {0}] /\ \A j \in D : a[j] # 0 => a[j] \in options[j]
      BY <1>3, OverHas
    <2> HIDE DEF D, new
    <2>4. b \in [D -> Route \cup {0}] /\ b[i] = r /\ \A j \in D : j # i => b[j] = a[j]
      BY <1>1, <2>2, <2>3
    <2> HIDE DEF b
    <2>5. b \in Over(options) /\ \A j \in D : j \notin t => b[j] = 0
      <3>1. \A j \in D : b[j] # 0 => b[j] \in options[j]
        BY <2>3, <2>4
      <3>2. b \in Over(options)
        BY <2>4, <3>1, OverHas DEF D
      <3>3. \A j \in D : j \notin t => b[j] = 0
        BY <1>3, <2>4
      <3> QED BY <3>2, <3>3
    <2>6. With(own, b) = joined
      <3>1. DOMAIN a = D /\ DOMAIN b = D
        BY <2>3, <2>4
      <3>2. \A q : q \in Taken(b) <=> q # 0 /\ \E j \in D : b[j] = q
        BY <3>1, TakenHas
      <3>3. \A q : q \in Taken(a) <=> q # 0 /\ \E j \in D : a[j] = q
        BY <3>1, TakenHas
      <3>4. a[i] = 0
        BY <1>1, <1>3
      <3>5. \A q : q \in Taken(b) <=> q \in Taken(a) \/ q = r
        BY <1>1, <2>2, <2>4, <3>2, <3>3, <3>4
      <3> QED BY <1>3, <3>5 DEF With
    <2>7. joined \in SUBSET Route /\ acc.joined \in SUBSET Route /\ acc.pending \in SUBSET Ticket
          /\ acc.net \in Int
      BY <2>2 DEF Acc
    <2>8. Met(joined, goals) = old \cup met /\ old \cap met = {}
      <3>1. old \subseteq Met(joined, goals)
        BY <1>1, <2>7, MetGrows
      <3>2. Met(joined, goals) \subseteq old \cup met
        BY <1>3 DEF Met
      <3>3. met \subseteq Met(joined, goals) /\ met \subseteq acc.pending
        BY <1>3 DEF Met
      <3> QED BY <1>3, <3>1, <3>2, <3>3
    <2>9. old \in SUBSET Ticket /\ met \in SUBSET Ticket
      BY <1>1, <2>7, MetIsPart
    <2>10. new.joined = joined /\ new.net = acc.net + Gain(met) /\ new.pending = acc.pending \ met
      BY <2>1
    <2>11. acc.pending = goals \ old /\ acc.net = NothingMet(goals) + Gain(old)
      BY <1>3
    <2> HIDE DEF old, met, joined
    <2>12. Gain(old \cup met) = Gain(old) + Gain(met) /\ Gain(old) \in Nat /\ Gain(met) \in Nat
           /\ NothingMet(goals) \in Int
      BY <1>1, <2>8, <2>9, GainIs
    <2>13. Stands(own, goals, options, t, new, b)
      <3>1. new.net = NothingMet(goals) + Gain(Met(new.joined, goals))
        BY <2>8, <2>10, <2>11, <2>12
      <3>2. new.pending = goals \ Met(new.joined, goals)
        BY <2>8, <2>10, <2>11
      <3> QED BY <2>5, <2>6, <2>10, <3>1, <3>2 DEF Stands, D
    <2> QED BY <2>13 DEF new
  <1>6. acc.joined \in SUBSET Route
    BY DEF Acc
  <1> QED BY <1>2, <1>4, <1>5, GreedyStepIs

(* So the floor is what some assignment scores, and no more than the best one does. *)
LEMMA GreedyIsOne ==
  ASSUME NEW own, NEW goals, NEW options, Suits(own, goals, options)
  PROVE  \E a \in Over(options) : Greedy(own, goals, options) = NetOf(own, goals, a)
PROOF
  <1> DEFINE D == DOMAIN options
             start == Begun(own, goals)
             ch == Largest(D)
             op == [q \in D \X Acc |-> GreedyStep(q[2], options[q[1]])]
             I == {q \in (SUBSET D) \X Acc : \E a : Stands(own, goals, options, q[1], q[2], a)}
  <1>1. /\ IsFiniteSet(D) /\ (\A i \in D : i \in Nat) /\ options \in [D -> SUBSET Route]
        /\ own \in SUBSET Route /\ goals \in SUBSET Ticket
    BY SuitsIs
  <1>2. PicksOne(ch, D) /\ \A t \in SUBSET D : ch[t] = Max(t)
    <2>1. D \in SUBSET Nat
      BY <1>1
    <2> HIDE DEF D
    <2> QED BY <1>1, <2>1, LargestPicks
  <1>3. start \in Acc
    <2>1. Met(own, goals) \in SUBSET Ticket
      BY <1>1, MetIsPart
    <2>2. Gain(Met(own, goals)) \in Nat /\ NothingMet(goals) \in Int
      BY <1>1, <2>1, GainIs
    <2> QED BY <1>1, <2>2 DEF Begun, Acc
  <1>4. Stands(own, goals, options, {}, start, [i \in D |-> 0])
    <2>1. [i \in D |-> 0] \in Over(options)
      BY <1>1, OverIs
    <2>2. With(own, [i \in D |-> 0]) = own
      BY DEF With, Taken
    <2>3. start.joined = own /\ start.pending = goals \ Met(own, goals)
          /\ start.net = NothingMet(goals) + Gain(Met(own, goals))
      BY DEF Begun
    <2> HIDE DEF start
    <2> QED BY <2>1, <2>2, <2>3 DEF Stands
  <1>5. \A i \in D, acc \in Acc : GreedyStep(acc, options[i]) \in Acc
    BY <1>1, GreedyStepIs
  <1>6. op \in [D \X Acc -> Acc] /\ \A i \in D, acc \in Acc : op[<<i, acc>>] = GreedyStep(acc, options[i])
    BY <1>5
  <1>7. \A t, acc : <<t, acc>> \in I <=>
          t \in SUBSET D /\ acc \in Acc /\ \E a : Stands(own, goals, options, t, acc, a)
    OBVIOUS
  <1> HIDE DEF start, ch, op, I, D
  <1>8. <<{}, start>> \in I
    BY <1>3, <1>4, <1>7
  <1>9. KeptIn(ch, I, op, D, Acc)
    <2> SUFFICES ASSUME NEW t \in SUBSET D, NEW acc \in Acc, t # {}, <<t \ {ch[t]}, acc>> \in I
                 PROVE  <<t, op[<<ch[t], acc>>]>> \in I
      BY DEF KeptIn
    <2> DEFINE i == ch[t]
    <2>1. i \in t /\ i \in D
      BY <1>2 DEF PicksOne
    <2>2. PICK a : Stands(own, goals, options, t \ {i}, acc, a)
      BY <1>7
    <2> HIDE DEF i
    <2>3. \E b : Stands(own, goals, options, t, GreedyStep(acc, options[i]), b)
      BY <2>1, <2>2, StandsOn DEF D
    <2>4. op[<<i, acc>>] = GreedyStep(acc, options[i]) /\ op[<<i, acc>>] \in Acc
      BY <1>5, <1>6, <2>1
    <2> QED BY <1>7, <2>3, <2>4 DEF i
  <1>10. ASSUME NEW h
         PROVE  GreedyFolds(own, goals, options, h) <=> FoldsIn(ch, op, start, D, h)
    <2> DEFINE k == [t \in SUBSET D |-> GreedyStep(h[t \ {Max(t)}], options[Max(t)])]
    <2>1. StepsIn(ch, k, op, D, Acc, h)
      <3> SUFFICES ASSUME NEW t \in SUBSET D, t # {}, h[t \ {ch[t]}] \in Acc
                   PROVE  k[t] = op[<<ch[t], h[t \ {ch[t]}]>>]
        BY DEF StepsIn
      <3>1. ch[t] = Max(t) /\ ch[t] \in D
        BY <1>2 DEF PicksOne
      <3>2. k[t] = GreedyStep(h[t \ {ch[t]}], options[ch[t]])
        BY <3>1
      <3> HIDE DEF k
      <3> QED BY <1>6, <3>1, <3>2
    <2>2. GreedyFolds(own, goals, options, h) <=> IsFoldBy(k, start, D, h)
      <3> DEFINE f == [t \in SUBSET D |-> IF t = {} THEN start ELSE GreedyStep(h[t \ {Max(t)}], options[Max(t)])]
                 g == [t \in SUBSET D |-> IF t = {} THEN start ELSE k[t]]
      <3>1. f = g
        OBVIOUS
      <3> QED BY <3>1 DEF GreedyFolds, IsFoldBy, start, D
    <2> HIDE DEF k
    <2> QED BY <1>1, <1>2, <1>3, <1>6, <2>1, <2>2, SameFoldIn
  <1>11. \E h : FoldsIn(ch, op, start, D, h)
    BY <1>1, <1>2, <1>3, <1>6, FoldInExists
  <1>12. PICK h : FoldsIn(ch, op, start, D, h) /\ Greedy(own, goals, options) = h[D].net
    <2> DEFINE h == CHOOSE x : GreedyFolds(own, goals, options, x)
    <2>1. GreedyFolds(own, goals, options, h)
      BY <1>10, <1>11
    <2>2. Greedy(own, goals, options) = h[D].net
      BY GreedyFoldIs DEF D
    <2> HIDE DEF h
    <2> QED BY <1>10, <2>1, <2>2
  <1>13. \A t \in SUBSET D : h[t] \in Acc /\ <<t, h[t]>> \in I
    BY <1>1, <1>2, <1>3, <1>6, <1>8, <1>9, <1>12, FoldInKeeps DEF IsStepOn
  <1>14. PICK a : Stands(own, goals, options, D, h[D], a)
    BY <1>7, <1>13
  <1> QED BY <1>12, <1>14 DEF Stands, NetOf

(* What is returned is the best assignment of the options. *)
LEMMA EvaluateIsBest ==
  ASSUME NEW own, NEW goals, NEW options, Suits(own, goals, options)
  PROVE  IsBest(own, goals, options, Evaluate(own, goals, options).assign)
PROOF
  <1>1. PICK s : IsBest(own, goals, options, s)
    BY BestExists
  <1>2. PICK a \in Over(options) : Greedy(own, goals, options) = NetOf(own, goals, a)
    BY GreedyIsOne
  <1>3. NetOf(own, goals, a) \in Int /\ NetOf(own, goals, a) <= NetOf(own, goals, s)
    BY <1>1, NoneIsBetter, OverRanks
  <1> QED BY <1>1, <1>2, <1>3, EvaluateFinds

-----------------------------------------------------------------------------
(* A track between two components is as good as another between the same. *)
LEMMA PairIs ==
  ASSUME NEW e \in SUBSET Route, NEW r \in Route, Cardinality(Pair(e, r)) # 2
  PROVE  Same(e, Ends[r][1], Ends[r][2])
PROOF
  <1> DEFINE x == Class[e][Ends[r][1]]
             y == Class[e][Ends[r][2]]
  <1>1. Pair(e, r) = {x} \cup {y}
    BY DEF Pair
  <1>2. ASSUME x # y
        PROVE  FALSE
    <2> HIDE DEF x, y
    <2>1. IsFiniteSet({x}) /\ Cardinality({x}) = 1 /\ y \notin {x}
      BY <1>2, FS_Singleton
    <2>2. Cardinality({x} \cup {y}) = 2
      BY <2>1, FS_AddElement
    <2> QED BY <1>1, <2>2
  <1> QED BY <1>2 DEF Same

(* Where one track of a pair is joined, the other joins nothing. *)
LEMMA PairReplaces ==
  ASSUME NEW own \in SUBSET Route, NEW e \in SUBSET Route, own \subseteq e,
         NEW o \in e, NEW r \in Route, Pair(own, o) = Pair(own, r)
  PROVE  Same(e, Ends[r][1], Ends[r][2])
PROOF
  <1>1. Ends[o][1] \in City /\ Ends[o][2] \in City /\ Ends[r][1] \in City /\ Ends[r][2] \in City
    BY EndsAreCities
  <1>2. Same(e, Ends[o][1], Ends[o][2])
    BY ClassIsFinest DEF Keeps, Same
  <1>3. \/ Same(own, Ends[r][1], Ends[o][1]) /\ Same(own, Ends[r][2], Ends[o][2])
        \/ Same(own, Ends[r][1], Ends[o][2]) /\ Same(own, Ends[r][2], Ends[o][1])
        \/ Same(own, Ends[r][1], Ends[r][2])
    BY DEF Pair, Same
  <1>4. \A c, d \in City : Same(own, c, d) => Same(e, c, d)
    BY SameGrows
  <1>5. \/ Same(e, Ends[r][1], Ends[o][1]) /\ Same(e, Ends[r][2], Ends[o][2])
        \/ Same(e, Ends[r][1], Ends[o][2]) /\ Same(e, Ends[r][2], Ends[o][1])
        \/ Same(e, Ends[r][1], Ends[r][2])
    BY <1>1, <1>3, <1>4
  <1> QED BY <1>2, <1>5 DEF Same

OptionsOf(p) == [i \in Built(p) |-> Options(p, i)]

(* The search is called with what it suits. *)
LEMMA OptionsSuit ==
  ASSUME TypeOK, NEW p \in Player
  PROVE  Suits(Track(p), Goals(p), OptionsOf(p)) /\ DOMAIN OptionsOf(p) = Built(p)
PROOF
  <1>1. Goals(p) \in SUBSET Ticket
    <2>1. Side(p) \in SUBSET Player
      BY SidesArePlayers
    <2> QED BY <2>1 DEF TypeOK, Goals
  <1>2. IsFiniteSet(Built(p)) /\ \A i \in Built(p) : i \in Nat
    <2>1. DOMAIN stations = 1 .. Len(stations) /\ Len(stations) \in Nat
      BY DEF TypeOK
    <2>2. Built(p) \in SUBSET (1 .. Len(stations))
      BY <2>1 DEF Built
    <2>3. IsFiniteSet(1 .. Len(stations))
      BY <2>1, FS_Interval
    <2> QED BY <2>1, <2>2, <2>3, FS_Subset
  <1>3. \A i \in Built(p) : Options(p, i) \in SUBSET Route
    BY DEF Options, Candidates
  <1>4. DOMAIN OptionsOf(p) = Built(p) /\ OptionsOf(p) \in [Built(p) -> SUBSET Route]
    BY <1>3 DEF OptionsOf
  <1>5. Track(p) \in SUBSET Route
    BY NetworkIsTrack
  <1> QED BY <1>1, <1>2, <1>4, <1>5 DEF Suits

(* Whatever is borrowed, the options can do as well with no more and no later tracks. *)
LEMMA OptionsDo ==
  ASSUME TypeOK, NEW p \in Player, NEW a \in Assignments(p)
  PROVE  \E b \in Over(OptionsOf(p)) :
           /\ Met(With(Track(p), b), Goals(p)) = Met(With(Track(p), a), Goals(p))
           /\ Borrows(b) <= Borrows(a) /\ (b = a \/ Earlier(b, a))
PROOF
  <1> DEFINE D == Built(p)
             own == Track(p)
             C(i) == Candidates(p, stations[i][2])
             Like(r, i) == {o \in C(i) : Pair(own, o) = Pair(own, r)}
             Idle(i) == a[i] = 0 \/ Cardinality(Pair(own, a[i])) # 2
             b == [i \in D |-> IF Idle(i) THEN 0 ELSE Min(Like(a[i], i))]
             O == OptionsOf(p)
  <1>1. IsFiniteSet(D) /\ (\A i \in D : i \in Nat) /\ own \in SUBSET Route /\ Goals(p) \in SUBSET Ticket
        /\ DOMAIN O = D
    BY OptionsSuit, SuitsIs
  <1>2. a \in [D -> Route \cup {0}] /\ \A i \in D : a[i] # 0 => a[i] \in C(i)
    BY DEF Assignments
  <1>3. \A i : C(i) \in SUBSET Route
    BY DEF Candidates
  <1>4. ASSUME NEW i \in D, ~Idle(i)
        PROVE  /\ b[i] \in Route /\ b[i] \in Options(p, i) /\ Pair(own, b[i]) = Pair(own, a[i])
               /\ b[i] # 0 /\ b[i] <= a[i] /\ a[i] # 0 /\ a[i] \in Route
    <2> DEFINE T == Like(a[i], i)
    <2>1. a[i] # 0 /\ Cardinality(Pair(own, a[i])) = 2 /\ a[i] \in T
      BY <1>2, <1>4
    <2>2. T \in SUBSET Route /\ T \in SUBSET Nat
      <3>1. T \in SUBSET Route
        BY <1>3
      <3> HIDE DEF T
      <3> QED BY <3>1, ScoringAssumption
    <2>3. b[i] = Min(T)
      BY <1>4
    <2>4. Min(T) \in T /\ \A o \in T : Min(T) <= o
      <3> HIDE DEF T
      <3> QED BY <2>1, <2>2, MinIsLeast
    <2>5. b[i] \in C(i) /\ Pair(own, b[i]) = Pair(own, a[i]) /\ Cardinality(Pair(own, b[i])) = 2
      BY <2>1, <2>3, <2>4
    <2>6. \A o \in C(i) : o < b[i] => Pair(own, o) # Pair(own, b[i])
      <3> SUFFICES ASSUME NEW o \in C(i), o < b[i], Pair(own, o) = Pair(own, b[i])
                   PROVE  FALSE
        OBVIOUS
      <3>1. o \in T
        BY <2>5
      <3>2. b[i] <= o
        BY <2>3, <2>4, <3>1
      <3>3. o \in Nat /\ b[i] \in Nat
        <4> HIDE DEF T, b
        <4> QED BY <2>2, <2>3, <2>4, <3>1
      <3> HIDE DEF b
      <3> QED BY <3>2, <3>3
    <2>7. b[i] \in Options(p, i)
      BY <2>5, <2>6 DEF Options
    <2>8. b[i] <= a[i]
      BY <2>1, <2>3, <2>4
    <2>9. b[i] \in Route /\ a[i] \in Route
      BY <2>1, <2>2, <2>3, <2>4
    <2>10. b[i] # 0
      <3> HIDE DEF b
      <3> QED BY <2>9, ScoringAssumption
    <2> QED BY <2>1, <2>5, <2>7, <2>8, <2>9, <2>10
  <1>5. \A i \in D : Idle(i) => b[i] = 0
    OBVIOUS
  <1>6. DOMAIN b = D
    OBVIOUS
  <1>7. \A i \in D : Idle(i) => a[i] = 0 \/ Cardinality(Pair(own, a[i])) # 2
    OBVIOUS
  <1>8. b \in [D -> Route \cup {0}]
    <2>1. \A i \in D : b[i] \in Route \cup {0}
      <3> HIDE DEF b, Idle
      <3> QED BY <1>4, <1>5
    <2>2. b = [i \in D |-> b[i]]
      OBVIOUS
    <2> HIDE DEF b
    <2> QED BY <2>1, <2>2
  <1> HIDE DEF b, Idle, D, own
  <1>9. b \in Over(O)
    <2>1. \A i \in D : b[i] # 0 => b[i] \in O[i]
      BY <1>4, <1>5 DEF OptionsOf, D
    <2> HIDE DEF O
    <2> QED BY <1>1, <1>8, <2>1, OverHas
  <1>10. a \in [D -> Nat] /\ b \in [D -> Nat]
    <2>1. Route \cup {0} \subseteq Nat
      BY ScoringAssumption
    <2> QED BY <1>2, <1>8, <2>1
  <1>11. \A i \in D : b[i] <= a[i] /\ (b[i] # 0 => a[i] # 0)
    <2> SUFFICES ASSUME NEW i \in D
                 PROVE  b[i] <= a[i] /\ (b[i] # 0 => a[i] # 0)
      OBVIOUS
    <2>1. a[i] \in Nat /\ b[i] \in Nat
      BY <1>10
    <2> QED BY <1>4, <1>5, <2>1
  <1>12. Borrows(b) <= Borrows(a)
    <2>1. DOMAIN a = D
      BY <1>2
    <2> QED BY <1>1, <1>6, <1>11, <2>1, BorrowsNoMore
  <1>13. b = a \/ Earlier(b, a)
    <2>1. ~Earlier(a, b)
      <3> SUFFICES ASSUME NEW i \in D, a[i] < b[i]
                   PROVE  FALSE
        <4>1. DOMAIN a = D
          BY <1>2
        <4> QED BY <4>1 DEF Earlier
      <3>1. a[i] \in Nat /\ b[i] \in Nat
        BY <1>10
      <3> QED BY <1>11, <3>1
    <2> QED BY <1>1, <1>10, <2>1, EarlierOrders
  <1> DEFINE ea == With(own, a)
             eb == With(own, b)
  <1>14. /\ \A r : r \in Taken(a) <=> r # 0 /\ \E i \in D : a[i] = r
         /\ \A r : r \in Taken(b) <=> r # 0 /\ \E i \in D : b[i] = r
    <2>1. DOMAIN a = D
      BY <1>2
    <2> QED BY <1>6, <2>1, TakenHas
  <1>15. ea \in SUBSET Route /\ eb \in SUBSET Route /\ own \subseteq ea /\ own \subseteq eb
    <2>1. Taken(a) \in SUBSET Route
      BY <1>2, <1>14
    <2>2. Taken(b) \in SUBSET Route
      BY <1>8, <1>14
    <2> QED BY <1>1, <2>1, <2>2 DEF With
  <1>16. ASSUME NEW r \in own, NEW e \in SUBSET Route, own \subseteq e
         PROVE  Same(e, Ends[r][1], Ends[r][2])
    BY <1>16, ClassIsFinest DEF Keeps, Same
  <1>17. Keeps(Class[eb], ea)
    <2> SUFFICES ASSUME NEW r \in ea
                 PROVE  Same(eb, Ends[r][1], Ends[r][2])
      BY DEF Keeps, Same
    <2>1. CASE r \in own
      BY <1>15, <1>16, <2>1
    <2>2. CASE r \in Taken(a)
      <3>1. PICK i \in D : a[i] = r /\ r # 0
        BY <1>14, <2>2
      <3>2. CASE Idle(i)
        <4>1. Cardinality(Pair(own, r)) # 2
          BY <1>7, <3>1, <3>2
        <4>2. r \in Route
          BY <1>15
        <4>3. Same(own, Ends[r][1], Ends[r][2])
          BY <1>1, <4>1, <4>2, PairIs
        <4> HIDE DEF ea, eb
        <4> QED BY <1>1, <1>15, <4>2, <4>3, EndsAreCities, SameGrows
      <3>3. CASE ~Idle(i)
        <4>1. b[i] # 0 /\ Pair(own, b[i]) = Pair(own, r) /\ r \in Route
          BY <1>4, <3>1, <3>3
        <4>2. b[i] \in eb
          BY <1>14, <4>1 DEF With
        <4> HIDE DEF ea, eb
        <4> QED BY <1>1, <1>15, <4>1, <4>2, PairReplaces
      <3> QED BY <3>2, <3>3
    <2> QED BY <2>1, <2>2 DEF With
  <1>18. Keeps(Class[ea], eb)
    <2> SUFFICES ASSUME NEW r \in eb
                 PROVE  Same(ea, Ends[r][1], Ends[r][2])
      BY DEF Keeps, Same
    <2>1. CASE r \in own
      BY <1>15, <1>16, <2>1
    <2>2. CASE r \in Taken(b)
      <3>1. PICK i \in D : b[i] = r /\ r # 0
        BY <1>14, <2>2
      <3>2. ~Idle(i)
        BY <1>5, <3>1
      <3>3. a[i] # 0 /\ Pair(own, a[i]) = Pair(own, r) /\ r \in Route
        BY <1>4, <3>1, <3>2
      <3>4. a[i] \in ea
        BY <1>14, <3>3 DEF With
      <3> HIDE DEF ea, eb
      <3> QED BY <1>1, <1>15, <3>3, <3>4, PairReplaces
    <2> QED BY <2>1, <2>2 DEF With
  <1>19. Met(eb, Goals(p)) = Met(ea, Goals(p))
    <2> HIDE DEF ea, eb
    <2>1. Met(ea, Goals(p)) \subseteq Met(eb, Goals(p))
      BY <1>1, <1>15, <1>17, MetInFiner
    <2>2. Met(eb, Goals(p)) \subseteq Met(ea, Goals(p))
      BY <1>1, <1>15, <1>18, MetInFiner
    <2> QED BY <2>1, <2>2
  <1> QED BY <1>9, <1>12, <1>13, <1>19 DEF own

(* Better looks only at what the two assignments meet. *)
LEMMA BetterAlike ==
  ASSUME NEW a, NEW b, NEW M, NEW W, M[a] = W[a], M[b] = W[b]
  PROVE  Better(a, b, M) <=> Better(a, b, W)
BY DEF Better

(* So the best assignment of the options is the best of all. *)
LEMMA BestOfAll ==
  ASSUME TypeOK, NEW p \in Player
  PROVE  LET best == EvaluateTickets(p).assign
             met == [a \in Assignments(p) |-> Met(Track(p) \cup Taken(a), Goals(p))]
         IN  best \in Assignments(p) /\ \A a \in Assignments(p) \ {best} : Better(best, a, met)
PROOF
  <1> DEFINE best == EvaluateTickets(p).assign
             met == [a \in Assignments(p) |-> Met(Track(p) \cup Taken(a), Goals(p))]
             own == Track(p)
             goals == Goals(p)
             O == OptionsOf(p)
             D == Built(p)
             M == MetBy(own, goals, O)
  <1>1. Suits(own, goals, O) /\ DOMAIN O = D
    BY OptionsSuit
  <1>2. IsFiniteSet(D) /\ (\A i \in D : i \in Nat) /\ goals \in SUBSET Ticket
    BY <1>1, SuitsIs
  <1>3. IsBest(own, goals, O, best)
    <2>1. best = Evaluate(own, goals, O).assign
      BY DEF EvaluateTickets, OptionsOf
    <2> HIDE DEF best, own, goals, O
    <2> QED BY <1>1, <2>1, EvaluateIsBest
  <1>4. \A i \in D : O[i] \subseteq Candidates(p, stations[i][2])
    BY DEF OptionsOf, Options
  <1>5. Over(O) \subseteq Assignments(p)
    BY <1>1, <1>4 DEF Over, Assignments
  <1>6. \A a \in Assignments(p) : met[a] = Met(With(own, a), goals)
    BY DEF With
  <1> HIDE DEF best, met, own, goals, O, D, M
  <1>7. ASSUME NEW a \in Over(O)
        PROVE  met[a] = M[a]
    BY <1>1, <1>5, <1>6, OverRanks DEF M
  <1>8. best \in Over(O) /\ best \in Assignments(p)
    BY <1>3, <1>5 DEF IsBest
  <1>9. ASSUME NEW a \in Assignments(p)
        PROVE  Ranks(D, a, met)
    <2>1. a \in [D -> Nat]
      <3>1. a \in [D -> Route \cup {0}]
        BY DEF Assignments, D
      <3>2. Route \cup {0} \subseteq Nat
        BY ScoringAssumption
      <3> QED BY <3>1, <3>2
    <2>2. met[a] \in SUBSET Ticket
      BY <1>2, <1>6, MetIsPart
    <2> QED BY <2>1, <2>2, ValueIs, TicketsAreFinite DEF Ranks
  <1>10. ASSUME NEW a \in Assignments(p), a # best
         PROVE  Better(best, a, met)
    <2>1. PICK b \in Over(O) :
             /\ Met(With(own, b), goals) = Met(With(own, a), goals)
             /\ Borrows(b) <= Borrows(a) /\ (b = a \/ Earlier(b, a))
      BY OptionsDo DEF own, goals, O
    <2>2. b \in Assignments(p) /\ met[b] = met[a]
      BY <1>5, <1>6, <2>1
    <2>3. b = best \/ Better(best, b, met)
      <3>1. b = best \/ Better(best, b, M)
        BY <1>3 DEF IsBest, M
      <3>2. met[b] = M[b] /\ met[best] = M[best]
        BY <1>7, <1>8
      <3> QED BY <3>1, <3>2, BetterAlike
    <2>4. b = a \/ Better(b, a, met)
      <3>1. Ranks(D, a, met) /\ Ranks(D, b, met)
        BY <1>9, <2>2
      <3>2. Borrows(a) \in Nat /\ Borrows(b) \in Nat
        <4>1. DOMAIN a = D /\ DOMAIN b = D
          BY <3>1 DEF Ranks
        <4> QED BY <1>2, <4>1, BorrowsIsNat
      <3> QED BY <2>1, <2>2, <3>2 DEF Better
    <2>5. Ranks(D, a, met) /\ Ranks(D, b, met) /\ Ranks(D, best, met)
      BY <1>8, <1>9, <2>2
    <2>6. Better(best, b, met) /\ Better(b, a, met) => Better(best, a, met)
      BY <1>2, <2>5, BetterOrders
    <2> QED BY <1>10, <2>3, <2>4, <2>6
  <1> QED BY <1>8, <1>10 DEF best, met

(* The borrows the search arrives at are those of the plain enumeration: for
   every network a table can build, every set of tickets and any number of
   stations (evaluateTickets, evaluateSideTickets). *)
THEOREM BorrowsAreBestHolds == Spec => []BorrowsAreBest
PROOF
  <1>1. ScoringInv => BorrowsAreBest
    <2> SUFFICES ASSUME TypeOK, NEW q \in Player
                 PROVE  LET p == Min(Side(q))
                            best == EvaluateTickets(p).assign
                            met == [a \in Assignments(p) |-> Met(Track(p) \cup Taken(a), Goals(p))]
                        IN  best \in Assignments(p)
                            /\ \A a \in Assignments(p) \ {best} : Better(best, a, met)
      BY DEF ScoringInv, BorrowsAreBest
    <2> DEFINE p == Min(Side(q))
    <2>1. Side(q) \in SUBSET Player /\ q \in Side(q)
      BY SidesArePlayers
    <2>2. Side(q) \in SUBSET Nat /\ Side(q) # {}
      BY <2>1, ScoringAssumption
    <2>3. p \in Player
      BY <2>1, <2>2, MinIsLeast
    <2> HIDE DEF p
    <2>4. LET best == EvaluateTickets(p).assign
              met == [a \in Assignments(p) |-> Met(Track(p) \cup Taken(a), Goals(p))]
          IN  best \in Assignments(p) /\ \A a \in Assignments(p) \ {best} : Better(best, a, met)
      BY <2>3, BestOfAll
    <2> QED BY <2>4 DEF p
  <1> QED BY <1>1, ScoringInvHolds, PTL
=============================================================================
