---------------------------- MODULE EventsProofs ----------------------------
(***************************************************************************)
(* Proofs about Events, for any number of players, any board, deck,        *)
(* schedule and durations within the assumptions of Events.                *)
(***************************************************************************)
EXTENDS Events, NaturalLemmas, SequenceTheorems

-----------------------------------------------------------------------------
(* The schedule: entries start one after the other. *)

Slot == {e \in [kind : Kinds, start : Nat, target : UNION {Targets[k] : k \in Kinds}] :
           e.target \in Targets[e.kind]}

Ordered == {s \in Seq(Slot) : /\ s # <<>>
                              /\ \A i, j \in DOMAIN s : i < j => s[i].start < s[j].start
                              /\ \A i \in DOMAIN s : s[i].start > 1}

LEMMA EntriesAreSlots ==
  ASSUME NEW T \in SUBSET Nat, NEW e \in Entry(T)
  PROVE  e \in Slot /\ e.start \in T
PROOF
  <1>1. PICK k \in Kinds : e \in [kind : {k}, start : T, target : Targets[k]]
    BY DEF Entry
  <1>2. /\ e = [kind |-> e.kind, start |-> e.start, target |-> e.target]
        /\ e.kind = k /\ e.start \in T /\ e.target \in Targets[k]
    BY <1>1
  <1> QED BY <1>2 DEF Slot

LEMMA LongerIsOrdered ==
  ASSUME NEW s \in Ordered, NEW t \in Longer(s)
  PROVE  t \in Ordered
PROOF
  <1> DEFINE n == Len(s)
  <1>1. s \in Seq(Slot) /\ n \in Nat \ {0} /\ n \in DOMAIN s /\ DOMAIN s = 1 .. n
    BY DEF Ordered
  <1>2. PICK e \in Entry(Following(s[n])) : t = Append(s, e)
    BY DEF Longer
  <1>3. s[n].start \in Nat /\ s[n].kind \in Kinds
    BY <1>1 DEF Slot
  <1>4. Occupancy(s[n].kind) \in Nat
    BY <1>3, ScheduleAssumption DEF Occupancy
  <1>5. Following(s[n]) \in SUBSET Nat /\ \A x \in Following(s[n]) : x > s[n].start
    BY <1>3, <1>4, ScheduleAssumption DEF Following
  <1>6. e \in Slot /\ e.start > s[n].start /\ e.start \in Nat
    BY <1>5, EntriesAreSlots DEF Slot
  <1>7. /\ t \in Seq(Slot) /\ t # <<>> /\ DOMAIN t = 1 .. n + 1
        /\ \A i \in 1 .. n : t[i] = s[i]
        /\ t[n + 1] = e
    BY <1>1, <1>2, <1>6
  <1>8. \A i \in 1 .. n : s[i].start \in Nat /\ s[i].start <= s[n].start /\ s[i].start > 1
    BY <1>1, <1>3 DEF Ordered, Slot
  <1>9. ASSUME NEW i \in DOMAIN t, NEW j \in DOMAIN t, i < j
        PROVE  t[i].start < t[j].start
    <2>1. CASE j = n + 1
      BY <1>1, <1>3, <1>6, <1>7, <1>8, <1>9, <2>1
    <2>2. CASE j # n + 1
      BY <1>1, <1>7, <1>9, <2>2 DEF Ordered
    <2> QED BY <2>1, <2>2
  <1>10. \A i \in DOMAIN t : t[i].start > 1
    BY <1>1, <1>3, <1>6, <1>7, <1>8
  <1> QED BY <1>7, <1>9, <1>10 DEF Ordered

LEMMA SchedulesAreOrdered == Schedules \subseteq Ordered
PROOF
  <1> DEFINE n     == Entries - 1
             a     == {<<e>> : e \in Entry(Starts)}
             Is(f) == f = [i \in 0 .. n |-> IF i = 0 THEN a
                                            ELSE UNION {Longer(s) : s \in f[i - 1]}]
             drawn == CHOOSE f : Is(f)
  <1>1. n \in Nat
    BY ScheduleAssumption
  <1>2. a \in SUBSET Ordered
    <2>1. ASSUME NEW e \in Entry(Starts)
          PROVE  <<e>> \in Ordered
      <3>1. Starts \in SUBSET Nat /\ \A x \in Starts : x \in Nat /\ x > 1
        BY ScheduleAssumption
      <3>2. e \in Slot /\ e.start \in Nat /\ e.start > 1
        BY <3>1, EntriesAreSlots
      <3> QED BY <3>2 DEF Ordered
    <2> QED BY <2>1
  <1>3. \A D \in SUBSET Ordered : UNION {Longer(s) : s \in D} \in SUBSET Ordered
    BY LongerIsOrdered
  <1> HIDE DEF n, a
  <1>4. \E f : Is(f)
    <2> DEFINE S == SUBSET Ordered
               G == [D \in S |-> UNION {Longer(s) : s \in D}]
    <2>1. G \in [S -> S] /\ a \in S
      BY <1>2, <1>3
    <2>2. \A D \in S : G[D] = UNION {Longer(s) : s \in D}
      OBVIOUS
    <2> HIDE DEF G, S
    <2>3. PICK f : IsIterate(S, G, a, n, f)
      BY <1>1, <2>1, Iterates
    <2>4. \A i \in 1 .. n : f[i] = UNION {Longer(s) : s \in f[i - 1]}
      BY <1>1, <2>2, <2>3 DEF IsIterate
    <2>5. Is(f)
      BY <1>1, <2>3, <2>4 DEF IsIterate
    <2> QED BY <2>5
  <1>5. Is(drawn)
    BY <1>4
  <1> DEFINE Bad == {i \in 0 .. n : drawn[i] \notin SUBSET Ordered}
  <1>6. ASSUME Bad # {} PROVE FALSE
    <2> HIDE DEF drawn
    <2>0. Bad \in SUBSET Nat
      BY <1>1
    <2>1. PICK m \in Bad : \A j \in Bad : m <= j
      BY <2>0, <1>6, LeastNatural
    <2>2. CASE m = 0
      BY <1>2, <1>5, <2>1, <2>2
    <2>3. CASE m # 0
      <3>1. m - 1 \in 0 .. n /\ m - 1 \notin Bad
        BY <1>1, <2>1, <2>3
      <3>2. drawn[m] = UNION {Longer(s) : s \in drawn[m - 1]}
        BY <1>5, <2>1, <2>3
      <3> QED BY <1>3, <2>1, <3>1, <3>2
    <2> QED BY <2>2, <2>3
  <1>7. Schedules = drawn[n]
    BY DEF Schedules, n, a
  <1>8. drawn[n] \in SUBSET Ordered
    <2> HIDE DEF drawn
    <2> QED BY <1>1, <1>6
  <1> QED BY <1>7, <1>8

-----------------------------------------------------------------------------
(* Joined: who owns more routes has joined no fewer cities. *)

LEMMA GrownInCity ==
  ASSUME NEW mine \in SUBSET Route, NEW s \in SUBSET City
  PROVE  Grown(mine, s) \in SUBSET City
BY BoardAssumption DEF Grown, kSubset

LEMMA ReachedUnfolds ==
  ASSUME NEW mine \in SUBSET Route, NEW start \in City
  PROVE  Reached(mine, start) =
           [i \in 0 .. Cardinality(Route) |->
              IF i = 0 THEN {start} ELSE Grown(mine, Reached(mine, start)[i - 1])]
PROOF
  <1> DEFINE n == Cardinality(Route)
             S == SUBSET City
             a == {start}
             G == [s \in S |-> Grown(mine, s)]
  <1>1. n \in Nat
    BY BoardAssumption, FS_CardinalityType
  <1>2. G \in [S -> S] /\ a \in S /\ \A s \in S : G[s] = Grown(mine, s)
    BY GrownInCity
  <1> HIDE DEF n, G, S, a
  <1>3. PICK f : IsIterate(S, G, a, n, f)
    BY <1>1, <1>2, Iterates
  <1>4. \A i \in 1 .. n : f[i] = Grown(mine, f[i - 1])
    BY <1>1, <1>2, <1>3 DEF IsIterate
  <1>5. f = [i \in 0 .. n |-> IF i = 0 THEN {start} ELSE Grown(mine, f[i - 1])]
    BY <1>1, <1>3, <1>4 DEF IsIterate, a
  <1> QED BY <1>5 DEF Reached, n

LEMMA ReachedIsMonotonic ==
  ASSUME NEW mine \in SUBSET Route, NEW more \in SUBSET Route, mine \subseteq more,
         NEW start \in City
  PROVE  Reached(mine, start)[Cardinality(Route)] \subseteq Reached(more, start)[Cardinality(Route)]
PROOF
  <1> DEFINE n   == Cardinality(Route)
             f   == Reached(mine, start)
             g   == Reached(more, start)
             Bad == {i \in 0 .. n : ~(f[i] \subseteq g[i])}
  <1>1. n \in Nat
    BY BoardAssumption, FS_CardinalityType
  <1>2. \A i \in 0 .. n : /\ f[i] = IF i = 0 THEN {start} ELSE Grown(mine, f[i - 1])
                          /\ g[i] = IF i = 0 THEN {start} ELSE Grown(more, g[i - 1])
    <2>1. /\ f = [i \in 0 .. n |-> IF i = 0 THEN {start} ELSE Grown(mine, f[i - 1])]
          /\ g = [i \in 0 .. n |-> IF i = 0 THEN {start} ELSE Grown(more, g[i - 1])]
      BY ReachedUnfolds
    <2> HIDE DEF f, g, n
    <2> QED BY <2>1
  <1> HIDE DEF f, g, n
  <1>3. ASSUME Bad # {} PROVE FALSE
    <2>0. Bad \in SUBSET Nat
      BY <1>1
    <2>1. PICK m \in Bad : \A j \in Bad : m <= j
      BY <2>0, <1>3, LeastNatural
    <2>2. m # 0
      BY <1>1, <1>2, <2>1
    <2>3. m - 1 \in 0 .. n /\ f[m - 1] \subseteq g[m - 1]
      BY <1>1, <2>1, <2>2
    <2>4. Grown(mine, f[m - 1]) \subseteq Grown(more, g[m - 1])
      BY <2>3 DEF Grown
    <2> QED BY <1>2, <2>1, <2>2, <2>4
  <1> QED BY <1>1, <1>3 DEF f, g, n

LEMMA JoinedIsMonotonic ==
  ASSUME NEW ow, NEW after, NEW p, NEW pair \in SUBSET City, pair # {},
         \A r \in Route : ow[r] = p => after[r] = p,
         Joined(ow, p, pair)
  PROVE  Joined(after, p, pair)
PROOF
  <1>1. (CHOOSE c \in pair : TRUE) \in City
    OBVIOUS
  <1>2. {r \in Route : ow[r] = p} \subseteq {r \in Route : after[r] = p}
    OBVIOUS
  <1> QED BY <1>1, <1>2, ReachedIsMonotonic DEF Joined

LEMMA JoinedIsOwn ==
  ASSUME NEW ow, NEW after, NEW p, NEW pair,
         \A r \in Route : ow[r] = p <=> after[r] = p
  PROVE  Joined(ow, p, pair) <=> Joined(after, p, pair)
PROOF
  <1>1. {r \in Route : ow[r] = p} = {r \in Route : after[r] = p}
    OBVIOUS
  <1> QED BY <1>1 DEF Joined

-----------------------------------------------------------------------------
(* The inductive invariant. *)

Aims  == UNION {Targets[k] : k \in Kinds}
Place == Route \cup UNION Aims
Activity == [kind : Kinds, ends : Int, target : Aims, at : Nat]
Contract == [pair : (SUBSET City) \ {{}}, won : Seats \cup {None}, ends : Int]
EventsState ==
  [round : Nat, next : Nat \ {0}, active : SUBSET Activity, contracts : SUBSET Contract,
   reopen : SUBSET Place, repaired : SUBSET Place, permits : [Seats -> Nat], free : Nat,
   host : City \cup {None}, relocate : SUBSET City, draft : Seq(Seats), hive : Nat]
Pile   == [deck : Nat, discard : Nat, marker : Nat]
Owners == [Route -> Seats \cup {None, Locked}]
Phases == {"AWAIT_ACTION", "TUNNEL_PENDING", "LANTERN_RELOCATION", "HIVE_DRAW",
           "EVENT_DRAFT", "GAME_OVER"}
Turn   == [at : Seats, phase : Phases, swapped : BOOLEAN]

Typed ==
  /\ schedule \in Ordered
  /\ ev \in EventsState
  /\ pile \in Pile
  /\ turn \in Turn
  /\ owner \in Owners
  /\ trains \in [Seats -> Int]
  /\ endgame \in [on : BOOLEAN, left : Int]
  /\ tunnel \in [route : Route, revealed : Nat] \cup {None}
  /\ round \in SUBSET Seats

(* The cards a pending tunnel revealed and those of the hive are on the table: the
   pile has room for them. *)
Aside(tun, e) == (IF tun = None THEN 0 ELSE tun.revealed) + e.hive
Fits(pl, tun, e) == pl.marker <= pl.deck /\ Pool(pl) + Aside(tun, e) <= Cards

(* The tunnel decided upon is still nobody's. *)
TunnelIsOpen == tunnel # None => owner[tunnel.route] = None

(* Who has had a turn in a round, when the seat at x has it. *)
Before(e, x) ==
  IF Direction(e) = 1 THEN 0 .. x - 1 ELSE IF x = 0 THEN {} ELSE {0} \cup (x + 1 .. N - 1)
RoundSoFar ==
  ~Phase("GAME_OVER") => round = IF Phase("EVENT_DRAFT") THEN {} ELSE Before(ev, Cur)

(* What was announced is the entry that comes next, if it starts in the next round. *)
Announced(e) ==
  IF Due(e.next, e.round + 1) /\ schedule[e.next].kind \in Telegraphed THEN e.next ELSE 0
ToldIsNext == told = Announced(ev)

(* No event runs longer than one that starts now. *)
NoneOutlasts(e, r) == \A a \in e.active : a.ends <= r + Duration[a.kind] - 1

Right(e, ow) ==
  \A c \in e.contracts :
    IF c.won = None THEN \A p \in Seats : ~Joined(ow, p, c.pair)
    ELSE Joined(ow, c.won, c.pair)

Inv ==
  /\ Typed
  /\ OneDecision
  /\ Fits(pile, tunnel, ev)
  /\ TunnelIsOpen
  /\ RoundSoFar
  /\ ToldIsNext
  /\ NoneOutlasts(ev, ev.round)
  /\ Right(ev, owner)

LEMMA Counts ==
  /\ N \in Nat /\ N > 1 /\ 0 \in Seats /\ Seats \in SUBSET Nat /\ None \notin Seats /\ Locked \notin Seats
  /\ {Cards, DeckStart, Reveal, TrainsStart, EndThreshold, MaxDraw} \subseteq Nat /\ DeckStart <= Cards
PROOF
  <1>1. N \in Nat /\ N > 1
    BY BoardAssumption
  <1>2. 0 \in Seats /\ Seats \in SUBSET Nat
    BY <1>1 DEF Seats
  <1> QED BY <1>1, <1>2, BoardAssumption

-----------------------------------------------------------------------------
(* Cards. *)

LEMMA DrawnFacts ==
  ASSUME NEW pl \in Pile, NEW n \in Nat, pl.marker <= pl.deck
  PROVE  /\ Drawn(pl, n) \in Pile
         /\ Drawn(pl, n).marker <= Drawn(pl, n).deck
         /\ Pool(Drawn(pl, n)) = Pool(pl) - Min({n, Pool(pl)})
         /\ Min({n, Pool(pl)}) \in Nat /\ Min({n, Pool(pl)}) <= n /\ Min({n, Pool(pl)}) <= Pool(pl)
PROOF
  <1> DEFINE d == Min({n, Pool(pl)})
  <1>1. pl.deck \in Nat /\ pl.discard \in Nat /\ pl.marker \in Nat /\ Pool(pl) \in Nat
    BY DEF Pile, Pool
  <1>2. d = IF n <= Pool(pl) THEN n ELSE Pool(pl)
    BY <1>1, MinOfTwo
  <1>3. d \in Nat /\ d <= n /\ d <= Pool(pl)
    BY <1>1, <1>2
  <1> HIDE DEF d
  <1>4. Drawn(pl, n) = IF d <= pl.deck
          THEN [deck |-> pl.deck - d, discard |-> pl.discard,
                marker |-> IF pl.marker > d THEN pl.marker - d ELSE 0]
          ELSE [deck |-> Pool(pl) - d, discard |-> 0,
                marker |-> IF pl.marker > d THEN pl.marker - d ELSE 0]
    <2>1. Drawn(pl, n) = Advanced(IF d <= pl.deck THEN [pl EXCEPT !.deck = @ - d]
                                  ELSE [pl EXCEPT !.deck = Pool(pl) - d, !.discard = 0], d)
      BY DEF Drawn, d
    <2>2. pl = [deck |-> pl.deck, discard |-> pl.discard, marker |-> pl.marker]
      BY DEF Pile
    <2>3. CASE d <= pl.deck
      BY <2>1, <2>2, <2>3 DEF Advanced
    <2>4. CASE ~(d <= pl.deck)
      BY <2>1, <2>2, <2>4 DEF Advanced
    <2> QED BY <2>3, <2>4
  <1>5. CASE d <= pl.deck
    BY <1>1, <1>3, <1>4, <1>5 DEF Pile, Pool, d
  <1>6. CASE ~(d <= pl.deck)
    BY <1>1, <1>3, <1>4, <1>6 DEF Pile, Pool, d
  <1> QED BY <1>5, <1>6

LEMMA ThrownFacts ==
  ASSUME NEW pl \in Pile, NEW n \in Nat, pl.marker <= pl.deck
  PROVE  /\ Thrown(pl, n) \in Pile
         /\ Thrown(pl, n).marker <= Thrown(pl, n).deck
         /\ Pool(Thrown(pl, n)) = Pool(pl) + n
BY DEF Thrown, Pile, Pool

-----------------------------------------------------------------------------
(* Contracts. *)

LEMMA AwardedFacts ==
  ASSUME NEW c \in Contract, NEW ow, NEW s \in SUBSET Seats,
         IF c.won = None THEN \A p \in Seats \ s : ~Joined(ow, p, c.pair)
         ELSE Joined(ow, c.won, c.pair)
  PROVE  /\ Awarded(c, ow, s) \in Contract
         /\ IF Awarded(c, ow, s).won = None THEN \A p \in Seats : ~Joined(ow, p, Awarded(c, ow, s).pair)
            ELSE Joined(ow, Awarded(c, ow, s).won, Awarded(c, ow, s).pair)
PROOF
  <1> DEFINE won == {p \in s : Joined(ow, p, c.pair)}
  <1>1. CASE c.won = None /\ won # {}
    <2>1. won \in SUBSET Nat
      BY Counts
    <2>2. Min(won) \in s /\ Joined(ow, Min(won), c.pair)
      <3>1. Min(won) \in won
        BY <1>1, <2>1, MinIsLeast
      <3> QED BY <3>1
    <2>3. Awarded(c, ow, s) = [pair |-> c.pair, won |-> Min(won), ends |-> c.ends]
      BY <1>1 DEF Awarded, Contract
    <2>4. Min(won) # None
      BY <2>2, Counts
    <2> HIDE DEF won
    <2> QED BY <2>2, <2>3, <2>4 DEF Contract
  <1>2. CASE c.won = None /\ won = {}
    <2>1. Awarded(c, ow, s) = c
      BY <1>2 DEF Awarded
    <2> QED BY <1>2, <2>1
  <1>3. CASE c.won # None
    <2>1. Awarded(c, ow, s) = c
      BY <1>3 DEF Awarded
    <2> QED BY <1>3, <2>1
  <1> QED BY <1>1, <1>2, <1>3

-----------------------------------------------------------------------------
(* The tick. *)

LEMMA EventsStateHas ==
  ASSUME NEW e \in EventsState
  PROVE  /\ e = [round |-> e.round, next |-> e.next, active |-> e.active,
                 contracts |-> e.contracts, reopen |-> e.reopen, repaired |-> e.repaired,
                 permits |-> e.permits, free |-> e.free, host |-> e.host,
                 relocate |-> e.relocate, draft |-> e.draft, hive |-> e.hive]
         /\ e.round \in Nat /\ e.next \in Nat \ {0} /\ e.active \in SUBSET Activity
         /\ e.contracts \in SUBSET Contract /\ e.reopen \in SUBSET Place
         /\ e.repaired \in SUBSET Place /\ e.permits \in [Seats -> Nat] /\ e.free \in Nat
         /\ e.host \in City \cup {None} /\ e.relocate \in SUBSET City
         /\ e.draft \in Seq(Seats) /\ e.hive \in Nat
BY DEF EventsState

LEMMA EndedFacts ==
  ASSUME NEW e \in EventsState, NEW ow, Right(e, ow)
  PROVE  /\ Ended(e, ow) \in EventsState
         /\ \A f \in {"round", "next", "permits", "host", "relocate", "draft", "hive"} :
              Ended(e, ow)[f] = e[f]
         /\ \A a \in Ended(e, ow).active : \E b \in e.active : a.kind = b.kind /\ a.ends = b.ends
         /\ Right(Ended(e, ow), ow)
PROOF
  <1> DEFINE past == {a \in e.active : a.ends < e.round}
             Of(kind) == UNION {a.target : a \in {x \in past : x.kind = kind}}
             Moved(a) == IF a.kind = "GODDESS_PROCESSION"
                         THEN [a EXCEPT !.at = Min({@ + 1, Len(Path)})] ELSE a
             active    == {Moved(a) : a \in e.active \ past}
             contracts == {c \in e.contracts : c.won # None \/ c.ends = 0 \/ c.ends >= e.round}
             reopen    == e.reopen \cup {r \in Of("TYPHOON_LANDFALL") : ow[r] = None}
             repaired  == StillRepaired(e.repaired, Of("SLOPE_REPAIR_ORDER"))
             free      == IF e.free < e.round THEN 0 ELSE e.free
  <1>1. Ended(e, ow) = [e EXCEPT !.active = active, !.contracts = contracts,
                                 !.reopen = reopen, !.repaired = repaired, !.free = free]
    BY DEF Ended
  <1>2. \A a \in Activity : Moved(a) \in Activity /\ Moved(a).kind = a.kind /\ Moved(a).ends = a.ends
    <2> TAKE a \in Activity
    <2>1. a = [kind |-> a.kind, ends |-> a.ends, target |-> a.target, at |-> a.at] /\ a.at \in Nat
      BY DEF Activity
    <2>2. Len(Path) \in Nat
      BY BoardAssumption
    <2> DEFINE x  == a.at + 1
               y  == Len(Path)
               at == Min({x, y})
    <2>3. x \in Nat /\ y \in Nat
      BY <2>1, <2>2
    <2>4. at \in Nat
      <3> HIDE DEF x, y
      <3>1. Min({x, y}) = IF x <= y THEN x ELSE y
        BY <2>3, MinOfTwo
      <3> QED BY <2>3, <3>1
    <2>5. Moved(a) = IF a.kind = "GODDESS_PROCESSION" THEN [a EXCEPT !.at = at] ELSE a
      OBVIOUS
    <2> HIDE DEF x, y, at, Moved
    <2> QED BY <2>1, <2>4, <2>5 DEF Activity
  <1>3. \A kind : Of(kind) \in SUBSET Place
    <2>1. \A a \in e.active : a.target \in Aims
      BY EventsStateHas DEF Activity
    <2> QED BY <2>1 DEF Place
  <1>4. active \in SUBSET Activity
    BY <1>2, EventsStateHas
  <1>5. reopen \in SUBSET Place /\ repaired \in SUBSET Place
    BY <1>3, EventsStateHas DEF StillRepaired
  <1>6. contracts \in SUBSET Contract /\ free \in Nat
    BY EventsStateHas
  <1>7. \A a \in active : \E b \in e.active : a.kind = b.kind /\ a.ends = b.ends
    BY <1>2, EventsStateHas
  <1>8. contracts \subseteq e.contracts
    OBVIOUS
  <1> HIDE DEF active, contracts, reopen, repaired, free, past, Of, Moved
  <1>9. /\ Ended(e, ow) \in EventsState
        /\ Ended(e, ow).round = e.round /\ Ended(e, ow).next = e.next
        /\ Ended(e, ow).permits = e.permits /\ Ended(e, ow).host = e.host
        /\ Ended(e, ow).relocate = e.relocate /\ Ended(e, ow).draft = e.draft
        /\ Ended(e, ow).hive = e.hive
        /\ Ended(e, ow).active = active /\ Ended(e, ow).contracts = contracts
    <2>0. e = [round |-> e.round, next |-> e.next, active |-> e.active,
               contracts |-> e.contracts, reopen |-> e.reopen, repaired |-> e.repaired,
               permits |-> e.permits, free |-> e.free, host |-> e.host,
               relocate |-> e.relocate, draft |-> e.draft, hive |-> e.hive]
      BY EventsStateHas
    <2>1. Ended(e, ow) =
            [round |-> e.round, next |-> e.next, active |-> active, contracts |-> contracts,
             reopen |-> reopen, repaired |-> repaired, permits |-> e.permits, free |-> free,
             host |-> e.host, relocate |-> e.relocate, draft |-> e.draft, hive |-> e.hive]
      BY <1>1, <2>0
    <2> QED BY <1>4, <1>5, <1>6, <2>1, EventsStateHas DEF EventsState
  <1> QED BY <1>7, <1>8, <1>9 DEF Right

LEMMA OpenedFacts ==
  ASSUME NEW pair \in (SUBSET City) \ {{}}, NEW ends \in Int, NEW ow
  PROVE  LET c == Opened([pair |-> pair, won |-> None, ends |-> ends], ow)
         IN  /\ c \in Contract
             /\ IF c.won = None THEN \A p \in Seats : ~Joined(ow, p, c.pair)
                ELSE Joined(ow, c.won, c.pair)
PROOF
  <1> DEFINE new == [pair |-> pair, won |-> None, ends |-> ends]
  <1>1. new \in Contract /\ new.won = None
    BY DEF Contract
  <1>2. Opened(new, ow) = Awarded(new, ow, Seats)
    BY DEF Opened
  <1> HIDE DEF new
  <1>3. IF new.won = None THEN \A p \in Seats \ Seats : ~Joined(ow, p, new.pair)
        ELSE Joined(ow, new.won, new.pair)
    BY <1>1
  <1>4. /\ Awarded(new, ow, Seats) \in Contract
        /\ IF Awarded(new, ow, Seats).won = None
           THEN \A p \in Seats : ~Joined(ow, p, Awarded(new, ow, Seats).pair)
           ELSE Joined(ow, Awarded(new, ow, Seats).won, Awarded(new, ow, Seats).pair)
    BY <1>1, <1>3, AwardedFacts
  <1> QED BY <1>2, <1>4 DEF new

(* What the START of an entry leaves: t is the table after it, at the turn before it. *)
StartedWell(e, pl, entry, ow, order, at, t) ==
  /\ t.ev \in EventsState /\ t.ev.round = e.round /\ t.ev.next = e.next
  /\ t.ev.relocate = e.relocate /\ t.ev.hive = e.hive /\ Right(t.ev, ow)
  /\ t.pile \in Pile /\ t.pile.marker <= t.pile.deck /\ Pool(t.pile) <= Pool(pl)
  /\ IF entry.kind = "ROLLING_STOCK_ALLOCATION_DAY"
     THEN /\ t.ev.draft = order /\ order \in Seq(Seats) /\ order # <<>>
          /\ order[1] \in Seats
          /\ t.turn = [at |-> order[1], phase |-> "EVENT_DRAFT", swapped |-> FALSE]
     ELSE t.ev.draft = e.draft /\ t.turn = at
  /\ Duration[entry.kind] \in Nat
  /\ \A a \in t.ev.active : a \in e.active \/
       (a.kind = entry.kind /\ a.ends = e.round + Duration[entry.kind] - 1)
  /\ Duration[entry.kind] > 0 => \E a \in t.ev.active :
       a.kind = entry.kind /\ a.ends = e.round + Duration[entry.kind] - 1

LEMMA StartedFacts ==
  ASSUME NEW e \in EventsState, NEW pl \in Pile, pl.marker <= pl.deck,
         NEW entry \in Slot, NEW ow, Right(e, ow), NEW order, NEW depth, NEW at,
         entry.kind = "ROLLING_STOCK_ALLOCATION_DAY" => order \in Orders,
         entry.kind = "BREAKTHROUGH_BORING_MACHINE" => depth \in Depths(pl)
  PROVE  StartedWell(e, pl, entry, ow, order, at,
           Started([ev |-> e, pile |-> pl, depth |-> depth, turn |-> at], entry, ow, order))
PROOF
  <1> DEFINE k      == entry.kind
             last   == e.round + Duration[k] - 1
             ends   == IF k = "CHARTER_SPECIAL" THEN last ELSE 0
             opened == Opened([pair |-> entry.target, won |-> None, ends |-> ends], ow)
             new    == [kind |-> k, ends |-> last, target |-> entry.target, at |-> 1]
             active == IF Duration[k] = 0 THEN e.active ELSE e.active \cup {new}
             contracts == IF k \in Contracting THEN e.contracts \cup {opened} ELSE e.contracts
             repaired  == IF k = "SLOPE_REPAIR_ORDER" THEN e.repaired \ entry.target ELSE e.repaired
             free      == IF k = "RAILWAY_GALA" THEN e.round ELSE e.free
             host      == IF k = "LANTERN_HOST_CITY" THEN CHOOSE c \in entry.target : TRUE ELSE e.host
             draft     == IF k = "ROLLING_STOCK_ALLOCATION_DAY" THEN order ELSE e.draft
             f == [round |-> e.round, next |-> e.next, active |-> active, contracts |-> contracts,
                   reopen |-> e.reopen, repaired |-> repaired, permits |-> e.permits, free |-> free,
                   host |-> host, relocate |-> e.relocate, draft |-> draft, hive |-> e.hive]
             p == CASE k = "RAILWAY_GALA" -> Drawn(pl, N)
                    [] k = "BREAKTHROUGH_BORING_MACHINE" ->
                         [pl EXCEPT !.marker = IF pl.deck = 0 THEN 0 ELSE pl.deck - depth]
                    [] OTHER -> pl
             u == IF k = "ROLLING_STOCK_ALLOCATION_DAY"
                  THEN [at |-> order[1], phase |-> "EVENT_DRAFT", swapped |-> FALSE] ELSE at
             t == Started([ev |-> e, pile |-> pl, depth |-> depth, turn |-> at], entry, ow, order)
  <1>1. /\ k \in Kinds /\ Duration[k] \in Nat /\ entry.target \in Targets[k]
        /\ entry.target \in Aims
    BY ScheduleAssumption DEF Slot, Aims
  <1>2. last \in Int /\ ends \in Int
    BY <1>1, EventsStateHas
  <1>3. t = [ev |-> f, pile |-> p, turn |-> u]
    <2>1. e = [round |-> e.round, next |-> e.next, active |-> e.active,
               contracts |-> e.contracts, reopen |-> e.reopen, repaired |-> e.repaired,
               permits |-> e.permits, free |-> e.free, host |-> e.host,
               relocate |-> e.relocate, draft |-> e.draft, hive |-> e.hive]
      BY EventsStateHas
    <2>2. t = [ev |-> [e EXCEPT !.active = active, !.free = free, !.contracts = contracts,
                                !.host = host, !.draft = draft, !.repaired = repaired],
               pile |-> p, turn |-> u]
      BY DEF Started
    <2> HIDE DEF t, active, free, contracts, host, draft, repaired, p, u
    <2> QED BY <2>1, <2>2
  <1>4. k \in Contracting => opened \in Contract /\
          IF opened.won = None THEN \A x \in Seats : ~Joined(ow, x, opened.pair)
          ELSE Joined(ow, opened.won, opened.pair)
    <2>1. k \in Contracting => entry.target \in (SUBSET City) \ {{}}
      BY <1>1, ScheduleAssumption
    <2> HIDE DEF ends
    <2> QED BY <1>2, <2>1, OpenedFacts
  <1>5. contracts \in SUBSET Contract /\ Right(f, ow)
    <2> HIDE DEF opened
    <2>1. contracts \in SUBSET Contract
      BY <1>4, EventsStateHas
    <2>2. \A c \in contracts : IF c.won = None THEN \A x \in Seats : ~Joined(ow, x, c.pair)
                               ELSE Joined(ow, c.won, c.pair)
      BY <1>4 DEF Right
    <2>3. f.contracts = contracts
      OBVIOUS
    <2> HIDE DEF contracts, f
    <2> QED BY <2>1, <2>2, <2>3 DEF Right
  <1>6. new \in Activity /\ active \in SUBSET Activity
    BY <1>1, <1>2, EventsStateHas DEF Activity
  <1>7. host \in City \cup {None}
    <2>1. k = "LANTERN_HOST_CITY" => entry.target \in (SUBSET City) \ {{}}
      BY <1>1, ScheduleAssumption
    <2> QED BY <2>1, EventsStateHas
  <1>8. k = "ROLLING_STOCK_ALLOCATION_DAY" =>
          order \in Seq(Seats) /\ order # <<>> /\ order[1] \in Seats
    <2>1. ASSUME order \in Orders PROVE order \in Seq(Seats) /\ order # <<>> /\ order[1] \in Seats
      <3>1. order \in [1 .. N -> Seats]
        BY <2>1 DEF Orders
      <3>2. 1 \in 1 .. N
        BY Counts
      <3>3. order \in Seq(Seats) /\ Len(order) = N
        BY <3>1, Counts
      <3> QED BY <3>1, <3>2, <3>3, Counts
    <2> QED BY <2>1
  <1>9. draft \in Seq(Seats) /\ repaired \in SUBSET Place /\ free \in Nat
    BY <1>8, EventsStateHas
  <1>10. p \in Pile /\ p.marker <= p.deck /\ Pool(p) <= Pool(pl)
    <2>1. CASE k = "RAILWAY_GALA"
      <3>1. p = Drawn(pl, N) /\ N \in Nat
        BY <2>1, Counts
      <3>2. Pool(Drawn(pl, N)) <= Pool(pl)
        <4> DEFINE d == Min({N, Pool(pl)})
        <4>1. Pool(Drawn(pl, N)) = Pool(pl) - d /\ d \in Nat
          BY <3>1, DrawnFacts
        <4>2. Pool(pl) \in Nat
          BY DEF Pool, Pile
        <4> HIDE DEF d
        <4> QED BY <4>1, <4>2
      <3> QED BY <3>1, <3>2, DrawnFacts
    <2>2. CASE k = "BREAKTHROUGH_BORING_MACHINE"
      <3>1. pl.deck \in Nat /\ pl.discard \in Nat
            /\ pl = [deck |-> pl.deck, discard |-> pl.discard, marker |-> pl.marker]
        BY DEF Pile
      <3> DEFINE m == IF pl.deck = 0 THEN 0 ELSE pl.deck - depth
      <3>2. m \in Nat /\ m <= pl.deck
        <4>1. depth \in 0 .. Max({1, pl.deck \div 3}) - 1
          BY <2>2 DEF Depths
        <4>2. pl.deck \div 3 \in Nat /\ pl.deck \div 3 <= pl.deck
          BY <3>1
        <4> DEFINE third == pl.deck \div 3
        <4> HIDE DEF third
        <4>3. third \in Nat /\ third <= pl.deck /\ depth \in 0 .. Max({1, third}) - 1
          BY <4>1, <4>2 DEF third
        <4>4. Max({1, third}) = IF 1 >= third THEN 1 ELSE third
          BY <4>3, MaxOfTwo
        <4> QED BY <3>1, <4>3, <4>4
      <3>3. p = [pl EXCEPT !.marker = m]
        BY <2>2
      <3> HIDE DEF m, p
      <3> QED BY <3>1, <3>2, <3>3 DEF Pile, Pool
    <2>3. CASE k \notin {"RAILWAY_GALA", "BREAKTHROUGH_BORING_MACHINE"}
      <3>1. p = pl
        BY <2>3
      <3>2. Pool(pl) \in Nat
        BY DEF Pool, Pile
      <3> HIDE DEF p
      <3> QED BY <3>1, <3>2
    <2> QED BY <2>1, <2>2, <2>3
  <1>11. /\ \A a \in active : a \in e.active \/ (a.kind = k /\ a.ends = last)
         /\ Duration[k] > 0 => \E a \in active : a.kind = k /\ a.ends = last
    <2>1. new.kind = k /\ new.ends = last
      OBVIOUS
    <2>2. Duration[k] > 0 => new \in active
      BY <1>1
    <2>3. \A a \in active : a \in e.active \/ a = new
      OBVIOUS
    <2> HIDE DEF new, active, last, k
    <2>4. \A a \in active : a \in e.active \/ (a.kind = k /\ a.ends = last)
      BY <2>1, <2>3
    <2>5. Duration[k] > 0 => \E a \in active : a.kind = k /\ a.ends = last
      BY <2>1, <2>2
    <2> QED BY <2>4, <2>5
  <1>12. f \in EventsState
    <2> HIDE DEF active, contracts, repaired, free, host, draft
    <2> QED BY <1>5, <1>6, <1>7, <1>9, EventsStateHas DEF EventsState
  <1>13. /\ t.ev = f /\ t.pile = p /\ t.turn = u
    <2> HIDE DEF t, f, p, u
    <2> QED BY <1>3
  <1> HIDE DEF t, p
  <1>14. /\ k = "ROLLING_STOCK_ALLOCATION_DAY" =>
              f.draft = order
              /\ u = [at |-> order[1], phase |-> "EVENT_DRAFT", swapped |-> FALSE]
         /\ k # "ROLLING_STOCK_ALLOCATION_DAY" => f.draft = e.draft /\ u = at
         /\ f.round = e.round /\ f.next = e.next /\ f.relocate = e.relocate /\ f.hive = e.hive
         /\ f.active = active
    OBVIOUS
  <1> HIDE DEF f, u, active
  <1> QED BY <1>1, <1>5, <1>8, <1>10, <1>11, <1>12, <1>13, <1>14 DEF t, StartedWell

(* The entry at a position of the schedule is a slot. *)
LEMMA DueFacts ==
  ASSUME schedule \in Ordered, NEW i \in Nat, NEW r, Due(i, r), i # 0
  PROVE  i \in DOMAIN schedule /\ schedule[i] \in Slot /\ schedule[i].start = r
BY DEF Due, Ordered

(* Two entries never start in the same round. *)
LEMMA DueOnce ==
  ASSUME schedule \in Ordered, NEW i \in Nat, NEW j \in Nat, NEW r \in Nat,
         i # 0, i < j, Due(i, r), Due(j, r)
  PROVE  FALSE
PROOF
  <1>1. i \in DOMAIN schedule /\ j \in DOMAIN schedule
        /\ schedule[i].start = r /\ schedule[j].start = r
    BY DueFacts
  <1> QED BY <1>1 DEF Ordered

(* What a tick that starts round e.round leaves: t is the table after it. *)
Ticked(e, pl, ow, quiet, t) ==
  /\ t.ev \in EventsState /\ t.ev.round = e.round
  /\ t.ev.relocate = {} /\ t.ev.hive = 0
  /\ Right(t.ev, ow)
  /\ t.pile \in Pile /\ t.pile.marker <= t.pile.deck /\ Pool(t.pile) <= Pool(pl)
  /\ t.turn \in Turn
  /\ \/ /\ t.turn = [at |-> 0, phase |-> "AWAIT_ACTION", swapped |-> FALSE]
        /\ t.ev.draft = <<>>
     \/ /\ t.turn.phase = "EVENT_DRAFT" /\ t.ev.draft # <<>> /\ t.turn.at = t.ev.draft[1]
  /\ t.told = Announced(t.ev)
  /\ NoneOutlasts(t.ev, e.round)
  /\ \A a \in t.ev.active : a.ends = e.round + Duration[a.kind] - 1 =>
       /\ Due(e.next, e.round) /\ a.kind = schedule[e.next].kind
       /\ a.kind \notin Telegraphed => ~quiet
  /\ Due(e.next, e.round) /\ schedule[e.next].kind \in Telegraphed =>
       \E a \in t.ev.active : /\ a.kind = schedule[e.next].kind
                              /\ a.ends = e.round + Duration[a.kind] - 1

LEMMA TickFacts ==
  ASSUME schedule \in Ordered, NEW e \in EventsState,
         e.relocate = {}, e.draft = <<>>, e.hive = 0, NoneOutlasts(e, e.round - 1),
         NEW pl \in Pile, pl.marker <= pl.deck, NEW ow, Right(e, ow),
         NEW quiet \in BOOLEAN, NEW c \in TickChoices(e.next, e.round, pl)
  PROVE  Ticked(e, pl, ow, quiet, Tick(e, pl, ow, quiet, c))
PROOF
  <1> DEFINE i == e.next
             r == e.round
             f == Ended(e, ow)
             first  == [at |-> 0, phase |-> "AWAIT_ACTION", swapped |-> FALSE]
             before == [ev |-> f, pile |-> pl, depth |-> c.depth, turn |-> first]
             starts == Due(i, r) /\ ~Skips(schedule[i].kind, quiet)
             after  == IF starts THEN Started(before, schedule[i], ow, c.order) ELSE before
             j == IF Due(i, r) THEN i + 1 ELSE i
             ahead == Due(j, r + 1) /\ schedule[j].kind \in Telegraphed
             next  == IF ahead /\ quiet THEN j + 1 ELSE j
             t     == Tick(e, pl, ow, quiet, c)
  <1>1. t = [ev |-> [after.ev EXCEPT !.next = next], pile |-> after.pile,
             turn |-> after.turn, told |-> IF ahead /\ ~quiet THEN j ELSE 0]
    BY DEF Tick
  <1>2. i \in Nat /\ i # 0 /\ r \in Nat /\ j \in Nat /\ j # 0 /\ next \in Nat /\ next # 0
        /\ (next = IF ahead /\ quiet THEN j + 1 ELSE j)
    BY EventsStateHas
  <1>3. /\ f \in EventsState /\ f.round = r /\ f.relocate = {} /\ f.draft = <<>> /\ f.hive = 0
        /\ Right(f, ow)
        /\ \A a \in f.active : \E b \in e.active : a.kind = b.kind /\ a.ends = b.ends
    BY EndedFacts
  <1>4. \A a \in f.active : a.kind \in Kinds /\ a.ends <= r + Duration[a.kind] - 2
                            /\ a.ends \in Int /\ Duration[a.kind] \in Nat
    <2> TAKE a \in f.active
    <2>1. PICK b \in e.active : a.kind = b.kind /\ a.ends = b.ends
      BY <1>3
    <2>2. b \in Activity /\ b.ends <= (r - 1) + Duration[b.kind] - 1
      BY EventsStateHas DEF NoneOutlasts
    <2>3. b.kind \in Kinds /\ b.ends \in Int /\ Duration[b.kind] \in Nat
      BY <2>2, ScheduleAssumption DEF Activity
    <2> HIDE DEF f, r
    <2> QED BY <1>2, <2>1, <2>2, <2>3
  <1> HIDE DEF f, r, i, j, ahead, next
  <1>5. /\ after.ev \in EventsState /\ after.ev.round = r
        /\ after.ev.relocate = {} /\ after.ev.hive = 0 /\ Right(after.ev, ow)
        /\ after.pile \in Pile /\ after.pile.marker <= after.pile.deck
        /\ Pool(after.pile) <= Pool(pl)
        /\ after.turn \in Turn
        /\ \/ after.turn = first /\ after.ev.draft = <<>>
           \/ /\ after.turn.phase = "EVENT_DRAFT" /\ after.ev.draft # <<>>
              /\ after.turn.at = after.ev.draft[1]
        /\ NoneOutlasts(after.ev, r)
        /\ \A a \in after.ev.active : a.ends = r + Duration[a.kind] - 1 =>
             starts /\ a.kind = schedule[i].kind
        /\ starts /\ schedule[i].kind \in Telegraphed =>
             \E a \in after.ev.active : /\ a.kind = schedule[i].kind
                                        /\ a.ends = r + Duration[a.kind] - 1
    <2>0. first \in Turn
      BY Counts DEF Turn, Phases
    <2>1. CASE ~starts
      <3>1. after.ev = f /\ after.pile = pl /\ after.turn = first
        BY <2>1
      <3>2. Pool(pl) \in Nat
        BY DEF Pool, Pile
      <3>3. NoneOutlasts(f, r) /\ \A a \in f.active : a.ends # r + Duration[a.kind] - 1
        BY <1>2, <1>4 DEF NoneOutlasts
      <3> HIDE DEF after, first, starts
      <3> QED BY <1>3, <2>0, <2>1, <3>1, <3>2, <3>3
    <2>2. CASE starts
      <3> DEFINE s == schedule[i]
      <3>1. s \in Slot
        BY <1>2, <2>2, DueFacts
      <3>2. /\ s.kind = "ROLLING_STOCK_ALLOCATION_DAY" => c.order \in Orders
            /\ s.kind = "BREAKTHROUGH_BORING_MACHINE" => c.depth \in Depths(pl)
        <4>1. c \in [order : IF s.kind = "ROLLING_STOCK_ALLOCATION_DAY" THEN Orders ELSE {<<>>},
                     depth : IF s.kind = "BREAKTHROUGH_BORING_MACHINE" THEN Depths(pl) ELSE {0}]
          BY <2>2 DEF TickChoices, i, r
        <4> HIDE DEF s
        <4> QED BY <4>1
      <3> DEFINE u == Started(before, s, ow, c.order)
      <3>3. after = u
        BY <2>2
      <3> HIDE DEF after, first, starts, s, u
      <3>4. StartedWell(f, pl, s, ow, c.order, first, u)
        BY <1>3, <3>1, <3>2, StartedFacts DEF u
      <3>5. IF s.kind = "ROLLING_STOCK_ALLOCATION_DAY"
            THEN /\ u.turn \in Turn /\ u.turn.phase = "EVENT_DRAFT" /\ u.ev.draft # <<>>
                 /\ u.turn.at = u.ev.draft[1]
            ELSE u.turn \in Turn /\ u.turn = first /\ u.ev.draft = <<>>
        <4>1. CASE s.kind = "ROLLING_STOCK_ALLOCATION_DAY"
          <5>1. /\ u.ev.draft = c.order /\ c.order # <<>> /\ c.order[1] \in Seats
                /\ u.turn = [at |-> c.order[1], phase |-> "EVENT_DRAFT", swapped |-> FALSE]
            BY <3>4, <4>1 DEF StartedWell
          <5> DEFINE o == c.order[1]
          <5> HIDE DEF o
          <5>2. [at |-> o, phase |-> "EVENT_DRAFT", swapped |-> FALSE] \in Turn
            BY <5>1 DEF Turn, Phases, o
          <5> QED BY <4>1, <5>1, <5>2 DEF o
        <4>2. CASE s.kind # "ROLLING_STOCK_ALLOCATION_DAY"
          BY <1>3, <2>0, <3>4, <4>2 DEF StartedWell
        <4> QED BY <4>1, <4>2
      <3>6. NoneOutlasts(u.ev, r) /\ \A a \in u.ev.active :
              a.ends = r + Duration[a.kind] - 1 => a.kind = s.kind
        BY <1>2, <1>3, <1>4, <3>4 DEF NoneOutlasts, StartedWell
      <3>7. s.kind \in Telegraphed =>
             \E a \in u.ev.active : a.kind = s.kind /\ a.ends = r + Duration[a.kind] - 1
        <4>1. s.kind \in Telegraphed => Duration[s.kind] > 0
          BY <3>1, ScheduleAssumption DEF Slot
        <4> QED BY <1>3, <3>4, <4>1 DEF StartedWell
      <3> QED BY <1>3, <2>2, <3>3, <3>4, <3>5, <3>6, <3>7 DEF s, StartedWell
    <2> QED BY <2>1, <2>2
  <1>6. starts => Due(i, r) /\ (schedule[i].kind \notin Telegraphed => ~quiet)
    BY DEF Skips
  <1>7. Due(i, r) /\ schedule[i].kind \in Telegraphed => starts
    BY DEF Skips
  <1> HIDE DEF after, starts, first
  <1>8. /\ t.ev \in EventsState /\ t.ev.round = r /\ t.ev.next = next
        /\ t.ev.relocate = {} /\ t.ev.hive = 0 /\ t.ev.draft = after.ev.draft
        /\ t.ev.active = after.ev.active /\ t.ev.contracts = after.ev.contracts
        /\ t.pile = after.pile /\ t.turn = after.turn
        /\ t.told = IF ahead /\ ~quiet THEN j ELSE 0
    <2> DEFINE g == after.ev
    <2>1. g = [round |-> g.round, next |-> g.next, active |-> g.active,
               contracts |-> g.contracts, reopen |-> g.reopen, repaired |-> g.repaired,
               permits |-> g.permits, free |-> g.free, host |-> g.host,
               relocate |-> g.relocate, draft |-> g.draft, hive |-> g.hive]
      BY <1>5, EventsStateHas
    <2> HIDE DEF g, t
    <2>2. t.ev = [g EXCEPT !.next = next]
          /\ t.pile = after.pile /\ t.turn = after.turn
          /\ t.told = IF ahead /\ ~quiet THEN j ELSE 0
      BY <1>1 DEF g
    <2>3. t.ev = [round |-> g.round, next |-> next, active |-> g.active,
                  contracts |-> g.contracts, reopen |-> g.reopen, repaired |-> g.repaired,
                  permits |-> g.permits, free |-> g.free, host |-> g.host,
                  relocate |-> g.relocate, draft |-> g.draft, hive |-> g.hive]
      BY <2>1, <2>2
    <2>4. g \in EventsState /\ g.round = r /\ g.relocate = {} /\ g.hive = 0
      BY <1>5 DEF g
    <2>5. t.ev \in EventsState
      BY <1>2, <2>3, <2>4, EventsStateHas DEF EventsState
    <2> QED BY <2>2, <2>3, <2>4, <2>5 DEF g
  <1>9. t.told = Announced(t.ev)
    <2>1. Announced(t.ev) = IF Due(next, r + 1) /\ schedule[next].kind \in Telegraphed
                            THEN next ELSE 0
      BY <1>8 DEF Announced
    <2>2. CASE ahead /\ quiet
      <3>1. ~Due(j + 1, r + 1)
        BY <1>2, <2>2, DueOnce DEF ahead
      <3> QED BY <1>2, <1>8, <2>1, <2>2, <3>1
    <2>3. CASE ahead /\ ~quiet
      BY <1>2, <1>8, <2>1, <2>3 DEF ahead
    <2>4. CASE ~ahead
      BY <1>2, <1>8, <2>1, <2>4 DEF ahead
    <2> QED BY <2>2, <2>3, <2>4
  <1>10. Right(t.ev, ow) /\ NoneOutlasts(t.ev, r)
    BY <1>5, <1>8 DEF Right, NoneOutlasts
  <1> HIDE DEF t
  <1> QED BY <1>2, <1>5, <1>6, <1>7, <1>8, <1>9, <1>10 DEF Ticked, first, i, r, t

-----------------------------------------------------------------------------
(* The end of a turn. *)

LEMMA RoundGoesOn ==
  ASSUME NEW x \in Seats, NEW e
  PROVE  LET n == (x + Direction(e) + N) % N
         IN  /\ n \in Seats /\ x \notin Before(e, x)
             /\ n = 0 => Before(e, x) \cup {x} = Seats
             /\ n # 0 => Before(e, n) = Before(e, x) \cup {x}
PROOF
  <1> DEFINE n == (x + Direction(e) + N) % N
  <1>1. N \in Nat \ {0} /\ N > 1 /\ x \in 0 .. N - 1 /\ Seats = 0 .. N - 1
    BY Counts DEF Seats
  <1>2. CASE Direction(e) = 1
    <2>1. n = IF x = N - 1 THEN 0 ELSE x + 1
      <3>1. (x + 1 + N) % N = IF x = N - 1 THEN 0 ELSE x + 1
        BY <1>1, NextInTheRound
      <3> QED BY <1>2, <3>1
    <2>2. Before(e, x) = 0 .. x - 1 /\ Before(e, n) = 0 .. n - 1
      BY <1>2 DEF Before
    <2> HIDE DEF n
    <2>3. n \in Seats /\ x \notin 0 .. x - 1
      BY <1>1, <2>1
    <2>4. n = 0 => (0 .. x - 1) \cup {x} = Seats
      BY <1>1, <2>1
    <2>5. n # 0 => 0 .. n - 1 = (0 .. x - 1) \cup {x}
      BY <1>1, <2>1
    <2> QED BY <2>2, <2>3, <2>4, <2>5 DEF n
  <1>3. CASE Direction(e) # 1
    <2>1. n = IF x = 0 THEN N - 1 ELSE x - 1
      <3>1. Direction(e) = -1
        BY <1>3 DEF Direction
      <3>2. (x + (-1) + N) % N = IF x = 0 THEN N - 1 ELSE x - 1
        BY <1>1, NextInTheRound
      <3> QED BY <3>1, <3>2
    <2>2. /\ Before(e, x) = IF x = 0 THEN {} ELSE {0} \cup (x + 1 .. N - 1)
          /\ Before(e, n) = IF n = 0 THEN {} ELSE {0} \cup (n + 1 .. N - 1)
      BY <1>3 DEF Before
    <2> HIDE DEF n
    <2>3. n \in Seats /\ x \notin Before(e, x)
      BY <1>1, <2>1, <2>2
    <2>4. n = 0 => Before(e, x) \cup {x} = Seats
      BY <1>1, <2>1, <2>2
    <2>5. n # 0 => Before(e, n) = Before(e, x) \cup {x}
      BY <1>1, <2>1, <2>2
    <2> QED BY <2>3, <2>4, <2>5 DEF n
  <1> QED BY <1>2, <1>3

OneTurn ==
  /\ round' # {} => round \subseteq round'
  /\ round' # round => Cur \notin round
  /\ ev'.round # ev.round => round \cup {Cur} = Seats

Promises ==
  \A i \in DOMAIN schedule :
    /\ told = i /\ ev.round # ev'.round => StartsNow(i)
    /\ StartsNow(i) =>
         IF schedule[i].kind \in Telegraphed THEN told = i ELSE ~Quiet(endgame', trains')

LEMMA InvHas ==
  ASSUME Inv
  PROVE  /\ schedule \in Ordered /\ ev \in EventsState /\ pile \in Pile /\ turn \in Turn
         /\ Cur \in Seats /\ owner \in Owners /\ trains \in [Seats -> Int]
         /\ endgame \in [on : BOOLEAN, left : Int]
         /\ tunnel \in [route : Route, revealed : Nat] \cup {None} /\ round \in SUBSET Seats
         /\ pile.marker <= pile.deck /\ pile.deck \in Nat /\ pile.discard \in Nat
         /\ Pool(pile) \in Nat /\ Pool(pile) <= Cards /\ Cards \in Nat
         /\ tunnel = None => Pool(pile) + ev.hive <= Cards
         /\ tunnel # None => tunnel.route \in Route /\ tunnel.revealed \in Nat
                             /\ Pool(pile) + tunnel.revealed <= Cards
         /\ ev.hive \in Nat
PROOF
  <1>1. Typed /\ Fits(pile, tunnel, ev)
    BY DEF Inv
  <1>2. Cur \in Seats
    BY <1>1 DEF Typed, Turn, Cur
  <1>3. pile.deck \in Nat /\ pile.discard \in Nat /\ Pool(pile) \in Nat
    BY <1>1 DEF Typed, Pile, Pool
  <1>4. ev.hive \in Nat /\ Cards \in Nat
    BY <1>1, EventsStateHas, Counts DEF Typed
  <1>5. tunnel # None => tunnel.route \in Route /\ tunnel.revealed \in Nat
    BY <1>1 DEF Typed
  <1>6. pile.marker <= pile.deck
        /\ Pool(pile) + ((IF tunnel = None THEN 0 ELSE tunnel.revealed) + ev.hive) <= Cards
    BY <1>1 DEF Fits, Aside
  <1>7. tunnel = None => Pool(pile) + ev.hive <= Cards
    BY <1>3, <1>4, <1>6
  <1>8. tunnel # None => Pool(pile) + tunnel.revealed <= Cards
    BY <1>3, <1>4, <1>5, <1>6
  <1>9. Pool(pile) <= Cards
    BY <1>3, <1>4, <1>5, <1>7, <1>8
  <1> QED BY <1>1, <1>2, <1>3, <1>4, <1>5, <1>6, <1>7, <1>8, <1>9 DEF Typed

(* A table of the next round, or of this one with no decision pending: what the phase
   of its turn asks for. *)
LEMMA NothingPending ==
  ASSUME NEW e \in EventsState, e.relocate = {}, e.draft = <<>>, e.hive = 0, ev' = e,
         turn'.phase \in {"AWAIT_ACTION", "GAME_OVER"}, tunnel' = None
  PROVE  OneDecision'
BY DEF OneDecision, Phase

LEMMA EndTurnFacts ==
  ASSUME Inv, ~Phase("EVENT_DRAFT"), ~Phase("GAME_OVER"),
         NEW e \in EventsState, e.round = ev.round, e.next = ev.next, e.active = ev.active,
         e.relocate = {}, e.draft = <<>>, e.hive = 0,
         NEW pl \in Pile, pl.marker <= pl.deck, Pool(pl) <= Cards,
         NEW ow \in Owners, NEW tr \in [Seats -> Int], Right(e, ow), EndTurn(e, pl, ow, tr)
  PROVE  Inv' /\ OneTurn /\ Promises
PROOF
  <1> DEFINE end   == Countdown(tr)
             over  == endgame.on /\ end.left <= 0
             wraps == ~over /\ After(e) = 0
             next  == [e EXCEPT !.round = @ + 1]
             quiet == Quiet(end, tr)
  <1>1. /\ schedule \in Ordered /\ Cur \in Seats /\ round \in SUBSET Seats
        /\ endgame \in [on : BOOLEAN, left : Int] /\ turn \in Turn
    BY InvHas
  <1>2. /\ owner' = ow /\ trains' = tr /\ endgame' = end /\ schedule' = schedule
        /\ tunnel' = None
        /\ round' = IF wraps THEN {} ELSE round \cup {Cur}
    BY DEF EndTurn
  <1>3. end \in [on : BOOLEAN, left : Int]
    <2>1. endgame = [on |-> endgame.on, left |-> endgame.left]
          /\ endgame.on \in BOOLEAN /\ endgame.left \in Int
      BY <1>1
    <2>2. N \in Int
      BY Counts
    <2> QED BY <1>1, <2>1, <2>2 DEF Countdown
  <1>4. Pool(pl) \in Nat /\ Pool(pl) + (0 + 0) <= Cards
    BY Counts DEF Pool, Pile
  <1>5. round = Before(ev, Cur) /\ Before(ev, Cur) = Before(e, Cur)
        /\ Direction(ev) = Direction(e)
    <2>1. Direction(ev) = Direction(e)
      BY DEF Direction, Active
    <2> QED BY <2>1 DEF Inv, RoundSoFar, Before
  <1>6. /\ After(e) \in Seats /\ Cur \notin round
        /\ After(e) = 0 => round \cup {Cur} = Seats
        /\ After(e) # 0 => Before(e, After(e)) = round \cup {Cur}
    BY <1>1, <1>5, RoundGoesOn DEF After
  <1>7. round' \in SUBSET Seats
    BY <1>1, <1>2
  <1>8. told = Announced(ev) /\ NoneOutlasts(ev, ev.round)
    BY DEF Inv, ToldIsNext
  <1> HIDE DEF end
  <1>9. CASE wraps
    <2>1. PICK c \in TickChoices(e.next, next.round, pl) :
            LET t == Tick(next, pl, ow, Quiet(end, tr), c)
            IN  ev' = t.ev /\ pile' = t.pile /\ turn' = t.turn /\ told' = t.told
      BY <1>9 DEF EndTurn, end
    <2> DEFINE t == Tick(next, pl, ow, quiet, c)
    <2>2. ev' = t.ev /\ pile' = t.pile /\ turn' = t.turn /\ told' = t.told
      BY <2>1
    <2>3. /\ next \in EventsState /\ next.round = ev.round + 1 /\ next.next = ev.next
          /\ next.active = ev.active /\ next.contracts = e.contracts
          /\ next.relocate = {} /\ next.draft = <<>> /\ next.hive = 0
          /\ ev.round \in Nat
      <3>1. e = [round |-> e.round, next |-> e.next, active |-> e.active,
                 contracts |-> e.contracts, reopen |-> e.reopen, repaired |-> e.repaired,
                 permits |-> e.permits, free |-> e.free, host |-> e.host,
                 relocate |-> e.relocate, draft |-> e.draft, hive |-> e.hive]
        BY EventsStateHas
      <3> DEFINE r == e.round + 1
      <3>2. next =
                [round |-> r, next |-> e.next, active |-> e.active,
                 contracts |-> e.contracts, reopen |-> e.reopen, repaired |-> e.repaired,
                 permits |-> e.permits, free |-> e.free, host |-> e.host,
                 relocate |-> e.relocate, draft |-> e.draft, hive |-> e.hive]
        <4>1. next = [e EXCEPT !.round = r]
          OBVIOUS
        <4> HIDE DEF r, next
        <4> QED BY <3>1, <4>1
      <3>3. r \in Nat
        BY EventsStateHas
      <3>4. next \in EventsState
        <4> HIDE DEF r, next
        <4> QED BY <3>2, <3>3, EventsStateHas DEF EventsState
      <3> HIDE DEF next
      <3> QED BY <3>2, <3>4, EventsStateHas
    <2> HIDE DEF next, quiet, t
    <2>4. NoneOutlasts(next, next.round - 1) /\ Right(next, ow)
      <3>1. next.round - 1 = ev.round
        BY <2>3
      <3> QED BY <1>8, <2>3, <3>1 DEF NoneOutlasts, Right
    <2>5. quiet \in BOOLEAN /\ c \in TickChoices(next.next, next.round, pl)
      BY <2>1, <2>3 DEF quiet, Quiet
    <2>6. Ticked(next, pl, ow, quiet, t)
      BY <1>1, <2>3, <2>4, <2>5, TickFacts DEF t
    <2>7. round' = {} /\ round \cup {Cur} = Seats /\ Cur \notin round
      BY <1>2, <1>6, <1>9
    <2>8. OneTurn
      BY <2>7 DEF OneTurn
    <2>9. ev'.round = ev.round + 1 /\ ev'.round # ev.round /\ ev.round \in Nat
      BY <2>2, <2>3, <2>6 DEF Ticked
    <2>10. Promises
      <3>1. ASSUME NEW i \in DOMAIN schedule, told = i
            PROVE  StartsNow(i)
        <4>1. i \in Nat /\ i # 0
          BY <1>1, <3>1 DEF Ordered
        <4>2. i = ev.next /\ Due(i, ev.round + 1) /\ schedule[i].kind \in Telegraphed
          BY <1>8, <3>1, <4>1 DEF Announced
        <4>3. \E a \in t.ev.active : /\ a.kind = schedule[i].kind
                                     /\ a.ends = next.round + Duration[a.kind] - 1
          BY <2>3, <2>6, <4>2 DEF Ticked
        <4> QED BY <2>2, <2>3, <2>9, <4>2, <4>3 DEF StartsNow, Due
      <3>2. ASSUME NEW i \in DOMAIN schedule, StartsNow(i)
            PROVE  IF schedule[i].kind \in Telegraphed THEN told = i ELSE ~quiet
        <4>1. i \in Nat /\ i # 0 /\ i <= Len(schedule)
          BY <1>1 DEF Ordered
        <4>2. schedule[i].start = next.round /\ Due(i, next.round)
          BY <2>3, <2>9, <3>2, <4>1 DEF StartsNow, Due
        <4>3. PICK a \in t.ev.active : /\ a.kind = schedule[i].kind
                                       /\ a.ends = next.round + Duration[a.kind] - 1
          BY <2>2, <2>3, <2>9, <3>2 DEF StartsNow
        <4>4. /\ Due(next.next, next.round) /\ a.kind = schedule[next.next].kind
              /\ a.kind \notin Telegraphed => ~quiet
          BY <2>6, <4>3 DEF Ticked
        <4>5. next.next = i
          <5>1. next.next \in Nat \ {0} /\ next.round \in Nat
            BY <2>3, EventsStateHas
          <5>2. ~(next.next < i) /\ ~(i < next.next)
            BY <1>1, <4>1, <4>2, <4>4, <5>1, DueOnce
          <5> QED BY <4>1, <5>1, <5>2
        <4> QED BY <1>8, <2>3, <4>3, <4>4, <4>5 DEF Announced
      <3>3. Quiet(endgame', trains') <=> quiet
        BY <1>2 DEF quiet
      <3> QED BY <3>1, <3>2, <3>3 DEF Promises
    <2>11. Typed'
      BY <1>1, <1>2, <1>3, <1>7, <2>2, <2>6 DEF Typed, Ticked
    <2>12. OneDecision'
      <3>1. CASE t.turn = [at |-> 0, phase |-> "AWAIT_ACTION", swapped |-> FALSE]
                 /\ t.ev.draft = <<>>
        <4>1. turn'.phase = "AWAIT_ACTION"
          BY <2>2, <3>1
        <4> QED BY <1>2, <2>2, <2>6, <3>1, <4>1, NothingPending DEF Ticked
      <3>2. CASE /\ t.turn.phase = "EVENT_DRAFT" /\ t.ev.draft # <<>>
                 /\ t.turn.at = t.ev.draft[1]
        BY <1>2, <2>2, <2>6, <3>2 DEF OneDecision, Phase, Cur, Ticked
      <3> QED BY <2>6, <3>1, <3>2 DEF Ticked
    <2>13. Fits(pile', tunnel', ev')
      <3>1. t.pile \in Pile /\ Pool(t.pile) <= Pool(pl)
        BY <2>6 DEF Ticked
      <3>2. \A q \in Pile : Pool(q) \in Nat
        BY DEF Pool, Pile
      <3> DEFINE left == Pool(t.pile)
                 had  == Pool(pl)
      <3>3. left \in Nat /\ had \in Nat /\ left <= had /\ had <= Cards /\ Cards \in Nat
        BY <1>4, <3>1, <3>2, Counts
      <3>4. left \in Nat /\ left <= Cards
        <4> HIDE DEF left, had
        <4> QED BY <3>3
      <3> QED BY <1>2, <2>2, <2>6, <3>4 DEF Ticked, Fits, Aside
    <2>14. RoundSoFar'
      <3>1. CASE turn'.phase = "EVENT_DRAFT"
        BY <2>7, <3>1 DEF RoundSoFar, Phase
      <3>2. CASE turn' = [at |-> 0, phase |-> "AWAIT_ACTION", swapped |-> FALSE]
        <4>1. Before(ev', 0) = {}
          BY DEF Before
        <4> QED BY <2>7, <3>2, <4>1 DEF RoundSoFar, Phase, Cur
      <3> QED BY <2>2, <2>6, <3>1, <3>2 DEF Ticked
    <2>15. ToldIsNext'
      <3>1. told' = Announced(t.ev)
        BY <2>2, <2>6 DEF Ticked
      <3> QED BY <1>2, <2>2, <3>1 DEF ToldIsNext, Announced, Due
    <2>16. NoneOutlasts(ev', ev'.round) /\ Right(ev', owner')
      BY <1>2, <2>2, <2>6 DEF Ticked
    <2>17. TunnelIsOpen'
      BY <1>2 DEF TunnelIsOpen
    <2> QED BY <2>8, <2>10, <2>11, <2>12, <2>13, <2>14, <2>15, <2>16, <2>17
               DEF Inv, Fits, Aside, Pool, NoneOutlasts, Right, Joined, Reached, Grown
  <1>10. CASE ~wraps
    <2>1. /\ ev' = e /\ pile' = pl /\ told' = told
          /\ turn' = IF over THEN [turn EXCEPT !.phase = "GAME_OVER"]
                     ELSE [at |-> After(e), phase |-> "AWAIT_ACTION", swapped |-> FALSE]
          /\ round' = round \cup {Cur}
      BY <1>2, <1>10 DEF EndTurn, end
    <2>2. turn' \in Turn /\ turn'.phase \in {"AWAIT_ACTION", "GAME_OVER"}
          /\ (~over => turn'.at = After(e) /\ turn'.phase = "AWAIT_ACTION")
          /\ (over => turn'.phase = "GAME_OVER")
      <3> HIDE DEF over
      <3> QED BY <1>1, <1>6, <2>1 DEF Turn, Phases
    <2>3. OneTurn
      BY <1>6, <2>1 DEF OneTurn
    <2>4. Promises
      <3>1. ev'.round = ev.round
        BY <2>1
      <3> QED BY <3>1 DEF Promises, StartsNow
    <2>5. Typed'
      BY <1>1, <1>2, <1>3, <1>7, <2>1, <2>2 DEF Typed
    <2>6. OneDecision'
      BY <1>2, <2>1, <2>2, NothingPending
    <2>7. Fits(pile', tunnel', ev')
      BY <1>2, <1>4, <2>1 DEF Fits, Aside
    <2>8. RoundSoFar'
      <3>1. CASE over
        BY <2>2, <3>1 DEF RoundSoFar, Phase
      <3>2. CASE ~over
        <4>1. After(e) # 0
          BY <1>10, <3>2
        <4>2. Cur' = After(e) /\ ~Phase("EVENT_DRAFT")'
          BY <2>2, <3>2 DEF Cur, Phase
        <4> QED BY <1>6, <2>1, <4>1, <4>2 DEF RoundSoFar
      <3> QED BY <3>1, <3>2
    <2>9. ToldIsNext'
      BY <1>2, <1>8, <2>1 DEF ToldIsNext, Announced, Due
    <2>10. NoneOutlasts(ev', ev'.round) /\ Right(ev', owner')
      BY <1>2, <1>8, <2>1 DEF NoneOutlasts
    <2>11. TunnelIsOpen'
      BY <1>2 DEF TunnelIsOpen
    <2> QED BY <2>3, <2>4, <2>5, <2>6, <2>7, <2>8, <2>9, <2>10, <2>11
               DEF Inv, Fits, Aside, Pool, NoneOutlasts, Right, Joined, Reached, Grown
  <1> QED BY <1>9, <1>10

-----------------------------------------------------------------------------
(* A step within a turn. *)

LEMMA WithinATurn ==
  ASSUME Inv, ~Phase("EVENT_DRAFT"), ~Phase("GAME_OVER"),
         ev' \in EventsState, ev'.round = ev.round, ev'.next = ev.next, ev'.active = ev.active,
         pile' \in Pile, Fits(pile', tunnel', ev'),
         turn' \in Turn, turn'.at = turn.at, turn'.phase \notin {"EVENT_DRAFT", "GAME_OVER"},
         owner' \in Owners, trains' \in [Seats -> Int], Right(ev', owner'),
         tunnel' \in [route : Route, revealed : Nat] \cup {None}, TunnelIsOpen', OneDecision',
         UNCHANGED <<schedule, endgame, history>>
  PROVE  Inv' /\ OneTurn /\ Promises
PROOF
  <1>1. schedule' = schedule /\ endgame' = endgame /\ told' = told /\ round' = round
    BY DEF history
  <1>2. Typed'
    BY <1>1, InvHas DEF Typed
  <1>3. RoundSoFar'
    <2>1. Before(ev', Cur) = Before(ev, Cur)
      BY DEF Before, Direction, Active
    <2>2. Cur' = Cur /\ round = Before(ev, Cur)
      BY DEF Cur, Inv, RoundSoFar
    <2> QED BY <1>1, <2>1, <2>2 DEF RoundSoFar, Phase
  <1>4. ToldIsNext'
    BY <1>1 DEF Inv, ToldIsNext, Announced, Due
  <1>5. NoneOutlasts(ev', ev'.round)
    BY DEF Inv, NoneOutlasts
  <1>6. OneTurn
    BY <1>1 DEF OneTurn
  <1>7. Promises
    BY DEF Promises, StartsNow
  <1> QED BY <1>2, <1>3, <1>4, <1>5, <1>6, <1>7
             DEF Inv, Fits, Aside, Pool, NoneOutlasts, Right, Joined, Reached, Grown

(* What a phase leaves open: nothing but its own decision. *)
LEMMA PendingFacts ==
  ASSUME Inv
  PROVE  /\ ~Phase("LANTERN_RELOCATION") => ev.relocate = {}
         /\ ~Phase("EVENT_DRAFT") => ev.draft = <<>>
         /\ ~Phase("HIVE_DRAW") => ev.hive = 0
         /\ ~Phase("TUNNEL_PENDING") => tunnel = None
         /\ Phase("TUNNEL_PENDING") => tunnel # None
         /\ First => /\ ~Phase("LANTERN_RELOCATION") /\ ~Phase("EVENT_DRAFT")
                     /\ ~Phase("HIVE_DRAW") /\ ~Phase("TUNNEL_PENDING") /\ ~Phase("GAME_OVER")
BY DEF Inv, OneDecision, First, Phase

LEMMA InitInv == Init => Inv
PROOF
  <1> SUFFICES ASSUME Init PROVE Inv
    OBVIOUS
  <1>1. schedule \in Ordered
    BY SchedulesAreOrdered DEF Init
  <1>2. /\ ev = [round |-> 1, next |-> 1, active |-> {}, contracts |-> {}, reopen |-> {},
                 repaired |-> {}, permits |-> [p \in Seats |-> 0], free |-> 0, host |-> None,
                 relocate |-> {}, draft |-> <<>>, hive |-> 0]
        /\ pile = [deck |-> DeckStart, discard |-> 0, marker |-> 0]
        /\ turn = [at |-> 0, phase |-> "AWAIT_ACTION", swapped |-> FALSE]
        /\ owner = [r \in Route |-> None] /\ trains = [p \in Seats |-> TrainsStart]
        /\ endgame = [on |-> FALSE, left |-> 0]
        /\ tunnel = None /\ round = {}
        /\ told = IF Due(1, 2) /\ schedule[1].kind \in Telegraphed THEN 1 ELSE 0
    BY DEF Init
  <1>3. ev \in EventsState
    BY <1>2 DEF EventsState
  <1>4. pile \in Pile /\ turn \in Turn /\ owner \in Owners /\ trains \in [Seats -> Int]
        /\ endgame \in [on : BOOLEAN, left : Int]
    BY <1>2, Counts DEF Pile, Turn, Phases, Owners
  <1>5. Typed
    BY <1>1, <1>2, <1>3, <1>4 DEF Typed
  <1>6. OneDecision
    BY <1>2 DEF OneDecision, Phase
  <1>7. Fits(pile, tunnel, ev)
    BY <1>2, Counts DEF Fits, Aside, Pool
  <1>8. RoundSoFar
    <2>1. Before(ev, 0) = {}
      BY DEF Before
    <2> QED BY <1>2, <2>1 DEF RoundSoFar, Phase, Cur
  <1>9. ToldIsNext /\ NoneOutlasts(ev, ev.round) /\ Right(ev, owner) /\ TunnelIsOpen
    BY <1>2 DEF ToldIsNext, Announced, NoneOutlasts, Right, TunnelIsOpen
  <1> QED BY <1>5, <1>6, <1>7, <1>8, <1>9 DEF Inv

-----------------------------------------------------------------------------
(* The actions. *)

LEMMA DrawnFits ==
  ASSUME NEW pl \in Pile, NEW n \in Nat, pl.marker <= pl.deck
  PROVE  /\ Drawn(pl, n) \in Pile /\ Drawn(pl, n).marker <= Drawn(pl, n).deck
         /\ Pool(Drawn(pl, n)) \in Nat /\ Pool(pl) \in Nat
         /\ Pool(Drawn(pl, n)) <= Pool(pl)
         /\ n = 1 /\ Pool(pl) > 0 => Pool(Drawn(pl, n)) = Pool(pl) - 1
PROOF
  <1> DEFINE d == Min({n, Pool(pl)})
  <1>1. /\ Drawn(pl, n) \in Pile /\ Drawn(pl, n).marker <= Drawn(pl, n).deck
        /\ Pool(Drawn(pl, n)) = Pool(pl) - d /\ d \in Nat /\ d <= Pool(pl)
    BY DrawnFacts
  <1>2. Pool(pl) \in Nat
    BY DEF Pool, Pile
  <1>3. n = 1 /\ Pool(pl) > 0 => d = 1
    <2>1. d = IF n <= Pool(pl) THEN n ELSE Pool(pl)
      BY <1>2, MinOfTwo
    <2> HIDE DEF d
    <2> QED BY <1>2, <2>1
  <1> HIDE DEF d
  <1> QED BY <1>1, <1>2, <1>3

LEMMA OrdinaryInv ==
  ASSUME Inv, NEW n \in Nat, Ordinary(n)
  PROVE  Inv' /\ OneTurn /\ Promises
PROOF
  <1> DEFINE pl == Drawn(pile, n)
  <1>1. First /\ EndTurn(ev, pl, owner, trains)
    BY DEF Ordinary
  <1>2. pl \in Pile /\ pl.marker <= pl.deck /\ Pool(pl) <= Cards
    BY InvHas, DrawnFits
  <1>3. Right(ev, owner)
    BY DEF Inv
  <1> HIDE DEF pl
  <1> QED BY <1>1, <1>2, <1>3, InvHas, PendingFacts, EndTurnFacts

LEMMA FreeStationInv ==
  ASSUME Inv, FreeStation
  PROVE  Inv' /\ OneTurn /\ Promises
PROOF
  <1> DEFINE e == [ev EXCEPT !.free = 0]
  <1>1. First /\ EndTurn(e, pile, owner, trains)
    BY DEF FreeStation
  <1>2. e \in EventsState /\ e.round = ev.round /\ e.next = ev.next /\ e.active = ev.active
        /\ e.contracts = ev.contracts /\ e.relocate = ev.relocate /\ e.draft = ev.draft
        /\ e.hive = ev.hive
    BY InvHas DEF EventsState
  <1>3. Right(e, owner)
    BY <1>2 DEF Inv, Right
  <1> HIDE DEF e
  <1> QED BY <1>1, <1>2, <1>3, InvHas, PendingFacts, EndTurnFacts

(* A claim leaves every contract right: the network of the claimer grows, the others'
   stay as they are. *)
LEMMA ClaimedFacts ==
  ASSUME Inv, NEW r \in Route, owner[r] = None
  PROVE  LET ow == Claimed(r)
         IN  /\ ow \in Owners
             /\ \A c \in ev.contracts :
                  LET a == Awarded(c, ow, {Cur})
                  IN  /\ a \in Contract
                      /\ IF a.won = None THEN \A p \in Seats : ~Joined(ow, p, a.pair)
                         ELSE Joined(ow, a.won, a.pair)
PROOF
  <1> DEFINE ow == Claimed(r)
  <1>1. owner \in Owners /\ Cur \in Seats /\ None \notin Seats /\ Locked \notin Seats
    BY InvHas, Counts
  <1> DEFINE full == Cardinality({s \in Twins[r] : owner[s] \in Seats}) + 1 >= OpenTracks[r]
  <1>2. ow = [s \in Route |-> IF full /\ s \in Twins[r] /\ owner[s] = None THEN Locked
                                          ELSE [owner EXCEPT ![r] = Cur][s]]
    BY DEF Claimed
  <1> HIDE DEF ow, full
  <1>3. ow \in Owners
    BY <1>1, <1>2 DEF Owners
  <1>4. /\ \A p \in Seats \ {Cur} : \A s \in Route : owner[s] = p <=> ow[s] = p
        /\ \A s \in Route : owner[s] = Cur => ow[s] = Cur
    BY <1>1, <1>2 DEF Owners
  <1>5. ASSUME NEW c \in ev.contracts
        PROVE  /\ Awarded(c, ow, {Cur}) \in Contract
               /\ IF Awarded(c, ow, {Cur}).won = None
                  THEN \A p \in Seats : ~Joined(ow, p, Awarded(c, ow, {Cur}).pair)
                  ELSE Joined(ow, Awarded(c, ow, {Cur}).won, Awarded(c, ow, {Cur}).pair)
    <2>1. c \in Contract /\ c.pair \in SUBSET City /\ c.pair # {} /\ c.won \in Seats \cup {None}
      BY InvHas, EventsStateHas DEF Contract
    <2>2. IF c.won = None THEN \A p \in Seats : ~Joined(owner, p, c.pair)
          ELSE Joined(owner, c.won, c.pair)
      BY DEF Inv, Right
    <2>3. c.won = None => \A p \in Seats \ {Cur} : ~Joined(ow, p, c.pair)
      <3> SUFFICES ASSUME c.won = None, NEW p \in Seats \ {Cur} PROVE ~Joined(ow, p, c.pair)
        OBVIOUS
      <3>1. \A s \in Route : owner[s] = p <=> ow[s] = p
        BY <1>4
      <3> QED BY <2>2, <3>1, JoinedIsOwn
    <2>4. c.won # None => Joined(ow, c.won, c.pair)
      <3> SUFFICES ASSUME c.won # None PROVE Joined(ow, c.won, c.pair)
        OBVIOUS
      <3>1. \A s \in Route : owner[s] = c.won => ow[s] = c.won
        BY <1>4, <2>1
      <3> QED BY <2>1, <2>2, <3>1, JoinedIsMonotonic
    <2>5. {Cur} \in SUBSET Seats
      BY <1>1
    <2>6. IF c.won = None THEN \A p \in Seats \ {Cur} : ~Joined(ow, p, c.pair)
          ELSE Joined(ow, c.won, c.pair)
      BY <2>3, <2>4
    <2> QED BY <2>1, <2>5, <2>6, AwardedFacts
  <1> QED BY <1>3, <1>5 DEF ow

LEMMA ClaimEffectsInv ==
  ASSUME Inv, First \/ Phase("TUNNEL_PENDING"), NEW r \in Route, owner[r] = None,
         NEW pl \in Pile, pl.marker <= pl.deck, Pool(pl) <= Cards, ClaimEffects(r, pl)
  PROVE  Inv' /\ OneTurn /\ Promises
PROOF
  <1> DEFINE ow      == Claimed(r)
             tr      == [trains EXCEPT ![Cur] = @ - Length[r]]
             n       == IF Palanquin(ev) \cap Ends[r] # {} THEN 1 ELSE 0
             blessed == Drawn(pl, n)
             cs      == {Awarded(c, ow, {Cur}) : c \in ev.contracts}
             reopen  == ev.reopen \ {r}
             e       == [ev EXCEPT !.reopen = reopen, !.contracts = cs]
             places  == IF ev.host \in Ends[r] THEN Network(ow, Cur) \ {ev.host} ELSE {}
  <1>1. /\ ~Phase("EVENT_DRAFT") /\ ~Phase("GAME_OVER") /\ ~Phase("HIVE_DRAW")
        /\ ~Phase("LANTERN_RELOCATION")
        /\ ev.relocate = {} /\ ev.draft = <<>> /\ ev.hive = 0
    <2>1. ~Phase("EVENT_DRAFT") /\ ~Phase("GAME_OVER") /\ ~Phase("HIVE_DRAW")
          /\ ~Phase("LANTERN_RELOCATION")
      BY DEF First, Phase
    <2> QED BY <2>1, PendingFacts
  <1>2. ow \in Owners /\ \A c \in cs : c \in Contract /\
          IF c.won = None THEN \A p \in Seats : ~Joined(ow, p, c.pair)
          ELSE Joined(ow, c.won, c.pair)
    BY ClaimedFacts
  <1>3. tr \in [Seats -> Int]
    <2>1. Length[r] \in Nat
      BY BoardAssumption
    <2> QED BY <2>1, InvHas
  <1>4. blessed \in Pile /\ blessed.marker <= blessed.deck /\ Pool(blessed) <= Cards
        /\ Pool(blessed) \in Nat
    <2>1. n \in Nat
      OBVIOUS
    <2> HIDE DEF n
    <2> QED BY <2>1, DrawnFits, Counts
  <1>5. e \in EventsState /\ e.round = ev.round /\ e.next = ev.next /\ e.active = ev.active
        /\ e.contracts = cs /\ e.relocate = {} /\ e.draft = <<>> /\ e.hive = 0 /\ e.host = ev.host
    <2>1. cs \in SUBSET Contract /\ reopen \in SUBSET Place
      BY <1>2, InvHas, EventsStateHas
    <2>2. ev \in EventsState
      BY InvHas
    <2> HIDE DEF cs, reopen
    <2> QED BY <1>1, <2>1, <2>2 DEF EventsState
  <1>6. Right(e, ow)
    <2> HIDE DEF e, ow
    <2> QED BY <1>2, <1>5 DEF Right
  <1>7. IF places = {} THEN EndTurn(e, blessed, ow, tr)
        ELSE /\ turn' = [turn EXCEPT !.phase = "LANTERN_RELOCATION"]
             /\ ev' = [e EXCEPT !.relocate = places] /\ pile' = blessed
             /\ owner' = ow /\ trains' = tr /\ tunnel' = None
             /\ UNCHANGED <<schedule, endgame, history>>
    BY DEF ClaimEffects
  <1>8. CASE places = {}
    <2>1. EndTurn(e, blessed, ow, tr)
      BY <1>7, <1>8
    <2> HIDE DEF e, blessed, ow, tr
    <2> QED BY <1>1, <1>2, <1>3, <1>4, <1>5, <1>6, <2>1, EndTurnFacts
  <1>9. CASE places # {}
    <2>1. /\ turn' = [turn EXCEPT !.phase = "LANTERN_RELOCATION"]
          /\ ev' = [e EXCEPT !.relocate = places] /\ pile' = blessed
          /\ owner' = ow /\ trains' = tr /\ tunnel' = None
          /\ UNCHANGED <<schedule, endgame, history>>
      BY <1>7, <1>9
    <2>2. places \subseteq Network(ow, Cur) \ {ev.host} /\ places \in SUBSET City
      BY BoardAssumption DEF Network, kSubset
    <2> HIDE DEF e, blessed, ow, tr, places
    <2>3. turn' \in Turn /\ turn'.at = turn.at /\ turn'.phase = "LANTERN_RELOCATION"
      BY <2>1, InvHas DEF Turn, Phases
    <2>4. /\ ev' \in EventsState /\ ev'.round = ev.round /\ ev'.next = ev.next
          /\ ev'.active = ev.active /\ ev'.contracts = cs /\ ev'.relocate = places
          /\ ev'.draft = <<>> /\ ev'.hive = 0 /\ ev'.host = ev.host
      BY <1>5, <2>1, <2>2 DEF EventsState
    <2>5. Right(ev', owner')
      BY <1>5, <1>6, <2>1, <2>4 DEF Right
    <2>6. OneDecision'
      BY <1>9, <2>1, <2>2, <2>3, <2>4 DEF OneDecision, Phase, Cur, Network
    <2>7. Fits(pile', tunnel', ev')
      BY <1>4, <2>1, <2>4, Counts DEF Fits, Aside
    <2>8. TunnelIsOpen'
      BY <2>1 DEF TunnelIsOpen
    <2> QED BY <1>1, <1>2, <1>3, <1>4, <2>1, <2>3, <2>4, <2>5, <2>6, <2>7, <2>8, WithinATurn
  <1> QED BY <1>8, <1>9

LEMMA ClaimRouteInv ==
  ASSUME Inv, NEW r \in Route, ClaimRoute(r)
  PROVE  Inv' /\ OneTurn /\ Promises
PROOF
  <1> DEFINE pl == Thrown(pile, Length[r])
  <1>1. First /\ owner[r] = None /\ Length[r] <= Held(pile) /\ ClaimEffects(r, pl)
    BY DEF ClaimRoute, Claimable
  <1>2. Length[r] \in Nat
    BY BoardAssumption
  <1>3. pl \in Pile /\ pl.marker <= pl.deck /\ Pool(pl) = Pool(pile) + Length[r]
    BY <1>2, InvHas, ThrownFacts
  <1>4. Pool(pl) <= Cards
    BY <1>1, <1>2, <1>3, InvHas DEF Held
  <1> HIDE DEF pl
  <1> QED BY <1>1, <1>3, <1>4, ClaimEffectsInv

LEMMA BeginTunnelInv ==
  ASSUME Inv, NEW r \in Route, BeginTunnel(r)
  PROVE  Inv' /\ OneTurn /\ Promises
PROOF
  <1> DEFINE n  == Min({RevealCount(ev, pile), Pool(pile)})
             pl == Drawn(pile, n)
  <1>1. /\ First /\ owner[r] = None
        /\ tunnel' = [route |-> r, revealed |-> n]
        /\ turn' = [turn EXCEPT !.phase = "TUNNEL_PENDING"] /\ ev' = ev /\ pile' = pl
        /\ UNCHANGED <<schedule, table, history>>
    BY DEF BeginTunnel, Claimable, Goes
  <1>2. RevealCount(ev, pile) \in Nat /\ Pool(pile) \in Nat
    <2>1. Reveal \in Nat
      BY Counts
    <2> QED BY <2>1, InvHas DEF RevealCount
  <1> DEFINE c == RevealCount(ev, pile)
             m == Pool(pile)
  <1>3. n \in Nat /\ n <= Pool(pile)
    <2> HIDE DEF c, m
    <2>1. c \in Nat /\ m \in Nat
      BY <1>2 DEF c, m
    <2>2. Min({c, m}) = IF c <= m THEN c ELSE m
      BY <2>1, MinOfTwo
    <2>3. Min({c, m}) \in Nat /\ Min({c, m}) <= m
      BY <2>1, <2>2
    <2> QED BY <2>3 DEF c, m
  <1> HIDE DEF n
  <1>4. /\ pl \in Pile /\ pl.marker <= pl.deck
        /\ Pool(pl) = Pool(pile) - n
    <2>1. /\ pl \in Pile /\ pl.marker <= pl.deck
          /\ Pool(pl) = Pool(pile) - Min({n, Pool(pile)})
      BY <1>3, InvHas, DrawnFacts
    <2>2. Min({n, Pool(pile)}) = n
      BY <1>2, <1>3, MinOfTwo
    <2> QED BY <2>1, <2>2
  <1> HIDE DEF pl, c, m
  <1>5. /\ ev.relocate = {} /\ ev.draft = <<>> /\ ev.hive = 0
        /\ ~Phase("EVENT_DRAFT") /\ ~Phase("GAME_OVER")
    BY <1>1, PendingFacts
  <1>6. turn' \in Turn /\ turn'.at = turn.at /\ turn'.phase = "TUNNEL_PENDING"
    BY <1>1, InvHas DEF Turn, Phases
  <1>7. tunnel' \in [route : Route, revealed : Nat] /\ tunnel' # None
    <2>1. tunnel' \in [route : Route, revealed : Nat]
      BY <1>1, <1>3
    <2> QED BY <2>1, BoardAssumption
  <1>8. OneDecision'
    BY <1>1, <1>5, <1>6, <1>7 DEF OneDecision, Phase
  <1>9. Fits(pile', tunnel', ev')
    <2>1. Pool(pl) + (n + 0) <= Cards
      BY <1>3, <1>4, InvHas
    <2> QED BY <1>1, <1>4, <1>5, <1>7, <2>1 DEF Fits, Aside
  <1>10. owner' = owner /\ trains' = trains /\ endgame' = endgame
    BY <1>1 DEF table
  <1>11. TunnelIsOpen' /\ Right(ev', owner')
    BY <1>1, <1>10 DEF TunnelIsOpen, Inv
  <1> QED BY <1>1, <1>4, <1>5, <1>6, <1>7, <1>8, <1>9, <1>10, <1>11, InvHas, WithinATurn

LEMMA AbortTunnelInv ==
  ASSUME Inv, AbortTunnel
  PROVE  Inv' /\ OneTurn /\ Promises
PROOF
  <1> DEFINE back == Thrown(pile, tunnel.revealed)
             n    == IF Active(ev, "AFTERSHOCK") THEN 1 ELSE 0
             pl   == Drawn(back, n)
  <1>1. Phase("TUNNEL_PENDING") /\ EndTurn(ev, pl, owner, trains)
    BY DEF AbortTunnel
  <1>2. /\ ~Phase("LANTERN_RELOCATION") /\ ~Phase("EVENT_DRAFT") /\ ~Phase("HIVE_DRAW")
        /\ ~Phase("GAME_OVER")
    BY <1>1 DEF Phase
  <1>3. tunnel # None /\ ev.relocate = {} /\ ev.draft = <<>> /\ ev.hive = 0
    BY <1>1, <1>2, PendingFacts
  <1>4. back \in Pile /\ back.marker <= back.deck /\ Pool(back) <= Cards
    <2>1. /\ back \in Pile /\ back.marker <= back.deck
          /\ Pool(back) = Pool(pile) + tunnel.revealed
      BY <1>3, InvHas, ThrownFacts
    <2> QED BY <1>3, <2>1, InvHas
  <1>5. n \in Nat
    OBVIOUS
  <1> HIDE DEF back, n
  <1>6. pl \in Pile /\ pl.marker <= pl.deck /\ Pool(pl) <= Cards
    <2>1. pl \in Pile /\ pl.marker <= pl.deck /\ Pool(pl) <= Pool(back)
          /\ Pool(pl) \in Nat /\ Pool(back) \in Nat
      BY <1>4, <1>5, DrawnFits
    <2> HIDE DEF pl
    <2> QED BY <1>4, <2>1, InvHas
  <1>7. Right(ev, owner)
    BY DEF Inv
  <1> HIDE DEF pl
  <1> QED BY <1>1, <1>2, <1>3, <1>6, <1>7, InvHas, EndTurnFacts

LEMMA CommitTunnelInv ==
  ASSUME Inv, NEW extra \in Nat, CommitTunnel(extra)
  PROVE  Inv' /\ OneTurn /\ Promises
PROOF
  <1> DEFINE r    == tunnel.route
             paid == Length[r] + extra + tunnel.revealed
             pl   == Thrown(pile, paid)
  <1>1. Phase("TUNNEL_PENDING") /\ paid <= Held(pile) /\ ClaimEffects(r, pl)
    BY DEF CommitTunnel
  <1>2. tunnel # None /\ r \in Route /\ tunnel.revealed \in Nat
    BY <1>1, PendingFacts, InvHas
  <1>3. owner[r] = None
    BY <1>2 DEF Inv, TunnelIsOpen
  <1>4. paid \in Nat
    BY <1>2, BoardAssumption
  <1>5. pl \in Pile /\ pl.marker <= pl.deck /\ Pool(pl) = Pool(pile) + paid
    BY <1>4, InvHas, ThrownFacts
  <1> HIDE DEF paid, pl
  <1>6. Pool(pl) <= Cards
    BY <1>1, <1>4, <1>5, InvHas DEF Held
  <1> HIDE DEF r
  <1> QED BY <1>1, <1>2, <1>3, <1>5, <1>6, ClaimEffectsInv

LEMMA RelocateInv ==
  ASSUME Inv, NEW c \in City, RelocateLanternHost(c)
  PROVE  Inv' /\ OneTurn /\ Promises
PROOF
  <1> DEFINE e == [ev EXCEPT !.host = c, !.relocate = {}]
  <1>1. Phase("LANTERN_RELOCATION") /\ EndTurn(e, pile, owner, trains)
    BY DEF RelocateLanternHost
  <1>2. ~Phase("EVENT_DRAFT") /\ ~Phase("HIVE_DRAW") /\ ~Phase("GAME_OVER")
    BY <1>1 DEF Phase
  <1>3. ev.draft = <<>> /\ ev.hive = 0
    BY <1>2, PendingFacts
  <1>4. e \in EventsState /\ e.round = ev.round /\ e.next = ev.next /\ e.active = ev.active
        /\ e.contracts = ev.contracts /\ e.relocate = {} /\ e.draft = <<>> /\ e.hive = 0
    BY <1>3, InvHas DEF EventsState
  <1>5. Right(e, owner)
    BY <1>4 DEF Inv, Right
  <1> HIDE DEF e
  <1> QED BY <1>1, <1>2, <1>4, <1>5, InvHas, EndTurnFacts

LEMMA RepairInv ==
  ASSUME Inv, NEW r \in Route, RepairRoute(r)
  PROVE  Inv' /\ OneTurn /\ Promises
PROOF
  <1> DEFINE e == [ev EXCEPT !.repaired = @ \cup {r}]
             p == [e EXCEPT !.permits[Cur] = @ - 1]
             pl == Thrown(pile, 2)
  <1>1. First /\ \/ 2 <= Held(pile) /\ EndTurn(e, pl, owner, trains)
                 \/ ev.permits[Cur] > 0 /\ EndTurn(p, pile, owner, trains)
    BY DEF RepairRoute
  <1>2. Cur \in Seats
    BY InvHas
  <1> DEFINE repaired == ev.repaired \cup {r}
             permits  == [ev.permits EXCEPT ![Cur] = @ - 1]
  <1>3. repaired \in SUBSET Place
    BY InvHas, EventsStateHas DEF Place
  <1>4. e \in EventsState /\ e.round = ev.round /\ e.next = ev.next /\ e.active = ev.active
        /\ e.contracts = ev.contracts /\ e.relocate = ev.relocate /\ e.draft = ev.draft
        /\ e.hive = ev.hive /\ e.permits = ev.permits
    <2>1. e = [ev EXCEPT !.repaired = repaired]
      BY InvHas DEF EventsState
    <2> HIDE DEF repaired, e
    <2> QED BY <1>3, <2>1, InvHas DEF EventsState
  <1>5. Right(e, owner)
    BY <1>4 DEF Inv, Right
  <1>6. CASE 2 <= Held(pile) /\ EndTurn(e, pl, owner, trains)
    <2>1. pl \in Pile /\ pl.marker <= pl.deck /\ Pool(pl) = Pool(pile) + 2
      BY InvHas, ThrownFacts
    <2> HIDE DEF pl, e
    <2>2. Pool(pl) <= Cards
      BY <1>6, <2>1, InvHas DEF Held
    <2> QED BY <1>1, <1>4, <1>5, <1>6, <2>1, <2>2, InvHas, PendingFacts, EndTurnFacts
  <1>7. CASE ev.permits[Cur] > 0 /\ EndTurn(p, pile, owner, trains)
    <2>1. ev.permits[Cur] \in Nat /\ ev.permits \in [Seats -> Nat]
      BY <1>2, InvHas, EventsStateHas
    <2>2. permits \in [Seats -> Nat]
      BY <1>2, <1>7, <2>1
    <2>3. p = [e EXCEPT !.permits = permits]
      <3>1. e.permits = ev.permits
        BY <1>4
      <3> HIDE DEF e
      <3> QED BY <1>4, <3>1 DEF EventsState
    <2> HIDE DEF p, e, permits
    <2>4. p \in EventsState /\ p.round = ev.round /\ p.next = ev.next /\ p.active = ev.active
          /\ p.contracts = ev.contracts /\ p.relocate = ev.relocate /\ p.draft = ev.draft
          /\ p.hive = ev.hive
      BY <1>4, <2>2, <2>3 DEF EventsState
    <2>5. Right(p, owner)
      BY <2>4 DEF Inv, Right
    <2> QED BY <1>1, <1>7, <2>4, <2>5, InvHas, PendingFacts, EndTurnFacts
  <1> QED BY <1>1, <1>6, <1>7

LEMMA SwapInv ==
  ASSUME Inv, NEW n \in Nat, NightMarketSwap(n)
  PROVE  Inv' /\ OneTurn /\ Promises
PROOF
  <1> DEFINE pl == Drawn(pile, n)
  <1>1. /\ First /\ turn' = [turn EXCEPT !.swapped = TRUE] /\ pile' = pl
        /\ UNCHANGED <<schedule, ev, table, tunnel, history>>
    BY DEF NightMarketSwap
  <1>2. pl \in Pile /\ pl.marker <= pl.deck /\ Pool(pl) <= Pool(pile) /\ Pool(pl) \in Nat
    BY InvHas, DrawnFits
  <1> HIDE DEF pl
  <1>3. /\ ev.relocate = {} /\ ev.draft = <<>> /\ ev.hive = 0 /\ tunnel = None
        /\ ~Phase("EVENT_DRAFT") /\ ~Phase("GAME_OVER")
    BY <1>1, PendingFacts
  <1>4. turn' \in Turn /\ turn'.at = turn.at /\ turn'.phase = "AWAIT_ACTION"
    BY <1>1, InvHas DEF Turn, Phases, First, Phase
  <1>5. /\ owner' = owner /\ trains' = trains /\ endgame' = endgame /\ tunnel' = None
        /\ ev' = ev
    BY <1>1, <1>3 DEF table
  <1>6. OneDecision'
    BY <1>3, <1>4, <1>5, InvHas, NothingPending
  <1>7. Fits(pile', tunnel', ev')
    <2>1. Pool(pl) + (0 + 0) <= Cards
      BY <1>2, InvHas
    <2> QED BY <1>1, <1>2, <1>3, <1>5, <2>1 DEF Fits, Aside
  <1>8. TunnelIsOpen' /\ Right(ev', owner')
    BY <1>5 DEF TunnelIsOpen, Inv
  <1> QED BY <1>1, <1>2, <1>3, <1>4, <1>5, <1>6, <1>7, <1>8, InvHas, WithinATurn

LEMMA PerkInv ==
  ASSUME Inv, NEW perk, ChooseEventPerk(perk)
  PROVE  Inv' /\ OneTurn /\ Promises
PROOF
  <1> DEFINE e  == [ev EXCEPT !.draft = Tail(@),
                              !.permits[Cur] = IF perk = "REPAIR_PERMIT" THEN @ + 1 ELSE @]
             n  == IF perk = "DRAW_TWO" THEN 2 ELSE 0
             pl == Drawn(pile, n)
             resumes == e.draft = <<>>
             permits == [ev.permits EXCEPT ![Cur] = IF perk = "REPAIR_PERMIT" THEN @ + 1 ELSE @]
             draft   == Tail(ev.draft)
  <1>1. /\ Phase("EVENT_DRAFT") /\ ev' = e /\ pile' = pl
        /\ turn' = [turn EXCEPT !.at = IF resumes THEN 0 ELSE e.draft[1],
                                !.phase = IF resumes THEN "AWAIT_ACTION" ELSE @]
        /\ UNCHANGED <<schedule, table, tunnel, history>>
    BY DEF ChooseEventPerk, Resume
  <1>2. /\ ~Phase("LANTERN_RELOCATION") /\ ~Phase("HIVE_DRAW") /\ ~Phase("TUNNEL_PENDING")
        /\ ~Phase("GAME_OVER")
    BY <1>1 DEF Phase
  <1>3. ev.relocate = {} /\ ev.hive = 0 /\ tunnel = None
    BY <1>2, PendingFacts
  <1>4. ev.draft # <<>> /\ ev.draft \in Seq(Seats) /\ ev.permits \in [Seats -> Nat]
        /\ Cur \in Seats
    BY <1>1, InvHas, EventsStateHas DEF Inv, OneDecision
  <1>5. draft \in Seq(Seats) /\ permits \in [Seats -> Nat]
    BY <1>4
  <1>6. /\ e \in EventsState /\ e.round = ev.round /\ e.next = ev.next /\ e.active = ev.active
        /\ e.contracts = ev.contracts /\ e.relocate = {} /\ e.draft = draft /\ e.hive = 0
    <2>1. e = [ev EXCEPT !.draft = draft, !.permits = permits]
      <3> HIDE DEF n, pl, resumes
      <3> QED BY InvHas DEF EventsState
    <2> HIDE DEF e, draft, permits
    <2>2. ev \in EventsState
      BY InvHas
    <2> QED BY <1>3, <1>5, <2>1, <2>2 DEF EventsState
  <1>7. n \in Nat
    OBVIOUS
  <1> HIDE DEF n, e
  <1>8. pl \in Pile /\ pl.marker <= pl.deck /\ Pool(pl) <= Pool(pile) /\ Pool(pl) \in Nat
    BY <1>7, InvHas, DrawnFits
  <1> HIDE DEF pl
  <1>9. /\ schedule' = schedule /\ owner' = owner /\ trains' = trains /\ endgame' = endgame
        /\ tunnel' = None /\ told' = told /\ round' = round
    BY <1>1, <1>3 DEF table, history
  <1>10. turn = [at |-> turn.at, phase |-> "EVENT_DRAFT", swapped |-> turn.swapped]
         /\ turn.swapped \in BOOLEAN
    BY <1>1, InvHas DEF Turn, Phase
  <1>11. IF resumes THEN turn' = [at |-> 0, phase |-> "AWAIT_ACTION", swapped |-> turn.swapped]
         ELSE turn' = [at |-> e.draft[1], phase |-> "EVENT_DRAFT", swapped |-> turn.swapped]
    <2>1. CASE resumes
      <3> HIDE DEF resumes
      <3> QED BY <1>1, <1>10, <2>1
    <2>2. CASE ~resumes
      <3> DEFINE o == e.draft[1]
      <3>1. turn' = [turn EXCEPT !.at = o, !.phase = turn.phase] /\ turn.phase = "EVENT_DRAFT"
        BY <1>1, <2>2 DEF Phase
      <3> HIDE DEF resumes, o
      <3>2. turn' = [at |-> o, phase |-> "EVENT_DRAFT", swapped |-> turn.swapped]
        BY <1>10, <3>1
      <3> QED BY <2>2, <3>2 DEF o
    <2> QED BY <2>1, <2>2
  <1>12. ~resumes => e.draft[1] \in Seats
    BY <1>5, <1>6
  <1>13. turn' \in Turn
    <2>1. CASE resumes
      BY <1>10, <1>11, <2>1, Counts DEF Turn, Phases
    <2>2. CASE ~resumes
      BY <1>10, <1>11, <1>12, <2>2 DEF Turn, Phases
    <2> QED BY <2>1, <2>2
  <1>14. Typed'
    BY <1>1, <1>6, <1>8, <1>9, <1>13, InvHas DEF Typed
  <1>15. OneDecision'
    <2>1. CASE resumes
      <3>1. turn'.phase = "AWAIT_ACTION" /\ e.draft = <<>>
        BY <1>11, <2>1
      <3> QED BY <1>1, <1>6, <1>9, <3>1, NothingPending
    <2>2. CASE ~resumes
      <3>1. turn'.phase = "EVENT_DRAFT" /\ turn'.at = e.draft[1] /\ e.draft # <<>>
        BY <1>11, <2>2
      <3> QED BY <1>1, <1>6, <1>9, <3>1 DEF OneDecision, Phase, Cur
    <2> QED BY <2>1, <2>2
  <1>16. Fits(pile', tunnel', ev')
    <2>1. Pool(pl) + (0 + 0) <= Cards
      BY <1>8, InvHas
    <2> QED BY <1>1, <1>6, <1>8, <1>9, <2>1 DEF Fits, Aside
  <1>17. round' = {}
    BY <1>1, <1>9 DEF Inv, RoundSoFar, Phase
  <1>18. RoundSoFar'
    <2>1. CASE resumes
      <3>1. Before(ev', 0) = {}
        BY DEF Before
      <3> QED BY <1>11, <1>17, <2>1, <3>1 DEF RoundSoFar, Phase, Cur
    <2>2. CASE ~resumes
      BY <1>11, <1>17, <2>2 DEF RoundSoFar, Phase
    <2> QED BY <2>1, <2>2
  <1>19. ToldIsNext'
    BY <1>1, <1>6, <1>9 DEF Inv, ToldIsNext, Announced, Due
  <1>20. NoneOutlasts(ev', ev'.round) /\ Right(ev', owner') /\ TunnelIsOpen'
    BY <1>1, <1>6, <1>9 DEF Inv, NoneOutlasts, Right, TunnelIsOpen
  <1>21. OneTurn /\ Promises
    BY <1>1, <1>6, <1>9 DEF OneTurn, Promises, StartsNow
  <1> QED BY <1>14, <1>15, <1>16, <1>18, <1>19, <1>20, <1>21
             DEF Inv, Fits, Aside, Pool, NoneOutlasts, Right, Joined, Reached, Grown

LEMMA HiveEnds ==
  ASSUME Inv, Phase("HIVE_DRAW"), NEW pl \in Pile, pl.marker <= pl.deck, NEW thrown \in Nat,
         Pool(pl) + thrown <= Cards, ResolveHive(pl, thrown)
  PROVE  Inv' /\ OneTurn /\ Promises
PROOF
  <1> DEFINE e == [ev EXCEPT !.hive = 0]
             t == Thrown(pl, thrown)
  <1>1. EndTurn(e, t, owner, trains)
    BY DEF ResolveHive
  <1>2. /\ ~Phase("LANTERN_RELOCATION") /\ ~Phase("EVENT_DRAFT") /\ ~Phase("GAME_OVER")
    BY DEF Phase
  <1>3. e \in EventsState /\ e.round = ev.round /\ e.next = ev.next /\ e.active = ev.active
        /\ e.contracts = ev.contracts /\ e.relocate = {} /\ e.draft = <<>> /\ e.hive = 0
    BY <1>2, PendingFacts, InvHas DEF EventsState
  <1>4. Right(e, owner)
    BY <1>3 DEF Inv, Right
  <1>5. t \in Pile /\ t.marker <= t.deck /\ Pool(t) = Pool(pl) + thrown
    BY ThrownFacts
  <1> HIDE DEF e, t
  <1>6. Pool(t) <= Cards
    BY <1>5
  <1> QED BY <1>1, <1>2, <1>3, <1>4, <1>5, <1>6, InvHas, EndTurnFacts

LEMMA HiveGoesOn ==
  ASSUME Inv, First \/ Phase("HIVE_DRAW"), tunnel = None, NEW pl \in Pile, pl.marker <= pl.deck,
         NEW n \in Nat, n # 0, Pool(pl) + n <= Cards, Pool(pl) \in Nat,
         Goes("HIVE_DRAW", [ev EXCEPT !.hive = n], pl), UNCHANGED tunnel
  PROVE  Inv' /\ OneTurn /\ Promises
PROOF
  <1>1. /\ turn' = [turn EXCEPT !.phase = "HIVE_DRAW"] /\ ev' = [ev EXCEPT !.hive = n]
        /\ pile' = pl /\ UNCHANGED <<schedule, table, history>> /\ tunnel' = None
    BY DEF Goes
  <1>2. /\ ~Phase("LANTERN_RELOCATION") /\ ~Phase("EVENT_DRAFT") /\ ~Phase("GAME_OVER")
    BY DEF First, Phase
  <1>3. ev' \in EventsState /\ ev'.round = ev.round /\ ev'.next = ev.next
        /\ ev'.active = ev.active /\ ev'.contracts = ev.contracts
        /\ ev'.relocate = {} /\ ev'.draft = <<>> /\ ev'.hive = n
    BY <1>1, <1>2, PendingFacts, InvHas DEF EventsState
  <1>4. turn' \in Turn /\ turn'.at = turn.at /\ turn'.phase = "HIVE_DRAW"
    BY <1>1, InvHas DEF Turn, Phases
  <1>5. OneDecision'
    BY <1>1, <1>3, <1>4 DEF OneDecision, Phase
  <1>6. Fits(pile', tunnel', ev')
    <2>1. Pool(pl) + (0 + n) <= Cards
      OBVIOUS
    <2> QED BY <1>1, <1>3, <2>1 DEF Fits, Aside
  <1>7. owner' = owner /\ trains' = trains /\ endgame' = endgame
    BY <1>1 DEF table
  <1>8. TunnelIsOpen' /\ Right(ev', owner')
    BY <1>1, <1>3, <1>7 DEF TunnelIsOpen, Inv, Right
  <1> QED BY <1>1, <1>2, <1>3, <1>4, <1>5, <1>6, <1>7, <1>8, InvHas, WithinATurn

LEMMA StartHiveInv ==
  ASSUME Inv, StartHiveDraw
  PROVE  Inv' /\ OneTurn /\ Promises
PROOF
  <1> DEFINE pl == Drawn(pile, 1)
             n  == 1
  <1>1. /\ First /\ Pool(pile) > 0 /\ UNCHANGED tunnel
        /\ IF Pool(pile) = 1 THEN EndTurn(ev, pl, owner, trains)
           ELSE Goes("HIVE_DRAW", [ev EXCEPT !.hive = n], pl)
    BY DEF StartHiveDraw
  <1>2. pl \in Pile /\ pl.marker <= pl.deck /\ Pool(pl) = Pool(pile) - 1 /\ Pool(pl) \in Nat
    BY <1>1, InvHas, DrawnFits
  <1>3. Pool(pl) + n <= Cards /\ Pool(pl) <= Cards /\ n \in Nat /\ n # 0
    BY <1>2, InvHas
  <1>4. Right(ev, owner)
    BY DEF Inv
  <1>5. tunnel = None
    BY <1>1, PendingFacts
  <1> HIDE DEF pl, n
  <1>6. CASE Pool(pile) = 1
    BY <1>1, <1>2, <1>3, <1>4, <1>6, InvHas, PendingFacts, EndTurnFacts
  <1>7. CASE Pool(pile) # 1
    BY <1>1, <1>2, <1>3, <1>5, <1>7, HiveGoesOn
  <1> QED BY <1>6, <1>7

LEMMA ContinueHiveInv ==
  ASSUME Inv, ContinueHiveDraw
  PROVE  Inv' /\ OneTurn /\ Promises
PROOF
  <1> DEFINE pl == Drawn(pile, 1)
             n  == ev.hive + 1
  <1>1. /\ Phase("HIVE_DRAW")
        /\ \/ ResolveHive(pl, n - 1)
           \/ ResolveHive(pl, 0)
           \/ Pool(pl) # 0 /\ Goes("HIVE_DRAW", [ev EXCEPT !.hive = n], pl) /\ UNCHANGED tunnel
    BY DEF ContinueHiveDraw
  <1>2. ~Phase("TUNNEL_PENDING")
    BY <1>1 DEF Phase
  <1>3. tunnel = None
    BY <1>2, PendingFacts
  <1>4. ev.hive \in Nat /\ Pool(pile) + ev.hive <= Cards /\ Pool(pile) \in Nat /\ Cards \in Nat
    BY <1>3, InvHas
  <1>5. n \in Nat /\ n # 0 /\ n - 1 = ev.hive /\ n - 1 \in Nat /\ n = ev.hive + 1
    BY <1>4
  <1>6. /\ pl \in Pile /\ pl.marker <= pl.deck /\ Pool(pl) \in Nat /\ Pool(pl) <= Pool(pile)
        /\ Pool(pile) > 0 => Pool(pl) = Pool(pile) - 1
    BY InvHas, DrawnFits
  <1> HIDE DEF pl, n
  <1>7. CASE ResolveHive(pl, n - 1)
    <2>1. Pool(pl) + (n - 1) <= Cards
      BY <1>4, <1>5, <1>6
    <2> QED BY <1>1, <1>5, <1>6, <1>7, <2>1, HiveEnds
  <1>8. CASE ResolveHive(pl, 0)
    <2>1. Pool(pl) + 0 <= Cards
      BY <1>4, <1>6
    <2> QED BY <1>1, <1>6, <1>8, <2>1, HiveEnds
  <1>9. CASE Pool(pl) # 0 /\ Goes("HIVE_DRAW", [ev EXCEPT !.hive = n], pl) /\ UNCHANGED tunnel
    <2>1. Pool(pl) + n <= Cards
      BY <1>4, <1>5, <1>6, <1>9
    <2> QED BY <1>1, <1>3, <1>5, <1>6, <1>9, <2>1, HiveGoesOn
  <1> QED BY <1>1, <1>7, <1>8, <1>9

LEMMA StopHiveInv ==
  ASSUME Inv, StopHiveDraw
  PROVE  Inv' /\ OneTurn /\ Promises
PROOF
  <1>1. Phase("HIVE_DRAW") /\ ResolveHive(pile, 0)
    BY DEF StopHiveDraw
  <1>2. Pool(pile) + 0 <= Cards
    BY InvHas
  <1> QED BY <1>1, <1>2, InvHas, HiveEnds

LEMMA NextInv ==
  ASSUME Inv, [Next]_vars
  PROVE  Inv' /\ (OneTurn \/ UNCHANGED vars) /\ (Promises \/ UNCHANGED vars)
PROOF
  <1>1. CASE UNCHANGED vars
    <2>1. /\ schedule' = schedule /\ ev' = ev /\ pile' = pile /\ turn' = turn /\ owner' = owner
          /\ trains' = trains /\ endgame' = endgame /\ tunnel' = tunnel /\ told' = told
          /\ round' = round
      BY <1>1 DEF vars, table, history
    <2>2. Typed' /\ TunnelIsOpen'
      BY <2>1 DEF Inv, Typed, TunnelIsOpen
    <2>3. OneDecision'
      BY <2>1 DEF Inv, OneDecision, Phase, Cur, Network
    <2>4. RoundSoFar'
      BY <2>1 DEF Inv, RoundSoFar, Phase, Cur, Before, Direction, Active
    <2>5. ToldIsNext'
      BY <2>1 DEF Inv, ToldIsNext, Announced, Due
    <2>6. Fits(pile', tunnel', ev') /\ NoneOutlasts(ev', ev'.round) /\ Right(ev', owner')
      BY <2>1 DEF Inv
    <2> QED BY <1>1, <2>2, <2>3, <2>4, <2>5, <2>6
               DEF Inv, Fits, Aside, Pool, NoneOutlasts, Right, Joined, Reached, Grown
  <1>2. CASE Next
    <2>1. MaxDraw \in Nat /\ Reveal \in Nat
      BY BoardAssumption
    <2>2. \A n \in 0 .. MaxDraw : Ordinary(n) \/ NightMarketSwap(n) => Inv' /\ OneTurn /\ Promises
      BY <2>1, OrdinaryInv, SwapInv
    <2>3. \A extra \in 0 .. Reveal + 1 : CommitTunnel(extra) => Inv' /\ OneTurn /\ Promises
      BY <2>1, CommitTunnelInv
    <2>4. \A r \in Route :
            ClaimRoute(r) \/ BeginTunnel(r) \/ RepairRoute(r) => Inv' /\ OneTurn /\ Promises
      BY ClaimRouteInv, BeginTunnelInv, RepairInv
    <2>5. \A c \in City : RelocateLanternHost(c) => Inv' /\ OneTurn /\ Promises
      BY RelocateInv
    <2>6. \A perk : ChooseEventPerk(perk) => Inv' /\ OneTurn /\ Promises
      BY PerkInv
    <2> QED BY <1>2, <2>2, <2>3, <2>4, <2>5, <2>6, FreeStationInv, AbortTunnelInv,
               StartHiveInv, ContinueHiveInv, StopHiveInv DEF Next
  <1> QED BY <1>1, <1>2

-----------------------------------------------------------------------------
(* The theorems. *)

(* The invariant of this module holds of every match: a started game, at every board
   and table the assumptions allow. *)
THEOREM Invariance == Spec => []Inv
BY InitInv, NextInv, PTL DEF Spec

(* Every variable keeps its type: the schedule is in order, and every field of the
   events state, the pile and the turn has its range (EventsState, generateSchedule). *)
THEOREM TypeCorrect == Spec => []Typed
PROOF
  <1>1. Inv => Typed
    BY DEF Inv
  <1> QED BY <1>1, Invariance, PTL

(* Whatever the events do to the order of a turn, a phase waits for one decision, that
   decision is pending, and the seat asked is the one that owes it (dispatch,
   applyClaimEffects, chooseEventPerk, resolveHive). *)
THEOREM DecisionsAreAsked == Spec => []OneDecision
PROOF
  <1>1. Inv => OneDecision
    BY DEF Inv
  <1> QED BY <1>1, Invariance, PTL

(* However the deck is drawn, shuffled or thrown into, the marker of the boring machine
   stays in the deck it was buried in, and the pile holds no more than its cards
   (drawEventCard, advanceBoringMarker). *)
THEOREM MarkerStaysInDeck == Spec => []MarkerInDeck
PROOF
  <1>1. Inv => MarkerInDeck
    BY InvHas DEF MarkerInDeck
  <1> QED BY <1>1, Invariance, PTL

(* Every contract that is still open joins two cities nobody has joined, and a won one
   is its winner's, whatever is claimed and whichever contract opens or lapses. *)
THEOREM ContractsGoToTheFirst == Spec => []ContractsAwarded
PROOF
  <1>1. Inv => ContractsAwarded
    BY DEF Inv, Right, ContractsAwarded
  <1> QED BY <1>1, Invariance, PTL

(* Every round gives every seat one turn, in whichever direction it runs and whoever
   picked last in a draft (endTurn, turnDirection, resumeOrderIndex). *)
THEOREM RoundsAreFair == Spec => OneTurnPerRound
BY InitInv, NextInv, PTL DEF Spec, OneTurnPerRound, OneTurn

(* What a tick announced starts in the next round, nothing announced starts unannounced,
   and no gift starts in a quiet endgame (tickRound). *)
THEOREM AnnouncementsAreKept == Spec => PromisesKept
BY InitInv, NextInv, PTL DEF Spec, PromisesKept, Promises
=============================================================================
