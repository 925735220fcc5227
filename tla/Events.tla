------------------------------- MODULE Events -------------------------------
(***************************************************************************)
(* The random events of a match: the schedule drawn at genesis             *)
(* (events/schedule.ts), the tick at every round boundary                  *)
(* (events/runtime.ts), what events change for the players' actions        *)
(* (events/effects.ts, events/draw.ts, reduce.ts), and the turn order they *)
(* bend (turn.ts).                                                         *)
(*                                                                         *)
(* A seat is its index in turnOrder.  Cards are counted, not named; which  *)
(* hand holds a card is left out, and so are scores: the order of a draft  *)
(* (ascending score) is any order.  Kinds that only move the score or the  *)
(* price of a claim are left out.  Tickets, passes and the rest of the     *)
(* rules are those of module Turn; here such a turn is one that draws some *)
(* cards, or none.                                                         *)
(***************************************************************************)
EXTENDS Integers, Sequences, FiniteSetsExt

CONSTANTS
  N,                      \* players
  City, Route, Ends,      \* the board: the two cities of each route
  Length, Twins, Tunnel,  \* RouteDef, parallelGroup
  OpenTracks,             \* openTrackCount of a parallel group at this table
  TrainsStart, EndThreshold,
  QuietMargin,            \* 8 in isQuietEndgame
  Cards,                  \* train cards not in the market
  DeckStart,              \* those in the deck after the deal
  Reveal,                 \* tunnelRevealCount
  MaxHive,                \* maxDraws, 4 in the code
  Kinds,                  \* the kinds the schedules draw from
  Duration,               \* DURATIONS
  Targets,                \* per kind, the targets an entry may have: sets of routes or cities
  Path,                   \* the cities of the procession (5 in the code)
  Gaps,                   \* the random gaps between two entries
  Starts,                 \* start rounds of the first entry
  Entries,                \* bound: entries of a schedule
  MaxRound,               \* bound: rounds played
  MaxDraw,                \* bound: cards an ordinary turn draws
  Locked, None            \* a track out of play; nobody, nothing

Seats == 0 .. N - 1
Telegraphed == {"TYPHOON_LANDFALL", "TYPHOON_DAY_OFF", "AFTERSHOCK",
                "SLOPE_REPAIR_ORDER", "SPRING_FESTIVAL_RUSH"}
OneShot == {"LANTERN_HOST_CITY", "ROLLING_STOCK_ALLOCATION_DAY",
            "BREAKTHROUGH_BORING_MACHINE"}
Restricting == {"TYPHOON_LANDFALL", "TYPHOON_DAY_OFF", "SLOPE_REPAIR_ORDER"}
Mixed == {"AFTERSHOCK", "SPRING_FESTIVAL_RUSH"}
Closing == {"TYPHOON_LANDFALL", "SLOPE_REPAIR_ORDER"}
Contracting == {"CHARTER_SPECIAL", "LUCKY_TICKET_STUB"}

ASSUME BoardAssumption ==
  /\ N \in Nat \ {0, 1} /\ IsFiniteSet(Route) /\ Ends \in [Route -> kSubset(2, City)]
  /\ Length \in [Route -> Nat \ {0}] /\ Twins \in [Route -> SUBSET Route]
  /\ \A r \in Route : OpenTracks[r] \in 1 .. Cardinality(Twins[r]) + 1
  /\ Path \in Seq(City)
  /\ {Cards, DeckStart, Reveal, TrainsStart, EndThreshold, MaxDraw} \subseteq Nat /\ DeckStart <= Cards
  /\ {None, Locked} \cap (City \cup Seats) = {} /\ None \notin [route : Route, revealed : Nat]
ASSUME ScheduleAssumption ==
  /\ Duration \in [Kinds -> Nat] /\ \A k \in Kinds \cap Telegraphed : Duration[k] > 0
  /\ Gaps \subseteq Nat /\ Starts \subseteq Nat \ {0, 1} /\ Entries \in Nat \ {0}
  /\ \A k \in Kinds \cap (Contracting \cup {"LANTERN_HOST_CITY"}) :
       Targets[k] \subseteq (SUBSET City) \ {{}}

VARIABLES
  schedule,  \* EventsState.schedule, fixed at genesis
  ev,        \* the rest of EventsState; a number that is 0 stands for an absent field
  pile,      \* the deck, the discard pile, and the marker of the boring machine
  turn,      \* orderIndex, phase, nightMarketSwapUsed
  owner, trains, endgame,   \* as in Turn
  tunnel,    \* pendingTunnel: the route and the cards revealed, or None
  told,      \* history: the entry the last tick announced, or 0
  round,     \* history: who has ended a turn in this round
  final      \* history: who has ended a turn since the end was triggered

table == <<owner, trains, endgame>>
history == <<told, round, final>>
vars == <<schedule, ev, pile, turn, table, tunnel, history>>

Cur == turn.at
Phase(ph) == turn.phase = ph
Active(e, kind) == \E a \in e.active : a.kind = kind
Network(ow, p) == UNION {Ends[r] : r \in {x \in Route : ow[x] = p}}

\* The cities one route away, by those in mine, from the cities in s; and so on.
Grown(mine, s) == s \cup UNION {Ends[r] : r \in {x \in mine : Ends[x] \cap s # {}}}
Reached(mine, start) ==
  LET grown[i \in 0 .. Cardinality(Route)] ==
        IF i = 0 THEN {start} ELSE Grown(mine, grown[i - 1])
  IN  grown

\* citiesConnected over the routes p owns.
Joined(ow, p, pair) ==
  pair \subseteq Reached({r \in Route : ow[r] = p}, CHOOSE c \in pair : TRUE)[Cardinality(Route)]

------------------------------------------------------------------------------
(* The schedule (schedule.ts). *)

Occupancy(kind) == IF kind \in Restricting \cup Mixed THEN Duration[kind] ELSE 1

Following(e) == {s \in 1 .. MaxRound + 1 : \E g \in Gaps : s = e.start + Occupancy(e.kind) + 1 + g}

Entry(starts) ==
  UNION {[kind : {k}, start : starts, target : Targets[k]] : k \in Kinds}

Longer(s) ==
  {Append(s, e) : e \in {x \in Entry(Following(s[Len(s)])) :
                            x.kind \in OneShot => \A j \in DOMAIN s : s[j].kind # x.kind}}
Schedules ==
  LET drawn[i \in 0 .. Entries - 1] ==
        IF i = 0 THEN {<<e>> : e \in Entry(Starts)}
        ELSE UNION {Longer(s) : s \in drawn[i - 1]}
  IN  drawn[Entries - 1]

\* The entry at position i, and whether it starts in round r.
Due(i, r) == i <= Len(schedule) /\ schedule[i].start = r

Init ==
  /\ schedule \in Schedules
  /\ ev = [round |-> 1, next |-> 1, active |-> {}, contracts |-> {}, reopen |-> {},
           repaired |-> {}, permits |-> [p \in Seats |-> 0], free |-> 0, host |-> None,
           relocate |-> {}, draft |-> <<>>, hive |-> 0]
  /\ pile = [deck |-> DeckStart, discard |-> 0, marker |-> 0]
  /\ turn = [at |-> 0, phase |-> "AWAIT_ACTION", swapped |-> FALSE]
  /\ owner = [r \in Route |-> None] /\ trains = [p \in Seats |-> TrainsStart]
  /\ endgame = [on |-> FALSE, left |-> 0]
  /\ tunnel = None
  /\ told = IF Due(1, 2) /\ schedule[1].kind \in Telegraphed THEN 1 ELSE 0
  /\ round = {} /\ final = {}

------------------------------------------------------------------------------
(* Cards (draw.ts). *)

Pool(pl) == pl.deck + pl.discard
Held(pl) == Cards - Pool(pl)

\* A draw the hidden marker does not see.
Unseen(pl, d) == pl

Advanced(pl, d) == [pl EXCEPT !.marker = IF @ > d THEN @ - d ELSE 0]

\* n cards from the top, the discard pile being shuffled in when the deck is empty.
Drawn(pl, n) ==
  LET d == Min({n, Pool(pl)})
      left == IF d <= pl.deck THEN [pl EXCEPT !.deck = @ - d]
              ELSE [pl EXCEPT !.deck = Pool(pl) - d, !.discard = 0]
  IN  Advanced(left, d)

Thrown(pl, n) == [pl EXCEPT !.discard = @ + n]

------------------------------------------------------------------------------
(* What events change (effects.ts). *)

Direction(e) == IF Active(e, "SPRING_FESTIVAL_RUSH") THEN -1 ELSE 1
Suspended(e) == Active(e, "TYPHOON_DAY_OFF")
Closed(e, r) ==
  /\ owner[r] = None /\ r \notin e.repaired
  /\ \E a \in e.active : a.kind \in Closing /\ r \in a.target
RevealCount(e, pl) ==
  (IF pl.marker > 0 THEN 2 ELSE Reveal) + (IF Active(e, "AFTERSHOCK") THEN 1 ELSE 0)
\* Where the procession is.
Palanquin(e) == {Path[a.at] : a \in {x \in e.active : x.kind = "GODDESS_PROCESSION"}}
Market(e) == UNION {a.target : a \in {x \in e.active : x.kind = "STATION_FRONT_NIGHT_MARKET"}}

Quiet(end, tr) == end.on \/ \E p \in Seats : tr[p] <= EndThreshold + QuietMargin

\* A contract goes to the first seat, from the seats in s, whose own network joins it.
Awarded(c, ow, s) ==
  LET won == {p \in s : Joined(ow, p, c.pair)}
  IN  IF c.won = None /\ won # {} THEN [c EXCEPT !.won = Min(won)] ELSE c

------------------------------------------------------------------------------
(* The tick (runtime.ts).  A table is [ev, pile, turn]. *)

StillRepaired(repaired, over) == repaired \ over

\* END: what lapsed is dropped, the procession moves on, and the routes a typhoon
\* closed carry a bonus from now on unless somebody owns them.
Ended(e, ow) ==
  LET past == {a \in e.active : a.ends < e.round}
      Of(kind) == UNION {a.target : a \in {x \in past : x.kind = kind}}
      Moved(a) == IF a.kind = "GODDESS_PROCESSION"
                  THEN [a EXCEPT !.at = Min({@ + 1, Len(Path)})] ELSE a
  IN  [e EXCEPT !.active = {Moved(a) : a \in e.active \ past},
                !.reopen = @ \cup {r \in Of("TYPHOON_LANDFALL") : ow[r] = None},
                !.repaired = StillRepaired(@, Of("SLOPE_REPAIR_ORDER")),
                !.contracts = {c \in @ : c.won # None \/ c.ends = 0 \/ c.ends >= e.round},
                !.free = IF @ < e.round THEN 0 ELSE @]

\* It waits for the next claim.
OpenedUnchecked(c, ow) == c

\* A contract somebody fulfils already is theirs as it opens.
Opened(c, ow) == Awarded(c, ow, Seats)

\* START of one entry; `order` is the order of a draft.
Started(t, entry, ow, order) ==
  LET e == t.ev  k == entry.kind  pl == t.pile
      last == e.round + Duration[k] - 1
      opened == Opened([pair |-> entry.target, won |-> None,
                        ends |-> IF k = "CHARTER_SPECIAL" THEN last ELSE 0], ow)
  IN  [ev |-> [e EXCEPT
         !.active = IF Duration[k] = 0 THEN @
                    ELSE @ \cup {[kind |-> k, ends |-> last, target |-> entry.target, at |-> 1]},
         !.free = IF k = "RAILWAY_GALA" THEN e.round ELSE @,
         !.contracts = IF k \in Contracting THEN @ \cup {opened} ELSE @,
         !.host = IF k = "LANTERN_HOST_CITY" THEN CHOOSE c \in entry.target : TRUE ELSE @,
         !.draft = IF k = "ROLLING_STOCK_ALLOCATION_DAY" THEN order ELSE @,
         !.repaired = IF k = "SLOPE_REPAIR_ORDER" THEN @ \ entry.target ELSE @],
       pile |-> CASE k = "RAILWAY_GALA" -> Drawn(pl, N)
                  [] k = "BREAKTHROUGH_BORING_MACHINE" ->
                       [pl EXCEPT !.marker = IF pl.deck = 0 THEN 0 ELSE pl.deck - t.depth]
                  [] OTHER -> pl,
       turn |-> IF k = "ROLLING_STOCK_ALLOCATION_DAY"
                THEN [at |-> order[1], phase |-> "EVENT_DRAFT", swapped |-> FALSE]
                ELSE t.turn]

\* Where the marker may be buried: in the bottom third of the deck.
Depths(pl) == 0 .. Max({1, pl.deck \div 3}) - 1
Orders == {o \in [1 .. N -> Seats] : \A i, j \in 1 .. N : i # j => o[i] # o[j]}

\* The choices of a tick that starts the entry at position i, and no others.
TickChoices(i, r, pl) ==
  LET k == IF Due(i, r) THEN schedule[i].kind ELSE None
  IN  [order : IF k = "ROLLING_STOCK_ALLOCATION_DAY" THEN Orders ELSE {<<>>},
       depth : IF k = "BREAKTHROUGH_BORING_MACHINE" THEN Depths(pl) ELSE {0}]

\* The quiet endgame silences everything.
SkipsAll(kind, quiet) == quiet

\* A gift is dropped when the end is near; what was announced is not.
Skips(kind, quiet) == kind \notin Telegraphed /\ quiet

\* The whole tick at the start of round e.round, with the choices c.
Tick(e, pl, ow, quiet, c) ==
  LET before == [ev |-> Ended(e, ow), pile |-> pl, depth |-> c.depth,
                 turn |-> [at |-> 0, phase |-> "AWAIT_ACTION", swapped |-> FALSE]]
      i == e.next
      after == IF Due(i, e.round) /\ ~Skips(schedule[i].kind, quiet)
               THEN Started(before, schedule[i], ow, c.order) ELSE before
      j == IF Due(i, e.round) THEN i + 1 ELSE i
      ahead == Due(j, e.round + 1) /\ schedule[j].kind \in Telegraphed
  IN  [ev |-> [after.ev EXCEPT !.next = IF ahead /\ quiet THEN j + 1 ELSE j],
       pile |-> after.pile, turn |-> after.turn,
       told |-> IF ahead /\ ~quiet THEN j ELSE 0]

\* endTurn: the countdown of the final round, the next seat in the direction of the
\* day, and the tick when the order comes back to the first seat.
Countdown(tr) ==
  IF endgame.on THEN [endgame EXCEPT !.left = @ - 1]
  ELSE IF tr[Cur] <= EndThreshold THEN [on |-> TRUE, left |-> N]
  ELSE endgame

After(e) == (Cur + Direction(e) + N) % N

EndTurn(e, pl, ow, tr) ==
  LET end == Countdown(tr)
      over == endgame.on /\ end.left <= 0
      wraps == ~over /\ After(e) = 0
      next == [e EXCEPT !.round = @ + 1]
  IN  /\ owner' = ow /\ trains' = tr /\ endgame' = end
      /\ UNCHANGED schedule
      /\ tunnel' = None
      /\ round' = IF wraps THEN {} ELSE round \cup {Cur}
      /\ final' = IF endgame.on THEN final \cup {Cur} ELSE {}
      /\ IF wraps
         THEN /\ e.round < MaxRound
              /\ \E c \in TickChoices(e.next, next.round, pl) :
                   LET t == Tick(next, pl, ow, Quiet(end, tr), c)
                   IN  ev' = t.ev /\ pile' = t.pile /\ turn' = t.turn /\ told' = t.told
         ELSE /\ ev' = e /\ pile' = pl /\ UNCHANGED told
              /\ turn' = IF over THEN [turn EXCEPT !.phase = "GAME_OVER"]
                         ELSE [at |-> After(e), phase |-> "AWAIT_ACTION", swapped |-> FALSE]

\* A step within a turn.
Goes(phase, e, pl) ==
  /\ turn' = [turn EXCEPT !.phase = phase] /\ ev' = e /\ pile' = pl
  /\ UNCHANGED <<schedule, table, history>>

------------------------------------------------------------------------------
(* The actions of the seat whose turn it is (reduce.ts). *)

First == Phase("AWAIT_ACTION")

\* A turn no event changes: cards, tickets, a pass, the price of a station.
Ordinary(n) ==
  First /\ n <= Pool(pile) /\ EndTurn(ev, Drawn(pile, n), owner, trains)

\* The free station of a gala goes to the first who asks.
FreeStation ==
  /\ First /\ ~Suspended(ev) /\ ev.free > 0
  /\ EndTurn([ev EXCEPT !.free = 0], pile, owner, trains)

\* claimPreconditions, as far as events and parallel tracks go.
Claimable(r) ==
  /\ ~Suspended(ev) /\ owner[r] = None /\ ~Closed(ev, r)
  /\ \A s \in Twins[r] : owner[s] # Cur
  /\ Length[r] <= trains[Cur]

Claimed(r) ==
  LET mine == [owner EXCEPT ![r] = Cur]
      full == Cardinality({s \in Twins[r] : owner[s] \in Seats}) + 1 >= OpenTracks[r]
  IN  [s \in Route |-> IF full /\ s \in Twins[r] /\ owner[s] = None THEN Locked ELSE mine[s]]

\* The bonuses of a claim: the reopened route, the blessing card of a procession, the
\* contracts it completes, and the lantern, which its new host must pass on.
ClaimEffects(r, pl) ==
  LET ow == Claimed(r)
      tr == [trains EXCEPT ![Cur] = @ - Length[r]]
      blessed == Drawn(pl, IF Palanquin(ev) \cap Ends[r] # {} THEN 1 ELSE 0)
      e == [ev EXCEPT !.reopen = @ \ {r},
                      !.contracts = {Awarded(c, ow, {Cur}) : c \in @}]
      places == IF ev.host \in Ends[r] THEN Network(ow, Cur) \ {ev.host} ELSE {}
  IN  IF places = {} THEN EndTurn(e, blessed, ow, tr)
      ELSE /\ turn' = [turn EXCEPT !.phase = "LANTERN_RELOCATION"]
           /\ ev' = [e EXCEPT !.relocate = places] /\ pile' = blessed
           /\ owner' = ow /\ trains' = tr /\ tunnel' = None
           /\ UNCHANGED <<schedule, endgame, history>>

ClaimRoute(r) ==
  /\ First /\ Claimable(r) /\ r \notin Tunnel /\ Length[r] <= Held(pile)
  /\ ClaimEffects(r, Thrown(pile, Length[r]))

\* The cards a tunnel reveals leave the deck and wait for the decision.
BeginTunnel(r) ==
  /\ First /\ Claimable(r) /\ r \in Tunnel /\ Length[r] <= Held(pile)
  /\ LET n == Min({RevealCount(ev, pile), Pool(pile)})
     IN  /\ tunnel' = [route |-> r, revealed |-> n]
         /\ Goes("TUNNEL_PENDING", ev, Drawn(pile, n))

AbortTunnel ==
  /\ Phase("TUNNEL_PENDING")
  /\ EndTurn(ev, Drawn(Thrown(pile, tunnel.revealed),
                       IF Active(ev, "AFTERSHOCK") THEN 1 ELSE 0), owner, trains)

CommitTunnel(extra) ==
  /\ Phase("TUNNEL_PENDING") /\ extra <= tunnel.revealed
  /\ LET paid == Length[tunnel.route] + extra
     IN  /\ paid + tunnel.revealed <= Held(pile)
         /\ ClaimEffects(tunnel.route, Thrown(pile, paid + tunnel.revealed))

RelocateLanternHost(c) ==
  /\ Phase("LANTERN_RELOCATION") /\ c \in ev.relocate
  /\ EndTurn([ev EXCEPT !.host = c, !.relocate = {}], pile, owner, trains)

\* A slope repair is paid with two cards, or with a permit.
RepairRoute(r) ==
  /\ First /\ owner[r] = None /\ r \notin ev.repaired
  /\ \E a \in ev.active : a.kind = "SLOPE_REPAIR_ORDER" /\ r \in a.target
  /\ LET e == [ev EXCEPT !.repaired = @ \cup {r}]
     IN  \/ 2 <= Held(pile) /\ EndTurn(e, Thrown(pile, 2), owner, trains)
         \/ /\ ev.permits[Cur] > 0
            /\ EndTurn([e EXCEPT !.permits[Cur] = @ - 1], pile, owner, trains)

\* A free exchange with the market, once a turn; it may make the market recycle.
NightMarketSwap(n) ==
  /\ First /\ ~turn.swapped /\ n <= Pool(pile) /\ Held(pile) > 0
  /\ Market(ev) \cap Network(owner, Cur) # {}
  /\ turn' = [turn EXCEPT !.swapped = TRUE] /\ pile' = Drawn(pile, n)
  /\ UNCHANGED <<schedule, ev, table, tunnel, history>>

\* The last to pick goes on.
ResumeAtPicker == Cur

\* resumeOrderIndex: the tick runs when the first seat is next.
Resume == 0

ChooseEventPerk(perk) ==
  /\ Phase("EVENT_DRAFT")
  /\ LET e == [ev EXCEPT !.draft = Tail(@),
                         !.permits[Cur] = IF perk = "REPAIR_PERMIT" THEN @ + 1 ELSE @]
         resumes == e.draft = <<>>
     IN  /\ ev' = e
         /\ pile' = Drawn(pile, IF perk = "DRAW_TWO" THEN 2 ELSE 0)
         /\ turn' = [turn EXCEPT !.at = IF resumes THEN Resume ELSE e.draft[1],
                                 !.phase = IF resumes THEN "AWAIT_ACTION" ELSE @]
  /\ UNCHANGED <<schedule, table, tunnel, history>>

\* The record of the draw stays behind.
ResolveHiveLeft(pl, thrown) == EndTurn(ev, Thrown(pl, thrown), owner, trains)

\* The hive: a card revealed at a time; two of one colour in a row spoil it, and all but
\* the first are thrown away.
ResolveHive(pl, thrown) == EndTurn([ev EXCEPT !.hive = 0], Thrown(pl, thrown), owner, trains)

StartHiveDraw ==
  /\ First /\ Active(ev, "HIVE_OF_SPARKS") /\ Pool(pile) > 0
  /\ UNCHANGED tunnel
  /\ IF Pool(pile) = 1 THEN EndTurn(ev, Drawn(pile, 1), owner, trains)
     ELSE Goes("HIVE_DRAW", [ev EXCEPT !.hive = 1], Drawn(pile, 1))

ContinueHiveDraw ==
  /\ Phase("HIVE_DRAW")
  /\ LET next == Drawn(pile, 1)
         n == ev.hive + 1
     IN  \/ ResolveHive(next, n - 1)    \* the new card is of the colour of the last
         \/ IF n >= MaxHive \/ Pool(next) = 0 THEN ResolveHive(next, 0)
            ELSE Goes("HIVE_DRAW", [ev EXCEPT !.hive = n], next) /\ UNCHANGED tunnel

StopHiveDraw == Phase("HIVE_DRAW") /\ ResolveHive(pile, 0)

Next ==
  \/ \E n \in 0 .. MaxDraw : Ordinary(n) \/ NightMarketSwap(n)
  \/ FreeStation
  \/ \E r \in Route : ClaimRoute(r) \/ BeginTunnel(r) \/ RepairRoute(r)
  \/ AbortTunnel
  \/ \E extra \in 0 .. Reveal + 1 : CommitTunnel(extra)
  \/ \E c \in City : RelocateLanternHost(c)
  \/ \E perk \in {"CLAIM_DISCOUNT", "DRAW_TWO", "REPAIR_PERMIT"} : ChooseEventPerk(perk)
  \/ StartHiveDraw \/ ContinueHiveDraw \/ StopHiveDraw

Spec == Init /\ [][Next]_vars

------------------------------------------------------------------------------
(* What must hold. *)

\* In every round every seat has exactly one turn: nobody ends a second one, and the
\* round ends with everybody's, whichever way the order runs, whoever picked last in a
\* draft (endTurn's wrap at index 0, turnDirection, resumeOrderIndex).
OneTurnPerRound ==
  [][/\ round' # {} => round \subseteq round'
     /\ round' # round => Cur \notin round
     /\ ev'.round # ev.round => round \cup {Cur} = Seats]_vars

\* The tick starts the entry at position i.
StartsNow(i) ==
  /\ ev'.round # ev.round /\ ev'.round = schedule[i].start
  /\ \E a \in ev'.active : /\ a.kind = schedule[i].kind
                          /\ a.ends = ev'.round + Duration[a.kind] - 1

\* What the table was told is what happens: an announced event starts in the next
\* round even if the end was triggered meanwhile, no restriction starts unannounced,
\* and no gift starts in a quiet endgame (tickRound: START, ANNOUNCE, suppressed).
PromisesKept ==
  [][\A i \in DOMAIN schedule :
       /\ told = i /\ ev.round # ev'.round => StartsNow(i)
       /\ StartsNow(i) =>
            IF schedule[i].kind \in Telegraphed THEN told = i
            ELSE ~Quiet(endgame', trains')]_vars

\* A phase that waits for one decision has exactly its own decision pending, and the
\* seat asked is the one that owes it (dispatch, lanternPendingRelocation, eventDraft,
\* pendingHiveDraw, pendingTunnel).
OneDecision ==
  /\ Phase("LANTERN_RELOCATION") <=> ev.relocate # {}
  /\ Phase("EVENT_DRAFT") <=> ev.draft # <<>>
  /\ Phase("HIVE_DRAW") <=> ev.hive # 0
  /\ Phase("TUNNEL_PENDING") <=> tunnel # None
  /\ Phase("EVENT_DRAFT") => Cur = ev.draft[1]
  /\ Phase("LANTERN_RELOCATION") =>
       ev.relocate \subseteq Network(owner, Cur) \ {ev.host}

\* The hidden marker is in the deck it was buried in: it surfaces before the deck runs
\* out, so no reshuffle ever passes it (advanceBoringMarker, drawEventCard).
MarkerInDeck == pile.marker <= pile.deck /\ Pool(pile) <= Cards

\* A contract nobody has won joins two cities nobody has joined, and its winner has
\* joined them (tickRound: firstConnectedPlayer; applyClaimEffects).
ContractsAwarded ==
  \A c \in ev.contracts :
    IF c.won = None THEN \A p \in Seats : ~Joined(owner, p, c.pair)
    ELSE Joined(owner, c.won, c.pair)

\* "that player and everyone else take one final turn" (tutorial.ts:110).
EveryoneTakesAFinalTurn == Phase("GAME_OVER") => final = Seats
=============================================================================
