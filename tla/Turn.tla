-------------------------------- MODULE Turn --------------------------------
(***************************************************************************)
(* The rules engine of a match without random events: the reducer          *)
(* (reduce.ts), the turn sequencer (turn.ts), the train-card deck and      *)
(* market (deck.ts), tickets (tickets.ts), the mirror of the reducer that  *)
(* decides who must pass (legality.ts) and, in a team game, the pools      *)
(* through which partners pass cards (teams.ts).                           *)
(*                                                                         *)
(* A train card is one card, told apart from the others of its colour: the *)
(* code counts colours.  The seeded shuffle is any order, so a draw is any *)
(* card of the pile.  A ticket is the set of ways to complete it: each is  *)
(* a set of routes that joins its two cities.  Scores are left out.        *)
(***************************************************************************)
EXTENDS Integers, Sequences, FiniteSetsExt

CONSTANTS
  Player, Order,        \* the seats; turnOrder, a sequence of them
  TeamGame, Side,       \* is it a team game; the team of each player
  PoolCapacity,         \* TEAM_POOL_CAPACITY, 4 in the code
  Card, Colour, Loco,   \* train cards, their colours, the locomotive
  Hue,                  \* the colour of each card, or Loco
  HandStart, MarketSize, RecycleAt, TunnelReveal,
  BlindLocoGoesOn,      \* secondDrawAfterBlindRainbow
  MaxRecycles,          \* rounds of the recycling loop, 50 in the code
  Route, Length, Paint, Gray, Ferry, Tunnel, Twins, Broken,
                        \* the board: RouteDef and parallelGroup
  OneTrackAt23,         \* doubleRouteSingleFor23
  TrainsStart, EndThreshold,
  City, StationsPerPlayer,
  Ticket, Ways, LongDeck, ShortDeck, InitialLong, InitialShort,
  MinKeepInitial, MinKeep, TicketDraw,
  None                  \* no owner, no player, no record

Locked == "locked"
N == Len(Order)

ASSUME TableAssumption ==
  /\ Order \in Seq(Player) /\ \A p \in Player : \E i \in 1..N : Order[i] = p
  /\ N = Cardinality(Player) /\ N >= 2
  /\ Hue \in [Card -> Colour \cup {Loco}] /\ Loco \notin Colour
  /\ Length \in [Route -> Nat \ {0}] /\ Ferry \in [Route -> Nat]
  /\ Broken \in [Route -> Nat] /\ Paint \in [Route -> Colour \cup {Gray}]
  /\ IsFiniteSet(Card) /\ IsFiniteSet(Route) /\ IsFiniteSet(Player) /\ IsFiniteSet(City)
  /\ Twins \in [Route -> SUBSET Route] /\ Tunnel \subseteq Route
  /\ None \notin Player /\ Locked \notin Player /\ Gray \notin Colour
  /\ PoolCapacity \in Nat /\ MarketSize \in Nat /\ StationsPerPlayer \in Nat
  /\ TrainsStart \in Nat /\ EndThreshold \in Nat /\ MaxRecycles \in Nat
  /\ ShortDeck \in Seq(Ticket) /\ LongDeck \in Seq(Ticket) /\ TicketDraw \in Nat \ {0}
  /\ InitialShort \in Nat /\ InitialLong \in Nat /\ TunnelReveal \in Nat

\* No marker stands for a record, and a parallel group is what each of its tracks says it
\* is (board.ts).
ASSUME BoardAssumption ==
  /\ None # Locked /\ None \notin [by : Player, left : Nat]
  /\ None \notin [route : Route, pay : SUBSET Card, revealed : SUBSET Card]
  /\ \A r \in Route : r \notin Twins[r] /\ \A o \in Twins[r] : Twins[o] \cup {o} = Twins[r] \cup {r}

\* The deck outlasts the hands that are dealt, a ticket joins two cities, and there are
\* tickets for the opening offers, which are as large as what must be kept of them
\* (validate.ts); of a later offer one ticket must be kept (constants.ts).
ASSUME DealAssumption ==
  /\ \A h \in [Player -> kSubset(HandStart, Card)] : \E c \in Card : \A p \in Player : c \notin h[p]
  /\ \A t \in Ticket : Ways[t] \subseteq (SUBSET Route) \ {{}}
  /\ Len(ShortDeck) >= InitialShort * N /\ Len(LongDeck) >= InitialLong * N
  /\ InitialLong + InitialShort >= 1 /\ InitialLong + InitialShort >= MinKeepInitial
  /\ MinKeepInitial \in Nat /\ MinKeep \in 0..1

\* A ticket is in one deck, once: generate.ts numbers them, and ticketById (board.ts) has one
\* of a name.
ASSUME TicketAssumption ==
  /\ \A i, j \in 1..Len(ShortDeck) : ShortDeck[i] = ShortDeck[j] => i = j
  /\ \A i, j \in 1..Len(LongDeck) : LongDeck[i] = LongDeck[j] => i = j
  /\ \A i \in 1..Len(ShortDeck), j \in 1..Len(LongDeck) : ShortDeck[i] # LongDeck[j]

VARIABLES
  turn,      \* TurnState: phase, at (orderIndex), drawn, pushed
  deck, discard, market,   \* the piles
  hand,      \* the cards of each player
  pool,      \* the cards of each team
  tunnel,    \* pendingTunnel, or None
  trains,    \* trainCars
  owner,     \* per route: its owner, Locked, or None while it is open
  repair,    \* brokenRails: who repaired a route, and for how long it is theirs
  station,   \* per city: who built there, or None
  short,     \* ticketDeckShort; the top is the last
  offer,     \* pendingTicketOffer; the empty sequence is null
  kept, done,  \* keptTickets, completedTickets
  endgame,   \* triggered, by (triggerPlayerIndex), left (finalTurnsRemaining)
  passes     \* consecutivePasses

piles == <<deck, discard, market>>
board == <<owner, repair, station, trains>>
tickets == <<short, offer, kept, done>>
clock == <<turn, endgame, passes>>
vars == <<piles, hand, pool, tunnel, board, tickets, clock>>

Cur == Order[turn.at + 1]
Phase(ph) == turn.phase = ph
First == Phase("AWAIT_ACTION")

Locos(S) == {c \in S : Hue[c] = Loco}
OfColour(S, x) == {c \in S : Hue[c] = x}
Teammates(p) == {q \in Player : Side[q] = Side[p]}
Size(S) == Cardinality(S)

------------------------------------------------------------------------------
(* The deck and the market (deck.ts). *)

(* n draws from the top, the discard pile being shuffled in whenever a card
   is wanted and the deck is empty. *)
Drawn(n, dk, dc) ==
  IF n <= Size(dk)
  THEN {[took |-> s, deck |-> dk \ s, discard |-> dc] : s \in kSubset(n, dk)}
  ELSE {[took |-> dk \cup s, deck |-> dc \ s, discard |-> {}] :
          s \in kSubset(Min({n - Size(dk), Size(dc)}), dc)}

Filled(m) ==
  {[market |-> m.market \cup d.took, deck |-> d.deck, discard |-> d.discard] :
     d \in Drawn(MarketSize - Size(m.market), m.deck, m.discard)}

(* Too many locomotives face up, and cards to replace them with. *)
Stale(m) ==
  /\ Size(Locos(m.market)) >= RecycleAt
  /\ m.deck \cup m.discard # {}

Swept(m) ==
  Filled([market |-> {}, deck |-> m.deck, discard |-> m.discard \cup m.market])

(* What refillMarket may leave: the empty slots filled, then the whole market
   thrown away and filled again while it is stale, at most MaxRecycles times. *)
Refilled(m) ==
  LET rounds[i \in 0..MaxRecycles] ==
        IF i = 0 THEN Filled(m)
        ELSE UNION {IF Stale(x) THEN Swept(x) ELSE {x} : x \in rounds[i - 1]}
  IN  rounds[MaxRecycles]

------------------------------------------------------------------------------
(* Routes, payments and who may do what (legality.ts, payments.ts). *)

Holds(p, r) == owner[r] \in Teammates(p)

(* The side holds another track of the parallel group. *)
SideHoldsTwin(p, r) == \E o \in Twins[r] : Holds(p, o)

(* How many tracks of the parallel group of r may be claimed. *)
OpenTracks(r) ==
  LET all == Size(Twins[r]) + 1
  IN  IF OneTrackAt23 THEN Min({all, Max({1, N - 2})}) ELSE all

(* A broken rail opens to its repairer first, to everyone later. *)
RailOpen(p, r) ==
  Broken[r] > 0 => /\ repair[r] # None
                   /\ repair[r].left > 0 => repair[r].by = p

Claimable(p, r) ==
  /\ owner[r] = None
  /\ RailOpen(p, r)
  /\ ~SideHoldsTwin(p, r)

(* n cards of one colour, locomotives being wild. *)
AffordsAny(p, n) ==
  LET l == Size(Locos(hand[p]))
  IN  l >= n \/ \E x \in Colour : Size(OfColour(hand[p], x)) + l >= n

AffordsPaint(p, n, x) ==
  LET l == Size(Locos(hand[p]))
  IN  IF x = Gray THEN AffordsAny(p, n)
      ELSE l >= n \/ Size(OfColour(hand[p], x)) + l >= n

CanClaimAnyRoute(p) ==
  \E r \in Route :
    /\ Claimable(p, r)
    /\ trains[p] >= Length[r]
    /\ Length[r] >= Ferry[r] /\ Size(Locos(hand[p])) >= Ferry[r]
    /\ AffordsPaint(p, Length[r], Paint[r])

PoolDead == deck \cup discard \cup market = {}

Built(p) == Size({c \in City : station[c] = p})

(* Mutant: the repair of a broken rail is not known to be a move. *)
RepairIsNoMove(p) == FALSE

MayRepair(p) ==
  \E r \in Route :
    /\ Broken[r] > 0 /\ repair[r] = None /\ owner[r] = None
    /\ AffordsPaint(p, Broken[r], Paint[r])

MayBuild(p) ==
  /\ Built(p) < StationsPerPlayer
  /\ \E c \in City : station[c] = None
  /\ AffordsAny(p, Built(p) + 1)

(* hasAnyLegalMove: neither a ticket draw nor a push is a move. *)
HasAnyLegalMove(p) ==
  \/ pool[Side[p]] # {}
  \/ ~PoolDead
  \/ MayBuild(p)
  \/ MayRepair(p)
  \/ CanClaimAnyRoute(p)

(* The cards of one payment: n of them, one colour beside the locomotives,
   at least f locomotives. *)
Pays(pay, n, f, x) ==
  /\ Size(pay) = n
  /\ Size(Locos(pay)) >= f
  /\ \A c, d \in pay \ Locos(pay) : Hue[c] = Hue[d]
  /\ x # Gray => \A c \in pay \ Locos(pay) : Hue[c] = x

(* The colour a payment plays; Loco when it is all locomotives. *)
Played(pay) == IF pay = Locos(pay) THEN Loco ELSE Hue[CHOOSE c \in pay : Hue[c] # Loco]

Spend(p, pay, pile) ==
  /\ hand' = [hand EXCEPT ![p] = @ \ pay]
  /\ discard' = pile \cup pay

------------------------------------------------------------------------------
(* Tickets (tickets.ts). *)

(* The track of the side joins the cities of ticket t. *)
Joined(p, t) == \E way \in Ways[t] : \A r \in way : Holds(p, r)

Top(n, s) == SubSeq(s, Len(s) - n + 1, Len(s))
Rest(n, s) == SubSeq(s, 1, Len(s) - n)
Count(s) == Min({TicketDraw, Len(s)})
InSeq(s) == {s[i] : i \in 1..Len(s)}

(* Tickets that are not kept go under the deck. *)
Returned(os, keep, s) ==
  LET left[k \in 0..Len(os)] ==
        IF k = 0 THEN <<>>
        ELSE IF os[k] \in keep THEN left[k - 1] ELSE Append(left[k - 1], os[k])
  IN  left[Len(os)] \o s

(* Mutant: only the tickets of the player on the move are looked at. *)
LockOwn ==
  done' = [q \in Player |-> IF q = Cur THEN {t \in kept'[q] : Joined(q, t)'} ELSE done[q]]

(* lockCompletedTickets: after a change of the network everybody's tickets
   are looked at again. *)
Lock == done' = [q \in Player |-> done[q] \cup {t \in kept'[q] : Joined(q, t)'}]

NothingLeftToJoin(q) ==
  kept[q] # {} /\ \A t \in kept[q] : t \in done[q] \/ Joined(q, t)

------------------------------------------------------------------------------
(* The end of a turn (turn.ts endTurn), in the state the rest of the action
   leaves: rails is what it makes of repair, sh and os of the tickets. *)

Tick(rails) ==
  [r \in Route |-> IF rails[r] # None /\ rails[r].left > 0
                   THEN [rails[r] EXCEPT !.left = @ - 1] ELSE rails[r]]

(* Mutant: a dead table is nobody's concern. *)
NeverStalled == FALSE

(* No card is left to draw and nobody can claim a route. *)
Stalled == PoolDead /\ \A q \in Player : ~CanClaimAnyRoute(q)

(* Mutant: the turn that triggers the end already counts. *)
CountsAtOnce(begins) ==
  IF begins THEN [triggered |-> TRUE, by |-> turn.at, left |-> N - 1]
  ELSE IF endgame.triggered THEN [endgame EXCEPT !.left = @ - 1]
  ELSE endgame

Countdown(begins) ==
  IF begins THEN [triggered |-> TRUE, by |-> turn.at, left |-> N]
  ELSE IF endgame.triggered THEN [endgame EXCEPT !.left = @ - 1]
  ELSE endgame

EndTurn(wasPass, rails, sh, os) ==
  LET run == IF wasPass THEN passes + 1 ELSE 0
      nextAt == (turn.at + 1) % N
  IN
  /\ repair' = Tick(rails)
  /\ passes' = run
  /\ endgame' = Countdown(/\ ~endgame.triggered
                          /\ trains'[Cur] <= EndThreshold \/ Stalled')
  /\ IF run >= N \/ (endgame.triggered /\ endgame'.left <= 0)
     THEN /\ turn' = [turn EXCEPT !.phase = "GAME_OVER"]
          /\ short' = sh /\ offer' = os
     ELSE \E q \in {Order[nextAt + 1]} :
            LET forced == /\ sh # <<>>
                          /\ HasAnyLegalMove(q)'
                          /\ NothingLeftToJoin(q)'
            IN
            /\ turn' = [phase |-> IF forced THEN "TICKET_SELECTION" ELSE "AWAIT_ACTION",
                        at |-> nextAt, drawn |-> 0, pushed |-> FALSE]
            /\ short' = IF forced THEN Rest(Count(sh), sh) ELSE sh
            /\ offer' = IF forced THEN [os EXCEPT ![q] = Top(Count(sh), sh)] ELSE os

EndsTurn == EndTurn(FALSE, repair, short, offer)

------------------------------------------------------------------------------
(* Tickets: the opening offer, a draw, and what is kept of it. *)

(* Mutant: whether all have answered is asked before the answer counts. *)
KeepInitialUnseen ==
  \E p \in Player, keep \in SUBSET Ticket :
    /\ Phase("SETUP_TICKETS")
    /\ offer[p] # <<>>
    /\ keep \subseteq InSeq(offer[p]) /\ Size(keep) >= MinKeepInitial
    /\ InSeq(offer[p]) \cap InSeq(LongDeck) \subseteq keep
    /\ kept' = [kept EXCEPT ![p] = @ \cup keep]
    /\ offer' = [offer EXCEPT ![p] = <<>>]
    /\ short' = Returned(offer[p], keep, short)
    /\ turn' = IF \A q \in Player : offer[q] = <<>>
               THEN [turn EXCEPT !.phase = "AWAIT_ACTION"] ELSE turn
    /\ UNCHANGED <<piles, hand, pool, tunnel, board, done, endgame, passes>>

(* A player answers the opening offer; when all have, the first turn opens. *)
KeepInitial ==
  \E p \in Player, keep \in SUBSET Ticket :
    /\ Phase("SETUP_TICKETS")
    /\ offer[p] # <<>>
    /\ keep \subseteq InSeq(offer[p]) /\ Size(keep) >= MinKeepInitial
    /\ InSeq(offer[p]) \cap InSeq(LongDeck) \subseteq keep
    /\ kept' = [kept EXCEPT ![p] = @ \cup keep]
    /\ offer' = [offer EXCEPT ![p] = <<>>]
    /\ short' = Returned(offer[p], keep, short)
    /\ turn' = IF \A q \in Player : offer'[q] = <<>>
               THEN [turn EXCEPT !.phase = "AWAIT_ACTION"] ELSE turn
    /\ UNCHANGED <<piles, hand, pool, tunnel, board, done, endgame, passes>>

DrawTickets ==
  /\ First
  /\ HasAnyLegalMove(Cur)
  /\ short # <<>>
  /\ short' = Rest(Count(short), short)
  /\ offer' = [offer EXCEPT ![Cur] = Top(Count(short), short)]
  /\ turn' = [turn EXCEPT !.phase = "TICKET_SELECTION"]
  /\ UNCHANGED <<piles, hand, pool, tunnel, board, kept, done, endgame, passes>>

KeepTickets ==
  \E keep \in SUBSET InSeq(offer[Cur]) :
    /\ Phase("TICKET_SELECTION")
    /\ Size(keep) >= MinKeep
    /\ kept' = [kept EXCEPT ![Cur] = @ \cup keep]
    /\ UNCHANGED <<piles, hand, pool, tunnel, owner, station, trains>>
    /\ Lock
    /\ EndTurn(FALSE, repair, Returned(offer[Cur], keep, short),
               [offer EXCEPT ![Cur] = <<>>])

------------------------------------------------------------------------------
(* Drawing train cards. *)

SecondDrawAvailable == deck \cup discard # {} \/ market # Locos(market)

(* A card was taken: the turn goes on while a second pick is owed and there
   is one to be had. *)
Picked(spendsTheTurn, more) ==
  LET n == (IF First THEN 0 ELSE turn.drawn) + 1
  IN  IF spendsTheTurn \/ n >= 2 \/ ~more
      THEN EndsTurn
      ELSE /\ turn' = [turn EXCEPT !.phase = "DRAWING_CARDS", !.drawn = n]
           /\ UNCHANGED <<repair, short, offer, endgame, passes>>

Drawing == First \/ Phase("DRAWING_CARDS")

DrawBlind ==
  \E d \in Drawn(1, deck, discard) :
    /\ Drawing
    /\ d.took # {}
    /\ deck' = d.deck /\ discard' = d.discard
    /\ hand' = [hand EXCEPT ![Cur] = @ \cup d.took]
    /\ UNCHANGED <<market, pool, tunnel, owner, station, trains, kept, done>>
    /\ Picked(First /\ Locos(d.took) # {} /\ ~BlindLocoGoesOn, SecondDrawAvailable')

(* Mutant: a second draw that finds nothing is refused. *)
DryDrawRefused == FALSE /\ UNCHANGED vars

(* A second draw that finds nothing ends the turn. *)
DryDraw ==
  /\ Phase("DRAWING_CARDS")
  /\ deck \cup discard = {}
  /\ UNCHANGED <<piles, hand, pool, tunnel, owner, station, trains, kept, done>>
  /\ EndsTurn

(* A face-up locomotive is a first pick only, and is the whole turn. *)
DrawFaceup ==
  \E c \in market :
    \E m \in Refilled([market |-> market \ {c}, deck |-> deck, discard |-> discard]) :
      /\ Drawing
      /\ Hue[c] = Loco => First
      /\ market' = m.market /\ deck' = m.deck /\ discard' = m.discard
      /\ hand' = [hand EXCEPT ![Cur] = @ \cup {c}]
      /\ UNCHANGED <<pool, tunnel, owner, station, trains, kept, done>>
      /\ Picked(Hue[c] = Loco, SecondDrawAvailable')

(* One card a turn goes to the pool of the side; the turn goes on. *)
PushToTeamPool ==
  \E c \in hand[Cur] :
    /\ TeamGame /\ First
    /\ ~turn.pushed /\ Size(pool[Side[Cur]]) < PoolCapacity
    /\ hand' = [hand EXCEPT ![Cur] = @ \ {c}]
    /\ pool' = [pool EXCEPT ![Side[Cur]] = @ \cup {c}]
    /\ turn' = [turn EXCEPT !.pushed = TRUE]
    /\ UNCHANGED <<piles, tunnel, board, tickets, endgame, passes>>

TakeFromTeamPool ==
  \E c \in pool[Side[Cur]] :
    /\ TeamGame /\ Drawing
    /\ Hue[c] = Loco => First
    /\ pool' = [pool EXCEPT ![Side[Cur]] = @ \ {c}]
    /\ hand' = [hand EXCEPT ![Cur] = @ \cup {c}]
    /\ UNCHANGED <<piles, tunnel, owner, station, trains, kept, done>>
    /\ Picked(Hue[c] = Loco, SecondDrawAvailable \/ pool'[Side[Cur]] # {})

------------------------------------------------------------------------------
(* Claiming, tunnels, stations, repairs, and passing. *)

(* Mutant: the rest of the group stays open. *)
NoLock(p, r) == owner' = [owner EXCEPT ![r] = p]

(* The route is p's; when the group has no open track left its others lock. *)
Own(p, r) ==
  LET owned == 1 + Size({o \in Twins[r] : owner[o] \in Player})
  IN  owner' = [o \in Route |->
         IF o = r THEN p
         ELSE IF o \in Twins[r] /\ owner[o] = None /\ owned >= OpenTracks(r)
              THEN Locked ELSE owner[o]]

LayTrains(p, r) == trains' = [trains EXCEPT ![p] = @ - Length[r]]

ClaimEffects(p, r) == Own(p, r) /\ LayTrains(p, r) /\ UNCHANGED <<station, kept>> /\ Lock

(* A route is offered to a payment: preconditions and validateRoutePayment. *)
Bid(p, r, pay) ==
  /\ First
  /\ Claimable(p, r)
  /\ Pays(pay, Length[r], Ferry[r], Paint[r])
  /\ trains[p] >= Length[r]

ClaimRoute ==
  \E r \in Route \ Tunnel, pay \in SUBSET hand[Cur] :
    /\ Bid(Cur, r, pay)
    /\ Spend(Cur, pay, discard)
    /\ UNCHANGED <<deck, market, pool, tunnel>>
    /\ ClaimEffects(Cur, r)
    /\ EndsTurn

(* Mutant: a tunnel is refused when too few cards are left to reveal. *)
BeginTunnelFull ==
  \E r \in Tunnel, pay \in SUBSET hand[Cur] :
    /\ Bid(Cur, r, pay)
    /\ \E d \in Drawn(TunnelReveal, deck, discard) :
         /\ Size(d.took) = TunnelReveal
         /\ deck' = d.deck /\ discard' = d.discard
         /\ tunnel' = [route |-> r, pay |-> pay, revealed |-> d.took]
    /\ turn' = [turn EXCEPT !.phase = "TUNNEL_PENDING"]
    /\ UNCHANGED <<market, hand, pool, board, tickets, endgame, passes>>

(* The base payment stays in hand while the surcharge is revealed. *)
BeginTunnel ==
  \E r \in Tunnel, pay \in SUBSET hand[Cur] :
    /\ Bid(Cur, r, pay)
    /\ \E d \in Drawn(TunnelReveal, deck, discard) :
         /\ deck' = d.deck /\ discard' = d.discard
         /\ tunnel' = [route |-> r, pay |-> pay, revealed |-> d.took]
    /\ turn' = [turn EXCEPT !.phase = "TUNNEL_PENDING"]
    /\ UNCHANGED <<market, hand, pool, board, tickets, endgame, passes>>

Surcharge ==
  Size({c \in tunnel.revealed : Hue[c] \in {Loco, Played(tunnel.pay)}})

(* Mutant: an abandoned tunnel keeps its revealed cards. *)
AbortKeeps ==
  /\ Phase("TUNNEL_PENDING")
  /\ tunnel' = None
  /\ UNCHANGED <<piles, hand, pool, owner, station, trains, kept, done>>
  /\ EndsTurn

AbortTunnel ==
  /\ Phase("TUNNEL_PENDING")
  /\ discard' = discard \cup tunnel.revealed
  /\ tunnel' = None
  /\ UNCHANGED <<deck, market, hand, pool, owner, station, trains, kept, done>>
  /\ EndsTurn

CommitTunnel ==
  /\ Phase("TUNNEL_PENDING")
  /\ \E extra \in SUBSET (hand[Cur] \ tunnel.pay) :
       /\ Size(extra) = Surcharge
       /\ \A c \in extra : Hue[c] \in {Loco, Played(tunnel.pay)}
       /\ Spend(Cur, tunnel.pay \cup extra, discard \cup tunnel.revealed)
  /\ tunnel' = None
  /\ UNCHANGED <<deck, market, pool>>
  /\ ClaimEffects(Cur, tunnel.route)
  /\ EndsTurn

(* The n-th station of a player costs n cards; a city has one. *)
BuildStation ==
  \E c \in City, pay \in SUBSET hand[Cur] :
    /\ First
    /\ station[c] = None /\ Built(Cur) < StationsPerPlayer
    /\ Pays(pay, Built(Cur) + 1, 0, Gray)
    /\ Spend(Cur, pay, discard)
    /\ station' = [station EXCEPT ![c] = Cur]
    /\ UNCHANGED <<deck, market, pool, tunnel, owner, trains, kept>>
    /\ Lock
    /\ EndsTurn

(* Mutant: the window does not count the turn of the repair. *)
ShortWindow(p) == [by |-> p, left |-> N]

(* The repairer has the route to themselves until their next turn is over. *)
Window(p) == [by |-> p, left |-> N + 1]

RepairRoute ==
  \E r \in Route, pay \in SUBSET hand[Cur] :
    /\ First
    /\ Broken[r] > 0 /\ repair[r] = None /\ owner[r] = None
    /\ Pays(pay, Broken[r], 0, Paint[r])
    /\ Spend(Cur, pay, discard)
    /\ UNCHANGED <<deck, market, pool, tunnel, owner, station, trains, kept, done>>
    /\ EndTurn(FALSE, [repair EXCEPT ![r] = Window(Cur)], short, offer)

Pass ==
  /\ First
  /\ ~HasAnyLegalMove(Cur)
  /\ UNCHANGED <<piles, hand, pool, tunnel, owner, station, trains, kept, done>>
  /\ EndTurn(TRUE, repair, short, offer)

(* END_GAME: the room ends the match, whatever is pending. *)
EndGame ==
  /\ ~Phase("GAME_OVER")
  /\ turn' = [turn EXCEPT !.phase = "GAME_OVER"]
  /\ UNCHANGED <<piles, hand, pool, tunnel, board, tickets, endgame, passes>>

------------------------------------------------------------------------------
(* initGame: hands, market, ticket offers. *)

Dealt(n, s, i) == SubSeq(s, Len(s) - n * i + 1, Len(s) - n * (i - 1))

Init ==
  /\ turn = [phase |-> "SETUP_TICKETS", at |-> 0, drawn |-> 0, pushed |-> FALSE]
  /\ \E h \in [Player -> kSubset(HandStart, Card)] :
       /\ \A p, q \in Player : p # q => h[p] \cap h[q] = {}
       /\ hand = h
       /\ \E m \in Refilled([market |-> {}, deck |-> Card \ UNION {h[p] : p \in Player},
                             discard |-> {}]) :
            deck = m.deck /\ discard = m.discard /\ market = m.market
  /\ pool = [s \in {Side[p] : p \in Player} |-> {}]
  /\ tunnel = None
  /\ trains = [p \in Player |-> TrainsStart]
  /\ owner = [r \in Route |-> None]
  /\ repair = [r \in Route |-> None]
  /\ station = [c \in City |-> None]
  /\ short = Rest(InitialShort * N, ShortDeck)
  /\ offer = [p \in Player |->
       LET i == CHOOSE i \in 1..N : Order[i] = p
       IN  Dealt(InitialLong, LongDeck, i) \o Dealt(InitialShort, ShortDeck, i)]
  /\ kept = [p \in Player |-> {}]
  /\ done = [p \in Player |-> {}]
  /\ endgame = [triggered |-> FALSE, by |-> -1, left |-> 0]
  /\ passes = 0

(* What a player may do instead of passing or pushing. *)
Productive ==
  \/ DrawTickets \/ DrawBlind \/ DrawFaceup \/ TakeFromTeamPool
  \/ ClaimRoute \/ BeginTunnel \/ BuildStation \/ RepairRoute

Play ==
  \/ KeepInitial \/ KeepTickets
  \/ Productive \/ DryDraw \/ PushToTeamPool
  \/ AbortTunnel \/ CommitTunnel
  \/ Pass

Next == Play \/ EndGame

Spec == Init /\ [][Next]_vars

------------------------------------------------------------------------------
(* Properties. *)

Phases == {"SETUP_TICKETS", "AWAIT_ACTION", "DRAWING_CARDS", "TICKET_SELECTION",
           "TUNNEL_PENDING", "GAME_OVER"}

(* Types, and what each phase has pending: a tunnel, an offer, or nothing. *)
TypeOK ==
  /\ turn \in [phase : Phases, at : 0..N - 1, drawn : 0..1, pushed : BOOLEAN]
  /\ deck \subseteq Card /\ discard \subseteq Card /\ market \subseteq Card
  /\ hand \in [Player -> SUBSET Card]
  /\ pool \in [{Side[p] : p \in Player} -> SUBSET Card]
  /\ trains \in [Player -> 0..TrainsStart]
  /\ owner \in [Route -> Player \cup {None, Locked}]
  /\ repair \in [Route -> {None} \cup [by : Player, left : 0..N]]
  /\ station \in [City -> Player \cup {None}]
  /\ short \in Seq(Ticket) /\ offer \in [Player -> Seq(Ticket)]
  /\ tunnel \in {None} \cup [route : Route, pay : SUBSET Card, revealed : SUBSET Card]
  /\ kept \in [Player -> SUBSET Ticket] /\ done \in [Player -> SUBSET Ticket]
  /\ endgame \in [triggered : BOOLEAN, by : -1..N - 1, left : 0..N]
  /\ passes \in 0..N
  /\ Phase("TUNNEL_PENDING") => tunnel # None
  /\ tunnel # None => Phase("TUNNEL_PENDING") \/ Phase("GAME_OVER")
  /\ Phase("TICKET_SELECTION") => offer[Cur] # <<>>
  /\ Drawing => \A p \in Player : offer[p] = <<>>

Places == {<<"deck">>, <<"discard">>, <<"market">>, <<"tunnel">>}
            \cup {"hand"} \X Player \cup {"pool"} \X DOMAIN pool

Heap(x) ==
  CASE x[1] = "deck" -> deck
    [] x[1] = "discard" -> discard
    [] x[1] = "market" -> market
    [] x[1] = "tunnel" -> IF tunnel = None THEN {} ELSE tunnel.revealed
    [] x[1] = "hand" -> hand[x[2]]
    [] x[1] = "pool" -> pool[x[2]]

(* Every train card is in exactly one place, however the turns, reshuffles,
   tunnels and pools move it (invariants.ts, card conservation). *)
CardsConserved ==
  \A c \in Card : \E x \in Places : c \in Heap(x) /\ \A y \in Places \ {x} : c \notin Heap(y)

(* The trains of a player are in the box or on the routes they own
   (invariants.ts, train conservation). *)
TrainsConserved ==
  \A p \in Player :
    trains[p] + MapThenSumSet(LAMBDA r : Length[r], {r \in Route : owner[r] = p}) = TrainsStart

(* The tickets of the deck, and the long ones that were dealt: the rest of those
   is never seen. *)
InPlay == InSeq(ShortDeck) \cup UNION {InSeq(Dealt(InitialLong, LongDeck, i)) : i \in 1..N}

(* Every ticket in play is in the deck, in one offer or in one player's hand, and
   there once: one that is not kept goes under the deck. *)
TicketsConserved ==
  \A t \in InPlay :
    Size({i \in 1..Len(short) : short[i] = t})
      + Size({p \in Player : t \in InSeq(offer[p])})
      + Size({p \in Player : t \in kept[p]}) = 1

(* Cards, trains and tickets are conserved, through tunnels that are abandoned,
   markets that are recycled and decks that are reshuffled. *)
Conserved == CardsConserved /\ TrainsConserved /\ TicketsConserved

(* Of a parallel group no side owns two tracks, no more are owned than the
   number of players opens, and then, and only then, the others are locked. *)
ParallelTracks ==
  \A r \in Route :
    LET owned == {o \in Twins[r] \cup {r} : owner[o] \in Player} IN
    /\ Size(owned) <= OpenTracks(r)
    /\ \A o, u \in owned : o # u => Side[owner[o]] # Side[owner[u]]
    /\ owner[r] = Locked <=> r \notin owned /\ Size(owned) = OpenTracks(r)

(* Once the end is triggered every player has exactly one more turn, the one
   who triggered it the last. *)
FinalRound ==
  endgame.triggered /\ ~Phase("GAME_OVER") =>
    endgame.left = N - ((turn.at - endgame.by - 1) % N)

(* A repaired rail is its repairer's from the repair to the end of their next
   turn. *)
RailWindow ==
  \A r \in Route :
    repair[r] # None /\ repair[r].left > 0 /\ ~Phase("GAME_OVER") =>
      \E i \in 0..N - 1 : /\ Order[i + 1] = repair[r].by
                          /\ repair[r].left = N - ((turn.at - i - 1) % N)

(* A ticket is announced as complete exactly when the side's track joins its
   cities, whoever laid the last of it: what is locked is what will score. *)
LocksAreRight ==
  \A q \in Player : done[q] = {t \in kept[q] : Joined(q, t)}

(* A turn never opens on a table without cards to draw or routes to claim
   unless the end has been triggered: the game cannot stall. *)
StalledGameEnds ==
  First /\ ~turn.pushed /\ PoolDead /\ (\A q \in Player : ~CanClaimAnyRoute(q))
    => endgame.triggered

(* What each action asks for, what the player chooses being left open: a way to
   pay, a card to take.  What it then does must be possible too. *)
CanTakeCard ==
  /\ Drawing
  /\ \/ \E d \in Drawn(1, deck, discard) : d.took # {}
     \/ \E c \in market :
          /\ Hue[c] = Loco => First
          /\ Refilled([market |-> market \ {c}, deck |-> deck, discard |-> discard]) # {}
     \/ TeamGame /\ \E c \in pool[Side[Cur]] : Hue[c] = Loco => First

CanClaim ==
  \E r \in Route, pay \in SUBSET hand[Cur] :
    Bid(Cur, r, pay) /\ (r \in Tunnel => Drawn(TunnelReveal, deck, discard) # {})

CanBuild ==
  \E c \in City, pay \in SUBSET hand[Cur] :
    First /\ station[c] = None /\ Built(Cur) < StationsPerPlayer /\ Pays(pay, Built(Cur) + 1, 0, Gray)

CanRepair ==
  \E r \in Route, pay \in SUBSET hand[Cur] :
    First /\ Broken[r] > 0 /\ repair[r] = None /\ owner[r] = None /\ Pays(pay, Broken[r], 0, Paint[r])

CanDrawTickets == First /\ HasAnyLegalMove(Cur) /\ short # <<>>

CanAct == CanDrawTickets \/ CanTakeCard \/ CanClaim \/ CanBuild \/ CanRepair

CanAnswer ==
  \/ /\ Phase("SETUP_TICKETS")
     /\ \E p \in Player, keep \in SUBSET Ticket :
          /\ offer[p] # <<>> /\ keep \subseteq InSeq(offer[p]) /\ Size(keep) >= MinKeepInitial
          /\ InSeq(offer[p]) \cap InSeq(LongDeck) \subseteq keep
  \/ Phase("TICKET_SELECTION") /\ \E keep \in SUBSET InSeq(offer[Cur]) : Size(keep) >= MinKeep

CanPush == /\ TeamGame /\ First /\ hand[Cur] # {}
           /\ ~turn.pushed /\ Size(pool[Side[Cur]]) < PoolCapacity

CanPlay ==
  \/ CanAct \/ CanAnswer \/ CanPush
  \/ Phase("DRAWING_CARDS") /\ deck \cup discard = {}
  \/ Phase("TUNNEL_PENDING")
  \/ First /\ ~HasAnyLegalMove(Cur)

(* The player on the move may pass exactly when there is nothing else they
   may do but push: legality.ts, which counts colours, mirrors the reducer,
   which wants a payment. *)
PassIsLast == First => (HasAnyLegalMove(Cur) <=> CanAct)

(* Somebody always has an action the reducer accepts. *)
SomebodyCanPlay == ~Phase("GAME_OVER") => CanPlay

(* What is accepted is carried out to the end of the turn, and nothing else is:
   however few cards are left for a draw, a reveal or the market. *)
GuardsAreEnabled == (ENABLED Productive <=> CanAct) /\ (ENABLED Play <=> CanPlay)
=============================================================================
