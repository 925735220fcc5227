----------------------------- MODULE TurnProofs -----------------------------
(***************************************************************************)
(* Proofs about Turn, for any seats, teams, cards, board, tickets and rule *)
(* parameters that satisfy the module's assumptions.                       *)
(*                                                                         *)
(* Every action of a turn either leaves the round's counters alone or ends *)
(* the turn with EndTurn, so the properties of the round are proved about  *)
(* EndTurn once.                                                           *)
(***************************************************************************)
EXTENDS Turn, NaturalLemmas, SequenceTheorems

(* Somebody has not passed while the game goes on. *)
PassesLeft == ~Phase("GAME_OVER") => passes < N

(* Before the opening offers are answered nothing has been laid, and there
   are cards to draw. *)
Opening ==
  Phase("SETUP_TICKETS") =>
    /\ \A r \in Route : owner[r] = None /\ repair[r] = None
    /\ ~PoolDead /\ ~endgame.triggered

(* Nobody is asked twice: the offers that are open are those of the phase. *)
Asked ==
  /\ turn.phase \in {"AWAIT_ACTION", "DRAWING_CARDS", "TUNNEL_PENDING"} =>
       \A p \in Player : offer[p] = <<>>
  /\ Phase("TICKET_SELECTION") => \A p \in Player \ {Cur} : offer[p] = <<>>

(* While the surcharge of a tunnel is looked at, it can still be claimed with
   the payment that is in the hand. *)
TunnelOpen ==
  Phase("TUNNEL_PENDING") =>
    /\ owner[tunnel.route] = None /\ ~SideHoldsTwin(Cur, tunnel.route)
    /\ trains[Cur] >= Length[tunnel.route]
    /\ tunnel.pay \subseteq hand[Cur]

(* Whoever triggered the end has a seat. *)
Trigger == endgame.triggered => endgame.by \in 0..N - 1

(* The counters keep their types, and their meaning for the round. *)
Round ==
  /\ turn \in [phase : Phases, at : 0..N - 1, drawn : 0..1, pushed : BOOLEAN]
  /\ repair \in [Route -> {None} \cup [by : Player, left : 0..N]]
  /\ endgame \in [triggered : BOOLEAN, by : -1..N - 1, left : 0..N]
  /\ passes \in 0..N
  /\ PassesLeft /\ Trigger /\ FinalRound /\ RailWindow

(* The order of play: the round, and who is asked about tickets. *)
Turns ==
  /\ Round
  /\ short \in Seq(Ticket) /\ offer \in [Player -> Seq(Ticket)]
  /\ Asked /\ (Phase("TICKET_SELECTION") => offer[Cur] # <<>>)
  /\ StalledGameEnds

(* What is on the board, and the tickets it completes. *)
Network ==
  /\ owner \in [Route -> Player \cup {None, Locked}]
  /\ station \in [City -> Player \cup {None}]
  /\ trains \in [Player -> 0..TrainsStart]
  /\ kept \in [Player -> SUBSET Ticket] /\ done \in [Player -> SUBSET Ticket]
  /\ LocksAreRight /\ ParallelTracks

(* What a phase has pending. *)
Pending ==
  /\ Opening /\ TunnelOpen
  /\ Phase("TUNNEL_PENDING") => tunnel # None
  /\ tunnel # None => Phase("TUNNEL_PENDING") \/ Phase("GAME_OVER")

(* Every card is in one place: Away is what is not in the deck, the discard
   pile or the market. *)
Revealed == IF tunnel = None THEN {} ELSE tunnel.revealed
Total(f, D) == UNION {f[x] : x \in D}
InHands == Total(hand, Player)
InPools == Total(pool, {Side[p] : p \in Player})
Away == Revealed \cup InHands \cup InPools

(* The sets of f have no element in common. *)
Apart(f) == \A x, y \in DOMAIN f : x # y => f[x] \cap f[y] = {}

Cards ==
  /\ tunnel \in {None} \cup [route : Route, pay : SUBSET Card, revealed : SUBSET Card]
  /\ hand \in [Player -> SUBSET Card] /\ Apart(hand)
  /\ pool \in [{Side[p] : p \in Player} -> SUBSET Card] /\ Apart(pool)
  /\ Revealed \cap InHands = {} /\ Revealed \cap InPools = {} /\ InHands \cap InPools = {}
  /\ market \cup deck \cup discard = Card \ Away
  /\ market \cap deck = {} /\ market \cap discard = {} /\ deck \cap discard = {}

Inv == Turns /\ Network /\ Pending /\ Cards

-----------------------------------------------------------------------------
(* Seats and rounds. *)

LEMMA Seats ==
  /\ N \in Nat /\ N >= 2
  /\ \A i \in 1..N : Order[i] \in Player
BY TableAssumption DEF N

LEMMA Seat ==
  ASSUME TypeOK
  PROVE  /\ turn.at \in 0..N - 1 /\ Cur \in Player
         /\ (turn.at + 1) % N \in 0..N - 1
         /\ (turn.at + 1) % N = IF turn.at = N - 1 THEN 0 ELSE turn.at + 1
         /\ Order[((turn.at + 1) % N) + 1] \in Player
PROOF
  <1>1. turn.at \in 0..N - 1
    BY DEF TypeOK
  <1>2. turn.at + 1 \in 1..N
    BY <1>1, Seats
  <1>3. Cur \in Player
    BY <1>2, Seats DEF Cur
  <1>4. (turn.at + 1) % N = IF turn.at = N - 1 THEN 0 ELSE turn.at + 1
    <2>1. CASE turn.at = N - 1
      <3>1. turn.at + 1 = N
        BY <2>1, Seats
      <3> QED BY <2>1, <3>1, Seats
    <2>2. CASE turn.at # N - 1
      <3>1. turn.at + 1 \in 0..N - 1
        BY <1>1, <2>2, Seats
      <3> QED BY <2>2, <3>1, Seats
    <2> QED BY <2>1, <2>2
  <1>5. (turn.at + 1) % N \in 0..N - 1
    BY <1>1, <1>4, Seats
  <1> QED BY <1>1, <1>3, <1>4, <1>5, Seats

(* How far seat a is from the seat after b. *)
LEMMA Distance ==
  ASSUME NEW n \in Nat \ {0}, NEW a \in 0..n - 1, NEW b \in 0..n - 1
  PROVE  (a - b - 1) % n = IF a > b THEN a - b - 1 ELSE a - b - 1 + n
PROOF
  <1>1. CASE a > b
    <2>1. a - b - 1 \in 0..n - 1
      BY <1>1
    <2> QED BY <1>1, <2>1
  <1>2. CASE ~(a > b)
    <2>1. a - b - 1 + n \in 0..n - 1
      BY <1>2
    <2> DEFINE k == a - b - 1 + n
    <2>2. a - b - 1 = k + (-1) * n
      OBVIOUS
    <2> HIDE DEF k
    <2>3. (k + (-1) * n) % n = k
      BY <2>1 DEF k
    <2> QED BY <1>2, <2>2, <2>3 DEF k
  <1> QED BY <1>1, <1>2

(* The turn of the next seat is one further. *)
LEMMA OneFurther ==
  ASSUME TypeOK, NEW b \in 0..N - 1, NEW x, x = (turn.at + 1) % N
  PROVE  /\ (turn.at - b - 1) % N \in 0..N - 1
         /\ (turn.at - b - 1) % N = N - 1 <=> turn.at = b
         /\ (x - b - 1) % N = IF turn.at = b THEN 0 ELSE ((turn.at - b - 1) % N) + 1
PROOF
  <1> DEFINE a == turn.at
  <1>1. /\ N \in Nat \ {0} /\ a \in 0..N - 1 /\ x \in 0..N - 1
        /\ x = IF a = N - 1 THEN 0 ELSE a + 1
    BY Seats, Seat
  <1> HIDE DEF a
  <1>2. (a - b - 1) % N = IF a > b THEN a - b - 1 ELSE a - b - 1 + N
    BY <1>1, Distance
  <1>3. (x - b - 1) % N = IF x > b THEN x - b - 1 ELSE x - b - 1 + N
    BY <1>1, Distance
  <1>4. /\ (a - b - 1) % N \in 0..N - 1
        /\ (a - b - 1) % N = N - 1 <=> a = b
        /\ (x - b - 1) % N = IF a = b THEN 0 ELSE ((a - b - 1) % N) + 1
    BY <1>1, <1>2, <1>3
  <1> QED BY <1>4 DEF a

-----------------------------------------------------------------------------
(* The end of a turn. *)

(* What EndTurn does with the phase and the offers. *)
Handed(sh, os) ==
  \/ /\ turn' = [turn EXCEPT !.phase = "GAME_OVER"]
     /\ short' = sh /\ offer' = os
  \/ /\ turn' = [phase |-> "AWAIT_ACTION", at |-> (turn.at + 1) % N, drawn |-> 0, pushed |-> FALSE]
     /\ short' = sh /\ offer' = os
  \/ /\ turn' = [phase |-> "TICKET_SELECTION", at |-> (turn.at + 1) % N, drawn |-> 0,
                 pushed |-> FALSE]
     /\ sh # <<>> /\ short' = Rest(Count(sh), sh)
     /\ offer' = [os EXCEPT ![Order[((turn.at + 1) % N) + 1]] = Top(Count(sh), sh)]

(* And with the counters. *)
Counts(wasPass, rails) ==
  /\ repair' = Tick(rails)
  /\ passes' = IF wasPass THEN passes + 1 ELSE 0
  /\ \/ ~endgame.triggered /\ endgame' = [triggered |-> TRUE, by |-> turn.at, left |-> N]
     \/ endgame.triggered /\ endgame' = [endgame EXCEPT !.left = @ - 1]
     \/ ~endgame.triggered /\ endgame' = endgame /\ ~Stalled'
  /\ turn'.phase # "GAME_OVER" =>
       passes' < N /\ ~(endgame.triggered /\ endgame'.left <= 0)

LEMMA EndTurnIs ==
  ASSUME TypeOK, PassesLeft, ~Phase("GAME_OVER"), NEW wasPass \in BOOLEAN, NEW rails, NEW sh, NEW os,
         EndTurn(wasPass, rails, sh, os)
  PROVE  Handed(sh, os) /\ Counts(wasPass, rails)
PROOF
  <1> DEFINE run == IF wasPass THEN passes + 1 ELSE 0
             x == (turn.at + 1) % N
             over == run >= N \/ (endgame.triggered /\ endgame'.left <= 0)
  <1>1. repair' = Tick(rails) /\ passes' = run
    BY DEF EndTurn
  <1>2. /\ endgame' = Countdown(~endgame.triggered /\ (trains'[Cur] <= EndThreshold \/ Stalled'))
        /\ passes \in Nat /\ endgame.triggered \in BOOLEAN
    <2>1. endgame' = Countdown(~endgame.triggered /\ (trains'[Cur] <= EndThreshold \/ Stalled'))
      BY DEF EndTurn
    <2>2. passes \in Nat /\ endgame.triggered \in BOOLEAN
      BY Seats DEF TypeOK
    <2> QED BY <2>1, <2>2
  <1>3. CASE over
    <2>1. turn' = [turn EXCEPT !.phase = "GAME_OVER"] /\ short' = sh /\ offer' = os
      BY <1>3 DEF EndTurn
    <2>2. turn'.phase = "GAME_OVER"
      BY <2>1 DEF TypeOK
    <2> QED BY <1>1, <1>2, <2>1, <2>2 DEF Handed, Counts, Countdown
  <1>4. CASE ~over
    <2>1. PICK q \in {Order[x + 1]} :
            LET forced == sh # <<>> /\ HasAnyLegalMove(q)' /\ NothingLeftToJoin(q)' IN
            /\ turn' = [phase |-> IF forced THEN "TICKET_SELECTION" ELSE "AWAIT_ACTION",
                        at |-> x, drawn |-> 0, pushed |-> FALSE]
            /\ short' = IF forced THEN Rest(Count(sh), sh) ELSE sh
            /\ offer' = IF forced THEN [os EXCEPT ![q] = Top(Count(sh), sh)] ELSE os
      BY <1>4 DEF EndTurn
    <2>2. q = Order[x + 1]
      OBVIOUS
    <2>3. Handed(sh, os)
      BY <2>1, <2>2 DEF Handed
    <2>4. run < N
      BY <1>2, <1>4, Seats
    <2> QED BY <1>1, <1>2, <1>4, <2>3, <2>4 DEF Counts, Countdown
  <1> QED BY <1>3, <1>4


(* What the end of a turn is given as the state of the broken rails. *)
Rails(rails) ==
  \/ rails = repair
  \/ \E r \in Route : repair[r] = None /\ rails = [repair EXCEPT ![r] = Window(Cur)]

LEMMA FinalRoundEnds ==
  ASSUME TypeOK, ~Phase("GAME_OVER"), Trigger, FinalRound, NEW sh, NEW os, NEW wasPass, NEW rails,
         Handed(sh, os), Counts(wasPass, rails)
  PROVE  /\ endgame' \in [triggered : BOOLEAN, by : -1..N - 1, left : 0..N]
         /\ Trigger' /\ FinalRound'
PROOF
  <1> DEFINE x == (turn.at + 1) % N
  <1>1. /\ N \in Nat /\ N >= 2 /\ turn.at \in 0..N - 1 /\ x \in 0..N - 1
        /\ endgame \in [triggered : BOOLEAN, by : -1..N - 1, left : 0..N]
    BY Seats, Seat DEF TypeOK
  <1>2. turn'.phase # "GAME_OVER" => turn'.at = x
    BY DEF Handed, TypeOK
  <1> HIDE DEF x
  <1>3. CASE ~endgame.triggered /\ endgame' = [triggered |-> TRUE, by |-> turn.at, left |-> N]
    <2>1. endgame' \in [triggered : BOOLEAN, by : -1..N - 1, left : 0..N] /\ Trigger'
      BY <1>1, <1>3 DEF Trigger, N
    <2>2. turn'.phase # "GAME_OVER" => endgame'.left = N - ((turn'.at - endgame'.by - 1) % N)
      <3>1. (x - turn.at - 1) % N = 0
        BY <1>1, OneFurther DEF x
      <3> QED BY <1>1, <1>2, <1>3, <3>1
    <2> QED BY <2>1, <2>2 DEF FinalRound, Phase, N
  <1>4. CASE endgame.triggered /\ endgame' = [endgame EXCEPT !.left = @ - 1]
    <2> DEFINE b == endgame.by
               d == (turn.at - b - 1) % N
    <2>1. b \in 0..N - 1 /\ endgame.left = N - d
      BY <1>4 DEF Trigger, FinalRound, Phase
    <2>2. /\ d \in 0..N - 1 /\ (d = N - 1 <=> turn.at = b)
          /\ (x - b - 1) % N = IF turn.at = b THEN 0 ELSE d + 1
      BY <2>1, OneFurther DEF x
    <2> HIDE DEF d, b
    <2>3. endgame' = [triggered |-> TRUE, by |-> b, left |-> N - d - 1]
      <3>1. endgame' = [triggered |-> endgame.triggered, by |-> endgame.by, left |-> endgame.left - 1]
        BY <1>1, <1>4
      <3> QED BY <1>4, <2>1, <3>1 DEF b
    <2>4. endgame' \in [triggered : BOOLEAN, by : -1..N - 1, left : 0..N] /\ Trigger'
      BY <1>1, <2>1, <2>2, <2>3 DEF Trigger, N
    <2>5. turn'.phase # "GAME_OVER" => endgame'.left = N - ((turn'.at - endgame'.by - 1) % N)
      <3> SUFFICES ASSUME turn'.phase # "GAME_OVER"
                   PROVE  endgame'.left = N - ((x - b - 1) % N)
        BY <1>2, <2>3
      <3>1. ~(endgame'.left <= 0)
        BY <1>4 DEF Counts
      <3>2. d # N - 1
        BY <1>1, <2>2, <2>3, <3>1
      <3> QED BY <1>1, <2>2, <2>3, <3>2
    <2> QED BY <2>4, <2>5 DEF FinalRound, Phase, N
  <1>5. CASE ~endgame.triggered /\ endgame' = endgame
    BY <1>1, <1>5 DEF Trigger, FinalRound, N
  <1> QED BY <1>3, <1>4, <1>5 DEF Counts

LEMMA WindowsClose ==
  ASSUME TypeOK, ~Phase("GAME_OVER"), RailWindow, NEW sh, NEW os, NEW wasPass, NEW rails,
         Rails(rails), Handed(sh, os), Counts(wasPass, rails)
  PROVE  /\ repair' \in [Route -> {None} \cup [by : Player, left : 0..N]]
         /\ RailWindow'
PROOF
  <1> DEFINE x == (turn.at + 1) % N
  <1>1. /\ N \in Nat /\ N >= 2 /\ turn.at \in 0..N - 1 /\ x \in 0..N - 1 /\ Cur \in Player
        /\ repair \in [Route -> {None} \cup [by : Player, left : 0..N]]
    BY Seats, Seat DEF TypeOK
  <1>2. turn'.phase # "GAME_OVER" => turn'.at = x
    BY DEF Handed, TypeOK
  <1> HIDE DEF x
  <1>3. repair' = [r \in Route |-> IF rails[r] # None /\ rails[r].left > 0
                                   THEN [rails[r] EXCEPT !.left = @ - 1] ELSE rails[r]]
    BY DEF Counts, Tick
  <1>4. ASSUME NEW r \in Route
        PROVE  /\ repair'[r] \in {None} \cup [by : Player, left : 0..N]
               /\ (repair'[r] # None /\ repair'[r].left > 0 /\ turn'.phase # "GAME_OVER" =>
                     \E i \in 0..N - 1 : /\ Order[i + 1] = repair'[r].by
                                         /\ repair'[r].left = N - ((turn'.at - i - 1) % N))
    <2>1. CASE rails[r] = repair[r]
      <3>1. CASE repair[r] = None \/ repair[r].left = 0
        BY <1>1, <1>3, <2>1, <3>1
      <3>2. CASE repair[r] # None /\ repair[r].left # 0
        <4>1. repair[r] \in [by : Player, left : 0..N] /\ repair[r].left > 0
          BY <1>1, <3>2
        <4>2. repair'[r] = [repair[r] EXCEPT !.left = @ - 1]
          BY <1>3, <2>1, <3>2, <4>1
        <4>3. repair'[r] = [by |-> repair[r].by, left |-> repair[r].left - 1]
          BY <4>1, <4>2
        <4>4. repair'[r] \in [by : Player, left : 0..N]
          BY <1>1, <4>1, <4>3
        <4>5. PICK i \in 0..N - 1 : /\ Order[i + 1] = repair[r].by
                                    /\ repair[r].left = N - ((turn.at - i - 1) % N)
          BY <3>2, <4>1 DEF RailWindow, Phase
        <4> DEFINE d == (turn.at - i - 1) % N
        <4>6. /\ d \in 0..N - 1 /\ (d = N - 1 <=> turn.at = i)
              /\ (x - i - 1) % N = IF turn.at = i THEN 0 ELSE d + 1
          BY OneFurther DEF x
        <4>7. repair[r].left = N - d
          BY <4>5
        <4> HIDE DEF d
        <4>8. repair'[r].left > 0 => d # N - 1
          BY <1>1, <4>3, <4>6, <4>7
        <4>9. repair'[r].left > 0 => repair'[r].left = N - ((x - i - 1) % N)
          BY <1>1, <4>3, <4>6, <4>7, <4>8
        <4> QED BY <1>2, <4>3, <4>4, <4>5, <4>9
      <3> QED BY <3>1, <3>2
    <2>2. CASE rails[r] = [by |-> Cur, left |-> N + 1]
      <3>1. rails[r].by = Cur /\ rails[r].left = N + 1 /\ rails[r] \in [by : Player, left : Nat]
        BY <1>1, <2>2
      <3>2. rails[r] # None /\ rails[r].left > 0
        BY <1>1, <3>1, BoardAssumption
      <3>3. repair'[r] = [rails[r] EXCEPT !.left = @ - 1]
        BY <1>3, <3>2
      <3>4. repair'[r] = [by |-> Cur, left |-> N]
        BY <1>1, <2>2, <3>3
      <3>5. repair'[r] \in [by : Player, left : 0..N]
        BY <1>1, <3>4
      <3>6. (x - turn.at - 1) % N = 0
        BY <1>1, OneFurther DEF x
      <3>7. turn'.phase # "GAME_OVER" =>
              \E i \in 0..N - 1 : Order[i + 1] = Cur /\ N = N - ((turn'.at - i - 1) % N)
        BY <1>1, <1>2, <3>6 DEF Cur
      <3> QED BY <3>4, <3>5, <3>7
    <2> QED BY <1>1, <2>1, <2>2 DEF Rails, Window
  <1> QED BY <1>2, <1>3, <1>4 DEF RailWindow, Phase, N


(* What is dealt from a deck of tickets. *)
LEMMA OfferIsDealt ==
  ASSUME NEW sh \in Seq(Ticket), sh # <<>>
  PROVE  /\ Rest(Count(sh), sh) \in Seq(Ticket)
         /\ Top(Count(sh), sh) \in Seq(Ticket) /\ Top(Count(sh), sh) # <<>>
PROOF
  <1> DEFINE n == Count(sh)
             l == Len(sh)
  <1>1. l \in Nat /\ l # 0 /\ TicketDraw \in Nat \ {0}
    BY EmptySeq, TableAssumption
  <1>2. n \in 1..l
    <2>1. TicketDraw \in Int /\ l \in Int
      BY <1>1
    <2> HIDE DEF l
    <2>2. Min({TicketDraw, l}) = IF TicketDraw <= l THEN TicketDraw ELSE l
      BY <2>1, MinOfTwo
    <2>3. n = Min({TicketDraw, l})
      BY DEF Count, n, l
    <2> QED BY <1>1, <2>2, <2>3
  <1> HIDE DEF n
  <1>3. /\ SubSeq(sh, 1, l - n) \in Seq(Ticket)
        /\ SubSeq(sh, l - n + 1, l) \in Seq(Ticket) /\ Len(SubSeq(sh, l - n + 1, l)) = n
    <2>1. 1 \in 1..l + 1 /\ l - n \in 0..l /\ l - n + 1 \in 1..l + 1 /\ l \in 0..l
      BY <1>1, <1>2
    <2>2. \A i \in 1..l : sh[i] \in Ticket
      BY ElementOfSeq
    <2>3. (\A i \in 1..l - n : sh[i] \in Ticket) /\ \A i \in l - n + 1..l : sh[i] \in Ticket
      BY <1>1, <1>2, <2>2
    <2>4. SubSeq(sh, 1, l - n) \in Seq(Ticket)
      BY <2>1, <2>3, SubSeqProperties
    <2>5. /\ SubSeq(sh, l - n + 1, l) \in Seq(Ticket)
          /\ Len(SubSeq(sh, l - n + 1, l)) =
               IF l - n + 1 <= l THEN l - (l - n + 1) + 1 ELSE 0
      BY <2>1, <2>3, SubSeqProperties
    <2> QED BY <1>1, <1>2, <2>4, <2>5
  <1>4. SubSeq(sh, l - n + 1, l) # <<>>
    <2>1. Len(<<>>) = 0 /\ n # 0
      BY <1>2
    <2> QED BY <1>3, <2>1
  <1> QED BY <1>3, <1>4 DEF Rest, Top, n

(* After a turn the counters mean what they say, and at most the player who
   is next is asked about tickets. *)
Ended ==
  /\ Round
  /\ short \in Seq(Ticket) /\ offer \in [Player -> Seq(Ticket)]
  /\ turn.phase \in {"AWAIT_ACTION", "TICKET_SELECTION", "GAME_OVER"}
  /\ First => \A p \in Player : offer[p] = <<>>
  /\ Phase("TICKET_SELECTION") =>
       offer[Cur] # <<>> /\ \A p \in Player \ {Cur} : offer[p] = <<>>
  /\ StalledGameEnds

LEMMA TurnEnds ==
  ASSUME TypeOK, PassesLeft, Trigger, FinalRound, RailWindow, ~Phase("GAME_OVER"),
         NEW wasPass \in BOOLEAN, NEW rails, NEW sh \in Seq(Ticket),
         NEW os \in [Player -> Seq(Ticket)], \A p \in Player : os[p] = <<>>,
         Rails(rails), EndTurn(wasPass, rails, sh, os)
  PROVE  Ended'
PROOF
  <1> DEFINE x == (turn.at + 1) % N
             q == Order[x + 1]
  <1>1. Handed(sh, os) /\ Counts(wasPass, rails)
    BY EndTurnIs
  <1>2. /\ endgame' \in [triggered : BOOLEAN, by : -1..N - 1, left : 0..N]
        /\ Trigger' /\ FinalRound'
    BY <1>1, FinalRoundEnds
  <1>3. /\ repair' \in [Route -> {None} \cup [by : Player, left : 0..N]]
        /\ RailWindow'
    BY <1>1, WindowsClose
  <1>4. passes' \in 0..N /\ PassesLeft'
    <2>1. passes \in 0..N /\ passes < N
      BY DEF PassesLeft, TypeOK
    <2>2. passes' = IF wasPass THEN passes + 1 ELSE 0
      BY <1>1 DEF Counts
    <2>3. turn'.phase # "GAME_OVER" => passes' < N
      BY <1>1 DEF Counts
    <2> QED BY <2>1, <2>2, <2>3, Seats DEF PassesLeft, Phase, N
  <1>5. x \in 0..N - 1 /\ q \in Player
    BY Seat
  <1> HIDE DEF x
  <1>6. turn \in [phase : Phases, at : 0..N - 1, drawn : 0..1, pushed : BOOLEAN]
    BY DEF TypeOK
  <1>7. /\ turn' \in [phase : Phases, at : 0..N - 1, drawn : 0..1, pushed : BOOLEAN]
        /\ turn'.phase \in {"AWAIT_ACTION", "TICKET_SELECTION", "GAME_OVER"}
        /\ turn'.phase # "GAME_OVER" => turn'.at = x
    <2>1. CASE turn' = [turn EXCEPT !.phase = "GAME_OVER"]
      BY <1>6, <2>1 DEF Phases
    <2>2. CASE turn' = [phase |-> "AWAIT_ACTION", at |-> x, drawn |-> 0, pushed |-> FALSE]
      BY <1>5, <2>2 DEF Phases
    <2>3. CASE turn' = [phase |-> "TICKET_SELECTION", at |-> x, drawn |-> 0, pushed |-> FALSE]
      BY <1>5, <2>3 DEF Phases
    <2> QED BY <1>1, <2>1, <2>2, <2>3 DEF Handed, x
  <1>8. Round'
    BY <1>2, <1>3, <1>4, <1>7 DEF Round, N
  <1>9. /\ short' \in Seq(Ticket) /\ offer' \in [Player -> Seq(Ticket)]
        /\ turn'.phase = "AWAIT_ACTION" => \A p \in Player : offer'[p] = <<>>
        /\ turn'.phase = "TICKET_SELECTION" =>
             offer'[q] # <<>> /\ \A p \in Player \ {q} : offer'[p] = <<>>
    <2>1. CASE turn'.phase # "TICKET_SELECTION" /\ short' = sh /\ offer' = os
      BY <2>1
    <2>2. CASE /\ turn' = [phase |-> "TICKET_SELECTION", at |-> x, drawn |-> 0, pushed |-> FALSE]
               /\ sh # <<>> /\ short' = Rest(Count(sh), sh)
               /\ offer' = [os EXCEPT ![q] = Top(Count(sh), sh)]
      <3>1. /\ Rest(Count(sh), sh) \in Seq(Ticket)
            /\ Top(Count(sh), sh) \in Seq(Ticket) /\ Top(Count(sh), sh) # <<>>
        BY <2>2, OfferIsDealt
      <3> DEFINE tp == Top(Count(sh), sh)
      <3>2. offer' = [os EXCEPT ![q] = tp] /\ tp \in Seq(Ticket) /\ tp # <<>>
        BY <2>2, <3>1
      <3> HIDE DEF tp, q
      <3>3. offer' \in [Player -> Seq(Ticket)]
        BY <1>5, <3>2
      <3>4. offer'[q] # <<>> /\ \A p \in Player \ {q} : offer'[p] = <<>>
        BY <1>5, <3>2
      <3> QED BY <2>2, <3>1, <3>3, <3>4
    <2>3. CASE turn' = [turn EXCEPT !.phase = "GAME_OVER"] /\ short' = sh /\ offer' = os
      BY <1>6, <2>1, <2>3
    <2> QED BY <1>1, <2>1, <2>2, <2>3 DEF Handed, x
  <1>10. turn'.phase = "TICKET_SELECTION" => Cur' = q
    BY <1>7 DEF Cur
  <1>11. StalledGameEnds'
    BY <1>1, <1>2 DEF Counts, StalledGameEnds, Stalled
  <1> QED BY <1>7, <1>8, <1>9, <1>10, <1>11 DEF Ended, First, Phase

-----------------------------------------------------------------------------
(* The network: parallel groups and the tickets that are joined. *)

(* A track and the others of its group. *)
Group(r) == Twins[r] \cup {r}

Owned(r) == {o \in Group(r) : owner[o] \in Player}

LEMMA Groups ==
  ASSUME NEW r \in Route
  PROVE  /\ Group(r) \subseteq Route /\ r \in Group(r) /\ r \notin Twins[r]
         /\ \A o \in Group(r) : Group(o) = Group(r)
         /\ IsFiniteSet(Group(r)) /\ Size(Twins[r]) + 1 = Size(Group(r))
         /\ Size(Group(r)) \in Nat
PROOF
  <1>1. Twins[r] \subseteq Route /\ IsFiniteSet(Route) /\ r \notin Twins[r]
    BY TableAssumption, BoardAssumption
  <1>2. \A o \in Group(r) : Group(o) = Group(r)
    BY BoardAssumption DEF Group
  <1>3. IsFiniteSet(Twins[r])
    BY <1>1, FS_Subset
  <1>4. /\ IsFiniteSet(Twins[r] \cup {r})
        /\ Cardinality(Twins[r] \cup {r}) = Cardinality(Twins[r]) + 1
    BY <1>1, <1>3, FS_AddElement
  <1>5. Cardinality(Twins[r]) \in Nat
    BY <1>3, FS_CardinalityType
  <1> QED BY <1>1, <1>2, <1>4, <1>5 DEF Group, Size

(* How many tracks of a group are open is a matter of the group. *)
LEMMA OpenOfGroup ==
  ASSUME NEW r \in Route
  PROVE  /\ OpenTracks(r) \in Nat \ {0}
         /\ \A o \in Group(r) : OpenTracks(o) = OpenTracks(r)
PROOF
  <1>1. \A o \in Group(r) : o \in Route /\ Size(Twins[o]) + 1 = Size(Group(r))
    BY Groups
  <1>2. \A o \in Group(r) : OpenTracks(o) = OpenTracks(r)
    BY <1>1, Groups DEF OpenTracks
  <1>3. OpenTracks(r) \in Nat \ {0}
    <2> DEFINE n == Size(Group(r))
               m == Max({1, N - 2})
    <2>1. OpenTracks(r) = IF OneTrackAt23 THEN Min({n, m}) ELSE n
      BY Groups DEF OpenTracks
    <2>2. m \in Nat \ {0}
      BY Seats, MaxOfTwo
    <2>3. n \in Nat \ {0}
      <3>1. Size(Twins[r]) \in Nat
        BY Groups, TableAssumption, FS_Subset, FS_CardinalityType DEF Group, Size
      <3> QED BY <3>1, Groups
    <2> HIDE DEF n, m
    <2>4. Min({n, m}) \in Nat \ {0}
      BY <2>2, <2>3, MinOfTwo
    <2> QED BY <2>1, <2>3, <2>4
  <1> QED BY <1>2, <1>3

(* The same in terms of groups. *)
LEMMA TracksOfGroups ==
  ParallelTracks <=>
    \A r \in Route :
      /\ Size(Owned(r)) <= OpenTracks(r)
      /\ \A o, u \in Owned(r) : o # u => Side[owner[o]] # Side[owner[u]]
      /\ owner[r] = Locked <=> r \notin Owned(r) /\ Size(Owned(r)) = OpenTracks(r)
BY DEF ParallelTracks, Owned, Group

LEMMA OwnKeepsTracks ==
  ASSUME TypeOK, ParallelTracks, NEW p \in Player, NEW r \in Route,
         owner[r] = None, ~SideHoldsTwin(p, r), Own(p, r)
  PROVE  /\ owner' \in [Route -> Player \cup {None, Locked}]
         /\ \A o \in Route : owner[o] \in Player => owner'[o] = owner[o]
         /\ ParallelTracks'
PROOF
  <1> DEFINE open == OpenTracks(r)
             all == Owned(r) \cup {r}
  <1>1. /\ owner \in [Route -> Player \cup {None, Locked}]
        /\ None \notin Player /\ Locked \notin Player /\ None # Locked
    BY TableAssumption, BoardAssumption DEF TypeOK
  <1>2. /\ Size(Owned(r)) \in Nat /\ Size(all) = Size(Owned(r)) + 1
        /\ Owned(r) = {o \in Twins[r] : owner[o] \in Player}
    <2>1. Owned(r) \subseteq Group(r) /\ r \notin Owned(r)
      BY <1>1 DEF Owned
    <2>2. IsFiniteSet(Owned(r))
      BY <2>1, Groups, FS_Subset
    <2>3. Owned(r) = {o \in Twins[r] : owner[o] \in Player}
      BY <1>1 DEF Owned, Group
    <2> QED BY <2>1, <2>2, <2>3, FS_AddElement, FS_CardinalityType DEF Size
  <1>3. open \in Nat /\ \A o \in Group(r) : OpenTracks(o) = open
    BY OpenOfGroup
  <1>4. Size(Owned(r)) < open
    BY <1>1, <1>2, <1>3, TracksOfGroups DEF Owned
  <1>5. \A o \in Group(r) : Owned(o) = Owned(r) /\ owner[o] # Locked
    <2>1. \A o \in Group(r) : Owned(o) = Owned(r) /\ o \in Route
      BY Groups DEF Owned
    <2>2. ASSUME NEW o \in Group(r), owner[o] = Locked
          PROVE  FALSE
      <3>1. o \in Route /\ Owned(o) = Owned(r) /\ OpenTracks(o) = open
        BY <1>3, <2>1
      <3>2. Size(Owned(o)) = OpenTracks(o)
        BY <2>2, <3>1, TracksOfGroups
      <3> HIDE DEF open
      <3> QED BY <1>2, <1>3, <1>4, <3>1, <3>2
    <2> QED BY <2>1, <2>2
  <1>6. owner' = [o \in Route |->
           IF o = r THEN p
           ELSE IF o \in Twins[r] /\ owner[o] = None /\ Size(all) >= open THEN Locked
           ELSE owner[o]]
    <2>1. 1 + Size(Owned(r)) = Size(all)
      BY <1>2
    <2> QED BY <1>2, <2>1 DEF Own
  <1> HIDE DEF open
  <1>7. owner' \in [Route -> Player \cup {None, Locked}]
    BY <1>1, <1>6
  <1>8. \A o \in Route : owner[o] \in Player => owner'[o] = owner[o]
    BY <1>1, <1>6
  <1>9. ASSUME NEW x \in Route, x \notin Group(r)
        PROVE  /\ Owned(x)' = Owned(x)
               /\ \A o \in Group(x) : owner'[o] = owner[o]
    <2>1. \A o \in Group(x) : o \in Route /\ o \notin Group(r)
      BY <1>9, Groups
    <2>2. \A o \in Group(x) : owner'[o] = owner[o]
      BY <1>6, <2>1 DEF Group
    <2>3. Owned(x)' = {o \in Group(x) : owner'[o] \in Player}
      BY DEF Owned, Group
    <2> QED BY <2>2, <2>3 DEF Owned
  <1>10. ASSUME NEW x \in Group(r)
         PROVE  Owned(x)' = all
    <2>1. Group(x) = Group(r) /\ x \in Route /\ Group(r) \subseteq Route /\ r \in Group(r)
      BY Groups
    <2>2. Owned(x)' = {o \in Group(x) : owner'[o] \in Player}
      BY DEF Owned, Group
    <2>3. \A o \in Group(r) : owner'[o] \in Player <=> o \in all
      BY <1>1, <1>6, <2>1 DEF Owned
    <2> QED BY <2>1, <2>2, <2>3 DEF Owned
  <1>11. ASSUME NEW x \in Route
         PROVE  /\ Size(Owned(x)') <= OpenTracks(x)
                /\ \A o, u \in Owned(x)' : o # u => Side[owner'[o]] # Side[owner'[u]]
                /\ owner'[x] = Locked <=> x \notin Owned(x)' /\ Size(Owned(x)') = OpenTracks(x)
    <2>1. CASE x \notin Group(r)
      <3>1. /\ Owned(x)' = Owned(x) /\ Owned(x) \subseteq Group(x) /\ x \in Group(x)
            /\ \A o \in Group(x) : owner'[o] = owner[o]
        BY <1>9, <2>1 DEF Owned, Group
      <3> QED BY <3>1, TracksOfGroups
    <2>2. CASE x \in Group(r)
      <3>1. Owned(x)' = all /\ OpenTracks(x) = open /\ Size(all) <= open
        BY <1>2, <1>3, <1>4, <1>10, <2>2
      <3>2. ASSUME NEW o \in all, NEW u \in all, o # u
            PROVE  Side[owner'[o]] # Side[owner'[u]]
        <4>1. \A v \in Owned(r) : v \in Route /\ v # r /\ owner'[v] = owner[v] /\ owner[v] \in Player
          BY <1>1, <1>8, Groups DEF Owned
        <4>2. owner'[r] = p
          BY <1>6
        <4>3. \A v \in Owned(r) : Side[owner[v]] # Side[p]
          BY <1>2, <4>1 DEF SideHoldsTwin, Holds, Teammates
        <4>4. CASE o \in Owned(r) /\ u \in Owned(r)
          BY <3>2, <4>1, <4>4, TracksOfGroups
        <4> QED BY <3>2, <4>1, <4>2, <4>3, <4>4
      <3>3. owner'[x] = Locked <=> x \notin all /\ Size(all) = open
        <4>1. CASE x = r
          BY <1>1, <1>6, <4>1
        <4>2. CASE x # r /\ owner[x] \in Player
          BY <1>1, <1>8, <2>2, <4>2 DEF Owned
        <4>3. CASE x # r /\ owner[x] = None
          <5>1. x \in Twins[r] /\ x \notin all
            BY <1>1, <2>2, <4>3 DEF Group, Owned
          <5>2. owner'[x] = IF Size(all) >= open THEN Locked ELSE None
            BY <1>6, <4>3, <5>1
          <5>3. Size(all) \in Nat
            BY <1>2
          <5> QED BY <1>1, <1>3, <3>1, <5>1, <5>2, <5>3
        <4> QED BY <1>1, <1>5, <2>2, <4>1, <4>2, <4>3
      <3> QED BY <3>1, <3>2, <3>3
    <2> QED BY <2>1, <2>2
  <1>12. ParallelTracks'
    BY <1>11 DEF ParallelTracks, Owned, Group, OpenTracks, Size, N
  <1> QED BY <1>7, <1>8, <1>12

(* What was joined stays joined while nobody loses a track. *)
LEMMA LockIsRight ==
  ASSUME TypeOK, LocksAreRight, Lock, kept' \in [Player -> SUBSET Ticket],
         \A q \in Player : kept[q] \subseteq kept'[q],
         \A o \in Route : owner[o] \in Player => owner'[o] = owner[o]
  PROVE  LocksAreRight' /\ done' \in [Player -> SUBSET Ticket]
PROOF
  <1>1. ASSUME NEW q \in Player, NEW t \in Ticket, Joined(q, t)
        PROVE  Joined(q, t)'
    <2>1. PICK way \in Ways[t] : \A r \in way : Holds(q, r)
      BY <1>1 DEF Joined
    <2>2. way \subseteq Route
      BY DealAssumption
    <2>3. \A r \in way : owner'[r] \in Teammates(q)
      BY <2>1, <2>2 DEF Holds, Teammates
    <2> QED BY <2>3 DEF Joined, Holds, Teammates
  <1>2. ASSUME NEW q \in Player
        PROVE  done'[q] = {t \in kept'[q] : Joined(q, t)'} /\ done'[q] \subseteq Ticket
    <2>1. done'[q] = done[q] \cup {t \in kept'[q] : Joined(q, t)'}
      BY DEF Lock
    <2>2. done[q] = {t \in kept[q] : Joined(q, t)} /\ kept[q] \subseteq Ticket
      BY DEF LocksAreRight, TypeOK
    <2>3. \A t \in done[q] : t \in kept'[q] /\ Joined(q, t)'
      BY <1>1, <2>2
    <2> QED BY <2>1, <2>3
  <1>3. LocksAreRight'
    BY <1>2 DEF LocksAreRight
  <1>4. done' \in [Player -> SUBSET Ticket]
    BY <1>2 DEF Lock
  <1> QED BY <1>3, <1>4

-----------------------------------------------------------------------------
(* The order of play. *)

LEMMA InvIsTyped ==
  ASSUME Inv
  PROVE  /\ TypeOK /\ PassesLeft /\ Opening /\ Asked /\ TunnelOpen /\ Trigger
         /\ FinalRound /\ RailWindow /\ StalledGameEnds /\ LocksAreRight /\ ParallelTracks
PROOF
  <1>1. deck \subseteq Card /\ discard \subseteq Card /\ market \subseteq Card
    BY DEF Inv, Cards
  <1>2. Drawing => \A p \in Player : offer[p] = <<>>
    BY DEF Inv, Turns, Asked, Drawing, First, Phase
  <1>3. TypeOK
    BY <1>1, <1>2 DEF Inv, Turns, Round, Network, Pending, Cards, TypeOK
  <1> QED BY <1>3 DEF Inv, Turns, Round, Network, Pending

(* The tickets that are not kept, one after the other. *)
NotKept(os, keep, left) ==
  /\ left \in [0 .. Len(os) -> Seq(Ticket)] /\ left[0] = <<>>
  /\ \A k \in 1 .. Len(os) :
       left[k] = IF os[k] \in keep THEN left[k - 1] ELSE Append(left[k - 1], os[k])

LEMMA ReturnedIs ==
  ASSUME NEW os \in Seq(Ticket), NEW keep, NEW s \in Seq(Ticket)
  PROVE  \E left : NotKept(os, keep, left) /\ Returned(os, keep, s) = left[Len(os)] \o s
PROOF
  <1> DEFINE n == Len(os)
             S == Seq(Ticket)
             G == [x \in S \X (1 .. n) |->
                     IF os[x[2]] \in keep THEN x[1] ELSE Append(x[1], os[x[2]])]
             Is(F) == F = [k \in 0 .. n |->
                             IF k = 0 THEN <<>>
                             ELSE IF os[k] \in keep THEN F[k - 1] ELSE Append(F[k - 1], os[k])]
             left == CHOOSE F : Is(F)
  <1>1. n \in Nat /\ <<>> \in S
    OBVIOUS
  <1>2. \A i \in 1 .. n : os[i] \in Ticket
    BY ElementOfSeq
  <1>3. G \in [S \X (1 .. n) -> S]
    BY <1>2
  <1> HIDE DEF G
  <1>4. PICK f : IsCarried(S, G, <<>>, n, f)
    <2> HIDE DEF n, S
    <2> QED BY <1>1, <1>3, Carried
  <1>5. f \in [0 .. n -> S] /\ f[0] = <<>> /\ \A k \in 1 .. n : f[k] = G[<<f[k - 1], k>>]
    BY <1>4 DEF IsCarried
  <1> HIDE DEF n
  <1>6. ASSUME NEW k \in 0 .. n, k # 0
        PROVE  f[k] = IF os[k] \in keep THEN f[k - 1] ELSE Append(f[k - 1], os[k])
    <2>1. k \in 1 .. n /\ k - 1 \in 0 .. n
      BY <1>1, <1>6
    <2>2. <<f[k - 1], k>> \in S \X (1 .. n)
      BY <1>5, <2>1
    <2> QED BY <1>5, <2>1, <2>2 DEF G
  <1>7. Is(f)
    BY <1>1, <1>5, <1>6
  <1> HIDE DEF Is
  <1>8. Is(left)
    BY <1>7
  <1>9. Returned(os, keep, s) = left[n] \o s
    BY DEF Returned, Is, left, n
  <1> DEFINE at(i) == IF i = 0 THEN <<>>
                      ELSE IF os[i] \in keep THEN left[i - 1] ELSE Append(left[i - 1], os[i])
             Bad == {k \in Nat : k <= n /\ left[k] \notin S}
  <1> HIDE DEF left
  <1>10. left = [i \in 0 .. n |-> at(i)]
    BY <1>8 DEF Is
  <1> HIDE DEF at
  <1>11. left[0] = <<>>
    BY <1>1, <1>10 DEF at
  <1>12. ASSUME NEW k \in 1 .. n
         PROVE  left[k] = IF os[k] \in keep THEN left[k - 1] ELSE Append(left[k - 1], os[k])
    <2>1. k \in 0 .. n /\ k # 0
      BY <1>1
    <2> QED BY <1>10, <2>1 DEF at
  <1>13. ASSUME Bad # {}
         PROVE  FALSE
    <2>1. Bad \in SUBSET Nat
      OBVIOUS
    <2>2. PICK k \in Bad : \A j \in Bad : k <= j
      BY <1>13, <2>1, LeastNatural
    <2>3. k # 0
      BY <1>1, <1>11, <2>2
    <2>4. k - 1 \in Nat /\ k - 1 <= n /\ k - 1 < k /\ k \in 1 .. n
      BY <1>1, <2>2, <2>3
    <2>5. left[k - 1] \in S
      BY <2>2, <2>4
    <2>6. left[k] \in S
      <3> DEFINE x == left[k - 1]
                 e == os[k]
      <3>1. x \in S /\ e \in Ticket
        BY <1>2, <2>4, <2>5
      <3>2. left[k] = IF e \in keep THEN x ELSE Append(x, e)
        BY <1>12, <2>4
      <3> HIDE DEF x, e
      <3>3. Append(x, e) \in S
        BY <3>1, AppendProperties
      <3> QED BY <3>1, <3>2, <3>3
    <2> QED BY <2>2, <2>6
  <1>14. left \in [0 .. n -> S]
    <2>1. \A k \in 0 .. n : k \in Nat /\ k <= n
      BY <1>1
    <2>2. \A k \in 0 .. n : left[k] \in S
      BY <1>13, <2>1
    <2> QED BY <1>10, <2>2
  <1> QED BY <1>9, <1>11, <1>12, <1>14 DEF NotKept, n

(* A filter of tickets returns tickets. *)
LEMMA ReturnedAreTickets ==
  ASSUME NEW os \in Seq(Ticket), NEW keep, NEW s \in Seq(Ticket)
  PROVE  Returned(os, keep, s) \in Seq(Ticket)
PROOF
  <1>1. PICK left : NotKept(os, keep, left) /\ Returned(os, keep, s) = left[Len(os)] \o s
    BY ReturnedIs
  <1>2. left[Len(os)] \in Seq(Ticket)
    <2>1. Len(os) \in 0 .. Len(os)
      OBVIOUS
    <2> QED BY <1>1, <2>1 DEF NotKept
  <1> QED BY <1>1, <1>2

(* The turn goes on with a second pick. *)
Drew == turn' = [turn EXCEPT !.phase = "DRAWING_CARDS", !.drawn = 1]

SameRound == UNCHANGED <<repair, short, offer, endgame, passes>>

(* What an action does with the turn. *)
TurnStep ==
  \/ KeepInitial \/ KeepTickets \/ DrawTickets \/ PushToTeamPool
  \/ /\ turn.phase \in {"AWAIT_ACTION", "DRAWING_CARDS", "TUNNEL_PENDING"}
     /\ \E wasPass \in BOOLEAN : EndTurn(wasPass, repair, short, offer)
  \/ /\ turn.phase = "AWAIT_ACTION"
     /\ \E r \in Route : /\ repair[r] = None
                         /\ EndTurn(FALSE, [repair EXCEPT ![r] = Window(Cur)], short, offer)
  \/ Drawing /\ Drew /\ SameRound
  \/ BeginTunnel /\ First /\ turn' = [turn EXCEPT !.phase = "TUNNEL_PENDING"] /\ SameRound
  \/ ~Phase("GAME_OVER") /\ turn' = [turn EXCEPT !.phase = "GAME_OVER"] /\ SameRound

LEMMA Picks ==
  ASSUME TypeOK, Drawing, NEW spends, NEW more, Picked(spends, more)
  PROVE  EndsTurn \/ (Drew /\ SameRound)
PROOF
  <1> DEFINE n == (IF First THEN 0 ELSE turn.drawn) + 1
  <1>1. turn.drawn \in 0..1
    BY DEF TypeOK
  <1>2. n = 1 \/ n >= 2
    BY <1>1
  <1>3. EndsTurn \/ (/\ ~(n >= 2)
                     /\ turn' = [turn EXCEPT !.phase = "DRAWING_CARDS", !.drawn = n]
                     /\ UNCHANGED <<repair, short, offer, endgame, passes>>)
    BY DEF Picked
  <1> QED BY <1>2, <1>3 DEF Drew, SameRound

LEMMA StepsOfTurn ==
  ASSUME TypeOK, Next
  PROVE  TurnStep
PROOF
  <1>1. CASE DrawBlind
    <2>1. PICK d \in Drawn(1, deck, discard) :
            Drawing /\ Picked(First /\ Locos(d.took) # {} /\ ~BlindLocoGoesOn, SecondDrawAvailable')
      BY <1>1 DEF DrawBlind
    <2>2. EndsTurn \/ (Drew /\ SameRound)
      BY <2>1, Picks
    <2> QED BY <2>1, <2>2 DEF TurnStep, EndsTurn, Drawing, First, Phase
  <1>2. CASE DrawFaceup
    <2>1. PICK c \in market : Drawing /\ Picked(Hue[c] = Loco, SecondDrawAvailable')
      BY <1>2 DEF DrawFaceup
    <2>2. EndsTurn \/ (Drew /\ SameRound)
      BY <2>1, Picks
    <2> QED BY <2>1, <2>2 DEF TurnStep, EndsTurn, Drawing, First, Phase
  <1>3. CASE TakeFromTeamPool
    <2>1. PICK c \in pool[Side[Cur]] :
            Drawing /\ Picked(Hue[c] = Loco, SecondDrawAvailable \/ pool'[Side[Cur]] # {})
      BY <1>3 DEF TakeFromTeamPool
    <2>2. EndsTurn \/ (Drew /\ SameRound)
      BY <2>1, Picks
    <2> QED BY <2>1, <2>2 DEF TurnStep, EndsTurn, Drawing, First, Phase
  <1>4. CASE DryDraw
    BY <1>4 DEF DryDraw, TurnStep, EndsTurn, Phase
  <1>5. CASE ClaimRoute
    BY <1>5 DEF ClaimRoute, Bid, TurnStep, EndsTurn, First, Phase
  <1>6. CASE BeginTunnel
    BY <1>6 DEF BeginTunnel, Bid, TurnStep, SameRound, board, tickets
  <1>7. CASE BuildStation
    BY <1>7 DEF BuildStation, TurnStep, EndsTurn, First, Phase
  <1>8. CASE RepairRoute
    BY <1>8 DEF RepairRoute, TurnStep, First, Phase
  <1>9. CASE AbortTunnel
    BY <1>9 DEF AbortTunnel, TurnStep, EndsTurn, Phase
  <1>10. CASE CommitTunnel
    BY <1>10 DEF CommitTunnel, TurnStep, EndsTurn, Phase
  <1>11. CASE Pass
    BY <1>11 DEF Pass, TurnStep, First, Phase
  <1>12. CASE EndGame
    BY <1>12 DEF EndGame, TurnStep, SameRound, board, tickets
  <1>13. CASE KeepInitial \/ KeepTickets \/ DrawTickets \/ PushToTeamPool
    BY <1>13 DEF TurnStep
  <1> QED BY <1>1, <1>2, <1>3, <1>4, <1>5, <1>6, <1>7, <1>8, <1>9, <1>10, <1>11, <1>12, <1>13
          DEF Next, Play, Productive


LEMMA TurnsOfKeepInitial ==
  ASSUME Inv, KeepInitial
  PROVE  Turns'
PROOF
  <1>1. PICK p \in Player, keep \in SUBSET Ticket :
          /\ Phase("SETUP_TICKETS")
          /\ offer' = [offer EXCEPT ![p] = <<>>]
          /\ short' = Returned(offer[p], keep, short)
          /\ turn' = IF \A q \in Player : offer'[q] = <<>>
                     THEN [turn EXCEPT !.phase = "AWAIT_ACTION"] ELSE turn
          /\ UNCHANGED <<piles, hand, board, endgame, passes>>
    BY DEF KeepInitial
  <1>2. UNCHANGED <<deck, discard, market, repair, owner, trains, endgame, passes>>
    BY <1>1 DEF piles, board
  <1>3. /\ turn \in [phase : Phases, at : 0..N - 1, drawn : 0..1, pushed : BOOLEAN]
        /\ short \in Seq(Ticket) /\ offer \in [Player -> Seq(Ticket)]
    BY InvIsTyped DEF TypeOK
  <1>4. short' \in Seq(Ticket) /\ offer' \in [Player -> Seq(Ticket)]
    <2>1. offer[p] \in Seq(Ticket) /\ <<>> \in Seq(Ticket)
      BY <1>3
    <2> QED BY <1>1, <1>3, <2>1, ReturnedAreTickets
  <1>5. /\ turn' \in [phase : Phases, at : 0..N - 1, drawn : 0..1, pushed : BOOLEAN]
        /\ turn'.at = turn.at
        /\ \/ turn'.phase = "SETUP_TICKETS"
           \/ turn'.phase = "AWAIT_ACTION" /\ \A q \in Player : offer'[q] = <<>>
    BY <1>1, <1>3 DEF Phases, Phase
  <1>6. Round'
    <2>1. Round /\ ~Phase("GAME_OVER")
      BY <1>1 DEF Inv, Turns, Phase
    <2>2. /\ repair \in [Route -> {None} \cup [by : Player, left : 0..N]]
          /\ endgame \in [triggered : BOOLEAN, by : -1..N - 1, left : 0..N]
          /\ passes \in 0..N /\ passes < N
      BY <2>1 DEF Round, PassesLeft
    <2>3. PassesLeft' /\ Trigger'
      BY <1>2, <2>1, <2>2 DEF Round, PassesLeft, Trigger, N
    <2>4. FinalRound' /\ RailWindow'
      BY <1>2, <1>5, <2>1 DEF Round, FinalRound, RailWindow, N
    <2> QED BY <1>2, <1>5, <2>2, <2>3, <2>4 DEF Round, N
  <1>7. StalledGameEnds'
    <2>1. ~PoolDead
      BY <1>1 DEF Inv, Pending, Opening
    <2> QED BY <1>2, <2>1 DEF StalledGameEnds, PoolDead
  <1>8. Asked' /\ ~Phase("TICKET_SELECTION")'
    BY <1>5 DEF Asked, Phase
  <1> QED BY <1>4, <1>6, <1>7, <1>8 DEF Turns

LEMMA TurnsOfEnded ==
  ASSUME Ended'
  PROVE  Turns'
PROOF
  <1>1. Asked'
    BY DEF Ended, Asked, First, Phase
  <1> QED BY <1>1 DEF Ended, Turns

(* The rest of the actions that do not end the turn. *)
LEMMA TurnsOfStay ==
  ASSUME Inv, ~Phase("GAME_OVER"), UNCHANGED <<repair, endgame, passes>>,
         turn' \in [phase : Phases, at : 0..N - 1, drawn : 0..1, pushed : BOOLEAN],
         turn'.at = turn.at,
         short' \in Seq(Ticket), offer' \in [Player -> Seq(Ticket)],
         \/ turn'.phase = "GAME_OVER"
         \/ turn'.phase \in {"DRAWING_CARDS", "TUNNEL_PENDING"}
            /\ \A p \in Player : offer'[p] = <<>>
         \/ turn'.phase = "AWAIT_ACTION" /\ turn'.pushed
            /\ \A p \in Player : offer'[p] = <<>>
         \/ turn'.phase = "TICKET_SELECTION" /\ offer'[Cur] # <<>>
            /\ \A p \in Player \ {Cur} : offer'[p] = <<>>
  PROVE  Turns'
PROOF
  <1>1. Round /\ TypeOK
    BY InvIsTyped DEF Inv, Turns
  <1>2. PassesLeft' /\ Trigger'
    BY <1>1 DEF Round, PassesLeft, Trigger, Phase, N
  <1>3. FinalRound' /\ RailWindow'
    <2>1. FinalRound'
      BY <1>1 DEF Round, FinalRound, N
    <2>2. RailWindow'
      BY <1>1 DEF Round, RailWindow, N
    <2> QED BY <2>1, <2>2
  <1>4. Round'
    BY <1>1, <1>2, <1>3 DEF Round, N
  <1>5. Cur' = Cur
    BY DEF Cur
  <1>6. Asked' /\ (Phase("TICKET_SELECTION")' => offer'[Cur'] # <<>>)
    BY <1>5 DEF Asked, Phase
  <1>7. StalledGameEnds'
    BY DEF StalledGameEnds, First, Phase
  <1> QED BY <1>4, <1>6, <1>7 DEF Turns

LEMMA TurnsKept ==
  ASSUME Inv, Next
  PROVE  Turns'
PROOF
  <1>1. /\ TypeOK /\ PassesLeft /\ Asked /\ Trigger /\ FinalRound /\ RailWindow
        /\ turn \in [phase : Phases, at : 0..N - 1, drawn : 0..1, pushed : BOOLEAN]
        /\ short \in Seq(Ticket) /\ offer \in [Player -> Seq(Ticket)]
        /\ Cur \in Player
    BY InvIsTyped, Seat DEF TypeOK
  <1>2. turn.phase \in {"AWAIT_ACTION", "DRAWING_CARDS", "TUNNEL_PENDING"} =>
          \A p \in Player : offer[p] = <<>>
    BY <1>1 DEF Asked
  <1>3. CASE KeepInitial
    BY <1>3, TurnsOfKeepInitial
  <1>4. CASE KeepTickets
    <2> DEFINE os == [offer EXCEPT ![Cur] = <<>>]
    <2>1. PICK keep : /\ Phase("TICKET_SELECTION")
                      /\ EndTurn(FALSE, repair, Returned(offer[Cur], keep, short), os)
      BY <1>4 DEF KeepTickets
    <2>2. \A p \in Player \ {Cur} : offer[p] = <<>>
      BY <1>1, <2>1 DEF Asked
    <2>3. os \in [Player -> Seq(Ticket)] /\ \A p \in Player : os[p] = <<>>
      <3>1. <<>> \in Seq(Ticket)
        OBVIOUS
      <3> QED BY <1>1, <2>2, <3>1
    <2>4. Returned(offer[Cur], keep, short) \in Seq(Ticket)
      BY <1>1, ReturnedAreTickets
    <2>5. Rails(repair) /\ ~Phase("GAME_OVER")
      BY <2>1 DEF Rails, Phase
    <2> HIDE DEF os
    <2>6. Ended'
      BY <1>1, <2>1, <2>3, <2>4, <2>5, TurnEnds
    <2> QED BY <2>6, TurnsOfEnded
  <1>5. CASE DrawTickets
    <2> DEFINE tp == Top(Count(short), short)
    <2>1. /\ First /\ short # <<>> /\ short' = Rest(Count(short), short)
          /\ offer' = [offer EXCEPT ![Cur] = tp]
          /\ turn' = [turn EXCEPT !.phase = "TICKET_SELECTION"]
          /\ UNCHANGED <<repair, endgame, passes>>
      BY <1>5 DEF DrawTickets, board
    <2>2. short' \in Seq(Ticket) /\ tp \in Seq(Ticket) /\ tp # <<>>
      BY <1>1, <2>1, OfferIsDealt
    <2> HIDE DEF tp
    <2>3. offer' \in [Player -> Seq(Ticket)] /\ offer'[Cur] # <<>>
      BY <1>1, <2>1, <2>2
    <2>4. \A p \in Player \ {Cur} : offer'[p] = <<>>
      BY <1>1, <1>2, <2>1 DEF First, Phase
    <2>5. /\ turn' \in [phase : Phases, at : 0..N - 1, drawn : 0..1, pushed : BOOLEAN]
          /\ turn'.at = turn.at /\ turn'.phase = "TICKET_SELECTION"
      BY <1>1, <2>1 DEF Phases
    <2>6. ~Phase("GAME_OVER")
      BY <2>1 DEF First, Phase
    <2> QED BY <2>1, <2>2, <2>3, <2>4, <2>5, <2>6, TurnsOfStay
  <1>6. CASE PushToTeamPool
    <2>1. /\ First /\ turn' = [turn EXCEPT !.pushed = TRUE]
          /\ UNCHANGED <<repair, endgame, passes, short, offer>>
      BY <1>6 DEF PushToTeamPool, board, tickets
    <2>2. /\ turn' \in [phase : Phases, at : 0..N - 1, drawn : 0..1, pushed : BOOLEAN]
          /\ turn'.at = turn.at /\ turn'.phase = "AWAIT_ACTION" /\ turn'.pushed
      BY <1>1, <2>1 DEF First, Phase
    <2>3. ~Phase("GAME_OVER") /\ \A p \in Player : offer'[p] = <<>>
      BY <1>2, <2>1 DEF First, Phase
    <2> QED BY <1>1, <2>1, <2>2, <2>3, TurnsOfStay
  <1>7. ASSUME turn.phase \in {"AWAIT_ACTION", "DRAWING_CARDS", "TUNNEL_PENDING"},
               NEW wasPass \in BOOLEAN, NEW rails, Rails(rails),
               EndTurn(wasPass, rails, short, offer)
        PROVE  Turns'
    <2>1. ~Phase("GAME_OVER") /\ \A p \in Player : offer[p] = <<>>
      BY <1>2, <1>7 DEF Phase
    <2>2. Ended'
      BY <1>1, <1>7, <2>1, TurnEnds
    <2> QED BY <2>2, TurnsOfEnded
  <1>8. CASE /\ turn.phase \in {"AWAIT_ACTION", "DRAWING_CARDS", "TUNNEL_PENDING"}
             /\ \E wasPass \in BOOLEAN : EndTurn(wasPass, repair, short, offer)
    <2>1. Rails(repair)
      BY DEF Rails
    <2> QED BY <1>7, <1>8, <2>1
  <1>9. CASE /\ turn.phase = "AWAIT_ACTION"
             /\ \E r \in Route : /\ repair[r] = None
                                 /\ EndTurn(FALSE, [repair EXCEPT ![r] = Window(Cur)], short, offer)
    <2>1. PICK r \in Route : /\ repair[r] = None
                             /\ EndTurn(FALSE, [repair EXCEPT ![r] = Window(Cur)], short, offer)
      BY <1>9
    <2>2. Rails([repair EXCEPT ![r] = Window(Cur)])
      BY <2>1 DEF Rails
    <2> QED BY <1>7, <1>9, <2>1, <2>2
  <1>10. CASE \/ Drawing /\ Drew /\ SameRound
              \/ First /\ turn' = [turn EXCEPT !.phase = "TUNNEL_PENDING"] /\ SameRound
              \/ ~Phase("GAME_OVER") /\ turn' = [turn EXCEPT !.phase = "GAME_OVER"] /\ SameRound
    <2>1. /\ turn' \in [phase : Phases, at : 0..N - 1, drawn : 0..1, pushed : BOOLEAN]
          /\ turn'.at = turn.at
      <3>1. CASE turn' = [turn EXCEPT !.phase = "DRAWING_CARDS", !.drawn = 1]
        <4>1. turn' = [phase |-> "DRAWING_CARDS", at |-> turn.at, drawn |-> 1,
                       pushed |-> turn.pushed]
          BY <1>1, <3>1
        <4>2. 1 \in 0..1
          OBVIOUS
        <4> QED BY <1>1, <4>1, <4>2 DEF Phases
      <3>2. CASE turn' = [turn EXCEPT !.phase = "TUNNEL_PENDING"]
        BY <1>1, <3>2 DEF Phases
      <3>3. CASE turn' = [turn EXCEPT !.phase = "GAME_OVER"]
        BY <1>1, <3>3 DEF Phases
      <3> QED BY <1>10, <3>1, <3>2, <3>3 DEF Drew
    <2>2. ~Phase("GAME_OVER") /\ UNCHANGED <<repair, endgame, passes, short, offer>>
      BY <1>10 DEF Drawing, First, Phase, SameRound
    <2>3. \/ turn'.phase = "GAME_OVER"
          \/ turn'.phase \in {"DRAWING_CARDS", "TUNNEL_PENDING"}
             /\ \A p \in Player : offer'[p] = <<>>
      BY <1>1, <1>2, <1>10, <2>2 DEF Drawing, Drew, First, Phase
    <2> QED BY <1>1, <2>1, <2>2, <2>3, TurnsOfStay
  <1> QED BY <1>1, <1>3, <1>4, <1>5, <1>6, <1>8, <1>9, <1>10, StepsOfTurn DEF TurnStep

-----------------------------------------------------------------------------
(* The board. *)

LEMMA TracksSame ==
  ASSUME ParallelTracks, UNCHANGED owner
  PROVE  ParallelTracks'
PROOF
  <1>1. \A x \in Route : Owned(x)' = Owned(x)
    BY DEF Owned, Group
  <1>2. ASSUME NEW x \in Route
        PROVE  /\ Size(Owned(x)') <= OpenTracks(x)
               /\ \A o, u \in Owned(x)' : o # u => Side[owner'[o]] # Side[owner'[u]]
               /\ owner'[x] = Locked <=> x \notin Owned(x)' /\ Size(Owned(x)') = OpenTracks(x)
    BY <1>1, TracksOfGroups
  <1> QED BY <1>2 DEF ParallelTracks, Owned, Group, OpenTracks, Size, N

LEMMA NetworkSame ==
  ASSUME Network, UNCHANGED <<owner, station, trains, kept, done>>
  PROVE  Network'
PROOF
  <1>1. LocksAreRight'
    BY DEF Network, LocksAreRight, Joined, Holds, Teammates
  <1>2. ParallelTracks'
    BY TracksSame DEF Network
  <1> QED BY <1>1, <1>2 DEF Network

(* A track is laid where it may be, by a player who has the trains. *)
LEMMA NetworkOfClaim ==
  ASSUME Inv, NEW p \in Player, NEW r \in Route, owner[r] = None, ~SideHoldsTwin(p, r),
         trains[p] >= Length[r], ClaimEffects(p, r)
  PROVE  Network'
PROOF
  <1>1. TypeOK /\ ParallelTracks /\ LocksAreRight
    BY InvIsTyped
  <1>2. Own(p, r) /\ LayTrains(p, r) /\ UNCHANGED <<station, kept>> /\ Lock
    BY DEF ClaimEffects
  <1>3. /\ owner' \in [Route -> Player \cup {None, Locked}] /\ ParallelTracks'
        /\ \A o \in Route : owner[o] \in Player => owner'[o] = owner[o]
    BY <1>1, <1>2, OwnKeepsTracks
  <1>4. kept' \in [Player -> SUBSET Ticket] /\ \A q \in Player : kept[q] \subseteq kept'[q]
    BY <1>1, <1>2 DEF TypeOK
  <1>5. LocksAreRight' /\ done' \in [Player -> SUBSET Ticket]
    BY <1>1, <1>2, <1>3, <1>4, LockIsRight
  <1>6. trains' \in [Player -> 0..TrainsStart]
    <2>1. /\ trains \in [Player -> 0..TrainsStart] /\ Length[r] \in Nat \ {0}
          /\ TrainsStart \in Nat
      BY <1>1, TableAssumption DEF TypeOK
    <2>2. trains[p] - Length[r] \in 0..TrainsStart
      BY <2>1
    <2> QED BY <1>2, <2>1, <2>2 DEF LayTrains
  <1>7. station' \in [City -> Player \cup {None}]
    BY <1>1, <1>2 DEF TypeOK
  <1> QED BY <1>3, <1>4, <1>5, <1>6, <1>7 DEF Network

LEMMA NetworkKept ==
  ASSUME Inv, Next
  PROVE  Network'
PROOF
  <1>1. TypeOK /\ Network /\ LocksAreRight /\ ParallelTracks /\ Cur \in Player
    BY InvIsTyped, Seat DEF Inv
  <1>2. CASE DrawTickets \/ PushToTeamPool \/ BeginTunnel \/ EndGame
    <2>1. UNCHANGED <<owner, station, trains, kept, done>>
      BY <1>2 DEF DrawTickets, PushToTeamPool, BeginTunnel, EndGame, board, tickets
    <2> QED BY <1>1, <2>1, NetworkSame
  <1>3. CASE DrawBlind \/ DryDraw \/ DrawFaceup \/ TakeFromTeamPool
    <2>1. UNCHANGED <<owner, station, trains, kept, done>>
      BY <1>3 DEF DrawBlind, DryDraw, DrawFaceup, TakeFromTeamPool
    <2> QED BY <1>1, <2>1, NetworkSame
  <1>4. CASE AbortTunnel \/ RepairRoute \/ Pass
    <2>1. UNCHANGED <<owner, station, trains, kept, done>>
      BY <1>4 DEF AbortTunnel, RepairRoute, Pass
    <2> QED BY <1>1, <2>1, NetworkSame
  <1>5. CASE KeepInitial
    <2>1. PICK p \in Player, keep \in SUBSET Ticket :
            /\ Phase("SETUP_TICKETS")
            /\ kept' = [kept EXCEPT ![p] = @ \cup keep]
            /\ UNCHANGED <<owner, repair, station, trains, done>>
      BY <1>5 DEF KeepInitial, board
    <2>2. /\ owner \in [Route -> Player \cup {None, Locked}]
          /\ station \in [City -> Player \cup {None}]
          /\ trains \in [Player -> 0..TrainsStart]
          /\ kept \in [Player -> SUBSET Ticket] /\ done \in [Player -> SUBSET Ticket]
      BY <1>1 DEF TypeOK
    <2>3. kept' \in [Player -> SUBSET Ticket]
      BY <2>1, <2>2
    <2>4. \A q \in Player, t \in Ticket : ~Joined(q, t)
      <3>1. \A r \in Route : owner[r] = None
        BY <2>1 DEF Inv, Pending, Opening
      <3>2. \A q \in Player, r \in Route : ~Holds(q, r)
        BY <3>1, TableAssumption DEF Holds, Teammates
      <3> QED BY <3>2, DealAssumption DEF Joined
    <2>5. \A q \in Player, t \in Ticket : Joined(q, t)' <=> Joined(q, t)
      BY <2>1 DEF Joined, Holds, Teammates
    <2>6. LocksAreRight'
      <3>1. \A q \in Player : done[q] = {}
        BY <1>1, <2>2, <2>4 DEF LocksAreRight
      <3>2. ASSUME NEW q \in Player
            PROVE  done'[q] = {t \in kept'[q] : Joined(q, t)'}
        <4>1. \A t \in kept'[q] : ~Joined(q, t)'
          BY <2>3, <2>4, <2>5
        <4>2. {t \in kept'[q] : Joined(q, t)'} = {}
          BY <4>1
        <4> QED BY <2>1, <3>1, <4>2
      <3> QED BY <3>2 DEF LocksAreRight
    <2>7. ParallelTracks'
      BY <1>1, <2>1, TracksSame
    <2> QED BY <2>1, <2>2, <2>3, <2>6, <2>7 DEF Network
  <1>6. CASE KeepTickets \/ BuildStation
    <2>1. /\ UNCHANGED <<owner, trains>> /\ Lock
          /\ kept' \in [Player -> SUBSET Ticket] /\ \A q \in Player : kept[q] \subseteq kept'[q]
          /\ station' \in [City -> Player \cup {None}]
      <3>1. /\ kept \in [Player -> SUBSET Ticket] /\ station \in [City -> Player \cup {None}]
            /\ offer \in [Player -> Seq(Ticket)]
        BY <1>1 DEF TypeOK
      <3>2. CASE KeepTickets
        <4>1. PICK keep \in SUBSET InSeq(offer[Cur]) :
                /\ kept' = [kept EXCEPT ![Cur] = @ \cup keep]
                /\ UNCHANGED <<owner, station, trains>> /\ Lock
          BY <3>2 DEF KeepTickets
        <4>2. InSeq(offer[Cur]) \subseteq Ticket
          <5>1. \A i \in 1..Len(offer[Cur]) : offer[Cur][i] \in Ticket
            BY <1>1, <3>1, ElementOfSeq
          <5> QED BY <5>1 DEF InSeq
        <4>3. keep \subseteq Ticket
          BY <4>2
        <4>4. kept' \in [Player -> SUBSET Ticket] /\ \A q \in Player : kept[q] \subseteq kept'[q]
          BY <1>1, <3>1, <4>1, <4>3
        <4> QED BY <3>1, <4>1, <4>4
      <3>3. CASE BuildStation
        <4>1. PICK c \in City : /\ station' = [station EXCEPT ![c] = Cur]
                                /\ UNCHANGED <<owner, trains, kept>> /\ Lock
          BY <3>3 DEF BuildStation
        <4> QED BY <1>1, <3>1, <4>1
      <3> QED BY <1>6, <3>2, <3>3
    <2>2. LocksAreRight' /\ done' \in [Player -> SUBSET Ticket]
      BY <1>1, <2>1, LockIsRight
    <2>3. ParallelTracks'
      BY <1>1, <2>1, TracksSame
    <2> QED BY <1>1, <2>1, <2>2, <2>3 DEF Network
  <1>7. CASE ClaimRoute
    <2>1. PICK r \in Route : ClaimEffects(Cur, r) /\ \E pay \in SUBSET hand[Cur] : Bid(Cur, r, pay)
      BY <1>7 DEF ClaimRoute
    <2>2. owner[r] = None /\ ~SideHoldsTwin(Cur, r) /\ trains[Cur] >= Length[r]
      BY <2>1 DEF Bid, Claimable
    <2> QED BY <1>1, <2>1, <2>2, NetworkOfClaim
  <1>8. CASE CommitTunnel
    <2>1. Phase("TUNNEL_PENDING") /\ ClaimEffects(Cur, tunnel.route)
      BY <1>8 DEF CommitTunnel
    <2>2. /\ owner[tunnel.route] = None /\ ~SideHoldsTwin(Cur, tunnel.route)
          /\ trains[Cur] >= Length[tunnel.route]
      BY <2>1 DEF Inv, Pending, TunnelOpen
    <2>3. tunnel.route \in Route
      BY <1>1, <2>1 DEF TypeOK
    <2> QED BY <1>1, <2>1, <2>2, <2>3, NetworkOfClaim
  <1> QED BY <1>2, <1>3, <1>4, <1>5, <1>6, <1>7, <1>8 DEF Next, Play, Productive

-----------------------------------------------------------------------------
(* What is pending. *)

LEMMA PendingKept ==
  ASSUME Inv, Next
  PROVE  Pending'
PROOF
  <1>1. TypeOK /\ PassesLeft /\ Pending /\ Cur \in Player
    BY InvIsTyped, Seat DEF Inv
  <1>2. turn \in [phase : Phases, at : 0..N - 1, drawn : 0..1, pushed : BOOLEAN]
    BY <1>1 DEF TypeOK
  <1>3. /\ turn'.phase = "SETUP_TICKETS" => KeepInitial
        /\ turn'.phase = "TUNNEL_PENDING" => BeginTunnel
    <2>1. TurnStep
      BY <1>1, StepsOfTurn
    <2>2. ASSUME ~Phase("GAME_OVER"), NEW wasPass \in BOOLEAN, NEW rails, NEW sh, NEW os,
                 EndTurn(wasPass, rails, sh, os)
          PROVE  turn'.phase \notin {"SETUP_TICKETS", "TUNNEL_PENDING"}
      BY <1>1, <1>2, <2>2, EndTurnIs DEF Handed
    <2>3. CASE KeepTickets
      BY <2>2, <2>3 DEF KeepTickets, Phase
    <2>4. CASE KeepInitial
      BY <1>2, <2>4 DEF KeepInitial, Phase
    <2>5. CASE DrawTickets
      BY <1>2, <2>5 DEF DrawTickets
    <2>6. CASE PushToTeamPool
      BY <1>2, <2>6 DEF PushToTeamPool, First, Phase
    <2>7. CASE Drew
      <3>1. turn' = [phase |-> "DRAWING_CARDS", at |-> turn.at, drawn |-> 1,
                     pushed |-> turn.pushed]
        BY <1>2, <2>7 DEF Drew
      <3> QED BY <3>1
    <2>8. CASE BeginTunnel \/ turn' = [turn EXCEPT !.phase = "GAME_OVER"]
      BY <1>2, <2>8 DEF BeginTunnel
    <2>9. CASE /\ turn.phase \in {"AWAIT_ACTION", "DRAWING_CARDS", "TUNNEL_PENDING"}
               /\ \/ \E wasPass \in BOOLEAN : EndTurn(wasPass, repair, short, offer)
                  \/ \E r \in Route :
                       EndTurn(FALSE, [repair EXCEPT ![r] = Window(Cur)], short, offer)
      BY <2>2, <2>9 DEF Phase
    <2> QED BY <2>1, <2>3, <2>4, <2>5, <2>6, <2>7, <2>8, <2>9 DEF TurnStep
  <1>4. Opening'
    <2> SUFFICES ASSUME turn'.phase = "SETUP_TICKETS"
                 PROVE  /\ \A r \in Route : owner'[r] = None /\ repair'[r] = None
                        /\ ~PoolDead' /\ ~endgame'.triggered
      BY DEF Opening, Phase
    <2>1. Phase("SETUP_TICKETS") /\ UNCHANGED <<deck, discard, market, owner, repair, endgame>>
      BY <1>3 DEF KeepInitial, piles, board
    <2> QED BY <1>1, <2>1 DEF Pending, Opening, PoolDead
  <1>5. CASE BeginTunnel
    <2>1. PICK r \in Tunnel, pay \in SUBSET hand[Cur] :
            /\ Bid(Cur, r, pay)
            /\ \E d \in Drawn(TunnelReveal, deck, discard) :
                 tunnel' = [route |-> r, pay |-> pay, revealed |-> d.took]
            /\ turn' = [turn EXCEPT !.phase = "TUNNEL_PENDING"]
            /\ UNCHANGED <<hand, owner, trains>>
      BY <1>5 DEF BeginTunnel, board
    <2>2. turn'.phase = "TUNNEL_PENDING" /\ Cur' = Cur
      BY <1>2, <2>1 DEF Cur
    <2>3. tunnel'.route = r /\ tunnel'.pay = pay
      BY <2>1
    <2>4. owner[r] = None /\ ~SideHoldsTwin(Cur, r) /\ trains[Cur] >= Length[r]
      BY <2>1 DEF Bid, Claimable
    <2>5. ~\E o \in Twins[r] : owner'[o] \in Teammates(Cur)
      BY <2>1, <2>2, <2>4 DEF SideHoldsTwin, Holds, Teammates
    <2>6. TunnelOpen'
      BY <2>1, <2>2, <2>3, <2>4, <2>5 DEF TunnelOpen, SideHoldsTwin, Holds, Teammates
    <2>7. tunnel' # None
      <3>1. PICK d \in Drawn(TunnelReveal, deck, discard) :
              tunnel' = [route |-> r, pay |-> pay, revealed |-> d.took]
        BY <2>1
      <3>2. d.took \in SUBSET Card
        <4>1. deck \subseteq Card /\ discard \subseteq Card
          BY <1>1 DEF TypeOK
        <4> QED BY <4>1 DEF Drawn, kSubset
      <3>3. r \in Route /\ pay \in SUBSET Card
        BY <1>1, TableAssumption DEF TypeOK
      <3> QED BY <3>1, <3>2, <3>3, BoardAssumption
    <2> QED BY <1>4, <2>2, <2>6, <2>7 DEF Pending, Phase
  <1>6. CASE ~BeginTunnel
    <2>1. turn'.phase # "TUNNEL_PENDING"
      BY <1>3, <1>6
    <2>2. tunnel' # None => turn'.phase = "GAME_OVER"
      <3>1. CASE AbortTunnel \/ CommitTunnel
        BY <3>1 DEF AbortTunnel, CommitTunnel
      <3>2. CASE EndGame
        BY <1>2, <3>2 DEF EndGame
      <3>3. CASE KeepInitial \/ KeepTickets \/ DrawTickets \/ DrawBlind \/ DrawFaceup
        <4>1. UNCHANGED tunnel /\ ~Phase("TUNNEL_PENDING") /\ ~Phase("GAME_OVER")
          BY <3>3 DEF KeepInitial, KeepTickets, DrawTickets, DrawBlind, DrawFaceup, Drawing,
                      First, Phase
        <4> QED BY <1>1, <4>1 DEF Pending
      <3>4. CASE TakeFromTeamPool \/ DryDraw \/ PushToTeamPool \/ ClaimRoute
        <4>1. UNCHANGED tunnel /\ ~Phase("TUNNEL_PENDING") /\ ~Phase("GAME_OVER")
          BY <3>4 DEF TakeFromTeamPool, DryDraw, PushToTeamPool, ClaimRoute, Bid, Drawing,
                      First, Phase
        <4> QED BY <1>1, <4>1 DEF Pending
      <3>5. CASE BuildStation \/ RepairRoute \/ Pass
        <4>1. UNCHANGED tunnel /\ ~Phase("TUNNEL_PENDING") /\ ~Phase("GAME_OVER")
          BY <3>5 DEF BuildStation, RepairRoute, Pass, First, Phase
        <4> QED BY <1>1, <4>1 DEF Pending
      <3> QED BY <1>6, <3>1, <3>2, <3>3, <3>4, <3>5 DEF Next, Play, Productive
    <2>3. TunnelOpen'
      BY <2>1 DEF TunnelOpen, Phase
    <2> QED BY <1>4, <2>1, <2>2, <2>3 DEF Pending, Phase
  <1> QED BY <1>5, <1>6

-----------------------------------------------------------------------------
(* The cards. *)

(* From f to g, one of the sets gives some of its elements up. *)
Gives(D, C, f, g, x, X) ==
  /\ f \in [D -> SUBSET C] /\ Apart(f) /\ x \in D
  /\ X \in SUBSET f[x] /\ g = [f EXCEPT ![x] = f[x] \ X]

LEMMA GivenUp ==
  ASSUME NEW D, NEW C, NEW f, NEW g, NEW x, NEW X, Gives(D, C, f, g, x, X)
  PROVE  /\ g \in [D -> SUBSET C] /\ Apart(g)
         /\ Total(g, D) = Total(f, D) \ X
PROOF
  <1> USE DEF Gives
  <1>1. \A y \in D : g[y] = IF y = x THEN f[x] \ X ELSE f[y]
    OBVIOUS
  <1>2. g \in [D -> SUBSET C]
    OBVIOUS
  <1>3. Apart(g)
    BY <1>1, <1>2 DEF Apart
  <1>4. \A y \in D : y # x => f[y] \cap X = {}
    BY DEF Apart
  <1>5. \A e : (\E y \in D : e \in g[y]) <=> (\E y \in D : e \in f[y]) /\ e \notin X
    BY <1>1, <1>4
  <1>6. Total(g, D) = Total(f, D) \ X
    <2>1. \A e : e \in Total(g, D) <=> \E y \in D : e \in g[y]
      BY DEF Total
    <2>2. \A e : e \in Total(f, D) <=> \E y \in D : e \in f[y]
      BY DEF Total
    <2> QED BY <1>5, <2>1, <2>2
  <1> QED BY <1>2, <1>3, <1>6

(* From f to g, one of the sets receives elements that are new to all. *)
Receives(D, C, f, g, x, X) ==
  /\ f \in [D -> SUBSET C] /\ Apart(f) /\ x \in D
  /\ X \in SUBSET C /\ X \cap Total(f, D) = {} /\ g = [f EXCEPT ![x] = f[x] \cup X]

LEMMA Received ==
  ASSUME NEW D, NEW C, NEW f, NEW g, NEW x, NEW X, Receives(D, C, f, g, x, X)
  PROVE  /\ g \in [D -> SUBSET C] /\ Apart(g)
         /\ Total(g, D) = Total(f, D) \cup X
PROOF
  <1> USE DEF Receives
  <1>1. \A y \in D : g[y] = IF y = x THEN f[x] \cup X ELSE f[y]
    OBVIOUS
  <1>2. g \in [D -> SUBSET C]
    OBVIOUS
  <1>3. \A y \in D : f[y] \cap X = {}
    BY DEF Total
  <1>4. Apart(g)
    BY <1>1, <1>2, <1>3 DEF Apart
  <1>5. \A e : (\E y \in D : e \in g[y]) <=> (\E y \in D : e \in f[y]) \/ e \in X
    BY <1>1
  <1>6. Total(g, D) = Total(f, D) \cup X
    <2>1. \A e : e \in Total(g, D) <=> \E y \in D : e \in g[y]
      BY DEF Total
    <2>2. \A e : e \in Total(f, D) <=> \E y \in D : e \in f[y]
      BY DEF Total
    <2> QED BY <1>5, <2>1, <2>2
  <1> QED BY <1>2, <1>4, <1>6

(* A draw takes from the two piles and leaves the rest in them. *)
LEMMA DrawnIs ==
  ASSUME NEW n, NEW dk, NEW dc, dk \cap dc = {}, NEW d \in Drawn(n, dk, dc)
  PROVE  /\ d = [took |-> d.took, deck |-> d.deck, discard |-> d.discard]
         /\ d.took \cup d.deck \cup d.discard = dk \cup dc
         /\ d.took \cap d.deck = {} /\ d.took \cap d.discard = {} /\ d.deck \cap d.discard = {}
PROOF
  <1>1. CASE n <= Size(dk)
    <2>1. PICK s \in kSubset(n, dk) : d = [took |-> s, deck |-> dk \ s, discard |-> dc]
      BY <1>1 DEF Drawn
    <2>2. s \subseteq dk
      BY DEF kSubset
    <2> QED BY <2>1, <2>2
  <1>2. CASE ~(n <= Size(dk))
    <2> DEFINE k == Min({n - Size(dk), Size(dc)})
    <2>1. PICK s \in kSubset(k, dc) : d = [took |-> dk \cup s, deck |-> dc \ s, discard |-> {}]
      BY <1>2 DEF Drawn
    <2>2. s \subseteq dc
      BY DEF kSubset
    <2> QED BY <2>1, <2>2
  <1> QED BY <1>1, <1>2

(* The cards of S, dealt over the market, the deck and the discard pile. *)
Tables(S) ==
  {m \in [market : SUBSET S, deck : SUBSET S, discard : SUBSET S] :
     /\ m.market \cup m.deck \cup m.discard = S
     /\ m.market \cap m.deck = {} /\ m.market \cap m.discard = {} /\ m.deck \cap m.discard = {}}

LEMMA FilledIs ==
  ASSUME NEW S, NEW m \in Tables(S)
  PROVE  Filled(m) \subseteq Tables(S)
PROOF
  <1> SUFFICES ASSUME NEW x \in Filled(m)
               PROVE  x \in Tables(S)
    OBVIOUS
  <1> DEFINE n == MarketSize - Size(m.market)
  <1>1. PICK d \in Drawn(n, m.deck, m.discard) :
          x = [market |-> m.market \cup d.took, deck |-> d.deck, discard |-> d.discard]
    BY DEF Filled
  <1>2. /\ m.market \cup m.deck \cup m.discard = S
        /\ m.market \cap m.deck = {} /\ m.market \cap m.discard = {} /\ m.deck \cap m.discard = {}
    BY DEF Tables
  <1> HIDE DEF n
  <1>3. /\ d.took \cup d.deck \cup d.discard = m.deck \cup m.discard
        /\ d.took \cap d.deck = {} /\ d.took \cap d.discard = {} /\ d.deck \cap d.discard = {}
    BY <1>2, DrawnIs
  <1>4. x \in [market : SUBSET S, deck : SUBSET S, discard : SUBSET S]
    BY <1>1, <1>2, <1>3
  <1> QED BY <1>1, <1>2, <1>3, <1>4 DEF Tables

LEMMA SweptIs ==
  ASSUME NEW S, NEW m \in Tables(S)
  PROVE  Swept(m) \subseteq Tables(S)
PROOF
  <1> DEFINE x == [market |-> {}, deck |-> m.deck, discard |-> m.discard \cup m.market]
  <1>1. x \in Tables(S)
    BY DEF Tables
  <1> HIDE DEF x
  <1>2. Filled(x) \subseteq Tables(S)
    BY <1>1, FilledIs
  <1> QED BY <1>2 DEF Swept, x

(* What one more round of the recycling makes of the markets there may be. *)
OneRound(X) == UNION {IF Stale(x) THEN Swept(x) ELSE {x} : x \in X}

(* What holds of the markets there may be after the first filling, and is kept
   by a round, holds of those refillMarket leaves. *)
LEMMA RefillKeeps ==
  ASSUME NEW m, NEW T, Filled(m) \in T, \A X \in T : OneRound(X) \in T
  PROVE  Refilled(m) \in T
PROOF
  <1> DEFINE n == MaxRecycles
             G == [X \in T |-> OneRound(X)]
             Is(f) == f = [i \in 0..n |->
                             IF i = 0 THEN Filled(m)
                             ELSE UNION {IF Stale(x) THEN Swept(x) ELSE {x} : x \in f[i - 1]}]
             rounds == CHOOSE f : Is(f)
  <1>1. n \in Nat
    BY TableAssumption
  <1>3. G \in [T -> T]
    OBVIOUS
  <1>5. PICK f : IsIterate(T, G, Filled(m), n, f)
    <2> HIDE DEF G, n
    <2> QED BY <1>1, <1>3, Iterates
  <1>6. f \in [0..n -> T] /\ f[0] = Filled(m) /\ \A i \in 1..n : f[i] = G[f[i - 1]]
    BY <1>5 DEF IsIterate
  <1>7. Is(f)
    <2>1. ASSUME NEW i \in 0..n, i # 0
          PROVE  f[i] = OneRound(f[i - 1])
      <3>1. i \in 1..n /\ i - 1 \in 0..n
        BY <1>1, <2>1
      <3>2. f[i - 1] \in T
        BY <1>6, <3>1
      <3> QED BY <1>6, <3>1, <3>2
    <2>2. \A i \in 0..n : i # 0 => f[i] = UNION {IF Stale(x) THEN Swept(x) ELSE {x} : x \in f[i - 1]}
      BY <2>1 DEF OneRound
    <2> HIDE DEF G, n
    <2> QED BY <1>6, <2>2
  <1> HIDE DEF Is
  <1>8. Is(rounds)
    BY <1>7
  <1>9. Refilled(m) = rounds[n]
    BY DEF Refilled, rounds, Is
  <1> HIDE DEF rounds
  <1>10. rounds[n] \in T
    <2> DEFINE Bad == {i \in Nat : i <= n /\ rounds[i] \notin T}
    <2>1. ASSUME Bad # {}
          PROVE  FALSE
      <3>1. Bad \in SUBSET Nat
        OBVIOUS
      <3>2. PICK i \in Bad : \A j \in Bad : i <= j
        BY <2>1, <3>1, LeastNatural
      <3>3. i \in 0..n
        BY <1>1, <3>2
      <3>4. rounds[i] = IF i = 0 THEN Filled(m) ELSE OneRound(rounds[i - 1])
        <4> HIDE DEF n
        <4> QED BY <1>8, <3>3 DEF Is, OneRound
      <3>5. i # 0
        BY <3>2, <3>4
      <3>6. i - 1 \in Nat /\ i - 1 <= n /\ i - 1 < i
        BY <1>1, <3>3, <3>5
      <3>7. rounds[i - 1] \in T
        BY <3>2, <3>6
      <3> QED BY <3>2, <3>4, <3>5, <3>7
    <2>2. n \in Nat /\ n <= n
      BY <1>1
    <2> QED BY <2>1, <2>2
  <1> QED BY <1>9, <1>10

(* However often the market is thrown away, no card is lost. *)
LEMMA RefilledIs ==
  ASSUME NEW S, NEW m \in Tables(S)
  PROVE  Refilled(m) \subseteq Tables(S)
PROOF
  <1> DEFINE T == SUBSET Tables(S)
  <1>1. Filled(m) \in T
    BY FilledIs
  <1>2. \A X \in T : OneRound(X) \in T
    BY SweptIs DEF OneRound
  <1> HIDE DEF T
  <1>3. Refilled(m) \in T
    BY <1>1, <1>2, RefillKeeps
  <1> QED BY <1>3 DEF T


LEMMA CardsSame ==
  ASSUME Cards, UNCHANGED <<deck, discard, market, hand, pool, tunnel>>
  PROVE  Cards'
BY DEF Cards, Away, Revealed, InHands, InPools, Total, Apart

(* Seats, sides, and the cards of each. *)
LEMMA CardsAre ==
  ASSUME Inv
  PROVE  /\ Cur \in Player /\ Side[Cur] \in {Side[p] : p \in Player}
         /\ tunnel \in {None} \cup [route : Route, pay : SUBSET Card, revealed : SUBSET Card]
         /\ hand \in [Player -> SUBSET Card] /\ Apart(hand)
         /\ pool \in [{Side[p] : p \in Player} -> SUBSET Card] /\ Apart(pool)
         /\ hand[Cur] \subseteq InHands /\ pool[Side[Cur]] \subseteq InPools
         /\ InHands \subseteq Card /\ InPools \subseteq Card /\ Revealed \subseteq Card
PROOF
  <1>1. Cur \in Player
    BY InvIsTyped, Seat
  <1>2. Side[Cur] \in {Side[p] : p \in Player}
    BY <1>1
  <1>3. /\ tunnel \in {None} \cup [route : Route, pay : SUBSET Card, revealed : SUBSET Card]
        /\ hand \in [Player -> SUBSET Card] /\ Apart(hand)
        /\ pool \in [{Side[p] : p \in Player} -> SUBSET Card] /\ Apart(pool)
    BY DEF Inv, Cards
  <1>4. hand[Cur] \subseteq InHands /\ InHands \subseteq Card
    BY <1>1, <1>3 DEF InHands, Total
  <1>5. pool[Side[Cur]] \subseteq InPools /\ InPools \subseteq Card
    <2> DEFINE D == {Side[p] : p \in Player}
    <2>1. Side[Cur] \in D /\ pool \in [D -> SUBSET Card] /\ InPools = Total(pool, D)
      BY <1>2, <1>3 DEF InPools
    <2> HIDE DEF D
    <2> QED BY <2>1 DEF Total
  <1>6. Revealed \subseteq Card
    BY <1>3 DEF Revealed
  <1> QED BY <1>1, <1>2, <1>3, <1>4, <1>5, <1>6

(* The player on the move receives cards. *)
LEMMA HandReceives ==
  ASSUME Inv, NEW X \in SUBSET Card, X \cap InHands = {}, hand' = [hand EXCEPT ![Cur] = @ \cup X]
  PROVE  hand' \in [Player -> SUBSET Card] /\ Apart(hand)' /\ InHands' = InHands \cup X
PROOF
  <1> DEFINE f == hand
             g == hand'
  <1>1. /\ f \in [Player -> SUBSET Card] /\ Apart(f) /\ Cur \in Player
        /\ X \in SUBSET Card /\ X \cap Total(f, Player) = {}
        /\ g = [f EXCEPT ![Cur] = f[Cur] \cup X]
    BY CardsAre DEF InHands
  <1>2. Receives(Player, Card, f, g, Cur, X)
    BY <1>1 DEF Receives
  <1> HIDE DEF f, g
  <1>3. /\ g \in [Player -> SUBSET Card] /\ Apart(g)
        /\ Total(g, Player) = Total(f, Player) \cup X
    BY <1>2, Received
  <1> QED BY <1>3 DEF InHands, Total, Apart, f, g

(* Or spends some of theirs. *)
LEMMA HandSpends ==
  ASSUME Inv, NEW X \in SUBSET hand[Cur], hand' = [hand EXCEPT ![Cur] = @ \ X]
  PROVE  hand' \in [Player -> SUBSET Card] /\ Apart(hand)' /\ InHands' = InHands \ X
PROOF
  <1> DEFINE f == hand
             g == hand'
  <1>1. /\ f \in [Player -> SUBSET Card] /\ Apart(f) /\ Cur \in Player
        /\ X \in SUBSET f[Cur]
        /\ g = [f EXCEPT ![Cur] = f[Cur] \ X]
    BY CardsAre DEF InHands
  <1>2. Gives(Player, Card, f, g, Cur, X)
    BY <1>1 DEF Gives
  <1> HIDE DEF f, g
  <1>3. /\ g \in [Player -> SUBSET Card] /\ Apart(g)
        /\ Total(g, Player) = Total(f, Player) \ X
    BY <1>2, GivenUp
  <1> QED BY <1>3 DEF InHands, Total, Apart, f, g

LEMMA PoolReceives ==
  ASSUME Inv, NEW X \in SUBSET Card, X \cap InPools = {},
         pool' = [pool EXCEPT ![Side[Cur]] = @ \cup X]
  PROVE  /\ pool' \in [{Side[p] : p \in Player} -> SUBSET Card] /\ Apart(pool)'
         /\ InPools' = InPools \cup X
PROOF
  <1> DEFINE D == {Side[p] : p \in Player}
             f == pool
             g == pool'
  <1>1. /\ f \in [D -> SUBSET Card] /\ Apart(f) /\ Side[Cur] \in D
        /\ X \in SUBSET Card /\ X \cap Total(f, D) = {}
        /\ g = [f EXCEPT ![Side[Cur]] = f[Side[Cur]] \cup X]
    BY CardsAre DEF InPools
  <1>2. Receives(D, Card, f, g, Side[Cur], X)
    BY <1>1 DEF Receives
  <1> HIDE DEF D, f, g
  <1>3. /\ g \in [D -> SUBSET Card] /\ Apart(g)
        /\ Total(g, D) = Total(f, D) \cup X
    BY <1>2, Received
  <1> QED BY <1>3 DEF InPools, Total, Apart, D, f, g

LEMMA PoolGives ==
  ASSUME Inv, NEW X \in SUBSET pool[Side[Cur]], pool' = [pool EXCEPT ![Side[Cur]] = @ \ X]
  PROVE  /\ pool' \in [{Side[p] : p \in Player} -> SUBSET Card] /\ Apart(pool)'
         /\ InPools' = InPools \ X
PROOF
  <1> DEFINE D == {Side[p] : p \in Player}
             f == pool
             g == pool'
  <1>1. /\ f \in [D -> SUBSET Card] /\ Apart(f) /\ Side[Cur] \in D
        /\ X \in SUBSET f[Side[Cur]]
        /\ g = [f EXCEPT ![Side[Cur]] = f[Side[Cur]] \ X]
    BY CardsAre DEF InPools
  <1>2. Gives(D, Card, f, g, Side[Cur], X)
    BY <1>1 DEF Gives
  <1> HIDE DEF D, f, g
  <1>3. /\ g \in [D -> SUBSET Card] /\ Apart(g)
        /\ Total(g, D) = Total(f, D) \ X
    BY <1>2, GivenUp
  <1> QED BY <1>3 DEF InPools, Total, Apart, D, f, g

(* A payment of the player on the move goes to the discard pile, with what a
   tunnel had revealed. *)
LEMMA CardsOfSpend ==
  ASSUME Inv, NEW pay \in SUBSET hand[Cur], NEW X, X = Revealed \/ (X = {} /\ Revealed = {}),
         Spend(Cur, pay, discard \cup X), tunnel' = None, UNCHANGED <<deck, market, pool>>
  PROVE  Cards'
PROOF
  <1>1. Cards
    BY DEF Inv
  <1>2. hand' = [hand EXCEPT ![Cur] = @ \ pay] /\ discard' = discard \cup X \cup pay
    BY DEF Spend
  <1>3. hand' \in [Player -> SUBSET Card] /\ Apart(hand)' /\ InHands' = InHands \ pay
    BY <1>2, HandSpends
  <1>4. Revealed' = {} /\ InPools' = InPools
    BY DEF Revealed, InPools
  <1>5. pay \subseteq InHands /\ InHands \subseteq Card /\ Revealed \subseteq Card
    BY CardsAre
  <1>6. /\ pool' \in [{Side[p] : p \in Player} -> SUBSET Card] /\ Apart(pool)'
        /\ tunnel' \in {None} \cup [route : Route, pay : SUBSET Card, revealed : SUBSET Card]
    BY CardsAre DEF Apart
  <1>7. /\ market \cup deck \cup discard = Card \ (Revealed \cup InHands \cup InPools)
        /\ market \cap deck = {} /\ market \cap discard = {} /\ deck \cap discard = {}
        /\ Revealed \cap InHands = {} /\ Revealed \cap InPools = {} /\ InHands \cap InPools = {}
    BY <1>1 DEF Cards, Away
  <1>8. market' \cup deck' \cup discard' = Card \ (Revealed' \cup InHands' \cup InPools')
    BY <1>2, <1>3, <1>4, <1>5, <1>7
  <1>9. market' \cap deck' = {} /\ market' \cap discard' = {} /\ deck' \cap discard' = {}
    BY <1>2, <1>5, <1>7
  <1> QED BY <1>3, <1>4, <1>6, <1>7, <1>8, <1>9 DEF Cards, Away

(* A draw goes to the hand of the player on the move, the market having been
   filled from what is left. *)
LEMMA CardsOfDraw ==
  ASSUME Inv, NEW X \in SUBSET Card, X \cap Away = {}, hand' = [hand EXCEPT ![Cur] = @ \cup X],
         market' \cup deck' \cup discard' = (market \cup deck \cup discard) \ X,
         market' \cap deck' = {}, market' \cap discard' = {}, deck' \cap discard' = {},
         UNCHANGED <<pool, tunnel>>
  PROVE  Cards'
PROOF
  <1>1. Cards
    BY DEF Inv
  <1>2. X \cap InHands = {} /\ X \cap InPools = {} /\ X \cap Revealed = {}
    BY DEF Away
  <1>3. hand' \in [Player -> SUBSET Card] /\ Apart(hand)' /\ InHands' = InHands \cup X
    BY <1>2, HandReceives
  <1>4. Revealed' = Revealed /\ InPools' = InPools
    BY DEF Revealed, InPools
  <1>5. /\ pool' \in [{Side[p] : p \in Player} -> SUBSET Card] /\ Apart(pool)'
        /\ tunnel' \in {None} \cup [route : Route, pay : SUBSET Card, revealed : SUBSET Card]
    BY CardsAre DEF Apart
  <1>6. /\ market \cup deck \cup discard = Card \ (Revealed \cup InHands \cup InPools)
        /\ Revealed \cap InHands = {} /\ Revealed \cap InPools = {} /\ InHands \cap InPools = {}
    BY <1>1 DEF Cards, Away
  <1>7. market' \cup deck' \cup discard' = Card \ (Revealed' \cup InHands' \cup InPools')
    BY <1>3, <1>4, <1>6
  <1>8. Revealed' \cap InHands' = {} /\ Revealed' \cap InPools' = {} /\ InHands' \cap InPools' = {}
    BY <1>2, <1>3, <1>4, <1>6
  <1> QED BY <1>3, <1>5, <1>7, <1>8 DEF Cards, Away

LEMMA CardsKept ==
  ASSUME Inv, Next
  PROVE  Cards'
PROOF
  <1> DEFINE piled == market \cup deck \cup discard
  <1>1. /\ Cards /\ piled = Card \ Away
        /\ market \cap deck = {} /\ market \cap discard = {} /\ deck \cap discard = {}
        /\ Revealed \cap InHands = {} /\ Revealed \cap InPools = {} /\ InHands \cap InPools = {}
        /\ Away = Revealed \cup InHands \cup InPools
    BY DEF Inv, Cards, Away
  <1>2. (First \/ Phase("SETUP_TICKETS") \/ Drawing) => tunnel = None /\ Revealed = {}
    BY DEF Inv, Pending, First, Drawing, Phase, Revealed
  <1>3. CASE KeepInitial \/ KeepTickets \/ DrawTickets \/ DryDraw \/ Pass \/ EndGame
    <2>1. UNCHANGED <<deck, discard, market, hand, pool, tunnel>>
      BY <1>3 DEF KeepInitial, KeepTickets, DrawTickets, DryDraw, Pass, EndGame, piles
    <2> QED BY <1>1, <2>1, CardsSame
  <1>4. CASE ClaimRoute \/ BuildStation \/ RepairRoute
    <2>1. PICK pay \in SUBSET hand[Cur] : First /\ Spend(Cur, pay, discard)
      BY <1>4 DEF ClaimRoute, BuildStation, RepairRoute, Bid
    <2>2. UNCHANGED <<deck, market, pool, tunnel>>
      BY <1>4 DEF ClaimRoute, BuildStation, RepairRoute
    <2>3. discard \cup {} = discard
      OBVIOUS
    <2>4. Spend(Cur, pay, discard \cup {}) /\ tunnel' = None /\ Revealed = {}
      BY <1>2, <2>1, <2>2, <2>3
    <2> QED BY <2>2, <2>4, CardsOfSpend
  <1>5. CASE CommitTunnel
    <2>1. PICK extra \in SUBSET (hand[Cur] \ tunnel.pay) :
            Spend(Cur, tunnel.pay \cup extra, discard \cup tunnel.revealed)
      BY <1>5 DEF CommitTunnel
    <2>2. /\ Phase("TUNNEL_PENDING") /\ tunnel' = None /\ UNCHANGED <<deck, market, pool>>
      BY <1>5 DEF CommitTunnel
    <2>3. tunnel # None /\ tunnel.pay \subseteq hand[Cur]
      BY <2>2 DEF Inv, Pending, TunnelOpen
    <2>4. Revealed = tunnel.revealed
      BY <2>3 DEF Revealed
    <2>5. tunnel.pay \cup extra \in SUBSET hand[Cur]
      BY <2>3
    <2> QED BY <2>1, <2>2, <2>4, <2>5, CardsOfSpend
  <1>6. CASE AbortTunnel
    <2>1. /\ Phase("TUNNEL_PENDING") /\ discard' = discard \cup tunnel.revealed /\ tunnel' = None
          /\ UNCHANGED <<deck, market, hand, pool>>
      BY <1>6 DEF AbortTunnel
    <2>2. Revealed = tunnel.revealed /\ Revealed \subseteq Card
      BY <2>1, CardsAre DEF Revealed, Inv, Pending
    <2>3. Revealed' = {} /\ InHands' = InHands /\ InPools' = InPools
      BY <2>1 DEF Revealed, InHands, InPools
    <2>4. Away' = InHands \cup InPools
      BY <2>3 DEF Away
    <2>5. /\ market' \cup deck' \cup discard' = Card \ Away'
          /\ market' \cap deck' = {} /\ market' \cap discard' = {} /\ deck' \cap discard' = {}
      BY <1>1, <2>1, <2>2, <2>4
    <2>6. /\ tunnel' \in {None} \cup [route : Route, pay : SUBSET Card, revealed : SUBSET Card]
          /\ hand' \in [Player -> SUBSET Card] /\ Apart(hand)'
          /\ pool' \in [{Side[p] : p \in Player} -> SUBSET Card] /\ Apart(pool)'
      BY <2>1, CardsAre DEF Apart
    <2> QED BY <1>1, <2>3, <2>5, <2>6 DEF Cards
  <1>7. CASE BeginTunnel
    <2>1. PICK r \in Tunnel, pay \in SUBSET hand[Cur], d \in Drawn(TunnelReveal, deck, discard) :
            /\ Bid(Cur, r, pay) /\ deck' = d.deck /\ discard' = d.discard
            /\ tunnel' = [route |-> r, pay |-> pay, revealed |-> d.took]
            /\ UNCHANGED <<market, hand, pool>>
      BY <1>7 DEF BeginTunnel
    <2>2. Revealed = {}
      BY <1>2, <2>1 DEF Bid
    <2>3. /\ d.took \cup d.deck \cup d.discard = deck \cup discard
          /\ d.took \cap d.deck = {} /\ d.took \cap d.discard = {} /\ d.deck \cap d.discard = {}
      BY <1>1, DrawnIs
    <2>4. tunnel' \in [route : Route, pay : SUBSET Card, revealed : SUBSET Card]
      <3>1. r \in Route /\ pay \in SUBSET Card /\ d.took \in SUBSET Card
        BY <1>1, <2>3, CardsAre, TableAssumption
      <3> QED BY <2>1, <3>1
    <2>5. tunnel' # None
      BY <2>4, BoardAssumption
    <2>6. Revealed' = d.took /\ InHands' = InHands /\ InPools' = InPools
      BY <2>1, <2>5 DEF Revealed, InHands, InPools
    <2>7. Away' = d.took \cup InHands \cup InPools
      BY <2>6 DEF Away
    <2>8. /\ market' \cup deck' \cup discard' = Card \ Away'
          /\ market' \cap deck' = {} /\ market' \cap discard' = {} /\ deck' \cap discard' = {}
          /\ d.took \cap (InHands \cup InPools) = {}
      BY <1>1, <2>1, <2>2, <2>3, <2>7
    <2>9. /\ hand' \in [Player -> SUBSET Card] /\ Apart(hand)'
          /\ pool' \in [{Side[p] : p \in Player} -> SUBSET Card] /\ Apart(pool)'
      BY <2>1, CardsAre DEF Apart
    <2> QED BY <1>1, <2>4, <2>6, <2>8, <2>9 DEF Cards
  <1>8. CASE DrawBlind
    <2>1. PICK d \in Drawn(1, deck, discard) :
            /\ deck' = d.deck /\ discard' = d.discard
            /\ hand' = [hand EXCEPT ![Cur] = @ \cup d.took]
            /\ UNCHANGED <<market, pool, tunnel>>
      BY <1>8 DEF DrawBlind
    <2>2. /\ d.took \cup d.deck \cup d.discard = deck \cup discard
          /\ d.took \cap d.deck = {} /\ d.took \cap d.discard = {} /\ d.deck \cap d.discard = {}
      BY <1>1, DrawnIs
    <2>3. d.took \in SUBSET Card /\ d.took \cap Away = {}
      BY <1>1, <2>2
    <2>4. /\ market' \cup deck' \cup discard' = piled \ d.took
          /\ market' \cap deck' = {} /\ market' \cap discard' = {} /\ deck' \cap discard' = {}
      BY <1>1, <2>1, <2>2
    <2> QED BY <2>1, <2>3, <2>4, CardsOfDraw
  <1>9. CASE DrawFaceup
    <2>1. PICK c \in market :
            \E m \in Refilled([market |-> market \ {c}, deck |-> deck, discard |-> discard]) :
              /\ market' = m.market /\ deck' = m.deck /\ discard' = m.discard
              /\ hand' = [hand EXCEPT ![Cur] = @ \cup {c}]
              /\ UNCHANGED <<pool, tunnel>>
      BY <1>9 DEF DrawFaceup
    <2> DEFINE x == [market |-> market \ {c}, deck |-> deck, discard |-> discard]
               S == piled \ {c}
    <2>2. x \in Tables(S)
      <3>1. (market \ {c}) \cup deck \cup discard = S
        BY <1>1
      <3>2. x \in [market : SUBSET S, deck : SUBSET S, discard : SUBSET S]
        BY <1>1, <3>1
      <3> QED BY <1>1, <3>1, <3>2 DEF Tables
    <2>3. PICK m \in Tables(S) :
            /\ market' = m.market /\ deck' = m.deck /\ discard' = m.discard
            /\ hand' = [hand EXCEPT ![Cur] = @ \cup {c}]
            /\ UNCHANGED <<pool, tunnel>>
      <3> HIDE DEF S
      <3>1. Refilled(x) \subseteq Tables(S)
        BY <2>2, RefilledIs
      <3> QED BY <2>1, <3>1
    <2>4. /\ market' \cup deck' \cup discard' = piled \ {c}
          /\ market' \cap deck' = {} /\ market' \cap discard' = {} /\ deck' \cap discard' = {}
      BY <2>3 DEF Tables
    <2>5. {c} \in SUBSET Card /\ {c} \cap Away = {}
      BY <1>1
    <2> QED BY <2>3, <2>4, <2>5, CardsOfDraw
  <1>10. CASE PushToTeamPool
    <2>1. PICK c \in hand[Cur] :
            /\ hand' = [hand EXCEPT ![Cur] = @ \ {c}]
            /\ pool' = [pool EXCEPT ![Side[Cur]] = @ \cup {c}]
            /\ UNCHANGED <<deck, discard, market, tunnel>>
      BY <1>10 DEF PushToTeamPool, piles
    <2>2. {c} \in SUBSET hand[Cur] /\ c \in InHands /\ c \in Card
      BY CardsAre
    <2>3. hand' \in [Player -> SUBSET Card] /\ Apart(hand)' /\ InHands' = InHands \ {c}
      BY <2>1, <2>2, HandSpends
    <2>4. {c} \in SUBSET Card /\ {c} \cap InPools = {}
      BY <1>1, <2>2
    <2>5. /\ pool' \in [{Side[p] : p \in Player} -> SUBSET Card] /\ Apart(pool)'
          /\ InPools' = InPools \cup {c}
      BY <2>1, <2>4, PoolReceives
    <2>6. Revealed' = Revealed
      BY <2>1 DEF Revealed
    <2>7. Away' = Away
      BY <2>2, <2>3, <2>5, <2>6 DEF Away
    <2>8. Revealed' \cap InHands' = {} /\ Revealed' \cap InPools' = {} /\ InHands' \cap InPools' = {}
      BY <1>1, <2>2, <2>3, <2>5, <2>6
    <2>9. tunnel' \in {None} \cup [route : Route, pay : SUBSET Card, revealed : SUBSET Card]
      BY <2>1, CardsAre
    <2> QED BY <1>1, <2>1, <2>3, <2>5, <2>7, <2>8, <2>9 DEF Cards
  <1>11. CASE TakeFromTeamPool
    <2>1. PICK c \in pool[Side[Cur]] :
            /\ pool' = [pool EXCEPT ![Side[Cur]] = @ \ {c}]
            /\ hand' = [hand EXCEPT ![Cur] = @ \cup {c}]
            /\ UNCHANGED <<deck, discard, market, tunnel>>
      BY <1>11 DEF TakeFromTeamPool, piles
    <2>2. {c} \in SUBSET pool[Side[Cur]] /\ c \in InPools /\ c \in Card
      BY CardsAre
    <2>3. {c} \in SUBSET Card /\ {c} \cap InHands = {}
      BY <1>1, <2>2
    <2>4. hand' \in [Player -> SUBSET Card] /\ Apart(hand)' /\ InHands' = InHands \cup {c}
      BY <2>1, <2>3, HandReceives
    <2>5. /\ pool' \in [{Side[p] : p \in Player} -> SUBSET Card] /\ Apart(pool)'
          /\ InPools' = InPools \ {c}
      BY <2>1, <2>2, PoolGives
    <2>6. Revealed' = Revealed
      BY <2>1 DEF Revealed
    <2>7. Away' = Away
      BY <2>2, <2>4, <2>5, <2>6 DEF Away
    <2>8. Revealed' \cap InHands' = {} /\ Revealed' \cap InPools' = {} /\ InHands' \cap InPools' = {}
      BY <1>1, <2>2, <2>4, <2>5, <2>6
    <2>9. tunnel' \in {None} \cup [route : Route, pay : SUBSET Card, revealed : SUBSET Card]
      BY <2>1, CardsAre
    <2> QED BY <1>1, <2>1, <2>4, <2>5, <2>7, <2>8, <2>9 DEF Cards
  <1> QED BY <1>3, <1>4, <1>5, <1>6, <1>7, <1>8, <1>9, <1>10, <1>11 DEF Next, Play, Productive

-----------------------------------------------------------------------------
(* The opening of a match, and the theorems. *)

(* What the opening offers deal out. *)
LEMMA DealtAreTickets ==
  ASSUME NEW n \in Nat, NEW s \in Seq(Ticket), Len(s) >= n * N, NEW i \in 1..N
  PROVE  Dealt(n, s, i) \in Seq(Ticket) /\ Rest(n * N, s) \in Seq(Ticket)
PROOF
  <1> DEFINE l == Len(s)
             a == n * i
             b == n * (i - 1)
             c == n * N
  <1>1. \A k \in 1..l : s[k] \in Ticket
    BY ElementOfSeq
  <1>2. l \in Nat /\ N \in Nat /\ i - 1 \in Nat /\ N - i \in Nat
    BY Seats
  <1>3. a \in Nat /\ b \in Nat /\ c \in Nat /\ c <= l /\ a <= c
    <2>1. n * (N - i) \in Nat /\ n * i \in Nat /\ n * (i - 1) \in Nat /\ n * N \in Nat
      BY <1>2
    <2>2. n * N = n * i + n * (N - i)
      BY <1>2
    <2> QED BY <2>1, <2>2
  <1> HIDE DEF l, a, b, c
  <1>4. SubSeq(s, l - a + 1, l - b) \in Seq(Ticket)
    <2>1. \A k \in l - a + 1..l - b : s[k] \in Ticket
      BY <1>1, <1>2, <1>3
    <2>2. l - a + 1 \in Int /\ l - b \in Int
      BY <1>2, <1>3
    <2> QED BY <2>1, <2>2, SubSeqProperties
  <1>5. SubSeq(s, 1, l - c) \in Seq(Ticket)
    <2>1. \A k \in 1..l - c : s[k] \in Ticket
      BY <1>1, <1>2, <1>3
    <2>2. 1 \in Int /\ l - c \in Int
      BY <1>2, <1>3
    <2> QED BY <2>1, <2>2, SubSeqProperties
  <1> QED BY <1>4, <1>5 DEF Dealt, Rest, l, a, b, c

LEMMA TurnsOfInit ==
  ASSUME Init
  PROVE  Turns
PROOF
  <1>1. /\ turn = [phase |-> "SETUP_TICKETS", at |-> 0, drawn |-> 0, pushed |-> FALSE]
        /\ repair = [r \in Route |-> None]
        /\ endgame = [triggered |-> FALSE, by |-> -1, left |-> 0] /\ passes = 0
    BY DEF Init
  <1>2. Round
    <2>1. turn \in [phase : Phases, at : 0..N - 1, drawn : 0..1, pushed : BOOLEAN]
      BY <1>1, Seats DEF Phases
    <2>2. endgame \in [triggered : BOOLEAN, by : -1..N - 1, left : 0..N] /\ passes \in 0..N
      BY <1>1, Seats
    <2>3. PassesLeft /\ Trigger /\ FinalRound /\ RailWindow
      BY <1>1, Seats DEF PassesLeft, Trigger, FinalRound, RailWindow
    <2> QED BY <1>1, <2>1, <2>2, <2>3 DEF Round
  <1>3. short \in Seq(Ticket) /\ offer \in [Player -> Seq(Ticket)]
    <2>1. /\ ShortDeck \in Seq(Ticket) /\ LongDeck \in Seq(Ticket)
          /\ InitialShort \in Nat /\ InitialLong \in Nat
          /\ Len(ShortDeck) >= InitialShort * N /\ Len(LongDeck) >= InitialLong * N
      BY TableAssumption, DealAssumption
    <2>2. short \in Seq(Ticket)
      <3>1. 1 \in 1..N
        BY Seats
      <3>2. Rest(InitialShort * N, ShortDeck) \in Seq(Ticket)
        BY <2>1, <3>1, DealtAreTickets
      <3> QED BY <3>2 DEF Init
    <2> DEFINE seat(p) == CHOOSE i \in 1..N : Order[i] = p
               long(p) == Dealt(InitialLong, LongDeck, seat(p))
               brief(p) == Dealt(InitialShort, ShortDeck, seat(p))
    <2>3. offer = [p \in Player |-> long(p) \o brief(p)]
      BY DEF Init
    <2>4. ASSUME NEW p \in Player
          PROVE  long(p) \o brief(p) \in Seq(Ticket)
      <3>1. seat(p) \in 1..N
        BY TableAssumption
      <3> HIDE DEF seat
      <3>2. long(p) \in Seq(Ticket)
        BY <2>1, <3>1, DealtAreTickets
      <3>3. brief(p) \in Seq(Ticket)
        BY <2>1, <3>1, DealtAreTickets
      <3> HIDE DEF long, brief
      <3> QED BY <3>2, <3>3
    <2> HIDE DEF long, brief
    <2> QED BY <2>2, <2>3, <2>4
  <1>4. Asked /\ ~Phase("TICKET_SELECTION") /\ StalledGameEnds
    BY <1>1 DEF Asked, StalledGameEnds, First, Phase
  <1> QED BY <1>2, <1>3, <1>4 DEF Turns

LEMMA NetworkOfInit ==
  ASSUME Init
  PROVE  Network
PROOF
  <1>1. /\ owner = [r \in Route |-> None] /\ station = [c \in City |-> None]
        /\ trains = [p \in Player |-> TrainsStart]
        /\ kept = [p \in Player |-> {}] /\ done = [p \in Player |-> {}]
    BY DEF Init
  <1>2. None \notin Player /\ None # Locked /\ TrainsStart \in Nat
    BY TableAssumption, BoardAssumption
  <1>3. LocksAreRight
    BY <1>1 DEF LocksAreRight
  <1>4. ASSUME NEW r \in Route
        PROVE  /\ Size(Owned(r)) <= OpenTracks(r)
               /\ \A o, u \in Owned(r) : o # u => Side[owner[o]] # Side[owner[u]]
               /\ owner[r] = Locked <=> r \notin Owned(r) /\ Size(Owned(r)) = OpenTracks(r)
    <2>1. Owned(r) = {}
      BY <1>1, <1>2, Groups DEF Owned
    <2>2. Size(Owned(r)) = 0 /\ OpenTracks(r) \in Nat \ {0}
      BY <2>1, OpenOfGroup, FS_EmptySet DEF Size
    <2> QED BY <1>1, <1>2, <2>1, <2>2
  <1>5. ParallelTracks
    BY <1>4, TracksOfGroups
  <1> QED BY <1>1, <1>2, <1>3, <1>5 DEF Network

LEMMA CardsOfInit ==
  ASSUME Init
  PROVE  Cards /\ ~PoolDead
PROOF
  <1> DEFINE out == UNION {hand[p] : p \in Player}
             x == [market |-> {}, deck |-> Card \ out, discard |-> {}]
             S == Card \ out
  <1>1. /\ hand \in [Player -> kSubset(HandStart, Card)]
        /\ \A p, q \in Player : p # q => hand[p] \cap hand[q] = {}
        /\ \E m \in Refilled(x) : deck = m.deck /\ discard = m.discard /\ market = m.market
        /\ pool = [s \in {Side[p] : p \in Player} |-> {}] /\ tunnel = None
    BY DEF Init
  <1>2. hand \in [Player -> SUBSET Card] /\ Apart(hand)
    BY <1>1 DEF Apart, kSubset
  <1>3. x \in Tables(S)
    <2>1. x \in [market : SUBSET S, deck : SUBSET S, discard : SUBSET S]
      <3> HIDE DEF out
      <3> QED OBVIOUS
    <2> HIDE DEF out
    <2> QED BY <2>1 DEF Tables
  <1>4. PICK m \in Tables(S) : deck = m.deck /\ discard = m.discard /\ market = m.market
    <2> HIDE DEF x, S
    <2> QED BY <1>1, <1>3, RefilledIs
  <1> HIDE DEF x
  <1>5. /\ market \cup deck \cup discard = S
        /\ market \cap deck = {} /\ market \cap discard = {} /\ deck \cap discard = {}
    <2> HIDE DEF S
    <2> QED BY <1>4 DEF Tables
  <1>6. /\ pool \in [{Side[p] : p \in Player} -> SUBSET Card] /\ Apart(pool)
        /\ InPools = {} /\ Revealed = {}
    <2> DEFINE D == {Side[p] : p \in Player}
    <2>1. pool = [s \in D |-> {}] /\ InPools = Total(pool, D)
      BY <1>1 DEF InPools
    <2> HIDE DEF D
    <2>2. pool \in [D -> SUBSET Card] /\ Apart(pool) /\ Total(pool, D) = {}
      BY <2>1 DEF Apart, Total
    <2> QED BY <1>1, <2>1, <2>2 DEF D, Revealed
  <1>7. InHands = out
    BY DEF InHands, Total
  <1>8. Card \ Away = S
    <2> HIDE DEF out
    <2> QED BY <1>6, <1>7 DEF Away
  <1>9. ~PoolDead
    <2>1. PICK c \in Card : \A p \in Player : c \notin hand[p]
      BY <1>1, DealAssumption
    <2>2. c \in S
      BY <2>1
    <2> HIDE DEF S
    <2> QED BY <1>5, <2>2 DEF PoolDead
  <1> HIDE DEF S, out
  <1> QED BY <1>1, <1>2, <1>5, <1>6, <1>8, <1>9 DEF Cards

LEMMA InitIsRight ==
  ASSUME Init
  PROVE  Inv
PROOF
  <1>1. Turns /\ Network /\ Cards /\ ~PoolDead
    BY TurnsOfInit, NetworkOfInit, CardsOfInit
  <1>2. /\ turn.phase = "SETUP_TICKETS" /\ tunnel = None /\ ~endgame.triggered
        /\ \A r \in Route : owner[r] = None /\ repair[r] = None
    BY DEF Init
  <1>3. Pending
    BY <1>1, <1>2 DEF Pending, Opening, TunnelOpen, Phase
  <1> QED BY <1>1, <1>3 DEF Inv

LEMMA StutterIsRight ==
  ASSUME Inv, UNCHANGED vars
  PROVE  Inv'
PROOF
  <1>1. /\ UNCHANGED <<turn, deck, discard, market, hand, pool, tunnel, trains, owner, repair, station>>
        /\ UNCHANGED <<short, offer, kept, done, endgame, passes>>
    BY DEF vars, piles, board, tickets, clock
  <1>2. Network' /\ Cards'
    BY <1>1, NetworkSame, CardsSame DEF Inv
  <1>3. Pending'
    BY <1>1 DEF Inv, Pending, Opening, TunnelOpen, Phase, PoolDead, SideHoldsTwin, Holds,
                Teammates, Cur
  <1>4. Round'
    BY <1>1 DEF Inv, Turns, Round, PassesLeft, Trigger, FinalRound, RailWindow, Phase, N
  <1>5. StalledGameEnds'
    BY <1>1 DEF Inv, Turns, StalledGameEnds, First, Phase, PoolDead, CanClaimAnyRoute, Claimable,
                RailOpen, SideHoldsTwin, Holds, Teammates, AffordsPaint, AffordsAny, Locos,
                OfColour, Size
  <1>6. Turns'
    BY <1>1, <1>4, <1>5 DEF Inv, Turns, Asked, Phase, Cur
  <1> QED BY <1>2, <1>3, <1>6 DEF Inv

-----------------------------------------------------------------------------
(* Trains and tickets are conserved. *)

(* The routes of a player, and the trains on them. *)
Tracks(p) == {r \in Route : owner[r] = p}
Laid == \A p \in Player : trains[p] + Sum(Length, Tracks(p)) = TrainsStart

LEMMA LaidIsConserved == Laid <=> TrainsConserved
BY DEF Laid, TrainsConserved, Sum, Tracks

(* The board changes in a claim only. *)
LEMMA Claims ==
  ASSUME Inv, Next
  PROVE  \/ UNCHANGED <<owner, trains>>
         \/ \E r \in Route : /\ owner[r] = None /\ trains[Cur] >= Length[r]
                             /\ Own(Cur, r) /\ LayTrains(Cur, r)
PROOF
  <1>1. CASE ClaimRoute
    <2>1. PICK r \in Route : ClaimEffects(Cur, r) /\ \E pay \in SUBSET hand[Cur] : Bid(Cur, r, pay)
      BY <1>1 DEF ClaimRoute
    <2>2. owner[r] = None /\ trains[Cur] >= Length[r]
      BY <2>1 DEF Bid, Claimable
    <2> QED BY <2>1, <2>2 DEF ClaimEffects
  <1>2. CASE CommitTunnel
    <2>1. Phase("TUNNEL_PENDING") /\ ClaimEffects(Cur, tunnel.route)
      BY <1>2 DEF CommitTunnel
    <2>2. owner[tunnel.route] = None /\ trains[Cur] >= Length[tunnel.route]
      BY <2>1 DEF Inv, Pending, TunnelOpen
    <2>3. tunnel.route \in Route
      BY <2>1, InvIsTyped DEF TypeOK
    <2> QED BY <2>1, <2>2, <2>3 DEF ClaimEffects
  <1>3. CASE KeepInitial \/ KeepTickets \/ DrawTickets \/ PushToTeamPool \/ EndGame
    BY <1>3 DEF KeepInitial, KeepTickets, DrawTickets, PushToTeamPool, EndGame, board
  <1>4. CASE DrawBlind \/ DrawFaceup \/ TakeFromTeamPool \/ DryDraw
    BY <1>4 DEF DrawBlind, DrawFaceup, TakeFromTeamPool, DryDraw
  <1>5. CASE BeginTunnel \/ AbortTunnel
    BY <1>5 DEF BeginTunnel, AbortTunnel, board
  <1>6. CASE BuildStation \/ RepairRoute \/ Pass
    BY <1>6 DEF BuildStation, RepairRoute, Pass
  <1> QED BY <1>1, <1>2, <1>3, <1>4, <1>5, <1>6 DEF Next, Play, Productive

LEMMA LaidOfInit ==
  ASSUME Init
  PROVE  Laid
PROOF
  <1>1. \A p \in Player : Tracks(p) = {} /\ trains[p] = TrainsStart
    BY TableAssumption DEF Init, Tracks
  <1>2. Sum(Length, {}) = 0 /\ TrainsStart \in Nat
    BY SumOfNone, TableAssumption
  <1> QED BY <1>1, <1>2 DEF Laid

LEMMA LaidKept ==
  ASSUME Inv, Laid, Next
  PROVE  Laid'
PROOF
  <1>1. CASE UNCHANGED <<owner, trains>>
    BY <1>1 DEF Laid, Tracks
  <1>2. ASSUME NEW r \in Route, owner[r] = None, trains[Cur] >= Length[r],
               Own(Cur, r), LayTrains(Cur, r)
        PROVE  Laid'
    <2>1. /\ Cur \in Player /\ trains \in [Player -> 0..TrainsStart]
          /\ owner \in [Route -> Player \cup {None, Locked}]
          /\ Length \in [Route -> Nat \ {0}] /\ IsFiniteSet(Route) /\ TrainsStart \in Nat
          /\ None \notin Player /\ Locked \notin Player
      BY InvIsTyped, Seat, TableAssumption DEF TypeOK
    <2>2. /\ owner'[r] = Cur
          /\ \A o \in Route \ {r} : owner'[o] = owner[o] \/ (owner[o] = None /\ owner'[o] = Locked)
      <3> DEFINE shut(o) == /\ o \in Twins[r] /\ owner[o] = None
                            /\ 1 + Size({u \in Twins[r] : owner[u] \in Player}) >= OpenTracks(r)
      <3>1. owner' = [o \in Route |-> IF o = r THEN Cur ELSE IF shut(o) THEN Locked ELSE owner[o]]
        BY <1>2 DEF Own
      <3>2. \A o : shut(o) => owner[o] = None
        OBVIOUS
      <3> HIDE DEF shut
      <3> QED BY <3>1, <3>2
    <2>3. \A p \in Player : Tracks(p)' = IF p = Cur THEN Tracks(p) \cup {r} ELSE Tracks(p)
      BY <1>2, <2>1, <2>2 DEF Tracks
    <2>4. \A p \in Player : trains'[p] = IF p = Cur THEN trains[p] - Length[r] ELSE trains[p]
      BY <1>2, <2>1 DEF LayTrains
    <2>5. /\ Sum(Length, Tracks(Cur)) \in Nat
          /\ Sum(Length, Tracks(Cur) \cup {r}) = Sum(Length, Tracks(Cur)) + Length[r]
      <3>1. Tracks(Cur) \in SUBSET Route /\ r \in Route \ Tracks(Cur)
        BY <1>2, <2>1 DEF Tracks
      <3>2. \A x \in Route : Length[x] \in Nat
        BY <2>1
      <3> QED BY <2>1, <3>1, <3>2, SumOfOneMore
    <2>6. ASSUME NEW p \in Player
          PROVE  trains'[p] + Sum(Length, Tracks(p)') = TrainsStart
      <3>1. trains[p] + Sum(Length, Tracks(p)) = TrainsStart
        BY DEF Laid
      <3>2. CASE p = Cur
        <4>1. trains'[p] + Sum(Length, Tracks(p)') = (trains[p] - Length[r]) + (Sum(Length, Tracks(p)) + Length[r])
          BY <2>3, <2>4, <2>5, <3>2
        <4>2. trains[p] \in Int /\ Length[r] \in Int /\ Sum(Length, Tracks(p)) \in Int
          BY <2>1, <2>5, <3>2
        <4> QED BY <3>1, <4>1, <4>2
      <3>3. CASE p # Cur
        BY <2>3, <2>4, <3>1, <3>3
      <3> QED BY <3>2, <3>3
    <2> QED BY <2>6 DEF Laid
  <1> QED BY <1>1, <1>2, Claims

(* A sequence has ticket t at most once. *)
Once(s, t) == \A i, j \in 1..Len(s) : s[i] = t /\ s[j] = t => i = j

(* Ticket t is in the deck s, in one offer of os, or in one hand of kt. *)
Placed(t, s, os, kt) ==
  \/ /\ t \in InSeq(s)
     /\ \A q \in Player : t \notin InSeq(os[q]) /\ t \notin kt[q]
  \/ /\ t \notin InSeq(s)
     /\ \E p \in Player :
          /\ t \in InSeq(os[p]) /\ t \notin kt[p]
          /\ \A q \in Player \ {p} : t \notin InSeq(os[q]) /\ t \notin kt[q]
  \/ /\ t \notin InSeq(s)
     /\ \E p \in Player :
          /\ t \in kt[p] /\ t \notin InSeq(os[p])
          /\ \A q \in Player \ {p} : t \notin InSeq(os[q]) /\ t \notin kt[q]

(* Ticket t is in one place, and there once. *)
Tracked(t, s, os, kt) ==
  Placed(t, s, os, kt) /\ Once(s, t) /\ \A p \in Player : Once(os[p], t)

Tickets == \A t \in InPlay : Tracked(t, short, offer, kept)

(* A deck is cut in two. *)
LEMMA DeckIsCut ==
  ASSUME NEW s \in Seq(Ticket), NEW n \in 0..Len(s), NEW t, Once(s, t)
  PROVE  /\ Rest(n, s) \in Seq(Ticket) /\ Top(n, s) \in Seq(Ticket)
         /\ Once(Rest(n, s), t) /\ Once(Top(n, s), t)
         /\ t \in InSeq(s) <=> t \in InSeq(Rest(n, s)) \/ t \in InSeq(Top(n, s))
         /\ ~(t \in InSeq(Rest(n, s)) /\ t \in InSeq(Top(n, s)))
PROOF
  <1> DEFINE l == Len(s)
             a == Rest(n, s)
             b == Top(n, s)
  <1>1. l \in Nat /\ n \in 0..l /\ \A i \in 1..l : s[i] \in Ticket
    BY ElementOfSeq
  <1>2. /\ a \in Seq(Ticket) /\ Len(a) = l - n
        /\ \A i \in 1..l - n : a[i] = s[i]
    <2>1. 1 \in Int /\ l - n \in Int /\ \A i \in 1..l - n : s[i] \in Ticket
      BY <1>1
    <2> HIDE DEF l
    <2>2. /\ SubSeq(s, 1, l - n) \in Seq(Ticket)
          /\ Len(SubSeq(s, 1, l - n)) = IF 1 <= l - n THEN (l - n) - 1 + 1 ELSE 0
          /\ \A i \in 1 .. (l - n) - 1 + 1 : SubSeq(s, 1, l - n)[i] = s[1 + i - 1]
      BY <2>1, SubSeqProperties
    <2>3. a = SubSeq(s, 1, l - n)
      BY DEF Rest, l
    <2> QED BY <1>1, <2>2, <2>3
  <1>3. /\ b \in Seq(Ticket) /\ Len(b) = n
        /\ \A i \in 1..n : b[i] = s[l - n + i]
    <2>1. l - n + 1 \in Int /\ l \in Int /\ \A i \in l - n + 1..l : s[i] \in Ticket
      BY <1>1
    <2> HIDE DEF l
    <2>2. /\ SubSeq(s, l - n + 1, l) \in Seq(Ticket)
          /\ Len(SubSeq(s, l - n + 1, l)) = IF l - n + 1 <= l THEN l - (l - n + 1) + 1 ELSE 0
          /\ \A i \in 1 .. l - (l - n + 1) + 1 :
               SubSeq(s, l - n + 1, l)[i] = s[(l - n + 1) + i - 1]
      BY <2>1, SubSeqProperties
    <2>3. b = SubSeq(s, l - n + 1, l)
      BY DEF Top, l
    <2> QED BY <1>1, <2>2, <2>3
  <1> HIDE DEF a, b, l
  <1>4. \A i, j \in 1..l : s[i] = t /\ s[j] = t => i = j
    BY DEF Once, l
  <1>5. (\A i \in 1..l - n : i \in 1..l) /\ \A i \in 1..n : l - n + i \in 1..l
    BY <1>1
  <1>6. Once(a, t)
    <2> SUFFICES ASSUME NEW i \in 1..l - n, NEW j \in 1..l - n, a[i] = t, a[j] = t
                 PROVE  i = j
      BY <1>2 DEF Once
    <2> QED BY <1>2, <1>4, <1>5
  <1>7. Once(b, t)
    <2> SUFFICES ASSUME NEW i \in 1..n, NEW j \in 1..n, b[i] = t, b[j] = t
                 PROVE  i = j
      BY <1>3 DEF Once
    <2>1. l - n + i = l - n + j
      BY <1>3, <1>4, <1>5
    <2> QED BY <1>1, <2>1
  <1>8. /\ t \in InSeq(a) <=> \E i \in 1..l - n : s[i] = t
        /\ t \in InSeq(b) <=> \E i \in 1..n : s[l - n + i] = t
        /\ t \in InSeq(s) <=> \E i \in 1..l : s[i] = t
    <2>1. t \in InSeq(a) <=> \E i \in 1..l - n : a[i] = t
      BY <1>2 DEF InSeq
    <2>2. t \in InSeq(b) <=> \E i \in 1..n : b[i] = t
      BY <1>3 DEF InSeq
    <2>3. t \in InSeq(s) <=> \E i \in 1..l : s[i] = t
      BY DEF InSeq, l
    <2> QED BY <1>2, <1>3, <2>1, <2>2, <2>3
  <1>9. \A i \in 1..l : i \in 1..l - n \/ \E j \in 1..n : i = l - n + j
    <2> SUFFICES ASSUME NEW i \in 1..l, i \notin 1..l - n
                 PROVE  \E j \in 1..n : i = l - n + j
      OBVIOUS
    <2>1. i - (l - n) \in 1..n /\ i = l - n + (i - (l - n))
      BY <1>1
    <2> QED BY <2>1
  <1>10. t \in InSeq(s) <=> t \in InSeq(a) \/ t \in InSeq(b)
    <2>1. t \in InSeq(s) => t \in InSeq(a) \/ t \in InSeq(b)
      BY <1>8, <1>9
    <2> QED BY <1>5, <1>8, <2>1
  <1>11. ~(t \in InSeq(a) /\ t \in InSeq(b))
    <2> SUFFICES ASSUME NEW i \in 1..l - n, NEW j \in 1..n, s[i] = t, s[l - n + j] = t
                 PROVE  FALSE
      BY <1>8
    <2>1. i = l - n + j
      BY <1>4, <1>5
    <2> QED BY <1>1, <2>1
  <1> QED BY <1>2, <1>3, <1>6, <1>7, <1>10, <1>11 DEF a, b

(* What a draw of tickets moves to an offer. *)
LEMMA DrawIsTracked ==
  ASSUME NEW s \in Seq(Ticket), s # <<>>, NEW os \in [Player -> Seq(Ticket)], NEW q \in Player,
         os[q] = <<>>, NEW kt, NEW t, Tracked(t, s, os, kt)
  PROVE  Tracked(t, Rest(Count(s), s), [os EXCEPT ![q] = Top(Count(s), s)], kt)
PROOF
  <1> DEFINE n == Count(s)
             a == Rest(n, s)
             b == Top(n, s)
             ot == [os EXCEPT ![q] = b]
  <1>1. n \in 0..Len(s)
    <2>1. Len(s) \in Nat /\ TicketDraw \in Nat
      BY TableAssumption
    <2>2. Min({TicketDraw, Len(s)}) = IF TicketDraw <= Len(s) THEN TicketDraw ELSE Len(s)
      BY <2>1, MinOfTwo
    <2> QED BY <2>1, <2>2 DEF Count
  <1>2. Once(s, t) /\ Placed(t, s, os, kt) /\ \A p \in Player : Once(os[p], t)
    BY DEF Tracked
  <1> HIDE DEF n
  <1>3. /\ Once(a, t) /\ Once(b, t)
        /\ t \in InSeq(s) <=> t \in InSeq(a) \/ t \in InSeq(b)
        /\ ~(t \in InSeq(a) /\ t \in InSeq(b))
    BY <1>1, <1>2, DeckIsCut
  <1> HIDE DEF a, b
  <1>4. ot[q] = b /\ \A p \in Player \ {q} : ot[p] = os[p]
    OBVIOUS
  <1>5. t \notin InSeq(os[q])
    BY DEF InSeq
  <1> HIDE DEF ot
  <1>6. \A p \in Player : Once(ot[p], t)
    BY <1>2, <1>3, <1>4
  <1>7. Placed(t, a, ot, kt)
    <2>1. CASE t \in InSeq(a)
      BY <1>2, <1>3, <1>4, <2>1 DEF Placed
    <2>2. CASE t \in InSeq(b)
      BY <1>2, <1>3, <1>4, <2>2 DEF Placed
    <2>3. CASE t \notin InSeq(a) /\ t \notin InSeq(b)
      BY <1>2, <1>3, <1>4, <1>5, <2>3 DEF Placed
    <2> QED BY <2>1, <2>2, <2>3
  <1> QED BY <1>3, <1>6, <1>7 DEF Tracked, n, a, b, ot

LEMMA TurnIsTracked ==
  ASSUME TypeOK, NEW s \in Seq(Ticket), NEW os \in [Player -> Seq(Ticket)],
         \A p \in Player : os[p] = <<>>, Handed(s, os), NEW kt, NEW t, Tracked(t, s, os, kt)
  PROVE  Tracked(t, short', offer', kt)
PROOF
  <1> DEFINE q == Order[((turn.at + 1) % N) + 1]
  <1>1. q \in Player
    BY Seat
  <1>2. \/ short' = s /\ offer' = os
        \/ /\ s # <<>> /\ short' = Rest(Count(s), s)
           /\ offer' = [os EXCEPT ![q] = Top(Count(s), s)]
    BY DEF Handed
  <1> HIDE DEF q
  <1> QED BY <1>1, <1>2, DrawIsTracked

-----------------------------------------------------------------------------
(* Tickets that are not kept. *)

(* One deck is put on top of another. *)
LEMMA DecksAreJoined ==
  ASSUME NEW a \in Seq(Ticket), NEW b \in Seq(Ticket), NEW t, Once(a, t), Once(b, t),
         ~(t \in InSeq(a) /\ t \in InSeq(b))
  PROVE  /\ Once(a \o b, t)
         /\ t \in InSeq(a \o b) <=> t \in InSeq(a) \/ t \in InSeq(b)
PROOF
  <1> DEFINE c == a \o b
             l == Len(a)
             m == Len(b)
  <1>1. /\ l \in Nat /\ m \in Nat /\ Len(c) = l + m
        /\ \A i \in 1..l + m : c[i] = IF i <= l THEN a[i] ELSE b[i - l]
    BY ConcatProperties
  <1>2. /\ t \in InSeq(a) <=> \E i \in 1..l : a[i] = t
        /\ t \in InSeq(b) <=> \E i \in 1..m : b[i] = t
    BY DEF InSeq
  <1>3. t \in InSeq(c) <=> \E i \in 1..l + m : c[i] = t
    BY <1>1 DEF InSeq
  <1>4. \A i, j \in 1..l : a[i] = t /\ a[j] = t => i = j
    BY DEF Once
  <1>5. \A i, j \in 1..m : b[i] = t /\ b[j] = t => i = j
    BY DEF Once
  <1> HIDE DEF c, l, m
  <1>6. \A i \in 1..l + m : i \in 1..l \/ (~(i <= l) /\ i - l \in 1..m)
    BY <1>1
  <1>7. (\A i \in 1..l : i \in 1..l + m) /\ \A i \in 1..m : l + i \in 1..l + m /\ ~(l + i <= l) /\ (l + i) - l = i
    BY <1>1
  <1>8. t \in InSeq(c) <=> t \in InSeq(a) \/ t \in InSeq(b)
    <2>1. ASSUME NEW i \in 1..l + m, c[i] = t
          PROVE  t \in InSeq(a) \/ t \in InSeq(b)
      <3>1. CASE i <= l
        <4>1. i \in 1..l /\ a[i] = t
          BY <1>1, <1>6, <2>1, <3>1
        <4> QED BY <1>2, <4>1
      <3>2. CASE ~(i <= l)
        <4>1. i - l \in 1..m /\ b[i - l] = t
          BY <1>1, <1>6, <2>1, <3>2
        <4> QED BY <1>2, <4>1
      <3> QED BY <3>1, <3>2
    <2>2. ASSUME NEW i \in 1..l, a[i] = t
          PROVE  t \in InSeq(c)
      <3>1. i \in 1..l + m /\ i <= l
        BY <1>1
      <3> QED BY <1>1, <1>3, <2>2, <3>1
    <2>3. ASSUME NEW i \in 1..m, b[i] = t
          PROVE  t \in InSeq(c)
      <3>1. c[l + i] = t /\ l + i \in 1..l + m
        BY <1>1, <1>7, <2>3
      <3> QED BY <1>3, <3>1
    <2> QED BY <1>2, <1>3, <2>1, <2>2, <2>3
  <1>9. Once(c, t)
    <2> SUFFICES ASSUME NEW i \in 1..l + m, NEW j \in 1..l + m, c[i] = t, c[j] = t
                 PROVE  i = j
      BY <1>1 DEF Once
    <2>1. CASE i <= l /\ j <= l
      <3>1. i \in 1..l /\ j \in 1..l /\ a[i] = t /\ a[j] = t
        BY <1>1, <1>6, <2>1
      <3> QED BY <1>4, <3>1
    <2>2. CASE ~(i <= l) /\ ~(j <= l)
      <3>1. i - l \in 1..m /\ j - l \in 1..m /\ b[i - l] = t /\ b[j - l] = t
        BY <1>1, <1>6, <2>2
      <3>2. i - l = j - l
        BY <1>5, <3>1
      <3> QED BY <1>1, <3>2
    <2>3. ASSUME NEW x \in 1..l + m, NEW y \in 1..l + m, c[x] = t, c[y] = t, x <= l, ~(y <= l)
          PROVE  FALSE
      <3>1. x \in 1..l /\ a[x] = t /\ y - l \in 1..m /\ b[y - l] = t
        BY <1>1, <1>6, <2>3
      <3> QED BY <1>2, <3>1
    <2> QED BY <2>1, <2>2, <2>3
  <1> QED BY <1>8, <1>9 DEF c

LEMMA NotKeptAre ==
  ASSUME NEW os \in Seq(Ticket), NEW keep, NEW left, NotKept(os, keep, left), NEW t, Once(os, t)
  PROVE  /\ left[Len(os)] \in Seq(Ticket) /\ Once(left[Len(os)], t)
         /\ t \in InSeq(left[Len(os)]) <=> t \in InSeq(os) /\ t \notin keep
PROOF
  <1> DEFINE n == Len(os)
             Before(k) == \E i \in 1 .. k : os[i] = t
             Good(k) == /\ Once(left[k], t)
                        /\ t \in InSeq(left[k]) <=> Before(k) /\ t \notin keep
             Bad == {k \in Nat : k <= n /\ ~Good(k)}
  <1>1. n \in Nat /\ \A i \in 1 .. n : os[i] \in Ticket
    BY ElementOfSeq
  <1>2. /\ left \in [0 .. n -> Seq(Ticket)] /\ left[0] = <<>>
        /\ \A k \in 1 .. n :
             left[k] = IF os[k] \in keep THEN left[k - 1] ELSE Append(left[k - 1], os[k])
    BY DEF NotKept
  <1>3. \A i, j \in 1 .. n : os[i] = t /\ os[j] = t => i = j
    BY DEF Once
  <1>4. ASSUME Bad # {}
        PROVE  FALSE
    <2> HIDE DEF Good, n
    <2>1. Bad \in SUBSET Nat
      OBVIOUS
    <2>2. PICK k \in Bad : \A j \in Bad : k <= j
      BY <1>4, <2>1, LeastNatural
    <2>3. CASE k = 0
      <3>1. Once(left[0], t) /\ t \notin InSeq(left[0]) /\ ~Before(0)
        BY <1>2 DEF Once, InSeq
      <3> HIDE DEF Before
      <3> QED BY <2>2, <2>3, <3>1 DEF Good
    <2>4. CASE k # 0
      <3> DEFINE x == left[k - 1]
                 e == os[k]
      <3>1. k \in 1 .. n /\ k - 1 \in Nat /\ k - 1 <= n /\ k - 1 < k /\ k - 1 \in 0 .. n /\ k \in Nat
        BY <1>1, <2>2, <2>4
      <3>2. Good(k - 1)
        BY <2>2, <3>1
      <3>3. /\ Once(x, t) /\ x \in Seq(Ticket) /\ e \in Ticket
            /\ t \in InSeq(x) <=> Before(k - 1) /\ t \notin keep
        BY <1>1, <1>2, <3>1, <3>2 DEF Good
      <3>4. Before(k) <=> Before(k - 1) \/ e = t
        <4>1. \A i \in 1 .. k : i \in 1 .. k - 1 \/ i = k
          BY <3>1
        <4>2. (\A i \in 1 .. k - 1 : i \in 1 .. k) /\ k \in 1 .. k
          BY <3>1
        <4> QED BY <4>1, <4>2
      <3>5. e = t => ~Before(k - 1)
        <4>1. \A i \in 1 .. k - 1 : i \in 1 .. n /\ i # k
          BY <1>1, <3>1
        <4> QED BY <1>3, <3>1, <4>1
      <3> HIDE DEF Before
      <3>6. CASE e \in keep
        <4>1. left[k] = x
          BY <1>2, <3>1, <3>6
        <4> HIDE DEF x, e
        <4>2. Good(k)
          BY <3>3, <3>4, <3>6, <4>1 DEF Good
        <4> QED BY <2>2, <4>2
      <3>7. CASE e \notin keep
        <4>1. left[k] = Append(x, e)
          BY <1>2, <3>1, <3>7
        <4> HIDE DEF x, e
        <4>2. left[k] = x \o <<e>>
          BY <3>3, <4>1, AppendIsConcat
        <4>3. <<e>> \in Seq(Ticket) /\ Once(<<e>>, t) /\ (t \in InSeq(<<e>>) <=> t = e)
          BY <3>3 DEF Once, InSeq
        <4>4. /\ Once(left[k], t)
              /\ t \in InSeq(left[k]) <=> t \in InSeq(x) \/ t = e
          <5>1. ~(t \in InSeq(x) /\ t \in InSeq(<<e>>))
            BY <3>3, <3>5, <4>3
          <5> DEFINE b == <<e>>
          <5>2. b \in Seq(Ticket) /\ Once(b, t) /\ (t \in InSeq(b) <=> t = e) /\ left[k] = x \o b
                /\ ~(t \in InSeq(x) /\ t \in InSeq(b))
            BY <4>2, <4>3, <5>1
          <5> HIDE DEF b
          <5> QED BY <3>3, <5>2, DecksAreJoined
        <4>5. Good(k)
          BY <3>3, <3>4, <3>7, <4>4 DEF Good
        <4> QED BY <2>2, <4>5
      <3> QED BY <3>6, <3>7
    <2> QED BY <2>3, <2>4
  <1>5. Good(n)
    <2>1. n \in Nat /\ n <= n
      BY <1>1
    <2> HIDE DEF n, Good
    <2> QED BY <1>4, <2>1
  <1>6. left[n] \in Seq(Ticket)
    <2>1. n \in 0 .. n
      BY <1>1
    <2> QED BY <1>2, <2>1
  <1>7. t \in InSeq(os) <=> Before(n)
    BY DEF InSeq
  <1> QED BY <1>5, <1>6, <1>7

(* What is kept goes to the hand, and the rest under the deck. *)
LEMMA KeepIsTracked ==
  ASSUME NEW s \in Seq(Ticket), NEW os \in [Player -> Seq(Ticket)], NEW p \in Player,
         NEW kt \in [Player -> SUBSET Ticket], NEW keep \in SUBSET Ticket,
         keep \subseteq InSeq(os[p]), NEW t, Tracked(t, s, os, kt)
  PROVE  Tracked(t, Returned(os[p], keep, s), [os EXCEPT ![p] = <<>>], [kt EXCEPT ![p] = @ \cup keep])
PROOF
  <1> DEFINE o == os[p]
             R == Returned(o, keep, s)
             ot == [os EXCEPT ![p] = <<>>]
             nt == [kt EXCEPT ![p] = @ \cup keep]
  <1>1. o \in Seq(Ticket) /\ Once(o, t) /\ Once(s, t) /\ Placed(t, s, os, kt)
        /\ \A q \in Player : Once(os[q], t)
    BY DEF Tracked
  <1>2. ~(t \in InSeq(o) /\ t \in InSeq(s))
    BY <1>1 DEF Placed
  <1>3. /\ Once(R, t)
        /\ t \in InSeq(R) <=> t \in InSeq(s) \/ (t \in InSeq(o) /\ t \notin keep)
    <2> HIDE DEF o, R
    <2>1. PICK left : NotKept(o, keep, left) /\ Returned(o, keep, s) = left[Len(o)] \o s
      BY <1>1, ReturnedIs
    <2>2. /\ left[Len(o)] \in Seq(Ticket) /\ Once(left[Len(o)], t)
          /\ t \in InSeq(left[Len(o)]) <=> t \in InSeq(o) /\ t \notin keep
      BY <1>1, <2>1, NotKeptAre
    <2> DEFINE a == left[Len(o)]
    <2>3. a \in Seq(Ticket) /\ Once(a, t) /\ R = a \o s
          /\ (t \in InSeq(a) <=> t \in InSeq(o) /\ t \notin keep)
      BY <2>1, <2>2 DEF R
    <2> HIDE DEF a
    <2>4. ~(t \in InSeq(a) /\ t \in InSeq(s))
      BY <1>2, <2>3
    <2>5. Once(R, t) /\ (t \in InSeq(R) <=> t \in InSeq(a) \/ t \in InSeq(s))
      BY <1>1, <2>3, <2>4, DecksAreJoined
    <2> QED BY <2>3, <2>5
  <1>4. /\ t \notin InSeq(ot[p]) /\ Once(ot[p], t)
        /\ \A q \in Player \ {p} : ot[q] = os[q]
    BY DEF InSeq, Once
  <1>5. /\ nt[p] = kt[p] \cup keep
        /\ \A q \in Player \ {p} : nt[q] = kt[q]
    OBVIOUS
  <1>6. t \in keep => t \in InSeq(o)
    OBVIOUS
  <1>7. \A q \in Player : Once(ot[q], t)
    <2> HIDE DEF ot
    <2> QED BY <1>1, <1>4
  <1>8. Placed(t, R, ot, nt)
    <2> HIDE DEF R, ot, nt
    <2>1. CASE t \in InSeq(s)
      BY <1>1, <1>3, <1>4, <1>5, <1>6, <2>1 DEF Placed
    <2>2. CASE t \in InSeq(o) /\ t \in keep
      BY <1>1, <1>2, <1>3, <1>4, <1>5, <2>2 DEF Placed
    <2>3. CASE t \in InSeq(o) /\ t \notin keep
      BY <1>1, <1>2, <1>3, <1>4, <1>5, <2>3 DEF Placed
    <2>4. CASE t \notin InSeq(s) /\ t \notin InSeq(o)
      <3>1. t \notin InSeq(R) /\ t \notin keep
        BY <1>3, <1>6, <2>4
      <3>2. /\ \A q \in Player : t \in InSeq(ot[q]) <=> t \in InSeq(os[q])
            /\ \A q \in Player : t \in nt[q] <=> t \in kt[q]
        BY <1>4, <1>5, <2>4, <3>1
      <3> QED BY <1>1, <2>4, <3>1, <3>2 DEF Placed
    <2> QED BY <2>1, <2>2, <2>3, <2>4
  <1> QED BY <1>3, <1>7, <1>8 DEF Tracked

(* Tickets are kept in answer to an offer only. *)
LEMMA Answers ==
  ASSUME Next, ~KeepInitial, ~KeepTickets
  PROVE  UNCHANGED kept
PROOF
  <1>1. CASE ClaimRoute \/ CommitTunnel
    BY <1>1 DEF ClaimRoute, CommitTunnel, ClaimEffects
  <1>2. CASE DrawTickets \/ PushToTeamPool \/ EndGame
    BY <1>2 DEF DrawTickets, PushToTeamPool, EndGame, tickets
  <1>3. CASE DrawBlind \/ DrawFaceup \/ TakeFromTeamPool \/ DryDraw
    BY <1>3 DEF DrawBlind, DrawFaceup, TakeFromTeamPool, DryDraw
  <1>4. CASE BeginTunnel \/ AbortTunnel
    BY <1>4 DEF BeginTunnel, AbortTunnel, tickets
  <1>5. CASE BuildStation \/ RepairRoute \/ Pass
    BY <1>5 DEF BuildStation, RepairRoute, Pass
  <1> QED BY <1>1, <1>2, <1>3, <1>4, <1>5 DEF Next, Play, Productive

LEMMA TicketsKept ==
  ASSUME Inv, Tickets, Next
  PROVE  Tickets'
PROOF
  <1>1. /\ TypeOK /\ PassesLeft /\ Asked /\ Cur \in Player
        /\ short \in Seq(Ticket) /\ offer \in [Player -> Seq(Ticket)]
        /\ kept \in [Player -> SUBSET Ticket]
    BY InvIsTyped, Seat DEF TypeOK
  <1>2. turn.phase \in {"AWAIT_ACTION", "DRAWING_CARDS", "TUNNEL_PENDING"} =>
          \A p \in Player : offer[p] = <<>>
    BY <1>1 DEF Asked
  <1> SUFFICES ASSUME NEW t \in InPlay
               PROVE  Tracked(t, short', offer', kept')
    BY DEF Tickets
  <1>3. Tracked(t, short, offer, kept)
    BY DEF Tickets
  <1>4. CASE KeepInitial
    <2>1. PICK p \in Player, keep \in SUBSET Ticket :
            /\ keep \subseteq InSeq(offer[p])
            /\ kept' = [kept EXCEPT ![p] = @ \cup keep]
            /\ offer' = [offer EXCEPT ![p] = <<>>]
            /\ short' = Returned(offer[p], keep, short)
      BY <1>4 DEF KeepInitial
    <2> QED BY <1>1, <1>3, <2>1, KeepIsTracked
  <1>5. CASE KeepTickets
    <2> DEFINE os == [offer EXCEPT ![Cur] = <<>>]
    <2>1. PICK keep \in SUBSET InSeq(offer[Cur]) :
            /\ Phase("TICKET_SELECTION")
            /\ kept' = [kept EXCEPT ![Cur] = @ \cup keep]
            /\ EndTurn(FALSE, repair, Returned(offer[Cur], keep, short), os)
      BY <1>5 DEF KeepTickets
    <2> DEFINE sh == Returned(offer[Cur], keep, short)
    <2>2. \A p \in Player \ {Cur} : offer[p] = <<>>
      BY <1>1, <2>1 DEF Asked
    <2>3. os \in [Player -> Seq(Ticket)] /\ \A p \in Player : os[p] = <<>>
      <3>1. <<>> \in Seq(Ticket)
        OBVIOUS
      <3> QED BY <1>1, <2>2, <3>1
    <2>4. sh \in Seq(Ticket)
      BY <1>1, ReturnedAreTickets
    <2>5. keep \in SUBSET Ticket
      BY <1>1, ElementOfSeq DEF InSeq
    <2>6. Tracked(t, sh, os, kept')
      BY <1>1, <1>3, <2>1, <2>5, KeepIsTracked
    <2>7. ~Phase("GAME_OVER") /\ FALSE \in BOOLEAN
      BY <2>1 DEF Phase
    <2> HIDE DEF os, sh
    <2>8. Handed(sh, os)
      <3>1. EndTurn(FALSE, repair, sh, os)
        BY <2>1 DEF sh
      <3> QED BY <1>1, <2>7, <3>1, EndTurnIs
    <2> QED BY <1>1, <2>3, <2>4, <2>6, <2>8, TurnIsTracked
  <1>6. CASE DrawTickets
    <2>1. /\ First /\ short # <<>> /\ short' = Rest(Count(short), short)
          /\ offer' = [offer EXCEPT ![Cur] = Top(Count(short), short)]
          /\ UNCHANGED kept
      BY <1>6 DEF DrawTickets
    <2>2. offer[Cur] = <<>>
      BY <1>1, <1>2, <2>1 DEF First, Phase
    <2> QED BY <1>1, <1>3, <2>1, <2>2, DrawIsTracked
  <1>7. ASSUME turn.phase \in {"AWAIT_ACTION", "DRAWING_CARDS", "TUNNEL_PENDING"},
               ~KeepInitial, ~KeepTickets,
               NEW wasPass \in BOOLEAN, NEW rails, EndTurn(wasPass, rails, short, offer)
        PROVE  Tracked(t, short', offer', kept')
    <2>1. ~Phase("GAME_OVER") /\ \A p \in Player : offer[p] = <<>>
      BY <1>2, <1>7 DEF Phase
    <2>2. Handed(short, offer)
      BY <1>1, <1>7, <2>1, EndTurnIs
    <2>3. kept' = kept
      BY <1>7, Answers
    <2> QED BY <1>1, <1>3, <2>1, <2>2, <2>3, TurnIsTracked
  <1>8. CASE /\ ~KeepInitial /\ ~KeepTickets
             /\ UNCHANGED <<short, offer>>
    <2>1. kept' = kept
      BY <1>8, Answers
    <2> QED BY <1>3, <1>8, <2>1
  <1>9. PushToTeamPool => UNCHANGED <<short, offer>>
    BY DEF PushToTeamPool, tickets
  <1> QED BY <1>1, <1>4, <1>5, <1>6, <1>7, <1>8, <1>9, StepsOfTurn DEF TurnStep, SameRound

(* Tracking a ticket is counting it once. *)
LEMMA TrackedIsOne ==
  ASSUME NEW t, NEW s, NEW os, NEW kt, Tracked(t, s, os, kt)
  PROVE  Size({i \in 1..Len(s) : s[i] = t})
           + Size({p \in Player : t \in InSeq(os[p])})
           + Size({p \in Player : t \in kt[p]}) = 1
PROOF
  <1> DEFINE I == {i \in 1..Len(s) : s[i] = t}
             O == {p \in Player : t \in InSeq(os[p])}
             K == {p \in Player : t \in kt[p]}
  <1>1. Size({}) = 0
    BY FS_EmptySet DEF Size
  <1>2. \A x : Size({x}) = 1
    BY FS_Singleton DEF Size
  <1>3. /\ t \in InSeq(s) <=> I # {}
        /\ \A i, j \in I : i = j
    BY DEF Tracked, Once, InSeq
  <1>4. Placed(t, s, os, kt)
    BY DEF Tracked
  <1>5. CASE t \in InSeq(s)
    <2>1. PICK i \in I : TRUE
      BY <1>3, <1>5
    <2>2. I = {i}
      BY <1>3, <2>1
    <2>3. O = {} /\ K = {}
      BY <1>4, <1>5 DEF Placed
    <2> HIDE DEF I, O, K
    <2>4. Size(I) = 1 /\ Size(O) = 0 /\ Size(K) = 0
      BY <1>1, <1>2, <2>2, <2>3
    <2> QED BY <2>4 DEF I, O, K
  <1>6. CASE t \notin InSeq(s)
    <2>1. I = {}
      BY <1>3, <1>6
    <2>2. \/ K = {} /\ \E p : O = {p}
          \/ O = {} /\ \E p : K = {p}
      <3>1. ASSUME NEW p \in Player, t \in InSeq(os[p]), t \notin kt[p],
                   \A q \in Player \ {p} : t \notin InSeq(os[q]) /\ t \notin kt[q]
            PROVE  K = {} /\ O = {p}
        BY <3>1
      <3>2. ASSUME NEW p \in Player, t \in kt[p], t \notin InSeq(os[p]),
                   \A q \in Player \ {p} : t \notin InSeq(os[q]) /\ t \notin kt[q]
            PROVE  O = {} /\ K = {p}
        BY <3>2
      <3> HIDE DEF O, K
      <3> QED BY <1>4, <1>6, <3>1, <3>2 DEF Placed
    <2> HIDE DEF I, O, K
    <2>3. CASE K = {} /\ \E p : O = {p}
      <3>1. Size(I) = 0 /\ Size(O) = 1 /\ Size(K) = 0
        BY <1>1, <1>2, <2>1, <2>3
      <3> QED BY <3>1 DEF I, O, K
    <2>4. CASE O = {} /\ \E p : K = {p}
      <3>1. Size(I) = 0 /\ Size(O) = 0 /\ Size(K) = 1
        BY <1>1, <1>2, <2>1, <2>4
      <3> QED BY <3>1 DEF I, O, K
    <2> QED BY <2>2, <2>3, <2>4
  <1> QED BY <1>5, <1>6

LEMMA TicketsAreConserved ==
  ASSUME Tickets
  PROVE  TicketsConserved
BY TrackedIsOne DEF Tickets, TicketsConserved

(* A seat of the order is one player's. *)
LEMMA SeatsAreSingle ==
  ASSUME NEW i \in 1..N, NEW j \in 1..N, Order[i] = Order[j]
  PROVE  i = j
PROOF
  <1>1. IsFiniteSet(1..N) /\ Cardinality(1..N) = N
    BY Seats, FS_Interval
  <1>2. Order \in Surjection(1..N, Player)
    <2>1. Order \in [1..N -> Player]
      BY TableAssumption DEF N
    <2> QED BY <2>1, TableAssumption DEF Surjection
  <1>3. Order \in Injection(1..N, Player)
    BY <1>1, <1>2, TableAssumption, FS_Surjection
  <1> QED BY <1>3, Seats DEF Injection, IsInjective

(* The i-th deal is what lies between the deals before it and the rest. *)
LEMMA DealtIs ==
  ASSUME NEW n \in Nat, NEW s \in Seq(Ticket), Len(s) >= n * N, NEW i \in 1..N
  PROVE  /\ Dealt(n, s, i) \in Seq(Ticket) /\ Len(Dealt(n, s, i)) = n
         /\ \A k \in 1..n : /\ Len(s) - n * i + k \in 1..Len(s)
                            /\ Dealt(n, s, i)[k] = s[Len(s) - n * i + k]
PROOF
  <1> DEFINE l == Len(s)
             a == n * i
             b == n * (i - 1)
  <1>1. \A k \in 1..l : s[k] \in Ticket
    BY ElementOfSeq
  <1>2. l \in Nat /\ N \in Nat /\ i - 1 \in Nat /\ N - i \in Nat
    BY Seats
  <1>3. a \in Nat /\ b \in Nat /\ a <= l /\ a = b + n
    <2>1. n * (N - i) \in Nat /\ n * i \in Nat /\ n * (i - 1) \in Nat /\ n * N \in Nat
      BY <1>2
    <2>2. n * N = n * i + n * (N - i) /\ n * i = n * (i - 1) + n
      BY <1>2
    <2> QED BY <2>1, <2>2
  <1> HIDE DEF l, a, b
  <1>4. l - a + 1 \in Int /\ l - b \in Int /\ \A k \in l - a + 1..l - b : s[k] \in Ticket
    BY <1>1, <1>2, <1>3
  <1>5. /\ SubSeq(s, l - a + 1, l - b) \in Seq(Ticket)
        /\ Len(SubSeq(s, l - a + 1, l - b)) =
             IF l - a + 1 <= l - b THEN (l - b) - (l - a + 1) + 1 ELSE 0
        /\ \A k \in 1 .. (l - b) - (l - a + 1) + 1 :
             SubSeq(s, l - a + 1, l - b)[k] = s[(l - a + 1) + k - 1]
    BY <1>4, SubSeqProperties
  <1>6. Dealt(n, s, i) = SubSeq(s, l - a + 1, l - b)
    BY DEF Dealt, l, a, b
  <1>7. /\ (l - b) - (l - a + 1) + 1 = n
        /\ \A k \in 1..n : l - a + k \in 1..l /\ (l - a + 1) + k - 1 = l - a + k
    BY <1>2, <1>3
  <1>8. Len(Dealt(n, s, i)) = n
    BY <1>2, <1>3, <1>5, <1>6
  <1>9. \A k \in 1..n : l - a + k \in 1..l /\ Dealt(n, s, i)[k] = s[l - a + k]
    BY <1>5, <1>6, <1>7
  <1> QED BY <1>5, <1>6, <1>8, <1>9 DEF l, a

(* A ticket that is not in the rest of its deck is in one deal. *)
LEMMA OneDeal ==
  ASSUME NEW n \in Nat, NEW l \in Nat, l >= n * N, NEW j \in 1..l, j > l - n * N
  PROVE  \E i \in 1..N : /\ j \in l - n * i + 1 .. l - n * i + n
                         /\ \A k \in 1..N : j \in l - n * k + 1 .. l - n * k + n => k = i
PROOF
  <1> DEFINE T == {i \in Nat : j > l - n * i}
  <1>1. T # {} /\ T \in SUBSET Nat
    BY Seats
  <1>2. PICK i \in T : \A k \in T : i <= k
    BY <1>1, LeastNatural
  <1>3. i # 0
    BY <1>2
  <1>4. i \in 1..N
    <2>1. N \in T
      BY Seats
    <2> QED BY <1>2, <1>3, <2>1, Seats
  <1>5. i - 1 \in Nat /\ i - 1 \notin T
    <2>1. i - 1 \in Nat /\ ~(i <= i - 1)
      BY <1>4, Seats
    <2> QED BY <1>2, <2>1
  <1>6. n * i \in Nat /\ n * (i - 1) \in Nat /\ n * i = n * (i - 1) + n
    BY <1>5
  <1>7. j \in l - n * i + 1 .. l - n * i + n
    BY <1>2, <1>5, <1>6
  <1>8. ASSUME NEW k \in 1..N, j \in l - n * k + 1 .. l - n * k + n
        PROVE  k = i
    <2>1. k \in Nat /\ n * k \in Nat /\ i \in Nat
      BY <1>4, Seats
    <2>2. i <= k
      BY <1>2, <1>8, <2>1
    <2>3. CASE i < k
      <3>1. k - 1 - i \in Nat
        BY <2>1, <2>3
      <3>2. n * (k - 1 - i) \in Nat /\ n * k = n * i + n * (k - 1 - i) + n
        BY <2>1, <3>1
      <3>3. j <= l - n * k + n /\ j > l - n * i
        BY <1>2, <1>8, <2>1
      <3> QED BY <1>6, <2>1, <3>2, <3>3
    <2> QED BY <2>1, <2>2, <2>3
  <1> QED BY <1>4, <1>7, <1>8

-----------------------------------------------------------------------------
(* The tickets that are dealt. *)

(* A deal of a deck has the j-th ticket of it once or not at all. *)
LEMMA DealtHas ==
  ASSUME NEW n \in Nat, NEW s \in Seq(Ticket), Len(s) >= n * N, NEW j \in 1..Len(s),
         \A x \in 1..Len(s) : s[x] = s[j] => x = j, NEW i \in 1..N
  PROVE  /\ Dealt(n, s, i) \in Seq(Ticket)
         /\ Once(Dealt(n, s, i), s[j])
         /\ s[j] \in InSeq(Dealt(n, s, i)) <=>
              j \in Len(s) - n * i + 1 .. Len(s) - n * i + n
PROOF
  <1> DEFINE l == Len(s)
             d == Dealt(n, s, i)
             t == s[j]
             a == n * i
  <1>1. /\ d \in Seq(Ticket) /\ Len(d) = n
        /\ \A k \in 1..n : l - a + k \in 1..l /\ d[k] = s[l - a + k]
    BY DealtIs
  <1>2. l \in Nat /\ a \in Nat
    BY Seats
  <1>3. \A x \in 1..l : s[x] = t => x = j
    OBVIOUS
  <1> HIDE DEF l, d, t, a
  <1>4. \A k \in 1..n : d[k] = t => l - a + k = j
    BY <1>1, <1>3
  <1>5. Once(d, t)
    <2> SUFFICES ASSUME NEW x \in 1..n, NEW y \in 1..n, d[x] = t, d[y] = t
                 PROVE  x = y
      BY <1>1 DEF Once
    <2>1. l - a + x = j /\ l - a + y = j
      BY <1>4
    <2> QED BY <1>2, <2>1
  <1>6. t \in InSeq(d) <=> \E k \in 1..n : d[k] = t
    BY <1>1 DEF InSeq
  <1>7. ASSUME j \in l - a + 1 .. l - a + n
        PROVE  t \in InSeq(d)
    <2>1. j - (l - a) \in 1..n /\ l - a + (j - (l - a)) = j
      BY <1>2, <1>7
    <2>2. d[j - (l - a)] = s[j]
      BY <1>1, <2>1
    <2> QED BY <1>6, <2>1, <2>2 DEF t
  <1>8. ASSUME t \in InSeq(d)
        PROVE  j \in l - a + 1 .. l - a + n
    <2>1. PICK k \in 1..n : d[k] = t
      BY <1>6, <1>8
    <2>2. l - a + k = j
      BY <1>4, <2>1
    <2> QED BY <1>2, <2>1, <2>2
  <1> QED BY <1>1, <1>5, <1>7, <1>8 DEF l, d, t, a

(* A deal of a deck has no ticket of another. *)
LEMMA DealHasNot ==
  ASSUME NEW n \in Nat, NEW s \in Seq(Ticket), Len(s) >= n * N, NEW t,
         \A x \in 1..Len(s) : s[x] # t, NEW i \in 1..N
  PROVE  Dealt(n, s, i) \in Seq(Ticket) /\ t \notin InSeq(Dealt(n, s, i))
PROOF
  <1> DEFINE d == Dealt(n, s, i)
             a == Len(s) - n * i
  <1>1. /\ d \in Seq(Ticket) /\ Len(d) = n
        /\ \A k \in 1..n : a + k \in 1..Len(s) /\ d[k] = s[a + k]
    BY DealtIs
  <1> HIDE DEF d, a
  <1>2. t \notin InSeq(d)
    BY <1>1 DEF InSeq
  <1> QED BY <1>1, <1>2 DEF d

(* Both decks are large enough for their deals. *)
LEMMA DealsFit ==
  /\ InitialShort \in Nat /\ ShortDeck \in Seq(Ticket) /\ Len(ShortDeck) >= InitialShort * N
  /\ InitialLong \in Nat /\ LongDeck \in Seq(Ticket) /\ Len(LongDeck) >= InitialLong * N
BY TableAssumption, DealAssumption

(* The opening deals, for the seat of each player, and the deck they leave. *)
SeatOf(p) == CHOOSE i \in 1..N : Order[i] = p
LEMMA FirstDeal ==
  ASSUME Init
  PROVE  /\ offer = [p \in Player |-> Dealt(InitialLong, LongDeck, SeatOf(p))
                                        \o Dealt(InitialShort, ShortDeck, SeatOf(p))]
         /\ kept = [p \in Player |-> {}] /\ short = Rest(InitialShort * N, ShortDeck)
         /\ \A p \in Player : SeatOf(p) \in 1..N /\ Order[SeatOf(p)] = p
         /\ \A i \in 1..N : Order[i] \in Player /\ SeatOf(Order[i]) = i
PROOF
  <1>1. \A p \in Player : SeatOf(p) \in 1..N /\ Order[SeatOf(p)] = p
    BY TableAssumption DEF SeatOf
  <1>2. \A i \in 1..N : Order[i] \in Player
    BY Seats
  <1>3. \A i \in 1..N : SeatOf(Order[i]) = i
    BY <1>1, <1>2, SeatsAreSingle
  <1> QED BY <1>1, <1>2, <1>3 DEF Init, SeatOf

(* What is left of the deck keeps its places. *)
LEMMA LeftOfDeck ==
  ASSUME Init
  PROVE  LET b == Len(ShortDeck) - InitialShort * N IN
         /\ InitialShort * N \in 0..Len(ShortDeck) /\ b \in Nat /\ Len(short) = b
         /\ \A k \in 1..b : k \in 1..Len(ShortDeck) /\ short[k] = ShortDeck[k]
PROOF
  <1> DEFINE n == InitialShort
             l == Len(ShortDeck)
             b == l - n * N
  <1>1. n \in Nat /\ l \in Nat /\ n * N \in Nat /\ n * N <= l /\ ShortDeck \in Seq(Ticket)
    BY DealsFit, Seats
  <1>2. \A k \in 1..b : ShortDeck[k] \in Ticket
    BY <1>1, ElementOfSeq
  <1>3. 1 \in Int /\ b \in Int /\ b \in Nat
    BY <1>1
  <1>4. /\ Len(SubSeq(ShortDeck, 1, b)) = IF 1 <= b THEN b - 1 + 1 ELSE 0
        /\ \A k \in 1 .. b - 1 + 1 : SubSeq(ShortDeck, 1, b)[k] = ShortDeck[1 + k - 1]
    <2> HIDE DEF b
    <2> QED BY <1>2, <1>3, SubSeqProperties
  <1>5. short = SubSeq(ShortDeck, 1, b)
    BY FirstDeal DEF Rest
  <1> QED BY <1>1, <1>3, <1>4, <1>5

(* A ticket of the deck is in it still, or in one offer. *)
LEMMA ShortOfInit ==
  ASSUME Init, NEW t \in InSeq(ShortDeck)
  PROVE  Tracked(t, short, offer, kept)
PROOF
  <1> DEFINE n == InitialShort
             l == Len(ShortDeck)
             long(p) == Dealt(InitialLong, LongDeck, SeatOf(p))
             brief(p) == Dealt(n, ShortDeck, SeatOf(p))
             At(i, j) == j \in l - n * i + 1 .. l - n * i + n
  <1>1. PICK j \in 1..l : t = ShortDeck[j]
    BY DEF InSeq
  <1>2. n \in Nat /\ l \in Nat /\ n * N \in Nat /\ n * N <= l /\ ShortDeck \in Seq(Ticket)
    BY DealsFit, Seats
  <1>3. \A x \in 1..l : ShortDeck[x] = t => x = j
    BY <1>1, TicketAssumption
  <1>4. ASSUME NEW p \in Player
        PROVE  Once(offer[p], t) /\ (t \in InSeq(offer[p]) <=> At(SeatOf(p), j))
    <2>1. /\ brief(p) \in Seq(Ticket) /\ Once(brief(p), t)
          /\ t \in InSeq(brief(p)) <=> At(SeatOf(p), j)
      BY <1>1, <1>3, FirstDeal, DealsFit, DealtHas
    <2>2. long(p) \in Seq(Ticket) /\ t \notin InSeq(long(p))
      <3>1. \A x \in 1..Len(LongDeck) : LongDeck[x] # t
        BY <1>1, TicketAssumption
      <3> QED BY <3>1, FirstDeal, DealsFit, DealHasNot
    <2>3. Once(long(p), t)
      BY <2>2 DEF Once, InSeq
    <2>4. offer[p] = long(p) \o brief(p)
      BY FirstDeal
    <2> HIDE DEF At, long, brief
    <2> QED BY <2>1, <2>2, <2>3, <2>4, DecksAreJoined
  <1>5. Once(short, t) /\ (t \in InSeq(short) <=> j <= l - n * N)
    <2> DEFINE b == l - n * N
    <2>1. b \in Nat /\ Len(short) = b /\ \A k \in 1..b : k \in 1..l /\ short[k] = ShortDeck[k]
      BY LeftOfDeck
    <2> HIDE DEF b, l
    <2>2. Once(short, t)
      BY <1>3, <2>1 DEF Once
    <2>3. t \in InSeq(short) <=> \E k \in 1..b : short[k] = t
      BY <2>1 DEF InSeq
    <2>4. t \in InSeq(short) <=> j \in 1..b
      BY <1>1, <1>3, <2>1, <2>3
    <2> QED BY <1>2, <2>1, <2>2, <2>4 DEF b
  <1>6. CASE j <= l - n * N
    <2>1. ASSUME NEW p \in Player
          PROVE  ~At(SeatOf(p), j)
      <3> DEFINE i == SeatOf(p)
      <3>1. i \in 1..N
        BY FirstDeal
      <3> HIDE DEF i
      <3>2. N - i \in Nat /\ i \in Nat /\ N \in Nat
        BY <3>1, Seats
      <3>3. n * (N - i) \in Nat /\ n * i \in Nat /\ n * N = n * i + n * (N - i)
        BY <1>2, <3>2
      <3>4. j < l - n * i + 1
        BY <1>2, <1>6, <3>3
      <3> QED BY <1>2, <3>3, <3>4 DEF i
    <2>2. \A p \in Player : t \notin InSeq(offer[p]) /\ t \notin kept[p]
      BY <1>4, <2>1, FirstDeal
    <2>3. t \in InSeq(short)
      BY <1>5, <1>6
    <2> QED BY <1>4, <1>5, <2>2, <2>3 DEF Tracked, Placed
  <1>7. CASE j > l - n * N
    <2>1. PICK i \in 1..N : At(i, j) /\ \A k \in 1..N : At(k, j) => k = i
      BY <1>2, <1>7, OneDeal
    <2> DEFINE p == Order[i]
    <2>2. p \in Player /\ SeatOf(p) = i
      BY FirstDeal
    <2>3. t \in InSeq(offer[p])
      BY <1>4, <2>1, <2>2
    <2>4. ASSUME NEW q \in Player \ {p}
          PROVE  t \notin InSeq(offer[q])
      <3>1. SeatOf(q) # i /\ SeatOf(q) \in 1..N
        BY FirstDeal
      <3> QED BY <1>4, <2>1, <3>1
    <2>5. \A q \in Player : t \notin kept[q]
      BY FirstDeal
    <2>6. t \notin InSeq(short)
      BY <1>2, <1>5, <1>7
    <2> HIDE DEF p
    <2> QED BY <1>4, <1>5, <2>2, <2>3, <2>4, <2>5, <2>6 DEF Tracked, Placed
  <1> QED BY <1>2, <1>6, <1>7

(* A long ticket that was dealt is in one offer. *)
LEMMA LongOfInit ==
  ASSUME Init, NEW i \in 1..N, NEW t \in InSeq(Dealt(InitialLong, LongDeck, i))
  PROVE  Tracked(t, short, offer, kept)
PROOF
  <1> DEFINE n == InitialLong
             l == Len(LongDeck)
             long(p) == Dealt(n, LongDeck, SeatOf(p))
             brief(p) == Dealt(InitialShort, ShortDeck, SeatOf(p))
             At(k, j) == j \in l - n * k + 1 .. l - n * k + n
  <1>1. n \in Nat /\ l \in Nat /\ n * N \in Nat /\ n * N <= l /\ LongDeck \in Seq(Ticket)
    BY DealsFit, Seats
  <1>2. PICK j \in 1..l : t = LongDeck[j] /\ At(i, j)
    <2>1. /\ Len(Dealt(n, LongDeck, i)) = n
          /\ \A k \in 1..n : /\ l - n * i + k \in 1..l
                             /\ Dealt(n, LongDeck, i)[k] = LongDeck[l - n * i + k]
      BY <1>1, DealtIs
    <2>2. PICK k \in 1..n : t = Dealt(n, LongDeck, i)[k]
      BY <2>1 DEF InSeq
    <2>3. n * i \in Nat
      BY <1>1
    <2> DEFINE x == l - n * i + k
    <2>4. x \in 1..l /\ t = LongDeck[x]
      BY <2>1, <2>2
    <2>5. At(i, x)
      BY <1>1, <2>3
    <2> HIDE DEF x, At
    <2> QED BY <2>4, <2>5
  <1>3. \A x \in 1..l : LongDeck[x] = t => x = j
    BY <1>2, TicketAssumption
  <1>4. \A x \in 1..Len(ShortDeck) : ShortDeck[x] # t
    BY <1>2, TicketAssumption
  <1>5. ASSUME NEW p \in Player
        PROVE  Once(offer[p], t) /\ (t \in InSeq(offer[p]) <=> At(SeatOf(p), j))
    <2>1. /\ long(p) \in Seq(Ticket) /\ Once(long(p), t)
          /\ t \in InSeq(long(p)) <=> At(SeatOf(p), j)
      BY <1>2, <1>3, FirstDeal, DealsFit, DealtHas
    <2>2. brief(p) \in Seq(Ticket) /\ t \notin InSeq(brief(p))
      BY <1>4, FirstDeal, DealsFit, DealHasNot
    <2>3. Once(brief(p), t)
      BY <2>2 DEF Once, InSeq
    <2>4. offer[p] = long(p) \o brief(p)
      BY FirstDeal
    <2> HIDE DEF At, long, brief
    <2> QED BY <2>1, <2>2, <2>3, <2>4, DecksAreJoined
  <1>6. t \notin InSeq(short) /\ Once(short, t)
    <2>1. \A k \in 1..Len(short) : k \in 1..Len(ShortDeck) /\ short[k] = ShortDeck[k]
      BY LeftOfDeck
    <2> QED BY <1>4, <2>1 DEF InSeq, Once
  <1>7. \A k \in 1..N : At(k, j) => k = i
    <2>1. n * i \in Nat /\ n * (N - i) \in Nat /\ n * N = n * i + n * (N - i)
      <3>1. i \in Nat /\ N - i \in Nat /\ N \in Nat
        BY Seats
      <3> QED BY <1>1, <3>1
    <2>2. j > l - n * N
      BY <1>1, <1>2, <2>1
    <2> QED BY <1>1, <1>2, <2>2, OneDeal
  <1> DEFINE p == Order[i]
  <1>8. p \in Player /\ SeatOf(p) = i
    BY FirstDeal
  <1>9. t \in InSeq(offer[p])
    BY <1>2, <1>5, <1>8
  <1>10. ASSUME NEW q \in Player \ {p}
         PROVE  t \notin InSeq(offer[q])
    <2>1. SeatOf(q) # i /\ SeatOf(q) \in 1..N
      BY FirstDeal
    <2> QED BY <1>5, <1>7, <2>1
  <1>11. \A q \in Player : t \notin kept[q]
    BY FirstDeal
  <1> HIDE DEF p
  <1> QED BY <1>5, <1>6, <1>8, <1>9, <1>10, <1>11 DEF Tracked, Placed

LEMMA TicketsOfInit ==
  ASSUME Init
  PROVE  Tickets
BY ShortOfInit, LongOfInit DEF Tickets, InPlay

(* The trains and the tickets, which no other invariant rests on. *)
Stock == Laid /\ Tickets

-----------------------------------------------------------------------------
(* What a mirror of the reducer may count, and what it wants. *)

(* Of a hand S, n cards can be paid, f of them locomotives: with locomotives
   alone, or with the cards of a colour x allows. *)
Suffices(S, n, x) ==
  \/ Size(Locos(S)) >= n
  \/ \E y \in Colour : (x = Gray \/ y = x) /\ Size(OfColour(S, y)) + Size(Locos(S)) >= n

LEMMA HandIsFinite ==
  ASSUME NEW S \in SUBSET Card
  PROVE  IsFiniteSet(S) /\ Size(S) \in Nat /\ \A T \in SUBSET S : IsFiniteSet(T) /\ Size(T) \in Nat /\ Size(T) <= Size(S)
PROOF
  <1>1. IsFiniteSet(S)
    BY TableAssumption, FS_Subset
  <1>2. \A T \in SUBSET S : IsFiniteSet(T) /\ Cardinality(T) <= Cardinality(S)
    BY <1>1, FS_Subset
  <1> QED BY <1>1, <1>2, FS_CardinalityType DEF Size

LEMMA SizeOfTwo ==
  ASSUME NEW A \in SUBSET Card, NEW B \in SUBSET Card, A \cap B = {}
  PROVE  Size(A \cup B) = Size(A) + Size(B)
PROOF
  <1>1. IsFiniteSet(A) /\ IsFiniteSet(B) /\ Cardinality(A) \in Nat /\ Cardinality(B) \in Nat
    BY HandIsFinite DEF Size
  <1>2. Cardinality(A \cap B) = 0
    BY FS_EmptySet
  <1>3. Cardinality(A \cup B) = Cardinality(A) + Cardinality(B) - Cardinality(A \cap B)
    BY <1>1, FS_Union
  <1> QED BY <1>1, <1>2, <1>3 DEF Size

(* Enough to count is enough to pay. *)
LEMMA EnoughToPay ==
  ASSUME NEW S \in SUBSET Card, NEW n \in Nat, NEW f \in Nat, NEW x \in Colour \cup {Gray},
         f <= n, f <= Size(Locos(S)), Suffices(S, n, x)
  PROVE  \E pay \in SUBSET S : Pays(pay, n, f, x)
PROOF
  <1> DEFINE L == Locos(S)
  <1>1. L \in SUBSET Card /\ IsFiniteSet(L) /\ Size(L) \in Nat
    BY HandIsFinite DEF Locos
  <1>2. CASE Size(L) >= n
    <2>1. PICK pay \in SUBSET L : Cardinality(pay) = n
      BY <1>1, <1>2, PartOfSize DEF Size
    <2>2. pay \in SUBSET S /\ Locos(pay) = pay
      BY DEF Locos
    <2>3. Pays(pay, n, f, x)
      BY <2>1, <2>2 DEF Pays, Size
    <2> QED BY <2>2, <2>3
  <1>3. CASE ~(Size(L) >= n)
    <2>1. PICK y \in Colour : (x = Gray \/ y = x) /\ Size(OfColour(S, y)) + Size(L) >= n
      BY <1>3 DEF Suffices
    <2> DEFINE D == OfColour(S, y)
    <2>2. D \in SUBSET Card /\ IsFiniteSet(D) /\ Size(D) \in Nat
      BY HandIsFinite DEF OfColour
    <2>3. n - Size(L) \in Nat /\ n - Size(L) <= Size(D)
      BY <1>1, <1>3, <2>1, <2>2
    <2>4. PICK R \in SUBSET D : Cardinality(R) = n - Size(L)
      BY <2>2, <2>3, PartOfSize DEF Size
    <2>5. \A c \in R : c \in S /\ Hue[c] = y /\ y # Loco
      BY TableAssumption DEF OfColour
    <2>6. L \cap R = {} /\ R \in SUBSET Card /\ L \cup R \in SUBSET S
      BY <2>5 DEF Locos
    <2>7. Size(L \cup R) = n
      BY <1>1, <2>4, <2>6, SizeOfTwo DEF Size
    <2>8. Locos(L \cup R) = L /\ (L \cup R) \ Locos(L \cup R) = R
      BY <2>5, <2>6 DEF Locos
    <2>9. Pays(L \cup R, n, f, x)
      <3>1. /\ \A c, d \in R : Hue[c] = Hue[d]
            /\ x # Gray => \A c \in R : Hue[c] = x
        BY <2>1, <2>5
      <3> DEFINE pay == L \cup R
      <3>2. Size(pay) = n /\ Locos(pay) = L /\ pay \ Locos(pay) = R /\ Size(L) >= f
        BY <2>7, <2>8, <1>1
      <3> HIDE DEF L, pay
      <3>3. Pays(pay, n, f, x)
        BY <3>1, <3>2 DEF Pays
      <3> QED BY <3>3 DEF pay
    <2> QED BY <2>6, <2>9
  <1> QED BY <1>2, <1>3

(* What can be paid was counted. *)
LEMMA PaidWasEnough ==
  ASSUME NEW S \in SUBSET Card, NEW n \in Nat, NEW f \in Nat, NEW x \in Colour \cup {Gray},
         NEW pay \in SUBSET S, Pays(pay, n, f, x)
  PROVE  f <= n /\ f <= Size(Locos(S)) /\ Suffices(S, n, x)
PROOF
  <1> DEFINE L == Locos(pay)
             R == pay \ L
  <1>1. /\ L \in SUBSET Locos(S) /\ L \in SUBSET Card /\ R \in SUBSET Card /\ L \cap R = {} /\ L \cup R = pay
        /\ Locos(S) \in SUBSET Card
    BY DEF Locos
  <1>2. Size(pay) = n /\ Size(L) >= f
    BY DEF Pays
  <1>3. n = Size(L) + Size(R) /\ Size(L) \in Nat /\ Size(R) \in Nat
    <2> HIDE DEF L, R
    <2> QED BY <1>1, <1>2, SizeOfTwo, HandIsFinite
  <1>4. Size(L) <= Size(Locos(S)) /\ Size(Locos(S)) \in Nat
    BY <1>1, HandIsFinite
  <1>5. f <= n /\ f <= Size(Locos(S))
    <2> HIDE DEF L, R
    <2> QED BY <1>2, <1>3, <1>4
  <1>6. CASE R = {}
    <2>1. Size(R) = 0
      BY <1>6, FS_EmptySet DEF Size
    <2>2. Size(Locos(S)) >= n
      <3> HIDE DEF L, R
      <3> QED BY <1>3, <1>4, <2>1
    <2> QED BY <1>5, <2>2 DEF Suffices
  <1>7. CASE R # {}
    <2>1. PICK c \in R : TRUE
      BY <1>7
    <2> DEFINE y == Hue[c]
    <2>2. c \in Card /\ y \in Colour
      BY <1>1, <2>1, TableAssumption DEF Locos
    <2>3. \A d \in R : d \in S /\ Hue[d] = y
      BY <2>1 DEF Pays
    <2>4. x = Gray \/ y = x
      BY <2>1 DEF Pays
    <2>5. R \in SUBSET OfColour(S, y) /\ OfColour(S, y) \in SUBSET Card
      BY <2>3 DEF OfColour
    <2>6. Size(R) <= Size(OfColour(S, y)) /\ Size(OfColour(S, y)) \in Nat
      <3> HIDE DEF R, y
      <3> QED BY <2>5, HandIsFinite
    <2>7. Size(OfColour(S, y)) + Size(Locos(S)) >= n
      <3> HIDE DEF L, R, y
      <3> QED BY <1>3, <1>4, <2>6
    <2> QED BY <1>5, <2>2, <2>4, <2>7 DEF Suffices
  <1> QED BY <1>6, <1>7

(* The mirror counts just that. *)
LEMMA AffordsIs ==
  ASSUME NEW p, NEW n \in Nat, NEW x \in Colour \cup {Gray}
  PROVE  /\ AffordsPaint(p, n, x) <=> Suffices(hand[p], n, x)
         /\ AffordsAny(p, n) <=> Suffices(hand[p], n, Gray)
PROOF
  <1>1. Gray \notin Colour
    BY TableAssumption
  <1> QED BY <1>1 DEF AffordsPaint, AffordsAny, Suffices

LEMMA AffordsIsPays ==
  ASSUME NEW p, hand[p] \in SUBSET Card, NEW n \in Nat, NEW x \in Colour \cup {Gray}
  PROVE  /\ AffordsPaint(p, n, x) <=> \E pay \in SUBSET hand[p] : Pays(pay, n, 0, x)
         /\ AffordsAny(p, n) <=> \E pay \in SUBSET hand[p] : Pays(pay, n, 0, Gray)
PROOF
  <1> DEFINE S == hand[p]
  <1>1. Size(Locos(S)) \in Nat
    BY HandIsFinite DEF Locos
  <1>2. 0 <= n /\ 0 <= Size(Locos(S)) /\ 0 \in Nat
    BY <1>1
  <1> HIDE DEF S
  <1>3. S \in SUBSET Card
    BY DEF S
  <1>4. ASSUME NEW y \in Colour \cup {Gray}
        PROVE  Suffices(S, n, y) <=> \E pay \in SUBSET S : Pays(pay, n, 0, y)
    BY <1>2, <1>3, EnoughToPay, PaidWasEnough
  <1> QED BY <1>4, AffordsIs DEF S

(* However few cards there are, a draw is possible: it takes what there is, and
   no more than it wants. *)
LEMMA DrawIsPossible ==
  ASSUME NEW n \in Nat, NEW dk \in SUBSET Card, NEW dc \in SUBSET Card, dk \cap dc = {}
  PROVE  /\ Drawn(n, dk, dc) # {}
         /\ n > 0 /\ dk \cup dc # {} => \E d \in Drawn(n, dk, dc) : d.took # {}
         /\ \A d \in Drawn(n, dk, dc) : d.took \in SUBSET Card /\ Size(d.took) <= n
PROOF
  <1>1. IsFiniteSet(dk) /\ IsFiniteSet(dc) /\ Size(dk) \in Nat /\ Size(dc) \in Nat
    BY HandIsFinite
  <1>2. CASE n <= Size(dk)
    <2>1. Drawn(n, dk, dc) = {[took |-> s, deck |-> dk \ s, discard |-> dc] : s \in kSubset(n, dk)}
      BY <1>2 DEF Drawn
    <2>2. PICK s \in SUBSET dk : Cardinality(s) = n
      BY <1>1, <1>2, PartOfSize DEF Size
    <2>3. s \in kSubset(n, dk)
      BY <2>2 DEF kSubset
    <2> DEFINE d == [took |-> s, deck |-> dk \ s, discard |-> dc]
    <2>4. d \in Drawn(n, dk, dc) /\ d.took = s
      BY <2>1, <2>3
    <2>5. n > 0 => s # {}
      BY <2>2, FS_EmptySet
    <2>6. ASSUME NEW e \in Drawn(n, dk, dc)
          PROVE  e.took \in SUBSET Card /\ Size(e.took) <= n
      <3>1. PICK u \in kSubset(n, dk) : e = [took |-> u, deck |-> dk \ u, discard |-> dc]
        BY <2>1, <2>6
      <3>2. u \in SUBSET dk /\ Cardinality(u) = n
        BY DEF kSubset
      <3> QED BY <3>1, <3>2 DEF Size
    <2> HIDE DEF d
    <2> QED BY <2>4, <2>5, <2>6
  <1>3. CASE ~(n <= Size(dk))
    <2> DEFINE k == Min({n - Size(dk), Size(dc)})
    <2>1. /\ k = IF n - Size(dk) <= Size(dc) THEN n - Size(dk) ELSE Size(dc)
          /\ k \in Nat /\ k <= Size(dc) /\ k <= n - Size(dk)
      <3>1. n - Size(dk) \in Int /\ Size(dc) \in Int /\ n - Size(dk) \in Nat
        BY <1>1, <1>3
      <3>2. k = IF n - Size(dk) <= Size(dc) THEN n - Size(dk) ELSE Size(dc)
        BY <3>1, MinOfTwo
      <3> HIDE DEF k
      <3> QED BY <1>1, <1>3, <3>1, <3>2
    <2>2. Drawn(n, dk, dc) = {[took |-> dk \cup s, deck |-> dc \ s, discard |-> {}] : s \in kSubset(k, dc)}
      BY <1>3 DEF Drawn
    <2> HIDE DEF k
    <2>3. PICK s \in SUBSET dc : Cardinality(s) = k
      BY <1>1, <2>1, PartOfSize DEF Size
    <2>4. s \in kSubset(k, dc)
      BY <2>3 DEF kSubset
    <2> DEFINE d == [took |-> dk \cup s, deck |-> dc \ s, discard |-> {}]
    <2>5. d \in Drawn(n, dk, dc) /\ d.took = dk \cup s
      BY <2>2, <2>4
    <2>6. dk \cup dc # {} => dk \cup s # {}
      <3>1. ASSUME dk = {}, dc # {}
            PROVE  s # {}
        <4>1. Size(dk) = 0 /\ Size(dc) # 0
          BY <1>1, <3>1, FS_EmptySet DEF Size
        <4>2. k # 0
          BY <1>1, <1>3, <2>1, <4>1
        <4> QED BY <2>3, <4>2, FS_EmptySet
      <3> QED BY <3>1
    <2>7. ASSUME NEW e \in Drawn(n, dk, dc)
          PROVE  e.took \in SUBSET Card /\ Size(e.took) <= n
      <3>1. PICK u \in kSubset(k, dc) : e = [took |-> dk \cup u, deck |-> dc \ u, discard |-> {}]
        BY <2>2, <2>7
      <3>2. u \in SUBSET dc /\ Size(u) = k
        BY DEF kSubset, Size
      <3>3. Size(dk \cup u) = Size(dk) + Size(u)
        BY <3>2, SizeOfTwo
      <3> QED BY <1>1, <1>3, <2>1, <3>1, <3>2, <3>3
    <2> HIDE DEF d
    <2> QED BY <2>5, <2>6, <2>7
  <1> QED BY <1>2, <1>3

(* The market is never larger than its size. *)
Small(S) == {m \in Tables(S) : Size(m.market) <= MarketSize}

LEMMA FilledIsPossible ==
  ASSUME NEW S \in SUBSET Card, NEW m \in Small(S)
  PROVE  Filled(m) # {} /\ Filled(m) \subseteq Small(S)
PROOF
  <1>1. /\ m \in Tables(S) /\ Size(m.market) <= MarketSize
        /\ m.market \in SUBSET Card /\ m.deck \in SUBSET Card /\ m.discard \in SUBSET Card
        /\ m.market \cap m.deck = {} /\ m.market \cap m.discard = {} /\ m.deck \cap m.discard = {}
    BY DEF Small, Tables
  <1> DEFINE n == MarketSize - Size(m.market)
  <1>2. n \in Nat /\ Size(m.market) \in Nat
    <2>1. Size(m.market) \in Nat /\ MarketSize \in Nat
      BY <1>1, HandIsFinite, TableAssumption
    <2> QED BY <1>1, <2>1
  <1> HIDE DEF n
  <1>3. /\ Drawn(n, m.deck, m.discard) # {}
        /\ \A d \in Drawn(n, m.deck, m.discard) : d.took \in SUBSET Card /\ Size(d.took) <= n
    BY <1>1, <1>2, DrawIsPossible
  <1>4. Filled(m) = {[market |-> m.market \cup d.took, deck |-> d.deck, discard |-> d.discard] :
                       d \in Drawn(n, m.deck, m.discard)}
    BY DEF Filled, n
  <1>5. Filled(m) # {} /\ Filled(m) \subseteq Tables(S)
    BY <1>1, <1>3, <1>4, FilledIs
  <1>6. ASSUME NEW x \in Filled(m)
        PROVE  Size(x.market) <= MarketSize
    <2>1. PICK d \in Drawn(n, m.deck, m.discard) :
            x = [market |-> m.market \cup d.took, deck |-> d.deck, discard |-> d.discard]
      BY <1>4, <1>6
    <2>2. d.took \cap m.market = {}
      <3>1. d.took \cup d.deck \cup d.discard = m.deck \cup m.discard
        BY <1>1, DrawnIs
      <3> QED BY <1>1, <3>1
    <2>3. Size(m.market \cup d.took) = Size(m.market) + Size(d.took) /\ Size(d.took) <= n /\ Size(d.took) \in Nat
      BY <1>1, <1>3, <2>2, SizeOfTwo, HandIsFinite
    <2>4. Size(m.market \cup d.took) <= MarketSize
      BY <1>2, <2>3, TableAssumption DEF n
    <2> QED BY <2>1, <2>4
  <1> QED BY <1>5, <1>6 DEF Small

LEMMA SweptIsPossible ==
  ASSUME NEW S \in SUBSET Card, NEW m \in Small(S)
  PROVE  Swept(m) # {} /\ Swept(m) \subseteq Small(S)
PROOF
  <1> DEFINE x == [market |-> {}, deck |-> m.deck, discard |-> m.discard \cup m.market]
  <1>1. x \in Tables(S)
    BY DEF Small, Tables
  <1>2. Size({}) <= MarketSize
    BY FS_EmptySet, TableAssumption DEF Size
  <1>3. x \in Small(S)
    BY <1>1, <1>2 DEF Small
  <1> HIDE DEF x
  <1>4. Filled(x) # {} /\ Filled(x) \subseteq Small(S)
    BY <1>3, FilledIsPossible
  <1> QED BY <1>4 DEF Swept, x

LEMMA RefilledIsPossible ==
  ASSUME NEW S \in SUBSET Card, NEW m \in Small(S)
  PROVE  Refilled(m) # {} /\ Refilled(m) \subseteq Small(S)
PROOF
  <1> DEFINE T == (SUBSET Small(S)) \ {{}}
  <1>1. Filled(m) \in T
    BY FilledIsPossible
  <1>2. ASSUME NEW X \in T
        PROVE  OneRound(X) \in T
    <2> DEFINE Next1(x) == IF Stale(x) THEN Swept(x) ELSE {x}
    <2>1. \A x \in X : Next1(x) # {} /\ Next1(x) \subseteq Small(S)
      BY SweptIsPossible
    <2>2. OneRound(X) = UNION {Next1(x) : x \in X}
      BY DEF OneRound
    <2>3. X # {}
      OBVIOUS
    <2> HIDE DEF Next1
    <2> QED BY <2>1, <2>2, <2>3
  <1> HIDE DEF T
  <1>3. Refilled(m) \in T
    BY <1>1, <1>2, RefillKeeps
  <1> QED BY <1>3 DEF T

-----------------------------------------------------------------------------
(* The mirror of the reducer. *)

(* Without teams nothing is in a pool, and the market is not overfull. *)
PoolsAreTeams == ~TeamGame => \A s \in DOMAIN pool : pool[s] = {}
MarketFits == Size(market) <= MarketSize

(* What the mirror is right about. *)
LEMMA MirrorIsRight ==
  ASSUME First, PoolsAreTeams, MarketFits, Cur \in Player,
         hand \in [Player -> SUBSET Card], pool \in [{Side[p] : p \in Player} -> SUBSET Card],
         deck \in SUBSET Card, discard \in SUBSET Card, market \in SUBSET Card,
         market \cap deck = {}, market \cap discard = {}, deck \cap discard = {}
  PROVE  HasAnyLegalMove(Cur) <=> CanAct
PROOF
  <1>1. hand[Cur] \in SUBSET Card /\ Side[Cur] \in DOMAIN pool /\ Drawing
    BY DEF Drawing
  <1>2. Built(Cur) \in Nat
    <2>1. IsFiniteSet({c \in City : station[c] = Cur})
      BY TableAssumption, FS_Subset
    <2> QED BY <2>1, FS_CardinalityType DEF Built, Size
  <1>3. ASSUME NEW r \in Route
        PROVE  /\ Paint[r] \in Colour \cup {Gray} /\ Length[r] \in Nat /\ Ferry[r] \in Nat /\ Broken[r] \in Nat
    BY TableAssumption
  <1>4. MayBuild(Cur) <=> CanBuild
    <2>1. Built(Cur) + 1 \in Nat /\ Gray \in Colour \cup {Gray}
      BY <1>2
    <2>2. AffordsAny(Cur, Built(Cur) + 1) <=> \E pay \in SUBSET hand[Cur] : Pays(pay, Built(Cur) + 1, 0, Gray)
      BY <1>1, <2>1, AffordsIsPays
    <2> QED BY <2>2 DEF MayBuild, CanBuild
  <1>5. MayRepair(Cur) <=> CanRepair
    <2>1. ASSUME NEW r \in Route
          PROVE  AffordsPaint(Cur, Broken[r], Paint[r]) <=>
                   \E pay \in SUBSET hand[Cur] : Pays(pay, Broken[r], 0, Paint[r])
      BY <1>1, <1>3, AffordsIsPays
    <2> QED BY <2>1 DEF MayRepair, CanRepair
  <1>6. CanClaimAnyRoute(Cur) <=> CanClaim
    <2>1. ASSUME NEW r \in Route
          PROVE  (/\ Length[r] >= Ferry[r] /\ Size(Locos(hand[Cur])) >= Ferry[r]
                  /\ AffordsPaint(Cur, Length[r], Paint[r]))
                 <=> \E pay \in SUBSET hand[Cur] : Pays(pay, Length[r], Ferry[r], Paint[r])
      <3>1. AffordsPaint(Cur, Length[r], Paint[r]) <=> Suffices(hand[Cur], Length[r], Paint[r])
        BY <1>3, AffordsIs
      <3>2. Size(Locos(hand[Cur])) \in Nat
        BY <1>1, HandIsFinite DEF Locos
      <3>3. ASSUME Ferry[r] <= Length[r], Ferry[r] <= Size(Locos(hand[Cur])),
                   Suffices(hand[Cur], Length[r], Paint[r])
            PROVE  \E pay \in SUBSET hand[Cur] : Pays(pay, Length[r], Ferry[r], Paint[r])
        BY <1>1, <1>3, <3>3, EnoughToPay
      <3>4. ASSUME NEW pay \in SUBSET hand[Cur], Pays(pay, Length[r], Ferry[r], Paint[r])
            PROVE  /\ Ferry[r] <= Length[r] /\ Ferry[r] <= Size(Locos(hand[Cur]))
                   /\ Suffices(hand[Cur], Length[r], Paint[r])
        BY <1>1, <1>3, <3>4, PaidWasEnough
      <3> QED BY <1>3, <3>1, <3>2, <3>3, <3>4
    <2>2. Drawn(TunnelReveal, deck, discard) # {}
      BY TableAssumption, DrawIsPossible
    <2> QED BY <2>1, <2>2 DEF CanClaimAnyRoute, CanClaim, Bid
  <1>7. ~PoolDead => CanTakeCard
    <2>1. CASE deck \cup discard # {}
      <3>1. \E d \in Drawn(1, deck, discard) : d.took # {}
        BY <2>1, DrawIsPossible
      <3> QED BY <1>1, <3>1 DEF CanTakeCard
    <2>2. CASE market # {}
      <3>1. PICK c \in market : TRUE
        BY <2>2
      <3> DEFINE m == [market |-> market \ {c}, deck |-> deck, discard |-> discard]
                 S == (market \ {c}) \cup deck \cup discard
      <3>2. S \in SUBSET Card /\ m \in Tables(S)
        BY DEF Tables
      <3>3. Size(m.market) <= MarketSize
        <4>1. Size(market \ {c}) <= Size(market) /\ Size(market \ {c}) \in Nat /\ Size(market) \in Nat
          BY HandIsFinite
        <4> QED BY <4>1, TableAssumption DEF MarketFits
      <3> HIDE DEF m, S
      <3>4. Refilled(m) # {}
        BY <3>2, <3>3, RefilledIsPossible DEF Small
      <3> QED BY <1>1, <3>1, <3>4 DEF CanTakeCard, m
    <2> QED BY <2>1, <2>2 DEF PoolDead
  <1>8. pool[Side[Cur]] # {} => CanTakeCard
    BY <1>1 DEF PoolsAreTeams, CanTakeCard
  <1>9. CanTakeCard => ~PoolDead \/ pool[Side[Cur]] # {}
    <2>1. ASSUME NEW d \in Drawn(1, deck, discard), d.took # {}
          PROVE  ~PoolDead
      <3>1. d.took \cup d.deck \cup d.discard = deck \cup discard
        BY DrawnIs
      <3> QED BY <2>1, <3>1 DEF PoolDead
    <2> QED BY <2>1 DEF CanTakeCard, PoolDead
  <1> QED BY <1>4, <1>5, <1>6, <1>7, <1>8, <1>9 DEF HasAnyLegalMove, CanAct, CanDrawTickets

-----------------------------------------------------------------------------
(* No dead end. *)

(* While the opening offers are out somebody has to answer one, and every one of
   them is large enough to be answered. *)
OpenOffers ==
  Phase("SETUP_TICKETS") =>
    /\ \E p \in Player : offer[p] # <<>>
    /\ \A p \in Player : offer[p] # <<>> => Size(InSeq(offer[p])) >= MinKeepInitial

Supplies == PoolsAreTeams /\ MarketFits /\ OpenOffers

(* Where cards are drawn the market stays within its size. *)
LEMMA SuppliesOfCards ==
  ASSUME Inv, Supplies, Next
  PROVE  PoolsAreTeams' /\ MarketFits'
PROOF
  <1>1. CASE KeepInitial \/ KeepTickets \/ DrawTickets \/ DryDraw \/ Pass \/ EndGame
    <2>1. UNCHANGED <<market, pool>>
      BY <1>1 DEF KeepInitial, KeepTickets, DrawTickets, DryDraw, Pass, EndGame, piles
    <2> QED BY <2>1 DEF Supplies, PoolsAreTeams, MarketFits
  <1>2. CASE ClaimRoute \/ BuildStation \/ RepairRoute \/ CommitTunnel \/ AbortTunnel \/ BeginTunnel \/ DrawBlind
    <2>1. UNCHANGED <<market, pool>>
      BY <1>2 DEF ClaimRoute, BuildStation, RepairRoute, CommitTunnel, AbortTunnel, BeginTunnel, DrawBlind
    <2> QED BY <2>1 DEF Supplies, PoolsAreTeams, MarketFits
  <1>3. CASE PushToTeamPool \/ TakeFromTeamPool
    <2>1. TeamGame /\ UNCHANGED market
      BY <1>3 DEF PushToTeamPool, TakeFromTeamPool, piles
    <2> QED BY <2>1 DEF Supplies, PoolsAreTeams, MarketFits
  <1>4. CASE DrawFaceup
    <2>1. PICK c \in market :
            \E m \in Refilled([market |-> market \ {c}, deck |-> deck, discard |-> discard]) :
              market' = m.market /\ UNCHANGED pool
      BY <1>4 DEF DrawFaceup
    <2> DEFINE x == [market |-> market \ {c}, deck |-> deck, discard |-> discard]
               S == (market \ {c}) \cup deck \cup discard
    <2>2. /\ market \in SUBSET Card /\ deck \in SUBSET Card /\ discard \in SUBSET Card
          /\ market \cap deck = {} /\ market \cap discard = {} /\ deck \cap discard = {}
      BY InvIsTyped DEF TypeOK, Inv, Cards
    <2>3. S \in SUBSET Card /\ x \in Tables(S)
      BY <2>2 DEF Tables
    <2>4. Size(x.market) <= MarketSize
      <3>1. Size(market \ {c}) <= Size(market) /\ Size(market \ {c}) \in Nat /\ Size(market) \in Nat
        BY <2>2, HandIsFinite
      <3> QED BY <3>1, TableAssumption DEF Supplies, MarketFits
    <2> HIDE DEF x, S
    <2>5. Refilled(x) \subseteq Small(S)
      BY <2>3, <2>4, RefilledIsPossible DEF Small
    <2>6. PICK m \in Small(S) : market' = m.market /\ UNCHANGED pool
      BY <2>1, <2>5 DEF x
    <2> QED BY <2>6 DEF Small, Supplies, PoolsAreTeams, MarketFits
  <1> QED BY <1>1, <1>2, <1>3, <1>4 DEF Next, Play, Productive

(* The opening is over for good. *)
LEMMA SetupIsOver ==
  ASSUME Inv, Next, ~KeepInitial
  PROVE  turn'.phase # "SETUP_TICKETS"
PROOF
  <1>1. TypeOK /\ PassesLeft
    BY InvIsTyped DEF Inv, Turns, Round
  <1>2. turn \in [phase : Phases, at : 0..N - 1, drawn : 0..1, pushed : BOOLEAN]
    BY <1>1 DEF TypeOK
  <1>3. ASSUME ~Phase("GAME_OVER"), NEW wasPass \in BOOLEAN, NEW rails, NEW sh, NEW os,
               EndTurn(wasPass, rails, sh, os)
        PROVE  turn'.phase # "SETUP_TICKETS"
    <2>1. Handed(sh, os)
      BY <1>1, <1>3, EndTurnIs
    <2> QED BY <1>2, <2>1 DEF Handed
  <1>4. CASE KeepTickets
    <2>1. PICK keep : /\ Phase("TICKET_SELECTION")
                      /\ EndTurn(FALSE, repair, Returned(offer[Cur], keep, short),
                                 [offer EXCEPT ![Cur] = <<>>])
      BY <1>4 DEF KeepTickets
    <2>2. ~Phase("GAME_OVER") /\ FALSE \in BOOLEAN
      BY <2>1 DEF Phase
    <2> QED BY <1>3, <2>1, <2>2
  <1>5. CASE DrawTickets
    BY <1>2, <1>5 DEF DrawTickets
  <1>6. CASE PushToTeamPool
    BY <1>2, <1>6 DEF PushToTeamPool, First, Phase
  <1>7. CASE /\ turn.phase \in {"AWAIT_ACTION", "DRAWING_CARDS", "TUNNEL_PENDING"}
             /\ \E wasPass \in BOOLEAN : EndTurn(wasPass, repair, short, offer)
    BY <1>3, <1>7 DEF Phase
  <1>8. CASE /\ turn.phase = "AWAIT_ACTION"
             /\ \E r \in Route : /\ repair[r] = None
                                 /\ EndTurn(FALSE, [repair EXCEPT ![r] = Window(Cur)], short, offer)
    <2>1. FALSE \in BOOLEAN
      OBVIOUS
    <2> QED BY <1>3, <1>8, <2>1 DEF Phase
  <1>9. CASE \/ Drew
             \/ turn' = [turn EXCEPT !.phase = "TUNNEL_PENDING"]
             \/ turn' = [turn EXCEPT !.phase = "GAME_OVER"]
    BY <1>2, <1>9 DEF Drew
  <1> QED BY <1>1, <1>4, <1>5, <1>6, <1>7, <1>8, <1>9, StepsOfTurn DEF TurnStep

LEMMA SuppliesKept ==
  ASSUME Inv, Supplies, Next
  PROVE  Supplies'
PROOF
  <1>1. PoolsAreTeams' /\ MarketFits'
    BY SuppliesOfCards
  <1>2. CASE ~KeepInitial
    <2>1. OpenOffers'
      BY <1>2, SetupIsOver DEF OpenOffers, Phase
    <2> QED BY <1>1, <2>1 DEF Supplies
  <1>3. CASE KeepInitial
    <2>1. PICK p \in Player : /\ Phase("SETUP_TICKETS")
                              /\ offer' = [offer EXCEPT ![p] = <<>>]
                              /\ turn' = IF \A q \in Player : offer'[q] = <<>>
                                         THEN [turn EXCEPT !.phase = "AWAIT_ACTION"] ELSE turn
      BY <1>3 DEF KeepInitial
    <2>2. offer \in [Player -> Seq(Ticket)]
      BY DEF Inv, Turns
    <2>3. turn \in [phase : Phases, at : 0..N - 1, drawn : 0..1, pushed : BOOLEAN]
      BY DEF Inv, Turns, Round
    <2>4. Phase("SETUP_TICKETS")' => \E q \in Player : offer'[q] # <<>>
      BY <2>1, <2>3 DEF Phase
    <2>5. \A q \in Player : offer'[q] # <<>> => offer'[q] = offer[q]
      BY <2>1, <2>2
    <2>6. \A q \in Player : offer'[q] # <<>> => Size(InSeq(offer[q])) >= MinKeepInitial
      BY <2>1, <2>5 DEF Supplies, OpenOffers
    <2>7. \A q \in Player : offer'[q] # <<>> => Size(InSeq(offer'[q])) >= MinKeepInitial
      BY <2>5, <2>6
    <2>8. OpenOffers'
      BY <2>4, <2>7 DEF OpenOffers, InSeq, Size
    <2> QED BY <1>1, <2>8 DEF Supplies
  <1> QED BY <1>2, <1>3

(* The tickets of two sequences that repeat and share none are as many as both are long. *)
LEMMA TicketsOfOffer ==
  ASSUME NEW d \in Seq(Ticket), NEW b \in Seq(Ticket),
         \A i, j \in 1..Len(d) : d[i] = d[j] => i = j,
         \A i, j \in 1..Len(b) : b[i] = b[j] => i = j,
         \A i \in 1..Len(d), j \in 1..Len(b) : d[i] # b[j]
  PROVE  Size(InSeq(d \o b)) = Len(d) + Len(b)
PROOF
  <1> DEFINE s == d \o b
             n == Len(d) + Len(b)
             f == [i \in 1..n |-> s[i]]
  <1>1. n \in Nat /\ Len(s) = n
    OBVIOUS
  <1>2. \A i \in 1..n : s[i] = IF i <= Len(d) THEN d[i] ELSE b[i - Len(d)]
    OBVIOUS
  <1>3. ASSUME NEW i \in 1..n, NEW j \in 1..n, s[i] = s[j]
        PROVE  i = j
    <2>1. CASE i <= Len(d) /\ j <= Len(d)
      BY <1>2, <1>3, <2>1
    <2>2. CASE i > Len(d) /\ j > Len(d)
      <3>1. i - Len(d) \in 1..Len(b) /\ j - Len(d) \in 1..Len(b)
        BY <2>2
      <3>2. b[i - Len(d)] = b[j - Len(d)]
        BY <1>2, <1>3, <2>2
      <3>3. i - Len(d) = j - Len(d)
        BY <3>1, <3>2
      <3> QED BY <3>3
    <2>3. CASE i <= Len(d) /\ j > Len(d)
      <3>1. i \in 1..Len(d) /\ j - Len(d) \in 1..Len(b)
        BY <2>3
      <3>2. d[i] = b[j - Len(d)]
        BY <1>2, <1>3, <2>3
      <3> QED BY <3>1, <3>2
    <2>4. CASE i > Len(d) /\ j <= Len(d)
      <3>1. j \in 1..Len(d) /\ i - Len(d) \in 1..Len(b)
        BY <2>4
      <3>2. d[j] = b[i - Len(d)]
        BY <1>2, <1>3, <2>4
      <3> QED BY <3>1, <3>2
    <2>5. (i <= Len(d) \/ i > Len(d)) /\ (j <= Len(d) \/ j > Len(d))
      OBVIOUS
    <2> QED BY <2>1, <2>2, <2>3, <2>4, <2>5
  <1>4. InSeq(s) = {s[i] : i \in 1..n}
    BY <1>1 DEF InSeq
  <1> HIDE DEF n, s
  <1>5. f \in Bijection(1..n, InSeq(s))
    <2>1. f \in [1..n -> InSeq(s)]
      BY <1>4
    <2>2. \A t \in InSeq(s) : \E i \in 1..n : f[i] = t
      BY <1>4
    <2>3. \A i, j \in 1..n : f[i] = f[j] => i = j
      BY <1>3
    <2> HIDE DEF f
    <2> QED BY <2>1, <2>2, <2>3 DEF Bijection, Injection, Surjection, IsInjective
  <1>6. Cardinality(InSeq(s)) = n
    BY <1>1, <1>5, FS_CountingElements DEF ExistsBijection
  <1> QED BY <1>6 DEF Size, s, n

LEMMA SuppliesOfInit ==
  ASSUME Init
  PROVE  Supplies
PROOF
  <1>1. PoolsAreTeams
    BY DEF Init, PoolsAreTeams
  <1>2. MarketFits
    <2> DEFINE S == Card \ UNION {hand[p] : p \in Player}
               x == [market |-> {}, deck |-> S, discard |-> {}]
    <2>1. \E m \in Refilled(x) : market = m.market
      BY DEF Init
    <2>2. S \in SUBSET Card
      OBVIOUS
    <2> HIDE DEF S
    <2>3. x \in Tables(S) /\ Size(x.market) <= MarketSize
      BY FS_EmptySet, TableAssumption DEF Tables, Size
    <2> HIDE DEF x
    <2>4. Refilled(x) \subseteq Small(S)
      BY <2>2, <2>3, RefilledIsPossible DEF Small
    <2> QED BY <2>1, <2>4 DEF Small, MarketFits
  <1>3. ASSUME NEW p \in Player
        PROVE  offer[p] # <<>> /\ Size(InSeq(offer[p])) >= MinKeepInitial
    <2> DEFINE i == CHOOSE i \in 1..N : Order[i] = p
               d == Dealt(InitialLong, LongDeck, i)
               b == Dealt(InitialShort, ShortDeck, i)
    <2>1. offer[p] = d \o b
      BY <1>3 DEF Init
    <2>2. i \in 1..N
      BY TableAssumption
    <2>3. /\ InitialLong \in Nat /\ LongDeck \in Seq(Ticket) /\ Len(LongDeck) >= InitialLong * N
          /\ InitialShort \in Nat /\ ShortDeck \in Seq(Ticket) /\ Len(ShortDeck) >= InitialShort * N
          /\ InitialLong + InitialShort >= 1 /\ InitialLong + InitialShort >= MinKeepInitial
          /\ InitialLong * i \in Int /\ InitialShort * i \in Int
          /\ Len(LongDeck) \in Nat /\ Len(ShortDeck) \in Nat
      <3> HIDE DEF i
      <3> QED BY <2>2, TableAssumption, DealAssumption, Seats
    <2> HIDE DEF i
    <2>4. /\ d \in Seq(Ticket) /\ Len(d) = InitialLong
          /\ \A k \in 1..InitialLong : /\ Len(LongDeck) - InitialLong * i + k \in 1..Len(LongDeck)
                                       /\ d[k] = LongDeck[Len(LongDeck) - InitialLong * i + k]
      BY <2>2, <2>3, DealtIs
    <2>5. /\ b \in Seq(Ticket) /\ Len(b) = InitialShort
          /\ \A k \in 1..InitialShort : /\ Len(ShortDeck) - InitialShort * i + k \in 1..Len(ShortDeck)
                                        /\ b[k] = ShortDeck[Len(ShortDeck) - InitialShort * i + k]
      BY <2>2, <2>3, DealtIs
    <2> DEFINE u == Len(LongDeck) - InitialLong * i
               v == Len(ShortDeck) - InitialShort * i
    <2>6. u \in Int /\ v \in Int
      BY <2>3
    <2>7. \A k \in 1..InitialLong : u + k \in 1..Len(LongDeck) /\ d[k] = LongDeck[u + k]
      BY <2>4
    <2>8. \A k \in 1..InitialShort : v + k \in 1..Len(ShortDeck) /\ b[k] = ShortDeck[v + k]
      BY <2>5
    <2> HIDE DEF d, b, u, v
    <2>9. ASSUME NEW j \in 1..Len(d), NEW k \in 1..Len(d), d[j] = d[k]
          PROVE  j = k
      <3>1. u + j = u + k
        BY <2>4, <2>7, <2>9, TicketAssumption
      <3> QED BY <2>6, <3>1
    <2>10. ASSUME NEW j \in 1..Len(b), NEW k \in 1..Len(b), b[j] = b[k]
           PROVE  j = k
      <3>1. v + j = v + k
        BY <2>5, <2>8, <2>10, TicketAssumption
      <3> QED BY <2>6, <3>1
    <2>11. ASSUME NEW j \in 1..Len(d), NEW k \in 1..Len(b)
           PROVE  d[j] # b[k]
      <3>1. j \in 1..InitialLong /\ k \in 1..InitialShort
        BY <2>4, <2>5, <2>11
      <3>2. u + j \in 1..Len(LongDeck) /\ d[j] = LongDeck[u + j]
        BY <2>7, <3>1
      <3>3. v + k \in 1..Len(ShortDeck) /\ b[k] = ShortDeck[v + k]
        BY <2>8, <3>1
      <3> QED BY <3>2, <3>3, TicketAssumption
    <2>12. Size(InSeq(d \o b)) = Len(d) + Len(b)
      BY <2>4, <2>5, <2>9, <2>10, <2>11, TicketsOfOffer
    <2>13. d \o b # <<>>
      <3>1. d \in Seq(Ticket) /\ b \in Seq(Ticket)
        BY <2>4, <2>5
      <3>2. Len(d \o b) = Len(d) + Len(b)
        BY <3>1
      <3>3. Len(d \o b) >= 1
        BY <2>3, <2>4, <2>5, <3>2
      <3> QED BY <3>3
    <2> QED BY <2>1, <2>3, <2>4, <2>5, <2>12, <2>13
  <1>4. Player # {}
    BY Seats
  <1>5. OpenOffers
    BY <1>3, <1>4 DEF OpenOffers
  <1> QED BY <1>1, <1>2, <1>5 DEF Supplies

(* The mirror is right, and with it no state is a dead end: whoever is on the
   move may pass, or has what the mirror says they have. *)
LEMMA NoDeadEnd ==
  ASSUME Inv, Supplies
  PROVE  PassIsLast /\ SomebodyCanPlay
PROOF
  <1>1. /\ TypeOK /\ Cur \in Player
        /\ market \cap deck = {} /\ market \cap discard = {} /\ deck \cap discard = {}
    BY InvIsTyped, Seat DEF Inv, Cards
  <1>2. PassIsLast
    BY <1>1, MirrorIsRight DEF PassIsLast, Supplies, TypeOK
  <1>3. ASSUME ~Phase("GAME_OVER")
        PROVE  CanPlay
    <2>1. turn.phase \in Phases
      BY <1>1 DEF TypeOK
    <2>2. CASE First
      BY <1>2, <2>2 DEF PassIsLast, CanPlay
    <2>3. CASE Phase("TUNNEL_PENDING")
      BY <2>3 DEF CanPlay
    <2>4. CASE Phase("DRAWING_CARDS")
      <3>1. CASE deck \cup discard # {}
        <4>1. \E d \in Drawn(1, deck, discard) : d.took # {}
          <5>1. deck \in SUBSET Card /\ discard \in SUBSET Card
            BY <1>1 DEF TypeOK
          <5>2. 1 \in Nat /\ 1 > 0
            OBVIOUS
          <5> QED BY <1>1, <3>1, <5>1, <5>2, DrawIsPossible
        <4> QED BY <2>4, <4>1 DEF CanPlay, CanAct, CanTakeCard, Drawing
      <3> QED BY <2>4, <3>1 DEF CanPlay
    <2>5. CASE Phase("SETUP_TICKETS")
      <3>1. PICK p \in Player : offer[p] # <<>> /\ Size(InSeq(offer[p])) >= MinKeepInitial
        BY <2>5 DEF Supplies, OpenOffers
      <3>2. offer[p] \in Seq(Ticket)
        BY <1>1 DEF TypeOK
      <3>3. InSeq(offer[p]) \in SUBSET Ticket
        BY <3>2, ElementOfSeq DEF InSeq
      <3> QED BY <2>5, <3>1, <3>3 DEF CanPlay, CanAnswer
    <2>6. CASE Phase("TICKET_SELECTION")
      <3>1. offer[Cur] \in Seq(Ticket) /\ offer[Cur] # <<>>
        BY <1>1, <2>6 DEF TypeOK
      <3>2. Len(offer[Cur]) \in Nat \ {0}
        BY <3>1
      <3>3. PICK t : t \in InSeq(offer[Cur])
        <4>1. 1 \in 1..Len(offer[Cur])
          BY <3>2
        <4> QED BY <4>1 DEF InSeq
      <3>4. {t} \in SUBSET InSeq(offer[Cur]) /\ Size({t}) = 1
        BY <3>3, FS_Singleton DEF Size
      <3>5. Size({t}) >= MinKeep
        BY <3>4, DealAssumption
      <3> QED BY <2>6, <3>4, <3>5 DEF CanPlay, CanAnswer
    <2> QED BY <1>3, <2>1, <2>2, <2>3, <2>4, <2>5, <2>6 DEF Phases, Phase, First
  <1> QED BY <1>2, <1>3 DEF SomebodyCanPlay

-----------------------------------------------------------------------------
(* The theorems. *)

(* Inv is an inductive invariant of the engine's turns. *)
THEOREM Invariance == Spec => []Inv
PROOF
  <1>1. Init => Inv
    BY InitIsRight
  <1>2. Inv /\ [Next]_vars => Inv'
    <2> SUFFICES ASSUME Inv, [Next]_vars
                 PROVE  Inv'
      OBVIOUS
    <2>1. CASE Next
      BY <2>1, TurnsKept, NetworkKept, PendingKept, CardsKept DEF Inv
    <2>2. CASE UNCHANGED vars
      BY <2>2, StutterIsRight
    <2> QED BY <2>1, <2>2
  <1> QED BY <1>1, <1>2, PTL DEF Spec

(* The state keeps its types, and every phase has pending what it should: a
   tunnel, an offer, or nothing (turn.ts, reduce.ts). *)
THEOREM TypeCorrect == Spec => []TypeOK
PROOF
  <1>1. Inv => TypeOK
    BY InvIsTyped
  <1> QED BY <1>1, Invariance, PTL

(* However the turns go - passes, dry draws, abandoned tunnels, forced ticket
   offers - once the end is triggered every player has exactly one more turn,
   the one who triggered it the last (turn.ts endTurn). *)
THEOREM LastRoundIsFair == Spec => []FinalRound
PROOF
  <1>1. Inv => FinalRound
    BY InvIsTyped
  <1> QED BY <1>1, Invariance, PTL

(* A repaired rail is its repairer's until their next turn is over, for any
   number of players and of rails under repair (turn.ts, reduce.ts). *)
THEOREM RepairersGoFirst == Spec => []RailWindow
PROOF
  <1>1. Inv => RailWindow
    BY InvIsTyped
  <1> QED BY <1>1, Invariance, PTL

(* A turn never opens on a dead table unless the end has been triggered
   (turn.ts isBoardStalled). *)
THEOREM DeadTablesEnd == Spec => []StalledGameEnds
PROOF
  <1>1. Inv => StalledGameEnds
    BY InvIsTyped
  <1> QED BY <1>1, Invariance, PTL

(* What is announced as complete is what the track of the side joins, in every
   state and for any board (tickets.ts lockCompletedTickets). *)
THEOREM LocksHold == Spec => []LocksAreRight
PROOF
  <1>1. Inv => LocksAreRight
    BY InvIsTyped
  <1> QED BY <1>1, Invariance, PTL

(* Of a parallel group no side owns two tracks, and the rest lock when, and
   only when, as many are owned as the number of players opens; a tunnel that
   is claimed later than it was begun included (reduce.ts, legality.ts). *)
THEOREM GroupsHold == Spec => []ParallelTracks
PROOF
  <1>1. Inv => ParallelTracks
    BY InvIsTyped
  <1> QED BY <1>1, Invariance, PTL

(* No card is lost or doubled, however often the market is recycled and the
   deck reshuffled (deck.ts, invariants.ts). *)
THEOREM CardsHold == Spec => []CardsConserved
PROOF
  <1>1. ASSUME Inv
        PROVE  CardsConserved
    <2> DEFINE D == {Side[p] : p \in Player}
    <2>1. /\ market \cup deck \cup discard = Card \ (Revealed \cup InHands \cup InPools)
          /\ market \cap deck = {} /\ market \cap discard = {} /\ deck \cap discard = {}
          /\ Revealed \cap InHands = {} /\ Revealed \cap InPools = {} /\ InHands \cap InPools = {}
          /\ hand \in [Player -> SUBSET Card] /\ Apart(hand)
          /\ pool \in [D -> SUBSET Card] /\ Apart(pool)
      BY <1>1 DEF Inv, Cards, Away
    <2>2. \A c : c \in InHands <=> \E p \in Player : c \in hand[p]
      BY DEF InHands, Total
    <2>3. \A c : c \in InPools <=> \E s \in D : c \in pool[s]
      BY DEF InPools, Total
    <2>4. Places = {<<"deck">>, <<"discard">>, <<"market">>, <<"tunnel">>}
                     \cup {"hand"} \X Player \cup {"pool"} \X D
      BY <2>1 DEF Places
    <2> HIDE DEF D
    <2>5. /\ Heap(<<"deck">>) = deck /\ Heap(<<"discard">>) = discard
          /\ Heap(<<"market">>) = market /\ Heap(<<"tunnel">>) = Revealed
          /\ \A p \in Player : Heap(<<"hand", p>>) = hand[p]
          /\ \A s \in D : Heap(<<"pool", s>>) = pool[s]
      BY DEF Heap, Revealed
    <2> HIDE DEF Heap
    <2>6. ASSUME NEW x \in Places
          PROVE  \/ x \in {<<"deck">>, <<"discard">>, <<"market">>, <<"tunnel">>}
                 \/ \E p \in Player : x = <<"hand", p>>
                 \/ \E s \in D : x = <<"pool", s>>
      BY <2>4
    <2>7. ASSUME NEW c \in Card
          PROVE  \E x \in Places : c \in Heap(x) /\ \A y \in Places \ {x} : c \notin Heap(y)
      <3>1. CASE c \in deck
        <4>1. <<"deck">> \in Places
          BY <2>4
        <4>2. \A y \in Places \ {<<"deck">>} : c \notin Heap(y)
          BY <2>1, <2>2, <2>3, <2>5, <2>6, <3>1
        <4> QED BY <2>5, <3>1, <4>1, <4>2
      <3>2. CASE c \in discard
        <4>1. <<"discard">> \in Places
          BY <2>4
        <4>2. \A y \in Places \ {<<"discard">>} : c \notin Heap(y)
          BY <2>1, <2>2, <2>3, <2>5, <2>6, <3>2
        <4> QED BY <2>5, <3>2, <4>1, <4>2
      <3>3. CASE c \in market
        <4>1. <<"market">> \in Places
          BY <2>4
        <4>2. \A y \in Places \ {<<"market">>} : c \notin Heap(y)
          BY <2>1, <2>2, <2>3, <2>5, <2>6, <3>3
        <4> QED BY <2>5, <3>3, <4>1, <4>2
      <3>4. CASE c \in Revealed
        <4>1. <<"tunnel">> \in Places
          BY <2>4
        <4>2. \A y \in Places \ {<<"tunnel">>} : c \notin Heap(y)
          BY <2>1, <2>2, <2>3, <2>5, <2>6, <3>4
        <4> QED BY <2>5, <3>4, <4>1, <4>2
      <3>5. CASE c \in InHands
        <4>1. PICK p \in Player : c \in hand[p]
          BY <2>2, <3>5
        <4>2. <<"hand", p>> \in Places
          BY <2>4
        <4>3. \A q \in Player : q # p => c \notin hand[q]
          BY <2>1, <4>1 DEF Apart
        <4>4. \A y \in Places \ {<<"hand", p>>} : c \notin Heap(y)
          BY <2>1, <2>2, <2>3, <2>5, <2>6, <3>5, <4>3
        <4> QED BY <2>5, <4>1, <4>2, <4>4
      <3>6. CASE c \in InPools
        <4>1. PICK s \in D : c \in pool[s]
          BY <2>3, <3>6
        <4>2. <<"pool", s>> \in Places
          BY <2>4
        <4>3. \A t \in D : t # s => c \notin pool[t]
          BY <2>1, <4>1 DEF Apart
        <4>4. \A y \in Places \ {<<"pool", s>>} : c \notin Heap(y)
          BY <2>1, <2>2, <2>3, <2>5, <2>6, <3>6, <4>3
        <4> QED BY <2>5, <4>1, <4>2, <4>4
      <3> QED BY <2>1, <3>1, <3>2, <3>3, <3>4, <3>5, <3>6
    <2> QED BY <2>7 DEF CardsConserved
  <1>2. Inv => CardsConserved
    BY <1>1
  <1> QED BY <1>2, Invariance, PTL

(* Every train card, every train and every ticket stays in the game, and in one
   place: through abandoned tunnels and recycled markets, through claims that
   lock their twins, and through offers that are forced, answered in part and
   put back under the deck (deck.ts, tickets.ts, invariants.ts). *)
THEOREM NothingIsLost == Spec => []Conserved
PROOF
  <1>1. Init => Stock
    BY LaidOfInit, TicketsOfInit DEF Stock
  <1>2. Inv /\ Stock /\ [Next]_vars => Stock'
    <2> SUFFICES ASSUME Inv, Stock, [Next]_vars
                 PROVE  Stock'
      OBVIOUS
    <2>1. CASE Next
      BY <2>1, LaidKept, TicketsKept DEF Stock
    <2>2. CASE UNCHANGED vars
      <3>1. UNCHANGED <<trains, owner, short, offer, kept>>
        BY <2>2 DEF vars, board, tickets
      <3>2. Laid'
        BY <3>1 DEF Stock, Laid, Tracks
      <3>3. Tickets'
        BY <3>1 DEF Stock, Tickets
      <3> QED BY <3>2, <3>3 DEF Stock
    <2> QED BY <2>1, <2>2
  <1>3. Stock => TrainsConserved /\ TicketsConserved
    BY LaidIsConserved, TicketsAreConserved DEF Stock
  <1>4. CardsConserved /\ TrainsConserved /\ TicketsConserved <=> Conserved
    BY DEF Conserved
  <1> QED BY <1>1, <1>2, <1>3, <1>4, Invariance, CardsHold, PTL DEF Spec

LEMMA SuppliesLast == Spec => []Supplies
PROOF
  <1>1. Init => Supplies
    BY SuppliesOfInit
  <1>2. Inv /\ Supplies /\ [Next]_vars => Supplies'
    <2> SUFFICES ASSUME Inv, Supplies, [Next]_vars
                 PROVE  Supplies'
      OBVIOUS
    <2>1. CASE Next
      BY <2>1, SuppliesKept
    <2>2. CASE UNCHANGED vars
      <3>1. UNCHANGED <<turn, market, pool, offer>>
        BY <2>2 DEF vars, piles, tickets, clock
      <3> QED BY <3>1 DEF Supplies, PoolsAreTeams, MarketFits, OpenOffers, Phase
    <2> QED BY <2>1, <2>2
  <1> QED BY <1>1, <1>2, Invariance, PTL DEF Spec

(* A player may pass exactly when the reducer would accept nothing else of
   theirs but a push: that enough cards are counted and that a payment exists
   are the same, for any hand, colours, ferries and repairs (legality.ts,
   payments.ts). *)
THEOREM MirrorHolds == Spec => []PassIsLast
PROOF
  <1>1. Inv /\ Supplies => PassIsLast
    BY NoDeadEnd
  <1> QED BY <1>1, Invariance, SuppliesLast, PTL

(* No table is a dead end: in every phase of a game that is not over some
   action is accepted, by the player on the move or by one who still has the
   opening offer (reduce.ts). *)
THEOREM NobodyIsStuck == Spec => []SomebodyCanPlay
PROOF
  <1>1. Inv /\ Supplies => SomebodyCanPlay
    BY NoDeadEnd
  <1> QED BY <1>1, Invariance, SuppliesLast, PTL
=============================================================================
