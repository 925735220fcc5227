---------------------------- MODULE SeatsProofs ----------------------------
(***************************************************************************)
(* Proofs about Seats, for any people, bots and connections, any           *)
(* thresholds, any ban verdicts, any order in which writes land, and any   *)
(* number of store failures and crashes.                                   *)
(***************************************************************************)
EXTENDS Seats, TLAPS

(* A connection that said hello belongs to a person; and after a crash nobody
   binds before the match is recovered. *)
HellosArePeople ==
  \A c \in Conn :
    /\ conn[c].at # "free" => conn[c].who \in Human
    /\ conn[c].at \in {"ban2", "bound"} => resident

NobodyBeforeRecovery == ~resident => \A p \in Human : last[p] = None

(* Only a bot's move is queued for somebody who is not a person. *)
TasksArePeoples ==
  \A i \in DOMAIN queue : queue[i].kind # "bot" => queue[i].who \in Human

(* The task in execution may still act: nothing else moves the game. *)
HeadActs ==
  /\ pc = "persist" => /\ queue # <<>> /\ ~over
                       /\ Job.kind = "auto" => turn = Job.who
  /\ played => pc = "persist" /\ Job.kind = "auto"
  /\ over => turn = None

(* The streak counts the turns nobody was there for, a strike is a turn its
   person missed, and bots are kept in the map. *)
ClockInOrder ==
  /\ ~over => unmanned = streak
  /\ \A p \in Human : strikes[p] <= missed[p]
  /\ ~mapped => bots = {}

Inv ==
  /\ TypeOK
  /\ HellosArePeople /\ NobodyBeforeRecovery
  /\ TasksArePeoples /\ HeadActs /\ ClockInOrder
  /\ DesertedRests /\ WaitingIsTimed
  /\ NoticesAreRight /\ LastHelloKeepsTheSeat

-----------------------------------------------------------------------------
LEMMA InitInv == Init => Inv
PROOF
  <1> SUFFICES ASSUME Init PROVE Inv
    OBVIOUS
  <1> USE SeatsAssumption, ParameterAssumption DEF Init
  <1>0. mapped \in BOOLEAN /\ (~mapped => bots = {})
    BY Zenon
  <1>1. TypeOK
    <2>1. conn \in [Conn -> Connection]
      BY DEF Connection, Free, Stage
    <2>2. writes \in Seq(Write) /\ queue \in Seq(Task)
      OBVIOUS
    <2>3. roster \subseteq Player /\ bots \subseteq Player
      BY DEF Player
    <2>4. loading \in Seq(SUBSET Player) /\ Len(loading) <= 1
      OBVIOUS
    <2>5. mapped \in BOOLEAN
      BY <1>0
    <2> QED BY <2>1, <2>2, <2>3, <2>4, <2>5 DEF TypeOK
  <1>2. HellosArePeople /\ NobodyBeforeRecovery
    BY DEF HellosArePeople, NobodyBeforeRecovery, Free
  <1>3. TasksArePeoples /\ HeadActs /\ ClockInOrder
    BY <1>0 DEF TasksArePeoples, HeadActs, ClockInOrder
  <1>4. DesertedRests
    BY DEF DesertedRests
  <1>5. WaitingIsTimed
    BY DEF WaitingIsTimed, Waits, Player
  <1>6. NoticesAreRight /\ LastHelloKeepsTheSeat
    BY DEF NoticesAreRight, LastHelloKeepsTheSeat
  <1> QED BY <1>1, <1>2, <1>3, <1>4, <1>5, <1>6 DEF Inv

-----------------------------------------------------------------------------
(* What a step changes. *)

(* A step that leaves the game, the clock and the queue alone. *)
LEMMA ClockUntouched ==
  ASSUME Inv, UNCHANGED <<game, clock, task, history, resident>>
  PROVE  TasksArePeoples' /\ HeadActs' /\ ClockInOrder' /\ DesertedRests' /\ WaitingIsTimed'
BY DEF Inv, game, clock, task, history, TasksArePeoples, HeadActs, Job, ClockInOrder,
       DesertedRests, WaitingIsTimed, Waits, Timed, Queued

(* A step that leaves the sockets and the notices alone. *)
LEMMA SeatsUntouched ==
  ASSUME Inv, UNCHANGED <<conn, members, notices, last, resident>>, over => over'
  PROVE  HellosArePeople' /\ NobodyBeforeRecovery' /\ NoticesAreRight' /\ LastHelloKeepsTheSeat'
BY DEF Inv, notices, HellosArePeople, NobodyBeforeRecovery, NoticesAreRight,
       LastHelloKeepsTheSeat

(* A step after which no connection is bound that was not, and every one
   belongs to whom it did. *)
LEMMA NobodyBinds ==
  ASSUME Inv, UNCHANGED <<members, notices, last, resident, over>>,
         \A c \in Conn : conn'[c].at = "bound" =>
                           conn[c].at = "bound" /\ conn'[c].who = conn[c].who
  PROVE  NobodyBeforeRecovery' /\ NoticesAreRight' /\ LastHelloKeepsTheSeat'
BY DEF Inv, TypeOK, notices, NobodyBeforeRecovery, NoticesAreRight, LastHelloKeepsTheSeat

(* A person's connection, and a person who is not None. *)
LEMMA PeopleAreSomebody ==
  None \notin Human /\ None \notin Conn /\ None \notin Bot
BY SeatsAssumption DEF Player

LEMMA FreeIsConnection == Free \in Connection /\ Free.at = "free"
BY DEF Free, Connection, Stage

(* A connection that changes its stage, and nothing else. *)
LEMMA MoveConn ==
  ASSUME Inv, NEW c \in Conn, NEW stage \in Stage, Move(c, stage)
  PROVE  /\ conn' \in [Conn -> Connection]
         /\ \A d \in Conn : /\ conn'[d].who = conn[d].who
                            /\ conn'[d].at = IF d = c THEN stage ELSE conn[d].at
BY DEF Inv, TypeOK, Move, Connection

(* Connections whose socket goes, and nothing else. *)
LEMMA SocketsGo ==
  ASSUME Inv, conn' = [d \in Conn |-> conn'[d]],
         \A d \in Conn : \/ conn'[d] = conn[d]
                         \/ \E s \in {"closing", "closed"} :
                              conn'[d] = [conn[d] EXCEPT !.socket = s]
  PROVE  /\ conn' \in [Conn -> Connection]
         /\ \A d \in Conn : conn'[d].at = conn[d].at /\ conn'[d].who = conn[d].who
PROOF
  <1>1. \A d \in Conn : /\ conn'[d] \in Connection
                        /\ conn'[d].at = conn[d].at /\ conn'[d].who = conn[d].who
    <2> TAKE d \in Conn
    <2>1. conn[d] \in Connection
      BY DEF Inv, TypeOK
    <2> QED BY <2>1 DEF Connection
  <1> QED BY <1>1

-----------------------------------------------------------------------------
(* Sockets and hellos. *)

LEMMA DialInv ==
  ASSUME Inv, NEW p \in Human, NEW c \in Conn, Dial(p, c)
  PROVE  Inv'
PROOF
  <1> USE DEF Dial, Inv, game, store, clock, notices, task, history, hub
  <1>1. TypeOK'
    BY DEF TypeOK, Connection, Stage
  <1>2. TasksArePeoples' /\ HeadActs' /\ ClockInOrder' /\ DesertedRests' /\ WaitingIsTimed'
    BY ClockUntouched
  <1>3. HellosArePeople'
    BY DEF HellosArePeople, TypeOK
  <1>4. NobodyBeforeRecovery' /\ NoticesAreRight' /\ LastHelloKeepsTheSeat'
    BY NobodyBinds DEF TypeOK
  <1> QED BY <1>1, <1>2, <1>3, <1>4

(* The seat check of a hello: the connection waits for its second verdict. *)
LEMMA ClaimConn ==
  ASSUME Inv, NEW c \in Conn, conn[c].at \in {"ban1", "load"}, resident, Claim(c),
         UNCHANGED resident
  PROVE  /\ conn' \in [Conn -> Connection]
         /\ HellosArePeople'
         /\ \A d \in Conn : conn'[d].at = "bound" =>
                              conn[d].at = "bound" /\ conn'[d].who = conn[d].who
PROOF
  <1> DEFINE prev == members[conn[c].who]
  <1>1. \A d \in Conn :
          conn'[d] = CASE d = c -> [conn[c] EXCEPT !.at = "ban2"]
                       [] d = prev /\ d # c /\ conn[d].socket = "open"
                            -> [conn[d] EXCEPT !.socket = "closing"]
                       [] OTHER -> conn[d]
    BY DEF Claim
  <1>2. \A d \in Conn :
          /\ conn'[d] \in Connection
          /\ conn'[d].who = conn[d].who
          /\ conn'[d].at = IF d = c THEN "ban2" ELSE conn[d].at
    <2> TAKE d \in Conn
    <2>1. conn[d] \in Connection /\ conn[c] \in Connection
      BY DEF Inv, TypeOK
    <2>2. CASE d = c
      BY <1>1, <2>1, <2>2 DEF Connection, Stage
    <2>3. CASE d # c /\ d = prev /\ conn[d].socket = "open"
      BY <1>1, <2>1, <2>3 DEF Connection
    <2>4. CASE d # c /\ ~(d = prev /\ conn[d].socket = "open")
      BY <1>1, <2>1, <2>4
    <2> QED BY <2>2, <2>3, <2>4
  <1>3. conn' = [d \in Conn |-> conn'[d]]
    BY DEF Claim
  <1> QED BY <1>2, <1>3 DEF Inv, HellosArePeople

LEMMA VerdictInv ==
  ASSUME Inv, NEW c \in Conn, FirstVerdict(c) \/ Loaded(c) \/ SecondVerdict(c)
  PROVE  Inv'
PROOF
  <1> USE DEF FirstVerdict, Loaded, SecondVerdict, game, store, clock, notices, task, history, hub
  <1>1. /\ conn' \in [Conn -> Connection]
        /\ HellosArePeople'
        /\ \A d \in Conn : conn'[d].at = "bound" =>
                             conn[d].at = "bound" /\ conn'[d].who = conn[d].who
    <2>1. CASE conn[c].at \in {"ban1", "load"} /\ resident /\ Claim(c)
      BY <2>1, ClaimConn
    <2>2. CASE Move(c, "refused") \/ Move(c, "load")
      <3>1. PICK stage \in {"refused", "load"} : Move(c, stage)
        BY <2>2
      <3> QED BY <3>1, MoveConn DEF Inv, HellosArePeople, Stage
    <2> QED BY <2>1, <2>2
  <1>2. TypeOK'
    BY <1>1 DEF Inv, TypeOK
  <1>3. TasksArePeoples' /\ HeadActs' /\ ClockInOrder' /\ DesertedRests' /\ WaitingIsTimed'
    BY ClockUntouched
  <1>4. NobodyBeforeRecovery' /\ NoticesAreRight' /\ LastHelloKeepsTheSeat'
    BY <1>1, NobodyBinds
  <1> QED BY <1>1, <1>2, <1>3, <1>4 DEF Inv

LEMMA AdoptInv == Inv /\ Adopt => Inv'
PROOF
  <1> SUFFICES ASSUME Inv, Adopt PROVE Inv'
    OBVIOUS
  <1> USE DEF Adopt, Inv, game, store, clock, notices, task
  <1>1. TypeOK'
    BY DEF TypeOK
  <1>2. HellosArePeople' /\ NobodyBeforeRecovery'
    BY DEF HellosArePeople, NobodyBeforeRecovery
  <1>3. TasksArePeoples' /\ HeadActs' /\ ClockInOrder' /\ DesertedRests'
    BY DEF TasksArePeoples, HeadActs, Job, ClockInOrder, DesertedRests
  <1>4. WaitingIsTimed' /\ NoticesAreRight' /\ LastHelloKeepsTheSeat'
    BY DEF WaitingIsTimed, NoticesAreRight, LastHelloKeepsTheSeat
  <1> QED BY <1>1, <1>2, <1>3, <1>4

LEMMA LoadRosterInv == Inv /\ LoadRoster => Inv'
PROOF
  <1> SUFFICES ASSUME Inv, LoadRoster PROVE Inv'
    OBVIOUS
  <1> USE DEF LoadRoster, game, store, notices, task, history
  <1>1. Head(loading) \subseteq Player /\ loading' = <<>>
    BY DEF Inv, TypeOK
  <1>2. /\ bots \subseteq bots' /\ bots' \subseteq Player /\ mapped' \in BOOLEAN
        /\ ~mapped' => bots' = {}
    BY <1>1 DEF Inv, TypeOK, ClockInOrder
  <1>3. TypeOK'
    BY <1>1, <1>2 DEF Inv, TypeOK
  <1>4. HellosArePeople' /\ NobodyBeforeRecovery' /\ NoticesAreRight' /\ LastHelloKeepsTheSeat'
    BY SeatsUntouched
  <1>5. TasksArePeoples' /\ HeadActs' /\ ClockInOrder' /\ DesertedRests'
    BY <1>2 DEF Inv, TasksArePeoples, HeadActs, Job, ClockInOrder, DesertedRests
  <1>6. WaitingIsTimed'
    BY <1>2 DEF Inv, WaitingIsTimed, Waits, Timed, Queued
  <1> QED BY <1>3, <1>4, <1>5, <1>6 DEF Inv

LEMMA CloseInv ==
  ASSUME Inv, NEW c \in Conn, Close(c)
  PROVE  Inv'
PROOF
  <1> USE DEF Close, Inv, game, store, clock, task, history, hub
  <1>0. /\ conn' \in [Conn -> Connection]
        /\ \A d \in Conn : /\ d # c => conn'[d] = conn[d]
                           /\ conn'[d].at \in {conn[d].at, "free"}
                           /\ conn'[d].at # "free" => conn'[d].who = conn[d].who
                           /\ conn[c].at = "bound" => conn'[c].at = "free"
    <2>1. CASE conn[c].at \in {"bound", "refused"}
      BY <2>1, FreeIsConnection DEF TypeOK
    <2>2. CASE conn[c].at \notin {"bound", "refused"}
      BY <2>2, SocketsGo DEF TypeOK
    <2> QED BY <2>1, <2>2
  <1>1. TypeOK'
    BY <1>0 DEF TypeOK, HellosArePeople
  <1>2. TasksArePeoples' /\ HeadActs' /\ ClockInOrder' /\ DesertedRests' /\ WaitingIsTimed'
    BY ClockUntouched
  <1>3. HellosArePeople' /\ NobodyBeforeRecovery'
    BY <1>0 DEF HellosArePeople, NobodyBeforeRecovery
  <1>4. NoticesAreRight'
    BY DEF NoticesAreRight, HellosArePeople, WasCurrent, TypeOK
  <1>5. LastHelloKeepsTheSeat'
    <2> SUFFICES ASSUME NEW p \in Human, last'[p] # None, conn'[last'[p]].at = "bound",
                        conn'[last'[p]].who = p
                 PROVE  members'[p] = last'[p]
      BY DEF LastHelloKeepsTheSeat
    <2>1. /\ last'[p] = last[p] /\ last[p] \in Conn
          /\ conn[last[p]].at = "bound" /\ conn[last[p]].who = p
      BY <1>0 DEF TypeOK
    <2>2. members[p] = last[p]
      BY <2>1 DEF LastHelloKeepsTheSeat
    <2>3. last[p] # c
      BY <1>0, <2>1
    <2>4. members'[p] = members[p]
      BY <2>2, <2>3 DEF WasCurrent, TypeOK
    <2> QED BY <2>1, <2>2, <2>4
  <1> QED BY <1>1, <1>2, <1>3, <1>4, <1>5

LEMMA ForgetRevokeInv ==
  ASSUME Inv, \/ \E c \in Conn : Forget(c)
              \/ \E p \in Human : Revoke(p)
  PROVE  Inv'
PROOF
  <1> USE DEF Forget, Revoke, Inv, game, store, clock, notices, task, history, hub
  <1> DEFINE Fewer == /\ conn' \in [Conn -> Connection]
                      /\ \A d \in Conn :
                           /\ conn'[d].at \in {conn[d].at, "free"}
                           /\ conn'[d].at # "free" => conn'[d].who = conn[d].who
  <1>0. Fewer
    <2>1. ASSUME NEW c \in Conn, Forget(c)
          PROVE  Fewer
      BY <2>1, FreeIsConnection DEF TypeOK
    <2>2. ASSUME NEW p \in Human, Revoke(p)
          PROVE  Fewer
      BY <2>2, SocketsGo
    <2> QED BY <2>1, <2>2
  <1>1. TypeOK'
    BY <1>0 DEF TypeOK
  <1>2. TasksArePeoples' /\ HeadActs' /\ ClockInOrder' /\ DesertedRests' /\ WaitingIsTimed'
    BY ClockUntouched
  <1>3. HellosArePeople'
    BY <1>0 DEF HellosArePeople
  <1>4. NobodyBeforeRecovery' /\ NoticesAreRight' /\ LastHelloKeepsTheSeat'
    BY <1>0, NobodyBinds
  <1> QED BY <1>1, <1>2, <1>3, <1>4

LEMMA LeaveCheckInv ==
  ASSUME Inv, NEW p \in Human, LeaveCheck(p)
  PROVE  Inv'
PROOF
  <1> USE DEF LeaveCheck, Inv, game, store, clock, task, history, hub
  <1>1. TypeOK'
    BY DEF TypeOK
  <1>2. TasksArePeoples' /\ HeadActs' /\ ClockInOrder' /\ DesertedRests' /\ WaitingIsTimed'
    BY ClockUntouched
  <1>3. HellosArePeople' /\ NobodyBeforeRecovery'
    BY DEF HellosArePeople, NobodyBeforeRecovery
  <1>4. NoticesAreRight'
    BY DEF NoticesAreRight, StillAway, NobodyBeforeRecovery
  <1>5. LastHelloKeepsTheSeat'
    BY DEF LastHelloKeepsTheSeat
  <1> QED BY <1>1, <1>2, <1>3, <1>4, <1>5

-----------------------------------------------------------------------------
(* The return of a player, and a turn that was auto-played. *)

LEMMA SequenceOfWrites ==
  ASSUME NEW w \in Seq(Write), NEW x \in Write
  PROVE  /\ <<x>> \in Seq(Write) /\ <<>> \in Seq(Write)
         /\ Append(w, x) \in Seq(Write)
         /\ \A v \in Seq(Write) : w \o v \in Seq(Write)
OBVIOUS

LEMMA WritesAreWrites ==
  /\ Stamp(TRUE) \in Write /\ Stamp(FALSE) \in Write
  /\ \A b \in SUBSET Player : RosterOf(b) \in Write
BY DEF Write

(* Counters kept per person. *)
LEMMA Counters ==
  /\ [q \in Human |-> 0] \in [Human -> Nat]
  /\ \A f \in [Human -> Nat], p \in Human, n \in Nat :
       /\ [f EXCEPT ![p] = n] \in [Human -> Nat]
       /\ \A q \in Human : [f EXCEPT ![p] = n][q] = IF q = p THEN n ELSE f[q]
OBVIOUS

LEMMA ReturnFacts ==
  ASSUME Inv, NEW p \in Human, Return(p)
  PROVE  /\ writes' \in Seq(Write)
         /\ bots' = bots \ {p} /\ paused' = FALSE
         /\ streak' = 0 /\ unmanned' = 0
         /\ strikes' \in [Human -> Nat] /\ missed' \in [Human -> Nat]
         /\ \A q \in Human : strikes'[q] <= missed'[q]
PROOF
  <1>1. writes' \in Seq(Write)
    <2> DEFINE v == IF p \in bots THEN <<RosterOf(bots \ {p})>> ELSE <<>>
               w == IF paused THEN <<Stamp(FALSE)>> ELSE <<>>
    <2>1. RosterOf(bots \ {p}) \in Write
      BY WritesAreWrites DEF Inv, TypeOK
    <2>2. v \in Seq(Write) /\ w \in Seq(Write) /\ writes \in Seq(Write)
      BY <2>1, WritesAreWrites, SequenceOfWrites DEF Inv, TypeOK
    <2>3. writes' = writes \o v \o w
      BY DEF Return
    <2> HIDE DEF v, w
    <2> QED BY <2>2, <2>3
  <1>2. strikes \in [Human -> Nat] /\ missed \in [Human -> Nat]
    BY DEF Inv, TypeOK
  <1>3. /\ missed' \in [Human -> Nat]
        /\ \A q \in Human : missed'[q] = IF q = p THEN 0 ELSE missed[q]
    BY <1>2, Counters DEF Return
  <1>4. /\ strikes' \in [Human -> Nat]
        /\ \A q \in Human : strikes'[q] = IF over' \/ q = p THEN 0 ELSE strikes[q]
    <2>1. CASE over'
      BY <2>1, Counters DEF Return, Forgive, Strikes
    <2>2. CASE ~over'
      BY <1>2, <2>2, Counters DEF Return, Forgive, Strikes
    <2> QED BY <2>1, <2>2
  <1>5. strikes' \in [Human -> Nat] /\ missed' \in [Human -> Nat]
    BY <1>3, <1>4
  <1>6. \A q \in Human : strikes'[q] <= missed'[q]
    BY <1>2, <1>3, <1>4 DEF Inv, ClockInOrder
  <1> QED BY <1>1, <1>5, <1>6 DEF Return, Forgive

(* Whom a lapse may cost the seat, and what it leaves of the clock armed for t. *)
LEMMA CountFacts ==
  ASSUME Inv, NEW p \in Human, NEW t \in Human \cup {None}, Count(p, t)
  PROVE  /\ writes' \in Seq(Write)
         /\ bots \subseteq bots' /\ bots' \subseteq Player
         /\ timer' \in Human \cup {None} /\ paused' \in BOOLEAN
         /\ streak' \in Nat /\ unmanned' = unmanned + 1
         /\ strikes' \in [Human -> Nat] /\ missed' \in [Human -> Nat]
         /\ \A q \in Human : strikes'[q] <= missed'[q]
         /\ mapped' \in BOOLEAN /\ (~mapped' => ~mapped /\ bots' = bots)
         /\ ~over' => streak' = streak + 1
         /\ streak' >= PauseAfter => paused'
         /\ ~paused' => timer' = t /\ (paused => over')
         /\ paused' => timer' = None \/ (timer' = t /\ paused /\ ~over')
         /\ \A q \in bots' \ bots :
              missed'[q] >= TakeoverAfter /\ Connected \ {q} # {}
PROOF
  <1> DEFINE n == IF over' THEN 1 ELSE strikes[p] + 1
             k == IF over' THEN 1 ELSE streak + 1
  <1>0. strikes \in [Human -> Nat] /\ missed \in [Human -> Nat] /\ n \in Nat
    BY DEF Inv, TypeOK
  <1>1. /\ missed' \in [Human -> Nat]
        /\ \A q \in Human : missed'[q] = IF q = p THEN missed[p] + 1 ELSE missed[q]
    BY <1>0, Counters DEF Count
  <1>2. \A q \in Human : strikes[q] <= missed[q]
    BY DEF Inv, ClockInOrder
  <1>3. n <= missed'[p]
    BY <1>0, <1>1, <1>2
  <1>4. /\ Strikes(p) \in [Human -> Nat]
        /\ \A q \in Human : Strikes(p)[q] = IF over' \/ q = p THEN 0 ELSE strikes[q]
    <2>1. CASE over'
      BY <2>1, Counters DEF Strikes
    <2>2. CASE ~over'
      BY <1>0, <2>2, Counters DEF Strikes
    <2> QED BY <2>1, <2>2
  <1>5. \A q \in Human : Strikes(p)[q] <= missed'[q]
    BY <1>0, <1>1, <1>2, <1>4
  <1>6. strikes' \in [Human -> Nat] /\ missed' \in [Human -> Nat]
        /\ \A q \in Human : strikes'[q] <= missed'[q]
    <2> HIDE DEF n
    <2>1. CASE strikes' = Strikes(p)
      BY <1>1, <1>4, <1>5, <2>1
    <2>2. CASE strikes' = [Strikes(p) EXCEPT ![p] = n]
      BY <1>0, <1>1, <1>3, <1>4, <1>5, <2>2, Counters
    <2> QED BY <2>1, <2>2 DEF Count, n
  <1> HIDE DEF n
  <1>7. /\ unmanned' = unmanned + 1 /\ streak' = k /\ k \in Nat
        /\ ~over' => k = streak + 1
        /\ paused \in BOOLEAN /\ PauseAfter \in Nat
    BY ParameterAssumption DEF Count, Inv, TypeOK
  <1> HIDE DEF k
  <1>8. bots \subseteq Player /\ writes \in Seq(Write) /\ mapped \in BOOLEAN
    BY DEF Inv, TypeOK
  <1>9. CASE k >= PauseAfter /\ MarkInactive(t) /\ UNCHANGED <<bots, mapped>>
    <2>1. writes' \in Seq(Write)
      BY <1>8, <1>9, WritesAreWrites, SequenceOfWrites DEF MarkInactive
    <2> QED BY <1>6, <1>7, <1>8, <1>9, <2>1 DEF MarkInactive
  <1>10. CASE /\ k < PauseAfter /\ TakesOver(p, n)
              /\ bots' = bots \cup {p} /\ mapped' = TRUE
              /\ writes' = Append(writes, RosterOf(bots'))
              /\ timer' = t /\ paused' = (paused /\ ~over')
    <2>1. writes' \in Seq(Write)
      <3>1. bots' \in SUBSET Player
        BY <1>8, <1>10 DEF Player
      <3> QED BY <1>8, <1>10, <3>1, WritesAreWrites, SequenceOfWrites
    <2>2. \A q \in bots' \ bots : q = p
      BY <1>10
    <2>3. missed'[p] >= TakeoverAfter /\ Connected \ {p} # {}
      BY <1>0, <1>1, <1>3, <1>10, ParameterAssumption DEF TakesOver
    <2>4. paused' \in BOOLEAN /\ (paused' <=> (paused /\ ~over'))
      BY <1>10
    <2>5. bots \subseteq bots' /\ bots' \subseteq Player
      BY <1>8, <1>10 DEF Player
    <2> QED BY <1>6, <1>7, <1>10, <2>1, <2>2, <2>3, <2>4, <2>5
  <1>11. CASE /\ k < PauseAfter
              /\ timer' = t /\ paused' = (paused /\ ~over')
              /\ UNCHANGED <<bots, mapped, writes>>
    <2>1. paused' \in BOOLEAN /\ (paused' <=> (paused /\ ~over'))
      BY <1>11
    <2> QED BY <1>6, <1>7, <1>8, <1>11, <2>1
  <1> QED BY <1>9, <1>10, <1>11 DEF Count, n, k

LEMMA BindInv ==
  ASSUME Inv, NEW c \in Conn, Bind(c)
  PROVE  Inv'
PROOF
  <1> DEFINE p == conn[c].who
  <1> USE DEF game, task, history, bounds, hub
  <1>1. p \in Human /\ resident
    BY DEF Bind, Inv, HellosArePeople
  <1>2. /\ conn' \in [Conn -> Connection]
        /\ \A d \in Conn : /\ conn'[d].who = conn[d].who
                           /\ conn'[d].at = IF d = c THEN "bound" ELSE conn[d].at
    BY MoveConn DEF Bind, Stage
  <1>3. /\ writes' \in Seq(Write)
        /\ bots' = bots \ {p} /\ paused' = FALSE
        /\ streak' = 0 /\ unmanned' = 0
        /\ strikes' \in [Human -> Nat] /\ missed' \in [Human -> Nat]
        /\ \A q \in Human : strikes'[q] <= missed'[q]
    BY <1>1, ReturnFacts DEF Bind
  <1>4. TypeOK'
    BY <1>1, <1>2, <1>3 DEF Bind, Inv, TypeOK, Returned, ClockFor
  <1>5. HellosArePeople' /\ NobodyBeforeRecovery'
    BY <1>1, <1>2 DEF Bind, Inv, HellosArePeople, NobodyBeforeRecovery
  <1>6. TasksArePeoples' /\ HeadActs'
    BY DEF Bind, Inv, TasksArePeoples, HeadActs, Job
  <1>7. ClockInOrder' /\ DesertedRests'
    BY <1>3, ParameterAssumption DEF ClockInOrder, DesertedRests, Bind, Inv
  <1>8. WaitingIsTimed'
    BY <1>3 DEF Bind, Rearms, ClockFor, Inv, WaitingIsTimed, Waits, Timed, Queued, TypeOK
  <1>9. NoticesAreRight'
    BY <1>1, PeopleAreSomebody DEF Bind, Inv, NoticesAreRight, Returned, TypeOK
  <1>10. LastHelloKeepsTheSeat'
    BY <1>1, <1>2 DEF Bind, Inv, LastHelloKeepsTheSeat, TypeOK
  <1> QED BY <1>4, <1>5, <1>6, <1>7, <1>8, <1>9, <1>10 DEF Inv

-----------------------------------------------------------------------------
(* The command queue. *)

LEMMA TaskAdded ==
  ASSUME Inv, NEW t \in Task, t.kind # "bot" => t.who \in Human, queue' = Append(queue, t),
         UNCHANGED <<pc, played, turn, over>>
  PROVE  /\ queue' \in Seq(Task) /\ TasksArePeoples' /\ HeadActs'
         /\ \A u \in Task : Queued(u) \/ u = t => Queued(u)'
PROOF
  <1>1. queue \in Seq(Task)
    BY DEF Inv, TypeOK
  <1>2. /\ queue' \in Seq(Task) /\ Len(queue') = Len(queue) + 1
        /\ \A i \in DOMAIN queue' :
             queue'[i] = IF i = Len(queue) + 1 THEN t ELSE queue[i]
    BY <1>1
  <1>3. \A i \in DOMAIN queue : i \in DOMAIN queue' /\ queue'[i] = queue[i]
    BY <1>1, <1>2
  <1>4. Len(queue) + 1 \in DOMAIN queue' /\ queue'[Len(queue) + 1] = t
    BY <1>1, <1>2
  <1>5. \A i \in DOMAIN queue' : i \in DOMAIN queue \/ i = Len(queue) + 1
    BY <1>1, <1>2
  <1>6. queue # <<>> => queue' # <<>> /\ Job' = Job
    BY <1>1, <1>2 DEF Job
  <1>7. TasksArePeoples'
    BY <1>2, <1>5 DEF Inv, TasksArePeoples
  <1>8. HeadActs'
    BY <1>6 DEF Inv, HeadActs
  <1>9. \A u \in Task : Queued(u) \/ u = t => Queued(u)'
    BY <1>3, <1>4 DEF Queued
  <1> QED BY <1>2, <1>7, <1>8, <1>9

LEMMA TaskDone ==
  ASSUME Inv, queue # <<>>, NextTask, over' => turn' = None
  PROVE  /\ queue' \in Seq(Task) /\ pc' = "idle" /\ played' = FALSE
         /\ TasksArePeoples' /\ HeadActs'
         /\ \A u \in Task : Queued(u) /\ u # Job => Queued(u)'
PROOF
  <1>1. queue \in Seq(Task)
    BY DEF Inv, TypeOK
  <1>2. /\ queue' \in Seq(Task) /\ Len(queue') = Len(queue) - 1
        /\ \A i \in DOMAIN queue' : i + 1 \in DOMAIN queue /\ queue'[i] = queue[i + 1]
    BY <1>1 DEF NextTask
  <1>3. \A i \in DOMAIN queue : i = 1 \/ (i - 1 \in DOMAIN queue' /\ queue'[i - 1] = queue[i])
    BY <1>1, <1>2
  <1>4. TasksArePeoples'
    BY <1>2 DEF Inv, TasksArePeoples
  <1>5. HeadActs'
    BY DEF NextTask, HeadActs
  <1>6. \A u \in Task : Queued(u) /\ u # Job => Queued(u)'
    BY <1>1, <1>3 DEF Queued, Job
  <1> QED BY <1>2, <1>4, <1>5, <1>6 DEF NextTask

(* The task at the head is a task, and a person's unless it is a bot's. *)
LEMMA HeadIsTask ==
  ASSUME Inv, queue # <<>>
  PROVE  /\ Job \in Task /\ Queued(Job)
         /\ Job.kind # "bot" => Job.who \in Human
PROOF
  <1>1. queue \in Seq(Task) /\ 1 \in DOMAIN queue /\ Job = queue[1]
    BY DEF Inv, TypeOK, Job
  <1> QED BY <1>1 DEF Inv, TasksArePeoples, Queued

LEMMA EnqueueInv ==
  ASSUME Inv, \/ \E c \in Conn : Command(c)
              \/ \E p \in Human : EndGame(p)
              \/ DriveBots
  PROVE  Inv'
PROOF
  <1> USE DEF Command, EndGame, DriveBots, Enqueue, game, store, clock, notices, history, hub
  <1>1. PICK t \in Task : /\ t.kind # "bot" => t.who \in Human
                          /\ queue' = Append(queue, t)
    <2>1. ASSUME NEW c \in Conn, Command(c)
          PROVE  conn[c].who \in Human
      BY <2>1 DEF Inv, HellosArePeople
    <2>2. CASE \E c \in Conn : Command(c)
      <3>1. PICK c \in Conn : Command(c)
        BY <2>2
      <3>2. [kind |-> "command", who |-> conn[c].who] \in Task /\ conn[c].who \in Human
        BY <2>1, <3>1 DEF Task, Player
      <3> QED BY <3>1, <3>2
    <2>3. CASE \E p \in Human : EndGame(p)
      BY <2>3 DEF Task, Player
    <2>4. CASE DriveBots
      BY <2>4 DEF Task, Player, Inv, TypeOK
    <2> QED BY <2>2, <2>3, <2>4
  <1>2. /\ queue' \in Seq(Task) /\ TasksArePeoples' /\ HeadActs'
        /\ \A u \in Task : Queued(u) => Queued(u)'
    BY <1>1, TaskAdded
  <1>3. UNCHANGED <<game, store, hub, members, clock, notices, conn, history>>
    BY DEF bounds
  <1>4. TypeOK'
    <2>1. UNCHANGED <<pc, played>>
      BY DEF bounds
    <2> QED BY <1>2, <1>3, <2>1 DEF Inv, TypeOK
  <1>5. HellosArePeople' /\ NobodyBeforeRecovery' /\ NoticesAreRight' /\ LastHelloKeepsTheSeat'
    BY <1>3, SeatsUntouched
  <1>6. ClockInOrder' /\ DesertedRests'
    BY <1>3 DEF Inv, ClockInOrder, DesertedRests, clock
  <1>7. WaitingIsTimed'
    BY <1>2, <1>3 DEF clock, Inv, WaitingIsTimed, Waits, Timed, Task, Player
  <1> QED BY <1>2, <1>4, <1>5, <1>6, <1>7 DEF Inv

LEMMA LapseInv == Inv /\ Lapse => Inv'
PROOF
  <1> SUFFICES ASSUME Inv, Lapse PROVE Inv'
    OBVIOUS
  <1> USE DEF Lapse, game, notices, history, bounds, hub
  <1>0. HellosArePeople' /\ NobodyBeforeRecovery' /\ NoticesAreRight' /\ LastHelloKeepsTheSeat'
    BY SeatsUntouched
  <1>1. timer \in Human
    BY DEF Inv, TypeOK
  <1>2. CASE Attended
    <2> DEFINE t == [kind |-> "auto", who |-> timer]
    <2>1. t \in Task /\ t.kind = "auto" /\ t.who \in Human
      BY <1>1 DEF Task, Player
    <2>2. timer' = None /\ queue' = Append(queue, t) /\ UNCHANGED <<paused, writes>>
      BY <1>2 DEF Enqueue
    <2>3. /\ queue' \in Seq(Task) /\ TasksArePeoples' /\ HeadActs'
          /\ \A u \in Task : Queued(u) \/ u = t => Queued(u)'
      BY <2>1, <2>2, TaskAdded
    <2>4. TypeOK'
      BY <2>2, <2>3 DEF Inv, TypeOK
    <2>5. ClockInOrder' /\ DesertedRests'
      BY <2>2 DEF Inv, ClockInOrder, DesertedRests
    <2>6. WaitingIsTimed'
      BY <2>2, <2>3 DEF Inv, WaitingIsTimed, Waits, Timed, Task, Player
    <2> QED BY <1>0, <2>3, <2>4, <2>5, <2>6 DEF Inv
  <1>3. CASE ~Attended
    <2>1. paused' = TRUE /\ timer' = None /\ queue' = queue
      BY <1>3 DEF MarkInactive
    <2>2. writes' \in Seq(Write)
      BY <1>3, WritesAreWrites, SequenceOfWrites DEF MarkInactive, Inv, TypeOK
    <2>3. TypeOK'
      BY <2>1, <2>2 DEF Inv, TypeOK
    <2>4. TasksArePeoples' /\ HeadActs' /\ ClockInOrder' /\ DesertedRests' /\ WaitingIsTimed'
      BY <2>1 DEF Inv, TasksArePeoples, HeadActs, Job, ClockInOrder, DesertedRests,
                  WaitingIsTimed, Waits
    <2> QED BY <1>0, <2>3, <2>4 DEF Inv
  <1> QED BY <1>2, <1>3

LEMMA StartInv == Inv /\ Start => Inv'
PROOF
  <1> SUFFICES ASSUME Inv, Start PROVE Inv'
    OBVIOUS
  <1> USE DEF Start, game, store, clock, notices, history, hub
  <1>0. HellosArePeople' /\ NobodyBeforeRecovery' /\ NoticesAreRight' /\ LastHelloKeepsTheSeat'
    BY SeatsUntouched
  <1>1. TypeOK'
    BY DEF Inv, TypeOK
  <1>2. HeadActs'
    <2>1. Job \in Task
      BY HeadIsTask
    <2>2. Job.who # None
      BY <2>1, SeatsAssumption DEF Task
    <2>3. ~over /\ (Job.kind = "auto" => turn = Job.who)
      BY <2>1, <2>2 DEF CanAct, Task, Inv, HeadActs
    <2> QED BY <2>3 DEF HeadActs, Inv, Job
  <1>3. TasksArePeoples' /\ ClockInOrder' /\ DesertedRests' /\ WaitingIsTimed'
    BY DEF Inv, TasksArePeoples, ClockInOrder, DesertedRests, WaitingIsTimed, Waits, Timed,
           Queued
  <1> QED BY <1>0, <1>1, <1>2, <1>3 DEF Inv

LEMMA DismissInv == Inv /\ Dismiss => Inv'
PROOF
  <1> SUFFICES ASSUME Inv, Dismiss PROVE Inv'
    OBVIOUS
  <1> USE DEF Dismiss, game, store, clock, notices, history, hub
  <1>0. HellosArePeople' /\ NobodyBeforeRecovery' /\ NoticesAreRight' /\ LastHelloKeepsTheSeat'
    BY SeatsUntouched
  <1>1. /\ queue' \in Seq(Task) /\ pc' = "idle" /\ played' = FALSE
        /\ TasksArePeoples' /\ HeadActs'
        /\ \A u \in Task : Queued(u) /\ u # Job => Queued(u)'
    BY TaskDone DEF Inv, HeadActs
  <1>2. TypeOK'
    BY <1>1 DEF Inv, TypeOK
  <1>3. ClockInOrder' /\ DesertedRests'
    BY DEF Inv, ClockInOrder, DesertedRests
  <1>4. WaitingIsTimed'
    <2>1. turn \in Human => [kind |-> "auto", who |-> turn] \in Task
      BY DEF Task, Player
    <2>2. Job # [kind |-> "auto", who |-> turn]
      <3> SUFFICES ASSUME Job = [kind |-> "auto", who |-> turn] PROVE CanAct(Job)
        OBVIOUS
      <3>1. Job.kind = "auto" /\ Job.who = turn
        OBVIOUS
      <3> QED BY <3>1 DEF CanAct
    <2> QED BY <1>1, <2>1, <2>2 DEF Inv, WaitingIsTimed, Waits, Timed
  <1> QED BY <1>0, <1>1, <1>2, <1>3, <1>4 DEF Inv

-----------------------------------------------------------------------------
(* Commits, refused appends, writes that land, crashes. *)

LEMMA PersistedInv == Inv /\ Persisted => Inv'
PROOF
  <1> SUFFICES ASSUME Inv, Persisted PROVE Inv'
    OBVIOUS
  <1> USE DEF notices, hub
  <1>0. /\ pc = "persist" /\ queue # <<>> /\ ~over
        /\ Job \in Task /\ (Job.kind # "bot" => Job.who \in Human) /\ Job.who # None
        /\ UNCHANGED <<pausedAt, roster, hub, members, notices, conn, last>>
    BY HeadIsTask, SeatsAssumption DEF Persisted, Inv, HeadActs, Task
  <1>1. over' \in BOOLEAN /\ turn' \in Player \cup {None} /\ (over' => turn' = None)
    BY DEF Persisted, Outcome
  <1>2. HellosArePeople' /\ NobodyBeforeRecovery' /\ NoticesAreRight' /\ LastHelloKeepsTheSeat'
    BY <1>0, SeatsUntouched
  <1>3. NextTask => /\ queue' \in Seq(Task) /\ pc' = "idle" /\ played' = FALSE
                    /\ TasksArePeoples' /\ HeadActs'
    BY <1>0, <1>1, TaskDone
  <1>4. CASE /\ Job.kind = "command" /\ Return(Job.who) /\ Rearm(bots', FALSE) /\ NextTask
             /\ UNCHANGED mapped
    <2>1. /\ writes' \in Seq(Write)
          /\ bots' = bots \ {Job.who} /\ paused' = FALSE
          /\ streak' = 0 /\ unmanned' = 0
          /\ strikes' \in [Human -> Nat] /\ missed' \in [Human -> Nat]
          /\ \A q \in Human : strikes'[q] <= missed'[q]
      BY <1>0, <1>4, ReturnFacts
    <2>2. timer' = ClockFor(turn', bots', FALSE) /\ slack' = FALSE
      BY <1>4 DEF Rearm
    <2>3. TypeOK'
      BY <1>0, <1>1, <1>3, <1>4, <2>1, <2>2 DEF Inv, TypeOK, ClockFor
    <2>4. ClockInOrder' /\ DesertedRests' /\ WaitingIsTimed'
      BY <1>4, <2>1, <2>2, ParameterAssumption
      DEF Inv, ClockInOrder, DesertedRests, WaitingIsTimed, Waits, Timed, ClockFor
    <2> QED BY <1>2, <1>3, <1>4, <2>3, <2>4 DEF Inv
  <1>5. CASE /\ Job.kind \in {"bot", "end"} /\ Marking /\ Rearm(bots, paused') /\ NextTask
             /\ UNCHANGED <<bots, mapped, writes, missed, unmanned>>
    <2>1. /\ paused' \in BOOLEAN /\ (paused' <=> (paused /\ ~over'))
          /\ (over' => streak' = 0) /\ (~over' => streak' = streak)
      BY <1>5 DEF Marking
    <2>2. timer' = ClockFor(turn', bots', paused') /\ slack' = FALSE
      BY <1>5 DEF Rearm
    <2>3. /\ strikes' \in [Human -> Nat]
          /\ \A q \in Human : strikes'[q] <= missed'[q]
      <3>1. CASE over'
        BY <1>5, <3>1, Counters DEF Marking, Inv, TypeOK
      <3>2. CASE ~over'
        BY <1>5, <3>2 DEF Marking, Inv, TypeOK, ClockInOrder
      <3> QED BY <3>1, <3>2
    <2>4. TypeOK'
      <3>1. timer' \in Human \cup {None}
        BY <2>2 DEF ClockFor
      <3>2. streak' \in Nat
        BY <1>1, <2>1 DEF Inv, TypeOK
      <3> QED BY <1>0, <1>1, <1>3, <1>5, <2>1, <2>2, <2>3, <3>1, <3>2 DEF Inv, TypeOK
    <2>5. ClockInOrder' /\ DesertedRests' /\ WaitingIsTimed'
      BY <1>0, <1>5, <2>1, <2>2, <2>3
      DEF Inv, ClockInOrder, DesertedRests, WaitingIsTimed, Waits, Timed, ClockFor
    <2> QED BY <1>2, <1>3, <1>5, <2>4, <2>5 DEF Inv
  <1>6. CASE /\ Job.kind = "auto" /\ turn' = Job.who /\ Rearm(bots, paused) /\ played' = TRUE
             /\ UNCHANGED <<queue, pc, paused, streak, strikes, bots, mapped, writes,
                            missed, unmanned>>
    <2>1. ~over'
      BY <1>0, <1>1, <1>6
    <2>2. timer' = ClockFor(turn', bots', paused') /\ slack' = FALSE
      BY <1>6 DEF Rearm
    <2>3. TypeOK'
      BY <1>0, <1>1, <1>6, <2>2 DEF Inv, TypeOK, ClockFor
    <2>4. TasksArePeoples' /\ HeadActs'
      BY <1>0, <1>6, <2>1 DEF Inv, TasksArePeoples, HeadActs, Job
    <2>5. ClockInOrder' /\ DesertedRests' /\ WaitingIsTimed'
      BY <1>0, <1>6, <2>1, <2>2
      DEF Inv, ClockInOrder, DesertedRests, WaitingIsTimed, Waits, Timed, ClockFor
    <2> QED BY <1>2, <2>3, <2>4, <2>5 DEF Inv
  <1>7. CASE /\ Job.kind = "auto" /\ turn' # Job.who
             /\ Count(Job.who, ClockFor(turn', bots, paused /\ ~over'))
             /\ slack' = FALSE /\ NextTask
    <2> DEFINE t == ClockFor(turn', bots, paused /\ ~over')
    <2>1. t \in Human \cup {None}
      BY DEF ClockFor
    <2>2. /\ writes' \in Seq(Write)
          /\ bots \subseteq bots' /\ bots' \subseteq Player
          /\ timer' \in Human \cup {None} /\ paused' \in BOOLEAN
          /\ streak' \in Nat /\ unmanned' = unmanned + 1
          /\ strikes' \in [Human -> Nat] /\ missed' \in [Human -> Nat]
          /\ \A q \in Human : strikes'[q] <= missed'[q]
          /\ mapped' \in BOOLEAN /\ (~mapped' => ~mapped /\ bots' = bots)
          /\ ~over' => streak' = streak + 1
          /\ streak' >= PauseAfter => paused'
          /\ ~paused' => timer' = t /\ (paused => over')
          /\ paused' => timer' = None \/ (timer' = t /\ paused /\ ~over')
      <3> HIDE DEF t
      <3> QED BY <1>0, <1>7, <2>1, CountFacts DEF t
    <2>3. paused /\ ~over' => t = None
      BY DEF ClockFor
    <2>4. ~paused => t = ClockFor(turn', bots, FALSE)
      BY DEF ClockFor
    <2> HIDE DEF t
    <2>5. TypeOK'
      <3>1. unmanned' \in Nat
        BY <2>2 DEF Inv, TypeOK
      <3> QED BY <1>0, <1>1, <1>3, <1>7, <2>2, <3>1 DEF Inv, TypeOK
    <2>6. ClockInOrder' /\ DesertedRests'
      BY <1>0, <2>2, <2>3 DEF Inv, ClockInOrder, DesertedRests
    <2>7. WaitingIsTimed'
      <3> SUFFICES ASSUME turn' \in Human \ bots', ~paused' PROVE timer' = turn'
        BY DEF WaitingIsTimed, Waits, Timed
      <3>1. ~over'
        BY <1>1, PeopleAreSomebody
      <3>2. ~paused
        BY <2>2, <3>1
      <3> QED BY <2>2, <2>4, <3>2 DEF ClockFor
    <2> QED BY <1>2, <1>3, <1>7, <2>5, <2>6, <2>7 DEF Inv
  <1> QED BY <1>4, <1>5, <1>6, <1>7 DEF Persisted

LEMMA PersistFailsInv == Inv /\ PersistFails => Inv'
PROOF
  <1> SUFFICES ASSUME Inv, PersistFails PROVE Inv'
    OBVIOUS
  <1> USE DEF game, notices, clock, hub
  <1>0. /\ pc = "persist" /\ queue # <<>> /\ ~over /\ NextTask
        /\ (played => Job.kind = "auto") /\ (Job.kind # "bot" => Job.who \in Human)
        /\ UNCHANGED <<game, last, pausedAt, roster, hub, members, notices, conn>>
        /\ slack' \in BOOLEAN /\ (slack' <=> (slack \/ Job.kind = "auto"))
    BY HeadIsTask DEF PersistFails, Inv, HeadActs
  <1>1. HellosArePeople' /\ NobodyBeforeRecovery' /\ NoticesAreRight' /\ LastHelloKeepsTheSeat'
    BY <1>0, SeatsUntouched
  <1>2. /\ queue' \in Seq(Task) /\ pc' = "idle" /\ played' = FALSE
        /\ TasksArePeoples' /\ HeadActs'
        /\ \A u \in Task : Queued(u) /\ u # Job => Queued(u)'
    BY <1>0, TaskDone DEF Inv, HeadActs
  <1>3. CASE played
    <2>1. Job.kind = "auto" /\ Job.who \in Human /\ timer \in Human \cup {None}
      BY <1>0, <1>3 DEF Inv, TypeOK
    <2>2. /\ writes' \in Seq(Write)
          /\ bots \subseteq bots' /\ bots' \subseteq Player
          /\ timer' \in Human \cup {None} /\ paused' \in BOOLEAN
          /\ streak' \in Nat /\ unmanned' = unmanned + 1
          /\ strikes' \in [Human -> Nat] /\ missed' \in [Human -> Nat]
          /\ \A q \in Human : strikes'[q] <= missed'[q]
          /\ mapped' \in BOOLEAN /\ (~mapped' => ~mapped /\ bots' = bots)
          /\ ~over' => streak' = streak + 1
          /\ streak' >= PauseAfter => paused'
          /\ ~paused' => timer' = timer
          /\ paused' => timer' = None \/ (timer' = timer /\ paused /\ ~over')
      BY <1>3, <2>1, CountFacts DEF PersistFails
    <2>3. TypeOK'
      <3>1. unmanned' \in Nat
        BY <2>2 DEF Inv, TypeOK
      <3>2. UNCHANGED <<turn, over, roster, pausedAt, hub, members, leave, left, conn, last>>
        BY <1>0
      <3> QED BY <1>0, <1>2, <2>2, <3>1, <3>2 DEF Inv, TypeOK
    <2>4. ClockInOrder' /\ DesertedRests'
      BY <1>0, <2>2 DEF Inv, ClockInOrder, DesertedRests
    <2>5. WaitingIsTimed'
      BY <1>0, <2>1 DEF WaitingIsTimed
    <2> QED BY <1>1, <1>2, <2>3, <2>4, <2>5 DEF Inv
  <1>4. CASE ~played
    <2>1. UNCHANGED <<clock, writes, missed, unmanned>>
      BY <1>4 DEF PersistFails
    <2>2. TypeOK'
      BY <1>0, <1>2, <2>1 DEF Inv, TypeOK
    <2>3. ClockInOrder' /\ DesertedRests'
      BY <1>0, <2>1 DEF Inv, ClockInOrder, DesertedRests
    <2>4. WaitingIsTimed'
      <3>1. turn \in Human => [kind |-> "auto", who |-> turn] \in Task
        BY DEF Task, Player
      <3>2. ~slack' => ~slack /\ Job # [kind |-> "auto", who |-> turn]
        BY <1>0
      <3> QED BY <1>0, <1>2, <2>1, <3>1, <3>2 DEF Inv, WaitingIsTimed, Waits, Timed
    <2> QED BY <1>1, <1>2, <2>2, <2>3, <2>4 DEF Inv
  <1> QED BY <1>3, <1>4

LEMMA LandInv ==
  ASSUME Inv, NEW i \in DOMAIN writes, Land(i)
  PROVE  Inv'
PROOF
  <1> USE DEF Land, game, clock, notices, task, history, hub
  <1>1. writes \in Seq(Write) /\ i \in 1 .. Len(writes)
    BY DEF Inv, TypeOK
  <1>2. writes' \in Seq(Write)
    <2>1. \A j \in 1 .. Len(writes) - 1 :
            (IF j < i THEN writes[j] ELSE writes[j + 1]) \in Write
      BY <1>1
    <2> QED BY <1>1, <2>1
  <1>3. pausedAt' \in BOOLEAN /\ roster' \subseteq Player
    <2>1. writes[i] \in Write
      BY <1>1
    <2> QED BY <2>1 DEF Write, Stamp, RosterOf, Inv, TypeOK
  <1>4. TypeOK'
    BY <1>2, <1>3 DEF Inv, TypeOK
  <1>5. TasksArePeoples' /\ HeadActs' /\ ClockInOrder' /\ DesertedRests' /\ WaitingIsTimed'
    BY ClockUntouched
  <1>6. HellosArePeople' /\ NobodyBeforeRecovery' /\ NoticesAreRight' /\ LastHelloKeepsTheSeat'
    BY SeatsUntouched
  <1> QED BY <1>4, <1>5, <1>6 DEF Inv

LEMMA CrashInv == Inv /\ Crash => Inv'
PROOF
  <1> SUFFICES ASSUME Inv, Crash PROVE Inv'
    OBVIOUS
  <1> USE DEF Crash, game, hub
  <1>1. TypeOK'
    <2>1. conn' \in [Conn -> Connection]
      BY FreeIsConnection
    <2>2. writes' \in Seq(Write) /\ queue' \in Seq(Task)
      OBVIOUS
    <2>3. loading' \in Seq(SUBSET Player) /\ Len(loading') <= 1
      OBVIOUS
    <2> QED BY <2>1, <2>2, <2>3, Counters DEF Inv, TypeOK
  <1>2. HellosArePeople' /\ NobodyBeforeRecovery'
    BY FreeIsConnection DEF HellosArePeople, NobodyBeforeRecovery
  <1>3. TasksArePeoples' /\ HeadActs'
    BY DEF TasksArePeoples, HeadActs, Inv
  <1>4. ClockInOrder' /\ DesertedRests' /\ WaitingIsTimed'
    BY ParameterAssumption
    DEF Inv, TypeOK, ClockInOrder, DesertedRests, WaitingIsTimed, Waits
  <1>5. NoticesAreRight' /\ LastHelloKeepsTheSeat'
    BY DEF NoticesAreRight, LastHelloKeepsTheSeat
  <1> QED BY <1>1, <1>2, <1>3, <1>4, <1>5 DEF Inv

-----------------------------------------------------------------------------
(* The theorems. *)

LEMMA StutterInv == Inv /\ UNCHANGED vars => Inv'
PROOF
  <1> SUFFICES ASSUME Inv, UNCHANGED vars PROVE Inv'
    OBVIOUS
  <1> USE DEF vars, game, store, clock, notices, task, history, hub
  <1>1. TypeOK'
    BY DEF Inv, TypeOK
  <1>2. TasksArePeoples' /\ HeadActs' /\ ClockInOrder' /\ DesertedRests' /\ WaitingIsTimed'
    BY ClockUntouched
  <1>3. HellosArePeople' /\ NobodyBeforeRecovery' /\ NoticesAreRight' /\ LastHelloKeepsTheSeat'
    BY SeatsUntouched
  <1> QED BY <1>1, <1>2, <1>3 DEF Inv

LEMMA NextInv == Inv /\ [Next]_vars => Inv'
PROOF
  <1> SUFFICES ASSUME Inv, [Next]_vars PROVE Inv'
    OBVIOUS
  <1>1. ASSUME NEW c \in Conn, Socket(c)
        PROVE  Inv'
    BY <1>1, VerdictInv, BindInv, CloseInv, ForgetRevokeInv, EnqueueInv DEF Socket
  <1>2. ASSUME NEW c \in Conn, NEW p \in Human, Dial(p, c)
        PROVE  Inv'
    BY <1>2, DialInv
  <1>3. ASSUME NEW p \in Human, Revoke(p) \/ LeaveCheck(p) \/ EndGame(p)
        PROVE  Inv'
    BY <1>3, ForgetRevokeInv, LeaveCheckInv, EnqueueInv
  <1>4. ASSUME NEW i \in DOMAIN writes, Land(i)
        PROVE  Inv'
    BY <1>4, LandInv
  <1>5. CASE Adopt \/ LoadRoster \/ DriveBots \/ Lapse \/ Start \/ Dismiss
    BY <1>5, AdoptInv, LoadRosterInv, EnqueueInv, LapseInv, StartInv, DismissInv
  <1>6. CASE Persisted \/ PersistFails \/ Crash
    BY <1>6, PersistedInv, PersistFailsInv, CrashInv
  <1>7. CASE UNCHANGED vars
    BY <1>7, StutterInv
  <1> QED BY <1>1, <1>2, <1>3, <1>4, <1>5, <1>6, <1>7 DEF Next

(* Inv is an inductive invariant of the seats, their sockets and the clock
   (handleHello, closeConnection, runTurnTimeout, reclaimSeat). *)
THEOREM Invariance == Spec => []Inv
PROOF
  <1>1. Init => Inv
    BY InitInv
  <1>2. Inv /\ [Next]_vars => Inv'
    BY NextInv
  <1> QED BY <1>1, <1>2, PTL DEF Spec

(* Every variable keeps its type (the fields of RealtimeHub, the games row). *)
THEOREM TypeCorrect == Spec => []TypeOK
PROOF
  <1>1. Inv => TypeOK
    BY DEF Inv
  <1> QED BY <1>1, Invariance, PTL

(* The connection that bound a seat last keeps it until it closes itself, however
   many hellos overlapped and however late the replaced sockets close
   (handleHello, closeConnection's wasCurrent). *)
THEOREM SeatIsKept == Spec => []LastHelloKeepsTheSeat
PROOF
  <1>1. Inv => LastHelloKeepsTheSeat
    BY DEF Inv
  <1> QED BY <1>1, Invariance, PTL

(* Nobody seated is shown as gone, and no drop goes unnoticed (scheduleLeaveCheck,
   cancelLeaveCheck, recordConnectionChange). *)
THEOREM NoticesHold == Spec => []NoticesAreRight
PROOF
  <1>1. Inv => NoticesAreRight
    BY DEF Inv
  <1> QED BY <1>1, Invariance, PTL

(* A game that waits for a person has their clock running, their lapse queued, or is
   marked inactive (scheduleTurnTimeout, reclaimSeat, resumeAutoPlay, runTurnTimeout). *)
THEOREM WaitingHasAClock == Spec => []WaitingIsTimed
PROOF
  <1>1. Inv => WaitingIsTimed
    BY DEF Inv
  <1> QED BY <1>1, Invariance, PTL

(* After PauseAfter turns that nobody was there for the game is marked inactive, and an
   inactive game has no clock (pauseAutoPlay, scheduleTurnTimeout). *)
THEOREM DesertedGamesRest == Spec => []DesertedRests
PROOF
  <1>1. Inv => DesertedRests
    BY DEF Inv
  <1> QED BY <1>1, Invariance, PTL

(* A bot is given a person's seat only after TakeoverAfter missed turns in a row, and
   only while somebody else waits, or back by the recovery that has read so in the
   game's document (runTurnTimeout, takeOverSeat, recoverMatchOnce). *)
THEOREM TakeoversAreEarned == Spec => TakeoverIsEarned
PROOF
  <1> DEFINE Earned == \A p \in Human \cap (bots' \ bots) :
                         \/ missed'[p] >= TakeoverAfter /\ Connected \ {p} # {}
                         \/ LoadRoster /\ p \in Head(loading)
  <1>1. Inv /\ [Next]_vars => Earned
    <2> SUFFICES ASSUME Inv, [Next]_vars, NEW p \in Human \cap (bots' \ bots),
                        ~(LoadRoster /\ p \in Head(loading))
                 PROVE  missed'[p] >= TakeoverAfter /\ Connected \ {p} # {}
      OBVIOUS
    <2>1. \/ Persisted /\ Job.kind = "auto" /\ turn' # Job.who
          \/ PersistFails /\ played
      <3> USE DEF clock
      <3>1. ASSUME NEW c \in Conn, Socket(c)
            PROVE  FALSE
        BY <3>1 DEF Socket, FirstVerdict, Loaded, Bind, Return, SecondVerdict, Close, Forget,
                    Command
      <3>2. ASSUME NEW c \in Conn, NEW q \in Human, Dial(q, c)
            PROVE  FALSE
        BY <3>2 DEF Dial
      <3>3. ASSUME NEW q \in Human, Revoke(q) \/ LeaveCheck(q) \/ EndGame(q)
            PROVE  FALSE
        BY <3>3 DEF Revoke, LeaveCheck, EndGame
      <3>4. ASSUME NEW i \in DOMAIN writes, Land(i)
            PROVE  FALSE
        BY <3>4 DEF Land
      <3>5. ~(\/ Adopt \/ LoadRoster \/ DriveBots \/ Lapse \/ Start \/ Dismiss \/ Crash
              \/ UNCHANGED vars)
        BY DEF Adopt, LoadRoster, DriveBots, Lapse, Start, Dismiss, Crash, vars
      <3>6. CASE Persisted
        BY <3>6 DEF Persisted, Return
      <3>7. CASE PersistFails
        BY <3>7 DEF PersistFails
      <3> QED BY <3>1, <3>2, <3>3, <3>4, <3>5, <3>6, <3>7 DEF Next
    <2>2. PICK t \in Human \cup {None} : Count(Job.who, t)
      BY <2>1 DEF Persisted, PersistFails, ClockFor, Inv, TypeOK
    <2>3. Job.kind = "auto" /\ Job.who \in Human
      BY <2>1, HeadIsTask DEF Persisted, PersistFails, Inv, HeadActs
    <2> QED BY <2>2, <2>3, CountFacts
  <1> QED BY <1>1, Invariance, PTL DEF Spec, TakeoverIsEarned
-----------------------------------------------------------------------------
(* The store and the hub. *)

(* A write that is issued becomes the last one of its field; the others stay. *)
LEMMA EndsIssued ==
  ASSUME NEW w \in Seq(Write), NEW x \in Write, NEW field, NEW stored, NEW v,
         Ends(w, field, stored, v)
  PROVE  Ends(Append(w, x), field, stored, IF x.field = field THEN x.value ELSE v)
PROOF
  <1> DEFINE u == Append(w, x)
             n == Len(w)
  <1>1. /\ n \in Nat /\ DOMAIN u = 1 .. n + 1 /\ DOMAIN w = 1 .. n
        /\ u[n + 1] = x /\ \A i \in 1 .. n : u[i] = w[i]
    OBVIOUS
  <1> HIDE DEF u, n
  <1>2. CASE x.field = field
    <2>1. n + 1 \in DOMAIN u /\ u[n + 1].field = field /\ u[n + 1].value = x.value
      BY <1>1, <1>2
    <2>2. \A j \in DOMAIN u : ~(j > n + 1)
      BY <1>1
    <2> QED BY <1>2, <2>1, <2>2 DEF Ends, u
  <1>3. CASE x.field # field
    <2>1. CASE \E i \in DOMAIN w :
                 /\ w[i].field = field /\ w[i].value = v
                 /\ \A j \in DOMAIN w : j > i => w[j].field # field
      <3>1. PICK i \in DOMAIN w : /\ w[i].field = field /\ w[i].value = v
                                  /\ \A j \in DOMAIN w : j > i => w[j].field # field
        BY <2>1
      <3>2. i \in DOMAIN u /\ u[i].field = field /\ u[i].value = v
        BY <1>1, <3>1
      <3>3. \A j \in DOMAIN u : j > i => u[j].field # field
        BY <1>1, <1>3, <3>1
      <3> QED BY <1>3, <3>2, <3>3 DEF Ends, u
    <2>2. CASE stored = v /\ \A j \in DOMAIN w : w[j].field # field
      <3>1. \A j \in DOMAIN u : u[j].field # field
        BY <1>1, <1>3, <2>2
      <3> QED BY <1>3, <2>2, <3>1 DEF Ends, u
    <2> QED BY <2>1, <2>2 DEF Ends
  <1> QED BY <1>2, <1>3

(* The first write lands: what it stores is what the field held in its stead. *)
LEMMA EndsLanded ==
  ASSUME NEW w \in Seq(Write), w # <<>>, NEW field, NEW stored, NEW v,
         Ends(w, field, stored, v)
  PROVE  Ends([j \in 1 .. Len(w) - 1 |-> w[j + 1]], field,
              IF w[1].field = field THEN w[1].value ELSE stored, v)
PROOF
  <1> DEFINE n == Len(w)
             u == [j \in 1 .. n - 1 |-> w[j + 1]]
             s == IF w[1].field = field THEN w[1].value ELSE stored
  <1>1. n \in Nat \ {0} /\ DOMAIN w = 1 .. n
    OBVIOUS
  <1>2. /\ DOMAIN u = 1 .. n - 1
        /\ \A j \in 1 .. n - 1 : j + 1 \in DOMAIN w /\ u[j] = w[j + 1]
    BY <1>1
  <1> HIDE DEF n
  <1>3. CASE \E i \in DOMAIN w :
               /\ w[i].field = field /\ w[i].value = v
               /\ \A j \in DOMAIN w : j > i => w[j].field # field
    <2>1. PICK i \in DOMAIN w : /\ w[i].field = field /\ w[i].value = v
                                /\ \A j \in DOMAIN w : j > i => w[j].field # field
      BY <1>3
    <2>2. CASE i = 1
      <3>1. \A j \in DOMAIN u : j + 1 \in DOMAIN w /\ j + 1 > 1 /\ u[j] = w[j + 1]
        BY <1>1, <1>2
      <3>2. \A j \in DOMAIN u : u[j].field # field
        BY <2>1, <2>2, <3>1
      <3>3. s = v
        BY <2>1, <2>2
      <3> HIDE DEF u, s
      <3>4. Ends(u, field, s, v)
        BY <3>2, <3>3 DEF Ends
      <3> QED BY <3>4 DEF u, s, n
    <2>3. CASE i # 1
      <3>1. /\ i - 1 \in DOMAIN u /\ u[i - 1] = w[i]
            /\ \A j \in DOMAIN u : j > i - 1 => j + 1 \in DOMAIN w /\ j + 1 > i
        BY <1>1, <1>2, <2>1, <2>3
      <3>2. u[i - 1].field = field /\ u[i - 1].value = v
        BY <2>1, <3>1
      <3>3. \A j \in DOMAIN u : j > i - 1 => u[j].field # field
        BY <1>2, <2>1, <3>1
      <3> HIDE DEF u, s
      <3>4. Ends(u, field, s, v)
        BY <3>1, <3>2, <3>3 DEF Ends
      <3> QED BY <3>4 DEF u, s, n
    <2> QED BY <2>2, <2>3
  <1>4. CASE stored = v /\ \A j \in DOMAIN w : w[j].field # field
    <2>1. s = v
      BY <1>1, <1>4
    <2>2. \A j \in DOMAIN u : u[j].field # field
      BY <1>2, <1>4
    <2> HIDE DEF u, s
    <2>3. Ends(u, field, s, v)
      BY <2>1, <2>2 DEF Ends
    <2> QED BY <2>3 DEF u, s, n
  <1> QED BY <1>3, <1>4 DEF Ends

LEMMA FieldsOfWrites ==
  /\ \A on \in BOOLEAN : Stamp(on).field = "pausedAt" /\ Stamp(on).value = on
  /\ \A b : RosterOf(b).field = "roster" /\ RosterOf(b).value = b
BY DEF Stamp, RosterOf

(* What the writes w under way make of the database, where bots play the seats b
   and the game is inactive or not; stale when something else may explain a mark. *)
Leads(w, b, inactive, stale) ==
  /\ Ends(w, "roster", roster, b)
  /\ \E on \in BOOLEAN : /\ Ends(w, "pausedAt", pausedAt, on)
                         /\ inactive => on
                         /\ on => inactive \/ stale

LEMMA LeadsToStamp ==
  ASSUME NEW w \in Seq(Write), NEW b, NEW inactive, NEW stale, NEW on \in BOOLEAN,
         Leads(w, b, inactive, stale)
  PROVE  Leads(Append(w, Stamp(on)), b, on, stale)
PROOF
  <1>1. Stamp(on) \in Write
    BY DEF Write
  <1>2. Ends(Append(w, Stamp(on)), "roster", roster, b)
    <2>1. Stamp(on).field # "roster"
      BY FieldsOfWrites
    <2> QED BY <1>1, <2>1, EndsIssued DEF Leads
  <1>3. Ends(Append(w, Stamp(on)), "pausedAt", pausedAt, on)
    <2>1. PICK v \in BOOLEAN : Ends(w, "pausedAt", pausedAt, v)
      BY DEF Leads
    <2>2. Stamp(on).field = "pausedAt" /\ Stamp(on).value = on
      BY FieldsOfWrites
    <2>3. Ends(Append(w, Stamp(on)), "pausedAt", pausedAt,
               IF Stamp(on).field = "pausedAt" THEN Stamp(on).value ELSE v)
      BY <1>1, <2>1, EndsIssued
    <2> QED BY <2>2, <2>3
  <1> QED BY <1>2, <1>3 DEF Leads

LEMMA LeadsToRoster ==
  ASSUME NEW w \in Seq(Write), NEW b, NEW c \in SUBSET Player, NEW inactive, NEW stale,
         Leads(w, b, inactive, stale)
  PROVE  Leads(Append(w, RosterOf(c)), c, inactive, stale)
PROOF
  <1>1. RosterOf(c) \in Write /\ RosterOf(c).field = "roster" /\ RosterOf(c).value = c
    BY FieldsOfWrites DEF Write
  <1>2. Ends(Append(w, RosterOf(c)), "roster", roster, c)
    <2>1. Ends(w, "roster", roster, b)
      BY DEF Leads
    <2>2. Ends(Append(w, RosterOf(c)), "roster", roster,
               IF RosterOf(c).field = "roster" THEN RosterOf(c).value ELSE b)
      BY <1>1, <2>1, EndsIssued
    <2> QED BY <1>1, <2>2
  <1>3. PICK v \in BOOLEAN : /\ Ends(w, "pausedAt", pausedAt, v)
                             /\ inactive => v
                             /\ v => inactive \/ stale
    BY DEF Leads
  <1>4. Ends(Append(w, RosterOf(c)), "pausedAt", pausedAt, v)
    <2>1. Ends(Append(w, RosterOf(c)), "pausedAt", pausedAt,
               IF RosterOf(c).field = "pausedAt" THEN RosterOf(c).value ELSE v)
      BY <1>1, <1>3, EndsIssued
    <2> QED BY <1>1, <2>1
  <1> QED BY <1>2, <1>3, <1>4 DEF Leads

(* A match that is gone has left nothing behind that could act on the store. *)
GoneIsQuiet ==
  ~resident => /\ writes = <<>> /\ queue = <<>> /\ timer = None /\ ~paused /\ crashes > 0
               /\ loading = <<>> /\ ~mapped

Stale == over \/ crashes > 0

Followed == LandInOrder /\ faults = 0 /\ resident => Leads(writes, Crew, paused, Stale)

StoreInv == GoneIsQuiet /\ Followed /\ faults \in Nat /\ crashes \in Nat

(* A step that issues no write, lands none and leaves the clock as it is. *)
LEMMA StoreUntouched ==
  ASSUME Inv, StoreInv, UNCHANGED <<store, bots, mapped, paused, over, hub, crashes>>,
         faults' \in {faults, faults + 1},
         ~resident => UNCHANGED <<queue, timer>>
  PROVE  StoreInv'
PROOF
  <1>1. (faults' = 0 => faults = 0) /\ faults' \in Nat
    BY DEF StoreInv
  <1>2. Followed'
    <2> SUFFICES ASSUME LandInOrder, faults' = 0, resident'
                 PROVE  Leads(writes, Crew, paused, Stale)'
      BY DEF Followed
    <2>1. Leads(writes, Crew, paused, Stale)
      BY <1>1 DEF StoreInv, Followed, hub
    <2> QED BY <2>1 DEF Leads, Stale, Crew, store, hub
  <1> QED BY <1>1, <1>2 DEF StoreInv, GoneIsQuiet, store, hub

(* p is back: the roster without p is written, and the mark is lifted. *)
LEMMA ReturnFollowed ==
  ASSUME Inv, NEW p \in Human, Return(p),
         UNCHANGED <<pausedAt, roster, crashes, mapped, loading>>,
         over => over',
         Leads(writes, Crew, paused, Stale)
  PROVE  Leads(writes, Crew, paused, Stale)'
PROOF
  <1> DEFINE s == IF p \in bots THEN Append(writes, RosterOf(bots \ {p})) ELSE writes
             b == IF p \in bots THEN bots \ {p} ELSE Crew
             z == IF paused THEN Append(s, Stamp(FALSE)) ELSE s
  <1>1. writes \in Seq(Write) /\ bots \subseteq Player /\ paused \in BOOLEAN
    BY DEF Inv, TypeOK
  <1>2. s \in Seq(Write) /\ Leads(s, b, paused, Stale)
    <2>1. CASE p \in bots
      <3>1. bots \ {p} \in SUBSET Player
        BY <1>1
      <3>2. RosterOf(bots \ {p}) \in Write
        BY <3>1, WritesAreWrites
      <3> QED BY <1>1, <2>1, <3>1, <3>2, LeadsToRoster, SequenceOfWrites
    <2>2. CASE p \notin bots
      <3> QED BY <1>1, <2>2
    <2> QED BY <2>1, <2>2
  <1>3. writes' = z
    <2> DEFINE v == IF p \in bots THEN <<RosterOf(bots \ {p})>> ELSE <<>>
               w == IF paused THEN <<Stamp(FALSE)>> ELSE <<>>
    <2>1. writes' = (writes \o v) \o w
      BY DEF Return
    <2>2. writes \o v = s
      <3>1. \A x : writes \o <<x>> = Append(writes, x)
        BY <1>1
      <3>2. writes \o <<>> = writes
        BY <1>1
      <3> QED BY <3>1, <3>2
    <2> HIDE DEF s, v
    <2>3. s \o w = z
      <3>1. \A x : s \o <<x>> = Append(s, x)
        BY <1>2
      <3>2. s \o <<>> = s
        BY <1>2
      <3> QED BY <3>1, <3>2
    <2> QED BY <2>1, <2>2, <2>3
  <1> HIDE DEF s
  <1>4. Leads(z, b, FALSE, Stale)
    <2>1. CASE paused
      BY <1>2, <2>1, LeadsToStamp
    <2>2. CASE ~paused
      <3>1. paused = FALSE
        BY <1>1, <2>2
      <3> QED BY <1>2, <3>1
    <2> QED BY <2>1, <2>2
  <1> HIDE DEF z
  <1>5. Crew' = b /\ paused' = FALSE /\ (Stale => Stale')
    <2>1. p \in bots => mapped
      BY DEF Inv, ClockInOrder
    <2>2. bots' = bots \ {p}
      BY DEF Return
    <2>3. p \notin bots => bots' = bots
      BY <2>2
    <2> QED BY <2>1, <2>2, <2>3 DEF Return, Stale, Crew
  <1> QED BY <1>3, <1>4, <1>5 DEF Leads

(* The game is marked inactive, once. *)
LEMMA MarkFollowed ==
  ASSUME Inv, NEW t, MarkInactive(t), UNCHANGED <<bots, mapped, loading, pausedAt, roster, crashes>>,
         over => over',
         Leads(writes, Crew, paused, Stale)
  PROVE  Leads(writes, Crew, paused, Stale)'
PROOF
  <1>1. writes \in Seq(Write) /\ paused \in BOOLEAN /\ paused' = TRUE
    BY DEF Inv, TypeOK, MarkInactive
  <1>2. Leads(writes', Crew, TRUE, Stale)
    <2>1. CASE paused
      <3>1. writes' = writes /\ paused = TRUE
        BY <1>1, <2>1 DEF MarkInactive
      <3> QED BY <3>1
    <2>2. CASE ~paused
      <3>1. writes' = Append(writes, Stamp(TRUE))
        BY <2>2 DEF MarkInactive
      <3> QED BY <1>1, <3>1, LeadsToStamp
    <2> QED BY <2>1, <2>2
  <1>3. Stale => Stale'
    BY DEF Stale
  <1> QED BY <1>1, <1>2, <1>3 DEF Leads, Crew

(* The marking may go with the end of the game, and its stamp then stays. *)
LEMMA MarkingFollowed ==
  ASSUME NEW b, paused' = (paused /\ ~over'), UNCHANGED <<pausedAt, roster, crashes>>,
         over => over', Crew' = b,
         Leads(writes', b, paused, Stale)
  PROVE  Leads(writes, Crew, paused, Stale)'
BY DEF Leads, Stale

LEMMA CountFollowed ==
  ASSUME Inv, NEW p \in Human, NEW t, Count(p, t),
         UNCHANGED <<pausedAt, roster, crashes, loading>>,
         over => over',
         Leads(writes, Crew, paused, Stale)
  PROVE  Leads(writes, Crew, paused, Stale)'
PROOF
  <1>1. CASE MarkInactive(t) /\ UNCHANGED <<bots, mapped>>
    BY <1>1, MarkFollowed
  <1>2. CASE /\ bots' = bots \cup {p} /\ mapped' = TRUE /\ writes' = Append(writes, RosterOf(bots'))
             /\ paused' = (paused /\ ~over')
    <2>1. writes \in Seq(Write) /\ bots' \in SUBSET Player
      BY <1>2 DEF Inv, TypeOK, Player
    <2>2. Leads(writes', bots', paused, Stale)
      BY <1>2, <2>1, LeadsToRoster
    <2>3. Crew' = bots'
      BY <1>2 DEF Crew
    <2> QED BY <1>2, <2>2, <2>3, MarkingFollowed
  <1>3. CASE paused' = (paused /\ ~over') /\ UNCHANGED <<bots, mapped, writes>>
    BY <1>3, MarkingFollowed DEF Crew
  <1> QED BY <1>1, <1>2, <1>3 DEF Count

(* A step of a match that is in memory. *)
LEMMA ResidentStep ==
  ASSUME Inv, StoreInv, resident, resident', UNCHANGED crashes, faults' \in {faults, faults + 1},
         Leads(writes, Crew, paused, Stale) => Leads(writes, Crew, paused, Stale)'
  PROVE  StoreInv'
PROOF
  <1>1. faults' = 0 => faults = 0
    BY DEF StoreInv
  <1> QED BY <1>1 DEF StoreInv, Followed, GoneIsQuiet

LEMMA SocketsFollowed ==
  ASSUME Inv, StoreInv, NEW c \in Conn, Socket(c)
  PROVE  StoreInv'
PROOF
  <1> USE DEF store, clock, task, game, bounds, hub
  <1>1. CASE FirstVerdict(c) \/ SecondVerdict(c) \/ Close(c) \/ Forget(c) \/ Loaded(c)
    <2>1. /\ UNCHANGED <<store, bots, mapped, paused, over, hub, crashes, queue, timer>>
          /\ faults' \in {faults, faults + 1}
      BY <1>1 DEF FirstVerdict, SecondVerdict, Close, Forget, Loaded
    <2> QED BY <2>1, StoreUntouched
  <1>2. CASE Command(c)
    <2>1. resident /\ UNCHANGED <<store, bots, mapped, paused, over, hub, crashes, faults>>
      BY <1>2 DEF Command
    <2> QED BY <2>1, StoreUntouched
  <1>3. CASE Bind(c)
    <2>1. resident /\ conn[c].who \in Human
      BY <1>3 DEF Bind, Inv, HellosArePeople
    <2>2. /\ Return(conn[c].who)
          /\ UNCHANGED <<over, pausedAt, roster, hub, mapped, crashes, faults>>
      BY <1>3 DEF Bind
    <2> QED BY <2>1, <2>2, ReturnFollowed, ResidentStep
  <1> QED BY <1>1, <1>2, <1>3 DEF Socket

LEMMA LandFollowed ==
  ASSUME Inv, StoreInv, NEW i \in DOMAIN writes, Land(i)
  PROVE  StoreInv'
PROOF
  <1> USE DEF clock, task, game, hub
  <1>1. writes \in Seq(Write) /\ writes # <<>>
    BY DEF Inv, TypeOK
  <1>2. resident
    BY <1>1 DEF StoreInv, GoneIsQuiet
  <1>3. /\ UNCHANGED <<bots, mapped, paused, over, hub, crashes>>
        /\ faults' \in {faults, faults + 1}
    BY DEF Land
  <1>4. ASSUME LandInOrder, faults' = 0
        PROVE  Leads(writes, Crew, paused, Stale)'
    <2>1. faults = 0 /\ i = 1
      BY <1>3, <1>4 DEF StoreInv, Land
    <2>2. Leads(writes, Crew, paused, Stale)
      BY <1>2, <1>4, <2>1 DEF StoreInv, Followed
    <2>3. writes' = [j \in 1 .. Len(writes) - 1 |-> writes[j + 1]]
      BY <1>1, <2>1 DEF Land
    <2>4. /\ roster' = IF writes[1].field = "roster" THEN writes[1].value ELSE roster
          /\ pausedAt' = IF writes[1].field = "pausedAt" THEN writes[1].value ELSE pausedAt
      BY <1>4, <2>1 DEF Land
    <2>5. Ends(writes', "roster", roster', Crew)
      <3>1. Ends(writes, "roster", roster, Crew)
        BY <2>2 DEF Leads
      <3> QED BY <1>1, <2>3, <2>4, <3>1, EndsLanded
    <2>6. PICK on \in BOOLEAN : /\ Ends(writes, "pausedAt", pausedAt, on)
                                /\ paused => on
                                /\ on => paused \/ Stale
      BY <2>2 DEF Leads
    <2>7. Ends(writes', "pausedAt", pausedAt', on)
      BY <1>1, <2>3, <2>4, <2>6, EndsLanded
    <2> QED BY <1>3, <2>5, <2>6, <2>7 DEF Leads, Stale, Crew
  <1> QED BY <1>2, <1>3, <1>4 DEF StoreInv, Followed, GoneIsQuiet

LEMMA TasksFollowed ==
  ASSUME Inv, StoreInv, Persisted \/ PersistFails
  PROVE  StoreInv'
PROOF
  <1> USE DEF clock, task, game, hub
  <1>1. queue # <<>> /\ ~over
    BY DEF Inv, HeadActs, Persisted, PersistFails
  <1>2. resident
    BY <1>1 DEF StoreInv, GoneIsQuiet
  <1>3. /\ UNCHANGED <<pausedAt, roster, hub, crashes>>
        /\ faults' \in {faults, faults + 1}
    BY DEF Persisted, PersistFails
  <1>4. Job.who \in Human \/ Job.kind = "bot"
    BY <1>1, HeadIsTask DEF Inv
  <1>5. ASSUME Leads(writes, Crew, paused, Stale)
        PROVE  Leads(writes, Crew, paused, Stale)'
    <2>1. CASE Persisted /\ Job.kind = "command"
      BY <1>1, <1>3, <1>4, <1>5, <2>1, ReturnFollowed DEF Persisted
    <2>2. CASE Persisted /\ Job.kind \in {"bot", "end"}
      <3>1. Marking /\ UNCHANGED <<bots, mapped, writes>>
        BY <2>2 DEF Persisted
      <3> QED BY <1>1, <1>3, <1>5, <3>1, MarkingFollowed DEF Marking, Crew
    <2>3. CASE Persisted /\ Job.kind = "auto" /\ turn' = Job.who
      <3>1. UNCHANGED <<bots, mapped, writes, paused>>
        BY <2>3 DEF Persisted
      <3> QED BY <1>1, <1>3, <1>5, <3>1 DEF Leads, Stale, Crew
    <2>4. CASE Persisted /\ Job.kind = "auto" /\ turn' # Job.who
      <3>1. Count(Job.who, ClockFor(turn', bots, paused /\ ~over'))
        BY <2>4 DEF Persisted
      <3> QED BY <1>1, <1>3, <1>4, <1>5, <2>4, <3>1, CountFollowed
    <2>5. CASE PersistFails /\ ~played
      <3>1. UNCHANGED <<bots, mapped, writes, paused, over>>
        BY <2>5 DEF PersistFails
      <3> QED BY <1>3, <1>5, <3>1 DEF Leads, Stale, Crew
    <2>6. CASE PersistFails /\ played
      <3>1. Count(Job.who, timer) /\ Job.kind = "auto"
        BY <2>6 DEF PersistFails, Inv, HeadActs
      <3> QED BY <1>1, <1>3, <1>4, <1>5, <3>1, CountFollowed
    <2> QED BY <2>1, <2>2, <2>3, <2>4, <2>5, <2>6 DEF Persisted
  <1> QED BY <1>2, <1>3, <1>5, ResidentStep

LEMMA RecoveryFollowed ==
  ASSUME Inv, StoreInv, Adopt \/ LoadRoster
  PROVE  StoreInv'
PROOF
  <1> USE DEF clock, task, game, store, bounds, hub
  <1>1. CASE Adopt
    <2>1. /\ UNCHANGED <<writes, pausedAt, roster, paused, over, faults, crashes, mapped>>
          /\ loading' = <<roster>> /\ resident' = TRUE
      BY <1>1 DEF Adopt
    <2>2. /\ writes = <<>> /\ ~paused /\ crashes > 0 /\ pausedAt \in BOOLEAN /\ ~mapped
          /\ ~resident
      BY <1>1 DEF Adopt, StoreInv, GoneIsQuiet, Inv, TypeOK
    <2>3. DOMAIN writes = {}
      BY <2>2
    <2>4. Crew' = roster
      BY <2>1, <2>2 DEF Crew
    <2>5. Ends(writes', "roster", roster', Crew') /\ Ends(writes', "pausedAt", pausedAt', pausedAt)
      BY <2>1, <2>3, <2>4 DEF Ends
    <2>6. Leads(writes, Crew, paused, Stale)'
      BY <2>1, <2>2, <2>5 DEF Leads, Stale
    <2> QED BY <2>1, <2>6 DEF StoreInv, Followed, GoneIsQuiet
  <1>2. CASE LoadRoster
    <2>1. /\ UNCHANGED <<store, paused, over, resident, faults, crashes>>
          /\ loading # <<>> /\ loading' = <<>>
      BY <1>2 DEF LoadRoster
    <2>2. resident
      BY <2>1 DEF StoreInv, GoneIsQuiet
    <2>3. Crew' = Crew
      BY <1>2 DEF LoadRoster, Crew, Inv, ClockInOrder
    <2>4. Leads(writes, Crew, paused, Stale) => Leads(writes, Crew, paused, Stale)'
      BY <2>1, <2>3 DEF Leads, Stale
    <2> QED BY <2>1, <2>2, <2>4, ResidentStep
  <1> QED BY <1>1, <1>2

LEMMA RestFollowed ==
  ASSUME Inv, StoreInv, Lapse \/ Crash
  PROVE  StoreInv'
PROOF
  <1> USE DEF clock, task, game, store, bounds, hub
  <1>1. CASE Lapse
    <2>1. resident
      BY <1>1 DEF Lapse, StoreInv, GoneIsQuiet
    <2>2. UNCHANGED <<bots, mapped, pausedAt, roster, over, hub, faults, crashes>>
      BY <1>1 DEF Lapse
    <2>3. CASE MarkInactive(None)
      BY <2>1, <2>2, <2>3, MarkFollowed, ResidentStep
    <2>4. CASE UNCHANGED <<paused, writes>>
      <3>1. UNCHANGED store
        BY <2>2, <2>4
      <3> QED BY <2>1, <2>2, <2>4, <3>1, StoreUntouched
    <2> QED BY <1>1, <2>3, <2>4 DEF Lapse
  <1>2. CASE Crash
    <2>1. /\ ~resident' /\ writes' = <<>> /\ queue' = <<>> /\ timer' = None /\ ~paused'
          /\ crashes' = crashes + 1 /\ faults' = faults
          /\ loading' = <<>> /\ ~mapped'
      BY <1>2 DEF Crash
    <2>2. crashes' > 0 /\ crashes' \in Nat
      BY <2>1 DEF StoreInv
    <2> QED BY <2>1, <2>2 DEF StoreInv, Followed, GoneIsQuiet
  <1> QED BY <1>1, <1>2

LEMMA StoreInvInductive ==
  /\ Init => StoreInv
  /\ Inv /\ StoreInv /\ [Next]_vars => StoreInv'
PROOF
  <1>1. ASSUME Init
        PROVE  StoreInv
    <2>1. /\ writes = <<>> /\ roster = Bot /\ bots = Bot /\ loading = <<>> /\ ~paused /\ pausedAt = FALSE
          /\ resident /\ faults = 0 /\ crashes = 0
      BY <1>1 DEF Init
    <2>2. DOMAIN writes = {}
      BY <2>1
    <2>3. Ends(writes, "roster", roster, Crew) /\ Ends(writes, "pausedAt", pausedAt, FALSE)
      BY <2>1, <2>2 DEF Ends, Crew
    <2> QED BY <2>1, <2>3 DEF StoreInv, GoneIsQuiet, Followed, Leads
  <1>2. ASSUME Inv, StoreInv, [Next]_vars
        PROVE  StoreInv'
    <2> USE <1>2
    <2>1. CASE \E c \in Conn : Socket(c)
      BY <2>1, SocketsFollowed
    <2>2. CASE \/ \E c \in Conn : \E p \in Human : Dial(p, c)
               \/ \E p \in Human : Revoke(p) \/ LeaveCheck(p)
               \/ UNCHANGED vars
      <3>1. UNCHANGED <<store, bots, mapped, paused, over, hub, crashes, faults, queue, timer>>
        BY <2>2 DEF Dial, Revoke, LeaveCheck, vars, clock, game, task, bounds, hub
      <3> QED BY <3>1, StoreUntouched
    <2>3. CASE (\E p \in Human : EndGame(p)) \/ DriveBots \/ Start \/ Dismiss
      <3>1. UNCHANGED <<store, bots, mapped, paused, over, hub, crashes, faults, timer>>
        BY <2>3 DEF EndGame, DriveBots, Start, Dismiss, clock, game, bounds, hub
      <3>2. resident
        BY <2>3 DEF EndGame, DriveBots, Start, Dismiss, StoreInv, GoneIsQuiet
      <3> QED BY <3>1, <3>2, StoreUntouched
    <2>4. CASE \E i \in DOMAIN writes : Land(i)
      BY <2>4, LandFollowed
    <2>5. CASE Adopt \/ LoadRoster \/ Lapse \/ Crash
      BY <2>5, RecoveryFollowed, RestFollowed
    <2>6. CASE Persisted \/ PersistFails
      BY <2>6, TasksFollowed
    <2> QED BY <2>1, <2>2, <2>3, <2>4, <2>5, <2>6 DEF Next
  <1> QED BY <1>1, <1>2

(* What the database will hold once the writes under way have landed is what the hub
   knows: whose seats bots play, or will once a recovery has loaded them, and that a game is inactive; over crashes and
   recoveries too, but for the mark a crash or the end of the game leaves behind
   (stampPaused, persistRoster, recoverMatch). *)
THEOREM StoreFollows == Spec => []StoreFollowsHub
PROOF
  <1>1. Spec => []StoreInv
    BY StoreInvInductive, Invariance, PTL DEF Spec
  <1>2. StoreInv => StoreFollowsHub
    BY DEF StoreInv, Followed, Leads, Stale, StoreFollowsHub
  <1> QED BY <1>1, <1>2, PTL
=============================================================================
