------------------------------- MODULE Seats -------------------------------
(***************************************************************************)
(* Who sits at a live match: the sockets that say hello and bind to a seat *)
(* (hub.ts handleHello), the member table, the debounced "player left"     *)
(* notices, the clock of the person on the move and what happens when it   *)
(* lapses (runTurnTimeout): auto-play, the pause of a deserted game, the   *)
(* take-over of a seat by a bot and its return to its player.              *)
(*                                                                         *)
(* Node runs one callback at a time, so an action is what happens between  *)
(* two awaits.  Of the engine the model keeps whom an accepted action      *)
(* leaves on the move.  Ban verdicts are whatever the ban guard says, and  *)
(* are never predictable from here.                                        *)
(***************************************************************************)
EXTENDS Integers, Sequences, FiniteSets

CONSTANTS
  Human,          \* seats held by people
  Bot,            \* seats held by room bots
  Conn,           \* connections of the server
  None,           \* no player, no connection
  PauseAfter,     \* autoPlayPauseAfter, 5 in the code
  TakeoverAfter,  \* botTakeoverAfter, 3 in the code
  LandInOrder,    \* fire-and-forget writes land in the order they were issued
  MayBan,         \* bound: the ban guard may say yes
  MaxMoves,       \* bound: accepted actions
  MaxDials,       \* bound: connections ever opened
  MaxQueue,       \* bound: tasks in the queue when another is added
  MaxFaults,      \* bound: store failures
  MaxCrashes      \* bound: process crashes

VARIABLES
  \* the database
  turn,      \* turnActor of the durable game; None in SETUP_TICKETS, GAME_OVER
  over,      \* GAME_OVER
  pausedAt,  \* games.pausedAt is set
  roster,    \* games.bots: the seats it gives to bots
  writes,    \* stampPaused and persistRoster writes in flight
  \* the hub
  resident,  \* the registry holds the match
  loading,   \* the roster a recovery has read and not loaded, or nothing
  members,   \* the connection of each person, or None
  bots,      \* the seats bots play: room bots, and people's taken over
  mapped,    \* the hub keeps a map of the bots of the game
  timer,     \* the person the turn timer is armed for, or None
  paused,    \* the game is marked inactive
  streak,    \* timeoutStreak
  strikes,   \* playerTimeoutStrikes
  leave,     \* people with a pending leave check
  left,      \* people with an outstanding "left" notice
  queue,     \* the command queue; its head is the task in execution
  pc,        \* the head waits for its turn, or for the store
  played,    \* the auto-play at the head has committed an action
  \* the sockets
  conn,      \* per connection: its player, its stage and its socket
  \* history, read by the properties only
  missed,    \* turns auto-played for each person since they acted or bound
  unmanned,  \* turns auto-played since anybody acted or bound
  last,      \* the connection each person bound last
  slack,     \* nothing has armed the clock since a recovery or a failed lapse
  \* bounds
  moves, dials, faults, crashes

game    == <<turn, over>>
store   == <<pausedAt, roster, writes>>
hub     == <<resident, loading>>
clock   == <<timer, paused, streak, strikes, bots, mapped>>
notices == <<leave, left>>
task    == <<queue, pc, played>>
history == <<missed, unmanned, last, slack>>
bounds  == <<moves, dials, faults, crashes>>
vars    == <<game, store, hub, members, clock, notices, task, conn,
             history, bounds>>

Player == Human \cup Bot

ASSUME SeatsAssumption ==
  /\ Human # {} /\ Human \cap Bot = {}
  /\ None \notin Player \cup Conn
  /\ IsFiniteSet(Human) /\ IsFiniteSet(Bot) /\ IsFiniteSet(Conn)
ASSUME ParameterAssumption ==
  /\ PauseAfter \in Nat \ {0} /\ TakeoverAfter \in Nat \ {0}
  /\ LandInOrder \in BOOLEAN /\ MayBan \in BOOLEAN
  /\ {MaxMoves, MaxDials, MaxQueue, MaxFaults, MaxCrashes} \subseteq Nat

Stage == {"free", "ban1", "load", "ban2", "bound", "refused"}
Connection == [who : Human \cup {None}, at : Stage, socket : {"open", "closing", "closed"}]
Free == [who |-> None, at |-> "free", socket |-> "closed"]
Task == [kind : {"command", "auto", "bot", "end"}, who : Player]

-----------------------------------------------------------------------------
(* The turn clock. *)

Connected == {p \in Human : members[p] # None}

(* scheduleTurnTimeout: whom the timer is armed for when player t is on the
   move, bots play the seats b and the game is inactive or not. *)
ClockFor(t, b, inactive) == IF t \in Human \ b /\ ~inactive THEN t ELSE None

(* Fire-and-forget writes: stampPaused, persistRoster. *)
Stamp(on) == [field |-> "pausedAt", value |-> on]
RosterOf(b) == [field |-> "roster", value |-> b]
Write == {Stamp(on) : on \in BOOLEAN} \cup {RosterOf(b) : b \in SUBSET Player}

(* Mutant: the timer of an inactive game is left running. *)
MarkOnly(t) ==
  /\ paused' = TRUE
  /\ timer' = t
  /\ writes' = IF paused THEN writes ELSE Append(writes, Stamp(TRUE))

(* pauseAutoPlay: the marking, its stamp, and the clock, which the last
   commit armed for t, is cleared. *)
MarkInactive(t) ==
  /\ paused' = TRUE
  /\ timer' = None
  /\ writes' = IF paused THEN writes ELSE Append(writes, Stamp(TRUE))

(* The end of the game drops every strike. *)
Strikes(p) == IF over' THEN [q \in Human |-> 0] ELSE [strikes EXCEPT ![p] = 0]

(* Mutant: the strikes survive the return of a player. *)
KeepStrikes(p) == UNCHANGED strikes /\ streak' = 0

(* A person is back, or acted: strikes and streak start again. *)
Forgive(p) == strikes' = Strikes(p) /\ streak' = 0

(* Mutant: the marking is lifted in memory only. *)
ReturnUnstamped(p) ==
  /\ Forgive(p)
  /\ bots' = bots \ {p}
  /\ paused' = FALSE
  /\ writes' = writes \o (IF p \in bots THEN <<RosterOf(bots \ {p})>> ELSE <<>>)
  /\ missed' = [missed EXCEPT ![p] = 0]
  /\ unmanned' = 0

(* reclaimSeat and resumeAutoPlay, which lift the take-over and the marking. *)
Return(p) ==
  /\ Forgive(p)
  /\ bots' = bots \ {p}
  /\ paused' = FALSE
  /\ writes' = writes \o (IF p \in bots THEN <<RosterOf(bots \ {p})>> ELSE <<>>)
                      \o (IF paused THEN <<Stamp(FALSE)>> ELSE <<>>)
  /\ missed' = [missed EXCEPT ![p] = 0]
  /\ unmanned' = 0

(* Mutant: the return to a seat that was taken over arms no clock. *)
ResumesOnly(p) == paused

(* The return of p arms the clock again. *)
Rearms(p) == p \in bots \/ paused

-----------------------------------------------------------------------------
(* Sockets and hellos. *)

Move(c, stage) == conn' = [conn EXCEPT ![c].at = stage]

(* A client opens a socket and says hello: the first ban check is awaited. *)
Dial(p, c) ==
  /\ conn[c] = Free
  /\ dials < MaxDials /\ dials' = dials + 1
  /\ conn' = [conn EXCEPT ![c] = [who |-> p, at |-> "ban1", socket |-> "open"]]
  /\ UNCHANGED <<game, store, hub, members, clock, notices, task, history,
                 moves, faults, crashes>>

(* The connection that holds the seat is told and closed, and the second ban
   check is awaited. *)
Claim(c) ==
  LET prev == members[conn[c].who]
  IN conn' = [d \in Conn |->
                CASE d = c -> [conn[c] EXCEPT !.at = "ban2"]
                  [] d = prev /\ d # c /\ conn[d].socket = "open"
                       -> [conn[d] EXCEPT !.socket = "closing"]
                  [] OTHER -> conn[d]]

FirstVerdict(c) ==
  /\ conn[c].at = "ban1"
  /\ \/ MayBan /\ Move(c, "refused")
     \/ resident /\ Claim(c)
     \/ ~resident /\ Move(c, "load")
  /\ UNCHANGED <<game, store, hub, members, clock, notices, task, history,
                 bounds>>

(* recoverMatch, once for everybody who waits for it: hellos, a leave, the end
   of the game.  It has read the document, and the registry holds the match
   again, with no timer and no bots, before the chat is read and the roster
   loaded. *)
Adopt ==
  /\ ~resident
  /\ resident' = TRUE
  /\ loading' = <<roster>>
  /\ slack' = TRUE
  /\ UNCHANGED <<game, store, members, clock, notices, task, conn, missed,
                 unmanned, last, bounds>>

(* The chat is there, or could not be read: the roster that was read counts,
   unless a take-over has made a map meanwhile. *)
LoadRoster ==
  /\ loading # <<>> /\ loading' = <<>>
  /\ IF Head(loading) # {} /\ ~mapped
     THEN bots' = Head(loading) /\ mapped' = TRUE
     ELSE UNCHANGED <<bots, mapped>>
  /\ UNCHANGED <<game, store, resident, members, timer, paused, streak, strikes,
                 notices, task, conn, history, bounds>>

(* A hello that waits for the recovery waits for the whole of it. *)
Loaded(c) ==
  /\ conn[c].at = "load"
  /\ \/ resident /\ loading = <<>> /\ Claim(c) /\ UNCHANGED faults
     \/ ~resident /\ faults < MaxFaults /\ faults' = faults + 1
        /\ Move(c, "refused")
  /\ UNCHANGED <<game, store, hub, members, clock, notices, task, history,
                 moves, dials, crashes>>

(* Mutant: an outstanding "left" notice is not mirrored. *)
StaysLeft(p) == left

(* The "left" notices that remain once p has bound. *)
Returned(p) == left \ {p}

(* The bind, with no await before it: the seat, its leave check, its strikes,
   the take-over bot, the pause. *)
Bind(c) ==
  LET p == conn[c].who IN
  /\ conn[c].at = "ban2"
  /\ UNCHANGED <<game, pausedAt, roster, hub, mapped, task, bounds>>
  /\ Move(c, "bound")
  /\ members' = [members EXCEPT ![p] = c]
  /\ leave' = leave \ {p} /\ left' = Returned(p)
  /\ Return(p)
  /\ IF Rearms(p) THEN timer' = ClockFor(turn, bots', FALSE) /\ slack' = FALSE
                  ELSE UNCHANGED <<timer, slack>>
  /\ last' = [last EXCEPT ![p] = c]

SecondVerdict(c) ==
  /\ conn[c].at = "ban2" /\ MayBan
  /\ Move(c, "refused")
  /\ UNCHANGED <<game, store, hub, members, clock, notices, task, history,
                 bounds>>

(* Mutant: the drop of any bound connection empties the seat. *)
AlwaysCurrent(c) == TRUE

(* Only the connection that still holds the seat leaves it. *)
WasCurrent(c) == members[conn[c].who] = c

(* A socket closes: the client's doing, the network's, or the end of a
   terminate().  A hello in flight goes on without it. *)
Close(c) ==
  LET p == conn[c].who IN
  /\ conn[c].socket # "closed"
  /\ IF conn[c].at \in {"bound", "refused"}
     THEN conn' = [conn EXCEPT ![c] = Free]
     ELSE conn' = [conn EXCEPT ![c].socket = "closed"]
  /\ IF conn[c].at = "bound" /\ WasCurrent(c)
     THEN /\ members' = [members EXCEPT ![p] = None]
          /\ leave' = IF resident /\ ~over THEN leave \cup {p} ELSE leave
     ELSE UNCHANGED <<members, leave>>
  /\ UNCHANGED <<game, store, hub, clock, left, task, history, bounds>>

(* A refused hello whose socket had already closed. *)
Forget(c) ==
  /\ conn[c].at = "refused" /\ conn[c].socket = "closed"
  /\ conn' = [conn EXCEPT ![c] = Free]
  /\ UNCHANGED <<game, store, hub, members, clock, notices, task, history,
                 bounds>>

(* revokeUser: every bound connection of the user is closed. *)
Revoke(p) ==
  /\ MayBan
  /\ \E c \in Conn : conn[c].at = "bound" /\ conn[c].who = p
                     /\ conn[c].socket = "open"
  /\ conn' = [c \in Conn |->
                IF conn[c].at = "bound" /\ conn[c].who = p
                   /\ conn[c].socket = "open"
                THEN [conn[c] EXCEPT !.socket = "closing"] ELSE conn[c]]
  /\ UNCHANGED <<game, store, hub, members, clock, notices, task, history,
                 bounds>>

(* The fire-time check of a leave timer. *)
StillAway(p) == members[p] = None /\ resident /\ ~over

LeaveCheck(p) ==
  /\ p \in leave
  /\ leave' = leave \ {p}
  /\ left' = IF StillAway(p) THEN left \cup {p} ELSE left
  /\ UNCHANGED <<game, store, hub, members, clock, task, conn, history,
                 bounds>>

-----------------------------------------------------------------------------
(* The command queue. *)

Job == Head(queue)
HasRoom == Len(queue) < MaxQueue
Queued(t) == \E i \in DOMAIN queue : queue[i] = t
Enqueue(kind, p) == queue' = Append(queue, [kind |-> kind, who |-> p])

Command(c) ==
  /\ conn[c].at = "bound" /\ conn[c].socket # "closed"
  /\ resident /\ HasRoom
  /\ Enqueue("command", conn[c].who)
  /\ UNCHANGED <<game, store, hub, members, clock, notices, pc, played,
                 conn, history, bounds>>

(* endGame, for a passed vote or for the purge of a paused game. *)
EndGame(p) ==
  /\ resident /\ HasRoom /\ ~over
  /\ Enqueue("end", p)
  /\ UNCHANGED <<game, store, hub, members, clock, notices, pc, played,
                 conn, history, bounds>>

(* The bot driver: a room bot, or the bot that took a seat over. *)
DriveBots ==
  /\ resident /\ turn \in bots
  /\ ~Queued([kind |-> "bot", who |-> turn])
  /\ Enqueue("bot", turn)
  /\ UNCHANGED <<game, store, hub, members, clock, notices, pc, played,
                 conn, history, bounds>>

(* hasConnectedHuman. *)
Attended == Connected # {}

(* The timer lapses: a deserted game is paused, any other is auto-played. *)
Lapse ==
  /\ timer # None
  /\ IF Attended
     THEN /\ timer' = None
          /\ Enqueue("auto", timer)
          /\ UNCHANGED <<paused, writes>>
     ELSE MarkInactive(None) /\ UNCHANGED queue
  /\ UNCHANGED <<game, pausedAt, roster, hub, members, streak, strikes, bots,
                 mapped, notices, pc, played, conn, history, bounds>>

(* What a task finds when it reaches the head of the queue. *)
CanAct(t) ==
  CASE t.kind = "command" -> ~over /\ turn \in {None, t.who}
    [] t.kind = "end"     -> ~over
    [] t.kind = "auto"    -> turn = t.who
    [] t.kind = "bot"     -> turn = t.who /\ t.who \in bots

Start ==
  /\ pc = "idle" /\ queue # <<>> /\ CanAct(Job)
  /\ moves < MaxMoves
  /\ pc' = "persist"
  /\ UNCHANGED <<game, store, hub, members, clock, notices, queue, played,
                 conn, history, bounds>>

NextTask == queue' = Tail(queue) /\ pc' = "idle" /\ played' = FALSE

(* Another person waits for a seat that has timed out often enough. *)
TakesOver(p, n) ==
  /\ n >= TakeoverAfter /\ p \notin bots /\ Connected \ {p} # {}

(* The task can do nothing: a stale or refused command, a bot or a person no
   longer on the move, a game already over. *)
Dismiss ==
  /\ pc = "idle" /\ queue # <<>> /\ ~CanAct(Job)
  /\ NextTask
  /\ UNCHANGED <<game, store, hub, members, clock, notices, conn, history,
                 bounds>>

-----------------------------------------------------------------------------
(* The accepted action is durable, committed and fanned out. *)

(* Whom the action leaves on the move, and whether the game goes on. *)
Outcome ==
  /\ over' \in IF Job.kind = "end" THEN {TRUE} ELSE BOOLEAN
  /\ turn' \in IF over' THEN {None}
               ELSE IF turn = None THEN Player \cup {None} ELSE Player

(* broadcast: the clock of whoever is on the move now. *)
Rearm(b, inactive) ==
  /\ timer' = ClockFor(turn', b, inactive)
  /\ slack' = FALSE

(* The end of the game also drops the streak and the marking. *)
Marking ==
  /\ paused' = (paused /\ ~over')
  /\ streak' = IF over' THEN 0 ELSE streak
  /\ strikes' = IF over' THEN [q \in Human |-> 0] ELSE strikes

(* The end of runTurnTimeout, which auto-played for p and left the clock armed
   for t: the turn counts once, and may pause the game or cost the seat. *)
Count(p, t) ==
  LET n == IF over' THEN 1 ELSE strikes[p] + 1
      k == IF over' THEN 1 ELSE streak + 1
  IN /\ missed' = [missed EXCEPT ![p] = @ + 1]
     /\ unmanned' = unmanned + 1
     /\ streak' = k
     /\ \/ /\ k >= PauseAfter
           /\ MarkInactive(t)
           /\ strikes' = [Strikes(p) EXCEPT ![p] = n]
           /\ UNCHANGED <<bots, mapped>>
        \/ /\ k < PauseAfter /\ TakesOver(p, n)
           /\ bots' = bots \cup {p} /\ mapped' = TRUE
           /\ strikes' = Strikes(p)
           /\ writes' = Append(writes, RosterOf(bots'))
           /\ timer' = t /\ paused' = (paused /\ ~over')
        \/ /\ k < PauseAfter /\ ~TakesOver(p, n)
           /\ strikes' = [Strikes(p) EXCEPT ![p] = n]
           /\ timer' = t /\ paused' = (paused /\ ~over')
           /\ UNCHANGED <<bots, mapped, writes>>

(* A command gives its player the seat back before it is fanned out.  The loop
   of runTurnTimeout goes on until the turn has left the person. *)
Persisted ==
  /\ pc = "persist"
  /\ Outcome
  /\ moves < MaxMoves /\ moves' = moves + 1
  /\ \/ /\ Job.kind = "command"
        /\ Return(Job.who)
        /\ Rearm(bots', FALSE)
        /\ NextTask
        /\ UNCHANGED mapped
     \/ /\ Job.kind \in {"bot", "end"}
        /\ Marking
        /\ Rearm(bots, paused')
        /\ NextTask
        /\ UNCHANGED <<bots, mapped, writes, missed, unmanned>>
     \/ /\ Job.kind = "auto" /\ turn' = Job.who
        /\ Rearm(bots, paused)
        /\ played' = TRUE
        /\ UNCHANGED <<queue, pc, paused, streak, strikes, bots, mapped, writes,
                       missed, unmanned>>
     \/ /\ Job.kind = "auto" /\ turn' # Job.who
        /\ Count(Job.who, ClockFor(turn', bots, paused /\ ~over'))
        /\ slack' = FALSE
        /\ NextTask
  /\ UNCHANGED <<pausedAt, roster, hub, members, notices, conn, last,
                 dials, faults, crashes>>

(* The append fails: the action never happened.  An auto-play gives up. *)
PersistFails ==
  /\ pc = "persist"
  /\ faults < MaxFaults /\ faults' = faults + 1
  /\ NextTask
  /\ UNCHANGED <<game, last, pausedAt, roster, hub, members, notices, conn,
                 moves, dials, crashes>>
  /\ slack' = (slack \/ Job.kind = "auto")
  /\ IF played THEN Count(Job.who, timer)
               ELSE UNCHANGED <<clock, writes, missed, unmanned>>

-----------------------------------------------------------------------------
(* The store and the process. *)

(* A fire-and-forget write lands, in any order, or is lost. *)
Land(i) ==
  /\ LandInOrder => i = 1
  /\ writes' = [j \in 1 .. Len(writes) - 1 |->
                  IF j < i THEN writes[j] ELSE writes[j + 1]]
  /\ \/ /\ writes[i].field = "pausedAt"
        /\ pausedAt' = writes[i].value
        /\ UNCHANGED <<roster, faults>>
     \/ /\ writes[i].field = "roster"
        /\ roster' = writes[i].value
        /\ UNCHANGED <<pausedAt, faults>>
     \/ /\ faults < MaxFaults /\ faults' = faults + 1
        /\ UNCHANGED <<pausedAt, roster>>
  /\ UNCHANGED <<game, hub, members, clock, notices, task, conn, history,
                 moves, dials, crashes>>

Crash ==
  /\ crashes < MaxCrashes /\ crashes' = crashes + 1
  /\ resident' = FALSE /\ loading' = <<>>
  /\ members' = [p \in Human |-> None] /\ conn' = [c \in Conn |-> Free]
  /\ bots' = {} /\ mapped' = FALSE /\ timer' = None /\ paused' = FALSE
  /\ streak' = 0 /\ strikes' = [p \in Human |-> 0]
  /\ leave' = {} /\ left' = {}
  /\ queue' = <<>> /\ pc' = "idle" /\ played' = FALSE
  /\ writes' = <<>>
  /\ unmanned' = 0
  /\ last' = [p \in Human |-> None]
  /\ UNCHANGED <<game, pausedAt, roster, missed, slack, moves, dials, faults>>

-----------------------------------------------------------------------------
Init ==
  /\ turn = None /\ over = FALSE
  /\ pausedAt = FALSE /\ roster = Bot /\ writes = <<>>
  /\ resident = TRUE /\ loading = <<>>
  /\ members = [p \in Human |-> None]
  /\ bots = Bot /\ mapped = (Bot # {}) /\ timer = None /\ paused = FALSE
  /\ streak = 0 /\ strikes = [p \in Human |-> 0]
  /\ leave = {} /\ left = {}
  /\ queue = <<>> /\ pc = "idle" /\ played = FALSE
  /\ conn = [c \in Conn |-> Free]
  /\ missed = [p \in Human |-> 0] /\ unmanned = 0 /\ slack = FALSE
  /\ last = [p \in Human |-> None]
  /\ moves = 0 /\ dials = 0 /\ faults = 0 /\ crashes = 0

Socket(c) ==
  \/ FirstVerdict(c) \/ Loaded(c) \/ Bind(c) \/ SecondVerdict(c)
  \/ Close(c) \/ Forget(c) \/ Command(c)

Next ==
  \/ \E c \in Conn : Socket(c) \/ \E p \in Human : Dial(p, c)
  \/ \E p \in Human : Revoke(p) \/ LeaveCheck(p) \/ EndGame(p)
  \/ \E i \in DOMAIN writes : Land(i)
  \/ Adopt \/ LoadRoster \/ DriveBots \/ Lapse \/ Start \/ Dismiss \/ Persisted
  \/ PersistFails \/ Crash

Spec == Init /\ [][Next]_vars

-----------------------------------------------------------------------------
(* Properties. *)

TypeOK ==
  /\ turn \in Player \cup {None} /\ over \in BOOLEAN
  /\ pausedAt \in BOOLEAN /\ roster \subseteq Player
  /\ writes \in Seq(Write)
  /\ resident \in BOOLEAN /\ mapped \in BOOLEAN
  /\ loading \in Seq(SUBSET Player) /\ Len(loading) <= 1
  /\ members \in [Human -> Conn \cup {None}]
  /\ bots \subseteq Player /\ timer \in Human \cup {None} /\ paused \in BOOLEAN
  /\ streak \in Nat /\ strikes \in [Human -> Nat]
  /\ leave \subseteq Human /\ left \subseteq Human
  /\ queue \in Seq(Task) /\ pc \in {"idle", "persist"} /\ played \in BOOLEAN
  /\ conn \in [Conn -> Connection]
  /\ missed \in [Human -> Nat] /\ unmanned \in Nat /\ slack \in BOOLEAN
  /\ last \in [Human -> Conn \cup {None}]

(* Whenever a live game waits for a person, their clock runs, its lapse is
   being played out, or the game is marked inactive: except that nothing arms
   the clock after a recovery, or after a lapse the store refused, before the
   next commit or the return of somebody the game was waiting for. *)
Waits ==
  resident /\ turn \in Human \ bots /\ ~paused
Timed == timer = turn \/ Queued([kind |-> "auto", who |-> turn])
WaitingIsTimed == Waits /\ ~slack => Timed

(* A deserted game does not play itself to its end: once PauseAfter turns were
   auto-played with no sign of life of any person, nor a restart, the game is
   marked inactive, and the clock of an inactive game does not run.  What may
   still be played is a lapse that waited in the queue before. *)
DesertedRests ==
  /\ unmanned >= PauseAfter /\ ~over => paused
  /\ paused => timer = None

(* Nobody who holds a seat is shown as gone, and nobody who dropped out of one
   goes unnoticed: a check is pending, or the notice is out. *)
NoticesAreRight ==
  \A p \in Human :
    /\ p \in left => members[p] = None
    /\ (last[p] # None /\ members[p] = None /\ ~over) => p \in leave \cup left

(* The connection that bound a seat last keeps it until it closes itself,
   however late the ones it replaced are to close. *)
LastHelloKeepsTheSeat ==
  \A p \in Human :
    LET c == last[p]
    IN (c # None /\ conn[c].at = "bound" /\ conn[c].who = p) => members[p] = c

(* The last write of a field in w, or without one what is stored. *)
Ends(w, field, stored, v) ==
  \/ \E i \in DOMAIN w :
       /\ w[i].field = field /\ w[i].value = v
       /\ \A j \in DOMAIN w : j > i => w[j].field # field
  \/ stored = v /\ \A j \in DOMAIN w : w[j].field # field

(* The seats bots play, or will once the recovery under way has loaded them. *)
Crew == IF loading # <<>> /\ ~mapped THEN Head(loading) ELSE bots

(* What a restart or the purge will read is what the hub knows, although no
   write of it is awaited: the seats played by bots, over restarts too, and the
   mark of an inactive game.  Between the adoption of a match and the load of its
   roster the hub knows no bots, and the roster that was read still stands, unless
   a take-over came first.  A game that is over keeps its mark, and so does one
   that came back from a crash.  Not so when a store call has failed, or when
   writes land out of order. *)
StoreFollowsHub ==
  LandInOrder /\ faults = 0 /\ resident =>
    /\ Ends(writes, "roster", roster, Crew)
    /\ \E on \in BOOLEAN : /\ Ends(writes, "pausedAt", pausedAt, on)
                           /\ paused => on
                           /\ on => paused \/ over \/ crashes > 0

(* A bot takes a seat only from somebody whose last TakeoverAfter turns, with
   no sign of life in between, were all auto-played, and while somebody else
   is waiting; or when a recovery loads the roster it has read, which gives
   back the seats bots played before, even that of a player who has bound
   since the match was adopted. *)
TakeoverIsEarned ==
  [][\A p \in Human \cap (bots' \ bots) :
       \/ missed'[p] >= TakeoverAfter /\ Connected \ {p} # {}
       \/ LoadRoster /\ p \in Head(loading)]_vars
=============================================================================
