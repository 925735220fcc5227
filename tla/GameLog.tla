------------------------------ MODULE GameLog ------------------------------
(***************************************************************************)
(* One live match on the game server: the session in memory, the per-game  *)
(* command queue in front of it, the write-ahead append to the event store *)
(* (game-store.ts appendAction), the archive of a finished game, the bot   *)
(* driver, and the recovery of the match after the process died.           *)
(*                                                                         *)
(* The game state is a deterministic function of the accepted actions, so  *)
(* a state IS the sequence of accepted actions.  Of an action the model    *)
(* keeps who performed it and which players it leaves on the move; nobody  *)
(* on the move is the phase GAME_OVER.  Which of these a move leads to is  *)
(* the engine's business and chosen freely here.                           *)
(*                                                                         *)
(* Every call to the database is a step of its own.  A call may fail       *)
(* before it had an effect (CleanFaults) or after it (LostAcks: the write  *)
(* is applied and the answer lost).                                        *)
(***************************************************************************)
EXTENDS Integers, Sequences, FiniteSets

CONSTANTS
  Human,          \* seats held by people
  Bot,            \* seats held by room bots
  SnapshotEvery,  \* SNAPSHOT_EVERY, 16 in the code
  BotRetries,     \* botPersistRetries, 3 in the code
  CleanFaults,    \* the steps at which the store may refuse a call
  LostAcks,       \* the steps at which it may lose the answer of a write
  EarlyBind,      \* a socket may bind while createMatch still waits for the store
  MayStall,       \* the engine may leave a bot on the move without a legal action
  MaxRows,        \* bound: actions in a game
  MaxFrames,      \* bound: command frames a client numbers
  MaxQueue,       \* bound: tasks in the queue when a client or a timer adds one
  MaxFaults,      \* bound: store failures
  MaxCrashes      \* bound: process crashes

VARIABLES
  \* the database
  status,     \* games.status; "NONE" while there is no document
  events,     \* gameEvents: the rows by seq
  snapshots,  \* gameSnapshots: the stored state by seq
  archived,   \* matchHistory holds this game
  \* the process
  boot,       \* where createMatch stands
  resident,   \* the registry holds the match
  session,    \* the committed state
  loading,    \* the recovery in flight: how far it is, the state it rebuilt
  evicting,   \* a maintainer's termination has still to evict the match
  queue,      \* the command queue; its head is the task in execution
  pc,         \* the step of that task
  prepared,   \* the state it has prepared and not committed
  driver,     \* the bot driver's loop
  timer,      \* a delayed restart of the driver is scheduled
  kick,       \* a call of driveBots is due
  \* the clients
  bound,      \* people whose socket is bound to the match
  frame,      \* clientSeq of the last frame each client sent
  cursor,     \* Connection.lastClientSeq
  \* history, read by the properties only
  shown,      \* version of the state last sent to a client
  logged,     \* frames whose action has an event row
  late,       \* event rows added after the game was terminated
  \* bounds
  faults, crashes

store   == <<status, events, snapshots, archived>>
server  == <<boot, resident, session, loading, evicting>>
task    == <<queue, pc, prepared>>
bots    == <<driver, timer, kick>>
clients == <<bound, frame, cursor>>
history == <<shown, logged, late>>
bounds  == <<faults, crashes>>
vars    == <<store, server, task, bots, clients, history, bounds>>

Player == Human \cup Bot
Writes == {"doc", "genesis", "event", "snapshot", "seq", "complete", "archive"}
Steps  == Writes \cup {"gate", "reread"}

ASSUME SeatsAssumption ==
  /\ Human # {}
  /\ Human \cap Bot = {}
  /\ IsFiniteSet(Human) /\ IsFiniteSet(Bot)
ASSUME ParameterAssumption ==
  /\ SnapshotEvery \in Nat \ {0} /\ BotRetries \in Nat
  /\ CleanFaults \subseteq Steps /\ LostAcks \subseteq Writes
  /\ EarlyBind \in BOOLEAN /\ MayStall \in BOOLEAN
  /\ MaxRows \in Nat \ {0}
  /\ {MaxFrames, MaxQueue, MaxFaults, MaxCrashes} \subseteq Nat

Row   == [by : Player, next : SUBSET Player]
State == Seq(Row)
Task  == [kind : {"command", "bot", "auto", "end", "drain"},
          who : Player, seq : Nat]
Idle  == [at |-> "none", state |-> <<>>]
Off   == [at |-> "off", pick |-> {}, tries |-> 0]
Stalled == [Off EXCEPT !.at = "stalled"]

-----------------------------------------------------------------------------
(* The engine, as far as this level sees it. *)

Over(s)   == s # <<>> /\ s[Len(s)].next = {}
Actors(s) == IF s = <<>> THEN Player ELSE s[Len(s)].next

(* The states an accepted action of p may lead to.  The last row the bound
   allows ends the game. *)
Outcomes(s, p) ==
  {Append(s, [by |-> p, next |-> n]) :
     n \in IF Len(s) + 1 < MaxRows THEN SUBSET Player ELSE {{}}}

-----------------------------------------------------------------------------
(* The event store. *)

(* A checkpoint is due every SnapshotEvery actions, and at game over. *)
SnapshotDue(s) == Len(s) % SnapshotEvery = 0 \/ Over(s)

(* Mutant: the append no longer looks at the status. *)
StatusUnchecked == TRUE

(* The filter on the status of both the first call of appendAction and the
   last. *)
StillLive == status = "LIVE"

(* recordCompletion archives no game that was terminated. *)
MayArchive == status # "TERMINATED"

(* Mutants: committing before the row is durable; the checkpoint first. *)
CommitFirst(step) == IF step = "gate" THEN "commit" ELSE "seq"
CheckpointFirst(step) ==
  CASE step = "gate"     -> IF SnapshotDue(prepared) THEN "snapshot" ELSE "event"
    [] step = "snapshot" -> "event"
    [] step = "event"    -> "seq"
    [] step = "seq"      -> "commit"

(* The order of the calls in appendAction. *)
NextStep(step) ==
  CASE step = "gate"     -> "event"
    [] step = "event"    -> IF SnapshotDue(prepared) THEN "snapshot" ELSE "seq"
    [] step = "snapshot" -> "seq"
    [] step = "seq"      -> "commit"

(* Mutant: the unique indexes are missing. *)
NoUniqueIndex(step) == FALSE

(* The unique (gameId, seq) indexes refuse a second row of the same seq. *)
Duplicate(step) ==
  \/ step = "event" /\ Len(prepared) \in DOMAIN events
  \/ step = "snapshot" /\ Len(prepared) \in DOMAIN snapshots

(* A document stored under key k of a collection. *)
Stored(coll, k, doc) ==
  [i \in DOMAIN coll \cup {k} |-> IF i = k THEN doc ELSE coll[i]]

Job == Head(queue)
Frames(t) == IF t.kind = "command" THEN {<<t.who, t.seq>>} ELSE {}

(* What each write does to the database when it is applied. *)
Applied(step) ==
  /\ events' = IF step = "event"
               THEN Stored(events, Len(prepared), prepared[Len(prepared)])
               ELSE events
  /\ snapshots' = IF step = "snapshot"
                  THEN Stored(snapshots, Len(prepared), prepared)
                  ELSE snapshots
  /\ status' = IF step = "complete" /\ status = "LIVE" THEN "COMPLETED" ELSE status
  /\ archived' = (archived \/ step = "archive")
  /\ logged' = IF step = "event" THEN logged \cup Frames(Job) ELSE logged
  /\ late' = IF step = "event" /\ status = "TERMINATED" THEN late + 1 ELSE late

(* loadForRecovery: the latest snapshot, and the rows after it. *)
Base ==
  IF DOMAIN snapshots = {} THEN <<>>
  ELSE snapshots[CHOOSE k \in DOMAIN snapshots : \A j \in DOMAIN snapshots : j <= k]
Rest == {i \in DOMAIN events : i > Len(Base)}

(* Mutant: the rows after the snapshot are not replayed. *)
SnapshotOnly == Base

(* GameSession.restore replays the rows in order on top of the snapshot. *)
Restored ==
  [i \in 1 .. Len(Base) + Cardinality(Rest) |->
     IF i <= Len(Base) THEN Base[i] ELSE events[i]]

-----------------------------------------------------------------------------
(* The command queue and the bot driver's loop. *)

Starts(kinds) == pc = "idle" /\ queue # <<>> /\ Job.kind \in kinds
Pending(kind) == \E i \in DOMAIN queue : queue[i].kind = kind
HasRoom == Len(queue) < MaxQueue

Enqueue(q, kind, who, seq) ==
  queue' = Append(q, [kind |-> kind, who |-> who, seq |-> seq])

(* Mutant: every frame is taken for a new one. *)
NothingIsReplay(t) == FALSE

(* A replayed frame: client_seq does not exceed the last one processed. *)
IsReplay(t) == t.kind = "command" /\ t.seq <= cursor[t.who]

(* The driver's loop: it picks a bot that can act in state s, or ends. *)
Movers(s) == IF resident THEN Bot \cap Actors(s) ELSE {}
DriverLoop(s) ==
  driver' \in IF Movers(s) = {} THEN {Off}
              ELSE {[at |-> "paced", pick |-> {b}, tries |-> 0] : b \in Movers(s)}

(* Mutant: one retry too many. *)
MayRetryOnceMore == driver.tries <= BotRetries

MayRetry == driver.tries < BotRetries

(* Mutant: nothing restarts the driver. *)
NoReschedule == UNCHANGED timer

(* The driver gave up on a store that kept failing: scheduleBotDriverRetry. *)
Reschedule == timer' = TRUE

Pause == pc' = "idle" /\ prepared' = <<>>

(* The task at the head is done with, in state s; a command and a lapsed
   clock call driveBots when they are. *)
Retire(s) ==
  /\ Pause
  /\ queue' = Tail(queue)
  /\ kick' = (kick \/ Job.kind \in {"command", "auto"})
  /\ IF Job.kind = "bot" THEN DriverLoop(s) ELSE UNCHANGED driver

Consume ==
  cursor' = [p \in Human |-> IF <<p, Job.seq>> \in Frames(Job) THEN Job.seq
                             ELSE cursor[p]]

(* The task at the head applied its action, which led to state s: fan out,
   acknowledge.  The loop of runTurnTimeout then looks at the turn again. *)
Succeed(s) ==
  /\ shown' = IF bound # {} THEN Len(s) ELSE shown
  /\ Consume
  /\ IF Job.kind = "auto" THEN Pause /\ UNCHANGED <<queue, driver, kick>>
                          ELSE Retire(s)

(* Mutant: a failed task wedges the promise chain of the queue. *)
WedgingFail(notLive) ==
  /\ pc' = "wedged"
  /\ UNCHANGED <<queue, prepared, bots>>

(* The append failed and nothing was committed.  A bot's move is retried,
   then left to a timer; a game that is not LIVE is evicted. *)
Fail(notLive) ==
  \/ Job.kind # "bot" /\ Retire(session) /\ UNCHANGED timer
  \/ /\ Job.kind = "bot" /\ ~notLive /\ MayRetry
     /\ driver' = [driver EXCEPT !.at = "backoff", !.tries = @ + 1]
     /\ Pause /\ queue' = Tail(queue)
     /\ UNCHANGED <<timer, kick>>
  \/ /\ Job.kind = "bot" /\ ~notLive /\ ~MayRetry
     /\ driver' = Off /\ Reschedule
     /\ Pause /\ queue' = Tail(queue)
     /\ UNCHANGED kick
  \/ /\ Job.kind = "bot" /\ notLive
     /\ driver' = [driver EXCEPT !.at = "evicting"]
     /\ Pause /\ Enqueue(Tail(queue), "drain", Job.who, 1)
     /\ UNCHANGED <<timer, kick>>

-----------------------------------------------------------------------------
(* A task reaches the head of the queue. *)

Prepare(states) ==
  /\ prepared' \in states
  /\ pc' = "gate"
  /\ UNCHANGED <<store, server, queue, bots, clients, history, bounds>>

StartMove ==
  /\ Starts({"command", "bot", "auto"})
  /\ ~IsReplay(Job)
  /\ Job.who \in IF Job.kind = "bot" THEN Movers(session) ELSE Actors(session)
  /\ Prepare(Outcomes(session, Job.who))

StartEnd ==
  /\ Starts({"end"})
  /\ ~Over(session)
  /\ Prepare({Append(session, [by |-> Job.who, next |-> {}])})

DropReplay == Starts({"command"}) /\ IsReplay(Job) /\ UNCHANGED cursor

(* A rule violation, off-turn commands among them: the frame is consumed. *)
RejectCommand == Starts({"command"}) /\ ~IsReplay(Job) /\ Consume

(* The state moved on while the task waited: a bot no longer on the move, a
   turn that left the player whose clock ran out, a game already over. *)
Stale ==
  /\ \/ Starts({"bot"}) /\ Job.who \notin Movers(session)
     \/ Starts({"auto"}) /\ Job.who \notin Actors(session)
     \/ Starts({"end"}) /\ Over(session)
  /\ UNCHANGED cursor

Dismiss ==
  /\ DropReplay \/ RejectCommand \/ Stale
  /\ Retire(session)
  /\ UNCHANGED <<store, server, timer, bound, frame, history, bounds>>

(* noLegalAction: neither the bot's choice nor PASS is legal.  The loop ends, and
   only what happens next in the game calls it again.  SomebodyCanPlay of module
   Turn says that the engine leaves nobody on the move so. *)
Stall ==
  /\ MayStall /\ Starts({"bot"}) /\ Job.who \in Movers(session)
  /\ driver' = Stalled
  /\ Pause /\ queue' = Tail(queue)
  /\ UNCHANGED <<store, server, timer, kick, clients, history, bounds>>

(* evictMatch has waited for the queue: the match leaves the registry.  Tasks
   queued behind it still run, on a match nobody can reach. *)
Drain ==
  /\ Starts({"drain"})
  /\ resident' = FALSE /\ bound' = {}
  /\ Pause /\ queue' = Tail(queue)
  /\ driver' = IF Job.seq = 1 THEN Off ELSE driver
  /\ UNCHANGED <<store, boot, session, loading, evicting, timer, kick, frame,
                 cursor, history, bounds>>

-----------------------------------------------------------------------------
(* The steps of appendAction, the commit, and recordCompletion. *)

Gate ==
  /\ pc = "gate" /\ StillLive
  /\ pc' = NextStep(pc)
  /\ UNCHANGED <<store, server, queue, prepared, bots, clients, history, bounds>>

AppendRow ==
  /\ pc \in {"event", "snapshot", "seq"}
  /\ ~Duplicate(pc)
  /\ pc = "seq" => StillLive
  /\ Applied(pc)
  /\ pc' = NextStep(pc)
  /\ UNCHANGED <<server, queue, prepared, bots, clients, shown, bounds>>

(* The store answers, and refuses: the game is not LIVE, or the row exists. *)
AppendRefused ==
  /\ \/ pc = "gate" /\ ~StillLive /\ Fail(TRUE)
     \/ pc = "seq" /\ ~StillLive /\ Fail(TRUE)
     \/ Duplicate(pc) /\ Fail(FALSE)
  /\ UNCHANGED <<store, server, clients, shown, logged, late, bounds>>

Commit ==
  /\ pc = "commit"
  /\ session' = prepared
  /\ IF Over(prepared)
     THEN /\ pc' = "complete"
          /\ UNCHANGED <<queue, prepared, driver, kick, cursor, shown>>
     ELSE Succeed(prepared)
  /\ UNCHANGED <<store, boot, resident, loading, evicting, timer, bound, frame,
                 logged, late, bounds>>

Completion ==
  /\ pc \in {"complete", "reread", "archive"}
  /\ pc' = CASE pc = "complete" -> "reread"
             [] pc = "reread"   -> IF MayArchive THEN "archive" ELSE "answer"
             [] pc = "archive"  -> "answer"
  /\ Applied(pc)
  /\ UNCHANGED <<server, queue, prepared, bots, clients, shown, bounds>>

Answer ==
  /\ pc = "answer"
  /\ Succeed(session)
  /\ UNCHANGED <<store, server, timer, bound, frame, logged, late, bounds>>

(* A store call throws: appendAction rejects, recordCompletion is swallowed. *)
Thrown ==
  \/ pc \in {"gate", "event", "snapshot", "seq"} /\ Fail(FALSE)
  \/ /\ pc \in {"complete", "reread", "archive"}
     /\ pc' = "answer"
     /\ UNCHANGED <<queue, prepared, bots>>

StoreFails ==
  /\ \/ pc \in CleanFaults /\ UNCHANGED <<store, logged, late>>
     \/ pc \in LostAcks /\ ~Duplicate(pc) /\ Applied(pc)
  /\ Thrown
  /\ faults < MaxFaults /\ faults' = faults + 1
  /\ UNCHANGED <<server, clients, shown, crashes>>

-----------------------------------------------------------------------------
(* The bot driver. *)

(* A call of driveBots: one loop per game. *)
DriveBots ==
  /\ kick
  /\ kick' = FALSE
  /\ IF driver \in {Off, Stalled} THEN DriverLoop(session) ELSE UNCHANGED driver
  /\ UNCHANGED <<store, server, task, timer, clients, history, bounds>>

(* The pacing delay or the delay before a retry is over. *)
QueueBotMove ==
  /\ driver.at \in {"paced", "backoff"}
  /\ driver' = [driver EXCEPT !.at = "queued"]
  /\ \E b \in driver.pick : Enqueue(queue, "bot", b, 0)
  /\ UNCHANGED <<store, server, pc, prepared, timer, kick, clients, history,
                 bounds>>

DriverTimer ==
  /\ timer
  /\ timer' = FALSE /\ kick' = TRUE
  /\ UNCHANGED <<store, server, task, driver, clients, history, bounds>>

-----------------------------------------------------------------------------
(* Creation, termination, crash and recovery. *)

(* createGame: the document, then the genesis snapshot, then the bots. *)
Created(step) ==
  /\ status' = IF step = "doc" THEN "LIVE" ELSE status
  /\ snapshots' = IF step = "genesis" THEN Stored(snapshots, 0, <<>>) ELSE snapshots

Create ==
  /\ boot \in {"doc", "genesis"}
  /\ Created(boot)
  /\ boot' = IF boot = "doc" THEN "genesis" ELSE "done"
  /\ kick' = (kick \/ boot = "genesis")
  /\ UNCHANGED <<events, archived, resident, session, loading, evicting, task,
                 driver, timer, clients, history, bounds>>

(* createMatch throws; the match stays registered, its bots undriven. *)
CreateFails ==
  /\ boot \in {"doc", "genesis"}
  /\ \/ boot \in CleanFaults /\ UNCHANGED <<status, snapshots>>
     \/ boot \in LostAcks /\ Created(boot)
  /\ boot' = "dead"
  /\ faults < MaxFaults /\ faults' = faults + 1
  /\ UNCHANGED <<events, archived, resident, session, loading, evicting, task,
                 bots, clients, history, crashes>>

(* A maintainer's termination: the status first, the eviction after it. *)
Terminate ==
  /\ status = "LIVE"
  /\ status' = "TERMINATED"
  /\ evicting' = TRUE
  /\ UNCHANGED <<events, snapshots, archived, boot, resident, session, loading,
                 task, bots, clients, history, bounds>>

Evict ==
  /\ evicting
  /\ evicting' = FALSE
  /\ IF resident
     THEN Enqueue(queue, "drain", CHOOSE p \in Human : TRUE, 0)
     ELSE UNCHANGED queue
  /\ UNCHANGED <<store, boot, resident, session, loading, pc, prepared, bots,
                 clients, history, bounds>>

Crash ==
  /\ crashes < MaxCrashes /\ crashes' = crashes + 1
  /\ boot' = IF boot = "done" THEN "done" ELSE "dead"
  /\ resident' = FALSE /\ session' = <<>>
  /\ loading' = Idle /\ evicting' = FALSE
  /\ queue' = <<>> /\ Pause
  /\ driver' = Off /\ timer' = FALSE /\ kick' = FALSE
  /\ bound' = {}
  /\ UNCHANGED <<store, frame, cursor, history, faults>>

(* recoverMatch: loadForRecovery and the replay, the second look at the
   status, and the adoption once its answer is there. *)
Recover ==
  /\ ~resident
  /\ \/ /\ loading = Idle /\ status \notin {"NONE", "TERMINATED"}
        /\ loading' = [at |-> "loaded", state |-> Restored]
        /\ UNCHANGED <<resident, session, kick>>
     \/ /\ loading.at = "loaded"
        /\ loading' = IF status = "TERMINATED" THEN Idle
                      ELSE [loading EXCEPT !.at = "checked"]
        /\ UNCHANGED <<resident, session, kick>>
     \/ /\ loading.at = "checked"
        /\ loading' = Idle
        /\ resident' = TRUE /\ session' = loading.state
        /\ kick' = TRUE
  /\ UNCHANGED <<store, boot, evicting, task, driver, timer, clients, history,
                 bounds>>

-----------------------------------------------------------------------------
(* Clients, the room's vote and the turn clock. *)

Hello(p) ==
  /\ resident /\ p \notin bound
  /\ boot \in {"doc", "genesis"} => EarlyBind
  /\ bound' = bound \cup {p}
  /\ cursor' = [cursor EXCEPT ![p] = frame[p]]
  /\ shown' = Len(session)
  /\ UNCHANGED <<store, server, task, bots, frame, logged, late, bounds>>

(* A new command, or the last frame again: a duplicate, or a retry. *)
Send(p) ==
  /\ resident /\ p \in bound /\ HasRoom
  /\ \E k \in {frame[p], frame[p] + 1} \cap (1 .. MaxFrames) :
       /\ frame' = [frame EXCEPT ![p] = k]
       /\ Enqueue(queue, "command", p, k)
  /\ UNCHANGED <<store, server, pc, prepared, bots, bound, cursor, history, bounds>>

(* endGame, called once the room's vote has passed; and the clock of a person
   on the move that ran out while somebody was connected. *)
Interrupt(p) ==
  /\ resident /\ HasRoom
  /\ \/ ~Pending("end") /\ Enqueue(queue, "end", p, 0)
     \/ /\ bound # {} /\ p \in Actors(session) /\ ~Pending("auto")
        /\ Enqueue(queue, "auto", p, 0)
  /\ UNCHANGED <<store, server, pc, prepared, bots, clients, history, bounds>>

-----------------------------------------------------------------------------
Init ==
  /\ status = "NONE" /\ events = <<>> /\ snapshots = <<>> /\ archived = FALSE
  /\ boot = "doc"
  /\ resident = TRUE /\ session = <<>>
  /\ loading = Idle /\ evicting = FALSE
  /\ queue = <<>> /\ pc = "idle" /\ prepared = <<>>
  /\ driver = Off /\ timer = FALSE /\ kick = FALSE
  /\ bound = {}
  /\ frame = [p \in Human |-> 0] /\ cursor = [p \in Human |-> 0]
  /\ shown = 0 /\ logged = {} /\ late = 0
  /\ faults = 0 /\ crashes = 0

QueueStep ==
  \/ StartMove \/ StartEnd \/ Dismiss \/ Stall \/ Drain
  \/ Gate \/ AppendRow \/ AppendRefused \/ Commit \/ Completion \/ Answer

DriverStep == DriveBots \/ QueueBotMove \/ DriverTimer

Environment ==
  \/ StoreFails \/ CreateFails \/ Crash \/ Terminate
  \/ \E p \in Human : Hello(p) \/ Send(p) \/ Interrupt(p)

Next == QueueStep \/ DriverStep \/ Create \/ Evict \/ Recover \/ Environment

Spec == Init /\ [][Next]_vars

(* The event loop runs every task of the queue, every due timer and every
   continuation of an answered call; nothing makes a client, a maintainer or
   a fault act. *)
FairSpec ==
  /\ Spec
  /\ WF_vars(QueueStep) /\ WF_vars(DriveBots) /\ WF_vars(QueueBotMove)
  /\ WF_vars(DriverTimer) /\ WF_vars(Create) /\ WF_vars(Evict)

-----------------------------------------------------------------------------
(* Properties. *)

PC == {"idle", "gate", "event", "snapshot", "seq", "commit", "complete",
       "reread", "archive", "answer"}

StoreOK ==
  /\ status \in {"NONE", "LIVE", "COMPLETED", "TERMINATED"}
  /\ events \in State
  /\ \A k \in DOMAIN snapshots : k \in Nat /\ snapshots[k] \in State
  /\ archived \in BOOLEAN
ServerOK ==
  /\ boot \in {"doc", "genesis", "done", "dead"}
  /\ resident \in BOOLEAN /\ evicting \in BOOLEAN
  /\ session \in State
  /\ loading \in [at : {"none", "loaded", "checked"}, state : State]
TaskOK == queue \in Seq(Task) /\ pc \in PC /\ prepared \in State
BotsOK ==
  /\ driver \in [at : {"off", "stalled", "paced", "queued", "backoff", "evicting"},
                 pick : SUBSET Bot, tries : 0 .. BotRetries]
  /\ timer \in BOOLEAN /\ kick \in BOOLEAN
ClientsOK ==
  /\ bound \subseteq Human
  /\ frame \in [Human -> Nat] /\ cursor \in [Human -> Nat]
HistoryOK ==
  /\ shown \in Nat /\ late \in Nat
  /\ logged \subseteq Player \X Nat
  /\ faults \in Nat /\ crashes \in Nat

TypeOK ==
  StoreOK /\ ServerOK /\ TaskOK /\ BotsOK /\ ClientsOK /\ HistoryOK

PrefixOf(s, t) == Len(s) <= Len(t) /\ \A i \in 1 .. Len(s) : s[i] = t[i]

(* Write-ahead: the committed state is what the durable log says, and the log
   is never more than the one action being appended ahead of it
   (applyPrepared persists, then commits). *)
WriteAhead ==
  resident => /\ PrefixOf(session, events)
              /\ Len(events) <= Len(session) + 1

(* A snapshot is the state the log leads to, at the seq it carries: recovery
   may start from any of them (loadForRecovery takes the latest). *)
SnapshotsAreStates ==
  \A k \in DOMAIN snapshots :
    Len(snapshots[k]) = k /\ PrefixOf(snapshots[k], events)

(* A recovered match resumes from everything that was ever appended, the
   append a crash interrupted included. *)
RecoveryLosesNothing == [][~resident /\ resident' => session' = events']_vars

(* Only a game that ended, and was not terminated by a maintainer, reaches
   the players' history. *)
ArchivedOnlyIfCompleted == archived => status = "COMPLETED" /\ Over(events)

(* No frame is applied twice, however often it is sent and whatever the store
   answered the first time. *)
AtMostOnce ==
  [][(events' # events /\ Job.kind = "command")
       => <<Job.who, Job.seq>> \notin logged]_vars

(* A terminated game gains no event row but the one whose append had already
   passed the status check: the residual race the comment in appendAction
   accepts, and no more than it. *)
AtMostOneLateRow == late <= 1

(* Whenever a bot is to move, something is under way that will make it:
   nothing but the driver ever prompts a bot.  (A driver that stalled has found
   that the bot cannot move at all.) *)
BotNeverForgotten ==
  (boot = "done" /\ resident /\ Bot \cap Actors(session) # {} /\ pc = "idle")
    => driver # Off \/ timer \/ kick \/ queue # <<>>

(* The match implements the journal the players are promised. *)
J == INSTANCE Journal WITH journal <- events
JournalSpec == J!JournalSpec

(* Once the players have been shown the end of the game, isGameOver says so,
   before and after a restart. *)
IsGameOver == IF resident THEN Over(session) ELSE status = "COMPLETED"
GameOverSurvivesRestart ==
  (Over(events) /\ shown = Len(events) /\ status # "TERMINATED") => IsGameOver

(* A bot's turn does not last: whatever the store's transient failures, the
   bot moves, or the game is ended by other means. *)
BotIsToMove(n) ==
  /\ boot = "done" /\ resident /\ status = "LIVE"
  /\ Len(session) = n
  /\ Bot \cap Actors(session) # {}
BotMoves == \A n \in 0 .. MaxRows : BotIsToMove(n) ~> ~BotIsToMove(n)

(* Every command a client sent is answered, whatever it waits behind: the queue
   is first in, first out, and it empties again and again or its head is done with
   again and again.  One failed task never wedges the chain. *)
HeadIsDone == Len(queue') <= Len(queue) /\ queue' # queue
CommandsAnswered == []<>(queue = <<>>) \/ []<><<HeadIsDone>>_vars
=============================================================================
