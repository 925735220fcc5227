# TRMission: a verification project

TRMission is a multiplayer board game in which players collect train cards, claim routes and complete
tickets. One Node process serves every game (`apps/server/src`); the rules are a pure TypeScript
library (`packages/engine`); MongoDB holds accounts, rooms and, per game, a write-ahead log of accepted
actions. This directory models the parts of it whose correctness depends on order, on failure, or on a
long sequence of legal steps, checks them with TLC on small instances, and proves the core for every
value of its parameters with TLAPS.

`PROJECT.json` says, for every definition that models code, which lines it stands for; for every run,
what it checks; and for every property, a mutated definition with which the run must fail.

## 1. Inventory

| component | state | operations | what is hard | what makes it correct |
|---|---|---|---|---|
| session, registry, command queue (`game/`, `ws/hub.ts`) | the committed game, one promise chain per game, a cursor of frames per connection | command, bot move, auto-play, vote to end, create, evict, recover | the append is four store calls and the commit comes after them; repeated frames; the process dies anywhere | the log is never behind the state, a frame is applied once, recovery loses nothing |
| event store (`persistence/`) | games, gameEvents, gameSnapshots, matchHistory | createGame, appendAction, recordCompletion, loadForRecovery | no transactions: writes half done, answers lost, a termination in between | snapshots agree with the log, only finished games are archived |
| bot driver (`hub.ts driveBots`) | one loop per game, a retry timer | pick, pace, queue, retry, give up and come back | nobody else ever prompts a bot | whenever a bot is to move something will make it |
| seats and sockets (`hub.ts`, `ws/connection.ts`) | member table, bindings, pending and outstanding "left" notices | hello, bind, replace, close, revoke | each hello waits twice between reading the table and writing it | the last hello keeps the seat, notices are right |
| turn clock (`hub.ts`, `ws/turn-timeout.ts`) | a timer, streaks, take-overs in memory; pausedAt and the roster in the database | arm, lapse, auto-play, pause, take over, give back | lapses race commands, returns and refused writes; half of the state survives a restart | a waiting person is on the clock, a deserted game stops, a bot takes a seat only when earned |
| rules engine (`packages/engine`) | the whole table | some twenty actions in six phases | guards repeated by hand in `legality.ts`, reshuffles, locks of parallel routes, three ways to end | conservation, final round, no stuck phase |
| random events (`engine/src/events`) | schedule, active events, pending decisions, a hidden marker in the deck | tick of a round, announce, start, end, relocate, draft, hive draw | they interrupt turns, reverse the order, and must not be lost when the end is triggered | one turn per seat and round, announcements come true, no phase without its decision |
| scoring, graphs (`engine/src/scoring.ts`, `graph/`) | none | longest trail, borrows of stations, locked and final tickets | two searches that cut branches, and two ways to count a ticket | the searches return the optimum, what was announced as complete counts |
| lobby and rooms (`lobby/`) | a room document | join, leave, ready, reseat, bots, settings, start, rematch, votes | a read, a decision, a conditional update whose condition is weaker than the decision | the room fits its game, a lobby has a host, nobody has two places, votes stay in their game |
| residency and purge (`game/game-registry.ts`, `hub.ts`, `dashboard/purge.service.ts`) | the registry's slot, match objects, single-flight recovery; jobs that terminate and delete | create, recover, evict, terminate, delete, sweep | several match objects of one game, deletes without a transaction, all while the game is played | one writer per game, no rows of deleted games, rooms of dead games are freed |
| leaderboard, history | rating rows, archive rows | rate, list, rebuild | rated once, whatever restarts | archive rows are modelled; ratings are not |
| authentication | refresh sessions | rotate, revoke | two refreshes at once | not modelled |
| self update, push, maps, account, moderation, ratings, skins, support, dashboard CRUD | single documents, files | CRUD, outgoing calls | little | not modelled |
| bots, codec, proto, map data, clients | none on the server | pure functions, user interfaces | little | any choice of a bot or a client is allowed in the models |

How they interact: a room is started by the lobby, which marks it STARTED and calls `hub.createMatch`.
The hub registers a session, writes its document and genesis snapshot, and starts the bot driver. A
socket says hello with a ticket, is checked twice against the ban list and bound to a seat. A command
waits for the queue of its game, is validated by the engine (`prepare`), appended to the store
(`appendAction`) and only then committed and fanned out. Every commit re-arms the turn clock and calls
the bot driver. A game that reaches GAME_OVER is recorded (`recordCompletion`) and read by history and
leaderboard. After a restart a game is rebuilt from its last snapshot and the rows after it when
somebody asks for it.

## 2. Modules

| module | models | proofs |
|---|---|---|
| `Journal` | what a match promises its players: a journal that only grows, shown to them in order, archived only when it ended | - |
| `GameLog` | one live match from the command queue to the database and back | `GameLogProofs` |
| `Seats` | who sits at a match, the clock of the person on the move | `SeatsProofs` |
| `Turn` | the rules of the game, without random events | `TurnProofs` |
| `Room` | one room of the lobby, every operation as a read and a conditional update | `RoomProofs` |
| `Events` | the schedule, the rounds and the phases of random events, the turn order they bend | `EventsProofs` |
| `Residency` | one game in memory and in the store, from the start of its room to the purge | `ResidencyProofs` |
| `Scoring` | the longest trail, the borrows of stations, locked and final tickets | `ScoringProofs` |
| `MCGameLog`, `MCSeats`, `MCTurn`, `MCRoom`, `MCEvents`, `MCResidency`, `MCScoring` | values of the constants for TLC, symmetry | - |
| `NaturalLemmas` | nothing: facts about naturals, rounds, folds and finite sums that several proofs cite | itself |

How they fit: `Room` ends where a game is created, with an abstract life of its games (`starting`, `live`,
`over`, `terminated`, `lost`). `Residency` takes one game from there, with its match objects as values and a
command as one append; `GameLog` opens that append into its store calls, retries and lost answers, with one
match object; `Seats` says who sends commands and what happens when nobody does; `Turn` says what a
command does to the game, `Events` what the rounds do to it, and `Scoring` what it is worth in the end. Only
`GameLog` and `Journal` are joined by a refinement; the others share the boundary named here and no
state.

### GameLog

The state of a game is a deterministic function of its accepted actions (`reduce` is pure and the seed
is fixed), so a state is modelled as the sequence of accepted actions; of an action only its author and
the players it leaves on the move are kept, which is all the server looks at. Nobody on the move is
GAME_OVER.

`queue` is the promise chain of `command-queue.ts`, its head the task in execution, and `pc` the store
call that task waits for: `gate` (the status check), `event` (the row), `snapshot` (every
`SnapshotEvery` actions and at the end), `seq` (`currentSeq`, filtered on the status), `commit`, then for
a finished game `complete`, `reread`, `archive`, and `answer`. Every store call is an action of its own, so
that every other callback, a termination by a maintainer, and a crash may come between any two. A call
fails before it had its effect if its step is in `CleanFaults` and after it if its step is in `LostAcks`.
A command, a bot move, a lapsed clock and the room's vote differ in what they do before and after the
append (`StartMove`, `StartEnd`, `Dismiss`, `Fail`, `Succeed`), as in `handleCommand`, `botMove`,
`runTurnTimeout` and `endGame`. The driver is the loop of `driveBots` (`paced`, `queued`, `backoff`,
`evicting`, and `stalled` when it ended because neither the bot's choice nor PASS was legal, which `MayStall`
allows although `SomebodyCanPlay` of `Turn` says the engine never gets there) with a `timer` for its delayed restart and `kick` for a call of it that is due.
`Recover` has the steps of `recoverMatchOnce`. `Create` has those of `createGame`; the match is in the
registry before them, and with `EarlyBind` sockets find it there.

Clients number their frames and may repeat the last one; connections start with the number of their
hello. `shown`, `logged` and `late` are history variables that no action reads.

### Seats

An action is what happens between two awaits. A connection goes through `ban1`, `load` (a recovery, if
the match is not resident), `ban2` and `bound`, and its socket may close at any of them; `Bind` writes the
member table with what it read before the await. The verdicts of the ban guard are free. A recovery publishes the
match (`Adopt`), reads the chat, and only then loads the roster (`LoadRoster`); hellos that waited for it go
on after both, and others find the match in between. `bots` is the hub's map, room bots and people's seats
together, and `mapped` that there is one. The queue
holds commands, bot moves, auto-plays and votes; `Persisted` and `PersistFails` are the answers of the
store to the one being appended. The two fire-and-forget writes (`stampPaused`, `persistRoster`) are a
list in flight, of which any may land first when `LandInOrder` is false. `Crash` forgets the memory and
keeps the database. `missed`, `unmanned`, `last` and `slack` are history variables.

### Turn

The reducer, one action per engine action, with the calls every handler makes (`ClaimEffects`, `Lock`,
`EndTurn` with its countdown, the stalled table and the windows of repairs). What is abstracted:

- cards are individuals with a colour instead of counts by colour; a shuffle is any order, so the deck
  is a set and a draw takes any of it;
- a ticket is the set of route sets that join its two cities (`Ways`), a city only a place for a station;
- the number of a player's stations is counted from the board; offers are dealt in turn order;
- what each action asks for is also stated without its effects (`CanClaim`, `CanTakeCard` ... `CanPlay`), for
  the properties about who can do something;
- the loop that recycles a market with too many locomotives runs at most `MaxRecycles` times (50 in the
  code, on a deck of 110 cards);
- scores, the events sent to clients, and the option `unlimitedStationBorrow`, which only matters to
  scores, are left out.

### Room

`room` is the document of `room.repo.ts`; `Update` is a `findOneAndUpdate`: the fields its filter compares,
the fields it sets, what it pushes and pulls. An operation decides on the document it reads and `Send`s an
update. In each behaviour the requests of one *class* (`slow`, drawn in `Init`) may wait in `req` while
everything else runs, and `Land` writes them; so every invariant can name the classes it withstands, and
the ones it does not are listed below. `leave` of a finished game and the vote have more than one read and
are steps of their own (`LeaveReads`, `LeaveLands`; `VoteReads`, which is the read of `setEndVote` and the game it
filters on, `VoteLands`, `VoteCounts`). `Start` waits between its read
and `markStarted`; `CreateMatch` comes later, and `Restart` may come in between. `Terminate`, `GameOver` and
`CloseByGame` are what the rest of the server does to a game.

Ready flags, chat and names are left out; members can always have become ready.

### Events

A seat is its index in `turnOrder`. The schedule is drawn in `Init` from all that `schedule.ts` could make
of the constants (kinds, gaps, targets, start rounds), and `TickRound` is the tick of `runtime.ts`: end,
announce, start, with the gifts suppressed in a quiet endgame and a restriction never started unannounced.
`EndTurn` carries the tick, the final countdown, the direction of the turns, and the queue of a draft
(`resumeOrderIndex`). Fourteen kinds are in; those that only move the score or a price (`VIRAL_HOTSPOT`,
`STAMP_RALLY`, `BENTO_RUSH`, `SKY_LANTERN` and the like) are not, nor are tickets and passes. Cards are
counted, because what the hidden marker of the boring machine needs is how many are drawn. The order of a
draft is by score in the code and any order here.

`round`, `told` and `final` are history variables: who has had a turn in this round, which entry was
announced, who has had a final turn.

### Residency

Match objects are values: `slot` is the one in the registry, `match` holds all that somebody may still have,
each with its queue and the progress of its running task. `load` is the single-flight recovery (document,
rows, status, adopt), `job` the walk of the sweep, of a maintainer, or of a vote through the accesses
of `terminateIfLive`, `evictMatch`, `closeByGameId`, `purgeGameCore` and `purgeRoomCore`, one database call per
step. `rows` keeps the highest row only, for nobody deletes part of a log. Any access may be rejected, and a
rejected write may have been applied: `StartFails`, `LoadFails`, `AppendFails`, `RecordFails`, `JobFails` and
`WipeFails` are the error paths of their callers. The deletes of `purgeGameCore` are begun together, so when one
is rejected the job ends and the others are `loose`: done or not, with nobody waiting. A session whose append was
rejected behind its row does not commit, which its object remembers as `lost`. `odd` remembers two
accidents which invariants exclude by name: a delete of the rows that was itself rejected or cut off (`torn`),
and an end that was not recorded (`unrecorded`).

### Scoring

The table grows by claims, stations and tickets in any order, and after every step the property compares
`LongestTrail` and `EvaluateTickets`, which search as `longestTrail.ts` and `connectivity.ts` do (bound, greedy
floor, one option per pair of components, same tie order), with a definition that knows no search. Both searches
are recursive functions of what `dfs` is called with. A node of the second has the stations that have not chosen
yet; stations keep their place in the order of building, the options of a station are a set of tracks, and the
loops of the code over both are `InOrder`, in ascending order. `Lock` is
`lockCompletedTickets`, `Counted` the tickets `evaluateSideTickets` pays for.

## 3. Runs

| run | instance | states | shows |
|---|---|---|---|
| `gamelog_safety` | one person, one bot, 3 actions, a snapshot every 2, one fault or lost answer at any step, one crash | 3.2 million | write-ahead, snapshots, recovery, at most one late row, no frame twice, no bot forgotten; the match implements `Journal`, its archive included |
| `gamelog_liveness` | 2 actions, up to two waiting tasks, one refused call before the row | 210,000 | bots move, every task of the queue is done with |
| `seats_clock` | two people, two connections, 4 actions, up to two waiting tasks, pause after 3 lapses, take-over after 2, one crash or one refused call of the store | 3.0 million | a person who is waited for is on the clock, a deserted game stops, a seat is taken only when its owner earned it or a recovery gives it back; the writes nobody awaits leave in the database what the hub knows |
| `seats_sockets` | two people, three connections, one action, bans, one crash, one refused write | 820,000 | notices, replacement of a connection by the last hello |
| `turn_duel` | two players, a parallel pair with a ferry, a broken tunnel, a city, four tickets and a long one each, four cards | 450,000 | conservation of cards, trains and tickets; parallel tracks, final round, repairs, PASS; what an action asks for is all it needs |
| `turn_teams` | two pairs of partners with pools, a parallel pair and a single track, LONG tickets | 200,000 | locks of shared tickets, the stalled table, phases nobody could leave, a second pick that finds nothing |
| `room_races` | three accounts and a bot, two or three seats, ten slow classes | 540,000 | which promises of a room survive which slow request: a table of the rules, the players of its game, votes |
| `events_rounds` | three players, a line with a parallel pair, four rounds, every schedule of two entries out of fourteen kinds | 1.1 million | one turn per seat and round, announcements, pending decisions, the marker, contracts |
| `residency` | one game, two match objects, two orders, one crash or one rejected access, applied or not | 740,000 | no row of a deleted game, a resident match that is current or, after a failed append, exactly one row behind; history, rooms of dead games are freed; no deadlock |
| `scoring` | four cities, five tracks, up to three stations, alone and in pairs, three sets of rules | 18,000 | the two searches find the optimum, locked tickets count |

Two runs show a statement of the repository that the code does not keep:

| run | statement | what happens |
|---|---|---|
| `leave_from_live_room` | the seats of a LIVE game are not governed by leave (`room.repo.ts:320-322`) | whether the game is over is asked once, before a loop that reads the room again; with a rematch and a start in between a member leaves a live game |
| `events_final_round` | "that player and everyone else take one final turn" (`tutorial.ts:110`, and `game.ts:103`) | the final round counts turn ends, and a spring festival that starts or ends inside it turns the order round: one seat plays twice and one not at all |

### Met while modelling

The behaviours below were found with the models, by a stronger property or without one of the exclusions
the properties name. They are the code's behaviour and no run depends on them.

The match and its log:

- A row whose answer was lost blocks every retry of a bot move until a restart: the row exists, so the
  unique index refuses it. `hub.ts:1351-1352` says a failed move "self-heals once the store recovers".
- A failed or interrupted `recordCompletion` is never run again (`hub.ts:1329-1331`), so the fallback that
  `hub.ts:511-513` describes for `isGameOver` after a restart answers no, and the game is not archived.
- With `EarlyBind` a bot prompted before the document exists finds a game that is not LIVE and has the match
  evicted as terminal (`hub.ts:1400`); it comes back when somebody asks for it. A task that was queued behind
  the drain still runs on the evicted match, and may add a row after the recovery has read the log: the match
  that is adopted is behind it, every append of it collides, and `BotMoves` fails. Both runs of `GameLog` keep
  `EarlyBind` FALSE.

Seats and clock:

- Two hellos for a seat that wait at the same time both bind; the first socket stays open
  (`docs/superpowers/plans/2026-07-04-single-connection-per-seat.md:5` against `hub.ts:1015`).
- A socket that closes while its hello waits is seated dead (`hub.ts:1037`).
- `pausedAt` is not cleared on resume after a restart, because the marking it depends on is in memory
  (`persistence/types.ts:63-64` against `hub.ts:1661`).
- Lapses that wait in the queue when a game is paused are still played: `runTurnTimeout` does not ask again
  under the queue, although `hub.ts:1634` says that nothing advances until the game is resumed.
- Who binds between the adoption of a match and the load of its roster (`hub.ts:435-463`) reclaims nothing, for
  the hub knows no bots yet (`hub.ts:1726`); the load then gives the seat to the bot again, beside its player,
  until the player's next accepted command. `TakeoverIsEarned` names the step. A bot that takes a seat over in that
  window makes a map, the load is skipped (`hub.ts:456`), and the room bots and take-overs of the document are
  gone; it needs a chat read that outlasts a turn's clock, so only the proofs get there.
- A recovered game has no timer until somebody moves (`hub.ts:467-469` against `hub.ts:1740-1741`).

The rules:

- A card pushed to the pool is a move its pusher can take back, so pushing does rescue from having to PASS
  (`legality.ts:110` against `reduce.ts:452-453` and `teams.spec.ts:515`).
- `types/state.ts` says a market slot is empty only when deck and discard are; spending refills the
  discard, and the market is refilled only after a card was taken from it.
- A game need not end under arbitrary play: abandoning a tunnel, or pushing and taking one card, can be
  repeated for ever. The models state no termination.
- A second claimer of the reopened sibling of a double route is said to find the bonus gone
  (`effects.ts:103-106`, `docs/superpowers/specs/2026-07-04-random-events-design.md:71`); a closure holds the
  siblings as routes of their own, and each is paid once.
- After a draft at a round boundary the turn that resumes may open on forced tickets without the test for
  a legal move that `endTurn` makes (`reduce.ts:1496`, `turn.ts:135-139`).
- `validate.ts` compares the ids of cities, routes and pairs of a map but not those of its tickets, which are
  only tested for generated ones (`generate.spec.ts:92`); `ticketById` would keep one of each name. That
  tickets differ is the assumption `TicketAssumption` of `Turn`.
- A comment of the schedule allows several entries in one round; the generator never makes two.

Rooms, by the slow request that a property does not withstand:

- `RoomFits`: two joins, or a join and a lower cap, decided on the same room; a bot's removal, which
  writes back the members it read.
- `HostHasASeat`: a transfer whose target leaves, a rematch that seats again who left, an array written back,
  the finished room, a bot's removal.
- `OnePlaceEach`: a seat taken while one becomes a spectator of a full room, and the same writes of arrays.
- `GameIsTheTable`: everything that happens between the read of `start` and `markStarted`; a bot's removal
  that lands on a started room; leaving a game that was over.
- `reseat` compares the number of members: a leave and a join in between put back the one who left
  (`room.repo.ts:540-543` says a stale client "can never silently drop a player from the table").
- A vote is written into the game `setEndVote` reads (`room.repo.ts:693`), not the one `voteEnd` read before
  (`lobby.service.ts:292`): with a rematch and a start between the two reads it stands in the next game.
- The host's vote to end a game is counted on the room of that moment and may end the next game.
- A crash between `markStarted` and `createMatch` leaves a started room without a game until the sweep.

Residency and purge:

- With `EarlyRequests` somebody who reconnects while `createMatch` still waits starts a recovery that
  adopts a second match over the first: `ResidentIsCurrent` and `HistoryIsTheEnded` fail.
- `getStatus` of a game whose document is deleted is undefined, and only `TERMINATED` is refused: a recovery
  that read the document before a purge adopts a match of a game that is gone. `hub.ts:474-476` says
  that a reconnect racing the eviction "cannot resurrect the match".
- The deletes of `purgeGameCore` are begun together (`purge.service.ts:125-130`): when the one of the rows is
  rejected, or a crash cuts it off, while the one of the document is done, rows are left that no later purge finds.
- After an append that failed behind its row the resident match stays one row behind the log: every command collides
  with the row, nobody loads the match again while it is resident, and only an eviction or a restart heals it.
- A start whose `createGame` is rejected leaves the room started and its match resident, with no document
  behind it, until the sweep (`lobby.service.ts:617`, `hub.ts:353-362`).
- A finished game whose `recordCompletion` failed is LIVE to the sweep: once it is old enough a later sweep
  deletes it without an archive row, a paused game that a sweep has ended itself included. That
  `purge.service.ts:244-245` speaks of the same sweep only is right: the row of the end renews `updatedAt`.

### Bounds, and why they are enough

Every bound is a constant whose comment starts with "bound", and appears only in guards; `OneAccident` and
`RoomIsOpen` are constraints of a run.

- `GameLog`: three rows with a snapshot every two reach an append with and without a snapshot, a recovery
  with and without rows after it, and the end of the game on either. One fault and one crash can hit
  every pair of store calls of two appends, and the crash may follow the fault. In the safety run people and
  the clock add to an empty queue only, and what waits behind an append is a bot's move or a drain, which the
  bound does not hold back; in the liveness run two such tasks wait behind each other as well. More rows repeat these. What the bounds cut off is what the proofs are for.
- `Seats`: the pause needs `PauseAfter` lapses and the take-over `TakeoverAfter` of one person, so a first action
  and three more let both happen, and the game may or may not be over after them. A crash may come after
  a take-over, so that a recovery has a roster to load and its player a connection left to bind with before it does. Two waiting tasks let a command, or a second lapse, wait
  behind the lapse in execution. Three connections let a seat be replaced twice while a
  first close is late.  Every seat begins as a person's: that no clock starts in a paused game where the bots of the
  room still move is a matter of `DesertedGamesRest`.  The writes of both runs land in the order they were issued; any other order is a matter
  of the proofs, and `StoreFollowsHub` excludes it.
- `Turn`: with two trains each and a threshold of 0, a duel reaches the final round through claims and a
  stalled table through lack of cards; four cards of which two are locomotives reach every recycling,
  an empty deck, an empty discard and a surcharge that cannot be paid. In the team table hands start
  empty so that pools matter.
- `Room`: three accounts and a cap of two make every seat contested; settings that raise the cap to three and
  lower it again reach the changes of size. One pending request is enough for a window: two of one class
  are a slow one and a fast one. A second game exists where votes and finished games may meet it.
- `Events`: four rounds let an entry be announced, start, last and end, and the next one follow, with the end
  triggered before, between or after; two entries are the least that can meet. Three players are the least
  for which a reversed order differs from a rotation.
- `Residency`: two objects are the most the protocol may confuse; a third would need two recoveries at once,
  which the single flight excludes. One row besides the genesis and the end lets a log be behind or ahead. One
  mishap meets every access once, and a delete of a purge that is rejected leaves the other to end in either way.
  Two orders and a sweep let jobs meet.
- `Scoring`: a cycle with a tail and a parallel pair has trails that do not use every track, components that
  join, borrows that tie, and a station that should wait for another. The property is about every network
  of such a board, so the bound is the board.

`TypeOK` of `GameLog`, `Seats`, `Turn` and `Room` is stated for the proofs, and is no property of a run: a wrong
type stops TLC in the guards and invariants that read the variable. `Events` and `Residency` have theirs,
`Typed`, with their proofs; the `TypeOK` of `Residency` has the bounds of its runs as well and is for the reader.

`CHECK_DEADLOCK FALSE` in all runs but `residency`: games end, rooms close, and so do the bounds. In
`residency` time always passes, so that a state without a successor would be a protocol in which everybody
waits for everybody, and TLC looks for one. That no phase of the rules is a dead end for the players is the
property `SomebodyCanPlay`. Symmetry is used where no definition tells the values apart (connections, people
of `Seats`, accounts of `Room` besides the owner, cards of one colour) and in no run with a temporal property
that looks beyond one step. `RoomIsOpen` cuts behaviours at a closed room, which nothing opens again;
`OneAccident` keeps `seats_clock` to a crash or a refused call, not both.

### Fairness

`GameLog` and `Residency` have liveness properties.

`GameLog!FairSpec` assumes weak fairness of the queue, the driver, its timer, creation and eviction: a promise
chain runs its next callback, `setTimeout` fires, and a call to the store is eventually answered (with
success or, within `MaxFaults`, with an error). Nothing obliges clients, maintainers, faults, crashes or a
recovery to act.

`Residency!FairSpec` assumes weak fairness of creation, of the queue of every object, of the recovery and of
every job once it runs, for the same reason, and of the sweep, which an interval starts every hour. It
assumes strong fairness of `Week`, the passing of the sweep's threshold over a game nobody touches: a game
that is again and again at rest is at some time left at rest for long enough. `RoomsAreFreed` needs it:
without it people could come back to a dead room every six days for ever. No job a maintainer or a voter
asks for is ever obliged to be asked for.

## 4. Proofs

TLC looks at the instances of section 3. The theorems below hold for every value of the constants that
satisfies the assumptions of the module: any number of players, connections, rows, rounds, faults and
crashes. The bounds named in section 3 are constants like the others, so a proof covers every bound, and with
them every finite behaviour of the unbounded system. Each proof module has one inductive invariant (`Inv`;
`GameLogProofs` has `Delivery` on top of it, `SeatsProofs` `StoreInv`, `TurnProofs` `Supplies`), one lemma per action or per group of actions that it is
kept, and the theorems. Each invariant was checked with TLC on the instances of the runs before it was proved.

| module | theorem | states |
|---|---|---|
| `GameLogProofs` | `InvHolds`, `TypeCorrect` | the inductive invariant, `TypeOK` |
| | `WriteAheadHolds` | the committed state is a prefix of the log, which is at most one row ahead |
| | `SnapshotsHold` | every snapshot is the state its seq stands for |
| | `ArchiveHolds` | only a completed, ended game is archived |
| | `RecoveryHolds` | a recovery resumes from the whole log |
| | `MatchImplementsJournal` | every step of the match is a step of `Journal` or a stutter |
| | `DeliveryHolds` | the inductive invariant of delivery |
| | `LateRowsAreBounded` | at most one row is written after a termination |
| | `BotsAreNotForgotten` | something is under way for a bot on the move |
| | `FramesApplyOnce` | no frame has two rows |
| `SeatsProofs` | `Invariance`, `TypeCorrect` | the inductive invariant, `TypeOK` |
| | `SeatIsKept` | the last hello keeps the seat |
| | `NoticesHold` | "left" notices are right |
| | `WaitingHasAClock` | a person who is waited for is on the clock |
| | `DesertedGamesRest` | a deserted game is paused and has no clock |
| | `TakeoversAreEarned` | a bot takes a seat only after `TakeoverAfter` missed turns, or back when a recovery loads its roster |
| | `StoreFollows` | the database will hold what the hub knows of take-overs and inactive games |
| `TurnProofs` | `Invariance`, `TypeCorrect` | the inductive invariant, `TypeOK` |
| | `LastRoundIsFair` | after the trigger everybody ends one more turn |
| | `RepairersGoFirst` | the window of a repair lasts to the end of the repairer's next turn |
| | `DeadTablesEnd` | no turn opens on a dead table |
| | `LocksHold` | a ticket is locked exactly when its side joins it |
| | `GroupsHold` | parallel tracks lock when the number of players says |
| | `CardsHold`, `NothingIsLost` | cards, and cards, trains and tickets, are each in exactly one place |
| | `MirrorHolds` | PASS is offered exactly to those who have nothing else to do |
| | `NobodyIsStuck` | in every phase somebody has what an action asks for |
| `RoomProofs` | `Invariance`, `TypeCorrect` | the inductive invariant, `TypeOK` |
| | `RoomsFit`, `HostsStay`, `PlacesAreSingle`, and `TablesAreSound` of the three | what start makes a game of is a table of the rules, under the slow classes each part names |
| | `TablesMatch`, `VotesBelong` | a live game's table is its room's, and votes stand in the game they were written for |
| `EventsProofs` | `Invariance`, `TypeCorrect` | the inductive invariant, its types |
| | `DecisionsAreAsked` | no phase without its decision |
| | `MarkerStaysInDeck` | the marker is never beyond the deck |
| | `ContractsGoToTheFirst` | contracts are won by who joins first |
| | `RoundsAreFair` | one turn per seat and round |
| | `AnnouncementsAreKept` | what was announced starts, and nothing unannounced that must be |
| `ResidencyProofs` | `Invariance`, `TypeCorrect` | the inductive invariant, its types |
| | `NothingIsOrphaned` | a deleted game gets no row, and keeps none unless their delete itself failed |
| | `ResidentsAreCurrent` | the resident match at rest has applied the log, or all but the row a failed append left |
| | `HistoryIsRight` | history has the completed games, and no other |
| `ScoringProofs` | `LocksAreExactHolds` | what is locked is what the network joins by the rule of the lock |
| | `LockedIsFinalHolds` | what was announced as complete counts in the end |
| | `TrailIsLongestHolds` | the search for the longest trail finds it, on any network |
| | `BorrowsAreBestHolds` | the branch and bound over the borrows returns the very assignment of the plain enumeration, ties included |

### GameLog

`WriteAhead` is not inductive: that an append adds exactly one row depends on what its task prepared
before it waited (`PreparedFollows`), that nothing else writes meanwhile on the queue (`TaskAtHead`), that
a match out of the registry has no task that could still write (`AwayIsIdle`, `EvictedIsGone`: eviction
waits for the queue and happens only when the game is gone), that a recovery holds the log as it is when
it is adopted (`LoadingIsCurrent`), that creation does not overlap play (`BootIsQuiet`), and that the
recording of the end follows the last commit (`FinishedIsOver`, `ShownIsCommitted`). That the latest snapshot
plus the rows after it is the log (`RestoredIsEvents`) is a lemma about finite sets of numbers and needs that a
finite set of seqs has a largest element (`LargestNatural`). The refinement has one step per action of the
match, mapped to the action of `Journal` it stands for.

`Delivery` adds what makes the rest inductive. A row after the termination needs an append that passed the gate
before it, and there is one task past the gate (`RowsInTime`). A bot on the move has the driver, its
timer, a call of it, or a task that calls it at its end (`BotIsPrompted`); the vote is the one task that does
not call it, and the state it prepares has nobody on the move (`EndingEnds`). A frame that has a row is
`Settled`: below the cursor, its sender has to say hello first, or its row is still in flight and stands in the
way of a second. `FramesAreBound` and `FrameIsNew` tie the queue to the connections.

Both are proved under `~EarlyBind`: sockets do not bind while `createMatch` waits. Without it a match may be
evicted while tasks of it are still queued and its document is about to appear; the abstraction of one match
object per game, on which the proof rests, then no longer matches the code. `Residency` has the match
objects, and shows with `EarlyRequests` what that window leads to.

### Seats

`LastHelloKeepsTheSeat` and `NoticesAreRight` need that a connection past its second verdict has a resident
match and that after a crash nobody binds before the recovery (`HellosArePeople`, `NobodyBeforeRecovery`): a
close may come at any step of a hello. `WaitingIsTimed` and `DesertedRests` need that the task the store is
answering is the one at the head and still to the point (`HeadActs`), that only bots' tasks are of nobody
(`TasksArePeoples`), and that the two counters in memory are what the history says and bots are kept in
the map (`ClockInOrder`); the counters are also why a take-over is earned. No premise on the order of writes: `LandInOrder` is arbitrary.

`StoreFollowsHub` is about the database and the memory that a crash separates. `Leads` says what a list of writes
under way will make of a stored value: issuing a write replaces what its field comes to (`EndsIssued`), landing
the first one changes nothing (`EndsLanded`). A match that is not in memory has nothing under way
(`GoneIsQuiet`), so that what a recovery reads is where the writes have led; until it is loaded, `Crew` is the
roster that was read, and no write of a roster is issued then but by a take-over, which makes the load skip it. The property has three
exclusions, which are the code's: a failed store call and an order of landing that was not the order of
issue make it false, and the mark of a game that is over or came back from a crash stays.

### Turn

`Inv` is `Turns /\ Network /\ Pending /\ Cards`. `Turns` has the round: seats, passes, the trigger, offers, repairs;
every action either leaves it alone or calls `EndTurn`, about which it is proved once. `Network` has the
board with `LocksAreRight` and `ParallelTracks`; a tunnel is decided in one step and claimed in another, so
they need `TunnelOpen` of `Pending`: the track is still nobody's and its side owns no twin of it. `Cards`
says that each card is in one place, and is about a reshuffle into an arbitrary set. `StalledGameEnds` needs
`Opening`: before the opening offers are answered nothing has been laid and there are cards.

`Conserved` counts trains by the lengths of a player's tracks, and the tickets of the deck and of the long deals one by one. The
first rests on sums over finite sets (`SumOfOneMore`, `SumExists` of `NaturalLemmas`), the second on what a
sequence keeps when it is cut and appended to (`DeckIsCut`), and both on the other invariant.

`PassIsLast` compares two texts of one rule: `legality.ts` counts the cards of each colour, the reducer wants a
payment. That a count suffices exactly when a payment exists is `AffordsIsPays`: a part of the right size of
the cards of one colour and the locomotives (`PartOfSize`), and a payment read backwards. A dead end could also come
from what an action does after its guard, so it is proved that a draw, a reveal and the refill of the market are
possible with however few cards are left (`DrawIsPossible`, `FilledIsPossible`, `SweptIsPossible`). `Supplies`
is what `SomebodyCanPlay` needs beyond `Inv`: the market is never too full to be filled, and while the opening
offers are open there is one that can be answered. That the guards are in fact what ENABLED says is
`GuardsAreEnabled`, and TLC's.

Assumptions beyond types: the deck outlasts the opening hands, an opening offer has at least a ticket and as many as
must be kept, and no answer to a later offer must keep more than one (`DealAssumption`: `map-data/validate.ts:554-556`,
`shared/constants.ts:73-74`), the twins of a track are the rest of its group (`BoardAssumption`), and a ticket is
in the decks once (`TicketAssumption`, see above).

### Room

An update that is decided and written at once keeps the room right because it was decided on the document it is
written to. For the one that is slow, `Pending` says what a request of its class may still ask for when it
lands: which fields its filter compares, which it sets, and that an array it writes back is no longer than
the size it compares. `Right` has the five promises, each under the classes it withstands, as in the
properties. Accounts, layouts, settings and games are arbitrary.

### Events

`OneTurnPerRound` needs who has had a turn when a seat is on the move: the seats before it in the direction of the
round, nobody in a draft (`RoundSoFar`). `PromisesKept` needs that what was announced is the entry that comes
next and starts in the next round (`ToldIsNext`), and that the schedule is strictly in order (`Ordered`, in
`Typed`). `MarkerInDeck` needs that cards on the table are not also in the pile (`Fits`). That events run out when
they should is `NoneOutlasts`. A contract speaks of what the tracks of a seat reach, which
the model computes by iteration; that more tracks reach no less is `ReachedIsMonotonic`.

### Residency

The argument is about the end of a game: its last row, or a termination, closes the gate of the log for good. The
one object that is past the gate then is the last that writes (`OneWriter`), and an eviction waits for it with a
drain at the end of its queue. Objects out of the registry hold tasks only when the game is closed and
nobody writes, so they have only refusals left. Hence a job that has come to its deletes knows that nobody
writes (`JobsAreRight`), each drain and each end answers the job that waits for it and no other (`TasksAreRight`),
the resident match is the log or one row behind it while that row is written, or since an append failed behind
it (`InStep`), and a recovery runs only where no match is resident. `Ending` says who is still to archive or
delete something of a game that has ended, deletes that nobody awaits among them, `Beginning` what a start
in progress has not done yet.

Proved under `~EarlyRequests`; with it TLC refutes two of the three properties. The two accidents that the
properties exclude by name (`torn`, `unrecorded`) are excluded in the theorems as well.

### Scoring

While the game is played a claim locks the tickets its network joins (`lockCompletedTickets`, with what the stations
may borrow), for everybody it may help; in the end other code joins everything again. `LocksAreExact` is the
inductive invariant: a ticket is locked if and only if the network joins it now. It needs that joining only grows with
the table (`TableGrows`, `ConnectedGrows`: neither tracks nor stations are ever taken away, and a station's
candidates stay candidates), and that the classes of a larger network are coarser (`SameGrows`, from
`ClassIsFinest`: a class is the least set closed under the tracks, whatever order the union-find met them in).
`LockedIsFinal` follows: the final count joins the same track and some of the borrows, and all of them where stations
borrow without limit.

`TrailIsLongest` compares the search with a definition that knows no search: connected, and at most two cities
of odd degree. `Walks` stands between them. A walk leaves a city as often as it comes to it, but for its two
ends (`WalkEnds`), so its tracks are a trail (`WalkIsTrail`); a trail is a walk (`TrailIsWalk`), for the longest
walk in it can be made longer as long as it misses a track: at its end, or where a round trip over the missed
tracks meets it (`RoundTrip`, `WalkPasses`). And the search returns the longest walk: what a node of it
answers (`Answer`) is proved by induction over the tracks not used yet, with the cut by the bound (`SearchedIs`),
in whatever order the tracks of a city are tried (`FoldedIs`). The early stop loses nothing
(`LongestInComponentIs`), nor does the split, since a walk lies in one component (`InOneComponent`).

`BorrowsAreBest` is about a search that carries what it found from branch to branch. `Better` orders the
assignments of the options strictly (`BetterOrders`), so one is best (`BestExists`, an assignment `s`). A node leads
to the assignments that agree with it where it has chosen, and its account is right for each of them: the score
of such an assignment is what the node has, and what it gains of the tickets still live (`IsNode`, `Accounts`).
What is claimed of a node has a side before, `Ready`, and one after, `Found`: if what was found so far is an
assignment with its own scores that comes earlier than all the node leads to, then afterwards nothing good has
been lost, and if the node leads to `s`, `s` is what was found. `SearchFinds` shows it for the nodes with the fewest
stations left first, and along the loop over the options (`BranchedFinds`). Three things the code leaves out need an
argument each:

- a branch below the floor (`StopsInTime`): the floor is the score of some assignment, which for the start is that
  of the greedy pass (`GreedyIsOne`), so `s` is not below it. With `<=` instead of `<` a tie would be cut, which is
  the mutant of the run;
- an option between cities that are already joined (`IdleTrack`): without it the same tickets are met, with
  a borrow less;
- all but the first of the options that join the same two components (`OptionsDo`): replacing each by the first
  meets the same tickets, and is earlier.

That the search, a recursive function on an infinite set of nodes, is a solution of its equation at all is
`FixedPoint`: a step that looks only at nodes with fewer stations left has one (`SoughtIs`, `SeeksExists`).

### How the proofs go about induction

Where a proof needs an induction over numbers (a largest snapshot, a sum along a set, a filter along the
members of a room, the reach of a network) it takes a least counterexample: a set of naturals that is not empty
has a least element (`LeastNatural`, from the well-foundedness of the subset ordering). Recursive
functions are introduced as the orbit of a step (`Iterates`), and the folds of the library over a finite set as what
a chain of larger and larger parts of it computes, in any order or in a given one (`FoldInExists`, `FoldByKeeps`,
`OnlyOneFold`). A least set closed under a rule (`Walks`) brings its induction with it.

### Only model-checked

- `BotMoves`, `CommandsAnswered` and `RoomsAreFreed`: liveness.
- `GuardsAreEnabled`: it speaks of ENABLED. With it, `MirrorHolds` and `NobodyIsStuck` are about the actions.
- `LiveSeatsStay` and `EveryoneTakesAFinalTurn`: the two statements that the code does not keep.
- The `TypeOK` of `Residency` bounds the log by the bound of its run; its types without it are proved.

## 5. Plan

What is left, in this order:

1. More of what the models say without a property: an abstract specification of a room's life and of the clock,
   and that `Room` and `Residency` agree on the life of a game.
2. `Ratings`: a completed game is rated once; then the rotation of refresh tokens.
3. The composition of `Seats` and `GameLog`: a person who comes back while the move of the bot in the seat is
   being appended (`hub.ts:1703`).

## 6. Not modelled, and why

- Formats and codecs: their effect is the identity on what the properties see.
- The choices of bots and clients: any choice is allowed.
- Queries and listings: reads.
- Rate limits and heartbeats: they only close sockets, and sockets close at any time.
- OAuth, mail and push: other services, after the fact.
- Ratings and refresh tokens: planned.
- The scores of random events and the assembling and ranking of the scoreboard: sums over one state.
- The step budgets of the two searches of `Scoring`: far above what the boards of the game need. The theorems about
  the searches are about searches that end by themselves.
- The user interfaces, map editors and maintainers' screens: most of the repository's lines are here, and
  nothing in them decides what a game or a room is.

Hazards that a property covers only in part, or not at all, are listed in `PROJECT.json` with a note.
