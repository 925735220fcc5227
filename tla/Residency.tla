----------------------------- MODULE Residency -----------------------------
(***************************************************************************)
(* One game in memory and in the store, from the start of its room to the   *)
(* purge: GameRegistry holds at most one Match (a session and its command   *)
(* queue) per game id, GameStore holds the game document, its rows and the  *)
(* archived result, and four parties create, load, end and delete them:     *)
(* WsHub.createMatch, the single-flight recovery, the bot driver, and the   *)
(* maintenance jobs (PurgeService and the dashboard's terminate).  Every    *)
(* access to the database is a step of its own: what the other parties do   *)
(* between two of them is what these protocols have to withstand.           *)
(*                                                                          *)
(* A Match is an object: who took it from the registry keeps it after the   *)
(* registry forgot it, so objects are values here and the registry's slot   *)
(* holds one of them.  Any access may be rejected, and a rejected write may *)
(* have been applied all the same.  What a command does to the game is      *)
(* module Turn, the checkpoints and the retries of an append are module     *)
(* GameLog, how the room came to be started is module Room.  Left out:      *)
(* chat, spectators, unrecoverable games, the audit log, and the lobby      *)
(* rooms of the sweep.                                                      *)
(***************************************************************************)
EXTENDS Integers, Sequences, FiniteSets, SequencesExt, FiniteSetsExt

CONSTANTS Objects,     \* bound: Match objects in use at once
          MaxRows,     \* bound: ordinary commands of the game
          MaxQueue,    \* bound: commands waiting in a queue
          MaxMishaps,  \* bound: crashes and rejected accesses
          MaxOrders,   \* bound: jobs a maintainer or a voter asks for
          EarlyRequests,  \* whether somebody reaches the game before createMatch is done
          Sweeper, Desk,   \* the hourly sweep, a maintainer or a voter
          None

ASSUME ResidencyAssumption ==
  /\ Objects \subseteq Nat /\ IsFiniteSet(Objects) /\ None \notin Objects
  /\ MaxRows \in Nat /\ MaxQueue \in Nat \ {0} /\ MaxMishaps \in Nat /\ MaxOrders \in Nat /\ EarlyRequests \in BOOLEAN
  /\ Cardinality({Sweeper, Desk, None}) = 3

VARIABLES game,      \* the games document: status, deleted or not, paused for a day or not (read of LIVE games)
          rows,      \* the highest event or snapshot row (-1: none), and whether it ends the game
          archived,  \* the matchHistory document exists
          room,      \* the room's status
          stale,     \* the game (or the room, without a game) is older than the sweep's threshold
          start,     \* how far createMatch has come; "lost": it ended without a document
          slot,      \* the object the registry holds
          match,     \* the objects: session (len, over), whether an append of it failed behind its row
                     \* (history), queue, progress of the running task
          load,      \* the single-flight recovery
          job,       \* the maintenance jobs
          loose,     \* deletes of a purge whose job has ended: nobody awaits them
          orders,    \* jobs asked for so far
          mishaps,   \* crashes and rejected accesses so far
          odd        \* history: which of the excluded accidents have happened

durable == <<game, rows, archived, room, stale>>
memory == <<slot, match, job>>
vars == <<game, rows, archived, room, stale, start, slot, match, load, job, loose, orders, mishaps, odd>>

Jobs == {Sweeper, Desk}
Unused == [len |-> -1, over |-> FALSE, lost |-> FALSE, queue |-> <<>>, at |-> "rest"]
Idle == [phase |-> None, sweep |-> FALSE, at |-> "idle", then |-> None, left |-> {}]
NoLoad == [at |-> "idle", len |-> -1, over |-> FALSE]

Exists == game.status # "none" /\ ~game.gone
Live == Exists /\ game.status = "LIVE"
Starting == start \in {"asked", "doc", "genesis"}
\* The room is STARTED, and shows its game id, before the match exists: a fast client may come
\* early.  ResidentIsCurrent and HistoryIsTheEnded do not hold then: a recovery under way adopts
\* a second match over the created one, and a bot whose append is refused for want of a document
\* evicts it.
Reachable == EarlyRequests \/ ~Starting
InUse(m, s) == {o \in Objects : o = s \/ m[o].queue # <<>>}
\* An object nobody can reach any more is garbage.
Kept(m, s) == [o \in Objects |-> IF o \in InUse(m, s) THEN m[o] ELSE Unused]
Fresh == Min(Objects \ InUse(match, slot))
HasFresh == Objects \ InUse(match, slot) # {}
Queued(m, o, t) == [m EXCEPT ![o].queue = Append(@, t)]
Mishap == mishaps < MaxMishaps /\ mishaps' = mishaps + 1
Task(type, last, by) == [type |-> type, last |-> last, by |-> by]

Init ==
  /\ game = [status |-> "none", gone |-> FALSE, paused |-> FALSE]
  /\ rows = [n |-> -1, over |-> FALSE] /\ archived = FALSE
  /\ room = "STARTED" /\ stale = FALSE /\ start = "asked"
  /\ slot = None /\ match = [o \in Objects |-> Unused]
  /\ load = NoLoad /\ job = [j \in Jobs |-> Idle] /\ loose = {} /\ orders = 0 /\ mishaps = 0 /\ odd = {}

(***************************************************************************)
(* createMatch: the match is registered, then the document is inserted,     *)
(* then the genesis snapshot.                                               *)
(***************************************************************************)
CreateMatch ==
  /\ start = "asked" /\ slot = None /\ HasFresh
  /\ slot' = Fresh
  /\ match' = [match EXCEPT ![Fresh] = [Unused EXCEPT !.len = 0]]
  /\ start' = "doc"
  /\ UNCHANGED <<durable, load, job, loose, orders, mishaps, odd>>

InsertGame ==
  /\ start = "doc"
  /\ game' = [game EXCEPT !.status = "LIVE"] /\ stale' = FALSE
  /\ start' = "genesis"
  /\ UNCHANGED <<rows, archived, room, memory, load, loose, orders, mishaps, odd>>

InsertGenesis ==
  /\ start = "genesis"
  /\ rows' = [rows EXCEPT !.n = Max({@, 0})]
  /\ start' = "done"
  /\ UNCHANGED <<game, archived, room, stale, memory, load, loose, orders, mishaps, odd>>

\* createGame is rejected: start answers with an error, the room stays STARTED and the match, with
\* or without a document, resident.
CutShort(g) == IF g.status = "none" THEN "lost" ELSE "done"
StartFails ==
  /\ start \in {"doc", "genesis"} /\ Mishap
  /\ \/ UNCHANGED <<game, stale>>
     \/ start = "doc" /\ game' = [game EXCEPT !.status = "LIVE"] /\ stale' = FALSE
  /\ start' = CutShort(game')
  /\ UNCHANGED <<rows, archived, room, memory, load, loose, orders, odd>>

(***************************************************************************)
(* The jobs.  A job of PurgeService walks through phases (one per query of  *)
(* the sweep, one for any other job) and, within a phase, through the       *)
(* database accesses of terminateIfLive, evictMatch, closeByGameId,         *)
(* purgeGameCore and purgeRoomCore.                                         *)
(***************************************************************************)
\* The phase is over: the sweep goes on to its next query.
NextPhase(b) ==
  CASE b.phase = "paused" -> [b EXCEPT !.phase = "game", !.at = "query"]
    [] b.phase = "game" /\ b.sweep -> [b EXCEPT !.phase = "room", !.at = "query"]
    [] OTHER -> Idle

\* What follows terminateIfLive, whether the game was LIVE or not.
Terminated(b) ==
  CASE b.phase = "game" -> [b EXCEPT !.at = "resident"]
    [] b.phase = "room" -> [b EXCEPT !.at = "drop"]
    [] OTHER -> NextPhase(b)

\* The match is gone; what evictMatch was called for goes on.
Evicted(b) ==
  CASE b.then = "close" -> [b EXCEPT !.at = "close", !.then = None]
    [] b.then = "wipe" -> [b EXCEPT !.at = "wipe", !.then = None, !.left = {"doc", "rows"}]

\* The answer of endGame: to the vote, to the sweep (endPausedGame).
EndAnswered(b, ended) ==
  CASE b.phase = "vote" -> Idle
    [] ended -> [b EXCEPT !.at = "close"]
    [] OTHER -> [b EXCEPT !.at = "cas"]

\* What a finished task tells the job that queued it.
Answered(b, task, outcome) ==
  CASE task.type = "drain" -> Evicted(b)
    [] task.type = "end" -> EndAnswered(b, outcome = "ended")

(***************************************************************************)
(* The command queue: one task at a time, to its end.                       *)
(***************************************************************************)
Current(o) == Head(match[o].queue)
Running(o, at) == match[o].queue # <<>> /\ match[o].at = at

\* The head task leaves the queue; a drained eviction also forgets the match.
Finish(o, m, outcome) ==
  LET t == Current(o) IN
  /\ slot' = IF t.type = "drain" THEN None ELSE slot
  /\ match' = Kept([m EXCEPT ![o].queue = Tail(@), ![o].at = "rest"], slot')
  /\ job' = IF t.by = None THEN job ELSE [job EXCEPT ![t.by] = Answered(@, t, outcome)]

Drain(o) ==
  /\ Running(o, "rest") /\ Current(o).type = "drain"
  /\ Finish(o, match, "drained")
  /\ UNCHANGED <<durable, start, load, loose, orders, mishaps, odd>>

\* A session that is over refuses every command; endGame answers already_ended.
AlreadyOver(o) ==
  /\ Running(o, "rest") /\ Current(o).type # "drain" /\ match[o].over
  /\ Finish(o, match, "ended")
  /\ UNCHANGED <<durable, start, load, loose, orders, mishaps, odd>>

\* appendAction's gate refuses.  If the command was a bot's, the driver evicts the match: the
\* drain joins the queue of the resident match.
Refused(o, m) ==
  \/ Finish(o, m, "notLive")
  \/ /\ Current(o).type = "move" /\ slot # None
     /\ Finish(o, Queued(m, slot, Task("drain", FALSE, None)), "notLive")
Gate(o) ==
  /\ Running(o, "rest") /\ Current(o).type # "drain" /\ ~match[o].over
  /\ IF Live THEN match' = [match EXCEPT ![o].at = "insert"] /\ UNCHANGED <<slot, job>>
     ELSE Refused(o, match)
  /\ UNCHANGED <<durable, start, load, loose, orders, mishaps, odd>>

\* The row is unique: a session that is behind the log cannot add one.
IsNew(o) == match[o].len + 1 > rows.n
RowOf(o) == [n |-> match[o].len + 1, over |-> Current(o).last]
InsertRow(o) ==
  /\ Running(o, "insert")
  /\ IF IsNew(o)
     THEN /\ rows' = RowOf(o)
          /\ match' = [match EXCEPT ![o].at = "update"] /\ UNCHANGED <<slot, job>>
     ELSE Finish(o, match, "failed") /\ UNCHANGED rows
  /\ UNCHANGED <<game, archived, room, stale, start, load, loose, orders, mishaps, odd>>

\* The row is in the log and the session does not commit it.
Behind(o) == [match EXCEPT ![o].lost = TRUE]

\* The document is touched, if still LIVE, and the session commits.
UpdateGame(o) ==
  LET done == [match EXCEPT ![o].len = @ + 1, ![o].over = Current(o).last] IN
  /\ Running(o, "update")
  /\ CASE ~Live -> Refused(o, match) /\ UNCHANGED stale
       [] Live /\ Current(o).last ->
            /\ match' = [done EXCEPT ![o].at = "complete"]
            /\ stale' = FALSE /\ UNCHANGED <<slot, job>>
       [] Live /\ ~Current(o).last -> Finish(o, done, "moved") /\ stale' = FALSE
  /\ UNCHANGED <<game, rows, archived, room, start, load, loose, orders, mishaps, odd>>

\* History: a COMPLETED game nobody will archive any more.
Unrecorded(g, done) == IF g.status = "COMPLETED" /\ ~done THEN {"unrecorded"} ELSE {}

\* recordCompletion: compare-and-set on LIVE, ...
Completed == IF Live THEN [game EXCEPT !.status = "COMPLETED", !.paused = FALSE] ELSE game
Complete(o) ==
  /\ Running(o, "complete")
  /\ game' = Completed /\ stale' = (stale /\ ~Live)
  /\ match' = [match EXCEPT ![o].at = "archive"]
  /\ UNCHANGED <<rows, archived, room, start, slot, load, job, loose, orders, mishaps, odd>>

\* ... then the archive, unless the document is gone or TERMINATED.  The mutant trusts the session.
ArchivesAlways == TRUE
Archives == Exists /\ game.status # "TERMINATED"
Archive(o) ==
  /\ Running(o, "archive")
  /\ archived' = (archived \/ Archives)
  /\ Finish(o, match, "ended")
  /\ UNCHANGED <<game, rows, room, stale, start, load, loose, orders, mishaps, odd>>

\* The append is rejected: before its row, at the row, which may be there, or at the checkpoint
\* or the document, which may be written.
AppendFails(o) ==
  /\ match[o].queue # <<>> /\ Mishap
  /\ \/ match[o].at = "insert" /\ Finish(o, match, "failed") /\ UNCHANGED <<rows, stale>>
     \/ match[o].at = "insert" /\ IsNew(o) /\ rows' = RowOf(o)
        /\ Finish(o, Behind(o), "failed") /\ UNCHANGED stale
     \/ match[o].at = "update" /\ stale' \in {stale, stale /\ ~Live}
        /\ Finish(o, Behind(o), "failed") /\ UNCHANGED rows
  /\ UNCHANGED <<game, archived, room, start, load, loose, orders, odd>>

\* A rejected write of recordCompletion, applied or not, is swallowed, and what follows it is not
\* done: a COMPLETED game may stay unrecorded, an ended one LIVE.
RecordFails(o) ==
  /\ match[o].queue # <<>> /\ Mishap
  /\ \/ match[o].at = "complete" /\ UNCHANGED <<game, archived, stale>>
     \/ match[o].at = "complete" /\ game' = Completed /\ stale' = (stale /\ ~Live) /\ UNCHANGED archived
     \/ match[o].at = "archive" /\ archived' \in {archived, archived \/ Archives} /\ UNCHANGED <<game, stale>>
  /\ odd' = odd \cup Unrecorded(game', archived')
  /\ Finish(o, match, "ended")
  /\ UNCHANGED <<rows, room, start, load, loose, orders>>

\* The command of a seated player, or of the bot driver, reaches the queue of the resident match.
Move(last) ==
  /\ Reachable /\ slot # None /\ ~match[slot].over
  /\ Len(match[slot].queue) < MaxQueue
  /\ last \/ match[slot].len + Len(match[slot].queue) < MaxRows
  /\ match' = Queued(match, slot, Task("move", last, None))
  /\ UNCHANGED <<durable, start, slot, load, job, loose, orders, mishaps, odd>>

(***************************************************************************)
(* recoverMatch: the document, the rows, the status once more, the slot.    *)
(***************************************************************************)
Reconnect ==
  /\ Reachable /\ slot = None /\ load.at = "idle"
  /\ load' = [NoLoad EXCEPT !.at = "doc"]
  /\ UNCHANGED <<durable, start, memory, loose, orders, mishaps, odd>>

\* Jobs waiting in endGame join the attempt: each queues its END_GAME, or learns there is no game.
Joined(b, found) ==
  IF b.at # "recover" THEN b
  ELSE IF found THEN [b EXCEPT !.at = "ending"] ELSE EndAnswered(b, FALSE)
NotFound ==
  /\ load' = NoLoad /\ job' = [j \in Jobs |-> Joined(job[j], FALSE)]
  /\ UNCHANGED <<slot, match>>

LoadDoc ==
  /\ load.at = "doc"
  /\ IF Exists /\ game.status # "TERMINATED"
     THEN load' = [load EXCEPT !.at = "rows"] /\ UNCHANGED memory
     ELSE NotFound
  /\ UNCHANGED <<durable, start, loose, orders, mishaps, odd>>

\* The latest snapshot and the tail after it.  The mutant forgets the last row of the tail.
ReplayedShort == Max({rows.n - 1, 0})
Replayed == Max({rows.n, 0})
LoadRows ==
  /\ load.at = "rows"
  /\ load' = [at |-> "status", len |-> Replayed, over |-> rows.over]
  /\ UNCHANGED <<durable, start, memory, loose, orders, mishaps, odd>>

LoadStatus ==
  /\ load.at = "status"
  /\ IF Exists /\ game.status = "TERMINATED" THEN NotFound
     ELSE load' = [load EXCEPT !.at = "adopt"] /\ UNCHANGED memory
  /\ UNCHANGED <<durable, start, loose, orders, mishaps, odd>>

\* The attempt is rejected, for everybody who joined it.
LoadFails ==
  /\ load.at \in {"doc", "rows", "status"} /\ Mishap
  /\ NotFound
  /\ UNCHANGED <<durable, start, loose, orders, odd>>

\* adopt overwrites whatever the slot holds: a recovery that began before createMatch registered
\* its match makes a second one.
Adopt ==
  LET waiting == {j \in Jobs : job[j].at = "recover"}
      tasks == SetToSeq({Task("end", TRUE, j) : j \in waiting})
      new == [Unused EXCEPT !.len = load.len, !.over = load.over, !.queue = tasks]
  IN
  /\ load.at = "adopt" /\ HasFresh
  /\ slot' = Fresh /\ match' = Kept([match EXCEPT ![Fresh] = new], Fresh)
  /\ load' = NoLoad /\ job' = [j \in Jobs |-> Joined(job[j], TRUE)]
  /\ UNCHANGED <<durable, start, loose, orders, mishaps, odd>>

(***************************************************************************)
(* Beginning a job.  A maintainer acts on the game or its room, a member's  *)
(* vote ends the game, the timer starts the sweep.                           *)
(* Assumed: nobody deletes a game while it is still being created.          *)
(***************************************************************************)
IsGameOver == IF slot # None THEN match[slot].over ELSE Exists /\ game.status = "COMPLETED"

Begin(j, b) ==
  /\ job[j].at = "idle"
  /\ job' = [job EXCEPT ![j] = b]
  /\ UNCHANGED <<durable, start, slot, match, load, loose, mishaps, odd>>

Order(phase, at) ==
  /\ orders < MaxOrders /\ orders' = orders + 1
  /\ Begin(Desk, [Idle EXCEPT !.phase = phase, !.at = at])
Terminate == Order("stop", "cas")
DeleteGame == ~Starting /\ Order("game", "find")
DeleteRoom == Order("room", "get")
VoteEnd == room = "STARTED" /\ Reachable /\ ~IsGameOver /\ Order("vote", "end")
Sweep ==
  /\ Begin(Sweeper, [Idle EXCEPT !.phase = "paused", !.at = "query", !.sweep = TRUE])
  /\ UNCHANGED orders

(***************************************************************************)
(* The database accesses of a job.                                          *)
(***************************************************************************)
Step(j, at, b) == job[j].at = at /\ job' = [job EXCEPT ![j] = b]

\* A STARTED room is as old as its game, or as itself when the game is gone.  The mutant looks
\* at the game only.
OverdueByGame == Exists /\ stale
Overdue == stale

\* The three queries of the sweep.
Query(j) ==
  LET b == job[j] IN
  /\ Step(j, "query",
       CASE b.phase = "paused" /\ Live /\ game.paused -> [b EXCEPT !.at = "end"]
         [] b.phase = "game" /\ Live /\ stale -> [b EXCEPT !.at = "find"]
         [] b.phase = "room" /\ room = "STARTED" /\ Overdue -> [b EXCEPT !.at = "get"]
         [] OTHER -> NextPhase(b))
  /\ UNCHANGED <<durable, start, slot, match, load, loose, orders, mishaps, odd>>

\* endGame: on the resident match, or on the one a recovery brings back.
EndGame(j) ==
  /\ IF slot # None
     THEN /\ Step(j, "end", [job[j] EXCEPT !.at = "ending"])
          /\ match' = Queued(match, slot, Task("end", TRUE, j)) /\ UNCHANGED load
     ELSE /\ Step(j, "end", [job[j] EXCEPT !.at = "recover"])
          /\ load' = IF load.at = "idle" THEN [NoLoad EXCEPT !.at = "doc"] ELSE load
          /\ UNCHANGED match
  /\ UNCHANGED <<durable, start, slot, loose, orders, mishaps, odd>>

\* terminateIfLive: compare-and-set to TERMINATED, then evict and close the room.
Stopped == IF Live THEN [game EXCEPT !.status = "TERMINATED", !.paused = FALSE] ELSE game
CasTerminated(j) ==
  /\ Step(j, "cas", IF Live THEN [job[j] EXCEPT !.at = "evict", !.then = "close"]
                    ELSE Terminated(job[j]))
  /\ game' = Stopped /\ stale' = (stale /\ ~Live)
  /\ UNCHANGED <<rows, archived, room, start, slot, match, load, loose, orders, mishaps, odd>>

\* evictMatch waits behind what the queue holds.  The mutant forgets the match at once.
EvictAtOnce(j) ==
  /\ Step(j, "evict", Evicted(job[j]))
  /\ slot' = None /\ match' = Kept(match, None)
EvictDrained(j) ==
  IF slot = None THEN Step(j, "evict", Evicted(job[j])) /\ UNCHANGED <<slot, match>>
  ELSE /\ Step(j, "evict", [job[j] EXCEPT !.at = "draining"])
       /\ match' = Queued(match, slot, Task("drain", FALSE, j)) /\ UNCHANGED slot
Evict(j) == EvictDrained(j) /\ UNCHANGED <<durable, start, load, loose, orders, mishaps, odd>>

FreedRoom == IF room = "STARTED" THEN "CLOSED" ELSE room
CloseByGameId(j) ==
  /\ Step(j, "close", Terminated(job[j]))
  /\ room' = FreedRoom
  /\ UNCHANGED <<game, rows, archived, stale, start, slot, match, load, loose, orders, mishaps, odd>>

\* purgeGameCore: terminate it if LIVE, evict it if resident, then delete everything at once.
FindGame(j) ==
  /\ Step(j, "find", CASE ~Exists -> NextPhase(job[j])
                       [] Live -> [job[j] EXCEPT !.at = "cas"]
                       [] OTHER -> Terminated(job[j]))
  /\ UNCHANGED <<durable, start, slot, match, load, loose, orders, mishaps, odd>>

IsResident(j) ==
  /\ Step(j, "resident", IF slot = None THEN Evicted([job[j] EXCEPT !.then = "wipe"])
                         ELSE [job[j] EXCEPT !.at = "evict", !.then = "wipe"])
  /\ UNCHANGED <<durable, start, slot, match, load, loose, orders, mishaps, odd>>

Delete(what) ==
  IF what = "doc" THEN game' = [game EXCEPT !.gone = TRUE] /\ UNCHANGED rows
  ELSE rows' = [n |-> -1, over |-> FALSE] /\ UNCHANGED game
Wipe(j, what) ==
  LET left == job[j].left \ {what} IN
  /\ what \in job[j].left
  /\ Step(j, "wipe", IF left = {} THEN NextPhase([job[j] EXCEPT !.left = {}])
                     ELSE [job[j] EXCEPT !.left = left])
  /\ Delete(what)
  /\ UNCHANGED <<archived, room, stale, start, slot, match, load, loose, orders, mishaps, odd>>

\* A delete nobody hears of: it is applied or not.
DeleteUnheard(what) ==
  \/ Delete(what) /\ UNCHANGED odd
  \/ UNCHANGED <<game, rows>> /\ odd' = odd \cup (IF what = "rows" THEN {"torn"} ELSE {})

\* The first delete that is rejected ends the job; the others are still under way.
WipeFails(j, what) ==
  /\ what \in job[j].left /\ Mishap
  /\ Step(j, "wipe", Idle)
  /\ loose' = loose \cup (job[j].left \ {what})
  /\ DeleteUnheard(what)
  /\ UNCHANGED <<archived, room, stale, start, slot, match, load, orders>>

LooseEnd(what) ==
  /\ what \in loose /\ loose' = loose \ {what}
  /\ DeleteUnheard(what)
  /\ UNCHANGED <<archived, room, stale, start, slot, match, job, load, orders, mishaps>>

\* purgeRoomCore.
GetRoom(j) ==
  /\ Step(j, "get", CASE room = "gone" -> NextPhase(job[j])
                      [] room = "STARTED" -> [job[j] EXCEPT !.at = "cas"]
                      [] OTHER -> Terminated(job[j]))
  /\ UNCHANGED <<durable, start, slot, match, load, loose, orders, mishaps, odd>>

DropRoom(j) ==
  /\ Step(j, "drop", NextPhase(job[j]))
  /\ room' = "gone"
  /\ UNCHANGED <<game, rows, archived, stale, start, slot, match, load, loose, orders, mishaps, odd>>

(***************************************************************************)
(* Time, and the mishaps.  A day passes the threshold of a paused game, a   *)
(* week that of the games and rooms.  The sweep fixes its thresholds when   *)
(* it begins, so no time passes for it while it runs.                       *)
(***************************************************************************)
AtRest(o) == match[o].queue = <<>>
Quiet == ~Starting /\ job[Sweeper].at = "idle"

PausedForADay ==
  /\ Quiet /\ slot # None /\ Live /\ ~match[slot].over /\ ~game.paused
  /\ game' = [game EXCEPT !.paused = TRUE]
  /\ UNCHANGED <<rows, archived, room, stale, start, memory, load, loose, orders, mishaps, odd>>

PlayResumes ==
  /\ slot # None /\ Live /\ ~match[slot].over /\ game.paused
  /\ game' = [game EXCEPT !.paused = FALSE]
  /\ UNCHANGED <<rows, archived, room, stale, start, memory, load, loose, orders, mishaps, odd>>

Week ==
  /\ Quiet /\ ~stale /\ stale' = TRUE
  /\ UNCHANGED <<game, rows, archived, room, start, memory, load, loose, orders, mishaps, odd>>

Deleting(what) == what \in loose \/ \E j \in Jobs : job[j].at = "wipe" /\ what \in job[j].left
Crash ==
  /\ Mishap
  /\ slot' = None /\ match' = [o \in Objects |-> Unused] /\ load' = NoLoad
  /\ job' = [j \in Jobs |-> Idle] /\ loose' = {}
  /\ start' = IF Starting THEN CutShort(game) ELSE start
  /\ odd' = odd \cup (IF Deleting("rows") THEN {"torn"} ELSE {}) \cup Unrecorded(game, archived)
  /\ UNCHANGED <<durable, orders>>

\* An access of a job is rejected, applied or not, and the job ends.
JobFails(j) ==
  /\ Mishap /\ job' = [job EXCEPT ![j] = Idle]
  /\ \/ job[j].at \in {"query", "find", "get", "cas", "close", "drop"} /\ UNCHANGED <<game, stale, room>>
     \/ job[j].at = "cas" /\ game' = Stopped /\ stale' = (stale /\ ~Live) /\ UNCHANGED room
     \/ job[j].at = "close" /\ room' = FreedRoom /\ UNCHANGED <<game, stale>>
     \/ job[j].at = "drop" /\ room' = "gone" /\ UNCHANGED <<game, stale>>
  /\ UNCHANGED <<rows, archived, start, slot, match, load, loose, orders, odd>>

Starts == CreateMatch \/ InsertGame \/ InsertGenesis
Runs(o) == \/ Drain(o) \/ AlreadyOver(o) \/ Gate(o) \/ InsertRow(o) \/ UpdateGame(o)
           \/ Complete(o) \/ Archive(o)
Loads == LoadDoc \/ LoadRows \/ LoadStatus \/ Adopt
Works(j) == \/ Query(j) \/ EndGame(j) \/ CasTerminated(j) \/ Evict(j) \/ CloseByGameId(j)
            \/ FindGame(j) \/ IsResident(j) \/ GetRoom(j) \/ DropRoom(j)
            \/ \E what \in {"doc", "rows"} : Wipe(j, what)
Requests == \/ \E last \in BOOLEAN : Move(last)
            \/ Reconnect \/ Terminate \/ DeleteGame \/ DeleteRoom \/ VoteEnd
Time == PausedForADay \/ PlayResumes \/ Week
Mishaps == \/ Crash \/ StartFails \/ LoadFails
           \/ \E o \in Objects : AppendFails(o) \/ RecordFails(o)
           \/ \E j \in Jobs : JobFails(j) \/ \E what \in {"doc", "rows"} : WipeFails(j, what)
           \/ \E what \in {"doc", "rows"} : LooseEnd(what)

Next == \/ Starts \/ Loads \/ Requests \/ Sweep \/ Time \/ Mishaps
        \/ \E o \in Objects : Runs(o)
        \/ \E j \in Jobs : Works(j)

(***************************************************************************)
(* Fairness.  The event loop runs every continuation and the database       *)
(* answers; the sweep's interval timer fires again and again; and a game    *)
(* that is quiet again and again is left alone for a week at some point.    *)
(***************************************************************************)
Fairness == /\ WF_vars(Starts) /\ WF_vars(Loads)
            /\ \A o \in Objects : WF_vars(Runs(o))
            /\ \A j \in Jobs : WF_vars(Works(j))
            /\ WF_vars(Sweep) /\ SF_vars(Week)
Spec == Init /\ [][Next]_vars
FairSpec == Spec /\ Fairness

(***************************************************************************)
(* Properties.                                                              *)
(***************************************************************************)
\* Every variable has its type (GameStore, GameRegistry and PurgeService keep nothing else).
TypeOK ==
  /\ game \in [status : {"none", "LIVE", "COMPLETED", "TERMINATED"}, gone : BOOLEAN,
               paused : BOOLEAN]
  /\ rows \in [n : -1 .. MaxRows + 2, over : BOOLEAN] /\ archived \in BOOLEAN
  /\ room \in {"STARTED", "CLOSED", "gone"} /\ stale \in BOOLEAN
  /\ start \in {"asked", "doc", "genesis", "done", "lost"}
  /\ slot \in Objects \cup {None} /\ DOMAIN match = Objects /\ DOMAIN job = Jobs
  /\ loose \subseteq {"doc", "rows"} /\ odd \subseteq {"torn", "unrecorded"} /\ mishaps \in 0 .. MaxMishaps /\ orders \in 0 .. MaxOrders

\* Once purgeGameCore has deleted a game's document nobody writes a row of it any more: the drain of
\* evictMatch has let every write under way finish first.  And when all its deletes are over no row
\* is left, unless the delete of the rows was itself rejected or cut off: the document goes at once
\* with it, so no later purge finds the game whose rows stayed.
NoOrphans ==
  game.gone => /\ \A o \in Objects : match[o].at # "insert"
               /\ ~Deleting("rows") /\ "torn" \notin odd => rows.n = -1

\* The resident match of a LIVE game has applied exactly the rows of the log whenever its queue
\* is at rest, through eviction, recovery and crash.  Once an append of it has failed behind its row
\* it is one row behind, and stays exactly so, whatever it is asked, until it is recovered.
ResidentIsCurrent ==
  Live /\ slot # None /\ ~Starting /\ AtRest(slot)
    => match[slot].len = Max({rows.n, 0}) - (IF match[slot].lost THEN 1 ELSE 0)

\* matchHistory holds a game if and only if it was COMPLETED: a terminated game has no result,
\* however close to its end it was stopped, and an ended one keeps it through every purge.
\* (Not when recordCompletion failed or died behind the COMPLETED: its error is swallowed and never
\* retried.)
HistoryIsTheEnded ==
  (\A o \in Objects : AtRest(o)) /\ "unrecorded" \notin odd
    => archived = (game.status = "COMPLETED")

\* A started room whose game is dead is closed or deleted in the end, whatever failed on the way:
\* also when the start crashed before the game had a document, or the purge before the closing.
Dead == game.gone \/ game.status = "TERMINATED" \/ start = "lost"
RoomsAreFreed == Dead ~> room # "STARTED"
=============================================================================
