-------------------------------- MODULE Room --------------------------------
(***************************************************************************)
(* One room of the lobby: the document RoomRepo keeps (room.repo.ts) and    *)
(* the operations of LobbyService on it.  Every operation reads the         *)
(* document, decides on what it read, and sends one conditional update.     *)
(* The database applies each update atomically; what happened between the   *)
(* read and the update is what an operation can get wrong.                  *)
(*                                                                          *)
(* In a behaviour, the requests of ONE class of operations are slow: other  *)
(* operations run between their read and their update.  The class is drawn  *)
(* in the initial state, so each invariant can say which classes it         *)
(* withstands.  At most one slow request is pending at a time.              *)
(*                                                                          *)
(* Left out: display names, chat, the advisory rematch vote, the map and    *)
(* the rule switches of a game, the room code.  The ready flags are left    *)
(* out too: setReady has no guard but membership, so members can always     *)
(* have become ready before a start, and nothing else reads a flag.         *)
(***************************************************************************)
EXTENDS Integers, Sequences, FiniteSets, SequencesExt, TLC

CONSTANTS Humans,     \* accounts
          Bots,       \* bot members (each addBot draws one not seated)
          Owner,      \* the account that created the room
          BaseCap,    \* baseMaxPlayers
          Layouts,    \* TEAM_LAYOUTS: [teams, players]
          Settings,   \* bound: the settings [teams, self, watch] a host chooses from
          MaxGames,   \* bound: games started from the room, by slow class
          MaxBans,    \* bound: accounts the host removes
          Classes,    \* classes of operations that may be the slow one
          None

SlowClasses == {"join", "watch", "array", "seats", "over", "removeBot", "settings",
                "host", "start", "reset", "vote"}

ASSUME RoomAssumption ==
  /\ Owner \in Humans /\ Humans \cap Bots = {} /\ IsFiniteSet(Humans \cup Bots)
  /\ BaseCap \in Nat \ {0, 1} /\ MaxBans \in Nat /\ MaxGames \in [Classes -> Nat]
  /\ Layouts \subseteq [teams : Nat \ {0}, players : Nat] /\ IsFiniteSet(Layouts)
  /\ Classes \subseteq SlowClasses
  /\ Settings \in [Classes -> SUBSET [teams : Nat, self : BOOLEAN, watch : BOOLEAN]]
  /\ None \notin Humans \cup Bots \cup Nat

VARIABLES room,    \* the document
          games,   \* per game id: its life and the players it was created with
          slow,    \* the slow class of this behaviour
          req      \* the pending slow request, or None

vars == <<room, games, slow, req>>

Default == [teams |-> 0, self |-> FALSE, watch |-> TRUE]
Ids == Humans \cup Bots
GameIds == 1 .. MaxGames[slow]
\* A member; `ends` is wantsEnd, and the game for which setEndVote wrote it.
Seated(i) == [id |-> i, ends |-> None]
IdsOf(ms) == {ms[k].id : k \in DOMAIN ms}
\* The members with an id in S, in their order.
Only(ms, S) ==
  LET kept[k \in 0 .. Len(ms)] ==
        IF k = 0 THEN <<>>
        ELSE IF ms[k].id \in S THEN Append(kept[k - 1], ms[k]) ELSE kept[k - 1]
  IN  kept[Len(ms)]
Without(ms, i) == Only(ms, Ids \ {i})
HumansOf(ms) == Only(ms, Humans)
IsMember(i) == i \in IdsOf(room.members)
FieldOf(f) == IF f = "size" THEN Len(room.members) ELSE room[f]
Over(g) == g \in GameIds /\ games[g].life = "over"
\* The players of a game that has ended are not needed any more.
Ended(g, life) == [games EXCEPT ![g] = [life |-> life, players |-> {}]]
Live == room.game \in GameIds /\ games[room.game].life = "live"

Init ==
  /\ room = [status |-> "LOBBY", host |-> Owner, members |-> <<Seated(Owner)>>,
             watchers |-> {}, banned |-> {}, cap |-> BaseCap,
             settings |-> Default, game |-> None]
  /\ slow \in Classes
  /\ games = [g \in GameIds |-> [life |-> "unused", players |-> {}]]
  /\ req = None

------------------------------------------------------------------------------
\* A conditional update.  `if` holds the fields the filter compares; absent,
\* watching, unseen and unbanned the ids it wants (not) to find in the lists.
\* `set` replaces fields, push appends a member, and watch, unwatch and ban
\* change the two lists of ids; players are those of the game a start creates.
Update(cond) ==
  [op |-> "update", if |-> cond, absent |-> {}, watching |-> {}, unseen |-> {},
   unbanned |-> {}, set |-> <<>>, push |-> <<>>, watch |-> {}, unwatch |-> {},
   ban |-> {}, players |-> {}]

Matches(w) ==
  /\ \A f \in DOMAIN w.if : FieldOf(f) = w.if[f]
  /\ w.absent \cap IdsOf(room.members) = {}
  /\ w.watching \subseteq room.watchers /\ w.unseen \cap room.watchers = {}
  /\ w.unbanned \cap room.banned = {}

Updated(w) ==
  LET new(f) == IF f \in DOMAIN w.set THEN w.set[f] ELSE room[f]
  IN  [status |-> new("status"), host |-> new("host"), game |-> new("game"),
       members |-> new("members") \o w.push,
       watchers |-> (room.watchers \ w.unwatch) \cup w.watch,
       banned |-> room.banned \cup w.ban,
       cap |-> new("cap"), settings |-> new("settings")]

\* markStarted clears the end votes of the members it finds, not of those start read.
Unvoted(ms) == [k \in DOMAIN ms |-> [ms[k] EXCEPT !.ends = None]]
FreeGames == {g \in GameIds : games[g].life = "unused"}
NewGame == CHOOSE g \in FreeGames : \A h \in FreeGames : g <= h

Write(w) ==
  IF ~Matches(w) THEN UNCHANGED <<room, games>>
  ELSE IF w.players # {}
  THEN /\ FreeGames # {}
       /\ room' = [room EXCEPT !.status = "STARTED", !.game = NewGame, !.members = Unvoted(@)]
       /\ games' = [games EXCEPT ![NewGame] = [life |-> "starting", players |-> w.players]]
  ELSE room' = Updated(w) /\ UNCHANGED games

\* The request has read the document and decided on w: it is written at once, or
\* it is the slow request and other operations run before it lands.
Send(class, w) ==
  /\ UNCHANGED slow
  /\ \/ Write(w) /\ UNCHANGED req
     \/ slow = class /\ req = None /\ req' = w /\ UNCHANGED <<room, games>>

\* The slow update reaches the database.  One that no longer matches changes
\* nothing; the caller that retries reads again, as a new request does.
Land ==
  /\ req # None /\ req.op \notin {"left", "vote", "cast", "count"} /\ slow # "over"
  /\ Write(req) /\ req' = None /\ UNCHANGED slow

------------------------------------------------------------------------------
Lobby == room.status = "LOBBY"
InLobby(u) == [status |-> "LOBBY", host |-> u]
\* The filter asks for the number of members and not for the status.
SameSizeOnly == [size |-> Len(room.members)]

SameSize == [status |-> "LOBBY", size |-> Len(room.members)]

\* effectiveMaxPlayers: the room's ceiling, raised to the largest table of the mode.
EffectiveCap(teams) ==
  Max({BaseCap} \cup {l.players : l \in {k \in Layouts : k.teams = teams}})

Join(u) ==
  /\ Lobby /\ u \notin room.banned \cup room.watchers /\ ~IsMember(u)
  /\ \/ /\ Len(room.members) < room.cap
        /\ Send("join", [Update(SameSize) EXCEPT !.absent = {u},
                                                 !.push = <<Seated(u)>>])
     \/ /\ Len(room.members) >= room.cap /\ room.settings.watch
        /\ Send("watch", [Update(<<>>) EXCEPT !.unseen = {u}, !.watch = {u}])

BecomePlayer(u) ==
  /\ Lobby /\ u \in room.watchers \ room.banned /\ Len(room.members) < room.cap
  /\ Send("join", [Update(SameSize) EXCEPT
                     !.watching = {u}, !.push = <<Seated(u)>>, !.unwatch = {u}])

AddBot(b) ==
  /\ Lobby /\ ~IsMember(b) /\ Len(room.members) < room.cap
  /\ Send("join", [Update([status |-> "LOBBY", host |-> room.host,
                           size |-> Len(room.members)]) EXCEPT !.push = <<Seated(b)>>])

\* LobbyService.spectateTicket: watching the room's game, whatever its status by then.
Spectate(u) ==
  /\ room.game # None /\ room.settings.watch /\ ~IsMember(u) /\ u \notin room.banned
  /\ Send("watch", [Update(<<>>) EXCEPT !.unseen = {u}, !.unbanned = {u},
                                                    !.watch = {u}])

------------------------------------------------------------------------------
\* The next host is looked for among the members with the one who leaves.
LeaveUpdateStays(u) ==
  LET rest == Without(room.members, u)
  IN  [Update([status |-> room.status, size |-> Len(room.members)]) EXCEPT !.set =
         IF rest = <<>> THEN [status |-> "CLOSED", members |-> <<>>]
         ELSE [members |-> rest, host |-> HumansOf(room.members)[1].id]]

\* RoomRepo.leave, from the document as it is now.
LeaveUpdate(u) ==
  LET rest == Without(room.members, u)
      same == [status |-> room.status, size |-> Len(room.members)]
  IN  IF u \in room.watchers
      THEN [Update([status |-> room.status]) EXCEPT !.watching = {u}, !.unwatch = {u}]
      ELSE [Update(same) EXCEPT !.set =
              IF rest = <<>> \/ (room.host = u /\ HumansOf(rest) = <<>>)
              THEN [status |-> "CLOSED", members |-> <<>>]
              ELSE IF room.host = u
              THEN [members |-> rest, host |-> HumansOf(rest)[1].id]
              ELSE [members |-> rest]]

Inside(u) == IsMember(u) \/ u \in room.watchers

Leave(u) == Lobby /\ Inside(u) /\ Send("array", LeaveUpdate(u))

\* Leaving after the game: LobbyService asks whether the game is over, then the
\* repository reads the room again, as often as it takes, and writes.
LeaveFinished(u) ==
  /\ room.status = "STARTED" /\ Over(room.game) /\ Inside(u)
  /\ UNCHANGED slow
  /\ \/ Write(LeaveUpdate(u)) /\ UNCHANGED req
     \/ /\ slow = "over" /\ req = None /\ req' = [op |-> "left", by |-> u]
        /\ UNCHANGED <<room, games>>

LeaveReads ==
  /\ req # None /\ req.op = "left"
  /\ req' = IF room.status \in {"LOBBY", "STARTED"} /\ Inside(req.by)
            THEN [op |-> "leave", by |-> req.by, w |-> LeaveUpdate(req.by)] ELSE None
  /\ UNCHANGED <<room, games, slow>>

LeaveLands ==
  /\ req # None /\ slow = "over" /\ req.op = "leave"
  /\ Write(req.w)
  /\ req' = IF Matches(req.w) THEN None ELSE [op |-> "left", by |-> req.by]
  /\ UNCHANGED slow

\* Whoever is removed is banned; a bot's id never comes back, banned or not.
Kick(t) ==
  /\ t # room.host /\ (t \in Bots \/ Cardinality(room.banned) < MaxBans)
  /\ \/ /\ t \in room.watchers
        /\ Send("array", [Update(<<>>) EXCEPT !.watching = {t}, !.unwatch = {t},
                                                      !.ban = {t} \cap Humans])
     \/ /\ t \notin room.watchers /\ Lobby /\ IsMember(t)
        /\ Send("array", [Update(SameSize) EXCEPT
                            !.set = [members |-> Without(room.members, t)],
                            !.ban = {t} \cap Humans])

BecomeSpectator(u) ==
  /\ Lobby /\ IsMember(u) /\ u # room.host /\ Len(room.members) > 1 /\ room.settings.watch
  /\ Send("array", [Update(SameSize) EXCEPT
                      !.set = [members |-> Without(room.members, u)], !.watch = {u}])

\* reseat: any order of the members it read.
Reseat ==
  /\ Lobby
  /\ \E p \in {q \in [DOMAIN room.members -> DOMAIN room.members] : IsInjective(q)} :
       Send("seats", [Update(SameSize) EXCEPT !.set = [members |->
         [k \in DOMAIN p |-> room.members[p[k]]]]])

\* joinTeam: change seats with the first member of the team (seat k is index k + 1).
JoinTeam(u, team) ==
  LET n == room.settings.teams
      seats == {k \in DOMAIN room.members : (k - 1) % n = team}
      me == CHOOSE k \in DOMAIN room.members : room.members[k].id = u
      other == Min(seats)
      moved(k) == IF k = me THEN other ELSE IF k = other THEN me ELSE k
  IN  /\ Lobby /\ IsMember(u) /\ room.settings.self /\ n > 0
      /\ me \notin seats /\ seats # {}
      /\ Send("seats", [Update(SameSize) EXCEPT !.set = [members |->
           [k \in DOMAIN room.members |-> room.members[moved(k)]]]])

RemoveBot(b) ==
  /\ Lobby /\ IsMember(b)
  /\ Send("removeBot", [Update(<<>>) EXCEPT
                          !.set = [members |-> Without(room.members, b)]])

------------------------------------------------------------------------------
UpdateSettings(s) ==
  /\ Lobby /\ EffectiveCap(s.teams) >= Len(room.members)
  /\ Send("settings", [Update(InLobby(room.host)) EXCEPT
                         !.set = [settings |-> s, cap |-> EffectiveCap(s.teams)]])

\* By the host, or by a maintainer (whose update does not ask who the host is).
TransferHost(t, admin) ==
  /\ Lobby /\ IsMember(t) /\ t \in Humans /\ t # room.host
  /\ Send("host", [Update(IF admin THEN [status |-> "LOBBY"]
                                      ELSE InLobby(room.host)) EXCEPT !.set = [host |-> t]])

CloseRoom(admin) ==
  /\ Lobby
  /\ Send("host", [Update(IF admin THEN [status |-> "LOBBY"]
                                   ELSE InLobby(room.host)) EXCEPT !.set = [status |-> "CLOSED"]])

Start ==
  /\ Lobby /\ Len(room.members) >= 2 /\ FreeGames # {}
  /\ room.settings.teams > 0 =>
       [teams |-> room.settings.teams, players |-> Len(room.members)] \in Layouts
  /\ Send("start", [Update(InLobby(room.host)) EXCEPT !.players = IdsOf(room.members)])

Rematch ==
  /\ room.status = "STARTED" /\ Over(room.game)
  /\ Send("reset", [Update([status |-> "STARTED", host |-> room.host,
                                     game |-> room.game]) EXCEPT
       !.set = [status |-> "LOBBY", game |-> None, members |->
                  [k \in DOMAIN room.members |-> Seated(room.members[k].id)]]])

------------------------------------------------------------------------------
\* The vote is written whatever game the room is at.
VoteStandsAnyGame(u, g) == room.status = "STARTED" /\ IsMember(u)

\* setEndVote's update: the vote is written for the game setEndVote has read, or not at all.
VoteStands(u, g) == room.status = "STARTED" /\ room.game = g /\ IsMember(u)
Voted(r, u, g, yes) ==
  [r EXCEPT !.members = [k \in DOMAIN @ |->
     IF @[k].id = u THEN [@[k] EXCEPT !.ends = IF yes THEN g ELSE None] ELSE @[k]]]

\* voteEnd counts the room r it read back: the host alone, or all the humans but one.
Counted(r, u, yes) ==
  LET people == HumansOf(r.members)
      ayes == SelectSeq(people, LAMBDA m : m.ends # None)
      enough == yes /\ (r.host = u \/ Len(ayes) >= Max({1, Len(people) - 1}))
  IN  IF enough /\ r.game \in GameIds /\ games[r.game].life = "live" /\ u \in games[r.game].players
      THEN Ended(r.game, "over") ELSE games

Vote(u, yes) ==
  /\ room.status = "STARTED" /\ IsMember(u) /\ ~Over(room.game)
  /\ UNCHANGED slow
  /\ \/ LET r == Voted(room, u, room.game, yes)
        IN  room' = r /\ games' = Counted(r, u, yes) /\ UNCHANGED req
     \/ /\ slow = "vote" /\ req = None /\ UNCHANGED <<room, games>>
        /\ req' = [op |-> "vote", by |-> u, yes |-> yes]

\* setEndVote reads the room again.  That it may be at its next game by now is not noticed:
\* voteEnd does not tell for which game the vote was.
VoteReads ==
  /\ req # None /\ req.op = "vote"
  /\ req' = IF room.status = "STARTED" /\ IsMember(req.by)
            THEN [op |-> "cast", by |-> req.by, game |-> room.game, yes |-> req.yes] ELSE None
  /\ UNCHANGED <<room, games, slow>>

VoteLands ==
  /\ req # None /\ req.op = "cast"
  /\ IF VoteStands(req.by, req.game)
     THEN room' = Voted(room, req.by, req.game, req.yes) /\ req' = [req EXCEPT !.op = "count"]
     ELSE UNCHANGED room /\ req' = None
  /\ UNCHANGED <<games, slow>>

VoteCounts ==
  /\ req # None /\ req.op = "count"
  /\ games' = Counted(room, req.by, req.yes)
  /\ req' = None /\ UNCHANGED <<room, slow>>

------------------------------------------------------------------------------
\* The game: createMatch after markStarted, its end, a maintainer's termination
\* with the room closed after it, a restart of the server.
Becomes(g, life, new) ==
  /\ games[g].life = life /\ games' = new
  /\ UNCHANGED <<room, slow, req>>

CreateMatch(g) == Becomes(g, "starting", [games EXCEPT ![g].life = "live"])
GameOver(g) == Becomes(g, "live", Ended(g, "over"))
Terminate(g) == Becomes(g, "live", Ended(g, "terminated"))

CloseByGame(g) ==
  /\ games[g].life = "terminated" /\ room.status = "STARTED" /\ room.game = g
  /\ room' = [room EXCEPT !.status = "CLOSED"] /\ UNCHANGED <<games, slow, req>>

Restart ==
  /\ games' = [g \in GameIds |-> IF games[g].life = "starting"
                                 THEN [life |-> "lost", players |-> {}] ELSE games[g]]
  /\ req' = None /\ UNCHANGED <<room, slow>>

Next ==
  \/ \E u \in Humans : \/ Join(u) \/ BecomePlayer(u) \/ Spectate(u) \/ Leave(u)
                       \/ LeaveFinished(u) \/ BecomeSpectator(u)
  \/ \E u \in Humans, b \in BOOLEAN : Vote(u, b)
  \/ \E b \in Bots : AddBot(b) \/ RemoveBot(b)
  \/ \E i \in Ids : Kick(i)
  \/ Reseat
  \/ \E u \in Humans : \E t \in 0 .. (room.settings.teams - 1) : JoinTeam(u, t)
  \/ \E s \in Settings[slow] : UpdateSettings(s)
  \/ \E a \in BOOLEAN : CloseRoom(a) \/ \E t \in Humans : TransferHost(t, a)
  \/ Start \/ Rematch
  \/ Land \/ LeaveReads \/ LeaveLands \/ VoteReads \/ VoteLands \/ VoteCounts
  \/ \E g \in GameIds : CreateMatch(g) \/ GameOver(g) \/ Terminate(g) \/ CloseByGame(g)
  \/ Restart

Spec == Init /\ [][Next]_vars

------------------------------------------------------------------------------
\* The document keeps its shape, the room has a life that matches its game id, and
\* the host is always an account.
Member == [id : Ids, ends : GameIds \cup {None}]
Document ==
  [status : {"LOBBY", "STARTED", "CLOSED"}, host : Humans, game : GameIds \cup {None},
   members : Seq(Member), watchers : SUBSET Humans, banned : SUBSET Humans,
   cap : Nat, settings : Settings[slow] \cup {Default}]
Game ==
  [life : {"unused", "starting", "live", "over", "terminated", "lost"},
   players : SUBSET Ids]
TypeOK ==
  /\ room \in Document /\ games \in [GameIds -> Game]
  /\ room.status = "STARTED" => room.game # None
  /\ slow \in Classes

\* No room is fuller than its cap (room.repo.ts:398 explains what a fuller one
\* becomes: a game outside its rules), however slow kicks, departures, changes of
\* seats and of host, starts and rematches are.  Not withstood: a join and a lower cap
\* that are decided on the same room, and a bot's removal, which overwrites the
\* members whatever they became.
RoomFits ==
  slow \notin {"join", "settings", "removeBot"} => Len(room.members) <= room.cap

\* A lobby has its host at the table: somebody can start, kick and close.  Withstands
\* slow joins, settings, starts and votes.
HostHasASeat ==
  slow \in {"join", "watch", "settings", "start", "vote"} /\ Lobby => IsMember(room.host)

\* Nobody has two seats, nobody plays and watches, and whom the host has removed
\* is not inside.
OnePlaceEach ==
  slow \in {"settings", "host", "start", "vote"} =>
    /\ Cardinality(IdsOf(room.members)) = Len(room.members)
    /\ IdsOf(room.members) \cap room.watchers = {}
    /\ room.banned \cap (room.watchers \cup IdsOf(room.members)) = {}

\* What start makes a game of is a table of the rules, whatever came late: no more
\* seats than the room has, each somebody's only place, nobody's who was removed, and
\* one of them the host's.  Each part names the slow requests it withstands.
TableIsSound == RoomFits /\ HostHasASeat /\ OnePlaceEach

\* While a game is live, its room lists exactly its players: the ones who can get a
\* ticket to it are the ones with a seat in it.  No write decided in the lobby lands
\* on the started room (the comments of leave, kick and becomeSpectator).  Not
\* withstood: a slow start, a bot's removal, and leaving a game that was over.
GameIsTheTable ==
  slow \notin {"start", "removeBot", "over"} /\ room.status = "STARTED" /\ Live =>
    IdsOf(room.members) = games[room.game].players

\* A vote to end the game stands in the game for which setEndVote wrote it: no rematch, start
\* or late update carries one into the next game of the room.  (For which game the voter meant
\* it is another matter: between the read of voteEnd and that of setEndVote the room may have
\* gone on to its next game, and the vote is then written there.)
VotesAreOfThisGame ==
  slow # "over" /\ room.status = "STARTED" =>
    \A k \in DOMAIN room.members : room.members[k].ends \in {None, room.game}

\* The comment of RoomRepo.leave: "a still-LIVE game's seats are governed by the
\* in-game vote/timeout machinery, not this endpoint".
LiveSeatsStay ==
  [][room.status = "STARTED" /\ Live /\ room'.status = "STARTED" /\ room'.game = room.game
       => IdsOf(room'.members) = IdsOf(room.members)]_vars
=============================================================================
