-------------------------- MODULE ResidencyProofs --------------------------
(***************************************************************************)
(* Proofs about Residency, for any number of match objects, of commands    *)
(* and of jobs, and any crashes and rejected accesses, when nobody reaches *)
(* the game before createMatch is done (~EarlyRequests).                   *)
(*                                                                         *)
(* The argument is about one point in time: the end of a game, by its last *)
(* row or by a termination, closes the gate of the log for good, so the    *)
(* object that is past the gate then is the last that writes, and a drain  *)
(* behind it waits for it.                                                 *)
(***************************************************************************)
EXTENDS Residency, NaturalLemmas, SequenceTheorems

Phases == {None, "paused", "game", "room", "stop", "vote"}
Stages == {"idle", "query", "end", "ending", "recover", "cas", "evict", "draining", "close",
           "find", "resident", "wipe", "get", "drop"}
Tasks == [type : {"move", "end", "drain"}, last : BOOLEAN, by : Jobs \cup {None}]
Matches == [len : Int, over : BOOLEAN, lost : BOOLEAN, queue : Seq(Tasks),
            at : {"rest", "insert", "update", "complete", "archive"}]
Progress == [phase : Phases, sweep : BOOLEAN, at : Stages, then : {None, "close", "wipe"},
             left : SUBSET {"doc", "rows"}]

Typed ==
  /\ game \in [status : {"none", "LIVE", "COMPLETED", "TERMINATED"}, gone : BOOLEAN,
               paused : BOOLEAN]
  /\ rows \in [n : Int, over : BOOLEAN] /\ archived \in BOOLEAN /\ stale \in BOOLEAN
  /\ start \in {"asked", "doc", "genesis", "done", "lost"}
  /\ slot \in Objects \cup {None}
  /\ match \in [Objects -> Matches]
  /\ load \in [at : {"idle", "doc", "rows", "status", "adopt"}, len : Int, over : BOOLEAN]
  /\ job \in [Jobs -> Progress] /\ loose \in SUBSET {"doc", "rows"}

(* The game is no longer LIVE, and never will be again; a game whose document was
   never written is as good as terminated. *)
Ended(status) == status \in {"COMPLETED", "TERMINATED"}
Fate == IF game.status = "none" /\ start = "lost" THEN "TERMINATED" ELSE game.status
Closed == Ended(Fate)

(* No object is past the gate of appendAction. *)
NoWriter(m) == \A o \in Objects : m[o].at = "rest"
NoWrite == NoWriter(match)

(* What a recovery replays: the genesis snapshot is row 0. *)
Tip == Max({rows.n, 0})

(* While a match is created nobody knows it, and before its document exists it
   has nothing to do. *)
Beginning ==
  /\ start \in {"asked", "doc"} => game.status = "none"
  /\ start = "asked" => slot = None
  /\ start = "doc" /\ slot # None => match[slot].len = 0 /\ ~match[slot].lost
  /\ Starting => rows.n = -1 /\ load.at = "idle" /\ NoWrite /\ ~game.paused
  /\ Starting /\ Live => ~stale /\ \A o \in Objects : match[o].queue = <<>>
  /\ game.status = "none" => NoWrite /\ load.at \in {"idle", "doc"}
  /\ game.status = "none" /\ start # "lost" => /\ \A o \in Objects : match[o].queue = <<>>
                                               /\ slot # None => start = "doc"

(* What is left of a game that has ended, and who is still to archive or to
   delete something of it. *)
Ending ==
  /\ game.gone => Closed /\ NoWrite /\ ~Starting
  /\ archived => game.status = "COMPLETED"
  /\ game.status = "COMPLETED" /\ ~archived /\ "unrecorded" \notin odd =>
       \E o \in Objects : match[o].at = "archive"
  /\ game.gone /\ "torn" \notin odd => rows.n = -1 \/ Deleting("rows")
  /\ loose # {} => Closed /\ NoWrite /\ ~Starting
  /\ "doc" \in loose /\ "torn" \notin odd => rows.n = -1 \/ "rows" \in loose

(* The object that writes is the resident one, and has a task to write for;
   objects that were forgotten have no more than commands to refuse. *)
Writing(o) ==
  /\ match[o].queue # <<>> /\ o = slot /\ Head(match[o].queue).type # "drain"
  /\ match[o].at = "update" => rows.over = Head(match[o].queue).last
  /\ match[o].at \in {"complete", "archive"} => rows.over
  /\ match[o].at = "archive" => ~Live

OneWriter ==
  /\ \A o \in Objects : match[o].at # "rest" => Writing(o)
  /\ (\E o \in Objects : o # slot /\ match[o].queue # <<>>) => Closed /\ NoWrite

(* A match that is as long as the log; or one row behind it, while the row is
   written or because an append failed behind its row. *)
Lag(b) == IF b.lost THEN 1 ELSE 0
IsInStep(b) ==
  /\ b.at \in {"rest", "insert"} => b.len = Tip - Lag(b)
  /\ b.at = "update" => b.len + 1 = rows.n
  /\ b.at \in {"complete", "archive"} => b.len = rows.n /\ rows.n >= 0
  /\ b.at \notin {"rest", "insert"} => ~b.lost
  /\ b.lost \/ b.at = "update" => rows.n >= 1

(* The resident match of a LIVE game is in step, and only where there is none one
   is recovered. *)
InStep ==
  /\ Live /\ slot # None => IsInStep(match[slot])
  /\ load.at # "idle" => slot = None /\ ~Starting
  /\ load.at \in {"status", "adopt"} /\ Live => load.len = Tip

(* A job evicts only what has ended, and deletes only what nobody writes. *)
ProgressIsRight(b) ==
  /\ b.at \in {"evict", "draining"} =>
       /\ Closed /\ b.then \in {"close", "wipe"}
       /\ b.then = "wipe" => b.phase = "game"
  /\ b.at = "resident" => Closed /\ b.phase = "game"
  /\ b.at = "wipe" => /\ Closed /\ NoWrite /\ b.phase = "game"
                      /\ "rows" \notin b.left => rows.n = -1
  /\ b.at = "get" => b.phase = "room"
  /\ b.phase = "game" /\ b.at = "cas" => game.status # "none"
  /\ b.phase = "game" /\ b.at = "close" => Closed
  /\ b.phase = "game" /\ b.at \notin {"idle", "query"} => ~Starting
  /\ b.at \in {"end", "ending", "recover"} => ~Starting /\ b.phase \in {"paused", "vote"}

JobIsRight(j) == ProgressIsRight(job[j])
JobsAreRight == \A j \in Jobs : JobIsRight(j)

(* A task answers the job that waits for it, and no other does. *)
TaskIsRight(t, jobs, status) ==
  /\ t.type = "drain" => Ended(status) /\ (t.by # None => jobs[t.by].at = "draining")
  /\ t.type = "end" => t.by # None /\ jobs[t.by].at = "ending"
  /\ t.type = "move" => t.by = None

TasksAreRight(m, jobs, status) ==
  /\ \A o \in Objects : \A i \in 1..Len(m[o].queue) : TaskIsRight(m[o].queue[i], jobs, status)
  /\ \A o, u \in Objects : \A i \in 1..Len(m[o].queue), k \in 1..Len(m[u].queue) :
       m[o].queue[i].by # None /\ m[o].queue[i].by = m[u].queue[k].by => o = u /\ i = k

Inv ==
  /\ Typed /\ Beginning /\ Ending /\ OneWriter /\ InStep /\ JobsAreRight
  /\ TasksAreRight(match, job, Fate)

-----------------------------------------------------------------------------
(* Constants, objects and tasks. *)

LEMMA Names ==
  None \notin Jobs /\ None \notin Objects /\ Objects \in SUBSET Nat
PROOF
  <1>1. None \notin Objects /\ Objects \in SUBSET Nat /\ Cardinality({Sweeper, Desk, None}) = 3
    BY ResidencyAssumption
  <1>2. ASSUME None \in Jobs
        PROVE  FALSE
    <2>1. {Sweeper, Desk, None} = {Sweeper, Desk}
      BY <1>2 DEF Jobs
    <2>2. IsFiniteSet({Sweeper}) /\ Cardinality({Sweeper}) = 1
      BY FS_Singleton
    <2>3. Cardinality({Sweeper} \cup {Desk}) \in {1, 2}
      BY <2>2, FS_AddElement
    <2>4. {Sweeper} \cup {Desk} = {Sweeper, Desk}
      OBVIOUS
    <2> QED BY <1>1, <2>1, <2>3, <2>4
  <1> QED BY <1>1, <1>2

LEMMA TipIs ==
  ASSUME rows.n \in Int
  PROVE  /\ Tip = IF rows.n >= 0 THEN rows.n ELSE 0
         /\ Tip \in Nat
BY MaxOfTwo DEF Tip

(* An object that nobody uses. *)
LEMMA FreshIs ==
  ASSUME HasFresh
  PROVE  Fresh \in Objects /\ Fresh # slot /\ match[Fresh].queue = <<>>
PROOF
  <1>1. Objects \ InUse(match, slot) \in SUBSET Nat /\ Objects \ InUse(match, slot) # {}
    BY Names DEF HasFresh
  <1>2. Fresh \in Objects \ InUse(match, slot)
    BY <1>1, MinIsLeast DEF Fresh
  <1> QED BY <1>2 DEF InUse

LEMMA UnusedIs ==
  /\ Unused \in Matches /\ Unused.queue = <<>> /\ Unused.at = "rest"
BY DEF Unused, Matches

LEMMA IdleIs ==
  /\ Idle \in Progress /\ Idle.at = "idle" /\ Idle.phase = None
BY DEF Idle, Progress, Phases, Stages

LEMMA QueuedIs ==
  ASSUME NEW m \in [Objects -> Matches], NEW s \in Objects, NEW t \in Tasks
  PROVE  /\ Queued(m, s, t) \in [Objects -> Matches]
         /\ Queued(m, s, t)[s].queue = Append(m[s].queue, t)
         /\ Queued(m, s, t)[s].len = m[s].len /\ Queued(m, s, t)[s].over = m[s].over
         /\ Queued(m, s, t)[s].at = m[s].at /\ Queued(m, s, t)[s].lost = m[s].lost
         /\ \A o \in Objects : o # s => Queued(m, s, t)[o] = m[o]
PROOF
  <1>1. Append(m[s].queue, t) \in Seq(Tasks)
    BY AppendProperties DEF Matches
  <1> QED BY <1>1 DEF Queued, Matches

LEMMA KeptIs ==
  ASSUME NEW m \in [Objects -> Matches], NEW s
  PROVE  /\ Kept(m, s) \in [Objects -> Matches]
         /\ \A o \in Objects : Kept(m, s)[o].queue = m[o].queue
         /\ \A o \in Objects : o = s \/ m[o].queue # <<>> => Kept(m, s)[o] = m[o]
         /\ \A o \in Objects : Kept(m, s)[o] = m[o] \/ Kept(m, s)[o] = Unused
PROOF
  <1>1. \A o \in Objects : Kept(m, s)[o] = IF o = s \/ m[o].queue # <<>> THEN m[o] ELSE Unused
    BY DEF Kept, InUse
  <1>2. Kept(m, s) \in [Objects -> Matches]
    BY UnusedIs DEF Kept
  <1> QED BY <1>1, <1>2, UnusedIs

(* The head of a queue leaves it. *)
LEMMA TailIs ==
  ASSUME NEW q \in Seq(Tasks), q # <<>>
  PROVE  /\ Len(q) \in Nat \ {0} /\ Head(q) = q[1] /\ Head(q) \in Tasks
         /\ Tail(q) \in Seq(Tasks) /\ Len(Tail(q)) = Len(q) - 1
         /\ \A i \in 1..Len(Tail(q)) : i + 1 \in 1..Len(q) /\ i + 1 # 1 /\ Tail(q)[i] = q[i + 1]
PROOF
  <1>1. Len(q) \in Nat \ {0} /\ Head(q) = q[1] /\ Head(q) \in Tasks
    BY EmptySeq
  <1>2. /\ Tail(q) \in Seq(Tasks) /\ Len(Tail(q)) = Len(q) - 1
        /\ \A i \in 1 .. Len(Tail(q)) : Tail(q)[i] = q[i+1]
    BY HeadTailProperties
  <1> DEFINE l == Len(q)
             k == Len(Tail(q))
  <1>3. \A i \in 1..k : i + 1 \in 1..l /\ i + 1 # 1
    <2>1. l \in Nat \ {0} /\ k = l - 1
      BY <1>1, <1>2
    <2> HIDE DEF l, k
    <2> QED BY <2>1
  <1> QED BY <1>1, <1>2, <1>3

-----------------------------------------------------------------------------
(* Tasks come and go. *)

(* A task of a job that has none, or of nobody, joins a queue. *)
LEMMA TaskJoins ==
  ASSUME NEW m \in [Objects -> Matches], NEW jobs, NEW status, TasksAreRight(m, jobs, status),
         NEW s \in Objects, NEW t \in Tasks, NEW now, TaskIsRight(t, now, status),
         \A j \in Jobs : j # t.by => now[j] = jobs[j],
         t.by # None => jobs[t.by].at \notin {"draining", "ending"}
  PROVE  TasksAreRight(Queued(m, s, t), now, status)
PROOF
  <1> DEFINE n == Queued(m, s, t)
             q(o) == m[o].queue
             r(o) == n[o].queue
  <1>1. /\ \A o \in Objects : q(o) \in Seq(Tasks)
        /\ r(s) = Append(q(s), t) /\ \A o \in Objects : o # s => r(o) = q(o)
    BY QueuedIs DEF Matches
  <1>2. \A o \in Objects : \A i \in 1..Len(q(o)) : q(o)[i] \in Tasks
    BY <1>1, ElementOfSeq
  <1> HIDE DEF n
  <1>3. Len(r(s)) = Len(q(s)) + 1 /\ r(s)[Len(q(s)) + 1] = t /\ Len(q(s)) \in Nat
        /\ \A i \in 1..Len(q(s)) : r(s)[i] = q(s)[i]
    BY <1>1, AppendProperties
  <1>4. \A o \in Objects : \A i \in 1..Len(q(o)) : TaskIsRight(q(o)[i], jobs, status)
    BY DEF TasksAreRight
  <1>5. \A o, u \in Objects : \A i \in 1..Len(q(o)), k \in 1..Len(q(u)) :
          q(o)[i].by # None /\ q(o)[i].by = q(u)[k].by => o = u /\ i = k
    BY DEF TasksAreRight
  <1> HIDE DEF q, r
  <1>6. ASSUME NEW o \in Objects, NEW i \in 1..Len(r(o))
        PROVE  \/ i \in 1..Len(q(o)) /\ r(o)[i] = q(o)[i]
               \/ o = s /\ i = Len(q(s)) + 1 /\ r(o)[i] = t
    BY <1>1, <1>3
  <1>7. \A o \in Objects : \A i \in 1..Len(q(o)) : q(o)[i].by # None => q(o)[i].by # t.by
    BY <1>2, <1>4 DEF TaskIsRight, Tasks
  <1>8. ASSUME NEW o \in Objects, NEW i \in 1..Len(q(o))
        PROVE  TaskIsRight(q(o)[i], now, status)
    BY <1>2, <1>4, <1>7 DEF TaskIsRight, Tasks
  <1>9. \A o \in Objects : \A i \in 1..Len(r(o)) : TaskIsRight(r(o)[i], now, status)
    BY <1>6, <1>8
  <1>10. ASSUME NEW o \in Objects, NEW u \in Objects,
                NEW i \in 1..Len(r(o)), NEW k \in 1..Len(r(u)),
                r(o)[i].by # None, r(o)[i].by = r(u)[k].by
         PROVE  o = u /\ i = k
    <2>1. CASE i \in 1..Len(q(o)) /\ r(o)[i] = q(o)[i] /\ k \in 1..Len(q(u)) /\ r(u)[k] = q(u)[k]
      BY <1>5, <1>10, <2>1
    <2>2. CASE i \in 1..Len(q(o)) /\ r(o)[i] = q(o)[i] /\ r(u)[k] = t
      BY <1>7, <1>10, <2>2
    <2>3. CASE r(o)[i] = t /\ k \in 1..Len(q(u)) /\ r(u)[k] = q(u)[k]
      BY <1>7, <1>10, <2>3
    <2>4. CASE o = s /\ i = Len(q(s)) + 1 /\ u = s /\ k = Len(q(s)) + 1
      BY <2>4
    <2> QED BY <1>6, <2>1, <2>2, <2>3, <2>4
  <1> QED BY <1>9, <1>10 DEF TasksAreRight, r, n

(* The head of a queue is answered; the objects may be forgotten. *)
LEMMA TaskLeaves ==
  ASSUME NEW m \in [Objects -> Matches], NEW jobs, NEW status, TasksAreRight(m, jobs, status),
         NEW o \in Objects, m[o].queue # <<>>,
         NEW n \in [Objects -> Matches], n[o].queue = Tail(m[o].queue),
         \A u \in Objects : u # o => n[u].queue = m[u].queue,
         NEW now, \A j \in Jobs : j # Head(m[o].queue).by => now[j] = jobs[j]
  PROVE  TasksAreRight(n, now, status)
PROOF
  <1> DEFINE q(u) == m[u].queue
             r(u) == n[u].queue
             h == Head(q(o))
  <1>1. \A u \in Objects : q(u) \in Seq(Tasks)
    BY DEF Matches
  <1>2. \A u \in Objects : \A i \in 1..Len(q(u)) : q(u)[i] \in Tasks
    BY <1>1, ElementOfSeq
  <1>3. /\ Len(q(o)) \in Nat \ {0} /\ h = q(o)[1]
        /\ \A i \in 1..Len(r(o)) : i + 1 \in 1..Len(q(o)) /\ i + 1 # 1 /\ r(o)[i] = q(o)[i + 1]
    BY <1>1, TailIs
  <1>4. \A u \in Objects : \A i \in 1..Len(q(u)) : TaskIsRight(q(u)[i], jobs, status)
    BY DEF TasksAreRight
  <1>5. \A x, u \in Objects : \A i \in 1..Len(q(x)), k \in 1..Len(q(u)) :
          q(x)[i].by # None /\ q(x)[i].by = q(u)[k].by => x = u /\ i = k
    BY DEF TasksAreRight
  <1>6. \A u \in Objects : u # o => r(u) = q(u)
    OBVIOUS
  <1> HIDE DEF q, r, h
  <1> DEFINE was(u, i) == IF u = o THEN i + 1 ELSE i
  <1>7. ASSUME NEW u \in Objects, NEW i \in 1..Len(r(u))
        PROVE  /\ was(u, i) \in 1..Len(q(u)) /\ r(u)[i] = q(u)[was(u, i)]
               /\ u = o => was(u, i) # 1
    BY <1>3, <1>6
  <1>8. 1 \in 1..Len(q(o))
    BY <1>3
  <1>9. ASSUME NEW u \in Objects, NEW i \in 1..Len(r(u))
        PROVE  /\ r(u)[i] \in Tasks /\ TaskIsRight(r(u)[i], jobs, status)
               /\ r(u)[i].by # None => r(u)[i].by # h.by
    <2> HIDE DEF was
    <2>1. was(u, i) \in 1..Len(q(u)) /\ r(u)[i] = q(u)[was(u, i)] /\ (u = o => was(u, i) # 1)
      BY <1>7
    <2> QED BY <1>2, <1>3, <1>4, <1>5, <1>8, <2>1
  <1>10. \A u \in Objects : \A i \in 1..Len(r(u)) : TaskIsRight(r(u)[i], now, status)
    <2> TAKE u \in Objects
    <2> TAKE i \in 1..Len(r(u))
    <2>1. /\ r(u)[i] \in Tasks /\ TaskIsRight(r(u)[i], jobs, status)
          /\ r(u)[i].by # None => r(u)[i].by # h.by
      BY <1>9
    <2>2. r(u)[i].by # None => now[r(u)[i].by] = jobs[r(u)[i].by]
      BY <2>1 DEF Tasks, h, q
    <2> QED BY <2>1, <2>2 DEF TaskIsRight
  <1>11. ASSUME NEW x \in Objects, NEW u \in Objects,
                NEW i \in 1..Len(r(x)), NEW k \in 1..Len(r(u)),
                r(x)[i].by # None, r(x)[i].by = r(u)[k].by
         PROVE  x = u /\ i = k
    <2>1. x = u /\ was(x, i) = was(u, k)
      <3> HIDE DEF was
      <3> QED BY <1>5, <1>7, <1>11
    <2>2. i \in Int /\ k \in Int
      OBVIOUS
    <2> QED BY <2>1, <2>2
  <1> QED BY <1>10, <1>11 DEF TasksAreRight, r

(* Tasks stay in their queues while the jobs that wait for them do. *)
LEMMA TasksStand ==
  ASSUME NEW m \in [Objects -> Matches], NEW jobs, NEW status, TasksAreRight(m, jobs, status),
         NEW n, \A o \in Objects : n[o].queue = m[o].queue,
         NEW now, \A j \in Jobs : jobs[j].at \in {"draining", "ending"} => now[j] = jobs[j],
         NEW next, Ended(status) => Ended(next)
  PROVE  TasksAreRight(n, now, next)
PROOF
  <1>1. \A o \in Objects : \A i \in 1..Len(m[o].queue) : m[o].queue[i] \in Tasks
    BY ElementOfSeq DEF Matches
  <1>2. ASSUME NEW o \in Objects, NEW i \in 1..Len(m[o].queue)
        PROVE  TaskIsRight(m[o].queue[i], now, next)
    <2> DEFINE t == m[o].queue[i]
    <2>1. t \in Tasks /\ TaskIsRight(t, jobs, status)
      BY <1>1 DEF TasksAreRight
    <2>2. t.by \in Jobs \cup {None}
      BY <2>1 DEF Tasks
    <2> HIDE DEF t
    <2>3. TaskIsRight(t, now, next)
      BY <2>1, <2>2 DEF TaskIsRight
    <2> QED BY <2>3 DEF t
  <1> QED BY <1>2 DEF TasksAreRight

-----------------------------------------------------------------------------
(* What every step leaves as it is: what has ended or begun stays so, and once
   nobody writes to a closed game nobody does. *)
Onward ==
  /\ Closed => Closed'
  /\ Closed /\ NoWrite => NoWrite'
  /\ ~Starting => ~Starting'
  /\ game.status # "none" => game'.status # "none"
  /\ Closed /\ NoWrite /\ ~Starting /\ rows.n = -1 => rows'.n = -1

LEMMA JobsStand ==
  ASSUME JobsAreRight, Onward, NEW J, \A j \in Jobs \ J : job'[j] = job[j]
  PROVE  \A j \in Jobs \ J : JobIsRight(j)'
BY DEF JobsAreRight, JobIsRight, ProgressIsRight, Onward

(* The answers to a job. *)
LEMMA AnswerIs ==
  ASSUME NEW b \in Progress, NEW t, NEW outcome,
         \/ t.type = "drain" /\ b.then \in {"close", "wipe"}
         \/ t.type = "end" /\ b.phase \in {"paused", "vote"}
  PROVE  /\ Answered(b, t, outcome) \in Progress
         /\ Answered(b, t, outcome).phase \in {b.phase, None}
         /\ t.type = "drain" => /\ Answered(b, t, outcome).at = b.then
                                /\ Answered(b, t, outcome).phase = b.phase
         /\ t.type = "drain" /\ b.then = "wipe" => Answered(b, t, outcome).left = {"doc", "rows"}
         /\ t.type = "end" =>
              \/ Answered(b, t, outcome).at = "idle"
              \/ /\ Answered(b, t, outcome).at \in {"close", "cas"}
                 /\ Answered(b, t, outcome).phase = b.phase
PROOF
  <1>1. CASE t.type = "drain"
    <2>1. Answered(b, t, outcome) = Evicted(b)
      BY <1>1 DEF Answered
    <2>2. CASE b.then = "close"
      <3>1. Evicted(b) = [b EXCEPT !.at = "close", !.then = None]
        BY <2>2 DEF Evicted
      <3> QED BY <1>1, <2>1, <2>2, <3>1 DEF Progress, Stages
    <2>3. CASE b.then = "wipe" /\ b.then # "close"
      <3>1. Evicted(b) = [b EXCEPT !.at = "wipe", !.then = None, !.left = {"doc", "rows"}]
        BY <2>3 DEF Evicted
      <3> QED BY <1>1, <2>1, <2>3, <3>1 DEF Progress, Stages
    <2> QED BY <1>1, <2>2, <2>3
  <1>2. CASE t.type = "end" /\ b.phase \in {"paused", "vote"}
    <2>1. Answered(b, t, outcome) = EndAnswered(b, outcome = "ended")
      BY <1>2 DEF Answered
    <2>2. PICK c : c = EndAnswered(b, outcome = "ended")
      OBVIOUS
    <2>3. \/ c = Idle
          \/ \E at \in {"close", "cas"} : c = [b EXCEPT !.at = at]
      BY <2>2 DEF EndAnswered
    <2>4. CASE c = Idle
      BY <1>2, <2>1, <2>2, <2>4, IdleIs
    <2>5. ASSUME NEW at \in {"close", "cas"}, c = [b EXCEPT !.at = at]
          PROVE  c \in Progress /\ c.at = at /\ c.phase = b.phase
      BY <2>5 DEF Progress, Stages
    <2> QED BY <1>2, <2>1, <2>2, <2>3, <2>4, <2>5
  <1> QED BY <1>1, <1>2

(* What a task leaves behind when it is finished in the state m. *)
LEMMA FinishIs ==
  ASSUME Inv, NEW o \in Objects, NEW m \in [Objects -> Matches], NEW outcome,
         m[o].queue # <<>>, Finish(o, m, outcome), Head(m[o].queue) = Current(o),
         \A u \in Objects : m[u].at # "rest" => m[u].queue # <<>>
  PROVE  /\ match' \in [Objects -> Matches]
         /\ match'[o].queue = Tail(m[o].queue) /\ match'[o].at = "rest"
         /\ \A u \in Objects : u # o => match'[u].queue = m[u].queue /\ match'[u].at = m[u].at
         /\ slot' \in Objects => /\ match'[slot'].len = m[slot'].len
                                 /\ match'[slot'].over = m[slot'].over
                                 /\ match'[slot'].lost = m[slot'].lost
         /\ slot' = IF Current(o).type = "drain" THEN None ELSE slot
         /\ Current(o) \in Tasks
         /\ job' = IF Current(o).by = None THEN job
                   ELSE [job EXCEPT ![Current(o).by] = Answered(@, Current(o), outcome)]
PROOF
  <1> DEFINE n == [m EXCEPT ![o].queue = Tail(@), ![o].at = "rest"]
             t == Current(o)
  <1>1. m[o].queue \in Seq(Tasks) /\ Tail(m[o].queue) \in Seq(Tasks) /\ t \in Tasks
    <2>1. m[o].queue \in Seq(Tasks)
      BY DEF Matches
    <2> QED BY <2>1, TailIs
  <1>2. /\ n \in [Objects -> Matches]
        /\ n[o].queue = Tail(m[o].queue) /\ n[o].at = "rest"
        /\ n[o].len = m[o].len /\ n[o].over = m[o].over /\ n[o].lost = m[o].lost
        /\ \A u \in Objects : u # o => n[u] = m[u]
    BY <1>1 DEF Matches
  <1>3. /\ slot' = IF t.type = "drain" THEN None ELSE slot
        /\ match' = Kept(n, slot')
        /\ job' = IF t.by = None THEN job ELSE [job EXCEPT ![t.by] = Answered(@, t, outcome)]
    BY DEF Finish
  <1> HIDE DEF n, t
  <1>4. /\ match' \in [Objects -> Matches]
        /\ \A u \in Objects : match'[u].queue = n[u].queue
        /\ \A u \in Objects : u = slot' \/ n[u].queue # <<>> => match'[u] = n[u]
        /\ \A u \in Objects : match'[u] = n[u] \/ match'[u] = Unused
    BY <1>2, <1>3, KeptIs
  <1>5. match'[o].at = "rest"
    BY <1>2, <1>4, UnusedIs
  <1>6. ASSUME NEW u \in Objects, u # o
        PROVE  match'[u].queue = m[u].queue /\ match'[u].at = m[u].at
    BY <1>2, <1>4, <1>6, UnusedIs
  <1>7. ASSUME slot' \in Objects
        PROVE  /\ match'[slot'].len = m[slot'].len /\ match'[slot'].over = m[slot'].over
               /\ match'[slot'].lost = m[slot'].lost
    BY <1>2, <1>4, <1>7
  <1> QED BY <1>1, <1>2, <1>3, <1>4, <1>5, <1>6, <1>7 DEF t


(* Who is at work. *)
LEMMA WriterIs ==
  ASSUME Inv, NEW o \in Objects, match[o].at # "rest"
  PROVE  Writing(o) /\ o = slot /\ ~NoWrite /\ ~Starting /\ ~game.gone /\ game.status # "none"
BY DEF Inv, OneWriter, Writing, NoWrite, NoWriter, Beginning, Ending

(* When a match is drained nobody writes: what was under way has come to its
   end. *)
LEMMA DrainIsLast ==
  ASSUME Inv, NEW o \in Objects, match[o].queue # <<>>, Current(o).type = "drain",
         match[o].at = "rest"
  PROVE  Closed /\ NoWrite
PROOF
  <1>1. match[o].queue \in Seq(Tasks)
    BY DEF Inv, Typed, Matches
  <1>2. Current(o) = match[o].queue[1] /\ 1 \in 1..Len(match[o].queue)
    BY <1>1, TailIs DEF Current
  <1>3. Closed
    BY <1>2 DEF Inv, TasksAreRight, TaskIsRight, Closed, Fate
  <1>4. NoWrite
    BY DEF Inv, OneWriter, Writing, NoWrite, NoWriter
  <1> QED BY <1>3, <1>4

LEMMA TaskEnds ==
  ASSUME Inv, Onward, NEW o \in Objects, NEW m \in [Objects -> Matches], NEW outcome,
         m[o].queue # <<>>, Finish(o, m, outcome), Head(m[o].queue) = Current(o),
         \A u \in Objects : m[u].at # "rest" => m[u].queue # <<>>,
         TasksAreRight(m, job, Fate'),
         Current(o).type = "drain" => NoWrite'
  PROVE  /\ JobsAreRight' /\ TasksAreRight(match', job', Fate')
         /\ job' \in [Jobs -> Progress]
         /\ \A j \in Jobs : job[j].at = "wipe" => job'[j] = job[j]
PROOF
  <1> DEFINE t == Current(o)
             now == [job EXCEPT ![t.by] = Answered(@, t, outcome)]
             a == Answered(job[t.by], t, outcome)
  <1>1. /\ match' \in [Objects -> Matches]
        /\ match'[o].queue = Tail(m[o].queue)
        /\ \A u \in Objects : u # o => match'[u].queue = m[u].queue
        /\ t \in Tasks /\ job' = IF t.by = None THEN job ELSE now
    BY FinishIs
  <1>2. job \in [Jobs -> Progress]
    BY DEF Inv, Typed
  <1>3. TaskIsRight(t, job, Fate')
    <2>1. m[o].queue \in Seq(Tasks)
      BY DEF Matches
    <2>2. t = m[o].queue[1] /\ 1 \in 1..Len(m[o].queue)
      BY <2>1, TailIs
    <2> QED BY <2>2 DEF TasksAreRight
  <1>4. \A j \in Jobs : j # t.by => job'[j] = job[j]
    BY <1>1, <1>2
  <1>5. TasksAreRight(match', job', Fate')
    <2>1. \A j \in Jobs : j # Head(m[o].queue).by => job'[j] = job[j]
      BY <1>4
    <2> HIDE DEF t, now
    <2> QED BY <1>1, <2>1, TaskLeaves
  <1>6. CASE t.by = None
    <2>1. job' = job
      BY <1>1, <1>6
    <2>2. \A j \in Jobs : JobIsRight(j)'
      BY <2>1, JobsStand DEF Inv
    <2> QED BY <1>2, <1>5, <2>1, <2>2 DEF JobsAreRight
  <1>7. CASE t.by # None
    <2>1. PICK j \in Jobs : j = t.by
      BY <1>1, <1>7 DEF Tasks
    <2> DEFINE b == job[j]
    <2>2. b \in Progress /\ JobIsRight(j)
      BY <1>2 DEF Inv, JobsAreRight
    <2>3. \/ t.type = "drain" /\ b.at = "draining" /\ b.then \in {"close", "wipe"}
          \/ t.type = "end" /\ b.at = "ending" /\ b.phase \in {"paused", "vote"}
      BY <1>1, <1>3, <1>7, <2>1, <2>2 DEF Tasks, TaskIsRight, JobIsRight, ProgressIsRight
    <2>4. job'[j] = a /\ a = Answered(b, t, outcome)
      BY <1>1, <1>2, <1>7, <2>1
    <2> HIDE DEF t, b, a, now
    <2>6. /\ a \in Progress
          /\ t.type = "drain" => a.at = b.then /\ a.phase = b.phase
          /\ t.type = "drain" /\ b.then = "wipe" => a.left = {"doc", "rows"}
          /\ t.type = "end" => a.at = "idle" \/ (a.at \in {"close", "cas"} /\ a.phase = b.phase)
      BY <2>2, <2>3, <2>4, AnswerIs
    <2>7. JobIsRight(j)'
      <3>1. CASE t.type = "drain" /\ b.at = "draining"
        <4>1. /\ Closed' /\ NoWrite' /\ (b.phase = "game" => ~Starting')
              /\ b.then = "wipe" => b.phase = "game"
          BY <2>2, <3>1 DEF JobIsRight, ProgressIsRight, Onward, b, t
        <4>2. \/ a.at = "close"
              \/ a.at = "wipe" /\ "rows" \in a.left /\ b.phase = "game"
          BY <2>3, <2>6, <3>1, <4>1
        <4> QED BY <2>4, <2>6, <3>1, <4>1, <4>2 DEF JobIsRight, ProgressIsRight
      <3>2. CASE t.type = "end" /\ b.at = "ending" /\ b.phase \in {"paused", "vote"}
        BY <2>4, <2>6, <3>2 DEF JobIsRight, ProgressIsRight
      <3> QED BY <2>3, <3>1, <3>2
    <2>8. \A k \in Jobs \ {j} : job'[k] = job[k]
      BY <1>4, <2>1
    <2>9. \A k \in Jobs \ {j} : JobIsRight(k)'
      BY <2>8, JobsStand DEF Inv
    <2>10. JobsAreRight'
      BY <2>7, <2>9 DEF JobsAreRight
    <2>11. job' \in [Jobs -> Progress]
      BY <1>1, <1>2, <1>7, <2>1, <2>4, <2>6 DEF now
    <2>12. \A k \in Jobs : job[k].at = "wipe" => job'[k] = job[k]
      BY <2>3, <2>8 DEF b
    <2> QED BY <1>5, <2>10, <2>11, <2>12
  <1> QED BY <1>6, <1>7

(* What a command leaves behind when it is over: it has changed no session but
   its own, which is in step with the log, and may have queued a drain. *)
Leaves(o, m) ==
  /\ m \in [Objects -> Matches]
  /\ \A u \in Objects : /\ m[u].at = match[u].at
                        /\ u # o => m[u].len = match[u].len /\ m[u].lost = match[u].lost
                        /\ \/ m[u].queue = match[u].queue
                           \/ /\ Closed /\ u = slot
                              /\ m[u].queue = Append(match[u].queue, Task("drain", FALSE, None))
  /\ TasksAreRight(m, job, Fate)
  /\ Live' /\ o = slot => m[o].len = Tip' - Lag(m[o]) /\ (m[o].lost => rows'.n >= 1)

LEMMA Finished ==
  ASSUME Inv, NEW o \in Objects, match[o].queue # <<>>, NEW m, NEW outcome, Finish(o, m, outcome),
         Leaves(o, m), UNCHANGED <<start, load, loose>>, archived' \in BOOLEAN, stale' \in BOOLEAN,
         game' \in [status : {"none", "LIVE", "COMPLETED", "TERMINATED"}, gone : BOOLEAN,
                    paused : BOOLEAN],
         rows' \in [n : Int, over : BOOLEAN],
         rows' = rows \/ match[o].at = "insert",
         \/ game' = game
         \/ match[o].at = "complete" /\ Live /\ game'.status = "COMPLETED"
  PROVE  /\ Typed' /\ Beginning' /\ OneWriter' /\ InStep' /\ JobsAreRight'
         /\ TasksAreRight(match', job', Fate')
         /\ \A u \in Objects : u # o => match'[u].at = match[u].at
         /\ match'[o].at = "rest"
         /\ \A j \in Jobs : job[j].at = "wipe" => job'[j] = job[j]
PROOF
  <1> DEFINE d == Task("drain", FALSE, None)
  <1>1. /\ match \in [Objects -> Matches] /\ slot \in Objects \cup {None}
        /\ \A u \in Objects : match[u].queue \in Seq(Tasks)
    BY DEF Inv, Typed, Matches
  <1>2. d \in Tasks /\ d.by = None /\ d.type = "drain"
    BY DEF Task, Tasks
  <1>3. /\ m \in [Objects -> Matches]
        /\ \A u \in Objects : /\ m[u].at = match[u].at
                              /\ u # o => m[u].len = match[u].len /\ m[u].lost = match[u].lost
                              /\ \/ m[u].queue = match[u].queue
                                 \/ Closed /\ u = slot /\ m[u].queue = Append(match[u].queue, d)
        /\ TasksAreRight(m, job, Fate)
        /\ Live' /\ o = slot => m[o].len = Tip' - Lag(m[o]) /\ (m[o].lost => rows'.n >= 1)
    BY DEF Leaves
  <1> HIDE DEF d
  <1>4. \/ game' = game /\ rows' = rows
        \/ /\ match[o].at # "rest" /\ o = slot /\ ~NoWrite /\ ~Starting
           /\ game.status # "none" /\ game'.status # "none"
    <2>1. CASE match[o].at = "rest"
      BY <2>1
    <2>2. CASE match[o].at # "rest"
      BY <2>2, WriterIs
    <2> QED BY <2>1, <2>2
  <1>5. \A u \in Objects : match[u].queue # <<>> => /\ m[u].queue # <<>>
                                                    /\ Head(m[u].queue) = Head(match[u].queue)
    <2> TAKE u \in Objects
    <2>1. Head(Append(match[u].queue, d))
            = IF match[u].queue = <<>> THEN d ELSE Head(match[u].queue)
      BY <1>1, HeadTailAppend
    <2>2. Append(match[u].queue, d) # <<>>
      BY <1>1, <1>2, AppendProperties
    <2> QED BY <1>3, <2>1, <2>2
  <1>6. \A u \in Objects : match[u].at # "rest" => Writing(u)
    BY DEF Inv, OneWriter
  <1>7. \A u \in Objects : m[u].at # "rest" => m[u].queue # <<>>
    BY <1>3, <1>5, <1>6 DEF Writing
  <1>8. m[o].queue # <<>> /\ Head(m[o].queue) = Current(o)
    BY <1>5 DEF Current
  <1>9. /\ match' \in [Objects -> Matches]
        /\ match'[o].queue = Tail(m[o].queue) /\ match'[o].at = "rest"
        /\ \A u \in Objects : u # o => match'[u].queue = m[u].queue /\ match'[u].at = m[u].at
        /\ slot' \in Objects => match'[slot'].len = m[slot'].len /\ match'[slot'].lost = m[slot'].lost
        /\ slot' = IF Current(o).type = "drain" THEN None ELSE slot
    BY <1>3, <1>7, <1>8, FinishIs
  <1>10. Current(o).type = "drain" => Closed /\ NoWrite
    BY <1>6, DrainIsLast DEF Writing, Current
  <1>11. NoWrite => NoWrite'
    BY <1>3, <1>9 DEF NoWrite, NoWriter
  <1>12. /\ Closed => Closed'
         /\ Ended(Fate) => Ended(Fate')
         /\ Live' => Live
         /\ Starting' = Starting /\ (game.status # "none" => game'.status # "none")
    BY DEF Closed, Fate, Ended, Starting, Live, Exists
  <1>13. Onward
    BY <1>4, <1>11, <1>12 DEF Onward
  <1>14. TasksAreRight(m, job, Fate')
    BY <1>3, <1>12, TasksStand
  <1>15. /\ JobsAreRight' /\ TasksAreRight(match', job', Fate')
         /\ job' \in [Jobs -> Progress]
         /\ \A j \in Jobs : job[j].at = "wipe" => job'[j] = job[j]
    BY <1>3, <1>7, <1>8, <1>10, <1>11, <1>13, <1>14, TaskEnds
  <1>16. Typed'
    <2>1. slot' \in Objects \cup {None}
      BY <1>1, <1>9
    <2> QED BY <1>9, <1>15, <2>1 DEF Inv, Typed
  <1>17. Beginning'
    <2>1. (game.status = "none" => start = "lost") /\ ~(Starting /\ Live)
      BY DEF Inv, Beginning
    <2>2. ~(Starting /\ Live)' /\ (game'.status = "none" => game.status = "none" /\ game' = game)
      BY <1>12, <2>1
    <2>3. start \notin {"asked", "doc"}
      BY <2>1 DEF Inv, Beginning
    <2>4. Starting => NoWrite /\ rows' = rows /\ game' = game /\ rows.n = -1 /\ ~game.paused
                      /\ load.at = "idle"
      BY <1>4 DEF Inv, Beginning
    <2>5. game.status = "none" => NoWrite /\ load.at \in {"idle", "doc"}
      BY DEF Inv, Beginning
    <2> QED BY <1>11, <1>12, <2>1, <2>2, <2>3, <2>4, <2>5 DEF Beginning
  <1>18. OneWriter'
    <2>1. ASSUME NEW u \in Objects, match'[u].at # "rest"
          PROVE  Writing(u)'
      <3>1. u # o /\ match[u].at # "rest" /\ match'[u].at = match[u].at
        BY <1>3, <1>9, <2>1
      <3>2. Writing(u) /\ slot' = slot
        BY <1>6, <1>9, <1>10, <3>1 DEF NoWrite, NoWriter
      <3>3. match'[u].queue # <<>> /\ Head(match'[u].queue) = Head(match[u].queue)
        BY <1>5, <1>9, <3>1, <3>2 DEF Writing
      <3>4. game' = game /\ rows' = rows
        BY <1>4, <3>1, <3>2 DEF Writing
      <3> QED BY <3>1, <3>2, <3>3, <3>4 DEF Writing, Live, Exists
    <2>2. ASSUME NEW u \in Objects, u # slot', match'[u].queue # <<>>
          PROVE  Closed' /\ NoWrite'
      <3>1. CASE Current(o).type = "drain"
        BY <1>10, <1>13, <3>1 DEF Onward
      <3>2. CASE Current(o).type # "drain"
        <4>1. u # slot /\ match[u].queue # <<>>
          <5>1. u # slot
            BY <1>9, <2>2, <3>2
          <5>2. CASE u = o
            BY <5>1, <5>2
          <5>3. CASE u # o
            BY <1>3, <1>9, <2>2, <5>1, <5>3
          <5> QED BY <5>1, <5>2, <5>3
        <4>2. Closed /\ NoWrite
          BY <4>1 DEF Inv, OneWriter
        <4> QED BY <1>13, <4>2 DEF Onward
      <3> QED BY <3>1, <3>2
    <2> QED BY <2>1, <2>2 DEF OneWriter
  <1>19. InStep'
    <2>1. load'.at # "idle" => slot' = None /\ ~Starting'
      BY <1>9, <1>12 DEF Inv, InStep
    <2>2. ASSUME Live', slot' # None
          PROVE  IsInStep(match[slot])'
      <3>1. Live /\ slot' = slot /\ slot \in Objects
        BY <1>1, <1>9, <1>12, <2>2
      <3>2. CASE o # slot
        <4>1. /\ match'[slot].at = match[slot].at /\ match'[slot].len = match[slot].len
              /\ match'[slot].lost = match[slot].lost
          BY <1>3, <1>9, <3>1, <3>2
        <4>2. IsInStep(match[slot]) /\ rows' = rows
          BY <1>4, <3>1, <3>2, Names DEF Inv, InStep
        <4>3. Tip' = Tip
          BY <4>2 DEF Tip
        <4> QED BY <3>1, <4>1, <4>2, <4>3 DEF IsInStep, Lag
      <3>3. CASE o = slot
        <4>1. /\ match'[slot].at = "rest"
              /\ match'[slot].len = m[o].len /\ match'[slot].lost = m[o].lost
          BY <1>9, <3>1, <3>3
        <4>2. m[o].len = Tip' - Lag(m[o]) /\ (m[o].lost => rows'.n >= 1)
          BY <1>3, <2>2, <3>3
        <4> QED BY <3>1, <4>1, <4>2 DEF IsInStep, Lag
      <3> QED BY <3>2, <3>3
    <2>3. load'.at \in {"status", "adopt"} /\ Live' => load'.len = Tip'
      <3>1. load.at # "idle" => slot = None /\ rows' = rows
        BY <1>4, Names DEF Inv, InStep
      <3> QED BY <1>12, <3>1 DEF Inv, InStep, Tip
    <2> QED BY <2>1, <2>2, <2>3 DEF InStep
  <1> QED BY <1>3, <1>9, <1>15, <1>16, <1>17, <1>18, <1>19

(* A command that was refused, or failed before its row. *)
LEMMA LeavesAll ==
  ASSUME Inv, NEW o \in Objects, ~(match[o].at = "update" /\ Live), rows' = rows, Live' => Live
  PROVE  Leaves(o, match)
PROOF
  <1>1. match \in [Objects -> Matches] /\ rows.n \in Int
    BY DEF Inv, Typed
  <1>2. TasksAreRight(match, job, Fate) /\ Tip' = Tip
    BY DEF Inv, Tip
  <1>3. Live' /\ o = slot => match[o].len = Tip - Lag(match[o]) /\ (match[o].lost => rows.n >= 1)
    <2> SUFFICES ASSUME Live', o = slot
                 PROVE  match[o].len = Tip - Lag(match[o]) /\ (match[o].lost => rows.n >= 1)
      OBVIOUS
    <2>1. IsInStep(match[o])
      BY Names DEF Inv, InStep
    <2>2. match[o] \in Matches
      BY <1>1
    <2>3. match[o].at \in {"rest", "insert", "complete", "archive"}
      BY <2>2 DEF Matches
    <2>4. match[o].len \in Int
      BY <2>2 DEF Matches
    <2>5. Tip = IF rows.n >= 0 THEN rows.n ELSE 0
      BY <1>1, TipIs
    <2> QED BY <1>1, <2>1, <2>3, <2>4, <2>5 DEF IsInStep, Lag
  <1> QED BY <1>1, <1>2, <1>3 DEF Leaves

(* A bot whose command was refused evicts the match. *)
LEMMA LeavesDrain ==
  ASSUME Inv, NEW o \in Objects, slot # None, Closed, UNCHANGED <<game, rows>>,
         NEW m, m = Queued(match, slot, Task("drain", FALSE, None))
  PROVE  Leaves(o, m)
PROOF
  <1> DEFINE d == Task("drain", FALSE, None)
  <1>1. match \in [Objects -> Matches] /\ slot \in Objects
    BY DEF Inv, Typed
  <1>2. d \in Tasks /\ d.by = None /\ d.type = "drain"
    BY DEF Task, Tasks
  <1>3. TaskIsRight(d, job, Fate)
    BY <1>2 DEF TaskIsRight, Closed
  <1>4. m = Queued(match, slot, d)
    OBVIOUS
  <1> HIDE DEF d
  <1>8. /\ Queued(match, slot, d) \in [Objects -> Matches]
        /\ Queued(match, slot, d)[slot].queue = Append(match[slot].queue, d)
        /\ Queued(match, slot, d)[slot].at = match[slot].at
        /\ Queued(match, slot, d)[slot].len = match[slot].len
        /\ Queued(match, slot, d)[slot].lost = match[slot].lost
        /\ \A u \in Objects : u # slot => Queued(match, slot, d)[u] = match[u]
    BY <1>1, <1>2, QueuedIs
  <1>5. /\ m \in [Objects -> Matches] /\ m[slot].queue = Append(match[slot].queue, d)
        /\ m[slot].at = match[slot].at /\ m[slot].len = match[slot].len
        /\ m[slot].lost = match[slot].lost
        /\ \A u \in Objects : u # slot => m[u] = match[u]
    BY <1>4, <1>8
  <1>6. TasksAreRight(m, job, Fate)
    BY <1>1, <1>2, <1>3, <1>4, TaskJoins DEF Inv
  <1>7. ~Live'
    BY DEF Closed, Fate, Ended, Live
  <1> QED BY <1>1, <1>5, <1>6, <1>7 DEF Leaves, d

(* A session that changes, and a queue that does not. *)
LEMMA LeavesOne ==
  ASSUME Inv, NEW o \in Objects, NEW b \in Matches, b.queue = match[o].queue, b.at = match[o].at,
         NEW m, m = [match EXCEPT ![o] = b],
         Live' => b.len = Tip' - Lag(b) /\ (b.lost => rows'.n >= 1)
  PROVE  Leaves(o, m)
PROOF
  <1>1. match \in [Objects -> Matches]
    BY DEF Inv, Typed
  <1>2. /\ m \in [Objects -> Matches] /\ m[o] = b
        /\ \A u \in Objects : u # o => m[u] = match[u]
    BY <1>1
  <1>3. TasksAreRight(m, job, Fate)
    <2>1. \A u \in Objects : m[u].queue = match[u].queue
      BY <1>2
    <2> QED BY <1>1, <2>1, TasksStand DEF Inv
  <1> QED BY <1>2, <1>3 DEF Leaves

(* A command whose session commits its row. *)
LEMMA LeavesMoved ==
  ASSUME Inv, NEW o \in Objects, match[o].queue # <<>>, match[o].at = "update", Live,
         UNCHANGED <<game, rows>>,
         NEW m, m = [match EXCEPT ![o].len = @ + 1, ![o].over = Current(o).last]
  PROVE  Leaves(o, m)
PROOF
  <1>1. match \in [Objects -> Matches] /\ rows.n \in Int
    BY DEF Inv, Typed
  <1>2. PICK l : l = Current(o).last /\ l \in BOOLEAN
    <2>1. Current(o) \in Tasks
      BY <1>1, TailIs DEF Matches, Current
    <2> QED BY <2>1 DEF Tasks
  <1>3. m = [match EXCEPT ![o].len = @ + 1, ![o].over = l]
    BY <1>2
  <1>4. PICK r : r = match[o]
    OBVIOUS
  <1>5. /\ r = [len |-> r.len, over |-> r.over, lost |-> r.lost, queue |-> r.queue, at |-> r.at]
        /\ r.len \in Int /\ r.lost \in BOOLEAN /\ r.queue \in Seq(Tasks)
        /\ r.at \in {"rest", "insert", "update", "complete", "archive"}
    BY <1>1, <1>4 DEF Matches
  <1>6. PICK b : b = [r EXCEPT !.len = r.len + 1, !.over = l]
    OBVIOUS
  <1>7. b = [len |-> r.len + 1, over |-> l, lost |-> r.lost, queue |-> r.queue, at |-> r.at]
    BY <1>5, <1>6
  <1>8. b \in Matches
    BY <1>2, <1>5, <1>7 DEF Matches
  <1>9. m = [match EXCEPT ![o] = b]
    BY <1>1, <1>3, <1>4, <1>6
  <1>10. IsInStep(r)
    BY <1>4, WriterIs, Names DEF Inv, InStep
  <1>11. Tip' = IF rows.n >= 0 THEN rows.n ELSE 0
    <2>1. Tip' = Tip
      BY DEF Tip
    <2> QED BY <1>1, <2>1, TipIs
  <1>12. b.len = Tip' - Lag(b) /\ (b.lost => rows'.n >= 1)
    BY <1>1, <1>4, <1>5, <1>7, <1>10, <1>11 DEF IsInStep, Lag
  <1> QED BY <1>4, <1>7, <1>8, <1>9, <1>12, LeavesOne

(* A command that failed behind its row. *)
LEMMA LeavesBehind ==
  ASSUME Inv, NEW o \in Objects, match[o].queue # <<>>, UNCHANGED game,
         \/ match[o].at = "update" /\ rows' = rows
         \/ match[o].at = "insert" /\ IsNew(o) /\ rows' = RowOf(o),
         NEW m, m = Behind(o)
  PROVE  Leaves(o, m) /\ rows' \in [n : Int, over : BOOLEAN]
PROOF
  <1>1. match \in [Objects -> Matches] /\ rows \in [n : Int, over : BOOLEAN]
    BY DEF Inv, Typed
  <1>2. Current(o).last \in BOOLEAN
    <2>1. Current(o) \in Tasks
      BY <1>1, TailIs DEF Matches, Current
    <2> QED BY <2>1 DEF Tasks
  <1>3. PICK r : r = match[o]
    OBVIOUS
  <1>4. /\ r = [len |-> r.len, over |-> r.over, lost |-> r.lost, queue |-> r.queue, at |-> r.at]
        /\ r.len \in Int /\ r.over \in BOOLEAN /\ r.queue \in Seq(Tasks)
        /\ r.at \in {"rest", "insert", "update", "complete", "archive"}
    BY <1>1, <1>3 DEF Matches
  <1>5. PICK b : b = [r EXCEPT !.lost = TRUE]
    OBVIOUS
  <1>6. b = [len |-> r.len, over |-> r.over, lost |-> TRUE, queue |-> r.queue, at |-> r.at]
    BY <1>4, <1>5
  <1>7. b \in Matches
    BY <1>4, <1>6 DEF Matches
  <1>8. m = [match EXCEPT ![o] = b]
    BY <1>1, <1>3, <1>5 DEF Behind
  <1>9. /\ rows' \in [n : Int, over : BOOLEAN]
        /\ r.at = "update" => rows' = rows
        /\ r.at = "insert" => rows'.n = r.len + 1 /\ r.len + 1 > rows.n
    BY <1>1, <1>2, <1>3, <1>4 DEF IsNew, RowOf
  <1>10. Live => IsInStep(r)
    BY <1>3, WriterIs, Names DEF Inv, InStep
  <1>11. Tip = IF rows.n >= 0 THEN rows.n ELSE 0
    BY <1>1, TipIs
  <1>12. Live => r.len + 1 = rows'.n /\ rows'.n >= 1
    <2>1. CASE r.at = "update"
      BY <1>9, <1>10, <2>1 DEF IsInStep
    <2>2. CASE r.at = "insert"
      BY <1>1, <1>4, <1>9, <1>10, <1>11, <2>2 DEF IsInStep, Lag
    <2> QED BY <1>3, <2>1, <2>2
  <1>13. rows'.n \in Int
    BY <1>9
  <1>14. rows'.n >= 1 => Tip' = rows'.n
    BY <1>13, MaxOfTwo DEF Tip
  <1>15. Live' => b.len = Tip' - Lag(b) /\ (b.lost => rows'.n >= 1)
    <2>1. Live' => Live
      BY DEF Live, Exists
    <2> QED BY <1>4, <1>6, <1>12, <1>13, <1>14, <2>1 DEF Lag
  <1> QED BY <1>3, <1>6, <1>7, <1>8, <1>9, <1>15, LeavesOne


-----------------------------------------------------------------------------
(* The jobs. *)

LEMMA NextPhaseIs ==
  ASSUME NEW b \in Progress
  PROVE  /\ NextPhase(b) \in Progress /\ NextPhase(b).at \in {"idle", "query"}
         /\ ProgressIsRight(NextPhase(b))
PROOF
  <1>1. NextPhase(b) \in {[b EXCEPT !.phase = "game", !.at = "query"],
                          [b EXCEPT !.phase = "room", !.at = "query"], Idle}
    BY DEF NextPhase
  <1>2. NextPhase(b) \in Progress /\ NextPhase(b).at \in {"idle", "query"}
    BY <1>1, IdleIs DEF Progress, Phases, Stages
  <1> QED BY <1>2 DEF ProgressIsRight

LEMMA TerminatedIs ==
  ASSUME NEW b \in Progress, b.phase = "game" => Closed /\ ~Starting
  PROVE  /\ Terminated(b) \in Progress /\ ProgressIsRight(Terminated(b))
         /\ Terminated(b).at \notin {"draining", "ending"}
PROOF
  <1>1. CASE b.phase = "game"
    <2>1. Terminated(b) = [b EXCEPT !.at = "resident"]
      BY <1>1 DEF Terminated
    <2>2. /\ Terminated(b) \in Progress /\ Terminated(b).at = "resident"
          /\ Terminated(b).phase = "game"
      BY <1>1, <2>1 DEF Progress, Stages
    <2> QED BY <1>1, <2>2 DEF ProgressIsRight
  <1>2. CASE b.phase = "room"
    <2>1. Terminated(b) = [b EXCEPT !.at = "drop"]
      BY <1>2 DEF Terminated
    <2>2. /\ Terminated(b) \in Progress /\ Terminated(b).at = "drop"
          /\ Terminated(b).phase = "room"
      BY <1>2, <2>1 DEF Progress, Stages
    <2> QED BY <2>2 DEF ProgressIsRight
  <1>3. CASE b.phase \notin {"game", "room"}
    <2>1. Terminated(b) = NextPhase(b)
      BY <1>3 DEF Terminated
    <2> QED BY <2>1, NextPhaseIs
  <1> QED BY <1>1, <1>2, <1>3

LEMMA EvictedIs ==
  ASSUME NEW b \in Progress, b.then \in {"close", "wipe"}, b.then = "wipe" => b.phase = "game",
         Closed, NoWrite, b.phase = "game" => ~Starting
  PROVE  /\ Evicted(b) \in Progress /\ ProgressIsRight(Evicted(b))
PROOF
  <1>1. CASE b.then = "close"
    <2>1. Evicted(b) = [b EXCEPT !.at = "close", !.then = None]
      BY <1>1 DEF Evicted
    <2>2. /\ Evicted(b) \in Progress /\ Evicted(b).at = "close"
          /\ Evicted(b).phase = b.phase
      BY <2>1 DEF Progress, Stages
    <2> QED BY <2>2 DEF ProgressIsRight
  <1>2. CASE b.then = "wipe" /\ b.then # "close"
    <2>1. Evicted(b) = [b EXCEPT !.at = "wipe", !.then = None, !.left = {"doc", "rows"}]
      BY <1>2 DEF Evicted
    <2>2. /\ Evicted(b) \in Progress /\ Evicted(b).at = "wipe"
          /\ Evicted(b).phase = "game" /\ "rows" \in Evicted(b).left
      BY <1>2, <2>1 DEF Progress, Stages
    <2> QED BY <1>2, <2>2 DEF ProgressIsRight
  <1> QED BY <1>1, <1>2

(* What may be in a recovery's hands. *)
LoadIsRight(l) ==
  /\ l \in [at : {"idle", "doc", "rows", "status", "adopt"}, len : Int, over : BOOLEAN]
  /\ l.at # "idle" => slot = None /\ ~Starting
  /\ l.at \in {"status", "adopt"} => game.status # "none"
  /\ l.at \in {"status", "adopt"} /\ Live => l.len = Tip
  /\ l.at = "rows" => game.status # "none"

LEMMA LoadOf ==
  ASSUME Inv
  PROVE  LoadIsRight(load)
BY DEF LoadIsRight, Inv, Typed, Beginning, InStep

(* Jobs and the recovery go on by themselves. *)
LEMMA JobsMove ==
  ASSUME Inv, job' \in [Jobs -> Progress], LoadIsRight(load'),
         \A j \in Jobs : \/ job'[j] = job[j]
                         \/ /\ ProgressIsRight(job'[j])
                            /\ job[j].at \notin {"draining", "ending", "wipe"},
         UNCHANGED <<game, rows, archived, stale, start, slot, match, odd, loose>>
  PROVE  Inv'
PROOF
  <1>1. match \in [Objects -> Matches]
    BY DEF Inv, Typed
  <1>2. Onward
    BY DEF Onward, Closed, Fate, NoWrite, Starting
  <1>3. Typed' /\ OneWriter'
    BY DEF Inv, Typed, OneWriter, Writing, Live, Exists, NoWrite, Closed, Fate, LoadIsRight
  <1>4. Beginning'
    BY DEF Inv, Beginning, Live, Exists, Starting, NoWrite, LoadIsRight
  <1>5. InStep'
    BY DEF Inv, InStep, IsInStep, Lag, Live, Exists, Starting, Tip, LoadIsRight
  <1>6. Ending'
    <2>1. \A k \in Jobs : job[k].at = "wipe" => job'[k] = job[k]
      OBVIOUS
    <2> QED BY <2>1 DEF Inv, Ending, Closed, Fate, NoWrite, Starting, Deleting
  <1>7. JobsAreRight'
    <2> SUFFICES ASSUME NEW j \in Jobs
                 PROVE  JobIsRight(j)'
      BY DEF JobsAreRight
    <2>1. ProgressIsRight(job'[j])
      BY DEF Inv, JobsAreRight, JobIsRight
    <2> QED BY <2>1 DEF JobIsRight, ProgressIsRight, Closed, Fate, NoWrite, Starting
  <1>8. TasksAreRight(match', job', Fate')
    <2>1. \A k \in Jobs : job[k].at \in {"draining", "ending"} => job'[k] = job[k]
      OBVIOUS
    <2>9. Fate' = Fate
      BY DEF Fate
    <2> QED BY <1>1, <2>1, <2>9, TasksStand DEF Inv
  <1> QED BY <1>3, <1>4, <1>5, <1>6, <1>7, <1>8 DEF Inv

LEMMA JobMoves ==
  ASSUME Inv, NEW j \in Jobs, NEW b, b \in Progress, job' = [job EXCEPT ![j] = b],
         ProgressIsRight(b), job[j].at \notin {"draining", "ending", "wipe"},
         UNCHANGED <<game, rows, archived, stale, start, slot, match, load, odd, loose>>
  PROVE  Inv'
PROOF
  <1>1. job \in [Jobs -> Progress]
    BY DEF Inv, Typed
  <1>2. job' \in [Jobs -> Progress] /\ job'[j] = b
    BY <1>1
  <1>3. \A k \in Jobs : job'[k] = job[k] \/ k = j
    BY <1>1
  <1>4. LoadIsRight(load')
    BY LoadOf
  <1> QED BY <1>2, <1>3, <1>4, JobsMove

LEMMA BegunIs ==
  ASSUME Inv, NEW j \in Jobs, NEW b, b \in Progress, Begin(j, b),
         \/ b.at \in {"query", "cas"} /\ b.phase # "game"
         \/ b.at = "get" /\ b.phase = "room"
         \/ b.at = "find" /\ b.phase = "game" /\ ~Starting
         \/ b.at = "end" /\ b.phase = "vote" /\ ~Starting
  PROVE  Inv'
PROOF
  <1>1. /\ job[j].at = "idle" /\ job' = [job EXCEPT ![j] = b]
        /\ UNCHANGED <<game, rows, archived, stale, start, slot, match, load, odd, loose>>
    BY DEF Begin, durable
  <1>2. ProgressIsRight(b)
    BY DEF ProgressIsRight
  <1> QED BY <1>1, <1>2, JobMoves

LEMMA OrderIs ==
  ASSUME Inv, NEW phase \in Phases, NEW at \in Stages, Order(phase, at),
         \/ at = "cas" /\ phase # "game"
         \/ at = "get" /\ phase = "room"
         \/ at = "find" /\ phase = "game" /\ ~Starting
         \/ at = "end" /\ phase = "vote" /\ ~Starting
  PROVE  Inv'
PROOF
  <1>1. PICK b : b = [Idle EXCEPT !.phase = phase, !.at = at] /\ Begin(Desk, b)
    BY DEF Order
  <1>2. b \in Progress /\ b.phase = phase /\ b.at = at
    BY <1>1, IdleIs DEF Progress
  <1> QED BY <1>1, <1>2, BegunIs DEF Jobs

LEMMA SweepHolds ==
  ASSUME Inv, Sweep
  PROVE  Inv'
PROOF
  <1>1. PICK b : /\ b = [Idle EXCEPT !.phase = "paused", !.at = "query", !.sweep = TRUE]
                 /\ Begin(Sweeper, b)
    BY DEF Sweep
  <1>2. b \in Progress /\ b.phase = "paused" /\ b.at = "query"
    BY <1>1, IdleIs DEF Progress, Phases, Stages
  <1> QED BY <1>1, <1>2, BegunIs DEF Jobs

LEMMA OrdersHold ==
  ASSUME Inv, ~EarlyRequests, Terminate \/ DeleteGame \/ DeleteRoom \/ VoteEnd
  PROVE  Inv'
PROOF
  <1>1. CASE Terminate
    BY <1>1, OrderIs DEF Terminate, Phases, Stages
  <1>2. CASE DeleteGame
    BY <1>2, OrderIs DEF DeleteGame, Phases, Stages
  <1>3. CASE DeleteRoom
    BY <1>3, OrderIs DEF DeleteRoom, Phases, Stages
  <1>4. CASE VoteEnd
    BY <1>4, OrderIs DEF VoteEnd, Reachable, Phases, Stages
  <1> QED BY <1>1, <1>2, <1>3, <1>4

LEMMA JobOf ==
  ASSUME Inv, NEW j \in Jobs
  PROVE  job[j] \in Progress /\ ProgressIsRight(job[j])
BY DEF Inv, Typed, JobsAreRight, JobIsRight

LEMMA EndedIs ==
  ASSUME Inv, ~Live, Exists
  PROVE  Closed
BY DEF Inv, Typed, Live, Exists, Closed, Fate, Ended

LEMMA GoneIs ==
  ASSUME Inv, ~Live, game.status = "none" => start = "lost"
  PROVE  Closed
BY DEF Inv, Typed, Ending, Live, Exists, Closed, Fate, Ended

LEMMA QueryHolds ==
  ASSUME Inv, NEW j \in Jobs, Query(j)
  PROVE  Inv'
PROOF
  <1> DEFINE b == job[j]
  <1>1. b \in Progress
    BY JobOf
  <1>2. PICK c : /\ b.at = "query" /\ job' = [job EXCEPT ![j] = c]
                 /\ c = CASE b.phase = "paused" /\ Live /\ game.paused -> [b EXCEPT !.at = "end"]
                          [] b.phase = "game" /\ Live /\ stale -> [b EXCEPT !.at = "find"]
                          [] b.phase = "room" /\ room = "STARTED" /\ Overdue -> [b EXCEPT !.at = "get"]
                          [] OTHER -> NextPhase(b)
    BY DEF Query, Step
  <1>3. UNCHANGED <<game, rows, archived, stale, start, slot, match, load, odd, loose>>
    BY DEF Query, durable
  <1>4. Starting /\ Live => ~game.paused /\ ~stale
    BY DEF Inv, Beginning
  <1>5. c \in Progress /\ ProgressIsRight(c)
    <2>1. CASE c = [b EXCEPT !.at = "end"] /\ b.phase = "paused" /\ ~Starting
      <3>1. c \in Progress /\ c.at = "end" /\ c.phase = "paused"
        BY <1>1, <2>1 DEF Progress, Stages
      <3> QED BY <2>1, <3>1 DEF ProgressIsRight
    <2>2. CASE c = [b EXCEPT !.at = "find"] /\ b.phase = "game" /\ ~Starting
      <3>1. c \in Progress /\ c.at = "find" /\ c.phase = "game"
        BY <1>1, <2>2 DEF Progress, Stages
      <3> QED BY <2>2, <3>1 DEF ProgressIsRight
    <2>3. CASE c = [b EXCEPT !.at = "get"] /\ b.phase = "room"
      <3>1. c \in Progress /\ c.at = "get" /\ c.phase = "room"
        BY <1>1, <2>3 DEF Progress, Stages
      <3> QED BY <3>1 DEF ProgressIsRight
    <2>4. CASE c = NextPhase(b)
      BY <1>1, <2>4, NextPhaseIs
    <2> HIDE DEF b
    <2> QED BY <1>2, <1>4, <2>1, <2>2, <2>3, <2>4
  <1> QED BY <1>2, <1>3, <1>5, JobMoves

LEMMA CloseHolds ==
  ASSUME Inv, NEW j \in Jobs, CloseByGameId(j)
  PROVE  Inv'
PROOF
  <1>1. job[j] \in Progress /\ ProgressIsRight(job[j])
    BY JobOf
  <1>2. /\ job[j].at = "close" /\ job' = [job EXCEPT ![j] = Terminated(job[j])]
        /\ UNCHANGED <<game, rows, archived, stale, start, slot, match, load, odd, loose>>
    BY DEF CloseByGameId, Step
  <1>3. job[j].phase = "game" => Closed /\ ~Starting
    BY <1>1, <1>2 DEF ProgressIsRight
  <1>4. Terminated(job[j]) \in Progress /\ ProgressIsRight(Terminated(job[j]))
    BY <1>1, <1>3, TerminatedIs
  <1> QED BY <1>2, <1>4, JobMoves

LEMMA FindHolds ==
  ASSUME Inv, NEW j \in Jobs, FindGame(j)
  PROVE  Inv'
PROOF
  <1> DEFINE b == job[j]
  <1>1. b \in Progress /\ ProgressIsRight(b)
    BY JobOf
  <1>2. PICK c : /\ b.at = "find" /\ job' = [job EXCEPT ![j] = c]
                 /\ c = CASE ~Exists -> NextPhase(b)
                          [] Live -> [b EXCEPT !.at = "cas"]
                          [] OTHER -> Terminated(b)
    BY DEF FindGame, Step
  <1>3. UNCHANGED <<game, rows, archived, stale, start, slot, match, load, odd, loose>>
    BY DEF FindGame, durable
  <1>4. c \in Progress /\ ProgressIsRight(c)
    <2>1. CASE ~Exists
      <3>1. c = NextPhase(b)
        BY <1>2, <2>1 DEF Live
      <3> QED BY <1>1, <3>1, NextPhaseIs
    <2>2. CASE Exists /\ Live
      <3>1. c = [b EXCEPT !.at = "cas"]
        BY <1>2, <2>2
      <3>2. c \in Progress /\ c.at = "cas" /\ c.phase = b.phase
        BY <1>1, <3>1 DEF Progress, Stages
      <3>3. (b.phase = "game" => ~Starting) /\ game.status # "none"
        BY <1>1, <1>2, <2>2 DEF ProgressIsRight, Live, Exists
      <3> QED BY <3>2, <3>3 DEF ProgressIsRight
    <2>3. CASE Exists /\ ~Live
      <3>1. c = Terminated(b)
        BY <1>2, <2>3
      <3>2. b.phase = "game" => Closed /\ ~Starting
        BY <1>1, <1>2, <2>3, EndedIs DEF ProgressIsRight
      <3> QED BY <1>1, <3>1, <3>2, TerminatedIs
    <2> QED BY <2>1, <2>2, <2>3
  <1> QED BY <1>2, <1>3, <1>4, JobMoves

LEMMA GetRoomHolds ==
  ASSUME Inv, NEW j \in Jobs, GetRoom(j)
  PROVE  Inv'
PROOF
  <1> DEFINE b == job[j]
  <1>1. b \in Progress /\ ProgressIsRight(b)
    BY JobOf
  <1>2. PICK c : /\ b.at = "get" /\ job' = [job EXCEPT ![j] = c]
                 /\ c = CASE room = "gone" -> NextPhase(b)
                          [] room = "STARTED" -> [b EXCEPT !.at = "cas"]
                          [] OTHER -> Terminated(b)
    BY DEF GetRoom, Step
  <1>3. UNCHANGED <<game, rows, archived, stale, start, slot, match, load, odd, loose>>
    BY DEF GetRoom, durable
  <1>4. b.phase = "room"
    BY <1>1, <1>2 DEF ProgressIsRight
  <1>5. c \in Progress /\ ProgressIsRight(c)
    <2>1. CASE c = NextPhase(b)
      BY <1>1, <2>1, NextPhaseIs
    <2>2. CASE c = [b EXCEPT !.at = "cas"]
      <3>1. c \in Progress /\ c.at = "cas" /\ c.phase = b.phase
        BY <1>1, <2>2 DEF Progress, Stages
      <3> QED BY <1>4, <3>1 DEF ProgressIsRight
    <2>3. CASE c = Terminated(b)
      BY <1>1, <1>4, <2>3, TerminatedIs
    <2> HIDE DEF b
    <2> QED BY <1>2, <2>1, <2>2, <2>3
  <1> QED BY <1>2, <1>3, <1>5, JobMoves

LEMMA DropHolds ==
  ASSUME Inv, NEW j \in Jobs, DropRoom(j)
  PROVE  Inv'
PROOF
  <1>1. /\ job[j].at = "drop" /\ job' = [job EXCEPT ![j] = NextPhase(job[j])]
        /\ UNCHANGED <<game, rows, archived, stale, start, slot, match, load, odd, loose>>
    BY DEF DropRoom, Step
  <1> QED BY <1>1, JobOf, NextPhaseIs, JobMoves

(* The status is no longer LIVE: whoever deletes now deletes what nobody writes. *)
LEMMA StopHolds ==
  ASSUME Inv, NEW j \in Jobs, job[j].at = "cas", Live, game' = Stopped, stale' = FALSE,
         NEW c \in Progress, job' = [job EXCEPT ![j] = c],
         \/ c.at = "idle"
         \/ c.at = "evict" /\ c.then = "close" /\ (c.phase = "game" => ~Starting),
         UNCHANGED <<rows, archived, start, slot, match, load, odd, loose>>
  PROVE  Inv'
PROOF
  <1>1. job \in [Jobs -> Progress]
    BY DEF Inv, Typed
  <1>2. game' = [game EXCEPT !.status = "TERMINATED", !.paused = FALSE]
    BY DEF Stopped
  <1>3. /\ game' \in [status : {"none", "LIVE", "COMPLETED", "TERMINATED"}, gone : BOOLEAN,
                      paused : BOOLEAN]
        /\ game'.status = "TERMINATED" /\ ~game'.gone /\ ~game'.paused
    BY <1>2 DEF Live, Exists, Inv, Typed
  <1>4. game.status = "LIVE" /\ ~game.gone
    BY DEF Live, Exists
  <1>5. /\ job' \in [Jobs -> Progress] /\ job'[j] = c
        /\ \A k \in Jobs \ {j} : job'[k] = job[k]
    BY <1>1
  <1>6. Onward /\ ~Closed /\ Closed'
    BY <1>3, <1>4 DEF Onward, Closed, Fate, Ended, Starting
  <1>7. Typed'
    BY <1>3, <1>5 DEF Inv, Typed
  <1>8. Beginning'
    BY <1>3, <1>4 DEF Inv, Beginning, Live, Exists, Starting, NoWrite
  <1>9. Ending'
    <2>1. loose = {} /\ ~archived
      BY <1>4, <1>6 DEF Inv, Ending
    <2> QED BY <1>3, <2>1 DEF Ending
  <1>10. OneWriter' /\ InStep'
    <2>1. \A o \in Objects : o # slot => match[o].queue = <<>>
      BY <1>6 DEF Inv, OneWriter
    <2>2. \A o \in Objects : match[o].at # "rest" => Writing(o)'
      BY <1>3 DEF Inv, OneWriter, Writing, Live
    <2>3. ~Live'
      BY <1>3 DEF Live
    <2> QED BY <2>1, <2>2, <2>3 DEF Inv, OneWriter, InStep, Starting
  <1>11. JobsAreRight'
    <2>1. JobIsRight(j)'
      BY <1>5, <1>6, Names DEF JobIsRight, ProgressIsRight, Starting
    <2>2. \A k \in Jobs \ {j} : JobIsRight(k)'
      BY <1>5, <1>6, JobsStand DEF Inv
    <2> QED BY <2>1, <2>2 DEF JobsAreRight
  <1>12. TasksAreRight(match', job', Fate')
    <2>1. \A k \in Jobs : job[k].at \in {"draining", "ending"} => job'[k] = job[k]
      BY <1>5
    <2>2. Ended(Fate) => Ended(Fate')
      BY <1>6 DEF Closed
    <2>3. match \in [Objects -> Matches] /\ match' = match
      BY DEF Inv, Typed
    <2> QED BY <2>1, <2>2, <2>3, TasksStand DEF Inv
  <1> QED BY <1>7, <1>8, <1>9, <1>10, <1>11, <1>12 DEF Inv

LEMMA JobFailsHolds ==
  ASSUME Inv, NEW j \in Jobs, JobFails(j)
  PROVE  Inv'
PROOF
  <1>1. /\ job' = [job EXCEPT ![j] = Idle]
        /\ job[j].at \in {"query", "cas", "close", "find", "get", "drop"}
        /\ UNCHANGED <<rows, archived, start, slot, match, load, odd, loose>>
    BY DEF JobFails
  <1>2. CASE game' = game /\ stale' = stale
    <2>1. ProgressIsRight(Idle)
      BY IdleIs, Names DEF ProgressIsRight
    <2> QED BY <1>1, <1>2, <2>1, IdleIs, JobMoves
  <1>3. CASE ~(game' = game /\ stale' = stale)
    <2>1. job[j].at = "cas" /\ game' = Stopped /\ stale' = (stale /\ ~Live)
      BY <1>3 DEF JobFails
    <2>2. Live
      <3>1. stale \in BOOLEAN
        BY DEF Inv, Typed
      <3>2. ~Live => game' = game
        BY <2>1 DEF Stopped
      <3>3. ~Live => stale' = stale
        BY <2>1, <3>1
      <3> QED BY <1>3, <3>2, <3>3
    <2>3. stale' = FALSE
      BY <2>1, <2>2
    <2>4. PICK c : c = Idle
      OBVIOUS
    <2> QED BY <1>1, <2>1, <2>2, <2>3, <2>4, IdleIs, StopHolds
  <1> QED BY <1>2, <1>3

(* Nobody is in the registry: nobody writes. *)
LEMMA NobodyWrites ==
  ASSUME Inv, slot = None
  PROVE  NoWrite
BY Names DEF Inv, OneWriter, Writing, NoWrite, NoWriter

LEMMA ResidentHolds ==
  ASSUME Inv, NEW j \in Jobs, IsResident(j)
  PROVE  Inv'
PROOF
  <1> DEFINE b == job[j]
  <1>1. b \in Progress /\ ProgressIsRight(b)
    BY JobOf
  <1>2. PICK c : /\ b.at = "resident" /\ job' = [job EXCEPT ![j] = c]
                 /\ c = IF slot = None THEN Evicted([b EXCEPT !.then = "wipe"])
                        ELSE [b EXCEPT !.at = "evict", !.then = "wipe"]
    BY DEF IsResident, Step
  <1>3. UNCHANGED <<game, rows, archived, stale, start, slot, match, load, odd, loose>>
    BY DEF IsResident, durable
  <1>4. Closed /\ b.phase = "game" /\ ~Starting
    BY <1>1, <1>2 DEF ProgressIsRight
  <1>5. c \in Progress /\ ProgressIsRight(c)
    <2>1. CASE slot = None
      <3> DEFINE e == [b EXCEPT !.then = "wipe"]
      <3>1. e \in Progress /\ e.then = "wipe" /\ e.phase = "game"
        BY <1>1, <1>4 DEF Progress
      <3>2. c = Evicted(e)
        BY <1>2, <2>1
      <3> HIDE DEF e
      <3> QED BY <1>4, <2>1, <3>1, <3>2, NobodyWrites, EvictedIs
    <2>2. CASE slot # None
      <3>1. c = [b EXCEPT !.at = "evict", !.then = "wipe"]
        BY <1>2, <2>2
      <3>2. c \in Progress /\ c.at = "evict" /\ c.then = "wipe" /\ c.phase = "game"
        BY <1>1, <1>4, <3>1 DEF Progress, Stages
      <3> QED BY <1>4, <3>2 DEF ProgressIsRight
    <2> QED BY <2>1, <2>2
  <1> QED BY <1>2, <1>3, <1>5, JobMoves

LEMMA CasHolds ==
  ASSUME Inv, NEW j \in Jobs, CasTerminated(j)
  PROVE  Inv'
PROOF
  <1> DEFINE b == job[j]
  <1>1. b \in Progress /\ ProgressIsRight(b) /\ job \in [Jobs -> Progress]
    BY JobOf DEF Inv, Typed
  <1>2. PICK c : /\ b.at = "cas" /\ job' = [job EXCEPT ![j] = c]
                 /\ c = IF Live THEN [b EXCEPT !.at = "evict", !.then = "close"] ELSE Terminated(b)
    BY DEF CasTerminated, Step
  <1>3. /\ game' = Stopped /\ stale' = (stale /\ ~Live)
        /\ UNCHANGED <<rows, archived, start, slot, match, load, odd, loose>>
    BY DEF CasTerminated
  <1>4. b.phase = "game" => ~Starting /\ game.status # "none"
    BY <1>1, <1>2 DEF ProgressIsRight
  <1>5. CASE ~Live
    <2>1. c = Terminated(b) /\ game' = game
      BY <1>2, <1>3, <1>5 DEF Stopped
    <2>2. stale' = stale
      BY <1>3, <1>5 DEF Inv, Typed
    <2>3. b.phase = "game" => Closed /\ ~Starting
      BY <1>4, <1>5, GoneIs
    <2>4. c \in Progress /\ ProgressIsRight(c)
      BY <1>1, <2>1, <2>3, TerminatedIs
    <2> QED BY <1>2, <1>3, <2>1, <2>2, <2>4, JobMoves
  <1>6. CASE Live
    <2>1. c = [b EXCEPT !.at = "evict", !.then = "close"]
      BY <1>2, <1>6
    <2>2. c \in Progress /\ c.at = "evict" /\ c.then = "close" /\ c.phase = b.phase
      BY <1>1, <2>1 DEF Progress, Stages
    <2>3. c.phase = "game" => ~Starting
      BY <1>4, <2>2
    <2>4. stale' = FALSE
      BY <1>3, <1>6
    <2> QED BY <1>2, <1>3, <1>6, <2>2, <2>3, <2>4, StopHolds
  <1> QED BY <1>5, <1>6

LEMMA Deleted ==
  ASSUME Inv, Closed, NoWrite, ~Starting,
         game' \in [status : {"none", "LIVE", "COMPLETED", "TERMINATED"}, gone : BOOLEAN,
                    paused : BOOLEAN],
         rows' \in [n : Int, over : BOOLEAN],
         game'.status = game.status, game.gone => game'.gone, rows' = rows \/ rows'.n = -1,
         job' \in [Jobs -> Progress], \A k \in Jobs : job'[k] = job[k] \/ (JobIsRight(k)' /\ job[k].at = "wipe"),
         loose' \in SUBSET {"doc", "rows"}, odd \subseteq odd',
         game'.gone /\ "torn" \notin odd' => rows'.n = -1 \/ Deleting("rows")',
         "doc" \in loose' /\ "torn" \notin odd' => rows'.n = -1 \/ "rows" \in loose',
         UNCHANGED <<archived, stale, start, slot, match, load>>
  PROVE  Inv'
PROOF
  <1>1. Closed' /\ NoWrite' /\ ~Starting' /\ ~Live /\ ~Live' /\ Fate' = Fate
    BY DEF Closed, Fate, Ended, NoWrite, NoWriter, Starting, Live
  <1>2. Onward
    BY <1>1 DEF Onward
  <1>3. Typed'
    BY DEF Inv, Typed
  <1>4. Beginning'
    <2>1. start \notin {"asked", "doc"}
      BY DEF Starting
    <2>2. game.status = "none" => start = "lost" /\ load.at \in {"idle", "doc"}
      BY DEF Inv, Beginning, Closed, Fate, Ended
    <2> QED BY <1>1, <2>1, <2>2 DEF Beginning
  <1>5. Ending'
    <2>1. archived' => game'.status = "COMPLETED"
      BY DEF Inv, Ending
    <2>2. game.status = "COMPLETED" => archived \/ "unrecorded" \in odd'
      BY DEF Inv, Ending, NoWrite, NoWriter
    <2> QED BY <1>1, <2>1, <2>2 DEF Ending
  <1>6. OneWriter' /\ InStep'
    <2>1. load'.at # "idle" => slot' = None
      BY DEF Inv, InStep
    <2> QED BY <1>1, <2>1 DEF OneWriter, InStep, NoWrite, NoWriter
  <1>7. JobsAreRight'
    <2> DEFINE J == {k \in Jobs : job'[k] # job[k]}
    <2>1. \A k \in Jobs \ J : JobIsRight(k)'
      BY <1>2, JobsStand DEF Inv
    <2> QED BY <2>1 DEF JobsAreRight
  <1>8. TasksAreRight(match', job', Fate')
    <2>1. \A k \in Jobs : job[k].at \in {"draining", "ending"} => job'[k] = job[k]
      OBVIOUS
    <2>2. match \in [Objects -> Matches] /\ match' = match
      BY DEF Inv, Typed
    <2> QED BY <1>1, <2>1, <2>2, TasksStand DEF Inv
  <1> QED BY <1>3, <1>4, <1>5, <1>6, <1>7, <1>8 DEF Inv

(* One delete, applied. *)
LEMMA DeleteIs ==
  ASSUME Inv, NEW what \in {"doc", "rows"}, Delete(what)
  PROVE  /\ game' \in [status : {"none", "LIVE", "COMPLETED", "TERMINATED"}, gone : BOOLEAN,
                       paused : BOOLEAN]
         /\ rows' \in [n : Int, over : BOOLEAN]
         /\ game'.status = game.status /\ (game.gone => game'.gone)
         /\ what = "doc" => rows' = rows
         /\ what = "rows" => rows'.n = -1
PROOF
  <1>1. CASE what = "doc"
    <2>1. game' = [game EXCEPT !.gone = TRUE] /\ rows' = rows
      BY <1>1 DEF Delete
    <2> QED BY <1>1, <2>1 DEF Inv, Typed
  <1>2. CASE what = "rows"
    <2>1. game' = game /\ rows' = [n |-> -1, over |-> FALSE]
      BY <1>2 DEF Delete
    <2> QED BY <1>2, <2>1 DEF Inv, Typed
  <1> QED BY <1>1, <1>2

(* ... or perhaps not. *)
LEMMA DeleteUnheardIs ==
  ASSUME Inv, NEW what \in {"doc", "rows"}, DeleteUnheard(what)
  PROVE  /\ game' \in [status : {"none", "LIVE", "COMPLETED", "TERMINATED"}, gone : BOOLEAN,
                       paused : BOOLEAN]
         /\ rows' \in [n : Int, over : BOOLEAN]
         /\ game'.status = game.status /\ (game.gone => game'.gone)
         /\ what = "doc" => rows' = rows
         /\ what = "rows" => rows'.n = -1 \/ (rows' = rows /\ "torn" \in odd')
         /\ odd \subseteq odd'
PROOF
  <1>1. CASE Delete(what) /\ odd' = odd
    BY <1>1, DeleteIs
  <1>2. CASE /\ game' = game /\ rows' = rows
             /\ odd' = odd \cup (IF what = "rows" THEN {"torn"} ELSE {})
    BY <1>2 DEF Inv, Typed
  <1> QED BY <1>1, <1>2 DEF DeleteUnheard

LEMMA WipeHolds ==
  ASSUME Inv, NEW j \in Jobs, NEW what \in {"doc", "rows"}, Wipe(j, what)
  PROVE  Inv'
PROOF
  <1> DEFINE b == job[j]
             left == b.left \ {what}
  <1>1. b \in Progress /\ ProgressIsRight(b) /\ job \in [Jobs -> Progress]
    BY JobOf DEF Inv, Typed
  <1>2. PICK c : /\ b.at = "wipe" /\ job' = [job EXCEPT ![j] = c]
                 /\ c = IF left = {} THEN NextPhase([b EXCEPT !.left = {}])
                        ELSE [b EXCEPT !.left = left]
    BY DEF Wipe, Step
  <1>3. /\ what \in b.left /\ Delete(what)
        /\ UNCHANGED <<archived, stale, start, slot, match, load, odd, loose>>
    BY DEF Wipe
  <1>4. /\ Closed /\ NoWrite /\ b.phase = "game" /\ ~Starting
        /\ "rows" \notin b.left => rows.n = -1
    BY <1>1, <1>2 DEF ProgressIsRight
  <1>5. c \in Progress
        /\ \/ c.at \in {"idle", "query"}
           \/ c.at = "wipe" /\ c.phase = "game" /\ c.left = left
    <2>1. CASE left = {}
      <3>1. [b EXCEPT !.left = {}] \in Progress
        BY <1>1 DEF Progress
      <3> QED BY <1>2, <2>1, <3>1, NextPhaseIs
    <2>2. CASE left # {}
      <3>1. c = [b EXCEPT !.left = left] /\ left \in SUBSET {"doc", "rows"}
        BY <1>1, <1>2, <2>2 DEF Progress
      <3> QED BY <1>1, <1>2, <1>4, <3>1 DEF Progress
    <2> QED BY <2>1, <2>2
  <1>6. "rows" \in left => c.at = "wipe" /\ c.left = left
    <2>1. "rows" \in left => c = [b EXCEPT !.left = left]
      BY <1>2
    <2> HIDE DEF left
    <2> QED BY <1>1, <1>2, <2>1 DEF Progress
  <1>7. /\ game' \in [status : {"none", "LIVE", "COMPLETED", "TERMINATED"}, gone : BOOLEAN,
                      paused : BOOLEAN]
        /\ rows' \in [n : Int, over : BOOLEAN]
        /\ game'.status = game.status /\ (game.gone => game'.gone)
        /\ rows' = rows \/ rows'.n = -1
        /\ "rows" \notin left => rows'.n = -1
    BY <1>3, <1>4, DeleteIs
  <1>8. /\ job' \in [Jobs -> Progress] /\ job'[j] = c
        /\ \A k \in Jobs \ {j} : job'[k] = job[k]
    BY <1>1, <1>2, <1>5
  <1> HIDE DEF left
  <1>9. JobIsRight(j)'
    <2>1. Closed' /\ NoWrite' /\ ~Starting'
      BY <1>3, <1>4, <1>7 DEF Closed, Fate, NoWrite, Starting
    <2> QED BY <1>5, <1>7, <1>8, <2>1 DEF JobIsRight, ProgressIsRight
  <1>10. rows'.n = -1 \/ Deleting("rows")'
    BY <1>6, <1>7, <1>8 DEF Deleting
  <1>11. "doc" \in loose /\ "torn" \notin odd => rows'.n = -1 \/ "rows" \in loose
    BY <1>7 DEF Inv, Ending
  <1>12. loose' \in SUBSET {"doc", "rows"}
    BY <1>3 DEF Inv, Typed
  <1>13. \A k \in Jobs : job'[k] = job[k] \/ (JobIsRight(k)' /\ job[k].at = "wipe")
    BY <1>2, <1>8, <1>9
  <1> HIDE DEF b
  <1> QED BY <1>3, <1>4, <1>7, <1>8, <1>10, <1>11, <1>12, <1>13, Deleted

LEMMA WipeFailsHolds ==
  ASSUME Inv, NEW j \in Jobs, NEW what \in {"doc", "rows"}, WipeFails(j, what)
  PROVE  Inv'
PROOF
  <1> DEFINE b == job[j]
  <1>1. b \in Progress /\ ProgressIsRight(b) /\ job \in [Jobs -> Progress]
    BY JobOf DEF Inv, Typed
  <1>2. /\ what \in b.left /\ b.at = "wipe" /\ job' = [job EXCEPT ![j] = Idle]
        /\ loose' = loose \cup (b.left \ {what}) /\ DeleteUnheard(what)
        /\ UNCHANGED <<archived, stale, start, slot, match, load>>
    BY DEF WipeFails, Step
  <1>3. /\ Closed /\ NoWrite /\ b.phase = "game" /\ ~Starting
        /\ "rows" \notin b.left => rows.n = -1
    BY <1>1, <1>2 DEF ProgressIsRight
  <1>4. /\ game' \in [status : {"none", "LIVE", "COMPLETED", "TERMINATED"}, gone : BOOLEAN,
                      paused : BOOLEAN]
        /\ rows' \in [n : Int, over : BOOLEAN]
        /\ game'.status = game.status /\ (game.gone => game'.gone)
        /\ what = "doc" => rows' = rows
        /\ what = "rows" => rows'.n = -1 \/ (rows' = rows /\ "torn" \in odd')
        /\ odd \subseteq odd'
    BY <1>2, DeleteUnheardIs
  <1>5. rows' = rows \/ rows'.n = -1
    BY <1>4
  <1>6. "torn" \in odd' \/ rows'.n = -1 \/ "rows" \in loose'
    BY <1>2, <1>3, <1>4
  <1>7. loose' \in SUBSET {"doc", "rows"}
    BY <1>1, <1>2 DEF Progress, Inv, Typed
  <1>8. /\ job' \in [Jobs -> Progress] /\ job'[j] = Idle
        /\ \A k \in Jobs \ {j} : job'[k] = job[k]
    BY <1>1, <1>2, IdleIs
  <1>9. JobIsRight(j)'
    BY <1>8, IdleIs, Names DEF JobIsRight, ProgressIsRight
  <1>10. "torn" \notin odd' => rows'.n = -1 \/ Deleting("rows")'
    BY <1>6 DEF Deleting
  <1>13. \A k \in Jobs : job'[k] = job[k] \/ (JobIsRight(k)' /\ job[k].at = "wipe")
    BY <1>2, <1>8, <1>9
  <1> HIDE DEF b
  <1> QED BY <1>2, <1>3, <1>4, <1>5, <1>6, <1>7, <1>8, <1>10, <1>13, Deleted

LEMMA LooseEndHolds ==
  ASSUME Inv, NEW what \in {"doc", "rows"}, LooseEnd(what)
  PROVE  Inv'
PROOF
  <1>1. /\ what \in loose /\ loose' = loose \ {what} /\ DeleteUnheard(what)
        /\ UNCHANGED <<archived, stale, start, slot, match, load, job>>
    BY DEF LooseEnd
  <1>2. Closed /\ NoWrite /\ ~Starting
    BY <1>1 DEF Inv, Ending
  <1>3. /\ game' \in [status : {"none", "LIVE", "COMPLETED", "TERMINATED"}, gone : BOOLEAN,
                      paused : BOOLEAN]
        /\ rows' \in [n : Int, over : BOOLEAN]
        /\ game'.status = game.status /\ (game.gone => game'.gone)
        /\ what = "doc" => rows' = rows
        /\ what = "rows" => rows'.n = -1 \/ (rows' = rows /\ "torn" \in odd')
        /\ odd \subseteq odd'
    BY <1>1, DeleteUnheardIs
  <1>4. rows' = rows \/ rows'.n = -1
    BY <1>3
  <1>5. /\ loose' \in SUBSET {"doc", "rows"} /\ job' \in [Jobs -> Progress]
    BY <1>1 DEF Inv, Typed
  <1>6. ASSUME "torn" \notin odd', "doc" \in loose'
        PROVE  rows'.n = -1 \/ "rows" \in loose'
    <2>1. "torn" \notin odd /\ "doc" \in loose
      BY <1>1, <1>3, <1>6
    <2>2. rows.n = -1 \/ "rows" \in loose
      BY <2>1 DEF Inv, Ending
    <2> QED BY <1>1, <1>3, <1>4, <1>6, <2>2
  <1>7. ASSUME "torn" \notin odd', game'.gone
        PROVE  rows'.n = -1 \/ Deleting("rows")'
    <2>1. CASE what = "rows"
      BY <1>3, <1>7, <2>1
    <2>2. CASE what = "doc"
      <3>1. "torn" \notin odd /\ "doc" \in loose /\ rows' = rows
        BY <1>1, <1>3, <1>7, <2>2
      <3>2. rows.n = -1 \/ "rows" \in loose'
        BY <1>1, <2>2, <3>1 DEF Inv, Ending
      <3> QED BY <3>1, <3>2 DEF Deleting
    <2> QED BY <2>1, <2>2
  <1>8. \A k \in Jobs : job'[k] = job[k] \/ (JobIsRight(k)' /\ job[k].at = "wipe")
    BY <1>1
  <1>9. "torn" \notin odd' /\ "doc" \in loose' => rows'.n = -1 \/ "rows" \in loose'
    BY <1>6
  <1>10. "torn" \notin odd' /\ game'.gone => rows'.n = -1 \/ Deleting("rows")'
    BY <1>7
  <1> QED BY <1>1, <1>2, <1>3, <1>4, <1>5, <1>8, <1>9, <1>10, Deleted

-----------------------------------------------------------------------------
(* The queue of the resident match grows. *)
LEMMA TaskQueued ==
  ASSUME Inv, NEW t \in Tasks, slot # None, match' = Queued(match, slot, t),
         ~(Starting /\ Live), game.status = "none" => start = "lost", job' \in [Jobs -> Progress],
         \A k \in Jobs : k # t.by => job'[k] = job[k],
         t.by # None => /\ job[t.by].at \notin {"draining", "ending", "wipe"}
                        /\ ProgressIsRight(job'[t.by]),
         TaskIsRight(t, job', Fate),
         UNCHANGED <<game, rows, archived, stale, start, slot, load, odd, loose>>
  PROVE  Inv'
PROOF
  <1>1. match \in [Objects -> Matches] /\ slot \in Objects
    BY DEF Inv, Typed
  <1>2. /\ match' \in [Objects -> Matches]
        /\ match'[slot].queue = Append(match[slot].queue, t)
        /\ \A o \in Objects : o # slot => match'[o].queue = match[o].queue
        /\ \A o \in Objects : /\ match'[o].len = match[o].len /\ match'[o].at = match[o].at
                              /\ match'[o].lost = match[o].lost
    <2>1. /\ match' \in [Objects -> Matches]
          /\ match'[slot].queue = Append(match[slot].queue, t)
          /\ match'[slot].len = match[slot].len /\ match'[slot].at = match[slot].at
          /\ match'[slot].lost = match[slot].lost
          /\ \A o \in Objects : o # slot => match'[o] = match[o]
      BY <1>1, QueuedIs
    <2> QED BY <2>1
  <1>3. \A o \in Objects : match[o].queue # <<>> => /\ match'[o].queue # <<>>
                                                    /\ Head(match'[o].queue) = Head(match[o].queue)
    <2>1. match[slot].queue \in Seq(Tasks)
      BY <1>1 DEF Matches
    <2>2. /\ Append(match[slot].queue, t) # <<>>
          /\ match[slot].queue # <<>> =>
               Head(Append(match[slot].queue, t)) = Head(match[slot].queue)
      BY <2>1, HeadTailAppend, AppendProperties
    <2> QED BY <1>2, <2>2
  <1>4. NoWrite' <=> NoWrite
    BY <1>2 DEF NoWrite, NoWriter
  <1>5. Onward
    BY <1>4 DEF Onward, Closed, Fate, Starting
  <1>6. Typed'
    BY <1>2 DEF Inv, Typed
  <1>7. Beginning'
    BY <1>1, <1>2, <1>4 DEF Inv, Beginning, Live, Exists, Starting
  <1>8. Ending'
    <2>1. \A k \in Jobs : job[k].at = "wipe" => job'[k] = job[k]
      BY Names
    <2>2. \A o \in Objects : match[o].at = "archive" => match'[o].at = "archive"
      BY <1>2
    <2> QED BY <1>4, <2>1, <2>2 DEF Inv, Ending, Closed, Fate, Starting, Deleting
  <1>9. OneWriter'
    <2>1. ASSUME NEW o \in Objects, match'[o].at # "rest"
          PROVE  Writing(o)'
      <3>1. match[o].at = match'[o].at /\ Writing(o)
        BY <1>2, <2>1 DEF Inv, OneWriter
      <3>2. match'[o].queue # <<>> /\ Head(match'[o].queue) = Head(match[o].queue)
        BY <1>3, <3>1 DEF Writing
      <3> QED BY <3>1, <3>2 DEF Writing, Live, Exists
    <2>2. ASSUME NEW o \in Objects, o # slot', match'[o].queue # <<>>
          PROVE  Closed' /\ NoWrite'
      <3>1. o # slot /\ match[o].queue # <<>>
        BY <1>2, <2>2
      <3> QED BY <1>4, <3>1 DEF Inv, OneWriter, Closed, Fate
    <2> QED BY <2>1, <2>2 DEF OneWriter
  <1>10. InStep'
    BY <1>1, <1>2 DEF Inv, InStep, IsInStep, Lag, Live, Exists, Starting, Tip
  <1>11. JobsAreRight'
    <2> SUFFICES ASSUME NEW k \in Jobs
                 PROVE  JobIsRight(k)'
      BY DEF JobsAreRight
    <2>1. ProgressIsRight(job'[k])
      BY Names DEF Inv, JobsAreRight, JobIsRight
    <2> QED BY <1>4, <2>1 DEF JobIsRight, ProgressIsRight, Closed, Fate, Starting
  <1>12. TasksAreRight(match', job', Fate')
    <2>1. t.by # None => job[t.by].at \notin {"draining", "ending"}
      OBVIOUS
    <2>2. TasksAreRight(Queued(match, slot, t), job', Fate)
      BY <1>1, <2>1, TaskJoins DEF Inv
    <2>9. Fate' = Fate
      BY DEF Fate
    <2> QED BY <2>2, <2>9
  <1> QED BY <1>6, <1>7, <1>8, <1>9, <1>10, <1>11, <1>12 DEF Inv

(* Before a game has a document its match is known to nobody. *)
LEMMA UnknownIs ==
  ASSUME Inv, slot # None, ~Starting
  PROVE  game.status = "none" => start = "lost"
BY DEF Inv, Beginning, Starting

LEMMA MoveHolds ==
  ASSUME Inv, ~EarlyRequests, NEW last \in BOOLEAN, Move(last)
  PROVE  Inv'
PROOF
  <1>1. PICK t : t = Task("move", last, None)
    OBVIOUS
  <1>2. t \in Tasks /\ t.by = None /\ t.type = "move"
    BY <1>1 DEF Task, Tasks
  <1>3. /\ slot # None /\ match' = Queued(match, slot, t) /\ ~Starting
        /\ UNCHANGED <<game, rows, archived, stale, start, slot, load, job, odd, loose>>
    BY <1>1 DEF Move, Reachable, durable
  <1>4. TaskIsRight(t, job', Fate)
    BY <1>2 DEF TaskIsRight
  <1>5. job' \in [Jobs -> Progress] /\ job' = job
    BY <1>3 DEF Inv, Typed
  <1> QED BY <1>2, <1>3, <1>4, <1>5, UnknownIs, TaskQueued

LEMMA EvictHolds ==
  ASSUME Inv, NEW j \in Jobs, Evict(j)
  PROVE  Inv'
PROOF
  <1> DEFINE b == job[j]
  <1>1. b \in Progress /\ ProgressIsRight(b) /\ job \in [Jobs -> Progress]
    BY JobOf DEF Inv, Typed
  <1>2. /\ b.at = "evict"
        /\ UNCHANGED <<game, rows, archived, stale, start, slot, load, odd, loose>>
    BY DEF Evict, EvictDrained, Step, durable
  <1>3. /\ Closed /\ b.then \in {"close", "wipe"} /\ (b.then = "wipe" => b.phase = "game")
        /\ b.phase = "game" => ~Starting
    BY <1>1, <1>2 DEF ProgressIsRight
  <1>4. CASE slot = None
    <2>1. job' = [job EXCEPT ![j] = Evicted(b)] /\ match' = match
      BY <1>4 DEF Evict, EvictDrained, Step
    <2>2. Evicted(b) \in Progress /\ ProgressIsRight(Evicted(b))
      BY <1>1, <1>3, <1>4, NobodyWrites, EvictedIs
    <2> QED BY <1>2, <2>1, <2>2, JobMoves
  <1>5. CASE slot # None
    <2>1. PICK t, c : /\ t = Task("drain", FALSE, j) /\ c = [b EXCEPT !.at = "draining"]
                      /\ job' = [job EXCEPT ![j] = c] /\ match' = Queued(match, slot, t)
      BY <1>5 DEF Evict, EvictDrained, Step
    <2>2. t \in Tasks /\ t.by = j /\ t.type = "drain"
      BY <2>1 DEF Task, Tasks
    <2>3. /\ c \in Progress /\ c.at = "draining" /\ c.then = b.then /\ c.phase = b.phase
      BY <1>1, <2>1 DEF Progress, Stages
    <2>4. ProgressIsRight(c)
      BY <1>3, <2>3 DEF ProgressIsRight
    <2>5. /\ job' \in [Jobs -> Progress] /\ job'[j] = c
          /\ \A k \in Jobs : k # j => job'[k] = job[k]
      BY <1>1, <2>1, <2>3
    <2>6. TaskIsRight(t, job', Fate)
      BY <1>3, <2>2, <2>3, <2>5 DEF TaskIsRight, Closed, Fate
    <2>7. (game.status = "none" => start = "lost") /\ ~Live
      BY <1>3 DEF Closed, Fate, Ended, Live
    <2> QED BY <1>2, <1>5, <2>1, <2>2, <2>4, <2>5, <2>6, <2>7, TaskQueued
  <1> QED BY <1>4, <1>5

LEMMA NoLoadIs ==
  NoLoad.at = "idle" /\ LoadIsRight(NoLoad)
BY DEF NoLoad, LoadIsRight

LEMMA LoadBegins ==
  ASSUME slot = None, ~Starting
  PROVE  LoadIsRight([NoLoad EXCEPT !.at = "doc"])
PROOF
  <1> DEFINE l == [NoLoad EXCEPT !.at = "doc"]
  <1>1. NoLoad \in [at : {"idle", "doc", "rows", "status", "adopt"}, len : Int, over : BOOLEAN]
    BY DEF NoLoad
  <1>2. /\ l \in [at : {"idle", "doc", "rows", "status", "adopt"}, len : Int, over : BOOLEAN]
        /\ l.at = "doc"
    BY <1>1
  <1> HIDE DEF l
  <1>3. LoadIsRight(l)
    BY <1>2 DEF LoadIsRight
  <1> QED BY <1>3 DEF l

LEMMA EndGameHolds ==
  ASSUME Inv, NEW j \in Jobs, EndGame(j)
  PROVE  Inv'
PROOF
  <1> DEFINE b == job[j]
  <1>1. b \in Progress /\ ProgressIsRight(b) /\ job \in [Jobs -> Progress]
    BY JobOf DEF Inv, Typed
  <1>2. /\ b.at = "end"
        /\ UNCHANGED <<game, rows, archived, stale, start, slot, odd, loose>>
    BY DEF EndGame, Step, durable
  <1>3. ~Starting /\ b.phase \in {"paused", "vote"}
    BY <1>1, <1>2 DEF ProgressIsRight
  <1>4. CASE slot = None
    <2>1. PICK c : /\ c = [b EXCEPT !.at = "recover"] /\ job' = [job EXCEPT ![j] = c]
                   /\ load' = IF load.at = "idle" THEN [NoLoad EXCEPT !.at = "doc"] ELSE load
                   /\ match' = match
      BY <1>4 DEF EndGame, Step
    <2>2. /\ c \in Progress /\ c.at = "recover" /\ c.phase = b.phase
      BY <1>1, <2>1 DEF Progress, Stages
    <2>3. ProgressIsRight(c)
      BY <1>3, <2>2 DEF ProgressIsRight
    <2>4. job' \in [Jobs -> Progress] /\ job'[j] = c
      BY <1>1, <2>1, <2>2
    <2>5. \A k \in Jobs : k = j \/ job'[k] = job[k]
      BY <1>1, <2>1
    <2>6. LoadIsRight(load')
      BY <1>3, <1>4, <2>1, LoadOf, LoadBegins
    <2> QED BY <1>2, <2>1, <2>3, <2>4, <2>5, <2>6, JobsMove
  <1>5. CASE slot # None
    <2>1. PICK t, c : /\ t = Task("end", TRUE, j) /\ c = [b EXCEPT !.at = "ending"]
                      /\ job' = [job EXCEPT ![j] = c] /\ match' = Queued(match, slot, t)
                      /\ load' = load
      BY <1>5 DEF EndGame, Step
    <2>2. t \in Tasks /\ t.by = j /\ t.type = "end"
      BY <2>1 DEF Task, Tasks
    <2>3. /\ c \in Progress /\ c.at = "ending" /\ c.phase = b.phase
      BY <1>1, <2>1 DEF Progress, Stages
    <2>4. ProgressIsRight(c)
      BY <1>3, <2>3 DEF ProgressIsRight
    <2>5. /\ job' \in [Jobs -> Progress] /\ job'[j] = c
          /\ \A k \in Jobs : k # j => job'[k] = job[k]
      BY <1>1, <2>1, <2>3
    <2>6. TaskIsRight(t, job', Fate)
      BY <2>2, <2>3, <2>5, Names DEF TaskIsRight
    <2> QED BY <1>2, <1>3, <1>5, <2>1, <2>2, <2>4, <2>5, <2>6, UnknownIs, TaskQueued
  <1> QED BY <1>4, <1>5

-----------------------------------------------------------------------------
(* The recovery. *)
LEMMA ReconnectHolds ==
  ASSUME Inv, ~EarlyRequests, Reconnect
  PROVE  Inv'
PROOF
  <1>1. /\ slot = None /\ ~Starting /\ load' = [NoLoad EXCEPT !.at = "doc"]
        /\ UNCHANGED <<game, rows, archived, stale, start, slot, match, job, odd, loose>>
    BY DEF Reconnect, Reachable, durable, memory
  <1>2. LoadIsRight(load')
    BY <1>1, LoadBegins
  <1>3. job' \in [Jobs -> Progress]
    BY <1>1 DEF Inv, Typed
  <1> QED BY <1>1, <1>2, <1>3, JobsMove

(* The jobs that waited for a recovery go on without it. *)
LEMMA NotFoundHolds ==
  ASSUME Inv, NotFound, UNCHANGED <<game, rows, archived, stale, start, odd, loose>>
  PROVE  Inv'
PROOF
  <1>1. /\ load' = NoLoad /\ job' = [j \in Jobs |-> Joined(job[j], FALSE)]
        /\ UNCHANGED <<slot, match>>
    BY DEF NotFound
  <1>2. ASSUME NEW j \in Jobs
        PROVE  \/ Joined(job[j], FALSE) = job[j]
               \/ /\ Joined(job[j], FALSE) \in Progress /\ ProgressIsRight(Joined(job[j], FALSE))
                  /\ job[j].at = "recover"
    <2> DEFINE b == job[j]
    <2>1. b \in Progress /\ ProgressIsRight(b)
      BY JobOf
    <2>2. CASE b.at # "recover"
      BY <2>2 DEF Joined
    <2>3. CASE b.at = "recover"
      <3>1. Joined(b, FALSE) \in {Idle, [b EXCEPT !.at = "cas"]}
        BY <2>3 DEF Joined, EndAnswered
      <3>2. b.phase \in {"paused", "vote"}
        BY <2>1, <2>3 DEF ProgressIsRight
      <3>3. /\ [b EXCEPT !.at = "cas"] \in Progress /\ [b EXCEPT !.at = "cas"].at = "cas"
            /\ [b EXCEPT !.at = "cas"].phase = b.phase
        BY <2>1 DEF Progress, Stages
      <3>4. /\ Joined(b, FALSE) \in Progress
            /\ Joined(b, FALSE).at \in {"idle", "cas"}
            /\ Joined(b, FALSE).at = "cas" => Joined(b, FALSE).phase = b.phase
        <4>1. CASE Joined(b, FALSE) = Idle
          BY <4>1, IdleIs
        <4>2. CASE Joined(b, FALSE) = [b EXCEPT !.at = "cas"]
          BY <3>3, <4>2
        <4> HIDE DEF b
        <4> QED BY <3>1, <4>1, <4>2
      <3>5. ProgressIsRight(Joined(b, FALSE))
        BY <3>2, <3>4 DEF ProgressIsRight
      <3> QED BY <2>3, <3>4, <3>5
    <2> QED BY <2>2, <2>3
  <1>3. job' \in [Jobs -> Progress]
    BY <1>1, <1>2, JobOf
  <1>4. LoadIsRight(load')
    BY <1>1, NoLoadIs
  <1>5. \A j \in Jobs : \/ job'[j] = job[j]
                        \/ /\ ProgressIsRight(job'[j])
                           /\ job[j].at \notin {"draining", "ending", "wipe"}
    BY <1>1, <1>2
  <1> QED BY <1>1, <1>3, <1>4, <1>5, JobsMove

LEMMA LoadFailsHolds ==
  ASSUME Inv, LoadFails
  PROVE  Inv'
BY NotFoundHolds DEF LoadFails, durable

LEMMA LoadsHold ==
  ASSUME Inv, LoadDoc \/ LoadRows \/ LoadStatus
  PROVE  Inv'
PROOF
  <1>1. UNCHANGED <<game, rows, archived, stale, start, odd, loose>>
    BY DEF LoadDoc, LoadRows, LoadStatus, durable
  <1>2. CASE NotFound
    BY <1>1, <1>2, NotFoundHolds
  <1>3. CASE ~NotFound
    <2>1. UNCHANGED <<slot, match, job>>
      BY <1>3 DEF LoadDoc, LoadRows, LoadStatus, memory
    <2>2. job' \in [Jobs -> Progress]
      BY <2>1 DEF Inv, Typed
    <2>3. slot = None /\ ~Starting
      BY DEF LoadDoc, LoadRows, LoadStatus, Inv, InStep
    <2>4. LoadIsRight(load)
      BY LoadOf
    <2>5. LoadIsRight(load')
      <3>1. CASE LoadDoc
        <4>1. load' = [load EXCEPT !.at = "rows"] /\ game.status # "none"
          BY <1>3, <3>1 DEF LoadDoc, Exists
        <4> QED BY <2>3, <2>4, <4>1 DEF LoadIsRight
      <3>2. CASE LoadRows
        <4>1. load' = [at |-> "status", len |-> Tip, over |-> rows.over] /\ load.at = "rows"
          BY <3>2 DEF LoadRows, Replayed, Tip
        <4>2. Tip \in Int /\ rows.over \in BOOLEAN
          BY TipIs DEF Inv, Typed
        <4> HIDE DEF Tip
        <4> QED BY <2>3, <2>4, <4>1, <4>2 DEF LoadIsRight
      <3>3. CASE LoadStatus
        <4>1. load' = [load EXCEPT !.at = "adopt"] /\ load.at = "status"
          BY <1>3, <3>3 DEF LoadStatus
        <4> QED BY <2>3, <2>4, <4>1 DEF LoadIsRight
      <3> QED BY <3>1, <3>2, <3>3
    <2> QED BY <1>1, <2>1, <2>2, <2>5, JobsMove
  <1> QED BY <1>2, <1>3

(* A finite set in some order. *)
LEMMA SetAsSeq ==
  ASSUME NEW S, IsFiniteSet(S)
  PROVE  /\ SetToSeq(S) \in Seq(S)
         /\ \A i, k \in 1..Len(SetToSeq(S)) : SetToSeq(S)[i] = SetToSeq(S)[k] => i = k
PROOF
  <1> DEFINE n == Cardinality(S)
             f == SetToSeq(S)
  <1>1. n \in Nat /\ ExistsBijection(1..n, S)
    BY FS_CardinalityType
  <1>2. \E g \in [1..n -> S] : IsInjective(g)
    BY <1>1 DEF ExistsBijection, Bijection, Injection
  <1>3. f \in [1..n -> S] /\ IsInjective(f)
    BY <1>2 DEF SetToSeq
  <1> HIDE DEF n, f
  <1>4. f \in Seq(S) /\ Len(f) = n
    BY <1>1, <1>3, SeqDef, LenProperties
  <1> QED BY <1>3, <1>4 DEF IsInjective, f

(* A match with the tasks of the jobs that waited for it. *)
EndTasks(W) == {Task("end", TRUE, j) : j \in W}

LEMMA TasksAdopted ==
  ASSUME NEW m \in [Objects -> Matches], NEW jobs, NEW status, TasksAreRight(m, jobs, status),
         NEW f \in Objects, NEW W \in SUBSET Jobs, \A j \in W : jobs[j].at = "recover",
         NEW q \in Seq(EndTasks(W)),
         \A i, k \in 1..Len(q) : q[i] = q[k] => i = k,
         NEW n, n[f].queue = q, \A o \in Objects : o # f => n[o].queue = m[o].queue,
         NEW now, \A j \in Jobs : now[j] = jobs[j] \/ (j \in W /\ now[j].at = "ending"),
         \A j \in W : now[j].at = "ending"
  PROVE  TasksAreRight(n, now, status)
PROOF
  <1>1. \A o \in Objects : m[o].queue \in Seq(Tasks)
    BY DEF Matches
  <1>2. \A o \in Objects : \A i \in 1..Len(m[o].queue) : m[o].queue[i] \in Tasks
    BY <1>1, ElementOfSeq
  <1>3. ASSUME NEW i \in 1..Len(q)
        PROVE  /\ q[i].type = "end" /\ q[i].by \in W /\ q[i] = Task("end", TRUE, q[i].by)
    <2>1. q[i] \in EndTasks(W)
      BY ElementOfSeq
    <2>2. PICK j \in W : q[i] = Task("end", TRUE, j)
      BY <2>1 DEF EndTasks
    <2> QED BY <2>2 DEF Task
  <1>4. ASSUME NEW o \in Objects, NEW i \in 1..Len(m[o].queue)
        PROVE  /\ TaskIsRight(m[o].queue[i], now, status)
               /\ m[o].queue[i].by \notin W
    <2> DEFINE t == m[o].queue[i]
    <2>1. t \in Tasks /\ TaskIsRight(t, jobs, status)
      BY <1>2 DEF TasksAreRight
    <2>2. t.by \in Jobs \cup {None} /\ t.type \in {"move", "end", "drain"}
      BY <2>1 DEF Tasks
    <2> HIDE DEF t
    <2>3. t.by \notin W
      BY <2>1, <2>2, Names DEF TaskIsRight
    <2>4. t.by # None => now[t.by] = jobs[t.by]
      BY <2>2, <2>3
    <2>5. TaskIsRight(t, now, status)
      BY <2>1, <2>4 DEF TaskIsRight
    <2> QED BY <2>3, <2>5 DEF t
  <1>5. ASSUME NEW o \in Objects, NEW i \in 1..Len(n[o].queue)
        PROVE  TaskIsRight(n[o].queue[i], now, status)
    <2>1. CASE o = f
      <3>1. i \in 1..Len(q) /\ n[o].queue[i] = q[i]
        BY <2>1
      <3>2. q[i].type = "end" /\ q[i].by \in W
        BY <1>3, <3>1
      <3> QED BY <3>1, <3>2, Names DEF TaskIsRight
    <2>2. CASE o # f
      BY <1>4, <2>2
    <2> QED BY <2>1, <2>2
  <1>6. ASSUME NEW o \in Objects, NEW u \in Objects,
               NEW i \in 1..Len(n[o].queue), NEW k \in 1..Len(n[u].queue),
               n[o].queue[i].by # None, n[o].queue[i].by = n[u].queue[k].by
        PROVE  o = u /\ i = k
    <2>1. CASE o = f /\ u = f
      <3>1. /\ i \in 1..Len(q) /\ k \in 1..Len(q)
            /\ n[o].queue[i] = q[i] /\ n[u].queue[k] = q[k]
        BY <2>1
      <3>2. q[i] = Task("end", TRUE, q[i].by) /\ q[k] = Task("end", TRUE, q[k].by)
        BY <1>3, <3>1
      <3>3. q[i] = q[k]
        BY <1>6, <3>1, <3>2
      <3> QED BY <2>1, <3>1, <3>3
    <2>2. CASE o = f /\ u # f
      <3>1. /\ i \in 1..Len(q) /\ n[o].queue[i] = q[i]
            /\ k \in 1..Len(m[u].queue) /\ n[u].queue[k] = m[u].queue[k]
        BY <2>2
      <3>2. q[i].by \in W /\ m[u].queue[k].by \notin W
        BY <1>3, <1>4, <3>1
      <3> QED BY <1>6, <3>1, <3>2
    <2>3. CASE o # f /\ u = f
      <3>1. /\ i \in 1..Len(m[o].queue) /\ n[o].queue[i] = m[o].queue[i]
            /\ k \in 1..Len(q) /\ n[u].queue[k] = q[k]
        BY <2>3
      <3>2. m[o].queue[i].by \notin W /\ q[k].by \in W
        BY <1>3, <1>4, <3>1
      <3> QED BY <1>6, <3>1, <3>2
    <2>4. CASE o # f /\ u # f
      <3>1. /\ i \in 1..Len(m[o].queue) /\ n[o].queue[i] = m[o].queue[i]
            /\ k \in 1..Len(m[u].queue) /\ n[u].queue[k] = m[u].queue[k]
        BY <2>4
      <3> QED BY <1>6, <3>1 DEF TasksAreRight
    <2> QED BY <2>1, <2>2, <2>3, <2>4
  <1> QED BY <1>5, <1>6 DEF TasksAreRight

LEMMA AdoptHolds ==
  ASSUME Inv, Adopt
  PROVE  Inv'
PROOF
  <1> DEFINE waiting == {j \in Jobs : job[j].at = "recover"}
  <1>1. PICK f, tasks, new :
          /\ f = Fresh /\ tasks = SetToSeq(EndTasks(waiting))
          /\ new = [Unused EXCEPT !.len = load.len, !.over = load.over, !.queue = tasks]
          /\ slot' = f /\ match' = Kept([match EXCEPT ![f] = new], f)
    BY DEF Adopt, EndTasks
  <1>2. /\ load.at = "adopt" /\ HasFresh /\ load' = NoLoad
        /\ job' = [j \in Jobs |-> Joined(job[j], TRUE)]
        /\ UNCHANGED <<game, rows, archived, stale, start, odd, loose>>
    BY DEF Adopt, durable
  <1>3. slot = None /\ ~Starting /\ NoWrite /\ game.status # "none"
    BY <1>2, LoadOf, NobodyWrites DEF LoadIsRight
  <1>4. /\ match \in [Objects -> Matches] /\ job \in [Jobs -> Progress]
        /\ load.len \in Int /\ load.over \in BOOLEAN
    BY DEF Inv, Typed
  <1>5. f \in Objects
    BY <1>1, <1>2, FreshIs
  <1>6. /\ tasks \in Seq(EndTasks(waiting))
        /\ \A i, k \in 1..Len(tasks) : tasks[i] = tasks[k] => i = k
    <2>1. IsFiniteSet(waiting)
      <3>1. IsFiniteSet(Jobs)
        <4>1. IsFiniteSet({Sweeper} \cup {Desk})
          BY FS_Singleton, FS_AddElement
        <4>2. {Sweeper} \cup {Desk} = Jobs
          BY DEF Jobs
        <4> QED BY <4>1, <4>2
      <3> QED BY <3>1, FS_Subset
    <2> HIDE DEF waiting
    <2>2. [j \in waiting |-> Task("end", TRUE, j)] \in Surjection(waiting, EndTasks(waiting))
      BY DEF Surjection, EndTasks
    <2>3. IsFiniteSet(EndTasks(waiting))
      BY <2>1, <2>2, FS_Surjection
    <2> QED BY <1>1, <2>3, SetAsSeq
  <1>7. tasks \in Seq(Tasks)
    <2>1. \A j \in Jobs : Task("end", TRUE, j) \in Tasks
      BY DEF Task, Tasks
    <2>2. \A t \in EndTasks(waiting) : t \in Tasks
      BY <2>1 DEF EndTasks
    <2>3. EndTasks(waiting) \in SUBSET Tasks
      BY <2>2
    <2> HIDE DEF waiting
    <2> QED BY <1>6, <2>3, SeqMonotonic
  <1>8. /\ new \in Matches /\ new.at = "rest" /\ new.len = load.len /\ ~new.lost
        /\ new.queue = tasks
    BY <1>1, <1>4, <1>7 DEF Matches, Unused
  <1> DEFINE m == [match EXCEPT ![f] = new]
  <1>9. /\ m \in [Objects -> Matches] /\ m[f] = new /\ \A o \in Objects : o # f => m[o] = match[o]
    BY <1>4, <1>5, <1>8
  <1> HIDE DEF m
  <1>10. /\ match' \in [Objects -> Matches] /\ match'[f] = new
         /\ \A o \in Objects : o # f => match'[o].queue = match[o].queue
         /\ \A o \in Objects : match'[o].at = "rest"
    <2>1. match' = Kept(m, f)
      BY <1>1 DEF m
    <2>2. \A o \in Objects : m[o].at = "rest"
      BY <1>3, <1>8, <1>9 DEF NoWrite, NoWriter
    <2>3. /\ match' \in [Objects -> Matches]
          /\ \A o \in Objects : match'[o].queue = m[o].queue
          /\ \A o \in Objects : o = f \/ m[o].queue # <<>> => match'[o] = m[o]
          /\ \A o \in Objects : match'[o] = m[o] \/ match'[o] = Unused
      BY <1>9, <2>1, KeptIs
    <2> QED BY <1>5, <1>9, <2>2, <2>3, UnusedIs
  <1>11. ASSUME NEW j \in Jobs
         PROVE  \/ job[j].at # "recover" /\ job'[j] = job[j]
                \/ /\ job[j].at = "recover" /\ job'[j] \in Progress /\ job'[j].at = "ending"
                   /\ job'[j].phase = job[j].phase
    <2>1. CASE job[j].at # "recover"
      BY <1>2, <2>1 DEF Joined
    <2>2. CASE job[j].at = "recover"
      <3>1. job'[j] = [job[j] EXCEPT !.at = "ending"]
        BY <1>2, <2>2 DEF Joined
      <3> QED BY <1>4, <2>2, <3>1 DEF Progress, Stages
    <2> QED BY <2>1, <2>2
  <1>12. NoWrite'
    BY <1>10 DEF NoWrite, NoWriter
  <1>13. Onward
    BY <1>2, <1>12 DEF Onward, Closed, Fate, Starting
  <1>14. Typed'
    <2>1. job' \in [Jobs -> Progress]
      BY <1>2, <1>4, <1>11
    <2>2. load' \in [at : {"idle", "doc", "rows", "status", "adopt"}, len : Int, over : BOOLEAN]
      BY <1>2, NoLoadIs DEF LoadIsRight
    <2>3. slot' \in Objects
      BY <1>1, <1>5
    <2> QED BY <1>2, <1>10, <2>1, <2>2, <2>3 DEF Inv, Typed
  <1>15. Beginning'
    BY <1>2, <1>3 DEF Beginning, Starting
  <1>16. Ending'
    <2>1. \A k \in Jobs : job[k].at = "wipe" => job'[k] = job[k]
      BY <1>11
    <2>2. game.status = "COMPLETED" => archived \/ "unrecorded" \in odd
      BY <1>3 DEF Inv, Ending, NoWrite, NoWriter
    <2> QED BY <1>2, <1>12, <2>1, <2>2 DEF Inv, Ending, Closed, Fate, Starting, Deleting
  <1>17. OneWriter'
    <2>1. ASSUME NEW o \in Objects, o # slot', match'[o].queue # <<>>
          PROVE  Closed' /\ NoWrite'
      <3>1. o # slot /\ match[o].queue # <<>>
        BY <1>1, <1>3, <1>10, <2>1, Names
      <3> QED BY <1>2, <1>12, <3>1 DEF Inv, OneWriter, Closed, Fate
    <2> QED BY <1>10, <2>1 DEF OneWriter
  <1>18. InStep'
    <2>1. Live => load.len = Tip
      BY <1>2, LoadOf DEF LoadIsRight
    <2>2. match'[slot'].at = "rest" /\ match'[slot'].len = load.len /\ ~match'[slot'].lost
      BY <1>1, <1>8, <1>10
    <2>3. Tip' = Tip /\ Live' = Live
      BY <1>2 DEF Tip, Live, Exists
    <2>4. Tip \in Int
      BY TipIs DEF Inv, Typed
    <2> QED BY <1>2, <2>1, <2>2, <2>3, <2>4, NoLoadIs DEF InStep, IsInStep, Lag
  <1>19. JobsAreRight'
    <2> SUFFICES ASSUME NEW j \in Jobs
                 PROVE  JobIsRight(j)'
      BY DEF JobsAreRight
    <2>1. CASE job[j].at # "recover"
      <3>1. job'[j] = job[j] /\ JobIsRight(j)
        BY <1>11, <2>1 DEF Inv, JobsAreRight
      <3> QED BY <1>13, <3>1 DEF JobIsRight, ProgressIsRight, Onward
    <2>2. CASE job[j].at = "recover"
      <3>1. job'[j].at = "ending" /\ job'[j].phase \in {"paused", "vote"}
        BY <1>11, <2>2, JobOf DEF ProgressIsRight
      <3>2. ~Starting'
        BY <1>2, <1>3 DEF Starting
      <3> QED BY <3>1, <3>2 DEF JobIsRight, ProgressIsRight
    <2> QED BY <2>1, <2>2
  <1>20. TasksAreRight(match', job', Fate')
    <2>1. match'[f].queue = tasks
      BY <1>8, <1>10
    <2>2. /\ \A j \in waiting : job[j].at = "recover" /\ job'[j].at = "ending"
          /\ \A j \in Jobs : job'[j] = job[j] \/ (j \in waiting /\ job'[j].at = "ending")
      BY <1>11
    <2>3. waiting \in SUBSET Jobs /\ TasksAreRight(match, job, Fate) /\ game' = game
      BY <1>2 DEF Inv
    <2>9. Fate' = Fate
      BY <1>2 DEF Fate
    <2> HIDE DEF waiting
    <2>4. TasksAreRight(match', job', Fate)
      <3>1. PICK status, jobs, now : status = Fate /\ jobs = job /\ now = job'
        OBVIOUS
      <3>2. /\ TasksAreRight(match, jobs, status)
            /\ \A j \in waiting : jobs[j].at = "recover" /\ now[j].at = "ending"
            /\ \A j \in Jobs : now[j] = jobs[j] \/ (j \in waiting /\ now[j].at = "ending")
        BY <2>2, <2>3, <3>1
      <3>3. TasksAreRight(match', now, status)
        BY <1>4, <1>5, <1>6, <1>10, <2>1, <2>3, <3>2, TasksAdopted, SMTT(60)
      <3> QED BY <3>1, <3>3
    <2> QED BY <2>4, <2>9
  <1> QED BY <1>14, <1>15, <1>16, <1>17, <1>18, <1>19, <1>20 DEF Inv

-----------------------------------------------------------------------------
(* The start of a game, the passing of time, and a crash. *)
LEMMA CreateHolds ==
  ASSUME Inv, CreateMatch
  PROVE  Inv'
PROOF
  <1>1. PICK f, new : /\ f = Fresh /\ new = [Unused EXCEPT !.len = 0]
                      /\ slot' = f /\ match' = [match EXCEPT ![f] = new]
    BY DEF CreateMatch
  <1>2. /\ start = "asked" /\ slot = None /\ HasFresh /\ start' = "doc"
        /\ UNCHANGED <<game, rows, archived, stale, load, job, odd, loose>>
    BY DEF CreateMatch, durable
  <1>3. /\ match \in [Objects -> Matches] /\ f \in Objects /\ slot' = f
    BY <1>1, <1>2, FreshIs DEF Inv, Typed
  <1>4. new \in Matches /\ new.len = 0 /\ ~new.lost /\ new.at = "rest" /\ new.queue = <<>>
    <2>1. new = [len |-> 0, over |-> FALSE, lost |-> FALSE, queue |-> <<>>, at |-> "rest"]
      BY <1>1 DEF Unused
    <2> QED BY <2>1, EmptySeq DEF Matches
  <1>5. /\ game.status = "none" /\ ~game.gone /\ ~archived /\ ~game.paused /\ rows.n = -1
        /\ load.at = "idle" /\ NoWrite /\ \A o \in Objects : match[o].queue = <<>>
    BY <1>2 DEF Inv, Beginning, Ending, Starting
  <1>6. /\ match' \in [Objects -> Matches] /\ match'[f] = new
        /\ \A o \in Objects : match'[o].at = "rest" /\ match'[o].queue = <<>>
        /\ \A o \in Objects : match'[o].queue = match[o].queue
    BY <1>1, <1>3, <1>4, <1>5 DEF NoWrite, NoWriter
  <1>7. NoWrite' /\ ~Live /\ ~Live' /\ Starting /\ Starting' /\ ~Closed
    BY <1>2, <1>5, <1>6 DEF NoWrite, NoWriter, Starting, Live, Closed, Fate, Ended
  <1>8. Typed'
    BY <1>2, <1>3, <1>6 DEF Inv, Typed
  <1>9. Beginning'
    BY <1>1, <1>2, <1>4, <1>5, <1>6, <1>7 DEF Beginning
  <1>10. Ending' /\ OneWriter' /\ InStep'
    <2>1. loose = {}
      BY <1>7 DEF Inv, Ending
    <2> QED BY <1>2, <1>5, <1>6, <1>7, <2>1 DEF Ending, OneWriter, InStep
  <1>11. JobsAreRight'
    <2>1. Onward
      BY <1>2, <1>7 DEF Onward
    <2>2. \A j \in Jobs \ {} : JobIsRight(j)'
      BY <1>2, <2>1, JobsStand DEF Inv
    <2> QED BY <2>2 DEF JobsAreRight
  <1>12. TasksAreRight(match', job', Fate')
    <2>1. Fate' = Fate
      BY <1>2 DEF Fate
    <2> QED BY <1>2, <1>3, <1>6, <2>1, TasksStand DEF Inv
  <1> QED BY <1>8, <1>9, <1>10, <1>11, <1>12 DEF Inv

(* The document is written, whether createGame hears of it or not. *)
LEMMA WrittenHolds ==
  ASSUME Inv, start = "doc", start' \in {"genesis", "done"}, stale' = FALSE,
         game' = [game EXCEPT !.status = "LIVE"],
         UNCHANGED <<rows, archived, slot, match, load, job, odd, loose>>
  PROVE  Inv'
PROOF
  <1>1. /\ game.status = "none" /\ ~game.gone /\ ~archived /\ ~game.paused /\ rows.n = -1
        /\ load.at = "idle" /\ NoWrite /\ \A o \in Objects : match[o].queue = <<>>
        /\ slot # None => match[slot].len = 0 /\ ~match[slot].lost
    BY DEF Inv, Beginning, Ending, Starting
  <1>2. /\ game' \in [status : {"none", "LIVE", "COMPLETED", "TERMINATED"}, gone : BOOLEAN,
                      paused : BOOLEAN]
        /\ game'.status = "LIVE" /\ ~game'.gone /\ ~game'.paused
    BY <1>1 DEF Inv, Typed
  <1>3. Starting /\ ~Closed /\ NoWrite' /\ loose = {}
    BY <1>1 DEF Starting, Closed, Fate, Ended, NoWrite, Inv, Ending
  <1>4. Typed'
    BY <1>2 DEF Inv, Typed
  <1>5. Beginning'
    BY <1>1, <1>2, <1>3 DEF Beginning
  <1>6. Ending'
    BY <1>1, <1>2, <1>3 DEF Ending
  <1>7. OneWriter'
    BY <1>1, <1>3 DEF OneWriter, NoWrite, NoWriter
  <1>8. InStep'
    <2>1. Tip' = 0
      BY <1>1, TipIs DEF Tip
    <2>2. \A o \in Objects : match[o].at = "rest"
      BY <1>1 DEF NoWrite, NoWriter
    <2>3. slot # None => match[slot].at = "rest"
      BY <2>2 DEF Inv, Typed
    <2> QED BY <1>1, <2>1, <2>3 DEF InStep, IsInStep, Lag
  <1>9. JobsAreRight'
    <2>1. Onward
      BY <1>2, <1>3 DEF Onward
    <2>2. \A j \in Jobs \ {} : JobIsRight(j)'
      BY <2>1, JobsStand DEF Inv
    <2> QED BY <2>2 DEF JobsAreRight
  <1>10. TasksAreRight(match', job', Fate')
    <2>1. ~Ended(Fate) /\ match \in [Objects -> Matches]
      BY <1>3 DEF Closed, Inv, Typed
    <2> QED BY <2>1, TasksStand DEF Inv
  <1> QED BY <1>4, <1>5, <1>6, <1>7, <1>8, <1>9, <1>10 DEF Inv

LEMMA InsertGameHolds ==
  ASSUME Inv, InsertGame
  PROVE  Inv'
BY WrittenHolds DEF InsertGame, memory

LEMMA InsertGenesisHolds ==
  ASSUME Inv, InsertGenesis
  PROVE  Inv'
PROOF
  <1>1. /\ start = "genesis" /\ start' = "done" /\ rows' = [rows EXCEPT !.n = Max({@, 0})]
        /\ UNCHANGED <<game, archived, stale, slot, match, load, job, odd, loose>>
    BY DEF InsertGenesis, memory
  <1>2. rows.n = -1 /\ load.at = "idle" /\ NoWrite /\ Starting /\ ~Starting'
    BY <1>1 DEF Inv, Beginning, Starting
  <1>3. Max({rows.n, 0}) = 0 /\ rows \in [n : Int, over : BOOLEAN]
    BY <1>2, MaxOfTwo DEF Inv, Typed
  <1>4. rows' \in [n : Int, over : BOOLEAN] /\ rows'.n = 0 /\ rows'.over = rows.over
    BY <1>1, <1>3
  <1>5. Tip' = 0 /\ Tip = 0
    BY <1>2, <1>4, MaxOfTwo DEF Tip
  <1>6. ~game.gone
    BY <1>2 DEF Inv, Ending
  <1>7. Typed'
    BY <1>1, <1>4 DEF Inv, Typed
  <1>8. Beginning'
    <2>1. game.status = "none" => slot = None
      BY <1>1 DEF Inv, Beginning
    <2>2. game.status = "none" => \A o \in Objects : match[o].queue = <<>>
      BY <1>1 DEF Inv, Beginning
    <2>3. NoWrite' /\ load'.at = "idle" /\ start' = "done"
      BY <1>1, <1>2 DEF NoWrite
    <2> QED BY <1>1, <1>2, <2>1, <2>2, <2>3 DEF Beginning
  <1>9. Ending'
    BY <1>1, <1>2, <1>6 DEF Inv, Ending
  <1>10. OneWriter'
    BY <1>1, <1>2 DEF Inv, OneWriter, NoWrite, NoWriter, Closed, Fate
  <1>11. InStep'
    <2>1. \A o \in Objects : match[o].at = "rest"
      BY <1>2 DEF NoWrite, NoWriter
    <2>2. slot # None => match[slot].at = "rest"
      BY <2>1 DEF Inv, Typed
    <2> QED BY <1>1, <1>2, <1>5, <2>2 DEF Inv, InStep, IsInStep, Lag, Live, Exists
  <1>12. JobsAreRight'
    <2>1. Onward
      BY <1>1, <1>2 DEF Onward, Closed, Fate, NoWrite
    <2>2. \A j \in Jobs \ {} : JobIsRight(j)'
      BY <1>1, <2>1, JobsStand DEF Inv
    <2> QED BY <2>2 DEF JobsAreRight
  <1>13. TasksAreRight(match', job', Fate')
    <2>1. Fate' = Fate
      BY <1>1 DEF Fate
    <2> QED BY <1>1, <2>1 DEF Inv
  <1> QED BY <1>13, <1>7, <1>8, <1>9, <1>10, <1>11, <1>12 DEF Inv

(* createGame is rejected: before its first write, or behind one. *)
LEMMA StartFailsHolds ==
  ASSUME Inv, StartFails
  PROVE  Inv'
PROOF
  <1>1. /\ start \in {"doc", "genesis"} /\ start' = CutShort(game')
        /\ UNCHANGED <<rows, archived, slot, match, load, job, odd, loose>>
    BY DEF StartFails, memory
  <1>2. CASE start = "doc" /\ game' = [game EXCEPT !.status = "LIVE"] /\ stale' = FALSE
    <2>1. game'.status = "LIVE"
      BY <1>2 DEF Inv, Typed
    <2>2. start' = "done"
      BY <1>1, <2>1 DEF CutShort
    <2> QED BY <1>1, <1>2, <2>2, WrittenHolds
  <1>3. CASE game' = game /\ stale' = stale
    <2>1. start' = IF game.status = "none" THEN "lost" ELSE "done"
      BY <1>1, <1>3 DEF CutShort
    <2>2. Starting /\ ~Starting'
      BY <1>1, <2>1 DEF Starting
    <2>3. load.at = "idle" /\ NoWrite /\ NoWrite' /\ ~game.gone /\ loose = {}
      BY <1>1, <2>2 DEF Inv, Beginning, Ending, NoWrite
    <2>4. (Closed => Closed') /\ (Ended(Fate) => Ended(Fate')) /\ Live' = Live /\ Tip' = Tip
      BY <1>1, <1>3, <2>1 DEF Closed, Fate, Ended, Live, Exists, Tip
    <2>5. Typed'
      BY <1>1, <1>3, <2>1 DEF Inv, Typed
    <2>6. Beginning'
      BY <1>1, <1>3, <2>1, <2>2, <2>3 DEF Beginning
    <2>7. Ending'
      BY <1>1, <1>3, <2>3 DEF Inv, Ending
    <2>8. OneWriter'
      BY <1>1, <2>3, <2>4 DEF Inv, OneWriter, NoWrite, NoWriter
    <2>9. InStep'
      BY <1>1, <2>3, <2>4 DEF Inv, InStep, IsInStep, Lag
    <2>10. JobsAreRight'
      <3>1. Onward
        BY <1>1, <1>3, <2>2, <2>3, <2>4 DEF Onward
      <3>2. \A j \in Jobs \ {} : JobIsRight(j)'
        BY <1>1, <3>1, JobsStand DEF Inv
      <3> QED BY <3>2 DEF JobsAreRight
    <2>11. TasksAreRight(match', job', Fate')
      <3>1. match \in [Objects -> Matches]
        BY DEF Inv, Typed
      <3> QED BY <1>1, <2>4, <3>1, TasksStand DEF Inv
    <2> QED BY <2>5, <2>6, <2>7, <2>8, <2>9, <2>10, <2>11 DEF Inv
  <1> QED BY <1>2, <1>3 DEF StartFails

(* Neither the pause of a LIVE game nor the age of one that is not being created
   matters to the rest. *)
LEMMA TimePasses ==
  ASSUME Inv, PausedForADay \/ PlayResumes \/ Week
  PROVE  Inv'
PROOF
  <1>1. UNCHANGED <<rows, archived, start, slot, match, load, job, odd, loose>>
    BY DEF PausedForADay, PlayResumes, Week, memory
  <1>2. /\ game' \in [status : {"none", "LIVE", "COMPLETED", "TERMINATED"}, gone : BOOLEAN,
                      paused : BOOLEAN]
        /\ game'.status = game.status /\ game'.gone = game.gone /\ stale' \in BOOLEAN
        /\ Starting => ~game'.paused /\ stale' = stale
    <2>1. CASE PausedForADay
      <3>1. game' = [game EXCEPT !.paused = TRUE] /\ stale' = stale /\ ~Starting
        BY <2>1 DEF PausedForADay, Quiet
      <3> QED BY <3>1 DEF Inv, Typed
    <2>2. CASE PlayResumes
      <3>1. game' = [game EXCEPT !.paused = FALSE] /\ stale' = stale
        BY <2>2 DEF PlayResumes
      <3> QED BY <3>1 DEF Inv, Typed
    <2>3. CASE Week
      <3>1. game' = game /\ stale' = TRUE /\ ~Starting
        BY <2>3 DEF Week, Quiet
      <3> QED BY <3>1 DEF Inv, Typed
    <2> QED BY <2>1, <2>2, <2>3
  <1>3. Live' = Live /\ Closed' = Closed /\ Starting' = Starting /\ NoWrite' = NoWrite /\ Tip' = Tip
    BY <1>1, <1>2 DEF Live, Exists, Closed, Fate, Starting, NoWrite, Tip
  <1>4. Typed'
    BY <1>1, <1>2 DEF Inv, Typed
  <1>5. Beginning'
    BY <1>1, <1>2, <1>3 DEF Inv, Beginning
  <1>6. Ending'
    BY <1>1, <1>2, <1>3 DEF Inv, Ending, Deleting
  <1>7. OneWriter' /\ InStep'
    BY <1>1, <1>3 DEF Inv, OneWriter, Writing, InStep, IsInStep, Lag
  <1>8. JobsAreRight'
    <2>1. Onward
      BY <1>1, <1>2, <1>3 DEF Onward
    <2>2. \A j \in Jobs \ {} : JobIsRight(j)'
      BY <1>1, <2>1, JobsStand DEF Inv
    <2> QED BY <2>2 DEF JobsAreRight
  <1>9. TasksAreRight(match', job', Fate')
    <2>1. Fate' = Fate
      BY <1>1, <1>2 DEF Fate
    <2> QED BY <1>1, <2>1 DEF Inv
  <1> QED BY <1>4, <1>5, <1>6, <1>7, <1>8, <1>9 DEF Inv

LEMMA CrashHolds ==
  ASSUME Inv, Crash
  PROVE  Inv'
PROOF
  <1>1. /\ slot' = None /\ match' = [o \in Objects |-> Unused] /\ load' = NoLoad
        /\ job' = [j \in Jobs |-> Idle] /\ loose' = {}
        /\ start' = IF Starting THEN CutShort(game) ELSE start
        /\ UNCHANGED <<game, rows, archived, stale>>
    BY DEF Crash, durable
  <1>2. /\ odd \subseteq odd'
        /\ Deleting("rows") => "torn" \in odd'
        /\ game.status = "COMPLETED" /\ ~archived => "unrecorded" \in odd'
    BY DEF Crash, Unrecorded
  <1>3. /\ ~Starting' /\ start' \in {"asked", "doc", "genesis", "done", "lost"}
        /\ start' # "lost" => game.status # "none" \/ ~Starting
        /\ Closed => Closed'
    BY <1>1 DEF Starting, CutShort, Inv, Typed, Closed, Fate, Ended
  <1>4. \A o \in Objects : match'[o] = Unused
    BY <1>1
  <1>5. NoWrite' /\ \A o \in Objects : match'[o].queue = <<>>
    BY <1>4, UnusedIs DEF NoWrite, NoWriter
  <1>6. Typed'
    <2>1. match' \in [Objects -> Matches] /\ job' \in [Jobs -> Progress]
      BY <1>1, UnusedIs, IdleIs
    <2>2. load' \in [at : {"idle", "doc", "rows", "status", "adopt"}, len : Int, over : BOOLEAN]
      BY <1>1, NoLoadIs DEF LoadIsRight
    <2> QED BY <1>1, <1>3, <2>1, <2>2 DEF Inv, Typed
  <1>7. Beginning'
    BY <1>1, <1>3, <1>5, NoLoadIs DEF Beginning, Starting
  <1>8. Ending'
    <2>1. game.gone => Closed'
      BY <1>3 DEF Inv, Ending
    <2>2. game.gone => rows.n = -1 \/ "torn" \in odd'
      BY <1>2 DEF Inv, Ending
    <2>3. archived => game.status = "COMPLETED"
      BY DEF Inv, Ending
    <2> QED BY <1>1, <1>2, <1>3, <1>5, <2>1, <2>2, <2>3 DEF Ending
  <1>9. OneWriter' /\ InStep'
    BY <1>1, <1>5, NoLoadIs DEF OneWriter, InStep, NoWrite, NoWriter
  <1>10. JobsAreRight'
    <2>1. \A j \in Jobs : job'[j] = Idle
      BY <1>1
    <2> QED BY <2>1, IdleIs, Names DEF JobsAreRight, JobIsRight, ProgressIsRight
  <1>11. TasksAreRight(match', job', Fate')
    <2>1. \A o \in Objects : Len(match'[o].queue) = 0
      BY <1>5
    <2> QED BY <2>1 DEF TasksAreRight
  <1> QED BY <1>6, <1>7, <1>8, <1>9, <1>10, <1>11 DEF Inv

-----------------------------------------------------------------------------
(* The command queue. *)

(* A task that is finished leaves what is due as it was. *)
LEMMA EndingStands ==
  ASSUME Inv, NEW o \in Objects, match'[o].at = "rest",
         \A u \in Objects : u # o => match'[u].at = match[u].at,
         \A j \in Jobs : job[j].at = "wipe" => job'[j] = job[j],
         UNCHANGED <<start, loose>>, game'.gone = game.gone, Closed => Closed',
         rows' = rows \/ ~NoWrite, archived => archived', odd \subseteq odd',
         archived' => game'.status = "COMPLETED",
         game'.status = "COMPLETED" => game.status = "COMPLETED" \/ "unrecorded" \in odd',
         match[o].at = "archive" /\ game'.status = "COMPLETED" => archived' \/ "unrecorded" \in odd'
  PROVE  Ending'
PROOF
  <1>1. /\ NoWrite => NoWrite'
        /\ Starting' = Starting
    BY DEF NoWrite, NoWriter, Starting
  <1>2. /\ game.gone => Closed' /\ NoWrite' /\ ~Starting'
        /\ loose # {} => Closed' /\ NoWrite' /\ ~Starting'
    BY <1>1 DEF Inv, Ending
  <1>3. ASSUME game'.status = "COMPLETED", ~archived', "unrecorded" \notin odd'
        PROVE  \E u \in Objects : match'[u].at = "archive"
    <2>1. game.status = "COMPLETED" /\ ~archived /\ "unrecorded" \notin odd
      BY <1>3
    <2>2. PICK u \in Objects : match[u].at = "archive"
      BY <2>1 DEF Inv, Ending
    <2> QED BY <1>3, <2>2
  <1>4. game.gone /\ "torn" \notin odd' => rows'.n = -1 \/ Deleting("rows")'
    <2>1. game.gone /\ "torn" \notin odd' => NoWrite /\ (rows.n = -1 \/ Deleting("rows"))
      BY DEF Inv, Ending
    <2>2. Deleting("rows") => Deleting("rows")'
      BY DEF Deleting
    <2> QED BY <2>1, <2>2
  <1>5. "doc" \in loose /\ "torn" \notin odd' => rows'.n = -1 \/ "rows" \in loose
    BY DEF Inv, Ending
  <1> QED BY <1>2, <1>3, <1>4, <1>5 DEF Ending

LEMMA FinishedHolds ==
  ASSUME Inv, NEW o \in Objects, match[o].queue # <<>>, NEW m, NEW outcome, Finish(o, m, outcome),
         Leaves(o, m), UNCHANGED <<start, load, loose>>, archived' \in BOOLEAN, stale' \in BOOLEAN,
         rows' \in [n : Int, over : BOOLEAN],
         rows' = rows \/ match[o].at = "insert",
         \/ game' = game
         \/ /\ match[o].at = "complete" /\ Live
            /\ game' = [game EXCEPT !.status = "COMPLETED", !.paused = FALSE],
         archived => archived', odd \subseteq odd', archived' => game'.status = "COMPLETED",
         game'.status = "COMPLETED" => game.status = "COMPLETED" \/ "unrecorded" \in odd',
         match[o].at = "archive" /\ game'.status = "COMPLETED" => archived' \/ "unrecorded" \in odd'
  PROVE  Inv'
PROOF
  <1>1. /\ game' \in [status : {"none", "LIVE", "COMPLETED", "TERMINATED"}, gone : BOOLEAN,
                      paused : BOOLEAN]
        /\ game'.gone = game.gone
        /\ game' = game \/ (match[o].at = "complete" /\ Live /\ game'.status = "COMPLETED")
    <2>1. game \in [status : {"none", "LIVE", "COMPLETED", "TERMINATED"}, gone : BOOLEAN,
                    paused : BOOLEAN]
      BY DEF Inv, Typed
    <2>2. PICK g : g = [game EXCEPT !.status = "COMPLETED", !.paused = FALSE]
      OBVIOUS
    <2>3. /\ g \in [status : {"none", "LIVE", "COMPLETED", "TERMINATED"}, gone : BOOLEAN,
                    paused : BOOLEAN]
          /\ g.gone = game.gone /\ g.status = "COMPLETED"
      BY <2>1, <2>2
    <2>4. game' = game \/ (match[o].at = "complete" /\ Live /\ game' = g)
      BY <2>2
    <2> QED BY <2>1, <2>3, <2>4
  <1>2. /\ Typed' /\ Beginning' /\ OneWriter' /\ InStep' /\ JobsAreRight'
        /\ TasksAreRight(match', job', Fate')
        /\ \A u \in Objects : u # o => match'[u].at = match[u].at
        /\ match'[o].at = "rest"
        /\ \A j \in Jobs : job[j].at = "wipe" => job'[j] = job[j]
    BY <1>1, Finished
  <1>3. Closed => Closed'
    BY <1>1 DEF Closed, Fate, Ended
  <1>4. rows' = rows \/ ~NoWrite
    BY DEF NoWrite, NoWriter
  <1>5. Ending'
    BY <1>1, <1>2, <1>3, <1>4, EndingStands
  <1> QED BY <1>2, <1>5 DEF Inv

(* ... and nothing else happened. *)
LEMMA LeftHolds ==
  ASSUME Inv, NEW o \in Objects, match[o].queue # <<>>, NEW m, NEW outcome, Finish(o, m, outcome),
         Leaves(o, m), UNCHANGED <<game, archived, start, load, odd, loose>>, stale' \in BOOLEAN,
         rows' \in [n : Int, over : BOOLEAN], rows' = rows \/ match[o].at = "insert",
         match[o].at # "archive"
  PROVE  Inv'
PROOF
  <1>1. archived \in BOOLEAN /\ (archived => game.status = "COMPLETED")
    BY DEF Inv, Typed, Ending
  <1> QED BY <1>1, FinishedHolds

LEMMA StoredIs ==
  ASSUME Inv
  PROVE  archived \in BOOLEAN /\ stale \in BOOLEAN /\ rows \in [n : Int, over : BOOLEAN]
BY DEF Inv, Typed

LEMMA DrainHolds ==
  ASSUME Inv, NEW o \in Objects, Drain(o) \/ AlreadyOver(o)
  PROVE  Inv'
PROOF
  <1>1. /\ match[o].queue # <<>> /\ match[o].at = "rest"
        /\ Finish(o, match, "drained") \/ Finish(o, match, "ended")
        /\ UNCHANGED <<game, rows, archived, stale, start, load, odd, loose>>
    BY DEF Drain, AlreadyOver, Running, durable
  <1>2. Live' => Live
    BY <1>1 DEF Live, Exists
  <1>3. Leaves(o, match)
    BY <1>1, <1>2, LeavesAll
  <1> QED BY <1>1, <1>3, StoredIs, LeftHolds

LEMMA RefusedHolds ==
  ASSUME Inv, NEW o \in Objects, match[o].queue # <<>>, match[o].at \in {"rest", "update"},
         ~Live, Refused(o, match), UNCHANGED <<game, rows, archived, stale, start, load, odd, loose>>
  PROVE  Inv'
PROOF
  <1>1. Closed
    BY GoneIs DEF Inv, Beginning
  <1>2. \/ Finish(o, match, "notLive")
        \/ slot # None /\ Finish(o, Queued(match, slot, Task("drain", FALSE, None)), "notLive")
    BY DEF Refused
  <1>3. CASE Finish(o, match, "notLive")
    <2>1. ~Live'
      BY DEF Live, Exists
    <2>2. Leaves(o, match)
      BY <2>1, LeavesAll
    <2> QED BY <1>3, <2>2, StoredIs, LeftHolds
  <1>4. CASE slot # None /\ Finish(o, Queued(match, slot, Task("drain", FALSE, None)), "notLive")
    <2>1. PICK m : m = Queued(match, slot, Task("drain", FALSE, None)) /\ Finish(o, m, "notLive")
      BY <1>4
    <2>2. Leaves(o, m)
      BY <1>1, <1>4, <2>1, LeavesDrain
    <2> QED BY <2>1, <2>2, StoredIs, LeftHolds
  <1> QED BY <1>2, <1>3, <1>4

(* The object that writes takes one more step. *)
LEMMA Writes ==
  ASSUME Inv, NEW o \in Objects, o = slot, ~Starting, Closed => ~NoWrite,
         NEW b \in Matches, b.queue = match[o].queue, match' = [match EXCEPT ![o] = b],
         UNCHANGED <<start, slot, load, job>>,
         Typed', game'.status # "none", Closed => Closed', Writing(o)', Ending',
         Live' => IsInStep(b)'
  PROVE  Inv'
PROOF
  <1>1. /\ match \in [Objects -> Matches] /\ match'[o] = b
        /\ \A u \in Objects : u # o => match'[u] = match[u]
        /\ \A u \in Objects : match'[u].queue = match[u].queue
    BY DEF Inv, Typed
  <1>2. ~Starting' /\ slot # None
    BY Names DEF Starting
  <1>3. \A u \in Objects : u # o => match[u].at = "rest" /\ match[u].queue = <<>>
    BY DEF Inv, OneWriter, Writing
  <1>4. Beginning'
    BY <1>2 DEF Beginning, Starting
  <1>5. OneWriter'
    BY <1>1, <1>3 DEF OneWriter
  <1>6. InStep'
    <2>1. load.at = "idle"
      BY <1>2 DEF Inv, InStep
    <2> QED BY <1>1, <2>1 DEF InStep, IsInStep
  <1>7. JobsAreRight'
    <2>1. Onward
      BY <1>2 DEF Onward
    <2>2. \A j \in Jobs \ {} : JobIsRight(j)'
      BY <2>1, JobsStand DEF Inv
    <2> QED BY <2>2 DEF JobsAreRight
  <1>8. TasksAreRight(match', job', Fate')
    <2>1. Ended(Fate) => Ended(Fate')
      BY DEF Closed
    <2> QED BY <1>1, <2>1, TasksStand DEF Inv
  <1> QED BY <1>4, <1>5, <1>6, <1>7, <1>8 DEF Inv

LEMMA MatchOf ==
  ASSUME Inv, NEW o \in Objects, NEW at \in {"rest", "insert", "update", "complete", "archive"}
  PROVE  /\ match[o] \in Matches /\ [match[o] EXCEPT !.at = at] \in Matches
         /\ [match[o] EXCEPT !.at = at].at = at /\ [match[o] EXCEPT !.at = at].len = match[o].len
         /\ [match[o] EXCEPT !.at = at].queue = match[o].queue
         /\ [match[o] EXCEPT !.at = at].lost = match[o].lost
BY DEF Inv, Typed, Matches

LEMMA GateHolds ==
  ASSUME Inv, NEW o \in Objects, Gate(o)
  PROVE  Inv'
PROOF
  <1>1. /\ match[o].queue # <<>> /\ match[o].at = "rest" /\ Current(o).type # "drain"
        /\ UNCHANGED <<game, rows, archived, stale, start, load, odd, loose>>
    BY DEF Gate, Running, durable
  <1>2. CASE ~Live
    BY <1>1, <1>2, RefusedHolds DEF Gate
  <1>3. CASE Live
    <2>1. PICK b : b = [match[o] EXCEPT !.at = "insert"]
      OBVIOUS
    <2>2. /\ b \in Matches /\ b.at = "insert" /\ b.len = match[o].len /\ b.queue = match[o].queue
          /\ b.lost = match[o].lost
      BY <2>1, MatchOf
    <2>3. match' = [match EXCEPT ![o] = b] /\ UNCHANGED <<slot, job>>
      BY <1>3, <2>1 DEF Gate
    <2>4. ~Closed /\ game.status # "none" /\ ~game.gone
      BY <1>3 DEF Live, Exists, Closed, Fate, Ended
    <2>5. o = slot /\ ~Starting /\ slot # None
      BY <1>1, <1>3, <2>4, Names DEF Inv, OneWriter, Beginning
    <2>6. match \in [Objects -> Matches]
      BY DEF Inv, Typed
    <2>7. match' \in [Objects -> Matches] /\ match'[o] = b
      BY <2>2, <2>3, <2>6
    <2>8. Typed'
      BY <1>1, <2>3, <2>7 DEF Inv, Typed
    <2>9. Writing(o)'
      BY <1>1, <2>2, <2>3, <2>5, <2>7 DEF Writing, Current
    <2>10. Ending'
      <3>1. ~archived /\ game.status # "COMPLETED" /\ loose = {}
        BY <1>3, <2>4 DEF Inv, Ending, Live
      <3> QED BY <1>1, <2>4, <3>1 DEF Ending
    <2>11. IsInStep(b)' /\ Live' = Live /\ Closed' = Closed
      <3>1. IsInStep(match[o])
        BY <1>3, <2>5 DEF Inv, InStep
      <3>2. IsInStep(b)
        BY <1>1, <2>2, <3>1 DEF IsInStep, Lag
      <3> QED BY <1>1, <3>2 DEF IsInStep, Lag, Tip, Live, Exists, Closed, Fate
    <2> QED BY <1>1, <2>2, <2>3, <2>4, <2>5, <2>8, <2>9, <2>10, <2>11, Writes
  <1> QED BY <1>2, <1>3

LEMMA InsertRowHolds ==
  ASSUME Inv, NEW o \in Objects, InsertRow(o)
  PROVE  Inv'
PROOF
  <1>1. /\ match[o].queue # <<>> /\ match[o].at = "insert"
        /\ UNCHANGED <<game, archived, stale, start, load, odd, loose>>
    BY DEF InsertRow, Running
  <1>2. Writing(o) /\ o = slot /\ ~NoWrite /\ ~Starting /\ ~game.gone /\ game.status # "none"
    BY <1>1, WriterIs
  <1>3. CASE IsNew(o)
    <2>1. PICK b : b = [match[o] EXCEPT !.at = "update"]
      OBVIOUS
    <2>2. /\ b \in Matches /\ b.at = "update" /\ b.len = match[o].len /\ b.queue = match[o].queue
          /\ b.lost = match[o].lost
          /\ match[o] \in Matches
      BY <2>1, MatchOf
    <2>3. /\ match' = [match EXCEPT ![o] = b] /\ UNCHANGED <<slot, job>>
          /\ rows' = [n |-> match[o].len + 1, over |-> Current(o).last]
      BY <1>3, <2>1 DEF InsertRow, RowOf
    <2>4. Current(o) \in Tasks /\ Current(o).last \in BOOLEAN
      <3>1. Current(o) \in Tasks
        BY <1>1, <2>2, TailIs DEF Matches, Current
      <3> QED BY <3>1 DEF Tasks
    <2>5. /\ rows' \in [n : Int, over : BOOLEAN] /\ rows'.n = match[o].len + 1
          /\ rows'.over = Current(o).last
      BY <2>2, <2>3, <2>4 DEF Matches
    <2>6. match \in [Objects -> Matches]
      BY DEF Inv, Typed
    <2>7. match' \in [Objects -> Matches] /\ match'[o] = b
          /\ \A u \in Objects : u # o => match'[u] = match[u]
      BY <2>2, <2>3, <2>6
    <2>8. Typed'
      BY <1>1, <2>3, <2>5, <2>7 DEF Inv, Typed
    <2>9. Writing(o)'
      BY <1>2, <2>2, <2>3, <2>5, <2>7 DEF Writing, Current
    <2>10. Ending'
      <3>1. ASSUME NEW u \in Objects, match[u].at = "archive"
            PROVE  match'[u].at = "archive"
        BY <1>1, <2>7, <3>1
      <3> QED BY <1>1, <1>2, <3>1 DEF Inv, Ending
    <2>11. Live => IsInStep(b)'
      <3> SUFFICES ASSUME Live
                   PROVE  IsInStep(b)'
        OBVIOUS
      <3>1. IsInStep(match[o])
        BY <1>2, Names DEF Inv, InStep
      <3>2. rows.n \in Int /\ match[o].len \in Int /\ match[o].len + 1 > rows.n
        BY <1>3, <2>2 DEF Inv, Typed, Matches, IsNew
      <3>3. Tip = IF rows.n >= 0 THEN rows.n ELSE 0
        BY <3>2, TipIs
      <3>4. ~match[o].lost /\ rows'.n >= 1
        BY <1>1, <2>5, <3>1, <3>2, <3>3 DEF IsInStep, Lag
      <3> QED BY <2>2, <2>5, <3>4 DEF IsInStep
    <2>12. Live' = Live /\ Closed' = Closed
      BY <1>1 DEF Live, Exists, Closed, Fate
    <2> QED BY <1>1, <1>2, <2>2, <2>3, <2>5, <2>8, <2>9, <2>10, <2>11, <2>12, Writes
  <1>4. CASE ~IsNew(o)
    <2>1. Finish(o, match, "failed") /\ rows' = rows
      BY <1>4 DEF InsertRow
    <2>2. Live' => Live
      BY <1>1 DEF Live, Exists
    <2>3. Leaves(o, match)
      BY <1>1, <2>1, <2>2, LeavesAll
    <2> QED BY <1>1, <2>1, <2>3, StoredIs, LeftHolds
  <1> QED BY <1>3, <1>4

LEMMA UpdateHolds ==
  ASSUME Inv, NEW o \in Objects, UpdateGame(o)
  PROVE  Inv'
PROOF
  <1> DEFINE done == [match EXCEPT ![o].len = @ + 1, ![o].over = Current(o).last]
  <1>1. /\ match[o].queue # <<>> /\ match[o].at = "update"
        /\ UNCHANGED <<game, rows, archived, start, load, odd, loose>>
    BY DEF UpdateGame, Running
  <1>2. Writing(o) /\ o = slot /\ ~NoWrite /\ ~Starting /\ ~game.gone /\ game.status # "none"
    BY <1>1, WriterIs
  <1>3. CASE ~Live
    <2>1. Refused(o, match) /\ stale' = stale
      BY <1>3 DEF UpdateGame
    <2> QED BY <1>1, <1>3, <2>1, RefusedHolds
  <1>4. CASE Live /\ ~Current(o).last
    <2>1. Finish(o, done, "moved") /\ stale' = FALSE
      BY <1>4 DEF UpdateGame
    <2>2. PICK m : m = done /\ Finish(o, m, "moved")
      BY <2>1
    <2>3. m = [match EXCEPT ![o].len = @ + 1, ![o].over = Current(o).last]
      BY <2>2
    <2> HIDE DEF done
    <2>4. Leaves(o, m)
      BY <1>1, <1>4, <2>3, LeavesMoved
    <2> QED BY <1>1, <2>1, <2>2, <2>4, StoredIs, LeftHolds
  <1>5. CASE Live /\ Current(o).last
    <2>1. /\ match' = [done EXCEPT ![o].at = "complete"]
          /\ stale' = FALSE /\ UNCHANGED <<slot, job>>
      BY <1>5 DEF UpdateGame
    <2>2. match \in [Objects -> Matches]
      BY DEF Inv, Typed
    <2>3. PICK r : r = match[o]
      OBVIOUS
    <2>4. /\ r = [len |-> r.len, over |-> r.over, lost |-> r.lost, queue |-> r.queue, at |-> r.at]
          /\ r.len \in Int /\ r.lost \in BOOLEAN /\ r.queue \in Seq(Tasks)
      BY <2>2, <2>3 DEF Matches
    <2>5. PICK b : b = [len |-> r.len + 1, over |-> TRUE, lost |-> r.lost, queue |-> r.queue,
                   at |-> "complete"]
      OBVIOUS
    <2>6. b \in Matches /\ b.len = match[o].len + 1 /\ b.at = "complete" /\ b.queue = match[o].queue
          /\ b.lost = match[o].lost
      BY <2>3, <2>4, <2>5 DEF Matches
    <2>7. match' = [match EXCEPT ![o] = b]
      <3>1. PICK l : l = Current(o).last /\ l = TRUE
        <4>1. Current(o) \in Tasks
          BY <1>1, <2>2, TailIs DEF Matches, Current
        <4>2. Current(o).last \in BOOLEAN
          BY <4>1 DEF Tasks
        <4> QED BY <1>5, <4>2
      <3>2. match' = [[match EXCEPT ![o].len = @ + 1, ![o].over = l] EXCEPT ![o].at = "complete"]
        BY <2>1, <3>1
      <3>3. b = [[r EXCEPT !.len = r.len + 1, !.over = l] EXCEPT !.at = "complete"]
        <4>1. PICK c : c = [r EXCEPT !.len = r.len + 1, !.over = l]
          OBVIOUS
        <4>2. c = [len |-> r.len + 1, over |-> TRUE, lost |-> r.lost, queue |-> r.queue, at |-> r.at]
          BY <2>4, <3>1, <4>1
        <4>3. PICK d : d = [c EXCEPT !.at = "complete"]
          OBVIOUS
        <4>4. d = [len |-> r.len + 1, over |-> TRUE, lost |-> r.lost, queue |-> r.queue,
                     at |-> "complete"]
          BY <4>2, <4>3
        <4> QED BY <2>5, <4>1, <4>3, <4>4
      <3> HIDE DEF done
      <3> QED BY <2>2, <2>3, <3>2, <3>3
    <2>8. match' \in [Objects -> Matches] /\ match'[o] = b
          /\ \A u \in Objects : u # o => match'[u] = match[u]
      BY <2>2, <2>6, <2>7
    <2>9. Typed'
      <3>1. stale' \in BOOLEAN /\ UNCHANGED <<slot, job>>
        BY <2>1
      <3>2. match' \in [Objects -> Matches]
        BY <2>8
      <3> HIDE DEF done
      <3> QED BY <1>1, <3>1, <3>2 DEF Inv, Typed
    <2>10. Live' = Live /\ Closed' = Closed
      BY <1>1 DEF Live, Exists, Closed, Fate
    <2>11. Writing(o)'
      BY <1>1, <1>2, <1>5, <2>1, <2>6, <2>8 DEF Writing, Current
    <2>12. Ending'
      <3>1. ASSUME NEW u \in Objects, match[u].at = "archive"
            PROVE  match'[u].at = "archive"
        BY <1>1, <2>8, <3>1
      <3> QED BY <1>1, <1>2, <3>1 DEF Inv, Ending
    <2>13. IsInStep(b)'
      <3>1. IsInStep(match[o])
        BY <1>2, <1>5, Names DEF Inv, InStep
      <3>2. match[o].len + 1 = rows.n /\ ~match[o].lost /\ rows.n >= 1 /\ rows.n \in Int
        BY <1>1, <3>1 DEF IsInStep, Inv, Typed
      <3> HIDE DEF done
      <3> QED BY <1>1, <2>6, <3>2 DEF IsInStep
    <2> QED BY <1>1, <1>2, <2>1, <2>6, <2>7, <2>9, <2>10, <2>11, <2>12, <2>13, Writes
  <1> QED BY <1>3, <1>4, <1>5

LEMMA CompleteHolds ==
  ASSUME Inv, NEW o \in Objects, Complete(o)
  PROVE  Inv'
PROOF
  <1>1. /\ match[o].queue # <<>> /\ match[o].at = "complete"
        /\ game' = Completed /\ stale' = (stale /\ ~Live)
        /\ UNCHANGED <<rows, archived, start, slot, load, job, odd, loose>>
    BY DEF Complete, Running
  <1>2. Writing(o) /\ o = slot /\ ~NoWrite /\ ~Starting /\ ~game.gone /\ game.status # "none"
    BY <1>1, WriterIs
  <1>3. PICK b : b = [match[o] EXCEPT !.at = "archive"]
    OBVIOUS
  <1>4. /\ b \in Matches /\ b.at = "archive" /\ b.len = match[o].len /\ b.queue = match[o].queue
    BY <1>3, MatchOf
  <1>5. match' = [match EXCEPT ![o] = b]
    BY <1>3 DEF Complete
  <1>6. match \in [Objects -> Matches]
    BY DEF Inv, Typed
  <1>7. match' \in [Objects -> Matches] /\ match'[o] = b
    BY <1>4, <1>5, <1>6
  <1>8. /\ game' \in [status : {"none", "LIVE", "COMPLETED", "TERMINATED"}, gone : BOOLEAN,
                      paused : BOOLEAN]
        /\ ~game'.gone /\ game'.status \in {"COMPLETED", "TERMINATED"}
        /\ archived => game'.status = "COMPLETED"
    <2>1. CASE Live
      <3>1. game' = [game EXCEPT !.status = "COMPLETED", !.paused = FALSE]
        BY <1>1, <2>1 DEF Completed
      <3> QED BY <1>2, <2>1, <3>1 DEF Inv, Typed, Live, Closed, Fate, Ended
    <2>2. CASE ~Live
      <3>1. game' = game
        BY <1>1, <2>2 DEF Completed
      <3>2. Closed
        BY <1>2, <2>2, GoneIs
      <3> QED BY <1>2, <3>1, <3>2 DEF Inv, Typed, Ending, Closed, Fate, Ended
    <2> QED BY <2>1, <2>2
  <1>9. Typed'
    BY <1>1, <1>7, <1>8 DEF Inv, Typed
  <1>10. ~Live' /\ Closed'
    BY <1>8 DEF Live, Closed, Fate, Ended
  <1>11. Writing(o)'
    BY <1>1, <1>2, <1>4, <1>7, <1>10 DEF Writing
  <1>12. Ending'
    <2>1. loose = {}
      BY <1>2 DEF Inv, Ending
    <2> QED BY <1>1, <1>4, <1>7, <1>8, <2>1 DEF Ending
  <1> QED BY <1>1, <1>2, <1>4, <1>5, <1>8, <1>9, <1>10, <1>11, <1>12, Writes

(* A result is archived of a game that was completed, and of no other. *)
LEMMA ArchiveHolds ==
  ASSUME Inv, NEW o \in Objects, Archive(o)
  PROVE  Inv'
PROOF
  <1>1. /\ match[o].queue # <<>> /\ match[o].at = "archive" /\ Finish(o, match, "ended")
        /\ archived' = (archived \/ Archives)
        /\ UNCHANGED <<game, rows, stale, start, load, odd, loose>>
    BY DEF Archive, Running
  <1>2. Writing(o) /\ ~game.gone /\ game.status # "none"
    BY <1>1, WriterIs
  <1>3. ~Live
    BY <1>1, <1>2 DEF Writing
  <1>4. game.status \in {"COMPLETED", "TERMINATED"}
    BY <1>2, <1>3, GoneIs DEF Closed, Fate, Ended
  <1>5. /\ archived' \in BOOLEAN /\ (archived => archived')
        /\ archived' => game.status = "COMPLETED"
        /\ game.status = "COMPLETED" => archived'
    BY <1>1, <1>2, <1>4, StoredIs DEF Archives, Exists, Inv, Ending
  <1>6. Live' => Live
    BY <1>1 DEF Live, Exists
  <1>7. Leaves(o, match)
    BY <1>1, <1>6, LeavesAll
  <1> QED BY <1>1, <1>5, <1>7, StoredIs, FinishedHolds

LEMMA RecordFailsHolds ==
  ASSUME Inv, NEW o \in Objects, RecordFails(o)
  PROVE  Inv'
PROOF
  <1>1. /\ match[o].queue # <<>> /\ Finish(o, match, "ended")
        /\ odd' = odd \cup Unrecorded(game', archived')
        /\ UNCHANGED <<rows, start, load, loose>>
    BY DEF RecordFails
  <1>2. \/ match[o].at = "complete" /\ UNCHANGED <<game, archived, stale>>
        \/ /\ match[o].at = "complete" /\ Live /\ stale' = FALSE /\ UNCHANGED archived
           /\ game' = [game EXCEPT !.status = "COMPLETED", !.paused = FALSE]
        \/ /\ match[o].at = "archive" /\ archived' \in {archived, archived \/ Archives}
           /\ UNCHANGED <<game, stale>>
    <2>1. stale \in BOOLEAN
      BY StoredIs
    <2>2. CASE match[o].at = "complete" /\ game' = Completed /\ stale' = (stale /\ ~Live)
               /\ UNCHANGED archived
      <3>1. CASE Live
        BY <2>2, <3>1 DEF Completed
      <3>2. CASE ~Live
        <4>1. stale' = stale
          BY <2>1, <2>2, <3>2
        <4> QED BY <2>2, <3>2, <4>1 DEF Completed
      <3> QED BY <3>1, <3>2
    <2> QED BY <2>2 DEF RecordFails
  <1>3. Writing(o) /\ ~game.gone /\ game.status # "none" /\ match[o].at # "update"
    BY <1>2, WriterIs
  <1>4. match[o].at = "archive" => game.status \in {"COMPLETED", "TERMINATED"}
    BY <1>3, GoneIs DEF Writing, Closed, Fate, Ended
  <1>5. /\ odd \subseteq odd'
        /\ game'.status = "COMPLETED" => archived' \/ "unrecorded" \in odd'
    BY <1>1 DEF Unrecorded
  <1>6. archived \in BOOLEAN /\ stale \in BOOLEAN /\ (archived => game.status = "COMPLETED")
    BY DEF Inv, Typed, Ending
  <1>7. /\ archived' \in BOOLEAN /\ stale' \in BOOLEAN /\ (archived => archived')
        /\ archived' => game'.status = "COMPLETED"
        /\ game'.status = "COMPLETED" => game.status = "COMPLETED" \/ "unrecorded" \in odd'
    <2>1. CASE UNCHANGED <<game, archived, stale>>
      BY <1>6, <2>1
    <2>2. CASE /\ Live /\ stale' = FALSE /\ UNCHANGED archived
               /\ game' = [game EXCEPT !.status = "COMPLETED", !.paused = FALSE]
      <3>1. ~archived /\ archived' = archived
        BY <1>6, <2>2 DEF Live
      <3>2. stale' \in BOOLEAN
        BY <2>2
      <3>3. ~archived' /\ archived' \in BOOLEAN
        BY <1>6, <3>1
      <3> QED BY <1>5, <3>1, <3>2, <3>3
    <2>3. CASE /\ match[o].at = "archive" /\ archived' \in {archived, archived \/ Archives}
               /\ UNCHANGED <<game, stale>>
      BY <1>3, <1>4, <1>6, <2>3 DEF Archives, Exists
    <2> QED BY <1>2, <2>1, <2>2, <2>3
  <1>8. Live' => Live
    BY <1>2 DEF Live, Exists
  <1>9. Leaves(o, match)
    BY <1>1, <1>3, <1>8, LeavesAll
  <1>10. \/ game' = game
         \/ /\ match[o].at = "complete" /\ Live
            /\ game' = [game EXCEPT !.status = "COMPLETED", !.paused = FALSE]
    BY <1>2
  <1> QED BY <1>1, <1>5, <1>7, <1>9, <1>10, StoredIs, FinishedHolds

LEMMA AppendFailsHolds ==
  ASSUME Inv, NEW o \in Objects, AppendFails(o)
  PROVE  Inv'
PROOF
  <1>1. /\ match[o].queue # <<>>
        /\ UNCHANGED <<game, archived, start, load, odd, loose>>
    BY DEF AppendFails
  <1>2. CASE match[o].at = "insert" /\ Finish(o, match, "failed") /\ UNCHANGED <<rows, stale>>
    <2>1. Live' => Live
      BY <1>1 DEF Live, Exists
    <2>2. Leaves(o, match)
      BY <1>2, <2>1, LeavesAll
    <2> QED BY <1>1, <1>2, <2>2, StoredIs, LeftHolds
  <1>3. CASE /\ match[o].at = "insert" /\ IsNew(o) /\ rows' = RowOf(o)
             /\ Finish(o, Behind(o), "failed") /\ UNCHANGED stale
    <2>1. PICK m : m = Behind(o) /\ Finish(o, m, "failed")
      BY <1>3
    <2>2. Leaves(o, m) /\ rows' \in [n : Int, over : BOOLEAN]
      BY <1>1, <1>3, <2>1, LeavesBehind
    <2> QED BY <1>1, <1>3, <2>1, <2>2, StoredIs, LeftHolds
  <1>4. CASE /\ match[o].at = "update" /\ stale' \in {stale, stale /\ ~Live}
             /\ Finish(o, Behind(o), "failed") /\ UNCHANGED rows
    <2>1. PICK m : m = Behind(o) /\ Finish(o, m, "failed")
      BY <1>4
    <2>2. Leaves(o, m) /\ rows' \in [n : Int, over : BOOLEAN]
      BY <1>1, <1>4, <2>1, LeavesBehind
    <2>3. stale' \in BOOLEAN
      BY <1>4, StoredIs
    <2> QED BY <1>1, <1>4, <2>1, <2>2, <2>3, LeftHolds
  <1> QED BY <1>2, <1>3, <1>4 DEF AppendFails

-----------------------------------------------------------------------------
(* The theorems. *)

LEMMA InvInit ==
  ASSUME Init
  PROVE  Inv
PROOF
  <1>1. /\ match \in [Objects -> Matches] /\ job \in [Jobs -> Progress]
        /\ \A o \in Objects : match[o] = Unused
        /\ \A j \in Jobs : job[j] = Idle
    BY UnusedIs, IdleIs DEF Init
  <1>2. Typed
    <2>1. load \in [at : {"idle", "doc", "rows", "status", "adopt"}, len : Int, over : BOOLEAN]
      BY DEF Init, NoLoad
    <2>2. game \in [status : {"none", "LIVE", "COMPLETED", "TERMINATED"}, gone : BOOLEAN,
                   paused : BOOLEAN]
      BY DEF Init
    <2>3. rows \in [n : Int, over : BOOLEAN]
      BY DEF Init
    <2> QED BY <1>1, <2>1, <2>2, <2>3 DEF Init, Typed
  <1>3. NoWrite /\ \A o \in Objects : match[o].queue = <<>>
    BY <1>1, UnusedIs DEF NoWrite, NoWriter
  <1>4. Beginning /\ Ending /\ OneWriter /\ InStep
    BY <1>3, NoLoadIs DEF Init, Beginning, Ending, OneWriter, InStep, Live, NoWrite, NoWriter
  <1>5. JobsAreRight
    BY <1>1, IdleIs, Names DEF JobsAreRight, JobIsRight, ProgressIsRight
  <1>6. TasksAreRight(match, job, Fate)
    <2>1. \A o \in Objects : Len(match[o].queue) = 0
      BY <1>3
    <2> QED BY <2>1 DEF TasksAreRight
  <1> QED BY <1>2, <1>4, <1>5, <1>6 DEF Inv

LEMMA InvNext ==
  ASSUME Inv, ~EarlyRequests, [Next]_vars
  PROVE  Inv'
PROOF
  <1>1. CASE Starts
    BY <1>1, CreateHolds, InsertGameHolds, InsertGenesisHolds DEF Starts
  <1>2. CASE Loads
    BY <1>2, LoadsHold, AdoptHolds DEF Loads
  <1>3. CASE Requests
    BY <1>3, MoveHolds, ReconnectHolds, OrdersHold DEF Requests
  <1>4. CASE Sweep
    BY <1>4, SweepHolds
  <1>5. CASE Time
    BY <1>5, TimePasses DEF Time
  <1>6. CASE Mishaps
    BY <1>6, CrashHolds, StartFailsHolds, LoadFailsHolds, AppendFailsHolds, RecordFailsHolds,
       JobFailsHolds, WipeFailsHolds, LooseEndHolds DEF Mishaps
  <1>7. ASSUME NEW o \in Objects, Runs(o)
        PROVE  Inv'
    BY <1>7, DrainHolds, GateHolds, InsertRowHolds, UpdateHolds, CompleteHolds, ArchiveHolds DEF Runs
  <1>8. ASSUME NEW j \in Jobs, Works(j)
        PROVE  Inv'
    BY <1>8, QueryHolds, EndGameHolds, CasHolds, EvictHolds, CloseHolds, FindHolds, ResidentHolds,
       GetRoomHolds, DropHolds, WipeHolds DEF Works
  <1>9. CASE UNCHANGED vars
    <2>1. UNCHANGED <<game, rows, archived, stale, start, slot, match, load, job, odd, loose>>
      BY <1>9 DEF vars
    <2> QED BY <2>1 DEF Inv, Typed, Beginning, Ending, OneWriter, Writing, InStep, IsInStep, Lag, JobsAreRight, Deleting,
                        JobIsRight, ProgressIsRight, Live, Exists, Starting, Closed, Fate, NoWrite, Tip
  <1> QED BY <1>1, <1>2, <1>3, <1>4, <1>5, <1>6, <1>7, <1>8, <1>9 DEF Next

(* Invariance: where nobody reaches a game before createMatch is done, a game
   that has ended is written by nobody but the task that was past the gate, and
   whoever evicts, deletes or recovers it waits for that one. *)
THEOREM Invariance == ASSUME ~EarlyRequests PROVE Spec => []Inv
PROOF
  <1>1. Init => Inv
    BY InvInit
  <1>2. Inv /\ [Next]_vars => Inv'
    BY InvNext
  <1> QED BY <1>1, <1>2, PTL DEF Spec

(* Typed: the documents, the match objects with their queues, the recovery and the
   jobs keep their types, at any length of the log. *)
THEOREM TypeCorrect == ASSUME ~EarlyRequests PROVE Spec => []Typed
PROOF
  <1>1. Inv => Typed
    BY DEF Inv
  <1> QED BY <1>1, Invariance, PTL

(* NoOrphans: of a game that purgeGameCore has deleted nobody writes a row any
   more, however its appends and deletes fared, and when its deletes are over no
   row is left but where the rows' own delete was rejected or cut off. *)
THEOREM NothingIsOrphaned == ASSUME ~EarlyRequests PROVE Spec => []NoOrphans
PROOF
  <1>1. Inv => NoOrphans
    BY DEF Inv, Ending, NoOrphans, NoWrite, NoWriter
  <1> QED BY <1>1, Invariance, PTL

(* ResidentIsCurrent: the resident match of a LIVE game whose queue is at rest has
   applied exactly the rows of the log, or, once an append of it failed behind its
   row, all but exactly the last. *)
THEOREM ResidentsAreCurrent == ASSUME ~EarlyRequests PROVE Spec => []ResidentIsCurrent
PROOF
  <1>1. Inv => ResidentIsCurrent
    <2> SUFFICES ASSUME Inv, Live, slot # None, AtRest(slot)
                 PROVE  match[slot].len = Max({rows.n, 0}) - (IF match[slot].lost THEN 1 ELSE 0)
      BY DEF ResidentIsCurrent
    <2>1. slot \in Objects /\ match[slot].queue = <<>>
      BY DEF Inv, Typed, AtRest
    <2>2. match[slot].at = "rest"
      BY <2>1 DEF Inv, OneWriter, Writing
    <2> QED BY <2>2 DEF Inv, InStep, IsInStep, Lag, Tip
  <1> QED BY <1>1, Invariance, PTL

(* HistoryIsTheEnded: matchHistory holds a game if and only if it was COMPLETED,
   whoever terminated or deleted it meanwhile. *)
THEOREM HistoryIsRight == ASSUME ~EarlyRequests PROVE Spec => []HistoryIsTheEnded
PROOF
  <1>1. Inv => HistoryIsTheEnded
    <2> SUFFICES ASSUME Inv, \A o \in Objects : AtRest(o), "unrecorded" \notin odd
                 PROVE  archived = (game.status = "COMPLETED")
      BY DEF HistoryIsTheEnded
    <2>1. \A o \in Objects : match[o].at = "rest"
      BY DEF Inv, OneWriter, Writing, AtRest
    <2> QED BY <2>1 DEF Inv, Typed, Ending
  <1> QED BY <1>1, Invariance, PTL

=============================================================================
