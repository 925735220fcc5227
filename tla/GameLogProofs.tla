--------------------------- MODULE GameLogProofs ---------------------------
(***************************************************************************)
(* Proofs about GameLog, for any seats, any checkpoint distance, any       *)
(* number of retries and any faults of the store.  The one premise is that *)
(* no socket binds to a match while createMatch still waits for the store  *)
(* (~EarlyBind): in that window a bot may have a healthy match evicted.   *)
(***************************************************************************)
EXTENDS GameLog, NaturalLemmas, SequenceTheorems

(* No write to the game can succeed any more, and none could be recovered. *)
Gone == status = "TERMINATED" \/ (boot = "dead" /\ status = "NONE")

(* Nothing is queued, running or about to be on the match. *)
Quiet == pc = "idle" /\ queue = <<>> /\ driver = Off /\ ~timer /\ ~kick

Appending == {"gate", "event", "snapshot", "seq", "commit"}
Finishing == {"complete", "reread", "archive", "answer"}

(* The kinds of task a queue holds. *)
Kinds(q) == {q[i].kind : i \in DOMAIN q}

(* The task in execution is the head of the queue. *)
TaskAtHead == pc # "idle" => queue # <<>> /\ Job.kind # "drain"

(* Only a match whose game is gone is being evicted. *)
EvictedIsGone ==
  /\ evicting => status = "TERMINATED"
  /\ driver.at = "evicting" => Gone
  /\ "drain" \in Kinds(queue) => Gone

(* While createMatch waits for the store nobody but the room's vote acts. *)
BootIsQuiet ==
  /\ boot = "doc" => status = "NONE"
  /\ status = "NONE" => boot \in {"doc", "dead"}
  /\ boot \in {"doc", "genesis"} =>
       /\ resident \/ Gone
       /\ bound = {} /\ driver = Off /\ ~timer /\ ~kick
       /\ Kinds(queue) \subseteq {"end", "drain"}

(* A match out of the registry appends nothing. *)
AwayIsIdle ==
  ~resident => /\ Quiet \/ Gone
               /\ pc \in {"idle", "gate"}

(* A recovery in flight holds the whole log. *)
LoadingIsCurrent ==
  loading.at # "none" =>
    /\ ~resident /\ Quiet /\ boot \notin {"doc", "genesis"}
    /\ loading.state = events

(* What the append in execution has prepared, and how far it is. *)
PreparedFollows ==
  pc \in Appending =>
    /\ ~Over(session)
    /\ Len(prepared) = Len(session) + 1
    /\ PrefixOf(session, prepared)
    /\ pc \notin {"gate", "event"} => events = prepared

(* The recording of a finished game, and how far it is. *)
FinishedIsOver ==
  /\ pc \notin {"idle", "gate"} => status # "NONE"
  /\ pc \in Finishing => session = events /\ Over(session)
  /\ pc = "reread" => status # "LIVE"
  /\ pc = "archive" => status = "COMPLETED"
  /\ status = "COMPLETED" => Over(events) /\ (resident => session = events)
  /\ archived => status = "COMPLETED"

(* Nobody was shown more than was committed. *)
ShownIsCommitted ==
  shown <= Len(events) /\ (resident => shown <= Len(session))

Inv ==
  /\ TypeOK
  /\ TaskAtHead /\ EvictedIsGone /\ BootIsQuiet
  /\ AwayIsIdle /\ LoadingIsCurrent
  /\ WriteAhead /\ SnapshotsAreStates
  /\ PreparedFollows /\ FinishedIsOver /\ ShownIsCommitted

-----------------------------------------------------------------------------
(* Sequences, the log and the snapshots. *)

(* A row stored under the seq after the last is appended. *)
LEMMA StoredIsAppend ==
  ASSUME NEW S, NEW s \in Seq(S), NEW r \in S
  PROVE  Stored(s, Len(s) + 1, r) = Append(s, r)
PROOF
  <1> DEFINE t == Append(s, r)
  <1>1. t \in Seq(S) /\ DOMAIN t = 1 .. Len(s) + 1
    OBVIOUS
  <1>2. t \in [1 .. Len(s) + 1 -> S]
    BY <1>1, LenProperties
  <1>3. DOMAIN s \cup {Len(s) + 1} = 1 .. Len(s) + 1
    OBVIOUS
  <1>4. \A i \in 1 .. Len(s) + 1 : t[i] = IF i = Len(s) + 1 THEN r ELSE s[i]
    OBVIOUS
  <1> QED BY <1>2, <1>3, <1>4 DEF Stored

(* A state one action ahead of another, whose last row is stored. *)
LEMMA AppendLast ==
  ASSUME NEW S, NEW s \in Seq(S), NEW t \in Seq(S),
         Len(t) = Len(s) + 1, PrefixOf(s, t)
  PROVE  Append(s, t[Len(t)]) = t
BY DEF PrefixOf

(* Two states each a prefix of the other are one state. *)
LEMMA PrefixAntisymmetry ==
  ASSUME NEW S, NEW s \in Seq(S), NEW t \in Seq(S),
         PrefixOf(s, t), Len(s) = Len(t)
  PROVE  s = t
BY DEF PrefixOf

LEMMA PrefixTransitivity ==
  ASSUME NEW S, NEW s \in Seq(S), NEW t \in Seq(S), NEW u \in Seq(S),
         PrefixOf(s, t), PrefixOf(t, u)
  PROVE  PrefixOf(s, u)
BY DEF PrefixOf

(* What loadForRecovery and the replay rebuild is the whole log: the latest
   snapshot is a state of the log, and the rows after it are the rest. *)
LEMMA RestoredIsEvents ==
  ASSUME TypeOK, SnapshotsAreStates
  PROVE  Restored = events
PROOF
  <1>1. Base \in State /\ PrefixOf(Base, events)
    <2>1. CASE DOMAIN snapshots = {}
      BY <2>1 DEF Base, State, PrefixOf
    <2>2. CASE DOMAIN snapshots # {}
      <3>1. DOMAIN snapshots \subseteq 0 .. Len(events)
        BY DEF TypeOK, StoreOK, SnapshotsAreStates, PrefixOf, State
      <3>2. \E k \in DOMAIN snapshots : \A j \in DOMAIN snapshots : j <= k
        <4>1. Len(events) \in Nat
          BY DEF TypeOK, StoreOK, State
        <4>2. IsFiniteSet(0 .. Len(events))
          BY <4>1, FS_Interval
        <4>3. IsFiniteSet(DOMAIN snapshots)
          BY <4>2, <3>1, FS_Subset
        <4> QED BY <4>3, <3>1, <2>2, LargestNatural
      <3>3. PICK k \in DOMAIN snapshots : Base = snapshots[k]
        BY <2>2, <3>2 DEF Base
      <3> QED BY <3>3 DEF TypeOK, StoreOK, SnapshotsAreStates
    <2> QED BY <2>1, <2>2
  <1>2. Cardinality(Rest) = Len(events) - Len(Base)
    <2>1. Rest = (Len(Base) + 1) .. Len(events)
      BY <1>1 DEF Rest, TypeOK, StoreOK, State
    <2>2. Len(Base) \in Nat /\ Len(events) \in Nat /\ Len(Base) <= Len(events)
      BY <1>1 DEF TypeOK, StoreOK, State, PrefixOf
    <2>3. Cardinality((Len(Base) + 1) .. Len(events)) =
            IF Len(Base) + 1 > Len(events) THEN 0
            ELSE Len(events) - (Len(Base) + 1) + 1
      <3> DEFINE a == Len(Base) + 1
                 b == Len(events)
      <3>1. a \in Int /\ b \in Int
        BY <2>2
      <3> HIDE DEF a, b
      <3>2. Cardinality(a .. b) = IF a > b THEN 0 ELSE b - a + 1
        BY <3>1, FS_Interval
      <3> QED BY <3>2 DEF a, b
    <2> QED BY <2>1, <2>2, <2>3
  <1>3. 1 .. Len(Base) + Cardinality(Rest) = 1 .. Len(events)
    BY <1>1, <1>2 DEF TypeOK, StoreOK, State
  <1>4. \A i \in 1 .. Len(events) :
          (IF i <= Len(Base) THEN Base[i] ELSE events[i]) = events[i]
    BY <1>1 DEF TypeOK, StoreOK, State, PrefixOf
  <1>5. events \in [1 .. Len(events) -> Row]
    BY LenProperties DEF TypeOK, StoreOK, State
  <1> QED BY <1>3, <1>4, <1>5 DEF Restored

-----------------------------------------------------------------------------
(* The queue. *)

LEMMA HeadOfQueue ==
  ASSUME NEW q \in Seq(Task), q # <<>>
  PROVE  /\ Head(q) \in Task /\ Head(q).kind \in Kinds(q)
         /\ Tail(q) \in Seq(Task)
         /\ Kinds(Tail(q)) \subseteq Kinds(q)
PROOF
  <1>1. Head(q) = q[1] /\ 1 \in DOMAIN q
    OBVIOUS
  <1>2. \A i \in DOMAIN Tail(q) : i + 1 \in DOMAIN q /\ Tail(q)[i] = q[i + 1]
    BY HeadTailProperties
  <1> QED BY <1>1, <1>2, HeadTailProperties DEF Kinds

LEMMA EndOfQueue ==
  ASSUME NEW q \in Seq(Task), NEW t \in Task
  PROVE  /\ Append(q, t) \in Seq(Task) /\ Append(q, t) # <<>>
         /\ q # <<>> => Head(Append(q, t)) = Head(q)
         /\ Kinds(Append(q, t)) \subseteq Kinds(q) \cup {t.kind}
BY DEF Kinds

LEMMA EmptyQueue == Kinds(<<>>) = {} /\ <<>> \in Seq(Task)
BY DEF Kinds

(* The same, of the queue of the match. *)
LEMMA QueueFacts ==
  ASSUME TaskOK
  PROVE  /\ queue # <<>> =>
              /\ Job \in Task /\ Job.kind \in Kinds(queue)
              /\ Tail(queue) \in Seq(Task)
              /\ Kinds(Tail(queue)) \subseteq Kinds(queue)
         /\ \A t \in Task :
              /\ Append(queue, t) \in Seq(Task) /\ Append(queue, t) # <<>>
              /\ queue # <<>> => Head(Append(queue, t)) = Job
              /\ Kinds(Append(queue, t)) \subseteq Kinds(queue) \cup {t.kind}
BY HeadOfQueue, EndOfQueue DEF TaskOK, Job

LEMMA TaskIsTyped ==
  ASSUME NEW k \in {"command", "bot", "auto", "end", "drain"},
         NEW p \in Player, NEW n \in Nat
  PROVE  [kind |-> k, who |-> p, seq |-> n] \in Task
BY DEF Task

(* The values everything starts from. *)
LEMMA StartingValues ==
  /\ <<>> \in State
  /\ Idle \in [at : {"none", "loaded", "checked"}, state : State]
  /\ Idle.at = "none"
  /\ Off \in [at : {"off", "stalled", "paced", "queued", "backoff", "evicting"},
              pick : SUBSET Bot, tries : 0 .. BotRetries]
  /\ Off.at = "off"
PROOF
  <1>1. <<>> \in State
    BY DEF State
  <1>2. 0 \in 0 .. BotRetries
    BY ParameterAssumption
  <1> QED BY <1>1, <1>2 DEF Idle, Off

-----------------------------------------------------------------------------
(* The engine and the driver's loop. *)

(* An accepted action leads one row further. *)
LEMMA OneRowFurther ==
  ASSUME NEW s \in State, NEW p \in Player, NEW n \in SUBSET Player,
         NEW t, t = Append(s, [by |-> p, next |-> n])
  PROVE  t \in State /\ Len(t) = Len(s) + 1 /\ PrefixOf(s, t)
PROOF
  <1>1. [by |-> p, next |-> n] \in Row
    BY DEF Row
  <1> QED BY <1>1 DEF State, PrefixOf

LEMMA OutcomesAreOneRowFurther ==
  ASSUME NEW s \in State, NEW p \in Player, NEW t \in Outcomes(s, p)
  PROVE  t \in State /\ Len(t) = Len(s) + 1 /\ PrefixOf(s, t)
PROOF
  <1>1. PICK n \in SUBSET Player : t = Append(s, [by |-> p, next |-> n])
    BY DEF Outcomes
  <1> QED BY <1>1, OneRowFurther

(* The loop of the driver ends, or has picked a bot. *)
LEMMA DriverLoopIsTyped ==
  ASSUME NEW s, DriverLoop(s)
  PROVE  /\ driver' \in [at : {"off", "stalled", "paced", "queued", "backoff", "evicting"},
                         pick : SUBSET Bot, tries : 0 .. BotRetries]
         /\ driver'.at # "evicting"
         /\ ~resident => driver' = Off
PROOF
  <1>1. CASE Movers(s) = {}
    BY <1>1, StartingValues DEF DriverLoop
  <1>2. CASE Movers(s) # {}
    <2>1. PICK b \in Movers(s) :
            driver' = [at |-> "paced", pick |-> {b}, tries |-> 0]
      BY <1>2 DEF DriverLoop
    <2>2. b \in Bot /\ resident
      BY DEF Movers
    <2> QED BY <2>1, <2>2, ParameterAssumption
  <1> QED BY <1>1, <1>2

(* A task that is done with leaves the queue typed and no kind added. *)
LEMMA RetireFacts ==
  ASSUME Inv, NEW s, queue # <<>>, Retire(s), UNCHANGED timer
  PROVE  /\ TaskOK' /\ BotsOK' /\ TaskAtHead'
         /\ pc' = "idle"
         /\ Kinds(queue') \subseteq Kinds(queue)
         /\ driver'.at = "evicting" => driver.at = "evicting"
         /\ "bot" \in Kinds(queue) \/ driver' = driver
         /\ kick' => kick \/ Job.kind \in {"command", "auto"}
PROOF
  <1> USE DEF Inv, TypeOK, Retire, Pause
  <1>1. TaskOK' /\ TaskAtHead' /\ pc' = "idle"
    BY QueueFacts, StartingValues DEF TaskOK, PC, TaskAtHead
  <1>2. BotsOK' /\ (driver'.at = "evicting" => driver.at = "evicting")
    BY DriverLoopIsTyped DEF BotsOK
  <1> QED BY <1>1, <1>2, QueueFacts

-----------------------------------------------------------------------------
(* The steps of the queue. *)

LEMMA PrepareKeepsInv ==
  ASSUME Inv, NEW states, Prepare(states), pc = "idle", queue # <<>>,
         Job.kind # "drain", ~Over(session),
         \A t \in states : /\ t \in State /\ Len(t) = Len(session) + 1
                           /\ PrefixOf(session, t)
  PROVE  Inv'
PROOF
  <1> USE DEF Inv, TypeOK, Prepare, store, server, bots, clients, history, bounds
  <1>1. TypeOK'
    BY DEF StoreOK, ServerOK, TaskOK, BotsOK, ClientsOK, HistoryOK, PC
  <1>2. TaskAtHead' /\ EvictedIsGone' /\ BootIsQuiet'
    BY DEF TaskAtHead, EvictedIsGone, BootIsQuiet, Gone, Job
  <1>3. AwayIsIdle' /\ LoadingIsCurrent'
    BY DEF AwayIsIdle, LoadingIsCurrent, Quiet, Gone
  <1>4. WriteAhead' /\ SnapshotsAreStates' /\ ShownIsCommitted'
    BY DEF WriteAhead, SnapshotsAreStates, ShownIsCommitted
  <1>5. PreparedFollows' /\ FinishedIsOver'
    BY DEF PreparedFollows, FinishedIsOver, Appending, Finishing, Over
  <1> QED BY <1>1, <1>2, <1>3, <1>4, <1>5

LEMMA StartMoveKeepsInv ==
  ASSUME Inv, StartMove
  PROVE  Inv'
PROOF
  <1>1. queue # <<>> /\ pc = "idle" /\ Job.kind \in {"command", "bot", "auto"}
    BY DEF StartMove, Starts
  <1>2. Job.who \in Player /\ session \in State
    BY <1>1, QueueFacts DEF Inv, TypeOK, ServerOK, Task
  <1>3. ~Over(session)
    BY DEF StartMove, Movers, Actors, Over
  <1>4. Prepare(Outcomes(session, Job.who))
    BY DEF StartMove
  <1> QED BY <1>1, <1>2, <1>3, <1>4, PrepareKeepsInv, OutcomesAreOneRowFurther

LEMMA StartEndKeepsInv ==
  ASSUME Inv, StartEnd
  PROVE  Inv'
PROOF
  <1>1. queue # <<>> /\ pc = "idle" /\ Job.kind = "end" /\ ~Over(session)
    BY DEF StartEnd, Starts
  <1>2. Job.who \in Player /\ session \in State
    BY <1>1, QueueFacts DEF Inv, TypeOK, ServerOK, Task
  <1>3. Prepare({Append(session, [by |-> Job.who, next |-> {}])})
    BY DEF StartEnd
  <1>4. {} \in SUBSET Player
    OBVIOUS
  <1> QED BY <1>1, <1>2, <1>3, <1>4, PrepareKeepsInv, OneRowFurther

LEMMA DismissKeepsInv ==
  ASSUME Inv, Dismiss
  PROVE  Inv'
PROOF
  <1> USE DEF Inv, TypeOK, Dismiss, store, server, history, bounds
  <1>1. queue # <<>> /\ pc = "idle" /\ Job.kind # "drain"
    BY DEF DropReplay, RejectCommand, Stale, Starts
  <1>2. /\ TaskOK' /\ BotsOK' /\ TaskAtHead' /\ pc' = "idle"
        /\ Kinds(queue') \subseteq Kinds(queue)
        /\ driver'.at = "evicting" => driver.at = "evicting"
        /\ "bot" \in Kinds(queue) \/ driver' = driver
        /\ kick' => kick \/ Job.kind \in {"command", "auto"}
    BY <1>1, RetireFacts
  <1>3. ClientsOK'
    <2>1. Job \in Task
      BY <1>1, QueueFacts
    <2> QED BY <2>1 DEF ClientsOK, DropReplay, RejectCommand, Stale, Consume, Task
  <1>4. StoreOK' /\ ServerOK' /\ HistoryOK'
    BY DEF StoreOK, ServerOK, HistoryOK
  <1>5. EvictedIsGone'
    BY <1>2 DEF EvictedIsGone, Gone
  <1>6. BootIsQuiet'
    <2>1. Job.kind \in Kinds(queue)
      BY <1>1, QueueFacts
    <2> QED BY <1>2, <2>1 DEF BootIsQuiet, Gone
  <1>7. AwayIsIdle' /\ LoadingIsCurrent'
    BY <1>1, <1>2 DEF AwayIsIdle, LoadingIsCurrent, Quiet, Gone
  <1>8. WriteAhead' /\ SnapshotsAreStates' /\ ShownIsCommitted'
    BY DEF WriteAhead, SnapshotsAreStates, ShownIsCommitted
  <1>9. PreparedFollows' /\ FinishedIsOver'
    BY <1>1, <1>2 DEF PreparedFollows, FinishedIsOver, Appending, Finishing
  <1> QED BY <1>2, <1>3, <1>4, <1>5, <1>6, <1>7, <1>8, <1>9

LEMMA StallKeepsInv ==
  ASSUME Inv, Stall
  PROVE  Inv'
PROOF
  <1> USE DEF Inv, TypeOK, Stall, Pause, store, server, clients, history, bounds
  <1>1. queue # <<>> /\ pc = "idle" /\ Job.kind = "bot" /\ resident
    BY DEF Starts, Movers
  <1>2. /\ Kinds(queue') \subseteq Kinds(queue) /\ "bot" \in Kinds(queue)
        /\ queue' \in Seq(Task)
    BY <1>1, QueueFacts DEF TaskOK
  <1>3. /\ driver' \in [at : {"off", "stalled", "paced", "queued", "backoff", "evicting"},
                        pick : SUBSET Bot, tries : 0 .. BotRetries]
        /\ driver'.at = "stalled"
    BY ParameterAssumption DEF Stalled, Off
  <1>4. TaskOK' /\ TaskAtHead'
    BY <1>2, StartingValues DEF TaskOK, PC, TaskAtHead
  <1>5. StoreOK' /\ ServerOK' /\ ClientsOK' /\ HistoryOK' /\ BotsOK'
    BY <1>3 DEF StoreOK, ServerOK, ClientsOK, HistoryOK, BotsOK
  <1>6. EvictedIsGone' /\ BootIsQuiet'
    BY <1>2, <1>3 DEF EvictedIsGone, BootIsQuiet, Gone
  <1>7. AwayIsIdle' /\ LoadingIsCurrent'
    BY <1>1 DEF AwayIsIdle, LoadingIsCurrent
  <1>8. WriteAhead' /\ SnapshotsAreStates' /\ ShownIsCommitted'
    BY DEF WriteAhead, SnapshotsAreStates, ShownIsCommitted
  <1>9. PreparedFollows' /\ FinishedIsOver'
    BY <1>1 DEF PreparedFollows, FinishedIsOver, Appending, Finishing
  <1> QED BY <1>4, <1>5, <1>6, <1>7, <1>8, <1>9

LEMMA DrainKeepsInv ==
  ASSUME Inv, Drain
  PROVE  Inv'
PROOF
  <1> USE DEF Inv, TypeOK, Drain, Pause, store, history, bounds
  <1>1. queue # <<>> /\ pc = "idle" /\ Job.kind = "drain"
    BY DEF Starts
  <1>2. Gone
    BY <1>1, QueueFacts DEF EvictedIsGone
  <1>3. Kinds(queue') \subseteq Kinds(queue)
    BY <1>1, QueueFacts
  <1>4. TypeOK'
    <2>1. TaskOK'
      BY <1>1, QueueFacts, StartingValues DEF TaskOK, PC
    <2>2. BotsOK'
      BY StartingValues DEF BotsOK
    <2>3. StoreOK' /\ ServerOK' /\ ClientsOK' /\ HistoryOK'
      BY DEF StoreOK, ServerOK, ClientsOK, HistoryOK
    <2> QED BY <2>1, <2>2, <2>3
  <1>5. TaskAtHead' /\ EvictedIsGone' /\ AwayIsIdle'
    BY <1>2 DEF TaskAtHead, EvictedIsGone, AwayIsIdle, Gone
  <1>6. BootIsQuiet'
    BY <1>2, <1>3 DEF BootIsQuiet, Gone
  <1>7. LoadingIsCurrent'
    BY <1>1 DEF LoadingIsCurrent, Quiet
  <1>8. WriteAhead' /\ SnapshotsAreStates' /\ ShownIsCommitted'
    BY DEF WriteAhead, SnapshotsAreStates, ShownIsCommitted
  <1>9. PreparedFollows' /\ FinishedIsOver'
    BY <1>1 DEF PreparedFollows, FinishedIsOver, Appending, Finishing
  <1> QED BY <1>4, <1>5, <1>6, <1>7, <1>8, <1>9

-----------------------------------------------------------------------------
(* The steps of an append, of the commit and of the archive. *)

(* The match whose task is past the status check is in the registry. *)
LEMMA WritingIsResident ==
  ASSUME Inv, pc \notin {"idle", "gate"}
  PROVE  /\ resident /\ loading.at = "none"
         /\ queue # <<>> /\ Job.kind # "drain"
BY DEF Inv, AwayIsIdle, LoadingIsCurrent, TaskAtHead, Quiet

(* The row of the prepared action completes the log to the prepared state. *)
LEMMA RowCompletesTheLog ==
  ASSUME Inv, pc = "event", Len(prepared) \notin DOMAIN events
  PROVE  /\ events = session
         /\ Stored(events, Len(prepared), prepared[Len(prepared)]) = prepared
PROOF
  <1>1. events \in Seq(Row) /\ session \in Seq(Row) /\ prepared \in Seq(Row)
    BY DEF Inv, TypeOK, StoreOK, ServerOK, TaskOK, State
  <1>2. PrefixOf(session, events) /\ Len(events) <= Len(session) + 1
    BY WritingIsResident DEF Inv, WriteAhead
  <1>3. Len(prepared) = Len(session) + 1 /\ PrefixOf(session, prepared)
    BY DEF Inv, PreparedFollows, Appending
  <1>4. Len(events) = Len(session)
    BY <1>1, <1>2, <1>3 DEF PrefixOf
  <1>5. events = session
    BY <1>1, <1>2, <1>4, PrefixAntisymmetry
  <1>6. prepared[Len(prepared)] \in Row
    BY <1>1, <1>3
  <1>7. Stored(events, Len(events) + 1, prepared[Len(prepared)])
          = Append(events, prepared[Len(prepared)])
    BY <1>1, <1>6, StoredIsAppend
  <1>8. Append(session, prepared[Len(prepared)]) = prepared
    BY <1>1, <1>3, AppendLast
  <1> QED BY <1>3, <1>5, <1>7, <1>8

(* What an applied write changes. *)
LEMMA AppliedFacts ==
  ASSUME Inv, pc \notin {"idle", "gate", "commit", "answer"},
         ~Duplicate(pc), Applied(pc)
  PROVE  /\ StoreOK' /\ SnapshotsAreStates'
         /\ logged' \subseteq Player \X Nat /\ late' \in Nat
         /\ IF pc = "event" THEN events = session /\ events' = prepared
                            ELSE events' = events
         /\ IF pc = "complete" /\ status = "LIVE" THEN status' = "COMPLETED"
                                                  ELSE status' = status
         /\ archived' = (archived \/ pc = "archive")
PROOF
  <1> USE DEF Inv, TypeOK
  <1>1. IF pc = "event" THEN events = session /\ events' = prepared
                        ELSE events' = events
    BY RowCompletesTheLog DEF Applied, Duplicate
  <1>2. \A k \in DOMAIN snapshots : PrefixOf(snapshots[k], events')
    <2>1. CASE pc = "event"
      <3>1. PrefixOf(session, prepared)
        BY <2>1 DEF PreparedFollows, Appending
      <3>2. /\ prepared \in Seq(Row) /\ session \in Seq(Row)
            /\ \A k \in DOMAIN snapshots : snapshots[k] \in Seq(Row)
        BY DEF StoreOK, ServerOK, TaskOK, State
      <3> QED BY <1>1, <2>1, <3>1, <3>2, PrefixTransitivity
                 DEF SnapshotsAreStates
    <2>2. CASE pc # "event"
      BY <1>1, <2>2 DEF SnapshotsAreStates
    <2> QED BY <2>1, <2>2
  <1>3. /\ events' \in State
        /\ status' \in {"NONE", "LIVE", "COMPLETED", "TERMINATED"}
        /\ archived' \in BOOLEAN
    BY <1>1 DEF Applied, StoreOK, TaskOK
  <1>4. logged' \subseteq Player \X Nat /\ late' \in Nat
    <2>1. Frames(Job) \subseteq Player \X Nat
      BY WritingIsResident, QueueFacts DEF Frames, Task
    <2> QED BY <2>1 DEF Applied, HistoryOK
  <1>5. /\ IF pc = "complete" /\ status = "LIVE" THEN status' = "COMPLETED"
                                                 ELSE status' = status
        /\ archived' = (archived \/ pc = "archive")
    BY DEF Applied
  <1>6. CASE pc = "snapshot"
    <2>1. events' = prepared /\ Len(prepared) \in Nat /\ prepared \in State
      BY <1>1, <1>6 DEF PreparedFollows, Appending, TaskOK, State
    <2>2. snapshots' = Stored(snapshots, Len(prepared), prepared)
      BY <1>6 DEF Applied
    <2>3. SnapshotsAreStates'
      BY <1>2, <2>1, <2>2 DEF SnapshotsAreStates, Stored, PrefixOf, State
    <2>4. \A k \in DOMAIN snapshots' : k \in Nat /\ snapshots'[k] \in State
      BY <2>1, <2>2 DEF Stored, StoreOK
    <2> QED BY <1>1, <1>3, <1>4, <1>5, <2>3, <2>4 DEF StoreOK
  <1>7. CASE pc # "snapshot"
    <2>1. snapshots' = snapshots
      BY <1>7 DEF Applied
    <2>2. SnapshotsAreStates'
      BY <1>2, <2>1 DEF SnapshotsAreStates
    <2>3. \A k \in DOMAIN snapshots' : k \in Nat /\ snapshots'[k] \in State
      BY <2>1 DEF StoreOK
    <2> QED BY <1>1, <1>3, <1>4, <1>5, <2>2, <2>3 DEF StoreOK
  <1> QED BY <1>6, <1>7

LEMMA GateKeepsInv ==
  ASSUME Inv, Gate
  PROVE  Inv'
PROOF
  <1> USE DEF Inv, TypeOK, Gate, NextStep, store, server, bots, clients,
              history, bounds
  <1>1. TypeOK'
    BY DEF StoreOK, ServerOK, TaskOK, BotsOK, ClientsOK, HistoryOK, PC
  <1>2. TaskAtHead' /\ EvictedIsGone' /\ BootIsQuiet'
    BY DEF TaskAtHead, EvictedIsGone, BootIsQuiet, Gone, Job
  <1>3. AwayIsIdle' /\ LoadingIsCurrent'
    BY DEF AwayIsIdle, LoadingIsCurrent, Quiet, Gone, StillLive
  <1>4. WriteAhead' /\ SnapshotsAreStates' /\ ShownIsCommitted'
    BY DEF WriteAhead, SnapshotsAreStates, ShownIsCommitted
  <1>5. PreparedFollows' /\ FinishedIsOver'
    BY DEF PreparedFollows, FinishedIsOver, Appending, Finishing, Over, StillLive
  <1> QED BY <1>1, <1>2, <1>3, <1>4, <1>5

LEMMA AppendRowKeepsInv ==
  ASSUME Inv, AppendRow
  PROVE  Inv'
PROOF
  <1> USE DEF Inv, TypeOK, AppendRow, server, bots, clients, bounds
  <1>1. pc \in {"event", "snapshot", "seq"} /\ pc' \in {"snapshot", "seq", "commit"}
    BY DEF NextStep
  <1>2. /\ StoreOK' /\ SnapshotsAreStates'
        /\ logged' \subseteq Player \X Nat /\ late' \in Nat
        /\ IF pc = "event" THEN events = session /\ events' = prepared
                           ELSE events' = events
        /\ status' = status /\ archived' = archived
    BY <1>1, AppliedFacts DEF StoreOK
  <1>3. resident /\ loading.at = "none" /\ queue # <<>> /\ Job.kind # "drain"
    BY <1>1, WritingIsResident
  <1>4. /\ events' = prepared /\ prepared' = prepared /\ session' = session
        /\ ~Over(session) /\ Len(prepared) = Len(session) + 1
        /\ PrefixOf(session, prepared)
    BY <1>1, <1>2 DEF PreparedFollows, Appending
  <1>5. TypeOK'
    BY <1>1, <1>2 DEF ServerOK, TaskOK, BotsOK, ClientsOK, HistoryOK, PC
  <1>6. TaskAtHead' /\ EvictedIsGone' /\ BootIsQuiet'
    BY <1>2, <1>3 DEF TaskAtHead, EvictedIsGone, BootIsQuiet, Gone, Job
  <1>7. AwayIsIdle' /\ LoadingIsCurrent'
    BY <1>3 DEF AwayIsIdle, LoadingIsCurrent
  <1>8. WriteAhead'
    BY <1>4 DEF WriteAhead
  <1>9. ShownIsCommitted'
    BY <1>3, <1>4 DEF ShownIsCommitted, ServerOK, HistoryOK, State
  <1>10. PreparedFollows'
    BY <1>4 DEF PreparedFollows, Over, PrefixOf
  <1>11. FinishedIsOver'
    BY <1>1, <1>2, <1>3, <1>4 DEF FinishedIsOver, Finishing, Over
  <1> QED BY <1>2, <1>5, <1>6, <1>7, <1>8, <1>9, <1>10, <1>11

(* A write that found the game not LIVE was made for a game that is gone,
   when the task is a bot's. *)
LEMMA NotLiveIsGone ==
  ASSUME Inv, pc \in Appending, ~StillLive, Job.kind = "bot"
  PROVE  Gone
PROOF
  <1> USE DEF Inv
  <1>1. CASE status = "NONE"
    <2>1. Job.kind \in Kinds(queue)
      BY QueueFacts DEF TaskAtHead, Appending, TypeOK
    <2> QED BY <1>1, <2>1 DEF BootIsQuiet, Gone
  <1>2. status # "COMPLETED" \/ Gone
    BY DEF FinishedIsOver, PreparedFollows, AwayIsIdle, Quiet, Appending
  <1> QED BY <1>1, <1>2 DEF Gone, StillLive, TypeOK, StoreOK

(* What a failed append changes. *)
LEMMA FailFacts ==
  ASSUME Inv, NEW notLive, Fail(notLive), queue # <<>>, Job.kind # "drain",
         notLive /\ Job.kind = "bot" => Gone
  PROVE  /\ TaskOK' /\ BotsOK' /\ TaskAtHead' /\ pc' = "idle"
         /\ \/ Kinds(queue') \subseteq Kinds(queue)
            \/ Gone /\ Job.kind = "bot"
         /\ driver'.at = "evicting" => driver.at = "evicting" \/ Gone
         /\ "bot" \in Kinds(queue) \/ (driver' = driver /\ timer' = timer)
         /\ kick' => kick \/ Job.kind \in {"command", "auto"}
PROOF
  <1> USE DEF Inv, TypeOK
  <1>1. /\ Job \in Task /\ Job.kind \in Kinds(queue)
        /\ Tail(queue) \in Seq(Task) /\ Kinds(Tail(queue)) \subseteq Kinds(queue)
    BY QueueFacts
  <1>3. CASE Job.kind # "bot" /\ Retire(session) /\ UNCHANGED timer
    BY <1>3, RetireFacts
  <1>4. CASE /\ Job.kind = "bot" /\ ~notLive /\ MayRetry
             /\ driver' = [driver EXCEPT !.at = "backoff", !.tries = @ + 1]
             /\ Pause /\ queue' = Tail(queue)
             /\ UNCHANGED <<timer, kick>>
    <2>1. BotsOK'
      <3>1. driver.tries + 1 \in 0 .. BotRetries
        BY <1>4, ParameterAssumption DEF BotsOK, MayRetry
      <3> QED BY <1>4, <3>1 DEF BotsOK
    <2>2. TaskOK' /\ TaskAtHead' /\ pc' = "idle"
      BY <1>1, <1>4, StartingValues DEF TaskOK, Pause, PC, TaskAtHead
    <2> QED BY <1>1, <1>4, <2>1, <2>2 DEF BotsOK
  <1>5. CASE /\ Job.kind = "bot" /\ ~notLive /\ ~MayRetry
             /\ driver' = Off /\ Reschedule
             /\ Pause /\ queue' = Tail(queue)
             /\ UNCHANGED kick
    <2>1. BotsOK'
      BY <1>5, StartingValues DEF BotsOK, Reschedule
    <2>2. TaskOK' /\ TaskAtHead' /\ pc' = "idle"
      BY <1>1, <1>5, StartingValues DEF TaskOK, Pause, PC, TaskAtHead
    <2> QED BY <1>1, <1>5, <2>1, <2>2, StartingValues
  <1>6. CASE /\ Job.kind = "bot" /\ notLive
             /\ driver' = [driver EXCEPT !.at = "evicting"]
             /\ Pause /\ Enqueue(Tail(queue), "drain", Job.who, 1)
             /\ UNCHANGED <<timer, kick>>
    <2>1. BotsOK'
      BY <1>6 DEF BotsOK
    <2>2. [kind |-> "drain", who |-> Job.who, seq |-> 1] \in Task
      BY <1>1 DEF Task
    <2>3. TaskOK' /\ TaskAtHead' /\ pc' = "idle"
      BY <1>1, <1>6, <2>2, EndOfQueue, StartingValues
         DEF TaskOK, Pause, PC, TaskAtHead, Enqueue
    <2> QED BY <1>1, <1>6, <2>1, <2>3
  <1> QED BY <1>3, <1>4, <1>5, <1>6 DEF Fail

LEMMA AppendRefusedKeepsInv ==
  ASSUME Inv, AppendRefused
  PROVE  Inv'
PROOF
  <1> USE DEF Inv, TypeOK, AppendRefused, store, server, clients, bounds
  <1>1. pc \in Appending /\ queue # <<>> /\ Job.kind # "drain"
    BY DEF Appending, Duplicate, TaskAtHead
  <1>2. /\ TaskOK' /\ BotsOK' /\ TaskAtHead' /\ pc' = "idle"
        /\ Kinds(queue') \subseteq Kinds(queue) \/ (Gone /\ Job.kind = "bot")
        /\ driver'.at = "evicting" => driver.at = "evicting" \/ Gone
        /\ "bot" \in Kinds(queue) \/ (driver' = driver /\ timer' = timer)
        /\ kick' => kick \/ Job.kind \in {"command", "auto"}
    BY <1>1, NotLiveIsGone, FailFacts
  <1>3. Job.kind \in Kinds(queue)
    BY <1>1, QueueFacts
  <1>4. StoreOK' /\ ServerOK' /\ ClientsOK' /\ HistoryOK'
    BY <1>2 DEF StoreOK, ServerOK, ClientsOK, HistoryOK
  <1>5. EvictedIsGone'
    BY <1>2 DEF EvictedIsGone, Gone
  <1>6. BootIsQuiet'
    BY <1>2, <1>3 DEF BootIsQuiet, Gone
  <1>7. AwayIsIdle' /\ LoadingIsCurrent'
    BY <1>1, <1>2 DEF AwayIsIdle, LoadingIsCurrent, Quiet, Gone
  <1>8. WriteAhead' /\ SnapshotsAreStates' /\ ShownIsCommitted'
    BY DEF WriteAhead, SnapshotsAreStates, ShownIsCommitted
  <1>9. PreparedFollows' /\ FinishedIsOver'
    BY <1>2 DEF PreparedFollows, FinishedIsOver, Appending, Finishing
  <1> QED BY <1>2, <1>4, <1>5, <1>6, <1>7, <1>8, <1>9

(* What a task changes once its action is committed. *)
LEMMA SucceedFacts ==
  ASSUME Inv, NEW s, Succeed(s), queue # <<>>, UNCHANGED timer
  PROVE  /\ TaskOK' /\ BotsOK' /\ TaskAtHead' /\ pc' = "idle"
         /\ cursor' \in [Human -> Nat]
         /\ shown' \in {shown, Len(s)}
         /\ Kinds(queue') \subseteq Kinds(queue)
         /\ driver'.at = "evicting" => driver.at = "evicting"
         /\ "bot" \in Kinds(queue) \/ driver' = driver
         /\ kick' => kick \/ Job.kind \in {"command", "auto"}
PROOF
  <1> USE DEF Inv, TypeOK
  <1>1. cursor' \in [Human -> Nat]
    <2>1. Job.seq \in Nat
      BY QueueFacts DEF Task
    <2> QED BY <2>1 DEF Succeed, Consume, ClientsOK
  <1>2. shown' \in {shown, Len(s)}
    BY DEF Succeed, HistoryOK
  <1>3. CASE Job.kind = "auto"
    <2>1. TaskOK' /\ TaskAtHead' /\ pc' = "idle"
      BY <1>3, StartingValues DEF Succeed, Pause, TaskOK, PC, TaskAtHead
    <2> QED BY <1>1, <1>2, <1>3, <2>1 DEF Succeed, BotsOK
  <1>4. CASE Job.kind # "auto"
    BY <1>1, <1>2, <1>4, RetireFacts DEF Succeed
  <1> QED BY <1>3, <1>4

LEMMA CommitKeepsInv ==
  ASSUME Inv, Commit
  PROVE  Inv'
PROOF
  <1> USE DEF Inv, TypeOK, Commit, store, bounds
  <1>1. resident /\ loading.at = "none" /\ queue # <<>> /\ Job.kind # "drain"
    BY WritingIsResident
  <1>2. /\ events = prepared /\ session' = prepared /\ prepared \in State
        /\ Len(prepared) = Len(session) + 1 /\ Len(session) \in Nat
    BY DEF PreparedFollows, Appending, TaskOK, ServerOK, State
  <1>3. StoreOK' /\ ServerOK'
    BY <1>2 DEF StoreOK, ServerOK
  <1>4. SnapshotsAreStates'
    BY DEF SnapshotsAreStates
  <1>5. WriteAhead'
    BY <1>2 DEF WriteAhead, PrefixOf, State
  <1>6. CASE Over(prepared)
    <2> USE <1>6
    <2>1. TaskOK' /\ BotsOK' /\ ClientsOK' /\ HistoryOK' /\ TaskAtHead'
      BY <1>1 DEF TaskOK, PC, BotsOK, ClientsOK, HistoryOK, TaskAtHead, Job
    <2>2. EvictedIsGone' /\ BootIsQuiet' /\ AwayIsIdle' /\ LoadingIsCurrent'
      BY <1>1 DEF EvictedIsGone, BootIsQuiet, AwayIsIdle, LoadingIsCurrent, Gone
    <2>3. PreparedFollows' /\ FinishedIsOver'
      BY <1>2 DEF PreparedFollows, FinishedIsOver, Appending, Finishing, Over
    <2>4. ShownIsCommitted'
      BY <1>1, <1>2 DEF ShownIsCommitted, HistoryOK
    <2> QED BY <1>3, <1>4, <1>5, <2>1, <2>2, <2>3, <2>4
  <1>7. CASE ~Over(prepared)
    <2> USE <1>7
    <2>1. /\ TaskOK' /\ BotsOK' /\ TaskAtHead' /\ pc' = "idle"
          /\ cursor' \in [Human -> Nat]
          /\ shown' \in {shown, Len(prepared)}
          /\ Kinds(queue') \subseteq Kinds(queue)
          /\ driver'.at = "evicting" => driver.at = "evicting"
          /\ "bot" \in Kinds(queue) \/ driver' = driver
          /\ kick' => kick \/ Job.kind \in {"command", "auto"}
      BY <1>1, SucceedFacts
    <2>2. Job.kind \in Kinds(queue)
      BY <1>1, QueueFacts
    <2>3. ClientsOK' /\ HistoryOK'
      BY <1>2, <2>1 DEF ClientsOK, HistoryOK
    <2>4. EvictedIsGone' /\ BootIsQuiet'
      BY <2>1, <2>2 DEF EvictedIsGone, BootIsQuiet, Gone
    <2>5. AwayIsIdle' /\ LoadingIsCurrent'
      BY <1>1, <2>1 DEF AwayIsIdle, LoadingIsCurrent
    <2>6. PreparedFollows' /\ FinishedIsOver'
      BY <1>2, <2>1 DEF PreparedFollows, FinishedIsOver, Appending, Finishing, Over
    <2>7. ShownIsCommitted'
      BY <1>1, <1>2, <2>1 DEF ShownIsCommitted, HistoryOK
    <2> QED BY <1>3, <1>4, <1>5, <2>1, <2>3, <2>4, <2>5, <2>6, <2>7
  <1> QED BY <1>6, <1>7

LEMMA CompletionKeepsInv ==
  ASSUME Inv, Completion
  PROVE  Inv'
PROOF
  <1> USE DEF Inv, TypeOK, Completion, server, bots, clients, bounds
  <1>1. resident /\ loading.at = "none" /\ queue # <<>> /\ Job.kind # "drain"
    BY WritingIsResident
  <1>2. pc \in Finishing /\ pc' \in Finishing /\ ~Duplicate(pc)
    BY DEF Finishing, Duplicate
  <1>3. /\ StoreOK' /\ SnapshotsAreStates' /\ events' = events
        /\ logged' \subseteq Player \X Nat /\ late' \in Nat
        /\ IF pc = "complete" /\ status = "LIVE" THEN status' = "COMPLETED"
                                                 ELSE status' = status
        /\ archived' = (archived \/ pc = "archive")
    BY <1>2, AppliedFacts DEF Finishing
  <1>4. session = events /\ Over(session) /\ status # "NONE"
    BY <1>2 DEF FinishedIsOver, Finishing
  <1>5. TypeOK'
    BY <1>2, <1>3 DEF ServerOK, TaskOK, BotsOK, ClientsOK, HistoryOK, PC, Finishing
  <1>6. TaskAtHead' /\ EvictedIsGone' /\ BootIsQuiet'
    BY <1>1, <1>3, <1>4 DEF TaskAtHead, EvictedIsGone, BootIsQuiet, Gone, Job
  <1>7. AwayIsIdle' /\ LoadingIsCurrent'
    BY <1>1 DEF AwayIsIdle, LoadingIsCurrent
  <1>8. WriteAhead' /\ ShownIsCommitted'
    BY <1>3 DEF WriteAhead, ShownIsCommitted
  <1>9. PreparedFollows'
    BY <1>2 DEF PreparedFollows, Appending, Finishing
  <1>10. FinishedIsOver'
    BY <1>2, <1>3, <1>4 DEF FinishedIsOver, Finishing, Over, MayArchive, StoreOK
  <1> QED BY <1>3, <1>5, <1>6, <1>7, <1>8, <1>9, <1>10

LEMMA AnswerKeepsInv ==
  ASSUME Inv, Answer
  PROVE  Inv'
PROOF
  <1> USE DEF Inv, TypeOK, Answer, store, server, bounds
  <1>1. resident /\ loading.at = "none" /\ queue # <<>> /\ Job.kind # "drain"
    BY WritingIsResident
  <1>2. session = events /\ Len(session) \in Nat
    BY DEF FinishedIsOver, Finishing, ServerOK, State
  <1>3. /\ TaskOK' /\ BotsOK' /\ TaskAtHead' /\ pc' = "idle"
        /\ cursor' \in [Human -> Nat]
        /\ shown' \in {shown, Len(session)}
        /\ Kinds(queue') \subseteq Kinds(queue)
        /\ driver'.at = "evicting" => driver.at = "evicting"
        /\ "bot" \in Kinds(queue) \/ driver' = driver
        /\ kick' => kick \/ Job.kind \in {"command", "auto"}
    BY <1>1, SucceedFacts
  <1>4. Job.kind \in Kinds(queue)
    BY <1>1, QueueFacts
  <1>5. StoreOK' /\ ServerOK' /\ ClientsOK' /\ HistoryOK'
    BY <1>2, <1>3 DEF StoreOK, ServerOK, ClientsOK, HistoryOK
  <1>6. EvictedIsGone' /\ BootIsQuiet'
    BY <1>3, <1>4 DEF EvictedIsGone, BootIsQuiet, Gone
  <1>7. AwayIsIdle' /\ LoadingIsCurrent'
    BY <1>1, <1>3 DEF AwayIsIdle, LoadingIsCurrent
  <1>8. WriteAhead' /\ SnapshotsAreStates'
    BY DEF WriteAhead, SnapshotsAreStates
  <1>9. PreparedFollows' /\ FinishedIsOver'
    BY <1>3 DEF PreparedFollows, FinishedIsOver, Appending, Finishing
  <1>10. ShownIsCommitted'
    BY <1>2, <1>3 DEF ShownIsCommitted, HistoryOK
  <1> QED BY <1>3, <1>5, <1>6, <1>7, <1>8, <1>9, <1>10

(* What a failing call of the store changes: nothing, or all of the write. *)
LEMMA FaultFacts ==
  ASSUME Inv, StoreFails
  PROVE  /\ StoreOK' /\ SnapshotsAreStates'
         /\ logged' \subseteq Player \X Nat /\ late' \in Nat
         /\ events' = events \/ (pc = "event" /\ events = session /\ events' = prepared)
         /\ status' = status \/ (pc = "complete" /\ status = "LIVE"
                                                 /\ status' = "COMPLETED")
         /\ archived' => archived \/ pc = "archive"
PROOF
  <1> USE DEF Inv, TypeOK, StoreFails
  <1>1. CASE UNCHANGED <<store, logged, late>>
    BY <1>1 DEF store, StoreOK, SnapshotsAreStates, HistoryOK
  <1>2. CASE pc \in LostAcks /\ ~Duplicate(pc) /\ Applied(pc)
    <2>1. pc \notin {"idle", "gate", "commit", "answer"}
      BY <1>2, ParameterAssumption DEF Writes
    <2> QED BY <1>2, <2>1, AppliedFacts
  <1> QED BY <1>1, <1>2

LEMMA StoreFailsKeepsInv ==
  ASSUME Inv, StoreFails
  PROVE  Inv'
PROOF
  <1> USE DEF Inv, TypeOK, StoreFails, server, clients
  <1>1. /\ StoreOK' /\ SnapshotsAreStates'
        /\ logged' \subseteq Player \X Nat /\ late' \in Nat
        /\ events' = events \/ (pc = "event" /\ events = session /\ events' = prepared)
        /\ status' = status \/ (pc = "complete" /\ status = "LIVE"
                                                /\ status' = "COMPLETED")
        /\ archived' => archived \/ pc = "archive"
    BY FaultFacts
  <1>2. ServerOK' /\ ClientsOK' /\ crashes' \in Nat /\ faults' \in Nat /\ shown' \in Nat
    BY DEF ServerOK, ClientsOK, HistoryOK
  <1>3. pc # "idle" /\ queue # <<>> /\ Job.kind # "drain" /\ loading.at = "none"
    BY DEF Thrown, TaskAtHead, LoadingIsCurrent, Quiet
  <1>4. Gone => Gone'
    BY <1>1 DEF Gone
  <1>5. WriteAhead' /\ ShownIsCommitted'
    <2>1. CASE events' = events
      BY <2>1 DEF WriteAhead, ShownIsCommitted
    <2>2. CASE pc = "event" /\ events = session /\ events' = prepared
      BY <2>2 DEF WriteAhead, ShownIsCommitted, PreparedFollows, Appending,
                  ServerOK, HistoryOK, State
    <2> QED BY <1>1, <2>1, <2>2
  <1>6. CASE pc \in {"gate", "event", "snapshot", "seq"} /\ Fail(FALSE)
    <2>1. /\ TaskOK' /\ BotsOK' /\ TaskAtHead' /\ pc' = "idle"
          /\ Kinds(queue') \subseteq Kinds(queue) \/ (Gone /\ Job.kind = "bot")
          /\ driver'.at = "evicting" => driver.at = "evicting" \/ Gone
          /\ "bot" \in Kinds(queue) \/ (driver' = driver /\ timer' = timer)
          /\ kick' => kick \/ Job.kind \in {"command", "auto"}
      BY <1>3, <1>6, FailFacts
    <2>2. Job.kind \in Kinds(queue)
      BY <1>3, QueueFacts
    <2>3. HistoryOK'
      BY <1>1, <1>2, <2>1 DEF HistoryOK
    <2>4. EvictedIsGone' /\ BootIsQuiet'
      BY <1>1, <1>4, <1>6, <2>1, <2>2 DEF EvictedIsGone, BootIsQuiet
    <2>5. AwayIsIdle' /\ LoadingIsCurrent'
      BY <1>3, <1>4, <2>1 DEF AwayIsIdle, LoadingIsCurrent, Quiet
    <2>6. PreparedFollows' /\ FinishedIsOver'
      BY <1>1, <1>6, <2>1 DEF PreparedFollows, FinishedIsOver, Appending,
                              Finishing, Over
    <2> QED BY <1>1, <1>2, <1>5, <2>1, <2>3, <2>4, <2>5, <2>6
  <1>7. CASE /\ pc \in {"complete", "reread", "archive"}
             /\ pc' = "answer"
             /\ UNCHANGED <<queue, prepared, bots>>
    <2> USE <1>7 DEF bots
    <2>1. TaskOK' /\ BotsOK' /\ HistoryOK'
      BY <1>1, <1>2 DEF TaskOK, PC, BotsOK, HistoryOK
    <2>2. TaskAtHead' /\ EvictedIsGone' /\ BootIsQuiet'
      BY <1>1, <1>3, <1>4 DEF TaskAtHead, EvictedIsGone, BootIsQuiet, Job
    <2>3. AwayIsIdle' /\ LoadingIsCurrent'
      BY <1>3 DEF AwayIsIdle, LoadingIsCurrent, Quiet
    <2>4. PreparedFollows' /\ FinishedIsOver'
      BY <1>1 DEF PreparedFollows, FinishedIsOver, Appending, Finishing, Over
    <2> QED BY <1>1, <1>2, <1>5, <2>1, <2>2, <2>3, <2>4
  <1> QED BY <1>6, <1>7 DEF Thrown

-----------------------------------------------------------------------------
(* The bot driver. *)

LEMMA DriverStepKeepsInv ==
  ASSUME Inv, DriverStep
  PROVE  Inv'
PROOF
  <1> USE DEF Inv, TypeOK, store, server, clients, history, bounds
  <1>1. StoreOK' /\ ServerOK' /\ ClientsOK' /\ HistoryOK'
    BY DEF DriverStep, DriveBots, QueueBotMove, DriverTimer, StoreOK, ServerOK,
           ClientsOK, HistoryOK
  <1>2. WriteAhead' /\ SnapshotsAreStates' /\ ShownIsCommitted'
    BY DEF DriverStep, DriveBots, QueueBotMove, DriverTimer, WriteAhead,
           SnapshotsAreStates, ShownIsCommitted
  <1>3. PreparedFollows' /\ FinishedIsOver'
    BY DEF DriverStep, DriveBots, QueueBotMove, DriverTimer, task,
           PreparedFollows, FinishedIsOver, Appending, Finishing, Over
  <1>4. CASE DriveBots
    <2> USE <1>4 DEF DriveBots, task
    <2>1. BotsOK' /\ (driver' = driver \/ driver'.at # "evicting")
      BY DriverLoopIsTyped DEF BotsOK
    <2>2. TaskOK' /\ TaskAtHead' /\ EvictedIsGone' /\ BootIsQuiet'
      BY <2>1 DEF TaskOK, TaskAtHead, EvictedIsGone, BootIsQuiet, Gone, Job
    <2>3. AwayIsIdle' /\ LoadingIsCurrent'
      BY DEF AwayIsIdle, LoadingIsCurrent, Quiet, Gone
    <2> QED BY <1>1, <1>2, <1>3, <2>1, <2>2, <2>3
  <1>5. CASE QueueBotMove
    <2> USE <1>5 DEF QueueBotMove
    <2>1. PICK b \in driver.pick : Enqueue(queue, "bot", b, 0)
      OBVIOUS
    <2>2. [kind |-> "bot", who |-> b, seq |-> 0] \in Task
      BY TaskIsTyped DEF BotsOK, Player
    <2>3. /\ queue' \in Seq(Task) /\ queue' # <<>>
          /\ queue # <<>> => Head(queue') = Job
          /\ Kinds(queue') \subseteq Kinds(queue) \cup {"bot"}
      BY <2>1, <2>2, QueueFacts DEF Enqueue
    <2>4. TaskOK' /\ BotsOK'
      BY <2>3 DEF TaskOK, BotsOK
    <2>5. TaskAtHead' /\ EvictedIsGone' /\ BootIsQuiet'
      BY <2>3, StartingValues DEF TaskAtHead, EvictedIsGone, BootIsQuiet, Gone, Job, BotsOK
    <2>6. AwayIsIdle' /\ LoadingIsCurrent'
      BY StartingValues DEF AwayIsIdle, LoadingIsCurrent, Quiet, Gone
    <2> QED BY <1>1, <1>2, <1>3, <2>4, <2>5, <2>6
  <1>6. CASE DriverTimer
    <2> USE <1>6 DEF DriverTimer, task
    <2>1. TaskOK' /\ BotsOK' /\ TaskAtHead' /\ EvictedIsGone' /\ BootIsQuiet'
      BY DEF TaskOK, BotsOK, TaskAtHead, EvictedIsGone, BootIsQuiet, Gone, Job
    <2>2. AwayIsIdle' /\ LoadingIsCurrent'
      BY DEF AwayIsIdle, LoadingIsCurrent, Quiet, Gone
    <2> QED BY <1>1, <1>2, <1>3, <2>1, <2>2
  <1> QED BY <1>4, <1>5, <1>6 DEF DriverStep

-----------------------------------------------------------------------------
(* Creation, termination, crash and recovery. *)

LEMMA CreatedFacts ==
  ASSUME Inv, NEW step, Created(step), UNCHANGED <<events, archived>>
  PROVE  StoreOK' /\ SnapshotsAreStates'
PROOF
  <1>1. <<>> \in State /\ PrefixOf(<<>>, events)
    BY StartingValues DEF PrefixOf, Inv, TypeOK, StoreOK, State
  <1> QED BY <1>1 DEF Inv, TypeOK, StoreOK, SnapshotsAreStates, Created, Stored

LEMMA CreateKeepsInv ==
  ASSUME Inv, Create \/ CreateFails
  PROVE  Inv'
PROOF
  <1> USE DEF Inv, TypeOK, task, clients, history
  <1>1. boot \in {"doc", "genesis"}
    BY DEF Create, CreateFails
  <1>2. /\ events' = events /\ archived' = archived
        /\ resident' = resident /\ session' = session /\ loading' = loading
        /\ evicting' = evicting /\ UNCHANGED task /\ UNCHANGED clients
        /\ UNCHANGED history /\ driver' = driver /\ timer' = timer
        /\ crashes' = crashes /\ faults' \in Nat
    BY DEF Create, CreateFails, bots, HistoryOK, bounds
  <1>3. /\ boot' \in {"genesis", "done", "dead"}
        /\ boot' = "genesis" => boot = "doc" /\ kick' = kick
        /\ kick' = kick \/ (kick' = TRUE /\ boot = "genesis")
        /\ status' = status \/ (boot = "doc" /\ status' = "LIVE")
        /\ boot' # "dead" => boot = "genesis" \/ status' = "LIVE"
    BY <1>1 DEF Create, CreateFails, Created, bots, BotsOK
  <1>4. StoreOK' /\ SnapshotsAreStates'
    <2>1. CASE Created(boot)
      BY <1>2, <2>1, CreatedFacts
    <2>2. CASE UNCHANGED <<status, snapshots>>
      BY <1>2, <2>2 DEF StoreOK, SnapshotsAreStates
    <2> QED BY <2>1, <2>2 DEF Create, CreateFails
  <1>5. ServerOK' /\ TaskOK' /\ BotsOK' /\ ClientsOK' /\ HistoryOK'
    BY <1>2, <1>3 DEF ServerOK, TaskOK, BotsOK, ClientsOK, HistoryOK
  <1>6. Gone => Gone' /\ boot = "genesis"
    BY <1>1, <1>3 DEF Gone, BootIsQuiet
  <1>7. TaskAtHead' /\ EvictedIsGone'
    BY <1>2, <1>3, <1>6 DEF TaskAtHead, EvictedIsGone, Gone, Job, BootIsQuiet
  <1>8. resident \/ Gone
    BY <1>1 DEF BootIsQuiet
  <1>9. BootIsQuiet'
    BY <1>1, <1>2, <1>3, <1>6, <1>8 DEF BootIsQuiet, StoreOK
  <1>10. AwayIsIdle' /\ LoadingIsCurrent'
    BY <1>1, <1>2, <1>6, <1>8 DEF AwayIsIdle, LoadingIsCurrent, Quiet
  <1>11. WriteAhead' /\ ShownIsCommitted'
    BY <1>2 DEF WriteAhead, ShownIsCommitted
  <1>12. PreparedFollows' /\ FinishedIsOver'
    BY <1>1, <1>2, <1>3 DEF PreparedFollows, FinishedIsOver, Appending, Finishing,
                            Over, BootIsQuiet
  <1> QED BY <1>4, <1>5, <1>7, <1>9, <1>10, <1>11, <1>12

LEMMA TerminateKeepsInv ==
  ASSUME Inv, Terminate
  PROVE  Inv'
PROOF
  <1> USE DEF Inv, TypeOK, Terminate, task, bots, clients, history, bounds
  <1>1. TypeOK'
    BY DEF StoreOK, ServerOK, TaskOK, BotsOK, ClientsOK, HistoryOK
  <1>2. TaskAtHead' /\ EvictedIsGone' /\ BootIsQuiet'
    BY DEF TaskAtHead, EvictedIsGone, BootIsQuiet, Gone, Job
  <1>3. AwayIsIdle' /\ LoadingIsCurrent'
    BY DEF AwayIsIdle, LoadingIsCurrent, Quiet, Gone
  <1>4. WriteAhead' /\ SnapshotsAreStates' /\ ShownIsCommitted'
    BY DEF WriteAhead, SnapshotsAreStates, ShownIsCommitted
  <1>5. PreparedFollows' /\ FinishedIsOver'
    BY DEF PreparedFollows, FinishedIsOver, Appending, Finishing, Over
  <1> QED BY <1>1, <1>2, <1>3, <1>4, <1>5

LEMMA EvictKeepsInv ==
  ASSUME Inv, Evict
  PROVE  Inv'
PROOF
  <1> USE DEF Inv, TypeOK, Evict, store, bots, clients, history, bounds
  <1>1. Gone
    BY DEF EvictedIsGone, Gone
  <1>2. /\ queue' \in Seq(Task)
        /\ queue # <<>> => queue' # <<>> /\ Head(queue') = Job
        /\ Kinds(queue') \subseteq Kinds(queue) \cup {"drain"}
        /\ queue' = queue \/ resident
    <2>1. CASE resident
      <3>1. (CHOOSE p \in Human : TRUE) \in Player
        BY SeatsAssumption DEF Player
      <3>2. [kind |-> "drain", who |-> CHOOSE p \in Human : TRUE, seq |-> 0] \in Task
        BY <3>1 DEF Task
      <3> QED BY <2>1, <3>2, QueueFacts DEF Enqueue
    <2>2. CASE ~resident
      BY <2>2 DEF TaskOK, Job
    <2> QED BY <2>1, <2>2
  <1>3. TypeOK'
    <2>1. StoreOK' /\ BotsOK'
      BY DEF StoreOK, BotsOK
    <2>2. ServerOK'
      BY DEF ServerOK
    <2>3. ClientsOK' /\ HistoryOK'
      BY DEF ClientsOK, HistoryOK
    <2> QED BY <1>2, <2>1, <2>2, <2>3 DEF TaskOK
  <1>4. TaskAtHead' /\ EvictedIsGone' /\ BootIsQuiet'
    BY <1>1, <1>2 DEF TaskAtHead, EvictedIsGone, BootIsQuiet, Gone, Job
  <1>5. AwayIsIdle' /\ LoadingIsCurrent'
    BY <1>1, <1>2 DEF AwayIsIdle, LoadingIsCurrent, Quiet, Gone
  <1>6. WriteAhead' /\ SnapshotsAreStates' /\ ShownIsCommitted'
    BY DEF WriteAhead, SnapshotsAreStates, ShownIsCommitted
  <1>7. PreparedFollows' /\ FinishedIsOver'
    BY DEF PreparedFollows, FinishedIsOver, Appending, Finishing, Over
  <1> QED BY <1>3, <1>4, <1>5, <1>6, <1>7

LEMMA CrashKeepsInv ==
  ASSUME Inv, Crash
  PROVE  Inv'
PROOF
  <1> USE DEF Inv, TypeOK, Crash, Pause, store, history
  <1>1. TypeOK'
    <2>1. ServerOK'
      BY StartingValues DEF ServerOK
    <2>2. TaskOK' /\ BotsOK'
      BY StartingValues, EmptyQueue DEF TaskOK, PC, BotsOK
    <2>3. StoreOK' /\ ClientsOK' /\ HistoryOK'
      BY DEF StoreOK, ClientsOK, HistoryOK
    <2> QED BY <2>1, <2>2, <2>3
  <1>2. TaskAtHead' /\ EvictedIsGone' /\ BootIsQuiet'
    BY StartingValues, EmptyQueue DEF TaskAtHead, EvictedIsGone, BootIsQuiet
  <1>3. AwayIsIdle' /\ LoadingIsCurrent'
    BY StartingValues DEF AwayIsIdle, LoadingIsCurrent, Quiet
  <1>4. WriteAhead' /\ SnapshotsAreStates' /\ ShownIsCommitted'
    BY DEF WriteAhead, SnapshotsAreStates, ShownIsCommitted
  <1>5. PreparedFollows' /\ FinishedIsOver'
    BY DEF PreparedFollows, FinishedIsOver, Appending, Finishing, Over
  <1> QED BY <1>1, <1>2, <1>3, <1>4, <1>5

(* The recovered match has everything the log holds. *)
LEMMA RecoverFacts ==
  ASSUME Inv, Recover
  PROVE  /\ ~resident /\ events' = events
         /\ resident' => session' = events /\ Quiet
         /\ ~resident' => session' = session /\ kick' = kick
         /\ loading'.at # "none" => loading'.state = events /\ ~resident' /\ Quiet
                                    /\ boot \notin {"doc", "genesis"}
         /\ ServerOK' /\ kick' \in BOOLEAN
PROOF
  <1> USE DEF Inv, TypeOK, Recover, store
  <1>1. CASE /\ loading = Idle /\ status \notin {"NONE", "TERMINATED"}
             /\ loading' = [at |-> "loaded", state |-> Restored]
             /\ UNCHANGED <<resident, session, kick>>
    <2>1. ~Gone /\ Quiet /\ boot \notin {"doc", "genesis"}
      BY <1>1 DEF Gone, AwayIsIdle, BootIsQuiet
    <2>2. loading'.state = events /\ events \in State /\ events' = events
      BY <1>1, RestoredIsEvents DEF StoreOK
    <2>3. ServerOK' /\ kick' \in BOOLEAN
      BY <1>1, <2>2 DEF ServerOK, BotsOK
    <2> QED BY <1>1, <2>1, <2>2, <2>3
  <1>2. CASE /\ loading.at = "loaded"
             /\ loading' = IF status = "TERMINATED" THEN Idle
                           ELSE [loading EXCEPT !.at = "checked"]
             /\ UNCHANGED <<resident, session, kick>>
    BY <1>2, StartingValues DEF LoadingIsCurrent, Quiet, ServerOK, BotsOK
  <1>3. CASE /\ loading.at = "checked"
             /\ loading' = Idle
             /\ resident' = TRUE /\ session' = loading.state
             /\ kick' = TRUE
    BY <1>3, StartingValues DEF LoadingIsCurrent, ServerOK, StoreOK
  <1> QED BY <1>1, <1>2, <1>3

LEMMA RecoverKeepsInv ==
  ASSUME Inv, Recover
  PROVE  Inv'
PROOF
  <1> USE DEF Inv, TypeOK, store, task, clients, history, bounds
  <1>1. /\ ~resident /\ events' = events
        /\ resident' => session' = events /\ Quiet
        /\ ~resident' => session' = session /\ kick' = kick
        /\ loading'.at # "none" => loading'.state = events /\ ~resident' /\ Quiet
                                   /\ boot \notin {"doc", "genesis"}
        /\ ServerOK' /\ kick' \in BOOLEAN
    BY RecoverFacts
  <1>2. /\ UNCHANGED store /\ UNCHANGED task /\ UNCHANGED clients
        /\ UNCHANGED history /\ UNCHANGED bounds
        /\ boot' = boot /\ evicting' = evicting /\ driver' = driver /\ timer' = timer
    BY DEF Recover
  <1>3. StoreOK' /\ TaskOK' /\ BotsOK' /\ ClientsOK' /\ HistoryOK'
    BY <1>1, <1>2 DEF StoreOK, TaskOK, BotsOK, ClientsOK, HistoryOK
  <1>4. TaskAtHead' /\ EvictedIsGone'
    BY <1>2 DEF TaskAtHead, EvictedIsGone, Gone, Job
  <1>5. boot \in {"doc", "genesis"} => Gone /\ ~resident'
    BY <1>1 DEF BootIsQuiet, Recover, LoadingIsCurrent, Gone, Idle
  <1>6. BootIsQuiet'
    BY <1>1, <1>2, <1>5 DEF BootIsQuiet, Gone
  <1>7. AwayIsIdle' /\ LoadingIsCurrent'
    BY <1>1, <1>2 DEF AwayIsIdle, LoadingIsCurrent, Quiet, Gone
  <1>8. WriteAhead' /\ SnapshotsAreStates'
    BY <1>1, <1>2 DEF WriteAhead, SnapshotsAreStates, PrefixOf, StoreOK, State
  <1>9. PreparedFollows' /\ FinishedIsOver' /\ ShownIsCommitted'
    BY <1>1, <1>2 DEF PreparedFollows, FinishedIsOver, Appending, Finishing,
                      AwayIsIdle, Quiet, Over, ShownIsCommitted
  <1> QED BY <1>1, <1>3, <1>4, <1>6, <1>7, <1>8, <1>9

-----------------------------------------------------------------------------
(* The clients, the vote and the clock. *)

LEMMA HelloKeepsInv ==
  ASSUME Inv, ~EarlyBind, NEW p \in Human, Hello(p)
  PROVE  Inv'
PROOF
  <1> USE DEF Inv, TypeOK, Hello, store, server, task, bots, bounds
  <1>1. StoreOK' /\ ServerOK' /\ TaskOK' /\ BotsOK'
    BY DEF StoreOK, ServerOK, TaskOK, BotsOK
  <1>2. ClientsOK' /\ HistoryOK'
    BY DEF ClientsOK, HistoryOK, ServerOK, State
  <1>3. TaskAtHead' /\ EvictedIsGone' /\ BootIsQuiet'
    BY DEF TaskAtHead, EvictedIsGone, BootIsQuiet, Gone, Job
  <1>4. AwayIsIdle' /\ LoadingIsCurrent'
    BY DEF AwayIsIdle, LoadingIsCurrent, Quiet, Gone
  <1>5. WriteAhead' /\ SnapshotsAreStates'
    BY DEF WriteAhead, SnapshotsAreStates
  <1>6. ShownIsCommitted'
    BY DEF ShownIsCommitted, WriteAhead, PrefixOf, StoreOK, ServerOK, State
  <1>7. PreparedFollows' /\ FinishedIsOver'
    BY DEF PreparedFollows, FinishedIsOver, Appending, Finishing, Over
  <1> QED BY <1>1, <1>2, <1>3, <1>4, <1>5, <1>6, <1>7

(* A task queued for a match in the registry. *)
LEMMA EnqueueKeepsInv ==
  ASSUME Inv, resident,
         NEW k \in {"command", "auto", "end"}, NEW p \in Player, NEW n \in Nat,
         Enqueue(queue, k, p, n),
         k = "end" \/ boot \notin {"doc", "genesis"},
         frame' \in [Human -> Nat],
         UNCHANGED <<store, server, pc, prepared, bots, bound, cursor, history, bounds>>
  PROVE  Inv'
PROOF
  <1> USE DEF Inv, TypeOK, store, server, bots, history, bounds
  <1>1. [kind |-> k, who |-> p, seq |-> n] \in Task
    BY TaskIsTyped
  <1>2. /\ queue' \in Seq(Task) /\ queue' # <<>>
        /\ queue # <<>> => Head(queue') = Job
        /\ Kinds(queue') \subseteq Kinds(queue) \cup {k}
    BY <1>1, QueueFacts DEF Enqueue
  <1>3. TypeOK'
    <2>1. StoreOK' /\ ServerOK' /\ BotsOK' /\ ClientsOK' /\ HistoryOK'
      BY DEF StoreOK, ServerOK, BotsOK, ClientsOK, HistoryOK
    <2> QED BY <1>2, <2>1 DEF TaskOK
  <1>4. TaskAtHead' /\ EvictedIsGone' /\ BootIsQuiet'
    BY <1>2 DEF TaskAtHead, EvictedIsGone, BootIsQuiet, Gone, Job
  <1>5. AwayIsIdle' /\ LoadingIsCurrent'
    BY DEF AwayIsIdle, LoadingIsCurrent
  <1>6. WriteAhead' /\ SnapshotsAreStates' /\ ShownIsCommitted'
    BY DEF WriteAhead, SnapshotsAreStates, ShownIsCommitted
  <1>7. PreparedFollows' /\ FinishedIsOver'
    BY DEF PreparedFollows, FinishedIsOver, Appending, Finishing, Over
  <1> QED BY <1>3, <1>4, <1>5, <1>6, <1>7

LEMMA SendKeepsInv ==
  ASSUME Inv, NEW p \in Human, Send(p)
  PROVE  Inv'
PROOF
  <1>1. PICK k \in {frame[p], frame[p] + 1} \cap (1 .. MaxFrames) :
          /\ frame' = [frame EXCEPT ![p] = k]
          /\ Enqueue(queue, "command", p, k)
    BY DEF Send
  <1>2. k \in Nat /\ p \in Player
    BY ParameterAssumption DEF Player
  <1>3. frame' \in [Human -> Nat]
    BY <1>1, <1>2 DEF Inv, TypeOK, ClientsOK
  <1>4. boot \notin {"doc", "genesis"}
    BY DEF Send, Inv, BootIsQuiet
  <1> QED BY <1>1, <1>2, <1>3, <1>4, EnqueueKeepsInv DEF Send

LEMMA InterruptKeepsInv ==
  ASSUME Inv, NEW p \in Human, Interrupt(p)
  PROVE  Inv'
PROOF
  <1>1. p \in Player /\ 0 \in Nat /\ frame' \in [Human -> Nat]
    BY DEF Player, Interrupt, clients, Inv, TypeOK, ClientsOK
  <1>2. CASE Enqueue(queue, "end", p, 0)
    BY <1>1, <1>2, EnqueueKeepsInv DEF Interrupt, clients
  <1>3. CASE bound # {} /\ Enqueue(queue, "auto", p, 0)
    <2>1. boot \notin {"doc", "genesis"}
      BY <1>3 DEF Inv, BootIsQuiet
    <2> QED BY <1>1, <1>3, <2>1, EnqueueKeepsInv DEF Interrupt, clients
  <1> QED BY <1>2, <1>3 DEF Interrupt

-----------------------------------------------------------------------------
(* The inductive invariant and what follows from it. *)

LEMMA InitInv ==
  ASSUME Init
  PROVE  Inv
PROOF
  <1> USE DEF Init
  <1>1. TypeOK
    <2>1. StoreOK
      <3>1. DOMAIN snapshots = {}
        OBVIOUS
      <3>2. events \in State
        BY StartingValues
      <3> QED BY <3>1, <3>2 DEF StoreOK
    <2>4. ServerOK
      BY StartingValues DEF ServerOK
    <2>2. TaskOK /\ BotsOK
      BY StartingValues, EmptyQueue DEF TaskOK, PC, BotsOK
    <2>3. ClientsOK /\ HistoryOK
      BY DEF ClientsOK, HistoryOK
    <2> QED BY <2>1, <2>2, <2>3, <2>4 DEF TypeOK
  <1>2. TaskAtHead /\ EvictedIsGone /\ BootIsQuiet
    BY StartingValues, EmptyQueue DEF TaskAtHead, EvictedIsGone, BootIsQuiet
  <1>3. AwayIsIdle /\ LoadingIsCurrent
    BY StartingValues DEF AwayIsIdle, LoadingIsCurrent
  <1>4. WriteAhead /\ SnapshotsAreStates /\ ShownIsCommitted
    BY DEF WriteAhead, SnapshotsAreStates, ShownIsCommitted, PrefixOf
  <1>5. PreparedFollows /\ FinishedIsOver
    BY DEF PreparedFollows, FinishedIsOver, Appending, Finishing
  <1> QED BY <1>1, <1>2, <1>3, <1>4, <1>5 DEF Inv

LEMMA StutterKeepsInv ==
  ASSUME Inv, UNCHANGED vars
  PROVE  Inv'
PROOF
  <1> USE DEF Inv, TypeOK, vars, store, server, task, bots, clients, history, bounds
  <1>1. TypeOK'
    BY DEF StoreOK, ServerOK, TaskOK, BotsOK, ClientsOK, HistoryOK
  <1>2. TaskAtHead' /\ EvictedIsGone' /\ BootIsQuiet'
    BY DEF TaskAtHead, EvictedIsGone, BootIsQuiet, Gone, Job
  <1>3. AwayIsIdle' /\ LoadingIsCurrent'
    BY DEF AwayIsIdle, LoadingIsCurrent, Quiet, Gone
  <1>4. WriteAhead' /\ SnapshotsAreStates' /\ ShownIsCommitted'
    BY DEF WriteAhead, SnapshotsAreStates, ShownIsCommitted
  <1>5. PreparedFollows' /\ FinishedIsOver'
    BY DEF PreparedFollows, FinishedIsOver, Appending, Finishing, Over
  <1> QED BY <1>1, <1>2, <1>3, <1>4, <1>5

LEMMA NextKeepsInv ==
  ASSUME Inv, ~EarlyBind, [Next]_vars
  PROVE  Inv'
PROOF
  <1>1. CASE QueueStep
    BY <1>1, StartMoveKeepsInv, StartEndKeepsInv, DismissKeepsInv,
       StallKeepsInv, DrainKeepsInv,
       GateKeepsInv, AppendRowKeepsInv, AppendRefusedKeepsInv, CommitKeepsInv,
       CompletionKeepsInv, AnswerKeepsInv DEF QueueStep
  <1>2. CASE DriverStep
    BY <1>2, DriverStepKeepsInv
  <1>3. CASE Create \/ Evict \/ Recover
    BY <1>3, CreateKeepsInv, EvictKeepsInv, RecoverKeepsInv
  <1>4. CASE Environment
    BY <1>4, StoreFailsKeepsInv, CreateKeepsInv, CrashKeepsInv, TerminateKeepsInv,
       HelloKeepsInv, SendKeepsInv, InterruptKeepsInv DEF Environment
  <1>5. CASE UNCHANGED vars
    BY <1>5, StutterKeepsInv
  <1> QED BY <1>1, <1>2, <1>3, <1>4, <1>5 DEF Next

(* Inv is inductive: between the status check of an append and its commit nothing
   else writes the match (appendAction, applyPrepared, recoverMatchOnce). *)
THEOREM InvHolds ==
  ASSUME ~EarlyBind
  PROVE  Spec => []Inv
PROOF
  <1>1. Init => Inv
    BY InitInv
  <1>2. Inv /\ [Next]_vars => Inv'
    BY NextKeepsInv
  <1> QED BY <1>1, <1>2, PTL DEF Spec

(* Every variable always has its type. *)
THEOREM TypeCorrect ==
  ASSUME ~EarlyBind
  PROVE  Spec => []TypeOK
PROOF
  <1>1. Inv => TypeOK
    BY DEF Inv
  <1> QED BY <1>1, InvHolds, PTL

(* applyPrepared: the durable log holds what is committed, and at most the one
   action in flight more. *)
THEOREM WriteAheadHolds ==
  ASSUME ~EarlyBind
  PROVE  Spec => []WriteAhead
PROOF
  <1>1. Inv => WriteAhead
    BY DEF Inv
  <1> QED BY <1>1, InvHolds, PTL

(* appendAction: every stored checkpoint is the state its seq stands for. *)
THEOREM SnapshotsHold ==
  ASSUME ~EarlyBind
  PROVE  Spec => []SnapshotsAreStates
PROOF
  <1>1. Inv => SnapshotsAreStates
    BY DEF Inv
  <1> QED BY <1>1, InvHolds, PTL

(* recordCompletion: only a finished game that nobody terminated is archived. *)
THEOREM ArchiveHolds ==
  ASSUME ~EarlyBind
  PROVE  Spec => []ArchivedOnlyIfCompleted
PROOF
  <1>1. Inv => ArchivedOnlyIfCompleted
    BY DEF Inv, FinishedIsOver, ArchivedOnlyIfCompleted
  <1> QED BY <1>1, InvHolds, PTL

(* recoverMatch: a match comes back with every action that was ever appended,
   from whatever checkpoint the recovery starts. *)
THEOREM RecoveryHolds ==
  ASSUME ~EarlyBind
  PROVE  Spec => RecoveryLosesNothing
PROOF
  <1>1. ASSUME Inv, [Next]_vars
        PROVE  [~resident /\ resident' => session' = events']_vars
    <2> SUFFICES ASSUME ~resident, resident', Next PROVE session' = events'
      BY <1>1
    <2>1. resident' # resident
      OBVIOUS
    <2>2. Recover
      BY <2>1 DEF Next, QueueStep, DriverStep, Environment, StartMove, StartEnd,
         Prepare, Dismiss, Stall, Drain, Gate, AppendRow, AppendRefused, Commit,
         Completion, Answer, DriveBots, QueueBotMove, DriverTimer, Create, Evict,
         StoreFails, CreateFails, Crash, Terminate, Hello, Send, Interrupt, server
    <2> QED BY <1>1, <2>2, RecoverFacts
  <1> QED BY <1>1, InvHolds, PTL DEF Spec, RecoveryLosesNothing

-----------------------------------------------------------------------------
(* The match implements its journal. *)

LEMMA JournalInit ==
  ASSUME Init
  PROVE  J!Init
BY DEF Init, J!Init

(* A step that leaves the log, the life cycle and the archive alone, and shows
   the players no less of the log than they have seen. *)
LEMMA ShowStep ==
  ASSUME shown' \in shown .. Len(events), UNCHANGED <<events, status, archived>>
  PROVE  J!Next
BY DEF J!Next, J!Show

(* The row added to the log is an action the journal accepts. *)
LEMMA AcceptStep ==
  ASSUME Inv, pc = "event", events = session, events' = prepared,
         UNCHANGED <<status, archived, shown>>
  PROVE  J!Next
PROOF
  <1>1. /\ ~Over(events) /\ prepared \in Seq(Row) /\ events \in Seq(Row)
        /\ Len(prepared) = Len(events) + 1 /\ PrefixOf(events, prepared)
    BY DEF Inv, TypeOK, TaskOK, StoreOK, State, PreparedFollows, Appending
  <1>2. prepared[Len(prepared)] \in Row
    BY <1>1
  <1>3. prepared = Append(events, prepared[Len(prepared)])
    BY <1>1, AppendLast
  <1>4. ~J!Over(events) /\ J!Row = Row
    BY <1>1 DEF Over, J!Over, Row, J!Row
  <1> QED BY <1>2, <1>3, <1>4 DEF J!Next, J!Accept

(* A write that is applied, whether the match hears of it or not. *)
LEMMA AppliedStep ==
  ASSUME Inv, pc \notin {"idle", "gate", "commit", "answer"},
         ~Duplicate(pc), Applied(pc), shown' = shown
  PROVE  [J!Next]_J!jvars
PROOF
  <1> USE DEF J!jvars
  <1>1. /\ IF pc = "event" THEN events = session /\ events' = prepared
                           ELSE events' = events
        /\ IF pc = "complete" /\ status = "LIVE" THEN status' = "COMPLETED"
                                                 ELSE status' = status
        /\ archived' = (archived \/ pc = "archive") /\ archived \in BOOLEAN
    BY AppliedFacts DEF Inv, TypeOK, StoreOK
  <1>2. CASE pc = "event"
    BY <1>1, <1>2, AcceptStep
  <1>3. CASE pc \in {"complete", "archive"}
    <2>1. session = events /\ Over(session)
      BY <1>3 DEF Inv, FinishedIsOver, Finishing
    <2>2. pc = "archive" => status = "COMPLETED"
      BY DEF Inv, FinishedIsOver
    <2>3. J!Over(events)
      BY <2>1 DEF Over, J!Over
    <2> QED BY <1>1, <1>3, <2>2, <2>3 DEF J!Next, J!Complete, J!Archive
  <1>4. CASE pc \notin {"event", "complete", "archive"}
    BY <1>1, <1>4
  <1> QED BY <1>2, <1>3, <1>4

(* Every step of the match is a step of the journal or none. *)
LEMMA JournalStep ==
  ASSUME Inv, Inv', [Next]_vars
  PROVE  [J!Next]_J!jvars
PROOF
  <1> USE DEF J!jvars
  <1>1. shown \in Nat /\ Len(session) \in Nat /\ Len(events) \in Nat
    BY DEF Inv, TypeOK, HistoryOK, ServerOK, StoreOK, State
  <1>2. shown <= Len(events) /\ (resident => shown <= Len(session))
    BY DEF Inv, ShownIsCommitted
  <1>3. CASE AppendRow
    BY <1>3, AppliedStep DEF AppendRow
  <1>4. CASE Commit
    <2>1. resident /\ events = prepared /\ Len(prepared) = Len(session) + 1
      BY <1>4, WritingIsResident DEF Commit, Inv, PreparedFollows, Appending
    <2>2. shown' \in {shown, Len(prepared)}
      BY <1>4 DEF Commit, Succeed
    <2>3. UNCHANGED <<events, status, archived>>
      BY <1>4 DEF Commit, store
    <2> QED BY <1>1, <1>2, <2>1, <2>2, <2>3, ShowStep
  <1>5. CASE Completion
    BY <1>5, AppliedStep DEF Completion, Duplicate
  <1>6. CASE Answer
    <2>1. resident /\ session = events
      BY <1>6, WritingIsResident DEF Answer, Inv, FinishedIsOver, Finishing
    <2>2. shown' \in {shown, Len(session)} /\ UNCHANGED <<events, status, archived>>
      BY <1>6 DEF Answer, Succeed, store
    <2> QED BY <1>1, <1>2, <2>1, <2>2, ShowStep
  <1>7. CASE StoreFails
    <2>1. CASE UNCHANGED <<store, logged, late>>
      BY <1>7, <2>1 DEF StoreFails, store
    <2>2. CASE pc \in LostAcks /\ ~Duplicate(pc) /\ Applied(pc)
      BY <1>7, <2>2, AppliedStep, ParameterAssumption DEF StoreFails, Writes
    <2> QED BY <1>7, <2>1, <2>2 DEF StoreFails
  <1>8. CASE Create \/ CreateFails
    BY <1>8 DEF Create, CreateFails, Created, history, J!Next, J!Create, Inv, BootIsQuiet
  <1>9. CASE Terminate
    BY <1>9 DEF Terminate, history, J!Next, J!Terminate
  <1>10. CASE \E p \in Human : Hello(p)
    <2>1. /\ shown' = Len(session) /\ resident
          /\ UNCHANGED <<events, status, archived>>
      BY <1>10 DEF Hello, store
    <2>2. Len(session) <= Len(events)
      BY <2>1 DEF Inv, WriteAhead, PrefixOf
    <2> QED BY <1>1, <1>2, <2>1, <2>2, ShowStep
  <1>11. CASE UNCHANGED <<events, shown, status, archived>>
    BY <1>11
  <1>12. CASE Next
    <2>1. \/ AppendRow \/ Commit \/ Completion \/ Answer \/ StoreFails
          \/ Create \/ CreateFails \/ Terminate \/ \E p \in Human : Hello(p)
          \/ UNCHANGED <<events, shown, status, archived>>
      BY <1>12 DEF Next, QueueStep, DriverStep, Environment, StartMove, StartEnd,
         Prepare, Dismiss, Stall, Drain, Gate, AppendRefused, DriveBots, QueueBotMove,
         DriverTimer, Evict, Recover, Crash, Send, Interrupt, store, history
    <2> QED BY <1>3, <1>4, <1>5, <1>6, <1>7, <1>8, <1>9, <1>10, <1>11, <2>1
  <1> QED BY <1>11, <1>12 DEF vars, store, history

(* The whole of createMatch, applyPrepared, recordCompletion, termination and
   recovery implements Journal: a journal that only grows, and that the
   players are never shown less of. *)
THEOREM MatchImplementsJournal ==
  ASSUME ~EarlyBind
  PROVE  Spec => JournalSpec
PROOF
  <1>1. Init => J!Init
    BY JournalInit
  <1>2. Inv /\ Inv' /\ [Next]_vars => [J!Next]_J!jvars
    BY JournalStep
  <1> QED BY <1>1, <1>2, InvHolds, PTL DEF Spec, JournalSpec, J!JournalSpec

-----------------------------------------------------------------------------
(* What a match delivers, on top of that invariant: no frame is applied twice,
   no bot is left waiting with nothing under way to prompt it, and a terminated
   game gains one event row at the most. *)


(* The frames a queue still holds. *)
Commands(q) == UNION {Frames(q[i]) : i \in DOMAIN q}

(* An append past the status check was made for a game that was LIVE then:
   until its row is written, none came after the termination. *)
RowsInTime ==
  /\ AtMostOneLateRow
  /\ status # "TERMINATED" \/ pc = "event" => late = 0

(* A bot on the move is looked after by the driver, or by something that calls
   it when it is done: a vote to end the game is the one task that is not. *)
BotIsPrompted ==
  (boot = "done" /\ resident /\ Bot \cap Actors(session) # {}) =>
    \/ driver # Off \/ timer \/ kick
    \/ Kinds(queue) \cap {"command", "auto", "drain"} # {}

(* Every frame in the queue of a match in the registry was sent by somebody who
   is still bound to it. *)
FramesAreBound ==
  /\ ~resident => bound = {}
  /\ resident => \A c \in Commands(queue) : c[1] \in bound /\ c[2] <= frame[c[1]]

(* The frame in execution was not processed before. *)
FrameIsNew ==
  (resident /\ pc # "idle") => \A c \in Frames(Job) : c[2] > cursor[c[1]]

(* The task of the vote prepares the end of the game and nothing else. *)
EndingEnds == (pc \in Appending /\ Job.kind = "end") => Over(prepared)

(* The row of a frame is in the log and not committed: the answer was lost, or
   the append is not over. *)
RowInFlight(c) ==
  /\ Len(events) > Len(session)
  /\ pc \in {"snapshot", "seq", "commit"} => c \in Frames(Job)

(* No replay of a frame with a row gets as far as a second row: it is not
   above the cursor, its sender has to say hello first, or the row still
   stands in the way of the next. *)
Settled(c) ==
  \/ ~resident \/ c[1] \notin bound
  \/ c[2] <= cursor[c[1]]
  \/ RowInFlight(c)
  \/ pc \in Finishing /\ c \in Frames(Job)

LoggedAreSettled ==
  \A c \in logged : c[1] \in Human /\ c[2] <= frame[c[1]] /\ Settled(c)

Delivery ==
  /\ RowsInTime /\ BotIsPrompted /\ EndingEnds
  /\ FramesAreBound /\ FrameIsNew /\ LoggedAreSettled

-----------------------------------------------------------------------------
(* The frames in a queue, and the task at its head. *)

LEMMA CommandsOfQueue ==
  ASSUME NEW q \in Seq(Task)
  PROVE  /\ q # <<>> =>
              /\ Frames(Head(q)) \subseteq Commands(q)
              /\ Commands(Tail(q)) \subseteq Commands(q)
              /\ Kinds(q) \subseteq Kinds(Tail(q)) \cup {Head(q).kind}
         /\ \A t \in Task : Commands(Append(q, t)) \subseteq Commands(q) \cup Frames(t)
         /\ \A t \in Task : Kinds(Append(q, t)) = Kinds(q) \cup {t.kind}
PROOF
  <1>1. ASSUME q # <<>>
        PROVE  /\ Frames(Head(q)) \subseteq Commands(q)
               /\ Commands(Tail(q)) \subseteq Commands(q)
               /\ Kinds(q) \subseteq Kinds(Tail(q)) \cup {Head(q).kind}
    <2>1. Head(q) = q[1] /\ 1 \in DOMAIN q
      BY <1>1
    <2>2. \A i \in DOMAIN Tail(q) : i + 1 \in DOMAIN q /\ Tail(q)[i] = q[i + 1]
      BY <1>1, HeadTailProperties
    <2>3. \A i \in DOMAIN q : i # 1 => i - 1 \in DOMAIN Tail(q) /\ Tail(q)[i - 1] = q[i]
      BY <1>1, HeadTailProperties
    <2>4. Commands(Tail(q)) \subseteq Commands(q)
      BY <2>2 DEF Commands
    <2>5. Kinds(q) \subseteq Kinds(Tail(q)) \cup {Head(q).kind}
      BY <2>1, <2>3 DEF Kinds
    <2> QED BY <2>1, <2>4, <2>5 DEF Commands
  <1>2. ASSUME NEW t \in Task
        PROVE  /\ Commands(Append(q, t)) \subseteq Commands(q) \cup Frames(t)
               /\ Kinds(Append(q, t)) = Kinds(q) \cup {t.kind}
    <2>1. /\ DOMAIN Append(q, t) = DOMAIN q \cup {Len(q) + 1}
          /\ Append(q, t)[Len(q) + 1] = t
          /\ \A i \in DOMAIN q : Append(q, t)[i] = q[i]
      OBVIOUS
    <2>2. Kinds(Append(q, t)) = Kinds(q) \cup {t.kind}
      BY <2>1 DEF Kinds
    <2> QED BY <2>1, <2>2 DEF Commands
  <1> QED BY <1>1, <1>2

LEMMA NoCommands == Commands(<<>>) = {}
BY DEF Commands

(* A task in execution stays at the head until it is done with. *)
LEMMA HeadStays ==
  ASSUME Inv, [Next]_vars, pc' # "idle"
  PROVE  /\ Job' = Job /\ queue # <<>>
         /\ pc # "idle" \/ StartMove \/ StartEnd
PROOF
  <1> USE DEF Inv, TypeOK
  <1>1. CASE StartMove \/ StartEnd
    BY <1>1 DEF StartMove, StartEnd, Starts, Prepare, Job
  <1>2. CASE Gate \/ AppendRow \/ Completion
    BY <1>2 DEF Gate, AppendRow, Completion, TaskAtHead, Job
  <1>3. CASE AppendRefused \/ StoreFails
    <2>1. CASE pc \in {"complete", "reread", "archive"} /\ UNCHANGED queue
      BY <2>1 DEF TaskAtHead, Job
    <2>2. CASE \E notLive \in BOOLEAN : Fail(notLive)
      BY <2>2 DEF Fail, Retire, Pause
    <2> QED BY <1>3, <2>1, <2>2 DEF AppendRefused, StoreFails, Thrown
  <1>4. CASE Commit \/ Answer
    BY <1>4 DEF Commit, Answer, Succeed, Retire, Pause, TaskAtHead, Job
  <1>5. CASE Dismiss \/ Stall \/ Drain \/ Crash
    BY <1>5 DEF Dismiss, Stall, Retire, Drain, Crash, Pause
  <1>6. CASE QueueBotMove
    <2>1. PICK b \in driver.pick : Enqueue(queue, "bot", b, 0)
      BY <1>6 DEF QueueBotMove
    <2>2. [kind |-> "bot", who |-> b, seq |-> 0] \in Task
      BY TaskIsTyped DEF BotsOK, Player
    <2> QED BY <1>6, <2>1, <2>2, QueueFacts DEF QueueBotMove, Enqueue, TaskAtHead, Job
  <1>7. CASE Evict
    <2>1. (CHOOSE p \in Human : TRUE) \in Player
      BY SeatsAssumption DEF Player
    <2>2. [kind |-> "drain", who |-> CHOOSE p \in Human : TRUE, seq |-> 0] \in Task
      BY <2>1 DEF Task
    <2> QED BY <1>7, <2>2, QueueFacts DEF Evict, Enqueue, TaskAtHead, Job
  <1>8. ASSUME NEW p \in Human, Send(p)
        PROVE  Job' = Job /\ queue # <<>> /\ pc # "idle"
    <2>1. PICK k \in Nat : Enqueue(queue, "command", p, k)
      BY <1>8, ParameterAssumption DEF Send
    <2>2. [kind |-> "command", who |-> p, seq |-> k] \in Task
      BY TaskIsTyped DEF Player
    <2> QED BY <1>8, <2>1, <2>2, QueueFacts DEF Send, Enqueue, TaskAtHead, Job
  <1>9. ASSUME NEW p \in Human, Interrupt(p)
        PROVE  Job' = Job /\ queue # <<>> /\ pc # "idle"
    <2>1. PICK k \in {"end", "auto"} : Enqueue(queue, k, p, 0)
      BY <1>9 DEF Interrupt
    <2>2. [kind |-> k, who |-> p, seq |-> 0] \in Task
      BY TaskIsTyped DEF Player
    <2> QED BY <1>9, <2>1, <2>2, QueueFacts DEF Interrupt, Enqueue, TaskAtHead, Job
  <1>10. CASE DriveBots \/ DriverTimer \/ Create \/ CreateFails \/ Recover \/ Terminate
              \/ (\E p \in Human : Hello(p)) \/ UNCHANGED vars
    BY <1>10 DEF DriveBots, DriverTimer, Create, CreateFails, Recover, Terminate,
       Hello, vars, task, TaskAtHead, Job
  <1> QED BY <1>1, <1>2, <1>3, <1>4, <1>5, <1>6, <1>7, <1>8, <1>9, <1>10
          DEF Next, QueueStep, DriverStep, Environment

-----------------------------------------------------------------------------
(* A terminated game. *)

LEMMA RowsStayInTime ==
  ASSUME Inv, RowsInTime, [Next]_vars
  PROVE  RowsInTime'
PROOF
  <1> USE DEF RowsInTime, AtMostOneLateRow
  <1>1. late \in Nat /\ status \in {"NONE", "LIVE", "COMPLETED", "TERMINATED"}
    BY DEF Inv, TypeOK, HistoryOK, StoreOK
  <1>2. CASE AppendRow \/ Completion
    BY <1>1, <1>2 DEF AppendRow, Completion, Applied, NextStep
  <1>3. CASE StoreFails
    <2>1. CASE UNCHANGED <<store, logged, late>>
      <3>1. pc' # "event"
        BY <1>3 DEF StoreFails, Thrown, Fail, Retire, Pause
      <3> QED BY <1>1, <2>1, <3>1 DEF store
    <2>2. CASE pc \in LostAcks /\ ~Duplicate(pc) /\ Applied(pc)
      <3>1. pc' # "event"
        BY <1>3 DEF StoreFails, Thrown, Fail, Retire, Pause
      <3> QED BY <1>1, <2>2, <3>1 DEF Applied
    <2> QED BY <1>3, <2>1, <2>2 DEF StoreFails
  <1>4. CASE Gate
    BY <1>4 DEF Gate, StillLive, NextStep, store, history
  <1>5. CASE Create \/ CreateFails
    BY <1>1, <1>5 DEF Create, CreateFails, Created, history, task, Inv, BootIsQuiet
  <1>6. CASE Terminate
    BY <1>1, <1>6 DEF Terminate, history, task
  <1>7. CASE /\ UNCHANGED <<late, status>>
             /\ pc' = "event" => pc = "event"
    BY <1>1, <1>7
  <1>8. CASE Next
    <2>1. \/ AppendRow \/ Completion \/ StoreFails \/ Gate \/ Create \/ CreateFails
          \/ Terminate
          \/ UNCHANGED <<late, status>> /\ (pc' = "event" => pc = "event")
      BY <1>8 DEF Next, QueueStep, DriverStep, Environment, StartMove, StartEnd,
         Prepare, Dismiss, Stall, Retire, Pause, Drain, AppendRefused, Fail, Commit, Succeed,
         Answer, DriveBots, QueueBotMove, DriverTimer, Evict, Recover, Crash,
         Hello, Send, Interrupt, store, history, task
    <2> QED BY <1>2, <1>3, <1>4, <1>5, <1>6, <1>7, <2>1
  <1> QED BY <1>7, <1>8 DEF vars, store, history, task

-----------------------------------------------------------------------------
(* The bots of a live match. *)

LEMMA EndingStaysTheEnd ==
  ASSUME Inv, EndingEnds, [Next]_vars
  PROVE  EndingEnds'
PROOF
  <1> USE DEF EndingEnds
  <1>1. SUFFICES ASSUME pc' \in Appending, Job'.kind = "end"
                 PROVE  Over(prepared)'
    OBVIOUS
  <1>2. Job' = Job /\ queue # <<>> /\ (pc # "idle" \/ StartMove \/ StartEnd)
    BY <1>1, HeadStays DEF Appending
  <1>3. CASE StartMove
    BY <1>1, <1>2, <1>3 DEF StartMove, Starts
  <1>4. CASE StartEnd
    <2>1. prepared' = Append(session, [by |-> Job.who, next |-> {}]) /\ session \in State
      BY <1>4 DEF StartEnd, Prepare, Inv, TypeOK, ServerOK
    <2>2. /\ Len(prepared') = Len(session) + 1
          /\ prepared'[Len(session) + 1] = [by |-> Job.who, next |-> {}]
          /\ prepared' # <<>>
      BY <2>1 DEF State
    <2> QED BY <2>2 DEF Over
  <1>5. CASE pc # "idle" /\ ~StartMove /\ ~StartEnd
    <2>1. prepared' = prepared /\ pc \in Appending
      BY <1>1, <1>5 DEF Next, vars, QueueStep, DriverStep, Environment, Dismiss, Stall,
         DropReplay, RejectCommand, Stale, Starts, Drain, Gate, AppendRow,
         AppendRefused, Fail, Retire, Pause, Commit, Succeed, Completion, Answer,
         DriveBots, QueueBotMove, DriverTimer, Evict, Recover, Crash, Create,
         CreateFails, StoreFails, Thrown, Terminate, Hello, Send, Interrupt, task,
         Appending
    <2> QED BY <1>1, <1>2, <2>1 DEF Over
  <1> QED BY <1>2, <1>3, <1>4, <1>5

(* The driver's loop, called when a bot is on the move, picks one. *)
LEMMA LoopPicksABot ==
  ASSUME NEW s, DriverLoop(s), resident, Bot \cap Actors(s) # {}
  PROVE  driver' # Off
BY DEF DriverLoop, Movers, Off

(* A task that is done with calls the driver, is the driver's own, or ends the
   game. *)
LEMMA RetirePrompts ==
  ASSUME Inv, BotIsPrompted, NEW s, queue # <<>>, Retire(s), UNCHANGED timer,
         boot' = boot, resident' = resident, s = session',
         Job.kind # "drain",
         session' = session \/ Job.kind # "end" \/ Over(session')
  PROVE  BotIsPrompted'
PROOF
  <1> SUFFICES ASSUME boot = "done", resident, Bot \cap Actors(s) # {}
               PROVE  \/ driver' # Off \/ timer' \/ kick'
                      \/ Kinds(queue') \cap {"command", "auto", "drain"} # {}
    BY DEF BotIsPrompted, Actors
  <1>1. Job \in Task /\ queue' = Tail(queue) /\ queue \in Seq(Task)
    BY QueueFacts DEF Inv, TypeOK, TaskOK, Retire
  <1>2. CASE Job.kind \in {"command", "auto"}
    BY <1>2 DEF Retire
  <1>3. CASE Job.kind = "bot"
    BY <1>3, LoopPicksABot DEF Retire
  <1>4. CASE Job.kind = "end"
    <2>1. session' = session
      BY <1>4 DEF Actors, Over
    <2>2. Kinds(queue) \subseteq Kinds(queue') \cup {"end"}
      BY <1>1, <1>4, CommandsOfQueue DEF Job
    <2>3. driver' = driver /\ kick' = kick
      BY <1>4 DEF Retire, Inv, TypeOK, BotsOK
    <2> QED BY <2>1, <2>2, <2>3 DEF BotIsPrompted
  <1> QED BY <1>1, <1>2, <1>3, <1>4 DEF Task

(* So does a failed one: the driver waits for its next try, a timer for the
   driver, or the match is on its way out of the registry. *)
LEMMA FailPrompts ==
  ASSUME Inv, BotIsPrompted, NEW notLive, queue # <<>>, Fail(notLive),
         Job.kind # "drain", UNCHANGED <<boot, resident, session>>
  PROVE  BotIsPrompted'
PROOF
  <1>1. CASE Job.kind # "bot" /\ Retire(session) /\ UNCHANGED timer
    BY <1>1, RetirePrompts
  <1>2. CASE \/ driver' = [driver EXCEPT !.at = "backoff", !.tries = @ + 1]
             \/ driver' = [driver EXCEPT !.at = "evicting"]
    <2>1. driver'.at # "off"
      BY <1>2 DEF Inv, TypeOK, BotsOK
    <2> QED BY <2>1 DEF BotIsPrompted, Off
  <1>3. CASE Reschedule
    BY <1>3 DEF Reschedule, BotIsPrompted
  <1> QED BY <1>1, <1>2, <1>3 DEF Fail

(* Whatever is added to the queue behind them, the tasks in it stay. *)
LEMMA QueueOnlyGrows ==
  ASSUME Inv, BotIsPrompted, NEW k \in {"command", "bot", "auto", "end", "drain"},
         NEW p \in Player, NEW n \in Nat, Enqueue(queue, k, p, n),
         UNCHANGED <<boot, resident, session, driver, timer, kick>>
  PROVE  BotIsPrompted'
PROOF
  <1>1. [kind |-> k, who |-> p, seq |-> n] \in Task
    BY TaskIsTyped
  <1>2. Kinds(queue) \subseteq Kinds(queue')
    BY <1>1, CommandsOfQueue DEF Enqueue, Inv, TypeOK, TaskOK
  <1> QED BY <1>2 DEF BotIsPrompted, Actors

LEMMA BotsStayPrompted ==
  ASSUME Inv, BotIsPrompted, EndingEnds, [Next]_vars
  PROVE  BotIsPrompted'
PROOF
  <1> USE DEF Inv, TypeOK
  <1>1. CASE UNCHANGED <<boot, resident, session, queue, bots>>
    BY <1>1 DEF BotIsPrompted, Actors, bots
  <1>2. CASE Dismiss
    <2>1. queue # <<>> /\ Job.kind # "drain" /\ UNCHANGED <<boot, resident, session, timer>>
      BY <1>2 DEF Dismiss, DropReplay, RejectCommand, Stale, Starts, server
    <2> QED BY <1>2, <2>1, RetirePrompts DEF Dismiss
  <1>3. CASE Drain \/ Crash \/ Stall
    BY <1>3 DEF Drain, Crash, Stall, Stalled, Off, BotIsPrompted
  <1>4. CASE AppendRefused \/ StoreFails
    <2>1. pc # "idle" /\ queue # <<>> /\ Job.kind # "drain"
      BY <1>4 DEF AppendRefused, StoreFails, Thrown, Duplicate, TaskAtHead
    <2>2. UNCHANGED <<boot, resident, session>>
      BY <1>4 DEF AppendRefused, StoreFails, server
    <2>3. (\E notLive \in BOOLEAN : Fail(notLive)) \/ UNCHANGED <<queue, bots>>
      BY <1>4 DEF AppendRefused, StoreFails, Thrown
    <2> QED BY <1>1, <2>1, <2>2, <2>3, FailPrompts
  <1>5. CASE Commit
    <2>1. resident /\ queue # <<>> /\ Job.kind # "drain"
      BY <1>5, WritingIsResident DEF Commit
    <2>2. session' = prepared /\ UNCHANGED <<boot, resident, timer>>
      BY <1>5 DEF Commit
    <2>3. Job.kind = "end" => Over(prepared)
      BY <1>5 DEF Commit, EndingEnds, Appending
    <2>4. CASE Over(prepared)
      BY <2>2, <2>4 DEF Over, Actors, BotIsPrompted
    <2>5. CASE ~Over(prepared) /\ Job.kind = "auto"
      <3>1. "auto" \in Kinds(queue) /\ queue' = queue
        BY <1>5, <2>1, <2>5, QueueFacts DEF Commit, Succeed
      <3> QED BY <3>1 DEF BotIsPrompted
    <2>6. CASE ~Over(prepared) /\ Job.kind # "auto"
      <3>1. Retire(prepared)
        BY <1>5, <2>6 DEF Commit, Succeed
      <3>2. session' = session \/ Job.kind # "end" \/ Over(session')
        BY <2>3, <2>6
      <3> QED BY <2>1, <2>2, <3>1, <3>2, RetirePrompts
    <2> QED BY <2>4, <2>5, <2>6
  <1>6. CASE Answer
    <2>1. Over(session) /\ UNCHANGED <<session, boot, resident>>
      BY <1>6 DEF Answer, FinishedIsOver, Finishing, server
    <2> QED BY <2>1 DEF Over, Actors, BotIsPrompted
  <1>7. CASE DriveBots
    <2>1. driver \in {Off, Stalled}
            => (resident /\ Bot \cap Actors(session) # {} => driver' # Off)
      BY <1>7, LoopPicksABot DEF DriveBots
    <2>2. driver \notin {Off, Stalled} => driver' = driver
      BY <1>7 DEF DriveBots
    <2> QED BY <1>7, <2>1, <2>2 DEF DriveBots, BotIsPrompted, server, Actors
  <1>8. CASE QueueBotMove
    <2>1. driver'.at # "off"
      BY <1>8 DEF QueueBotMove, BotsOK
    <2> QED BY <2>1 DEF BotIsPrompted, Off
  <1>9. CASE DriverTimer
    BY <1>9 DEF DriverTimer, BotIsPrompted
  <1>10. CASE Create \/ CreateFails
    <2>1. boot' # "done" \/ kick'
      BY <1>10 DEF Create, CreateFails
    <2> QED BY <2>1 DEF BotIsPrompted
  <1>11. CASE Evict
    <2>1. (CHOOSE p \in Human : TRUE) \in Player
      BY SeatsAssumption DEF Player
    <2>2. UNCHANGED <<boot, resident, session, driver, timer, kick>>
      BY <1>11 DEF Evict, bots
    <2>3. CASE Enqueue(queue, "drain", CHOOSE p \in Human : TRUE, 0)
      BY <2>1, <2>2, <2>3, QueueOnlyGrows
    <2> QED BY <1>1, <1>11, <2>2, <2>3 DEF Evict, bots
  <1>12. CASE Recover
    <2>1. resident' => kick'
      BY <1>12 DEF Recover
    <2> QED BY <2>1 DEF BotIsPrompted
  <1>13. ASSUME NEW p \in Human, Send(p) \/ Interrupt(p)
         PROVE  BotIsPrompted'
    <2>1. PICK k \in {"command", "auto", "end"}, n \in Nat : Enqueue(queue, k, p, n)
      BY <1>13, ParameterAssumption DEF Send, Interrupt
    <2>2. UNCHANGED <<boot, resident, session, driver, timer, kick>>
      BY <1>13 DEF Send, Interrupt, server, bots
    <2> QED BY <2>1, <2>2, QueueOnlyGrows DEF Player
  <1>14. CASE Next
    <2>1. \/ UNCHANGED <<boot, resident, session, queue, bots>>
          \/ Dismiss \/ Stall \/ Drain \/ Crash \/ AppendRefused \/ StoreFails \/ Commit \/ Answer
          \/ DriveBots \/ QueueBotMove \/ DriverTimer \/ Create \/ CreateFails
          \/ Evict \/ Recover \/ \E p \in Human : Send(p) \/ Interrupt(p)
      BY <1>14 DEF Next, QueueStep, DriverStep, Environment, StartMove, StartEnd,
         Prepare, Gate, AppendRow, Completion, Terminate, Hello, server, task
    <2> QED BY <1>1, <1>2, <1>3, <1>4, <1>5, <1>6, <1>7, <1>8, <1>9, <1>10, <1>11,
               <1>12, <1>13, <2>1
  <1> QED BY <1>1, <1>14 DEF vars, server, task

-----------------------------------------------------------------------------
(* The frames of the clients. *)

LEMMA FramesAreTyped ==
  ASSUME NEW t \in Task
  PROVE  /\ Frames(t) = IF t.kind = "command" THEN {<<t.who, t.seq>>} ELSE {}
         /\ \A c \in Frames(t) : c = <<t.who, t.seq>> /\ c[1] = t.who /\ c[2] = t.seq
BY DEF Frames

(* A failed append adds no frame to the queue. *)
LEMMA FailAddsNoFrame ==
  ASSUME Inv, NEW notLive, queue # <<>>, Fail(notLive)
  PROVE  Commands(queue') \subseteq Commands(queue)
PROOF
  <1>1. queue \in Seq(Task) /\ Tail(queue) \in Seq(Task) /\ Job \in Task
    BY QueueFacts DEF Inv, TypeOK, TaskOK
  <1>2. Commands(Tail(queue)) \subseteq Commands(queue)
    BY <1>1, CommandsOfQueue
  <1>3. CASE queue' = Tail(queue)
    BY <1>2, <1>3
  <1>4. CASE Enqueue(Tail(queue), "drain", Job.who, 1)
    <2>1. [kind |-> "drain", who |-> Job.who, seq |-> 1] \in Task
      BY <1>1 DEF Task
    <2>2. Frames([kind |-> "drain", who |-> Job.who, seq |-> 1]) = {}
      BY DEF Frames
    <2>3. Commands(Append(Tail(queue), [kind |-> "drain", who |-> Job.who, seq |-> 1]))
            \subseteq Commands(Tail(queue))
      BY <1>1, <2>1, <2>2, CommandsOfQueue
    <2> QED BY <1>2, <1>4, <2>3 DEF Enqueue
  <1> QED BY <1>3, <1>4 DEF Fail, Retire

(* Only a client adds frames. *)
LEMMA OnlySendsAddFrames ==
  ASSUME Inv, [Next]_vars, \A p \in Human : ~Send(p)
  PROVE  Commands(queue') \subseteq Commands(queue) /\ frame' = frame
PROOF
  <1> USE DEF Inv, TypeOK
  <1>1. frame' = frame
    BY DEF Next, vars, QueueStep, DriverStep, Environment, StartMove, StartEnd,
         Prepare, Dismiss, Stall, Drain, Gate, AppendRow, AppendRefused, Commit, Completion,
         Answer, DriveBots, QueueBotMove, DriverTimer, Evict, Recover, Crash, Create,
         CreateFails, StoreFails, Terminate, Hello, Interrupt, clients
  <1>2. CASE queue' = queue
    BY <1>1, <1>2
  <1>3. CASE queue # <<>> /\ queue' = Tail(queue)
    BY <1>1, <1>3, CommandsOfQueue DEF TaskOK
  <1>4. CASE queue' = <<>>
    BY <1>1, <1>4, NoCommands
  <1>5. CASE queue # <<>> /\ \E notLive \in BOOLEAN : Fail(notLive)
    BY <1>1, <1>5, FailAddsNoFrame
  <1>6. ASSUME NEW k \in {"bot", "auto", "end", "drain"}, NEW p \in Player,
               Enqueue(queue, k, p, 0)
        PROVE  Commands(queue') \subseteq Commands(queue)
    <2>1. [kind |-> k, who |-> p, seq |-> 0] \in Task
      BY TaskIsTyped
    <2>2. Frames([kind |-> k, who |-> p, seq |-> 0]) = {}
      BY DEF Frames
    <2> QED BY <1>6, <2>1, <2>2, CommandsOfQueue DEF Enqueue, TaskOK
  <1>7. CASE QueueBotMove
    <2>1. PICK b \in driver.pick : Enqueue(queue, "bot", b, 0)
      BY <1>7 DEF QueueBotMove
    <2> QED BY <1>1, <1>6, <2>1 DEF BotsOK, Player
  <1>8. CASE Evict
    <2>1. (CHOOSE p \in Human : TRUE) \in Player
      BY SeatsAssumption DEF Player
    <2> QED BY <1>1, <1>2, <1>6, <1>8, <2>1 DEF Evict
  <1>9. CASE \E p \in Human : Interrupt(p)
    BY <1>1, <1>6, <1>9 DEF Interrupt, Player
  <1>10. CASE Next
    <2>1. \/ queue' = queue
          \/ queue # <<>> /\ queue' = Tail(queue)
          \/ queue' = <<>>
          \/ queue # <<>> /\ \E notLive \in BOOLEAN : Fail(notLive)
          \/ QueueBotMove \/ Evict \/ \E p \in Human : Interrupt(p)
      BY <1>10 DEF Next, QueueStep, DriverStep, Environment, StartMove, StartEnd,
         Prepare, Dismiss, Stall, DropReplay, RejectCommand, Stale, Starts, Retire, Drain,
         Gate, AppendRow, AppendRefused, Commit, Completion, Answer, Succeed,
         DriveBots, DriverTimer, Recover, Crash, Create, CreateFails, StoreFails,
         Thrown, Terminate, Hello, task, TaskAtHead, Duplicate
    <2> QED BY <1>2, <1>3, <1>4, <1>5, <1>7, <1>8, <1>9, <2>1
  <1> QED BY <1>2, <1>10 DEF vars, task

(* Who is bound to a match stays so while it is in the registry, and nobody is
   bound to it when it comes back. *)
LEMMA BoundWhileResident ==
  ASSUME Inv, [Next]_vars
  PROVE  /\ resident /\ resident' => bound \subseteq bound'
         /\ resident /\ ~resident' => bound' = {}
         /\ ~resident /\ resident' => bound' = bound /\ queue' = <<>> /\ pc' = "idle"
         /\ ~resident /\ ~resident' => bound' = bound \/ bound' = {}
PROOF
  <1> USE DEF Inv, TypeOK
  <1>1. CASE Recover
    BY <1>1, RecoverFacts DEF Recover, clients, task, Quiet
  <1>2. CASE UNCHANGED resident /\ UNCHANGED bound
    BY <1>2
  <1>3. CASE resident /\ UNCHANGED resident /\ bound \subseteq bound'
    BY <1>3
  <1>4. CASE ~resident' /\ bound' = {}
    BY <1>4
  <1>5. CASE Next
    <2>1. \/ Recover \/ (UNCHANGED resident /\ UNCHANGED bound)
          \/ resident /\ UNCHANGED resident /\ bound \subseteq bound'
          \/ ~resident' /\ bound' = {}
      BY <1>5 DEF Next, QueueStep, DriverStep, Environment, StartMove, StartEnd,
         Prepare, Dismiss, Stall, Drain, Gate, AppendRow, AppendRefused, Commit, Completion,
         Answer, DriveBots, QueueBotMove, DriverTimer, Evict, Crash, Create,
         CreateFails, StoreFails, Terminate, Hello, Send, Interrupt, server, clients
    <2> QED BY <1>1, <1>2, <1>3, <1>4, <2>1
  <1> QED BY <1>2, <1>5 DEF vars, server, clients

LEMMA FramesStayBound ==
  ASSUME Inv, FramesAreBound, [Next]_vars
  PROVE  FramesAreBound'
PROOF
  <1>1. /\ resident /\ resident' => bound \subseteq bound'
        /\ resident /\ ~resident' => bound' = {}
        /\ ~resident /\ resident' => bound' = bound /\ queue' = <<>> /\ pc' = "idle"
        /\ ~resident /\ ~resident' => bound' = bound \/ bound' = {}
        /\ resident \in BOOLEAN
    BY BoundWhileResident DEF Inv, TypeOK, ServerOK
  <1>2. CASE \A p \in Human : ~Send(p)
    <2>1. Commands(queue') \subseteq Commands(queue) /\ frame' = frame
      BY <1>2, OnlySendsAddFrames
    <2> QED BY <1>1, <2>1, NoCommands DEF FramesAreBound
  <1>3. ASSUME NEW p \in Human, Send(p)
        PROVE  FramesAreBound'
    <2>1. PICK k \in {frame[p], frame[p] + 1} \cap (1 .. MaxFrames) :
            /\ frame' = [frame EXCEPT ![p] = k]
            /\ Enqueue(queue, "command", p, k)
      BY <1>3 DEF Send
    <2>2. k \in Nat /\ frame \in [Human -> Nat] /\ bound \subseteq Human
      BY ParameterAssumption DEF Inv, TypeOK, ClientsOK
    <2>3. [kind |-> "command", who |-> p, seq |-> k] \in Task
      BY <2>2, TaskIsTyped DEF Player
    <2>4. Commands(queue') \subseteq Commands(queue) \cup {<<p, k>>}
      BY <2>1, <2>3, CommandsOfQueue, FramesAreTyped DEF Enqueue, Inv, TypeOK, TaskOK
    <2>5. resident /\ resident' /\ p \in bound /\ bound' = bound
      BY <1>3 DEF Send, server
    <2>6. k = frame'[p] /\ \A q \in Human : frame[q] <= frame'[q]
      BY <2>1, <2>2
    <2>7. ASSUME NEW c \in Commands(queue')
          PROVE  c[1] \in bound' /\ c[2] <= frame'[c[1]]
      <3>1. CASE c = <<p, k>>
        BY <2>2, <2>5, <2>6, <3>1
      <3>2. CASE c \in Commands(queue)
        <4>1. c[1] \in bound /\ c[2] <= frame[c[1]]
          BY <2>5, <3>2 DEF FramesAreBound
        <4>2. c[1] # p => frame'[c[1]] = frame[c[1]]
          BY <2>1, <2>2, <4>1
        <4>3. c[1] = p => k = frame[p] \/ k = frame[p] + 1
          BY <2>1
        <4>4. c[2] \in Nat
          <5>1. PICK i \in DOMAIN queue : c \in Frames(queue[i])
            BY <3>2 DEF Commands
          <5>2. queue[i] \in Task
            BY DEF Inv, TypeOK, TaskOK
          <5> QED BY <5>1, <5>2, FramesAreTyped DEF Task
        <4> QED BY <2>2, <2>5, <2>6, <4>1, <4>2, <4>3, <4>4
      <3> QED BY <2>4, <3>1, <3>2
    <2> QED BY <2>5, <2>7 DEF FramesAreBound
  <1> QED BY <1>2, <1>3

(* The cursor of somebody bound to the match moves only when a frame of theirs
   is done with, and then to that frame. *)
LEMMA CursorFollows ==
  ASSUME Inv, [Next]_vars
  PROVE  \A p \in Human :
           \/ cursor'[p] = cursor[p]
           \/ p \notin bound /\ cursor'[p] = frame[p] /\ Hello(p)
           \/ /\ pc' = "idle" /\ queue # <<>> /\ Job \in Task
              /\ cursor'[p] = Job.seq /\ <<p, Job.seq>> \in Frames(Job)
              /\ RejectCommand \/ Commit \/ Answer
PROOF
  <1> USE DEF Inv, TypeOK
  <1>1. CASE UNCHANGED cursor
    BY <1>1
  <1>2. ASSUME NEW q \in Human, Hello(q)
        PROVE  \A p \in Human : cursor'[p] = cursor[p] \/ (p = q /\ cursor'[p] = frame[p])
    BY <1>2 DEF Hello, ClientsOK
  <1>3. CASE Consume /\ pc' = "idle" /\ queue # <<>> /\ (RejectCommand \/ Commit \/ Answer)
    BY <1>3, QueueFacts DEF Consume
  <1>4. CASE Next
    <2>1. \/ UNCHANGED cursor \/ \E q \in Human : Hello(q)
          \/ Consume /\ pc' = "idle" /\ queue # <<>> /\ (RejectCommand \/ Commit \/ Answer)
      BY <1>4 DEF Next, QueueStep, DriverStep, Environment, StartMove, StartEnd,
         Prepare, Dismiss, Stall, DropReplay, RejectCommand, Stale, Starts, Retire, Pause,
         Drain, Gate, AppendRow, AppendRefused, Commit, Completion, Answer, Succeed,
         DriveBots, QueueBotMove, DriverTimer, Evict, Recover, Crash, Create,
         CreateFails, StoreFails, Terminate, Send, Interrupt, clients, TaskAtHead
    <2> QED BY <1>1, <1>2, <1>3, <2>1 DEF Hello
  <1> QED BY <1>1, <1>4 DEF vars, clients

LEMMA FrameStaysNew ==
  ASSUME Inv, FramesAreBound, FrameIsNew, [Next]_vars
  PROVE  FrameIsNew'
PROOF
  <1> USE DEF Inv, TypeOK
  <1>1. SUFFICES ASSUME resident', pc' # "idle", NEW c \in Frames(Job')
                 PROVE  c[2] > cursor'[c[1]]
    BY DEF FrameIsNew, Frames, Job
  <1>2. Job' = Job /\ queue # <<>> /\ (pc # "idle" \/ StartMove \/ StartEnd)
    BY <1>1, HeadStays
  <1>3. resident
    BY <1>1, BoundWhileResident DEF ServerOK
  <1>4. Job \in Task /\ c \in Commands(queue) /\ c[1] = Job.who /\ c[2] = Job.seq
        /\ Job.kind = "command"
    BY <1>1, <1>2, QueueFacts, CommandsOfQueue, FramesAreTyped DEF TaskOK, Job
  <1>5. c[1] \in bound /\ c[1] \in Human
    BY <1>3, <1>4 DEF FramesAreBound, ClientsOK
  <1>6. cursor'[c[1]] = cursor[c[1]]
    BY <1>1, <1>5, CursorFollows
  <1>7. CASE pc # "idle"
    BY <1>1, <1>2, <1>3, <1>6, <1>7 DEF FrameIsNew
  <1>8. CASE StartMove
    BY <1>4, <1>5, <1>6, <1>8 DEF StartMove, IsReplay, ClientsOK, Task
  <1>9. CASE StartEnd
    BY <1>4, <1>9 DEF StartEnd, Starts
  <1> QED BY <1>2, <1>7, <1>8, <1>9

(* Where a row of the log comes from, and how an append proceeds. *)
LEMMA RowsAreWritten ==
  ASSUME Inv, [Next]_vars
  PROVE  /\ \/ logged' = logged /\ events' = events
            \/ /\ pc = "event" /\ resident /\ resident' = resident
               /\ events = session /\ events' = prepared /\ session' = session
               /\ logged' = logged \cup Frames(Job)
               /\ pc' \in {"snapshot", "seq", "idle"}
         /\ resident /\ resident' => session' = session \/ Commit
         /\ pc \in Finishing /\ resident' => pc' \in Finishing \/ Answer
         /\ pc' \in {"snapshot", "seq", "commit"} =>
              \/ pc \in {"snapshot", "seq", "commit"}
              \/ pc = "event" /\ events = session
PROOF
  <1> USE DEF Inv, TypeOK
  <1>1. CASE AppendRow
    <2>1. /\ pc \in {"event", "snapshot", "seq"} /\ Applied(pc) /\ UNCHANGED server
          /\ pc' \in {"snapshot", "seq", "commit"} /\ ~Duplicate(pc)
          /\ pc = "event" => pc' \in {"snapshot", "seq"}
      BY <1>1 DEF AppendRow, NextStep
    <2>2. IF pc = "event" THEN events = session /\ events' = prepared
                          ELSE events' = events
      BY <2>1, AppliedFacts
    <2>3. resident
      BY <2>1, WritingIsResident
    <2> QED BY <2>1, <2>2, <2>3 DEF Applied, server, Finishing
  <1>2. CASE Completion
    <2>1. /\ pc \in {"complete", "reread", "archive"} /\ Applied(pc) /\ UNCHANGED server
          /\ pc' \in Finishing
      BY <1>2 DEF Completion, Finishing
    <2> QED BY <2>1 DEF Applied, server, Finishing
  <1>3. CASE StoreFails
    <2>1. /\ UNCHANGED server /\ pc' \in {"idle", "answer"}
          /\ pc \in Finishing => pc' \in Finishing
      BY <1>3 DEF StoreFails, Thrown, Fail, Retire, Pause, Finishing
    <2>2. CASE UNCHANGED <<store, logged, late>>
      BY <2>1, <2>2 DEF store, server, Finishing
    <2>3. CASE pc \in LostAcks /\ ~Duplicate(pc) /\ Applied(pc)
      <3>1. CASE pc = "event"
        <4>1. events = session /\ events' = prepared /\ resident
          BY <2>3, <3>1, AppliedFacts, WritingIsResident
        <4>2. pc' = "idle"
          BY <1>3, <3>1 DEF StoreFails, Thrown, Fail, Retire, Pause
        <4> QED BY <2>1, <2>3, <3>1, <4>1, <4>2 DEF Applied, server, Finishing
      <3>2. CASE pc # "event"
        BY <2>1, <2>3, <3>2 DEF Applied, server, Finishing
      <3> QED BY <3>1, <3>2
    <2> QED BY <1>3, <2>2, <2>3 DEF StoreFails
  <1>4. CASE Commit \/ Answer
    BY <1>4 DEF Commit, Answer, Succeed, Retire, Pause, store, server, Finishing
  <1>5. CASE Recover \/ Crash \/ Drain
    BY <1>5 DEF Recover, Crash, Drain, Pause, Starts, store, task, history, Finishing
  <1>6. CASE /\ UNCHANGED <<logged, events, session>>
             /\ pc' = pc \/ (pc \notin Finishing /\ pc' \in {"idle", "gate", "event"})
    BY <1>6 DEF Finishing
  <1>7. CASE Next
    <2>1. \/ AppendRow \/ Completion \/ StoreFails \/ Commit \/ Answer
          \/ Recover \/ Crash \/ Drain
          \/ /\ UNCHANGED <<logged, events, session>>
             /\ pc' = pc \/ (pc \notin Finishing /\ pc' \in {"idle", "gate", "event"})
      BY <1>7 DEF Next, QueueStep, DriverStep, Environment, StartMove, StartEnd,
         Prepare, Dismiss, Stall, DropReplay, RejectCommand, Stale, Starts, Retire, Pause,
         Gate, NextStep, AppendRefused, Fail, Duplicate, DriveBots, QueueBotMove,
         DriverTimer, Evict, Create, CreateFails, Terminate, Hello, Send, Interrupt,
         store, server, task, history, Finishing
    <2> QED BY <1>1, <1>2, <1>3, <1>4, <1>5, <1>6, <2>1
  <1> QED BY <1>6, <1>7 DEF vars, store, server, task, history

LEMMA FramesOnlyGrow ==
  ASSUME Inv, [Next]_vars, NEW p \in Human
  PROVE  frame[p] <= frame'[p] /\ {frame[p], frame'[p]} \subseteq Nat
PROOF
  <1>1. frame \in [Human -> Nat] /\ frame[p] \in Nat
    BY DEF Inv, TypeOK, ClientsOK
  <1>2. CASE \A q \in Human : ~Send(q)
    BY <1>1, <1>2, OnlySendsAddFrames
  <1>3. CASE \E q \in Human : Send(q)
    <2>1. PICK q \in Human : Send(q)
      BY <1>3
    <2>2. PICK k \in {frame[q], frame[q] + 1} : frame' = [frame EXCEPT ![q] = k]
      BY <2>1 DEF Send
    <2> QED BY <1>1, <2>2
  <1> QED BY <1>2, <1>3

(* Only a hello binds somebody, and it moves the cursor past all they sent. *)
LEMMA HelloSettles ==
  ASSUME Inv, [Next]_vars, NEW p \in Human, p \notin bound, p \in bound'
  PROVE  cursor'[p] = frame[p]
PROOF
  <1>1. CASE \E q \in Human : Hello(q)
    BY <1>1 DEF Hello, Inv, TypeOK, ClientsOK
  <1>2. CASE bound' \subseteq bound
    BY <1>2
  <1>3. CASE Next
    <2>1. (\E q \in Human : Hello(q)) \/ bound' \subseteq bound
      BY <1>3 DEF Next, QueueStep, DriverStep, Environment, StartMove, StartEnd,
         Prepare, Dismiss, Stall, Drain, Gate, AppendRow, AppendRefused, Commit, Completion,
         Answer, DriveBots, QueueBotMove, DriverTimer, Evict, Recover, Crash, Create,
         CreateFails, StoreFails, Terminate, Send, Interrupt, clients
    <2> QED BY <1>1, <1>2, <2>1
  <1> QED BY <1>2, <1>3 DEF vars, clients

(* The cursor of somebody bound never goes back. *)
LEMMA CursorOnlyGrows ==
  ASSUME Inv, FrameIsNew, [Next]_vars, resident, NEW p \in bound
  PROVE  cursor[p] <= cursor'[p] /\ {cursor[p], cursor'[p]} \subseteq Nat
PROOF
  <1>1. p \in Human /\ cursor[p] \in Nat
    BY DEF Inv, TypeOK, ClientsOK
  <1>2. CASE cursor'[p] = cursor[p]
    BY <1>1, <1>2
  <1>3. CASE /\ queue # <<>> /\ Job \in Task
             /\ cursor'[p] = Job.seq /\ <<p, Job.seq>> \in Frames(Job)
             /\ RejectCommand \/ Commit \/ Answer
    <2>1. Job.kind = "command" /\ Job.who = p /\ Job.seq \in Nat
      BY <1>3, FramesAreTyped DEF Task
    <2>2. Job.seq > cursor[p]
      <3>1. CASE RejectCommand
        BY <1>1, <2>1, <3>1 DEF RejectCommand, IsReplay
      <3>2. CASE Commit \/ Answer
        BY <1>3, <3>2 DEF Commit, Answer, FrameIsNew
      <3> QED BY <1>3, <3>1, <3>2
    <2> QED BY <1>1, <1>3, <2>1, <2>2
  <1> QED BY <1>1, <1>2, <1>3, CursorFollows

(* What is settled stays settled: in particular no other row is written while
   the row of a frame stands uncommitted. *)
LEMMA SettledStays ==
  ASSUME Inv, FramesAreBound, FrameIsNew, [Next]_vars,
         NEW c \in Human \X Nat, c[2] <= frame[c[1]], Settled(c)
  PROVE  Settled(c)'
PROOF
  <1>1. /\ resident \in BOOLEAN /\ bound \subseteq Human
        /\ Len(events) \in Nat /\ Len(session) \in Nat
        /\ c[1] \in Human /\ c[2] \in Nat
    BY DEF Inv, TypeOK, ServerOK, ClientsOK, StoreOK, State
  <1>2. CASE ~resident' \/ c[1] \notin bound'
    BY <1>2 DEF Settled
  <1>3. CASE c[1] \notin bound /\ c[1] \in bound'
    <2>1. cursor'[c[1]] = frame[c[1]]
      BY <1>1, <1>3, HelloSettles
    <2> QED BY <2>1 DEF Settled
  <1>4. CASE ~resident /\ resident'
    BY <1>1, <1>4, BoundWhileResident DEF FramesAreBound, Settled
  <1>5. CASE resident /\ resident' /\ c[1] \in bound
    <2>1. CASE c[2] <= cursor[c[1]]
      BY <1>1, <1>5, <2>1, CursorOnlyGrows DEF Settled
    <2>2. CASE pc \in Finishing /\ c \in Frames(Job)
      <3>1. CASE pc' \in Finishing
        BY <2>2, <3>1, HeadStays DEF Finishing, Settled
      <3>2. CASE Answer
        <4>1. queue # <<>> /\ Job \in Task
          BY <2>2, QueueFacts DEF Finishing, Inv, TypeOK, TaskAtHead
        <4>2. c[2] = Job.seq /\ c[1] = Job.who /\ Frames(Job) = {<<c[1], Job.seq>>}
          BY <2>2, <4>1, FramesAreTyped
        <4>3. cursor'[c[1]] = c[2]
          BY <1>1, <3>2, <4>2 DEF Answer, Succeed, Consume
        <4> QED BY <1>1, <4>3 DEF Settled
      <3> QED BY <1>5, <2>2, <3>1, <3>2, RowsAreWritten
    <2>3. CASE RowInFlight(c)
      <3>1. CASE Commit
        <4>1. c \in Frames(Job) /\ queue # <<>> /\ Job \in Task
          BY <2>3, <3>1, QueueFacts DEF RowInFlight, Commit, Inv, TypeOK, TaskAtHead
        <4>2. c[2] = Job.seq /\ c[1] = Job.who /\ Frames(Job) = {<<c[1], Job.seq>>}
          BY <4>1, FramesAreTyped
        <4>3. CASE Over(prepared)
          BY <3>1, <4>1, <4>3 DEF Commit, Finishing, Job, Settled
        <4>4. CASE ~Over(prepared)
          <5>1. cursor'[c[1]] = c[2]
            BY <1>1, <3>1, <4>2, <4>4 DEF Commit, Succeed, Consume
          <5> QED BY <1>1, <5>1 DEF Settled
        <4> QED BY <4>3, <4>4
      <3>2. CASE ~Commit
        <4>1. session' = session
          BY <1>5, <3>2, RowsAreWritten
        <4>2. events' = events
          BY <1>1, <2>3, RowsAreWritten DEF RowInFlight
        <4>3. ASSUME pc' \in {"snapshot", "seq", "commit"}
              PROVE  c \in Frames(Job')
          <5>1. pc \in {"snapshot", "seq", "commit"}
            BY <1>1, <2>3, <4>3, RowsAreWritten DEF RowInFlight
          <5>2. Job' = Job
            BY <4>3, HeadStays
          <5> QED BY <2>3, <5>1, <5>2 DEF RowInFlight
        <4> QED BY <2>3, <4>1, <4>2, <4>3 DEF RowInFlight, Settled, Frames
      <3> QED BY <3>1, <3>2
    <2> QED BY <1>5, <2>1, <2>2, <2>3 DEF Settled
  <1> QED BY <1>1, <1>2, <1>3, <1>4, <1>5

LEMMA LoggedStaySettled ==
  ASSUME Inv, FramesAreBound, FrameIsNew, LoggedAreSettled, [Next]_vars
  PROVE  LoggedAreSettled'
PROOF
  <1> SUFFICES ASSUME NEW c \in logged'
               PROVE  c[1] \in Human /\ c[2] <= frame'[c[1]] /\ Settled(c)'
    BY DEF LoggedAreSettled, Settled, RowInFlight, Frames
  <1>1. CASE c \in logged
    <2>1. c[1] \in Human /\ c[2] <= frame[c[1]] /\ Settled(c)
      BY <1>1 DEF LoggedAreSettled
    <2>2. c \in Human \X Nat
      BY <1>1, <2>1 DEF Inv, TypeOK, HistoryOK
    <2>3. Settled(c)'
      BY <2>1, <2>2, SettledStays
    <2>4. frame[c[1]] <= frame'[c[1]] /\ {frame[c[1]], frame'[c[1]]} \subseteq Nat
      BY <2>1, FramesOnlyGrow
    <2> QED BY <2>1, <2>2, <2>3, <2>4
  <1>2. CASE c \notin logged
    <2>1. /\ pc = "event" /\ resident /\ events = session /\ events' = prepared
          /\ session' = session /\ c \in Frames(Job) /\ pc' \in {"snapshot", "seq", "idle"}
      BY <1>2, RowsAreWritten
    <2>2. queue # <<>> /\ Job \in Task /\ queue \in Seq(Task)
      BY <2>1, QueueFacts DEF Inv, TypeOK, TaskOK, TaskAtHead
    <2>3. c \in Commands(queue) /\ c[1] = Job.who /\ c[2] = Job.seq /\ Job.seq \in Nat
      BY <2>1, <2>2, CommandsOfQueue, FramesAreTyped DEF Job, Task
    <2>4. c[1] \in Human /\ c[2] <= frame[c[1]]
      BY <2>1, <2>3 DEF FramesAreBound, Inv, TypeOK, ClientsOK
    <2>5. frame[c[1]] <= frame'[c[1]] /\ {frame[c[1]], frame'[c[1]]} \subseteq Nat
      BY <2>4, FramesOnlyGrow
    <2>6. Len(events') > Len(session')
      BY <2>1 DEF Inv, TypeOK, ServerOK, State, PreparedFollows, Appending
    <2>7. pc' # "idle" => Job' = Job
      BY HeadStays
    <2>8. Settled(c)'
      BY <2>1, <2>6, <2>7 DEF Settled, RowInFlight, Frames
    <2> QED BY <2>3, <2>4, <2>5, <2>8
  <1> QED BY <1>1, <1>2

-----------------------------------------------------------------------------
(* What follows. *)

LEMMA DeliveryInit ==
  ASSUME Init
  PROVE  Delivery
PROOF
  <1> USE DEF Init
  <1>1. RowsInTime /\ EndingEnds /\ FrameIsNew /\ LoggedAreSettled
    BY DEF RowsInTime, AtMostOneLateRow, EndingEnds, Appending, FrameIsNew,
           LoggedAreSettled
  <1>2. BotIsPrompted /\ FramesAreBound
    BY NoCommands DEF BotIsPrompted, FramesAreBound
  <1> QED BY <1>1, <1>2 DEF Delivery

LEMMA NextKeepsDelivery ==
  ASSUME Inv, Delivery, [Next]_vars
  PROVE  Delivery'
PROOF
  <1>1. RowsInTime'
    BY RowsStayInTime DEF Delivery
  <1>2. BotIsPrompted' /\ EndingEnds'
    BY BotsStayPrompted, EndingStaysTheEnd DEF Delivery
  <1>3. FramesAreBound' /\ FrameIsNew' /\ LoggedAreSettled'
    BY FramesStayBound, FrameStaysNew, LoggedStaySettled DEF Delivery
  <1> QED BY <1>1, <1>2, <1>3 DEF Delivery

(* Delivery is inductive next to Inv: the frames and rows under way, the bots and
   what prompts them (handleCommand, recordAction, driveBots). *)
THEOREM DeliveryHolds ==
  ASSUME ~EarlyBind
  PROVE  Spec => [](Inv /\ Delivery)
PROOF
  <1>1. Init => Delivery
    BY DeliveryInit
  <1>2. Inv /\ Delivery /\ [Next]_vars => Delivery'
    BY NextKeepsDelivery
  <1> QED BY <1>1, <1>2, InvHolds, PTL DEF Spec

(* appendAction looks at the status before it writes the row, and recordAction
   after it: the append that was between the two when a maintainer terminated
   the game is the only one that adds a row to it afterwards. *)
THEOREM LateRowsAreBounded ==
  ASSUME ~EarlyBind
  PROVE  Spec => []AtMostOneLateRow
PROOF
  <1>1. Delivery => AtMostOneLateRow
    BY DEF Delivery, RowsInTime
  <1> QED BY <1>1, DeliveryHolds, PTL

(* driveBots: whatever fails, is dismissed or is evicted, a bot on the move
   has something under way that will make it move. *)
THEOREM BotsAreNotForgotten ==
  ASSUME ~EarlyBind
  PROVE  Spec => []BotNeverForgotten
PROOF
  <1>1. Inv /\ Delivery => BotNeverForgotten
    <2> SUFFICES ASSUME BotIsPrompted
                 PROVE  BotNeverForgotten
      BY DEF Delivery
    <2> QED BY EmptyQueue DEF BotIsPrompted, BotNeverForgotten
  <1> QED BY <1>1, DeliveryHolds, PTL

(* handleCommand: a frame whose row is in the log has no second one, whether
   its first answer was lost, the client sent it again, or the match crashed
   and was recovered in between. *)
THEOREM FramesApplyOnce ==
  ASSUME ~EarlyBind
  PROVE  Spec => AtMostOnce
PROOF
  <1>1. ASSUME Inv, Delivery, [Next]_vars
        PROVE  [(events' # events /\ Job.kind = "command")
                  => <<Job.who, Job.seq>> \notin logged]_vars
    <2> SUFFICES ASSUME events' # events, Job.kind = "command",
                        <<Job.who, Job.seq>> \in logged
                 PROVE  FALSE
      OBVIOUS
    <2> DEFINE c == <<Job.who, Job.seq>>
    <2>1. pc = "event" /\ resident /\ events = session
      BY <1>1, RowsAreWritten
    <2>2. queue # <<>> /\ Job \in Task /\ queue \in Seq(Task)
      BY <1>1, <2>1, QueueFacts DEF Inv, TypeOK, TaskOK, TaskAtHead
    <2>3. c \in Frames(Job) /\ c[1] = Job.who /\ c[2] = Job.seq /\ c[2] \in Nat
      BY <2>2 DEF Frames, Task
    <2>4. c \in Commands(queue)
      BY <2>2, <2>3, CommandsOfQueue DEF Job
    <2>5. c[1] \in bound /\ c[2] > cursor[c[1]]
      BY <1>1, <2>1, <2>3, <2>4 DEF Delivery, FramesAreBound, FrameIsNew
    <2>6. c[1] \in Human /\ cursor[c[1]] \in Nat
      BY <1>1, <2>5 DEF Inv, TypeOK, ClientsOK
    <2>7. Settled(c)
      BY <1>1 DEF Delivery, LoggedAreSettled
    <2>8. Len(events) \in Nat /\ events = session
      BY <1>1, <2>1 DEF Inv, TypeOK, StoreOK, State
    <2> HIDE DEF c
    <2> QED BY <2>1, <2>3, <2>5, <2>6, <2>7, <2>8 DEF Settled, RowInFlight, Finishing
  <1> QED BY <1>1, DeliveryHolds, PTL DEF Spec, AtMostOnce
=============================================================================
