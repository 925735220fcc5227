----------------------------- MODULE RoomProofs -----------------------------
(***************************************************************************)
(* Proofs about Room, for any accounts and bots, any layouts and settings  *)
(* of the host, any number of games, and any class of slow requests.       *)
(*                                                                         *)
(* An update that is decided and written at once keeps the room right      *)
(* because it was decided on the room it is written to.  A slow one keeps  *)
(* it right because of what its class of operations can ask for (Pending)  *)
(* and of the fields its filter compares.                                  *)
(***************************************************************************)
EXTENDS Room, NaturalLemmas, FunctionTheorems, SequenceTheorems

InStep(ms) == \A k \in DOMAIN ms : ms[k].ends = None
Distinct(ms) == \A j, k \in DOMAIN ms : ms[j].id = ms[k].id => j = k

(* What the invariants say of a document r, next to the games. *)
VotesIn(r) ==
  /\ r.status = "LOBBY" => InStep(r.members)
  /\ r.status = "STARTED" => \A k \in DOMAIN r.members : r.members[k].ends \in {None, r.game}
FitsIn(r) == Len(r.members) <= r.cap
HostedIn(r) == r.status # "CLOSED" => r.host \in IdsOf(r.members)
PlacesIn(r) ==
  /\ Distinct(r.members)
  /\ IdsOf(r.members) \cap r.watchers = {}
  /\ r.banned \cap (r.watchers \cup IdsOf(r.members)) = {}
TableIn(r) ==
  (r.status = "STARTED" /\ games[r.game].life \in {"starting", "live"})
    => IdsOf(r.members) = games[r.game].players

Shaped(r) ==
  /\ r \in Document
  /\ r.status = "STARTED" => r.game # None
  /\ r.game # None => games[r.game].life # "unused"

Right(r) ==
  /\ Shaped(r)
  /\ slow # "over" => VotesIn(r)
  /\ slow \notin {"join", "settings", "removeBot"} => FitsIn(r)
  /\ slow \in {"join", "watch", "settings", "start", "vote"} => HostedIn(r)
  /\ slow \in {"settings", "host", "start", "vote"} => PlacesIn(r)
  /\ slow \notin {"start", "removeBot", "over"} => TableIn(r)

(* The filter of w compares field f with value v. *)
Asks(w, f, v) == f \in DOMAIN w.if /\ w.if[f] = v

(* An update is one a request may send: the values it sets are of their types,
   and a started room goes back to the lobby without its game and its votes. *)
Formed(w) ==
  /\ w.op = "update"
  /\ w.players \subseteq Ids /\ w.watch \subseteq Humans /\ w.ban \subseteq Humans
  /\ w.push \in Seq(Member) /\ InStep(w.push)
  /\ DOMAIN w.set \subseteq {"status", "host", "members", "cap", "settings", "game"}
  /\ "status" \in DOMAIN w.set => w.set["status"] \in {"LOBBY", "CLOSED"}
  /\ "host" \in DOMAIN w.set => w.set["host"] \in Humans
  /\ "members" \in DOMAIN w.set => w.set["members"] \in Seq(Member)
  /\ "cap" \in DOMAIN w.set => w.set["cap"] \in Nat /\ Asks(w, "status", "LOBBY")
  /\ "settings" \in DOMAIN w.set => w.set["settings"] \in Settings[slow] \cup {Default}
  /\ "game" \in DOMAIN w.set => /\ w.set["game"] = None
                                /\ "status" \in DOMAIN w.set /\ w.set["status"] = "LOBBY"

(* What a slow request of each class may ask for when it lands. *)
SlowJoin(w) ==
  /\ Asks(w, "status", "LOBBY") /\ w.players = {}
  /\ DOMAIN w.set = {} /\ w.watch = {} /\ w.ban = {}
SlowWatch(w) == w.players = {} /\ DOMAIN w.set = {} /\ w.push = <<>> /\ w.ban = {}
SlowArray(w) ==
  /\ w.players = {} /\ w.push = <<>>
  /\ \/ DOMAIN w.set = {}
     \/ /\ Asks(w, "status", "LOBBY") /\ "size" \in DOMAIN w.if
        /\ DOMAIN w.set \subseteq {"members", "host", "status"}
        /\ "status" \in DOMAIN w.set => w.set["status"] = "CLOSED"
        /\ "members" \in DOMAIN w.set /\ InStep(w.set["members"])
        /\ Len(w.set["members"]) <= w.if["size"]
SlowSettings(w) ==
  /\ Asks(w, "status", "LOBBY") /\ w.players = {} /\ w.push = <<>>
  /\ DOMAIN w.set = {"settings", "cap"} /\ w.watch = {} /\ w.ban = {}
SlowHost(w) ==
  /\ Asks(w, "status", "LOBBY") /\ w.players = {} /\ w.push = <<>>
  /\ DOMAIN w.set = {"host"} \/ (DOMAIN w.set = {"status"} /\ w.set["status"] = "CLOSED")
  /\ w.watch = {} /\ w.ban = {}
SlowStart(w) == Asks(w, "status", "LOBBY") /\ w.players # {}
SlowReset(w) ==
  /\ Asks(w, "status", "STARTED") /\ w.players = {} /\ w.push = <<>>
  /\ DOMAIN w.set = {"status", "game", "members"}
  /\ w.set["status"] = "LOBBY" /\ w.set["game"] = None /\ InStep(w.set["members"])
  /\ w.watch = {} /\ w.ban = {}
  /\ "game" \in DOMAIN w.if /\ w.if["game"] \in GameIds
  /\ games[w.if["game"]].life = "over"
  /\ (room.status = "STARTED" /\ room.game = w.if["game"])
       => Len(w.set["members"]) <= room.cap
SlowBot(w) ==
  /\ w.players = {} /\ w.push = <<>> /\ DOMAIN w.set = {"members"}
  /\ InStep(w.set["members"]) /\ w.watch = {} /\ w.ban = {}
SlowVote(q) ==
  \/ q \in [op : {"vote"}, by : Humans, yes : BOOLEAN]
  \/ q \in [op : {"cast", "count"}, by : Humans, game : GameIds, yes : BOOLEAN]
SlowLeave(q) ==
  /\ q.by \in Humans
  /\ q.op \in {"left", "leave"}
  /\ q.op = "leave" =>
       /\ Formed(q.w) /\ q.w.players = {} /\ q.w.push = <<>>
       /\ DOMAIN q.w.set \subseteq {"members", "host", "status"}
       /\ "status" \in DOMAIN q.w.set => q.w.set["status"] = "CLOSED"
       /\ "members" \in DOMAIN q.w.set =>
            "size" \in DOMAIN q.w.if /\ Len(q.w.set["members"]) <= q.w.if["size"]

Slowed(w) ==
  /\ slow \notin {"over", "vote"} => Formed(w)
  /\ slow = "join" => SlowJoin(w)
  /\ slow = "watch" => SlowWatch(w)
  /\ slow \in {"array", "seats"} => SlowArray(w)
  /\ slow = "removeBot" => SlowBot(w)
  /\ slow = "settings" => SlowSettings(w)
  /\ slow = "host" => SlowHost(w)
  /\ slow = "start" => SlowStart(w)
  /\ slow = "reset" => SlowReset(w)
  /\ slow = "over" => SlowLeave(w)
  /\ slow = "vote" => SlowVote(w)

Pending == req # None => Slowed(req)

Inv == TypeOK /\ Right(room) /\ Pending

-----------------------------------------------------------------------------
(* The members a filter keeps. *)

Grown(ms, S, s, k) == IF ms[k].id \in S THEN Append(s, ms[k]) ELSE s

(* F[k] is what the filter keeps of the first k members. *)
IsFilter(ms, S, F) ==
  F = [k \in 0 .. Len(ms) |->
         IF k = 0 THEN <<>>
         ELSE IF ms[k].id \in S THEN Append(F[k - 1], ms[k]) ELSE F[k - 1]]

(* s is what is kept of the first n members: those with an id in S, in their
   order. *)
Kept(ms, S, n, s) ==
  /\ Len(s) <= n
  /\ \A i \in DOMAIN s : \E a \in 1 .. n : s[i] = ms[a] /\ ms[a].id \in S
  /\ \A a \in 1 .. n : ms[a].id \in S => \E i \in DOMAIN s : s[i] = ms[a]
  /\ \A i, j \in DOMAIN s : i < j => \E a, b \in 1 .. n : a < b /\ s[i] = ms[a] /\ s[j] = ms[b]

(* There is such a filter: it iterates a step along the members. *)
LEMMA FilterExists ==
  ASSUME NEW M, NEW ms \in Seq(M), NEW S
  PROVE  \E F \in [0 .. Len(ms) -> Seq(M)] : IsFilter(ms, S, F)
PROOF
  <1> DEFINE n == Len(ms)
             D == Seq(M) \X (0 .. n)
             G == [x \in D |-> IF x[2] = n THEN x
                               ELSE <<Grown(ms, S, x[1], x[2] + 1), x[2] + 1>>]
  <1>1. n \in Nat
    OBVIOUS
  <1>2. \A s \in Seq(M), k \in 1 .. n : Grown(ms, S, s, k) \in Seq(M)
    BY DEF Grown
  <1>3. G \in [D -> D]
    <2> SUFFICES ASSUME NEW s \in Seq(M), NEW k \in 0 .. n, k # n
                 PROVE  <<Grown(ms, S, s, k + 1), k + 1>> \in D
      OBVIOUS
    <2>1. k + 1 \in 1 .. n /\ k + 1 \in 0 .. n
      BY <1>1
    <2> QED BY <1>2, <2>1
  <1>4. <<<<>>, 0>> \in D
    <2>1. <<>> \in Seq(M) /\ 0 \in 0 .. n
      BY <1>1
    <2> QED BY <2>1
  <1> HIDE DEF D, G
  <1>5. PICK f : IsIterate(D, G, <<<<>>, 0>>, n, f)
    BY <1>1, <1>3, <1>4, Iterates
  <1> HIDE DEF n
  <1>6. f \in [0 .. n -> D] /\ f[0] = <<<<>>, 0>> /\ \A i \in 1 .. n : f[i] = G[f[i - 1]]
    BY <1>5 DEF IsIterate
  <1> DEFINE Bad == {k \in Nat : k <= n /\ f[k][2] # k}
  <1>7. ASSUME Bad # {}
        PROVE  FALSE
    <2>1. Bad \in SUBSET Nat
      OBVIOUS
    <2>2. PICK k \in Bad : \A j \in Bad : k <= j
      BY <1>7, <2>1, LeastNatural
    <2>3. k # 0 /\ k - 1 \in Nat /\ k \in 1 .. n /\ k - 1 < k
      BY <1>1, <1>6, <2>2
    <2>4. f[k - 1][2] = k - 1 /\ k - 1 \in 0 .. n /\ f[k - 1] \in D
      BY <1>1, <1>6, <2>2, <2>3
    <2>5. f[k] = <<Grown(ms, S, f[k - 1][1], k - 1 + 1), k - 1 + 1>>
      <3>1. f[k] = G[f[k - 1]] /\ k - 1 # n
        BY <1>1, <1>6, <2>3
      <3> QED BY <3>1, <2>4 DEF G
    <2> QED BY <2>2, <2>3, <2>5
  <1>8. \A k \in 0 .. n : f[k][2] = k
    BY <1>1, <1>7
  <1> HIDE DEF Bad
  <1> DEFINE F == [k \in 0 .. n |-> f[k][1]]
  <1>9. F \in [0 .. n -> Seq(M)]
    BY <1>6 DEF D
  <1>10. F[0] = <<>>
    BY <1>1, <1>6
  <1>11. ASSUME NEW k \in 1 .. n
         PROVE  F[k] = Grown(ms, S, F[k - 1], k)
    <2>1. k - 1 \in 0 .. n /\ k \in 0 .. n /\ k - 1 # n /\ k - 1 + 1 = k
      BY <1>1
    <2>2. f[k - 1] \in D /\ f[k - 1][2] = k - 1
      BY <1>6, <1>8, <2>1
    <2>3. f[k] = <<Grown(ms, S, f[k - 1][1], k), k>>
      BY <1>6, <2>1, <2>2 DEF G
    <2> QED BY <2>1, <2>3
  <1> HIDE DEF F
  <1>12. IsFilter(ms, S, F)
    <2>1. \A k \in 0 .. n : k # 0 => k \in 1 .. n
      BY <1>1
    <2> QED BY <1>9, <1>10, <1>11, <2>1 DEF IsFilter, Grown, n
  <1> QED BY <1>9, <1>12 DEF n

LEMMA OnlyKeeps ==
  ASSUME NEW M, NEW ms \in Seq(M), NEW S
  PROVE  Only(ms, S) \in Seq(M) /\ Kept(ms, S, Len(ms), Only(ms, S))
PROOF
  <1> DEFINE F == CHOOSE f : IsFilter(ms, S, f)
             n == Len(ms)
  <1>1. IsFilter(ms, S, F)
    BY FilterExists
  <1>2. Only(ms, S) = F[n]
    BY DEF Only, IsFilter
  <1> HIDE DEF F
  <1>3. n \in Nat /\ \A k \in 1 .. n : ms[k] \in M
    OBVIOUS
  <1> HIDE DEF n
  <1>4. F[0] = <<>> /\ \A k \in 1 .. n : F[k] = Grown(ms, S, F[k - 1], k)
    <2>1. 0 \in 0 .. n /\ \A k \in 1 .. n : k \in 0 .. n /\ k # 0
      BY <1>3
    <2> QED BY <1>1, <2>1 DEF IsFilter, Grown, n
  <1> DEFINE Good(k) == F[k] \in Seq(M) /\ Kept(ms, S, k, F[k])
             Bad == {k \in Nat : k <= n /\ ~Good(k)}
  <1>5. Good(0)
    BY <1>4 DEF Kept
  <1>6. ASSUME NEW k \in 1 .. n, Good(k - 1)
        PROVE  Good(k)
    <2> DEFINE s == F[k - 1]
               t == F[k]
    <2>1. k - 1 \in Nat /\ 1 .. k = (1 .. k - 1) \cup {k} /\ k \notin 1 .. k - 1 /\ k \in Nat
      BY <1>3
    <2>2. s \in Seq(M) /\ Kept(ms, S, k - 1, s) /\ t = Grown(ms, S, s, k)
      BY <1>4, <1>6
    <2> HIDE DEF s, t
    <2>3. CASE ms[k].id \notin S
      <3>1. t = s
        BY <2>2, <2>3 DEF Grown
      <3>2. Len(t) <= k
        BY <2>1, <2>2, <3>1 DEF Kept
      <3>3. \A a \in 1 .. k : ms[a].id \in S => a \in 1 .. k - 1
        BY <2>1, <2>3
      <3>4. 1 .. k - 1 \subseteq 1 .. k
        BY <2>1
      <3> QED BY <2>2, <3>1, <3>2, <3>3, <3>4 DEF Kept, t
    <2>4. CASE ms[k].id \in S
      <3>1. t = Append(s, ms[k]) /\ ms[k] \in M
        BY <1>3, <2>2, <2>4 DEF Grown
      <3>2. /\ t \in Seq(M) /\ Len(t) = Len(s) + 1 /\ DOMAIN t = DOMAIN s \cup {Len(s) + 1}
            /\ t[Len(s) + 1] = ms[k] /\ \A i \in DOMAIN s : t[i] = s[i] /\ i < Len(s) + 1
            /\ Len(s) \in Nat /\ DOMAIN s = 1 .. Len(s)
        BY <2>2, <3>1
      <3>3. Len(t) <= k
        BY <2>1, <2>2, <3>2 DEF Kept
      <3>4. \A i \in DOMAIN t : \E a \in 1 .. k : t[i] = ms[a] /\ ms[a].id \in S
        BY <2>1, <2>2, <2>4, <3>2 DEF Kept
      <3>5. \A a \in 1 .. k : ms[a].id \in S => \E i \in DOMAIN t : t[i] = ms[a]
        BY <2>1, <2>2, <3>2 DEF Kept
      <3>6. ASSUME NEW i \in DOMAIN t, NEW j \in DOMAIN t, i < j
            PROVE  \E a, b \in 1 .. k : a < b /\ t[i] = ms[a] /\ t[j] = ms[b]
        <4>1. i \in DOMAIN s
          BY <3>2, <3>6
        <4>2. CASE j \in DOMAIN s
          BY <2>1, <2>2, <3>2, <3>6, <4>1, <4>2 DEF Kept
        <4>3. CASE j = Len(s) + 1
          <5>1. PICK a \in 1 .. k - 1 : s[i] = ms[a]
            BY <2>2, <4>1 DEF Kept
          <5>2. a < k /\ a \in 1 .. k /\ k \in 1 .. k
            BY <2>1
          <5> QED BY <3>2, <4>1, <4>3, <5>1, <5>2
        <4> QED BY <3>2, <4>2, <4>3
      <3> QED BY <3>2, <3>3, <3>4, <3>5, <3>6 DEF Kept, t
    <2> QED BY <2>3, <2>4
  <1> HIDE DEF Good
  <1>7. ASSUME Bad # {}
        PROVE  FALSE
    <2>1. Bad \in SUBSET Nat
      OBVIOUS
    <2>2. PICK k \in Bad : \A j \in Bad : k <= j
      BY <1>7, <2>1, LeastNatural
    <2>3. k # 0 /\ k - 1 \in Nat /\ k \in 1 .. n /\ k - 1 < k /\ ~Good(k)
      BY <1>3, <1>5, <2>2
    <2>4. Good(k - 1)
      BY <1>3, <2>2, <2>3
    <2> QED BY <1>6, <2>3, <2>4
  <1>8. Good(n)
    BY <1>3, <1>7
  <1> QED BY <1>2, <1>8 DEF Good, n

(* What the operations use of it. *)
LEMMA OnlyFacts ==
  ASSUME NEW M, NEW ms \in Seq(M), NEW S
  PROVE  /\ Only(ms, S) \in Seq(M) /\ Len(Only(ms, S)) <= Len(ms)
         /\ IdsOf(Only(ms, S)) = IdsOf(ms) \cap S
         /\ \A k \in DOMAIN Only(ms, S) : \E a \in DOMAIN ms : Only(ms, S)[k] = ms[a]
         /\ Distinct(ms) => Distinct(Only(ms, S))
PROOF
  <1> DEFINE s == Only(ms, S)
  <1>1. s \in Seq(M) /\ Kept(ms, S, Len(ms), s)
    BY OnlyKeeps
  <1>2. DOMAIN ms = 1 .. Len(ms) /\ Len(ms) \in Nat /\ DOMAIN s = 1 .. Len(s) /\ Len(s) \in Nat
    BY <1>1
  <1> HIDE DEF s
  <1>3. IdsOf(s) = IdsOf(ms) \cap S
    <2>1. \A k \in DOMAIN s : \E a \in DOMAIN ms : s[k] = ms[a] /\ ms[a].id \in S
      BY <1>1, <1>2 DEF Kept
    <2>2. \A a \in DOMAIN ms : ms[a].id \in S => \E k \in DOMAIN s : s[k] = ms[a]
      BY <1>1, <1>2 DEF Kept
    <2> QED BY <2>1, <2>2 DEF IdsOf
  <1>4. ASSUME Distinct(ms), NEW j \in DOMAIN s, NEW k \in DOMAIN s, s[j].id = s[k].id, j < k
        PROVE  FALSE
    <2>1. PICK a, b \in 1 .. Len(ms) : a < b /\ s[j] = ms[a] /\ s[k] = ms[b]
      BY <1>1, <1>4 DEF Kept
    <2> QED BY <1>2, <1>4, <2>1 DEF Distinct
  <1>5. Distinct(ms) => Distinct(s)
    BY <1>2, <1>4 DEF Distinct
  <1> QED BY <1>1, <1>2, <1>3, <1>5 DEF Kept, s

-----------------------------------------------------------------------------
(* Other ways to make a list of members from another. *)

(* Seats are changed: the same members, in another order. *)
LEMMA RearrangedFacts ==
  ASSUME NEW M, NEW ms \in Seq(M), NEW p \in [DOMAIN ms -> DOMAIN ms], IsInjective(p),
         NEW t, t = [k \in DOMAIN ms |-> ms[p[k]]]
  PROVE  /\ t \in Seq(M) /\ Len(t) = Len(ms) /\ IdsOf(t) = IdsOf(ms)
         /\ \A k \in DOMAIN t : \E a \in DOMAIN ms : t[k] = ms[a]
         /\ Distinct(ms) => Distinct(t)
PROOF
  <1>1. DOMAIN ms = 1 .. Len(ms) /\ Len(ms) \in Nat
    OBVIOUS
  <1>2. t \in [1 .. Len(ms) -> M]
    BY <1>1
  <1>3. t \in Seq(M) /\ Len(t) = Len(ms) /\ DOMAIN t = DOMAIN ms
    BY <1>1, <1>2
  <1>4. \A a \in DOMAIN ms : \E k \in DOMAIN ms : p[k] = a
    <2>1. p \in Injection(DOMAIN ms, DOMAIN ms)
      BY DEF Injection, IsInjective
    <2>2. IsFiniteSet(DOMAIN ms)
      BY <1>1, FS_Interval
    <2>3. p \in Surjection(DOMAIN ms, DOMAIN ms)
      BY <2>1, <2>2, FS_Injection
    <2> QED BY <2>3 DEF Surjection
  <1>5. IdsOf(t) = IdsOf(ms)
    <2>1. \A k \in DOMAIN t : t[k] = ms[p[k]] /\ p[k] \in DOMAIN ms
      BY <1>3
    <2>2. \A a \in DOMAIN ms : \E k \in DOMAIN t : t[k] = ms[a]
      BY <1>3, <1>4
    <2>3. IdsOf(t) \subseteq IdsOf(ms)
      BY <2>1 DEF IdsOf
    <2>4. IdsOf(ms) \subseteq IdsOf(t)
      <3> SUFFICES ASSUME NEW a \in DOMAIN ms PROVE ms[a].id \in IdsOf(t)
        BY DEF IdsOf
      <3> QED BY <2>2 DEF IdsOf
    <2> QED BY <2>3, <2>4
  <1>6. ASSUME Distinct(ms), NEW j \in DOMAIN t, NEW k \in DOMAIN t, t[j].id = t[k].id
        PROVE  j = k
    <2>1. p[j] = p[k]
      BY <1>3, <1>6 DEF Distinct
    <2> QED BY <1>3, <2>1 DEF IsInjective
  <1> QED BY <1>3, <1>5, <1>6 DEF Distinct

(* Somebody takes the next seat. *)
LEMMA SeatedFacts ==
  ASSUME NEW ms \in Seq(Member), NEW i \in Ids,
         NEW t, t = ms \o <<Seated(i)>>
  PROVE  /\ <<Seated(i)>> \in Seq(Member) /\ InStep(<<Seated(i)>>)
         /\ t \in Seq(Member) /\ Len(t) = Len(ms) + 1 /\ IdsOf(t) = IdsOf(ms) \cup {i}
         /\ InStep(ms) => InStep(t)
         /\ Distinct(ms) /\ i \notin IdsOf(ms) => Distinct(t)
PROOF
  <1>1. Seated(i) \in Member /\ Seated(i).id = i /\ Seated(i).ends = None
    BY DEF Seated, Member
  <1>2. <<Seated(i)>> \in Seq(Member) /\ InStep(<<Seated(i)>>)
    BY <1>1 DEF InStep
  <1>3. /\ t \in Seq(Member) /\ Len(t) = Len(ms) + 1 /\ Len(ms) \in Nat
        /\ DOMAIN t = DOMAIN ms \cup {Len(ms) + 1} /\ Len(ms) + 1 \notin DOMAIN ms
        /\ \A k \in DOMAIN ms : t[k] = ms[k]
        /\ t[Len(ms) + 1] = Seated(i)
    BY <1>1
  <1>4. IdsOf(t) = IdsOf(ms) \cup {i}
    BY <1>1, <1>3 DEF IdsOf
  <1>5. InStep(ms) => InStep(t)
    BY <1>1, <1>3 DEF InStep
  <1>6. Distinct(ms) /\ i \notin IdsOf(ms) => Distinct(t)
    BY <1>1, <1>3 DEF Distinct, IdsOf
  <1> QED BY <1>2, <1>3, <1>4, <1>5, <1>6

(* Nobody does. *)
LEMMA NobodySeated ==
  ASSUME NEW M, NEW ms \in Seq(M)
  PROVE  ms \o <<>> = ms
OBVIOUS

(* The votes change, and the members stay. *)
LEMMA SameMembers ==
  ASSUME NEW ms \in Seq(Member), NEW t, DOMAIN t = DOMAIN ms, Len(t) = Len(ms),
         \A k \in DOMAIN ms : t[k].id = ms[k].id
  PROVE  /\ IdsOf(t) = IdsOf(ms)
         /\ Distinct(ms) => Distinct(t)
PROOF
  <1>1. IdsOf(t) = IdsOf(ms)
    BY DEF IdsOf
  <1>2. Distinct(ms) => Distinct(t)
    BY DEF Distinct
  <1> QED BY <1>1, <1>2

(* A list with one id per seat has as many ids as seats, and the other way
   round. *)
LEMMA DistinctIsCounted ==
  ASSUME NEW ms \in Seq(Member), Distinct(ms)
  PROVE  Cardinality(IdsOf(ms)) = Len(ms)
PROOF
  <1> DEFINE f == [k \in 1 .. Len(ms) |-> ms[k].id]
  <1>1. Len(ms) \in Nat /\ DOMAIN ms = 1 .. Len(ms)
    OBVIOUS
  <1>2. f \in Bijection(1 .. Len(ms), IdsOf(ms))
    <2>1. f \in [1 .. Len(ms) -> IdsOf(ms)]
      BY <1>1 DEF IdsOf
    <2>2. \A a, b \in 1 .. Len(ms) : f[a] = f[b] => a = b
      BY <1>1 DEF Distinct
    <2>3. \A i \in IdsOf(ms) : \E k \in 1 .. Len(ms) : f[k] = i
      BY <1>1 DEF IdsOf
    <2> HIDE DEF f
    <2> QED BY <2>1, <2>2, <2>3 DEF Bijection, Injection, Surjection, IsInjective
  <1>3. ExistsBijection(1 .. Len(ms), IdsOf(ms))
    BY <1>2 DEF ExistsBijection
  <1> QED BY <1>1, <1>3, FS_CountingElements

-----------------------------------------------------------------------------
(* What an update makes of the document. *)

(* The document is a record. *)
LEMMA DocumentFields ==
  ASSUME NEW r \in Document
  PROVE  /\ r.status \in {"LOBBY", "STARTED", "CLOSED"} /\ r.host \in Humans
         /\ r.game \in GameIds \cup {None} /\ r.members \in Seq(Member)
         /\ r.watchers \subseteq Humans /\ r.banned \subseteq Humans
         /\ r.cap \in Nat /\ r.settings \in Settings[slow] \cup {Default}
BY DEF Document

AsUpdated(w, r) ==
  /\ r.status = IF "status" \in DOMAIN w.set THEN w.set["status"] ELSE room.status
  /\ r.host = IF "host" \in DOMAIN w.set THEN w.set["host"] ELSE room.host
  /\ r.game = IF "game" \in DOMAIN w.set THEN w.set["game"] ELSE room.game
  /\ r.members = (IF "members" \in DOMAIN w.set THEN w.set["members"]
                  ELSE room.members) \o w.push
  /\ r.watchers = (room.watchers \ w.unwatch) \cup w.watch
  /\ r.banned = room.banned \cup w.ban
  /\ r.cap = IF "cap" \in DOMAIN w.set THEN w.set["cap"] ELSE room.cap
  /\ r.settings = IF "settings" \in DOMAIN w.set THEN w.set["settings"] ELSE room.settings
  /\ r = [status |-> r.status, host |-> r.host, game |-> r.game,
          members |-> r.members, watchers |-> r.watchers, banned |-> r.banned,
          cap |-> r.cap, settings |-> r.settings]

LEMMA UpdatedFields ==
  ASSUME NEW w, NEW r, r = Updated(w)
  PROVE  AsUpdated(w, r)
BY DEF Updated, AsUpdated

LEMMA ShapedLands ==
  ASSUME TypeOK, Shaped(room), NEW w, Formed(w), NEW r, r = Updated(w)
  PROVE  Shaped(r)
PROOF
  <1>0. AsUpdated(w, r)
    BY UpdatedFields
  <1>1. /\ room.status \in {"LOBBY", "STARTED", "CLOSED"} /\ room.host \in Humans
        /\ room.game \in GameIds \cup {None} /\ room.members \in Seq(Member)
        /\ room.watchers \subseteq Humans /\ room.banned \subseteq Humans
        /\ room.cap \in Nat /\ room.settings \in Settings[slow] \cup {Default}
    BY DocumentFields DEF TypeOK
  <1>2. /\ r.status \in {"LOBBY", "STARTED", "CLOSED"} /\ r.host \in Humans
        /\ r.game \in GameIds \cup {None}
    BY <1>0, <1>1 DEF Formed, AsUpdated
  <1>3. r.members \in Seq(Member)
    <2> DEFINE ms == IF "members" \in DOMAIN w.set THEN w.set["members"] ELSE room.members
    <2>1. ms \in Seq(Member) /\ w.push \in Seq(Member)
      BY <1>1 DEF Formed
    <2>2. r.members = ms \o w.push
      BY <1>0 DEF AsUpdated
    <2> HIDE DEF ms
    <2> QED BY <2>1, <2>2
  <1>4. /\ r.watchers \subseteq Humans /\ r.banned \subseteq Humans
        /\ r.cap \in Nat /\ r.settings \in Settings[slow] \cup {Default}
    <2>1. r.watchers = (room.watchers \ w.unwatch) \cup w.watch
      BY <1>0 DEF AsUpdated
    <2>2. r.banned = room.banned \cup w.ban
      BY <1>0 DEF AsUpdated
    <2>3. r.cap = IF "cap" \in DOMAIN w.set THEN w.set["cap"] ELSE room.cap
      BY <1>0 DEF AsUpdated
    <2>4. r.settings = IF "settings" \in DOMAIN w.set THEN w.set["settings"]
                       ELSE room.settings
      BY <1>0 DEF AsUpdated
    <2> QED BY <1>1, <2>1, <2>2, <2>3, <2>4 DEF Formed
  <1>5. r \in Document
    <2>1. r = [status |-> r.status, host |-> r.host, game |-> r.game,
               members |-> r.members, watchers |-> r.watchers, banned |-> r.banned,
               cap |-> r.cap, settings |-> r.settings]
      BY <1>0 DEF AsUpdated
    <2> QED BY <1>2, <1>3, <1>4, <2>1 DEF Document
  <1>6. r.status = "STARTED" => r.game = room.game /\ room.status = "STARTED"
    BY <1>0 DEF Formed, AsUpdated
  <1>7. r.game # None => r.game = room.game
    BY <1>0 DEF Formed, AsUpdated
  <1> QED BY <1>5, <1>6, <1>7 DEF Shaped

(* The lists of spectators and of the removed change, and nobody's seat. *)
LEMMA ListsLand ==
  ASSUME TypeOK, Right(room), NEW w, Formed(w), NEW r, r = Updated(w),
         DOMAIN w.set = {}, w.push = <<>>,
         slow \in {"settings", "host", "start", "vote"} =>
           /\ IdsOf(room.members) \cap ((room.watchers \ w.unwatch) \cup w.watch) = {}
           /\ (room.banned \cup w.ban) \cap
                (((room.watchers \ w.unwatch) \cup w.watch) \cup IdsOf(room.members)) = {}
  PROVE  Right(r)
PROOF
  <1>0. AsUpdated(w, r)
    BY UpdatedFields
  <1>1. /\ r.status = room.status /\ r.host = room.host /\ r.game = room.game
        /\ r.watchers = (room.watchers \ w.unwatch) \cup w.watch
        /\ r.banned = room.banned \cup w.ban /\ r.cap = room.cap
    BY <1>0 DEF AsUpdated
  <1>2. r.members = room.members
    BY <1>0, NobodySeated, DocumentFields DEF TypeOK, AsUpdated
  <1>3. Shaped(r)
    BY ShapedLands DEF Right
  <1>4. slow # "over" => VotesIn(r)
    BY <1>1, <1>2 DEF Right, VotesIn
  <1>5. slow \notin {"join", "settings", "removeBot"} => FitsIn(r)
    BY <1>1, <1>2 DEF Right, FitsIn
  <1>6. slow \in {"join", "watch", "settings", "start", "vote"} => HostedIn(r)
    BY <1>1, <1>2 DEF Right, HostedIn
  <1>7. slow \in {"settings", "host", "start", "vote"} => PlacesIn(r)
    BY <1>1, <1>2 DEF Right, PlacesIn
  <1>8. slow \notin {"start", "removeBot", "over"} => TableIn(r)
    BY <1>1, <1>2 DEF Right, TableIn
  <1> QED BY <1>3, <1>4, <1>5, <1>6, <1>7, <1>8 DEF Right

(* A seat is added in the lobby. *)
LEMMA SeatLands ==
  ASSUME TypeOK, Right(room), NEW w, Formed(w), NEW r, r = Updated(w), DOMAIN w.set = {},
         NEW i \in Ids, w.push = <<Seated(i)>>, w.watch = {}, w.ban = {},
         room.status = "LOBBY",
         slow \notin {"join", "settings", "removeBot"} => Len(room.members) < room.cap,
         slow \in {"settings", "host", "start", "vote"} =>
           /\ i \notin IdsOf(room.members) \cup room.banned
           /\ i \notin room.watchers \ w.unwatch
  PROVE  Right(r)
PROOF
  <1>0. AsUpdated(w, r)
    BY UpdatedFields
  <1>1. /\ r.status = room.status /\ r.host = room.host
        /\ r.watchers = room.watchers \ w.unwatch
        /\ r.banned = room.banned /\ r.cap = room.cap
        /\ r.members = room.members \o <<Seated(i)>>
    BY <1>0 DEF AsUpdated
  <1>2. room.members \in Seq(Member) /\ room.cap \in Nat
    BY DocumentFields DEF TypeOK
  <1>3. Shaped(r)
    BY ShapedLands DEF Right
  <1>4. /\ r.members \in Seq(Member) /\ Len(r.members) = Len(room.members) + 1
        /\ IdsOf(r.members) = IdsOf(room.members) \cup {i}
        /\ InStep(room.members) => InStep(r.members)
        /\ Distinct(room.members) /\ i \notin IdsOf(room.members) => Distinct(r.members)
    BY <1>1, <1>2, SeatedFacts
  <1>5. slow # "over" => VotesIn(r)
    BY <1>1, <1>4 DEF Right, VotesIn
  <1>6. slow \notin {"join", "settings", "removeBot"} => FitsIn(r)
    BY <1>1, <1>2, <1>4 DEF Right, FitsIn
  <1>7. slow \in {"join", "watch", "settings", "start", "vote"} => HostedIn(r)
    BY <1>1, <1>4 DEF Right, HostedIn
  <1>8. slow \in {"settings", "host", "start", "vote"} => PlacesIn(r)
    BY <1>1, <1>4 DEF Right, PlacesIn
  <1>9. slow \notin {"start", "removeBot", "over"} => TableIn(r)
    BY <1>1 DEF TableIn
  <1> QED BY <1>3, <1>5, <1>6, <1>7, <1>8, <1>9 DEF Right

(* The list of members is replaced, by some of the members there are. *)
LEMMA MembersLand ==
  ASSUME TypeOK, Right(room), NEW w, Formed(w), NEW r, r = Updated(w), w.push = <<>>,
         DOMAIN w.set \subseteq {"members", "host", "status"},
         "status" \in DOMAIN w.set => w.set["status"] = "CLOSED",
         NEW ms, "members" \in DOMAIN w.set, ms = w.set["members"],
         Len(ms) <= Len(room.members),
         \A k \in DOMAIN ms : \E a \in DOMAIN room.members : ms[k] = room.members[a],
         Distinct(room.members) => Distinct(ms),
         room.status = "LOBBY" \/ Over(room.game),
         \/ "status" \in DOMAIN w.set
         \/ "host" \in DOMAIN w.set /\ w.set["host"] \in IdsOf(ms)
         \/ "host" \notin DOMAIN w.set /\ (room.host \in IdsOf(room.members)
                                             => room.host \in IdsOf(ms)),
         slow \in {"settings", "host", "start", "vote"} =>
           /\ IdsOf(ms) \cap ((room.watchers \ w.unwatch) \cup w.watch) = {}
           /\ (room.banned \cup w.ban) \cap
                (((room.watchers \ w.unwatch) \cup w.watch) \cup IdsOf(ms)) = {}
  PROVE  Right(r)
PROOF
  <1>0. AsUpdated(w, r)
    BY UpdatedFields
  <1>1. /\ r.status = IF "status" \in DOMAIN w.set THEN "CLOSED" ELSE room.status
        /\ r.host = IF "host" \in DOMAIN w.set THEN w.set["host"] ELSE room.host
        /\ r.game = room.game
        /\ r.watchers = (room.watchers \ w.unwatch) \cup w.watch
        /\ r.banned = room.banned \cup w.ban /\ r.cap = room.cap
    BY <1>0 DEF AsUpdated
  <1>2. r.members = ms
    <2>1. ms \in Seq(Member) /\ r.members = ms \o <<>>
      BY <1>0 DEF Formed, AsUpdated
    <2> QED BY <2>1, NobodySeated
  <1>3. Shaped(r)
    BY ShapedLands DEF Right
  <1>4. /\ room.cap \in Nat /\ Len(room.members) \in Nat /\ Len(ms) \in Nat
        /\ room.status \in {"LOBBY", "STARTED", "CLOSED"}
    BY DocumentFields DEF TypeOK, Formed
  <1>5. slow # "over" => VotesIn(r)
    BY <1>1, <1>2 DEF Right, VotesIn, InStep
  <1>6. slow \notin {"join", "settings", "removeBot"} => FitsIn(r)
    BY <1>1, <1>2, <1>4 DEF Right, FitsIn
  <1>7. slow \in {"join", "watch", "settings", "start", "vote"} => HostedIn(r)
    BY <1>1, <1>2 DEF Right, HostedIn
  <1>8. slow \in {"settings", "host", "start", "vote"} => PlacesIn(r)
    BY <1>1, <1>2 DEF Right, PlacesIn
  <1>9. slow \notin {"start", "removeBot", "over"} => TableIn(r)
    BY <1>1, <1>2 DEF TableIn, Over
  <1> QED BY <1>3, <1>5, <1>6, <1>7, <1>8, <1>9 DEF Right

(* The settings change with the ceiling, the host, or the room is closed. *)
LEMMA RulesLand ==
  ASSUME TypeOK, Right(room), NEW w, Formed(w), NEW r, r = Updated(w),
         w.push = <<>>, w.watch = {}, w.ban = {},
         room.status = "LOBBY",
         DOMAIN w.set \subseteq {"settings", "cap", "host", "status"},
         "status" \in DOMAIN w.set => w.set["status"] = "CLOSED",
         slow \notin {"join", "settings", "removeBot"} /\ "cap" \in DOMAIN w.set
           => Len(room.members) <= w.set["cap"],
         slow \in {"join", "watch", "settings", "start", "vote"} /\ "host" \in DOMAIN w.set
           => w.set["host"] \in IdsOf(room.members)
  PROVE  Right(r)
PROOF
  <1>0. AsUpdated(w, r)
    BY UpdatedFields
  <1>1. /\ r.status = IF "status" \in DOMAIN w.set THEN "CLOSED" ELSE "LOBBY"
        /\ r.host = IF "host" \in DOMAIN w.set THEN w.set["host"] ELSE room.host
        /\ r.watchers = room.watchers \ w.unwatch /\ r.banned = room.banned
        /\ r.cap = IF "cap" \in DOMAIN w.set THEN w.set["cap"] ELSE room.cap
    BY <1>0 DEF AsUpdated
  <1>2. r.members = room.members
    BY <1>0, NobodySeated, DocumentFields DEF TypeOK, AsUpdated
  <1>3. Shaped(r)
    BY ShapedLands DEF Right
  <1>4. slow # "over" => VotesIn(r)
    BY <1>1, <1>2 DEF Right, VotesIn
  <1>5. slow \notin {"join", "settings", "removeBot"} => FitsIn(r)
    BY <1>1, <1>2 DEF Right, FitsIn
  <1>6. slow \in {"join", "watch", "settings", "start", "vote"} => HostedIn(r)
    BY <1>1, <1>2 DEF Right, HostedIn
  <1>7. slow \in {"settings", "host", "start", "vote"} => PlacesIn(r)
    BY <1>1, <1>2 DEF Right, PlacesIn
  <1>8. slow \notin {"start", "removeBot", "over"} => TableIn(r)
    BY <1>1 DEF TableIn
  <1> QED BY <1>3, <1>4, <1>5, <1>6, <1>7, <1>8 DEF Right

(* A finished room goes back to the lobby. *)
LEMMA ResetLands ==
  ASSUME TypeOK, Right(room), NEW w, Formed(w), NEW r, r = Updated(w),
         w.push = <<>>, w.watch = {}, w.ban = {},
         DOMAIN w.set = {"status", "game", "members"}, w.set["status"] = "LOBBY",
         InStep(w.set["members"]),
         slow \notin {"join", "settings", "removeBot"} => Len(w.set["members"]) <= room.cap,
         slow \in {"join", "watch", "settings", "start", "vote"}
           => IdsOf(w.set["members"]) = IdsOf(room.members),
         room.status = "STARTED",
         slow \in {"settings", "host", "start", "vote"}
           => /\ IdsOf(w.set["members"]) = IdsOf(room.members)
              /\ Distinct(w.set["members"]) /\ w.unwatch = {}
  PROVE  Right(r)
PROOF
  <1>0. AsUpdated(w, r)
    BY UpdatedFields
  <1> DEFINE ms == w.set["members"]
  <1>1. /\ r.status = "LOBBY" /\ r.host = room.host
        /\ r.watchers = room.watchers \ w.unwatch /\ r.banned = room.banned
        /\ r.cap = room.cap /\ r.members = ms \o <<>>
    BY <1>0 DEF AsUpdated
  <1>2. r.members = ms /\ ms \in Seq(Member) /\ InStep(ms)
    BY <1>1, NobodySeated DEF Formed
  <1>3. Shaped(r)
    BY ShapedLands DEF Right
  <1>4. slow # "over" => VotesIn(r)
    BY <1>1, <1>2 DEF VotesIn
  <1>5. slow \notin {"join", "settings", "removeBot"} => FitsIn(r)
    BY <1>1, <1>2 DEF FitsIn
  <1>6. slow \in {"join", "watch", "settings", "start", "vote"} => HostedIn(r)
    BY <1>1, <1>2 DEF Right, HostedIn
  <1>7. slow \in {"settings", "host", "start", "vote"} => PlacesIn(r)
    BY <1>1, <1>2 DEF Right, PlacesIn
  <1>8. slow \notin {"start", "removeBot", "over"} => TableIn(r)
    BY <1>1 DEF TableIn
  <1> QED BY <1>3, <1>4, <1>5, <1>6, <1>7, <1>8 DEF Right


-----------------------------------------------------------------------------
(* From the updates to the steps that send them. *)

LEMMA RightStays ==
  ASSUME NEW r, Right(r), room' = r, UNCHANGED <<games, slow>>
  PROVE  Right(room)'
PROOF
  <1>1. Shaped(room)'
    BY DEF Right, Shaped, Document, Member, GameIds
  <1>2. (slow # "over" => VotesIn(room))'
    BY DEF Right, VotesIn, InStep
  <1>3. (slow \notin {"join", "settings", "removeBot"} => FitsIn(room))'
    BY DEF Right, FitsIn
  <1>4. (slow \in {"join", "watch", "settings", "start", "vote"} => HostedIn(room))'
    BY DEF Right, HostedIn, IdsOf
  <1>5. (slow \in {"settings", "host", "start", "vote"} => PlacesIn(room))'
    BY DEF Right, PlacesIn, IdsOf, Distinct
  <1>6. (slow \notin {"start", "removeBot", "over"} => TableIn(room))'
    BY DEF Right, TableIn, IdsOf
  <1> QED BY <1>1, <1>2, <1>3, <1>4, <1>5, <1>6 DEF Right

(* The games and the room's shape give the type. *)
LEMMA TypeStays ==
  ASSUME TypeOK, Right(room)', games' \in [GameIds -> Game], UNCHANGED slow
  PROVE  TypeOK'
BY DEF TypeOK, Right, Shaped, GameIds, Game, Ids

(* A game that is over stays over, and no room starts it again or changes its
   ceiling while it is at it. *)
EndedStay ==
  /\ UNCHANGED slow
  /\ \A g \in GameIds : games[g].life = "over" =>
       /\ games'[g].life = "over"
       /\ room'.status = "STARTED" /\ room'.game = g
            => room.status = "STARTED" /\ room.game = g /\ room'.cap = room.cap

LEMMA FormedStays ==
  ASSUME NEW w, Formed(w), UNCHANGED slow
  PROVE  Formed(w)'
BY DEF Formed, Asks, Member, GameIds, InStep, Ids

(* A pending request stays one of its class. *)
LEMMA SlowedStays ==
  ASSUME NEW w, Slowed(w), EndedStay
  PROVE  Slowed(w)'
PROOF
  <1>1. UNCHANGED slow
    BY DEF EndedStay
  <1>2. (slow \notin {"over", "vote"} => Formed(w))'
    BY <1>1, FormedStays DEF Slowed
  <1>3. (slow = "join" => SlowJoin(w))' /\ (slow = "watch" => SlowWatch(w))'
    BY <1>1 DEF Slowed, SlowJoin, SlowWatch, Asks
  <1>4. /\ (slow \in {"array", "seats"} => SlowArray(w))'
        /\ (slow = "removeBot" => SlowBot(w))'
    BY <1>1 DEF Slowed, SlowArray, SlowBot, Asks, InStep
  <1>5. (slow = "settings" => SlowSettings(w))' /\ (slow = "host" => SlowHost(w))'
    BY <1>1 DEF Slowed, SlowSettings, SlowHost, Asks
  <1>6. (slow = "start" => SlowStart(w))'
    BY <1>1 DEF Slowed, SlowStart, Asks
  <1>7. (slow = "reset" => SlowReset(w))'
    <2> SUFFICES ASSUME slow = "reset"
                 PROVE  SlowReset(w)'
      BY <1>1
    <2>1. SlowReset(w)
      BY DEF Slowed
    <2> DEFINE g == w.if["game"]
    <2>2. g \in GameIds /\ games[g].life = "over"
      BY <2>1 DEF SlowReset
    <2>3. games'[g].life = "over" /\ (room'.status = "STARTED" /\ room'.game = g
            => room.status = "STARTED" /\ room.game = g /\ room'.cap = room.cap)
      BY <2>2 DEF EndedStay
    <2>4. g \in GameIds'
      BY <1>1, <2>2 DEF GameIds
    <2> QED BY <2>1, <2>3, <2>4 DEF SlowReset, Asks, InStep
  <1>8. (slow = "over" => SlowLeave(w))'
    <2> SUFFICES ASSUME slow = "over"
                 PROVE  SlowLeave(w)'
      BY <1>1
    <2>1. SlowLeave(w)
      BY DEF Slowed
    <2>2. w.op = "leave" => Formed(w.w)'
      BY <1>1, <2>1, FormedStays DEF SlowLeave
    <2> QED BY <2>1, <2>2 DEF SlowLeave
  <1>9. (slow = "vote" => SlowVote(w))'
    BY <1>1 DEF Slowed, SlowVote, GameIds
  <1> QED BY <1>2, <1>3, <1>4, <1>5, <1>6, <1>7, <1>8, <1>9 DEF Slowed

LEMMA NothingEnds ==
  ASSUME UNCHANGED <<room, games, slow>>
  PROVE  EndedStay
BY DEF EndedStay

LEMMA UpdateEndsNothing ==
  ASSUME TypeOK, NEW w, Formed(w), Matches(w), room' = Updated(w), UNCHANGED <<games, slow>>
  PROVE  EndedStay
PROOF
  <1>1. AsUpdated(w, room')
    BY UpdatedFields
  <1>2. room'.status = "STARTED" => room.status = "STARTED"
    BY <1>1 DEF AsUpdated, Formed
  <1>3. \A g \in GameIds : room'.game = g => room.game = g
    BY <1>1, RoomAssumption DEF AsUpdated, Formed, GameIds
  <1>4. room.status = "STARTED" => "cap" \notin DOMAIN w.set
    BY DEF Formed, Asks, Matches, FieldOf
  <1>5. room.status = "STARTED" => room'.cap = room.cap
    BY <1>1, <1>4 DEF AsUpdated
  <1> QED BY <1>2, <1>3, <1>5 DEF EndedStay

(* Nothing that a step changes disturbs the invariant. *)
LEMMA Undisturbed ==
  ASSUME Inv, UNCHANGED <<room, games, slow>>, req' # None => Slowed(req')
  PROVE  Inv'
PROOF
  <1>1. Right(room)'
    BY RightStays DEF Inv
  <1>2. TypeOK'
    BY <1>1, TypeStays DEF Inv, TypeOK
  <1>3. req' # None => Slowed(req)'
    BY NothingEnds, SlowedStays
  <1> QED BY <1>1, <1>2, <1>3 DEF Inv, Pending

LEMMA WriteKeeps ==
  ASSUME Inv, NEW w, Formed(w), w.players = {}, Matches(w) => Right(Updated(w)),
         Write(w), UNCHANGED slow, req' # None => Slowed(req')
  PROVE  Inv'
PROOF
  <1>1. CASE ~Matches(w)
    BY <1>1, Undisturbed DEF Write
  <1>2. CASE Matches(w)
    <2>1. room' = Updated(w) /\ UNCHANGED games
      BY <1>2 DEF Write
    <2>2. Right(room)'
      BY <1>2, <2>1, RightStays
    <2>3. TypeOK'
      BY <2>1, <2>2, TypeStays DEF Inv, TypeOK
    <2>4. EndedStay
      BY <1>2, <2>1, UpdateEndsNothing DEF Inv
    <2>5. req' # None => Slowed(req)'
      BY <2>4, SlowedStays
    <2> QED BY <2>2, <2>3, <2>5 DEF Inv, Pending
  <1> QED BY <1>1, <1>2

LEMMA SendKeeps ==
  ASSUME Inv, NEW w, NEW class, Send(class, w), Formed(w), w.players = {},
         Matches(w) => Right(Updated(w)), slow = class => Slowed(w)
  PROVE  Inv'
PROOF
  <1>1. CASE Write(w) /\ UNCHANGED <<req, slow>>
    BY <1>1, WriteKeeps DEF Inv, Pending
  <1>2. CASE slow = class /\ req' = w /\ UNCHANGED <<room, games, slow>>
    BY <1>2, Undisturbed
  <1> QED BY <1>1, <1>2 DEF Send


-----------------------------------------------------------------------------
(* The requests, by what they ask for. *)

LEMMA RoomFacts ==
  ASSUME Inv
  PROVE  /\ TypeOK /\ Right(room)
         /\ room.status \in {"LOBBY", "STARTED", "CLOSED"} /\ room.host \in Humans
         /\ room.game \in GameIds \cup {None} /\ room.members \in Seq(Member)
         /\ room.watchers \subseteq Humans /\ room.banned \subseteq Humans
         /\ room.cap \in Nat /\ Len(room.members) \in Nat
         /\ IdsOf(room.members) \subseteq Ids
         /\ slow # "over" /\ room.status = "LOBBY" => InStep(room.members)
PROOF
  <1>1. room.members \in Seq(Member) /\ Len(room.members) \in Nat
    BY DocumentFields DEF Inv, TypeOK
  <1>2. IdsOf(room.members) \subseteq Ids
    <2>1. \A k \in DOMAIN room.members : room.members[k] \in Member
      BY <1>1
    <2> QED BY <2>1 DEF IdsOf, Member
  <1> QED BY <1>1, <1>2, DocumentFields DEF Inv, TypeOK, Right, VotesIn

(* A seat. *)
LEMMA SeatSent ==
  ASSUME Inv, NEW w, w.op = "update", w.players = {}, w.set = <<>>,
         NEW i \in Ids, w.push = <<Seated(i)>>, w.watch = {}, w.ban = {},
         Asks(w, "status", "LOBBY"), room.status = "LOBBY", Len(room.members) < room.cap,
         slow \in {"settings", "host", "start", "vote"} => i \notin IdsOf(room.members),
         i \notin room.banned, i \notin room.watchers \ w.unwatch,
         Send("join", w)
  PROVE  Inv'
PROOF
  <1>1. DOMAIN w.set = {} /\ w.push \in Seq(Member) /\ InStep(w.push)
    <2>1. room.members \in Seq(Member)
      BY RoomFacts
    <2>2. <<Seated(i)>> \in Seq(Member) /\ InStep(<<Seated(i)>>)
      BY <2>1, SeatedFacts
    <2> QED BY <2>2
  <1>2. Formed(w)
    BY <1>1 DEF Formed
  <1>3. Right(Updated(w))
    BY <1>1, <1>2, RoomFacts, SeatLands
  <1>4. slow = "join" => Slowed(w)
    BY <1>1, <1>2 DEF Slowed, SlowJoin
  <1> QED BY <1>2, <1>3, <1>4, SendKeeps

(* A change of the list of spectators, or a removal from it. *)
LEMMA ListsSent ==
  ASSUME Inv, NEW w, w.op = "update", w.players = {}, w.set = <<>>, w.push = <<>>,
         w.watch \subseteq Humans, w.ban \subseteq Humans,
         NEW class \in {"watch", "array"}, class = "watch" => w.ban = {},
         IdsOf(room.members) \cap w.watch = {}, (room.banned \cup w.ban) \cap w.watch = {},
         w.ban \subseteq w.unwatch, w.ban \cap IdsOf(room.members) = {} \/
           slow \notin {"settings", "host", "start", "vote"},
         Send(class, w)
  PROVE  Inv'
PROOF
  <1>1. DOMAIN w.set = {} /\ w.push \in Seq(Member) /\ InStep(w.push)
    BY DEF InStep
  <1>2. Formed(w)
    BY <1>1 DEF Formed
  <1>3. Right(Updated(w))
    <2>1. slow \in {"settings", "host", "start", "vote"} => PlacesIn(room)
      BY RoomFacts DEF Right
    <2>2. slow \in {"settings", "host", "start", "vote"} =>
            /\ IdsOf(room.members) \cap ((room.watchers \ w.unwatch) \cup w.watch) = {}
            /\ (room.banned \cup w.ban) \cap
                 (((room.watchers \ w.unwatch) \cup w.watch) \cup IdsOf(room.members)) = {}
      BY <2>1 DEF PlacesIn
    <2> QED BY <1>1, <1>2, <2>2, RoomFacts, ListsLand
  <1>4. slow = class => Slowed(w)
    BY <1>1, <1>2 DEF Slowed, SlowWatch, SlowArray
  <1> QED BY <1>2, <1>3, <1>4, SendKeeps

(* The members without some of them, or in another order, decided in the lobby. *)
LEMMA MembersSent ==
  ASSUME Inv, NEW w, w.op = "update", w.players = {}, w.push = <<>>,
         w.watch \subseteq Humans, w.ban \subseteq Humans,
         NEW class \in {"array", "seats", "removeBot"},
         class # "removeBot" => /\ Asks(w, "status", "LOBBY")
                                /\ Asks(w, "size", Len(room.members)),
         class = "removeBot" => w.watch = {} /\ w.ban = {},
         room.status = "LOBBY",
         DOMAIN w.set \subseteq {"members", "host", "status"},
         class = "removeBot" => DOMAIN w.set = {"members"},
         "status" \in DOMAIN w.set => w.set["status"] = "CLOSED",
         "host" \in DOMAIN w.set => w.set["host"] \in Humans,
         NEW ms \in Seq(Member), "members" \in DOMAIN w.set, ms = w.set["members"],
         Len(ms) <= Len(room.members),
         \A k \in DOMAIN ms : \E a \in DOMAIN room.members : ms[k] = room.members[a],
         Distinct(room.members) => Distinct(ms),
         \/ "status" \in DOMAIN w.set
         \/ "host" \in DOMAIN w.set /\ w.set["host"] \in IdsOf(ms)
         \/ "host" \notin DOMAIN w.set /\ (room.host \in IdsOf(room.members)
                                             => room.host \in IdsOf(ms)),
         slow \in {"settings", "host", "start", "vote"} /\ PlacesIn(room) =>
           /\ IdsOf(ms) \cap ((room.watchers \ w.unwatch) \cup w.watch) = {}
           /\ (room.banned \cup w.ban) \cap
                (((room.watchers \ w.unwatch) \cup w.watch) \cup IdsOf(ms)) = {},
         Send(class, w)
  PROVE  Inv'
PROOF
  <1>1. w.push \in Seq(Member) /\ InStep(w.push)
    BY DEF InStep
  <1>2. Formed(w)
    BY <1>1 DEF Formed
  <1>3. Right(Updated(w))
    <2>1. slow \in {"settings", "host", "start", "vote"} => PlacesIn(room)
      BY RoomFacts DEF Right
    <2> QED BY <1>1, <1>2, <2>1, RoomFacts, MembersLand
  <1>4. slow = class => Slowed(w)
    <2> SUFFICES ASSUME slow = class PROVE Slowed(w)
      OBVIOUS
    <2>1. InStep(ms)
      BY RoomFacts DEF InStep
    <2> QED BY <1>2, <2>1 DEF Slowed, SlowArray, SlowBot, Asks
  <1> QED BY <1>2, <1>3, <1>4, SendKeeps

(* The settings, the host, the end of the room. *)
LEMMA RulesSent ==
  ASSUME Inv, NEW w, w.op = "update", w.players = {}, w.push = <<>>, w.watch = {},
         w.ban = {}, NEW class \in {"settings", "host"}, Asks(w, "status", "LOBBY"),
         room.status = "LOBBY",
         class = "settings" => /\ DOMAIN w.set = {"settings", "cap"}
                               /\ w.set["settings"] \in Settings[slow]
                               /\ w.set["cap"] \in Nat
                               /\ Len(room.members) <= w.set["cap"],
         class = "host" => \/ DOMAIN w.set = {"host"} /\ w.set["host"] \in Humans
                              /\ w.set["host"] \in IdsOf(room.members)
                           \/ DOMAIN w.set = {"status"} /\ w.set["status"] = "CLOSED",
         Send(class, w)
  PROVE  Inv'
PROOF
  <1>1. w.push \in Seq(Member) /\ InStep(w.push)
    BY DEF InStep
  <1>2. Formed(w)
    BY <1>1 DEF Formed
  <1>3. Right(Updated(w))
    <2>1. /\ DOMAIN w.set \subseteq {"settings", "cap", "host", "status"}
          /\ "status" \in DOMAIN w.set => w.set["status"] = "CLOSED"
          /\ "cap" \in DOMAIN w.set => Len(room.members) <= w.set["cap"]
          /\ "host" \in DOMAIN w.set => w.set["host"] \in IdsOf(room.members)
      OBVIOUS
    <2> QED BY <1>1, <1>2, <2>1, RoomFacts, RulesLand
  <1>4. slow = class => Slowed(w)
    BY <1>2 DEF Slowed, SlowSettings, SlowHost
  <1> QED BY <1>2, <1>3, <1>4, SendKeeps


-----------------------------------------------------------------------------
(* Seats and lists, one operation at a time. *)

LEMMA SameSizeAsks ==
  ASSUME NEW w, w.if = SameSize
  PROVE  Asks(w, "status", "LOBBY") /\ Asks(w, "size", Len(room.members))
BY DEF Asks, SameSize

LEMMA JoinKeeps ==
  ASSUME Inv, NEW u \in Humans, Join(u)
  PROVE  Inv'
PROOF
  <1>1. /\ room.status = "LOBBY" /\ u \notin room.banned \cup room.watchers
        /\ u \notin IdsOf(room.members) /\ u \in Ids
    BY DEF Join, Lobby, IsMember, Ids
  <1>2. CASE /\ Len(room.members) < room.cap
             /\ Send("join", [Update(SameSize) EXCEPT !.absent = {u}, !.push = <<Seated(u)>>])
    <2> DEFINE w == [Update(SameSize) EXCEPT !.absent = {u}, !.push = <<Seated(u)>>]
    <2>1. /\ w.op = "update" /\ w.if = SameSize /\ w.players = {} /\ w.set = <<>>
          /\ w.push = <<Seated(u)>> /\ w.watch = {} /\ w.ban = {} /\ w.unwatch = {}
      BY DEF Update
    <2>2. Send("join", w)
      BY <1>2
    <2> HIDE DEF w
    <2> QED BY <1>1, <1>2, <2>1, <2>2, SameSizeAsks, SeatSent
  <1>3. CASE Send("watch", [Update(<<>>) EXCEPT !.unseen = {u}, !.watch = {u}])
    <2> DEFINE w == [Update(<<>>) EXCEPT !.unseen = {u}, !.watch = {u}]
    <2>1. /\ w.op = "update" /\ w.players = {} /\ w.set = <<>>
          /\ w.push = <<>> /\ w.watch = {u} /\ w.ban = {} /\ w.unwatch = {}
      BY DEF Update
    <2>2. Send("watch", w)
      BY <1>3
    <2> HIDE DEF w
    <2> QED BY <1>1, <2>1, <2>2, ListsSent
  <1> QED BY <1>2, <1>3 DEF Join

LEMMA BecomePlayerKeeps ==
  ASSUME Inv, NEW u \in Humans, BecomePlayer(u)
  PROVE  Inv'
PROOF
  <1> DEFINE w == [Update(SameSize) EXCEPT
                     !.watching = {u}, !.push = <<Seated(u)>>, !.unwatch = {u}]
  <1>1. /\ room.status = "LOBBY" /\ u \in room.watchers \ room.banned /\ u \in Ids
        /\ Len(room.members) < room.cap /\ Send("join", w)
    BY DEF BecomePlayer, Lobby, Ids
  <1>2. /\ w.op = "update" /\ w.if = SameSize /\ w.players = {} /\ w.set = <<>>
        /\ w.push = <<Seated(u)>> /\ w.watch = {} /\ w.ban = {} /\ w.unwatch = {u}
    BY DEF Update
  <1> HIDE DEF w
  <1>3. slow \in {"settings", "host", "start", "vote"} => u \notin IdsOf(room.members)
    <2>1. slow \in {"settings", "host", "start", "vote"} => PlacesIn(room)
      BY DEF Inv, Right
    <2> QED BY <1>1, <2>1 DEF PlacesIn
  <1> QED BY <1>1, <1>2, <1>3, SameSizeAsks, SeatSent

LEMMA AddBotKeeps ==
  ASSUME Inv, NEW b \in Bots, AddBot(b)
  PROVE  Inv'
PROOF
  <1> DEFINE w == [Update([status |-> "LOBBY", host |-> room.host,
                           size |-> Len(room.members)]) EXCEPT !.push = <<Seated(b)>>]
  <1>1. /\ room.status = "LOBBY" /\ b \notin IdsOf(room.members) /\ b \in Ids
        /\ Len(room.members) < room.cap /\ Send("join", w)
    BY DEF AddBot, Lobby, IsMember, Ids
  <1>2. /\ w.op = "update" /\ w.players = {} /\ w.set = <<>>
        /\ w.push = <<Seated(b)>> /\ w.watch = {} /\ w.ban = {} /\ w.unwatch = {}
        /\ Asks(w, "status", "LOBBY")
    BY DEF Update, Asks
  <1> HIDE DEF w
  <1>3. b \notin room.banned \cup room.watchers
    BY RoomFacts, RoomAssumption
  <1> QED BY <1>1, <1>2, <1>3, SeatSent

LEMMA SpectateKeeps ==
  ASSUME Inv, NEW u \in Humans, Spectate(u)
  PROVE  Inv'
PROOF
  <1> DEFINE w == [Update(<<>>) EXCEPT !.unseen = {u}, !.unbanned = {u}, !.watch = {u}]
  <1>1. u \notin IdsOf(room.members) /\ u \notin room.banned /\ Send("watch", w)
    BY DEF Spectate, IsMember
  <1>2. /\ w.op = "update" /\ w.players = {} /\ w.set = <<>>
        /\ w.push = <<>> /\ w.watch = {u} /\ w.ban = {} /\ w.unwatch = {}
    BY DEF Update
  <1> HIDE DEF w
  <1> QED BY <1>1, <1>2, ListsSent

(* The members without one of them. *)
LEMMA WithoutFacts ==
  ASSUME NEW ms \in Seq(Member), NEW i \in Ids
  PROVE  /\ Without(ms, i) \in Seq(Member) /\ Len(Without(ms, i)) <= Len(ms)
         /\ IdsOf(Without(ms, i)) = IdsOf(ms) \ {i}
         /\ \A k \in DOMAIN Without(ms, i) : \E a \in DOMAIN ms : Without(ms, i)[k] = ms[a]
         /\ Distinct(ms) => Distinct(Without(ms, i))
PROOF
  <1> DEFINE S == Ids \ {i}
  <1>1. IdsOf(ms) \subseteq Ids
    <2>1. \A k \in DOMAIN ms : ms[k] \in Member
      OBVIOUS
    <2> QED BY <2>1 DEF IdsOf, Member
  <1>2. IdsOf(ms) \cap S = IdsOf(ms) \ {i}
    BY <1>1
  <1>3. Without(ms, i) = Only(ms, S)
    BY DEF Without
  <1> HIDE DEF S
  <1>4. /\ Only(ms, S) \in Seq(Member) /\ Len(Only(ms, S)) <= Len(ms)
        /\ IdsOf(Only(ms, S)) = IdsOf(ms) \cap S
        /\ \A k \in DOMAIN Only(ms, S) : \E a \in DOMAIN ms : Only(ms, S)[k] = ms[a]
        /\ Distinct(ms) => Distinct(Only(ms, S))
    BY OnlyFacts
  <1> QED BY <1>2, <1>3, <1>4

LEMMA KickKeeps ==
  ASSUME Inv, NEW t \in Ids, Kick(t)
  PROVE  Inv'
PROOF
  <1>1. CASE /\ t \in room.watchers
             /\ Send("array", [Update(<<>>) EXCEPT !.watching = {t}, !.unwatch = {t},
                                                   !.ban = {t} \cap Humans])
    <2> DEFINE w == [Update(<<>>) EXCEPT !.watching = {t}, !.unwatch = {t},
                                         !.ban = {t} \cap Humans]
    <2>1. /\ w.op = "update" /\ w.players = {} /\ w.set = <<>>
          /\ w.push = <<>> /\ w.watch = {} /\ w.ban = {t} \cap Humans /\ w.unwatch = {t}
      BY DEF Update
    <2>2. Send("array", w)
      BY <1>1
    <2> HIDE DEF w
    <2>3. slow \in {"settings", "host", "start", "vote"} => t \notin IdsOf(room.members)
      <3>1. slow \in {"settings", "host", "start", "vote"} => PlacesIn(room)
        BY DEF Inv, Right
      <3> QED BY <1>1, <3>1 DEF PlacesIn
    <2> QED BY <2>1, <2>2, <2>3, ListsSent
  <1>2. CASE /\ Lobby /\ IsMember(t) /\ t \notin room.watchers
             /\ Send("array", [Update(SameSize) EXCEPT
                                 !.set = [members |-> Without(room.members, t)],
                                 !.ban = {t} \cap Humans])
    <2> DEFINE ms == Without(room.members, t)
               w == [Update(SameSize) EXCEPT !.set = [members |-> ms],
                                             !.ban = {t} \cap Humans]
    <2>1. /\ w.op = "update" /\ w.players = {} /\ w.if = SameSize
          /\ w.set = [members |-> ms]
          /\ w.push = <<>> /\ w.watch = {} /\ w.ban = {t} \cap Humans /\ w.unwatch = {}
      BY DEF Update
    <2>2. Send("array", w)
      BY <1>2
    <2> HIDE DEF w
    <2>3. /\ ms \in Seq(Member) /\ Len(ms) <= Len(room.members)
          /\ IdsOf(ms) = IdsOf(room.members) \ {t}
          /\ \A k \in DOMAIN ms : \E a \in DOMAIN room.members : ms[k] = room.members[a]
          /\ Distinct(room.members) => Distinct(ms)
      BY RoomFacts, WithoutFacts
    <2> HIDE DEF ms
    <2>4. DOMAIN w.set = {"members"} /\ w.set["members"] = ms
      BY <2>1
    <2>5. room.host # t /\ room.status = "LOBBY" /\ t \notin room.watchers
      BY <1>2 DEF Kick, Lobby
    <2>6. PlacesIn(room) =>
           /\ IdsOf(ms) \cap ((room.watchers \ w.unwatch) \cup w.watch) = {}
           /\ (room.banned \cup w.ban) \cap
                (((room.watchers \ w.unwatch) \cup w.watch) \cup IdsOf(ms)) = {}
      BY <2>1, <2>3, <2>5 DEF PlacesIn
    <2> QED BY <2>1, <2>2, <2>3, <2>4, <2>5, <2>6, SameSizeAsks, MembersSent
  <1> QED BY <1>1, <1>2 DEF Kick


(* What RoomRepo.leave writes, in three shapes: a spectator goes, the room is
   closed, or the members go on without the one who leaves. *)
LEMMA LeaveShapes ==
  ASSUME NEW u, NEW w, w = LeaveUpdate(u)
  PROVE  /\ w.op = "update" /\ w.players = {} /\ w.push = <<>> /\ w.watch = {} /\ w.ban = {}
         /\ u \in room.watchers => DOMAIN w.set = {} /\ w.unwatch = {u}
         /\ u \notin room.watchers =>
              /\ Asks(w, "status", room.status) /\ Asks(w, "size", Len(room.members))
              /\ w.unwatch = {}
              /\ \/ w.set = [status |-> "CLOSED", members |-> <<>>]
                 \/ /\ room.host = u /\ HumansOf(Without(room.members, u)) # <<>>
                    /\ w.set = [members |-> Without(room.members, u),
                                host |-> HumansOf(Without(room.members, u))[1].id]
                 \/ room.host # u /\ w.set = [members |-> Without(room.members, u)]
PROOF
  <1>1. CASE u \in room.watchers
    <2>1. w = [Update([status |-> room.status]) EXCEPT !.watching = {u}, !.unwatch = {u}]
      BY <1>1 DEF LeaveUpdate
    <2>2. w.set = <<>> /\ DOMAIN w.set = {}
      BY <2>1 DEF Update
    <2> QED BY <1>1, <2>1, <2>2 DEF Update
  <1>2. CASE u \notin room.watchers
    <2> DEFINE same == [status |-> room.status, size |-> Len(room.members)]
               rest == Without(room.members, u)
               set == IF rest = <<>> \/ (room.host = u /\ HumansOf(rest) = <<>>)
                      THEN [status |-> "CLOSED", members |-> <<>>]
                      ELSE IF room.host = u
                      THEN [members |-> rest, host |-> HumansOf(rest)[1].id]
                      ELSE [members |-> rest]
    <2>1. w = [Update(same) EXCEPT !.set = set]
      BY <1>2 DEF LeaveUpdate
    <2>2. Asks(w, "status", room.status) /\ Asks(w, "size", Len(room.members))
      BY <2>1 DEF Update, Asks
    <2>3. w.set = set
      BY <2>1 DEF Update
    <2>4. /\ w.op = "update" /\ w.players = {} /\ w.push = <<>> /\ w.watch = {} /\ w.ban = {}
          /\ w.unwatch = {}
      BY <2>1 DEF Update
    <2> QED BY <1>2, <2>2, <2>3, <2>4
  <1> QED BY <1>1, <1>2

(* The first human of a list that has one. *)
LEMMA FirstHuman ==
  ASSUME NEW ms \in Seq(Member), HumansOf(ms) # <<>>
  PROVE  HumansOf(ms)[1].id \in IdsOf(ms) \cap Humans
PROOF
  <1>1. Only(ms, Humans) \in Seq(Member) /\ IdsOf(Only(ms, Humans)) = IdsOf(ms) \cap Humans
    BY OnlyFacts
  <1>2. HumansOf(ms) = Only(ms, Humans)
    BY DEF HumansOf
  <1>3. 1 \in DOMAIN HumansOf(ms)
    BY <1>1, <1>2
  <1>4. HumansOf(ms)[1].id \in IdsOf(HumansOf(ms))
    BY <1>3 DEF IdsOf
  <1> QED BY <1>1, <1>2, <1>4

(* It is an update of the shape that may be written late. *)
LateLeave(w) ==
  /\ Formed(w) /\ w.players = {} /\ w.push = <<>>
  /\ DOMAIN w.set \subseteq {"members", "host", "status"}
  /\ "status" \in DOMAIN w.set => w.set["status"] = "CLOSED"
  /\ "members" \in DOMAIN w.set =>
       /\ Asks(w, "status", room.status) /\ Asks(w, "size", Len(room.members))
       /\ Len(w.set["members"]) <= Len(room.members)
       /\ InStep(room.members) => InStep(w.set["members"])
  /\ "members" \notin DOMAIN w.set => DOMAIN w.set = {}

LEMMA LeaveIsFormed ==
  ASSUME Inv, NEW u \in Humans, NEW w, w = LeaveUpdate(u)
  PROVE  LateLeave(w)
PROOF
  <1> DEFINE rest == Without(room.members, u)
  <1>1. /\ rest \in Seq(Member) /\ Len(rest) <= Len(room.members)
        /\ \A k \in DOMAIN rest : \E a \in DOMAIN room.members : rest[k] = room.members[a]
    BY RoomFacts, WithoutFacts DEF Ids
  <1>2. HumansOf(rest) # <<>> => HumansOf(rest)[1].id \in Humans
    BY <1>1, FirstHuman
  <1>3. InStep(room.members) => InStep(rest)
    BY <1>1 DEF InStep
  <1>4. /\ w.op = "update" /\ w.players = {} /\ w.push = <<>> /\ w.watch = {} /\ w.ban = {}
        /\ w.push \in Seq(Member) /\ InStep(w.push)
    <2>1. <<>> \in Seq(Member) /\ InStep(<<>>)
      BY DEF InStep
    <2> QED BY <2>1, LeaveShapes
  <1>5. CASE u \in room.watchers
    <2>1. DOMAIN w.set = {}
      BY <1>5, LeaveShapes
    <2> QED BY <1>4, <2>1 DEF LateLeave, Formed
  <1>6. CASE u \notin room.watchers
    <2>1. Asks(w, "status", room.status) /\ Asks(w, "size", Len(room.members))
      BY <1>6, LeaveShapes
    <2>2. CASE w.set = [status |-> "CLOSED", members |-> <<>>]
      <3>1. /\ DOMAIN w.set = {"status", "members"} /\ w.set["status"] = "CLOSED"
            /\ w.set["members"] = <<>>
        BY <2>2
      <3>2. <<>> \in Seq(Member) /\ InStep(<<>>) /\ Len(<<>>) <= Len(room.members)
        BY RoomFacts DEF InStep
      <3> QED BY <1>4, <2>1, <3>1, <3>2 DEF LateLeave, Formed
    <2>3. CASE HumansOf(rest) # <<>> /\ w.set = [members |-> rest, host |-> HumansOf(rest)[1].id]
      <3>1. /\ DOMAIN w.set = {"members", "host"} /\ w.set["members"] = rest
            /\ w.set["host"] = HumansOf(rest)[1].id
        BY <2>3
      <3> HIDE DEF rest
      <3> QED BY <1>1, <1>2, <1>3, <1>4, <2>1, <2>3, <3>1 DEF LateLeave, Formed
    <2>4. CASE w.set = [members |-> rest]
      <3>1. DOMAIN w.set = {"members"} /\ w.set["members"] = rest
        BY <2>4
      <3> HIDE DEF rest
      <3> QED BY <1>1, <1>3, <1>4, <2>1, <3>1 DEF LateLeave, Formed
    <2> QED BY <1>6, <2>2, <2>3, <2>4, LeaveShapes
  <1> QED BY <1>5, <1>6

(* Written at once it keeps the room right. *)
LEMMA LeaveIsRight ==
  ASSUME Inv, NEW u \in Humans, NEW w, w = LeaveUpdate(u),
         room.status = "LOBBY" \/ Over(room.game)
  PROVE  Right(Updated(w))
PROOF
  <1> DEFINE rest == Without(room.members, u)
  <1>1. /\ rest \in Seq(Member) /\ Len(rest) <= Len(room.members)
        /\ IdsOf(rest) = IdsOf(room.members) \ {u}
        /\ \A k \in DOMAIN rest : \E a \in DOMAIN room.members : rest[k] = room.members[a]
        /\ Distinct(room.members) => Distinct(rest)
    BY RoomFacts, WithoutFacts DEF Ids
  <1>2. Formed(w)
    BY LeaveIsFormed DEF LateLeave
  <1>3. w.push = <<>> /\ w.watch = {} /\ w.ban = {}
    BY LeaveShapes
  <1>4. slow \in {"settings", "host", "start", "vote"} => PlacesIn(room)
    BY RoomFacts DEF Right
  <1>5. CASE u \in room.watchers
    <2>1. DOMAIN w.set = {}
      BY <1>5, LeaveShapes
    <2>2. slow \in {"settings", "host", "start", "vote"} =>
            /\ IdsOf(room.members) \cap ((room.watchers \ w.unwatch) \cup w.watch) = {}
            /\ (room.banned \cup w.ban) \cap
                 (((room.watchers \ w.unwatch) \cup w.watch) \cup IdsOf(room.members)) = {}
      BY <1>3, <1>4 DEF PlacesIn
    <2> QED BY <1>2, <1>3, <2>1, <2>2, RoomFacts, ListsLand
  <1>6. CASE u \notin room.watchers
    <2>1. w.unwatch = {}
      BY <1>6, LeaveShapes
    <2>2. CASE w.set = [status |-> "CLOSED", members |-> <<>>]
      <3>1. /\ DOMAIN w.set = {"status", "members"} /\ w.set["status"] = "CLOSED"
            /\ w.set["members"] = <<>>
        BY <2>2
      <3>2. /\ DOMAIN <<>> = {} /\ Len(<<>>) <= Len(room.members)
        BY RoomFacts
      <3>3. IdsOf(<<>>) = {} /\ Distinct(<<>>)
        BY <3>2 DEF IdsOf, Distinct
      <3>4. slow \in {"settings", "host", "start", "vote"} =>
              /\ IdsOf(<<>>) \cap ((room.watchers \ w.unwatch) \cup w.watch) = {}
              /\ (room.banned \cup w.ban) \cap
                   (((room.watchers \ w.unwatch) \cup w.watch) \cup IdsOf(<<>>)) = {}
        BY <1>3, <1>4, <2>1, <3>3 DEF PlacesIn
      <3> QED BY <1>2, <1>3, <3>1, <3>2, <3>3, <3>4, RoomFacts, MembersLand
    <2>3. slow \in {"settings", "host", "start", "vote"} =>
            /\ IdsOf(rest) \cap ((room.watchers \ w.unwatch) \cup w.watch) = {}
            /\ (room.banned \cup w.ban) \cap
                 (((room.watchers \ w.unwatch) \cup w.watch) \cup IdsOf(rest)) = {}
      BY <1>1, <1>3, <1>4, <2>1 DEF PlacesIn
    <2>4. CASE HumansOf(rest) # <<>> /\ w.set = [members |-> rest, host |-> HumansOf(rest)[1].id]
      <3>1. /\ DOMAIN w.set = {"members", "host"} /\ w.set["members"] = rest
            /\ w.set["host"] = HumansOf(rest)[1].id
        BY <2>4
      <3>2. w.set["host"] \in IdsOf(rest)
        BY <1>1, <2>4, <3>1, FirstHuman
      <3> HIDE DEF rest
      <3>3. /\ DOMAIN w.set \subseteq {"members", "host", "status"}
            /\ "status" \notin DOMAIN w.set /\ "members" \in DOMAIN w.set
            /\ "host" \in DOMAIN w.set
        BY <3>1
      <3>4. TypeOK /\ Right(room)
        BY RoomFacts
      <3>5. \/ "status" \in DOMAIN w.set
            \/ "host" \in DOMAIN w.set /\ w.set["host"] \in IdsOf(rest)
            \/ "host" \notin DOMAIN w.set /\ (room.host \in IdsOf(room.members)
                                               => room.host \in IdsOf(rest))
        BY <3>2, <3>3
      <3> QED BY <1>1, <1>2, <1>3, <2>3, <3>1, <3>3, <3>4, <3>5, MembersLand
    <2>5. CASE room.host # u /\ w.set = [members |-> rest]
      <3>1. DOMAIN w.set = {"members"} /\ w.set["members"] = rest
        BY <2>5
      <3> HIDE DEF rest
      <3> QED BY <1>1, <1>2, <1>3, <2>3, <2>5, <3>1, RoomFacts, MembersLand
    <2> QED BY <1>6, <2>2, <2>4, <2>5, LeaveShapes
  <1> QED BY <1>5, <1>6

LEMMA LeaveKeeps ==
  ASSUME Inv, NEW u \in Humans, Leave(u)
  PROVE  Inv'
PROOF
  <1> DEFINE w == LeaveUpdate(u)
  <1>1. room.status = "LOBBY" /\ Send("array", w)
    BY DEF Leave, Lobby
  <1>2. LateLeave(w) /\ Right(Updated(w))
    BY <1>1, LeaveIsFormed, LeaveIsRight
  <1> HIDE DEF w
  <1>3. slow = "array" => Slowed(w)
    BY <1>1, <1>2, RoomFacts DEF LateLeave, Slowed, SlowArray, Asks
  <1>4. Formed(w) /\ w.players = {}
    BY <1>2 DEF LateLeave
  <1> QED BY <1>1, <1>2, <1>3, <1>4, SendKeeps

LEMMA LeaveFinishedKeeps ==
  ASSUME Inv, NEW u \in Humans, LeaveFinished(u)
  PROVE  Inv'
PROOF
  <1> DEFINE w == LeaveUpdate(u)
  <1>1. Over(room.game) /\ UNCHANGED slow
    BY DEF LeaveFinished
  <1>2. CASE Write(w) /\ UNCHANGED req
    <2>1. LateLeave(w) /\ Right(Updated(w))
      BY <1>1, LeaveIsFormed, LeaveIsRight
    <2>2. Formed(w) /\ w.players = {}
      BY <2>1 DEF LateLeave
    <2>3. req' # None => Slowed(req')
      BY <1>2 DEF Inv, Pending
    <2> HIDE DEF w
    <2> QED BY <1>1, <1>2, <2>1, <2>2, <2>3, WriteKeeps
  <1>3. CASE slow = "over" /\ req' = [op |-> "left", by |-> u] /\ UNCHANGED <<room, games>>
    <2>1. Slowed(req')
      BY <1>3 DEF Slowed, SlowLeave
    <2> QED BY <1>1, <1>3, <2>1, Undisturbed
  <1> QED BY <1>2, <1>3 DEF LeaveFinished


LEMMA BecomeSpectatorKeeps ==
  ASSUME Inv, NEW u \in Humans, BecomeSpectator(u)
  PROVE  Inv'
PROOF
  <1> DEFINE ms == Without(room.members, u)
             w == [Update(SameSize) EXCEPT !.set = [members |-> ms], !.watch = {u}]
  <1>1. /\ w.op = "update" /\ w.players = {} /\ w.if = SameSize
        /\ w.set = [members |-> ms]
        /\ w.push = <<>> /\ w.watch = {u} /\ w.ban = {} /\ w.unwatch = {}
    BY DEF Update
  <1>2. room.status = "LOBBY" /\ u \in IdsOf(room.members) /\ u # room.host /\ Send("array", w)
    BY DEF BecomeSpectator, Lobby, IsMember
  <1> HIDE DEF w
  <1>3. /\ ms \in Seq(Member) /\ Len(ms) <= Len(room.members)
        /\ IdsOf(ms) = IdsOf(room.members) \ {u}
        /\ \A k \in DOMAIN ms : \E a \in DOMAIN room.members : ms[k] = room.members[a]
        /\ Distinct(room.members) => Distinct(ms)
    BY RoomFacts, WithoutFacts DEF Ids
  <1> HIDE DEF ms
  <1>4. DOMAIN w.set = {"members"} /\ w.set["members"] = ms
    BY <1>1
  <1>5. PlacesIn(room) =>
          /\ IdsOf(ms) \cap ((room.watchers \ w.unwatch) \cup w.watch) = {}
          /\ (room.banned \cup w.ban) \cap
               (((room.watchers \ w.unwatch) \cup w.watch) \cup IdsOf(ms)) = {}
    BY <1>1, <1>2, <1>3 DEF PlacesIn
  <1> QED BY <1>1, <1>2, <1>3, <1>4, <1>5, SameSizeAsks, MembersSent

LEMMA RemoveBotKeeps ==
  ASSUME Inv, NEW b \in Bots, RemoveBot(b)
  PROVE  Inv'
PROOF
  <1> DEFINE ms == Without(room.members, b)
             w == [Update(<<>>) EXCEPT !.set = [members |-> ms]]
  <1>1. /\ w.op = "update" /\ w.players = {} /\ w.set = [members |-> ms]
        /\ w.push = <<>> /\ w.watch = {} /\ w.ban = {} /\ w.unwatch = {}
    BY DEF Update
  <1>2. room.status = "LOBBY" /\ Send("removeBot", w)
    BY DEF RemoveBot, Lobby
  <1> HIDE DEF w
  <1>3. /\ ms \in Seq(Member) /\ Len(ms) <= Len(room.members)
        /\ IdsOf(ms) = IdsOf(room.members) \ {b}
        /\ \A k \in DOMAIN ms : \E a \in DOMAIN room.members : ms[k] = room.members[a]
        /\ Distinct(room.members) => Distinct(ms)
    BY RoomFacts, WithoutFacts DEF Ids
  <1> HIDE DEF ms
  <1>4. DOMAIN w.set = {"members"} /\ w.set["members"] = ms
    BY <1>1
  <1>5. PlacesIn(room) =>
          /\ IdsOf(ms) \cap ((room.watchers \ w.unwatch) \cup w.watch) = {}
          /\ (room.banned \cup w.ban) \cap
               (((room.watchers \ w.unwatch) \cup w.watch) \cup IdsOf(ms)) = {}
    BY <1>1, <1>3 DEF PlacesIn
  <1>6. room.host # b
    BY RoomFacts, RoomAssumption
  <1> QED BY <1>1, <1>2, <1>3, <1>4, <1>5, <1>6, MembersSent

(* The members in another order. *)
LEMMA SeatsSent ==
  ASSUME Inv, room.status = "LOBBY",
         NEW p \in [DOMAIN room.members -> DOMAIN room.members], IsInjective(p),
         NEW ms, ms = [k \in DOMAIN room.members |-> room.members[p[k]]],
         Send("seats", [Update(SameSize) EXCEPT !.set = [members |-> ms]])
  PROVE  Inv'
PROOF
  <1> DEFINE w == [Update(SameSize) EXCEPT !.set = [members |-> ms]]
  <1>1. /\ w.op = "update" /\ w.players = {} /\ w.if = SameSize
        /\ w.set = [members |-> ms]
        /\ w.push = <<>> /\ w.watch = {} /\ w.ban = {} /\ w.unwatch = {}
    BY DEF Update
  <1>2. Send("seats", w)
    OBVIOUS
  <1> HIDE DEF w
  <1>3. /\ ms \in Seq(Member) /\ Len(ms) = Len(room.members)
        /\ IdsOf(ms) = IdsOf(room.members)
        /\ \A k \in DOMAIN ms : \E a \in DOMAIN room.members : ms[k] = room.members[a]
        /\ Distinct(room.members) => Distinct(ms)
    <2>1. room.members \in Seq(Member)
      BY RoomFacts
    <2> DEFINE l == room.members
    <2>2. /\ l \in Seq(Member) /\ p \in [DOMAIN l -> DOMAIN l] /\ IsInjective(p)
          /\ ms = [k \in DOMAIN l |-> l[p[k]]]
      BY <2>1
    <2> HIDE DEF l
    <2>3. /\ ms \in Seq(Member) /\ Len(ms) = Len(l) /\ IdsOf(ms) = IdsOf(l)
          /\ \A k \in DOMAIN ms : \E a \in DOMAIN l : ms[k] = l[a]
          /\ Distinct(l) => Distinct(ms)
      BY <2>2, RearrangedFacts
    <2> QED BY <2>3 DEF l
  <1>4. DOMAIN w.set = {"members"} /\ w.set["members"] = ms
    BY <1>1
  <1>5. PlacesIn(room) =>
          /\ IdsOf(ms) \cap ((room.watchers \ w.unwatch) \cup w.watch) = {}
          /\ (room.banned \cup w.ban) \cap
               (((room.watchers \ w.unwatch) \cup w.watch) \cup IdsOf(ms)) = {}
    BY <1>1, <1>3 DEF PlacesIn
  <1>6. Len(ms) <= Len(room.members)
    BY <1>3, RoomFacts
  <1> QED BY <1>1, <1>2, <1>3, <1>4, <1>5, <1>6, SameSizeAsks, MembersSent

LEMMA ReseatKeeps ==
  ASSUME Inv, Reseat
  PROVE  Inv'
PROOF
  <1>1. PICK p \in {q \in [DOMAIN room.members -> DOMAIN room.members] : IsInjective(q)} :
          Send("seats", [Update(SameSize) EXCEPT !.set = [members |->
            [k \in DOMAIN p |-> room.members[p[k]]]]])
    BY DEF Reseat
  <1>2. [k \in DOMAIN p |-> room.members[p[k]]]
          = [k \in DOMAIN room.members |-> room.members[p[k]]]
    OBVIOUS
  <1>3. room.status = "LOBBY"
    BY DEF Reseat, Lobby
  <1> QED BY <1>1, <1>2, <1>3, SeatsSent

LEMMA JoinTeamKeeps ==
  ASSUME Inv, NEW u \in Humans, NEW team, JoinTeam(u, team)
  PROVE  Inv'
PROOF
  <1> DEFINE n == room.settings.teams
             seats == {k \in DOMAIN room.members : (k - 1) % n = team}
             me == CHOOSE k \in DOMAIN room.members : room.members[k].id = u
             other == Min(seats)
             p == [k \in DOMAIN room.members |->
                     IF k = me THEN other ELSE IF k = other THEN me ELSE k]
  <1>1. /\ room.status = "LOBBY" /\ u \in IdsOf(room.members) /\ seats # {}
        /\ Send("seats", [Update(SameSize) EXCEPT !.set = [members |->
             [k \in DOMAIN room.members |-> room.members[
                IF k = me THEN other ELSE IF k = other THEN me ELSE k]]]])
    BY DEF JoinTeam, Lobby, IsMember
  <1>2. me \in DOMAIN room.members
    BY <1>1 DEF IdsOf
  <1>3. other \in DOMAIN room.members
    <2>1. seats \in SUBSET Nat
      BY RoomFacts
    <2>2. Min(seats) \in seats
      BY <1>1, <2>1, MinIsLeast
    <2> QED BY <2>2
  <1> HIDE DEF me, other, seats
  <1>4. p \in [DOMAIN room.members -> DOMAIN room.members] /\ IsInjective(p)
    BY <1>2, <1>3 DEF IsInjective
  <1>5. [k \in DOMAIN room.members |-> room.members[
           IF k = me THEN other ELSE IF k = other THEN me ELSE k]]
          = [k \in DOMAIN room.members |-> room.members[p[k]]]
    OBVIOUS
  <1> HIDE DEF p
  <1> QED BY <1>1, <1>4, <1>5, SeatsSent

-----------------------------------------------------------------------------
(* The settings, the host, the end of the room. *)

LEMMA CapIsNatural ==
  ASSUME NEW teams
  PROVE  EffectiveCap(teams) \in Nat
PROOF
  <1> DEFINE S == {k \in Layouts : k.teams = teams}
             T == {l.players : l \in S}
             f == [l \in S |-> l.players]
  <1>1. IsFiniteSet(S) /\ T \subseteq Nat /\ BaseCap \in Nat
    <2>1. S \in SUBSET Layouts /\ IsFiniteSet(Layouts)
      BY RoomAssumption
    <2>2. \A l \in S : l.players \in Nat
      BY RoomAssumption
    <2> QED BY <2>1, <2>2, FS_Subset, RoomAssumption
  <1>2. f \in Surjection(S, T)
    BY DEF Surjection
  <1>3. IsFiniteSet(T)
    <2> HIDE DEF f, S, T
    <2> QED BY <1>1, <1>2, FS_Surjection
  <1>4. IsFiniteSet(T \cup {BaseCap})
    <2> HIDE DEF f, S, T
    <2> QED BY <1>3, FS_AddElement
  <1>5. {BaseCap} \cup T \in SUBSET Nat /\ {BaseCap} \cup T = T \cup {BaseCap} /\ {BaseCap} \cup T # {}
    BY <1>1
  <1>6. Max({BaseCap} \cup T) \in {BaseCap} \cup T
    <2> HIDE DEF T
    <2> QED BY <1>4, <1>5, MaxIsLargest
  <1>7. EffectiveCap(teams) = Max({BaseCap} \cup T)
    BY DEF EffectiveCap
  <1> HIDE DEF T
  <1> QED BY <1>5, <1>6, <1>7

LEMMA UpdateSettingsKeeps ==
  ASSUME Inv, NEW s \in Settings[slow], UpdateSettings(s)
  PROVE  Inv'
PROOF
  <1> DEFINE c == EffectiveCap(s.teams)
             w == [Update(InLobby(room.host)) EXCEPT !.set = [settings |-> s, cap |-> c]]
  <1>1. /\ w.op = "update" /\ w.players = {} /\ Asks(w, "status", "LOBBY")
        /\ w.set = [settings |-> s, cap |-> c]
        /\ w.push = <<>> /\ w.watch = {} /\ w.ban = {}
    BY DEF Update, InLobby, Asks
  <1>2. room.status = "LOBBY" /\ c >= Len(room.members) /\ Send("settings", w)
    BY DEF UpdateSettings, Lobby
  <1>3. c \in Nat /\ Len(room.members) \in Nat
    BY CapIsNatural, RoomFacts
  <1> HIDE DEF w, c
  <1>4. DOMAIN w.set = {"settings", "cap"} /\ w.set["settings"] = s /\ w.set["cap"] = c
    BY <1>1
  <1>5. Len(room.members) <= c
    BY <1>2, <1>3
  <1> QED BY <1>1, <1>2, <1>3, <1>4, <1>5, RulesSent

LEMMA TransferHostKeeps ==
  ASSUME Inv, NEW t \in Humans, NEW admin \in BOOLEAN, TransferHost(t, admin)
  PROVE  Inv'
PROOF
  <1> DEFINE cond == IF admin THEN [status |-> "LOBBY"] ELSE InLobby(room.host)
             w == [Update(cond) EXCEPT !.set = [host |-> t]]
  <1>1. "status" \in DOMAIN cond /\ cond["status"] = "LOBBY"
    BY DEF InLobby
  <1>2. room.status = "LOBBY" /\ t \in IdsOf(room.members) /\ Send("host", w)
    BY DEF TransferHost, Lobby, IsMember
  <1> HIDE DEF cond
  <1>3. /\ w.op = "update" /\ w.players = {} /\ Asks(w, "status", "LOBBY")
        /\ w.set = [host |-> t]
        /\ w.push = <<>> /\ w.watch = {} /\ w.ban = {}
    BY <1>1 DEF Update, Asks
  <1> HIDE DEF w
  <1>4. DOMAIN w.set = {"host"} /\ w.set["host"] = t
    BY <1>3
  <1> QED BY <1>2, <1>3, <1>4, RulesSent

LEMMA CloseRoomKeeps ==
  ASSUME Inv, NEW admin \in BOOLEAN, CloseRoom(admin)
  PROVE  Inv'
PROOF
  <1> DEFINE cond == IF admin THEN [status |-> "LOBBY"] ELSE InLobby(room.host)
             w == [Update(cond) EXCEPT !.set = [status |-> "CLOSED"]]
  <1>1. "status" \in DOMAIN cond /\ cond["status"] = "LOBBY"
    BY DEF InLobby
  <1>2. room.status = "LOBBY" /\ Send("host", w)
    BY DEF CloseRoom, Lobby
  <1> HIDE DEF cond
  <1>3. /\ w.op = "update" /\ w.players = {} /\ Asks(w, "status", "LOBBY")
        /\ w.set = [status |-> "CLOSED"]
        /\ w.push = <<>> /\ w.watch = {} /\ w.ban = {}
    BY <1>1 DEF Update, Asks
  <1> HIDE DEF w
  <1>4. DOMAIN w.set = {"status"} /\ w.set["status"] = "CLOSED"
    BY <1>3
  <1> QED BY <1>2, <1>3, <1>4, RulesSent


-----------------------------------------------------------------------------
(* A start, a rematch, and the slow updates that land. *)

(* markStarted: the members stay, their votes go. *)
LEMMA UnvotedFacts ==
  ASSUME NEW ms \in Seq(Member)
  PROVE  /\ Unvoted(ms) \in Seq(Member) /\ Len(Unvoted(ms)) = Len(ms)
         /\ IdsOf(Unvoted(ms)) = IdsOf(ms) /\ InStep(Unvoted(ms))
         /\ Distinct(ms) => Distinct(Unvoted(ms))
PROOF
  <1> DEFINE t == [k \in DOMAIN ms |-> [ms[k] EXCEPT !.ends = None]]
  <1>1. DOMAIN ms = 1 .. Len(ms) /\ Len(ms) \in Nat /\ \A k \in DOMAIN ms : ms[k] \in Member
    OBVIOUS
  <1>2. \A k \in DOMAIN ms : /\ t[k] \in Member /\ t[k].id = ms[k].id /\ t[k].ends = None
    <2> SUFFICES ASSUME NEW k \in DOMAIN ms
                 PROVE  t[k] \in Member /\ t[k].id = ms[k].id /\ t[k].ends = None
      OBVIOUS
    <2>1. ms[k] \in Member /\ t[k] = [ms[k] EXCEPT !.ends = None]
      BY <1>1
    <2>2. t[k] = [id |-> ms[k].id, ends |-> None]
      BY <2>1 DEF Member
    <2> QED BY <2>1, <2>2 DEF Member
  <1>3. t \in [1 .. Len(ms) -> Member] /\ DOMAIN t = DOMAIN ms
    BY <1>1, <1>2
  <1>4. t \in Seq(Member) /\ Len(t) = Len(ms)
    <2> HIDE DEF t
    <2> QED BY <1>1, <1>3
  <1>5. Unvoted(ms) = t
    BY DEF Unvoted
  <1> HIDE DEF t
  <1>6. IdsOf(t) = IdsOf(ms) /\ (Distinct(ms) => Distinct(t)) /\ InStep(t)
    BY <1>2, <1>3, <1>4, SameMembers DEF InStep
  <1> QED BY <1>4, <1>5, <1>6

LEMMA NewGameIsFree ==
  ASSUME FreeGames # {}
  PROVE  NewGame \in FreeGames
PROOF
  <1>1. FreeGames \in SUBSET Nat
    BY DEF FreeGames, GameIds
  <1>2. \E g \in FreeGames : \A h \in FreeGames : g <= h
    BY <1>1, LeastNatural
  <1> QED BY <1>2 DEF NewGame

LEMMA StartsAreRight ==
  ASSUME Inv, NEW w, w.players \subseteq Ids, w.players # {}, Matches(w), Write(w),
         UNCHANGED slow, room.status = "LOBBY",
         slow \notin {"start", "removeBot", "over"} => w.players = IdsOf(room.members)
  PROVE  Right(room)' /\ TypeOK' /\ EndedStay
PROOF
  <1> DEFINE ms == Unvoted(room.members)
             g == NewGame
  <1>1. /\ FreeGames # {}
        /\ room' = [room EXCEPT !.status = "STARTED", !.game = g, !.members = ms]
        /\ games' = [games EXCEPT ![g] = [life |-> "starting", players |-> w.players]]
    BY DEF Write
  <1>2. g \in GameIds /\ games[g].life = "unused" /\ g # None
    BY <1>1, NewGameIsFree, RoomAssumption DEF FreeGames, GameIds
  <1>3. /\ ms \in Seq(Member) /\ Len(ms) = Len(room.members)
        /\ IdsOf(ms) = IdsOf(room.members) /\ InStep(ms)
        /\ Distinct(room.members) => Distinct(ms)
    BY RoomFacts, UnvotedFacts
  <1> HIDE DEF ms, g
  <1>4. /\ room' = [status |-> "STARTED", host |-> room.host, game |-> g, members |-> ms,
                    watchers |-> room.watchers, banned |-> room.banned, cap |-> room.cap,
                    settings |-> room.settings]
        /\ room \in Document /\ games \in [GameIds -> Game]
    BY <1>1 DEF Inv, TypeOK, Document
  <1>5. room' \in Document /\ room'.game # None
    BY <1>2, <1>3, <1>4 DEF Document
  <1>6. games' \in [GameIds -> Game] /\ games'[g].life = "starting"
        /\ games'[g].players = w.players
        /\ \A h \in GameIds : h # g => games'[h] = games[h]
    <2>1. [life |-> "starting", players |-> w.players] \in Game
      BY DEF Game
    <2> QED BY <1>1, <1>2, <1>4, <2>1
  <1>7. Right(room)
    BY DEF Inv
  <1>8. Shaped(room)'
    BY <1>4, <1>5, <1>6 DEF Shaped, Document, Member, GameIds
  <1>9. (slow # "over" => VotesIn(room))'
    BY <1>3, <1>4 DEF VotesIn, InStep
  <1>10. (slow \notin {"join", "settings", "removeBot"} => FitsIn(room))'
    BY <1>3, <1>4, <1>7 DEF Right, FitsIn
  <1>11. (slow \in {"join", "watch", "settings", "start", "vote"} => HostedIn(room))'
    BY <1>3, <1>4, <1>7 DEF Right, HostedIn
  <1>12. (slow \in {"settings", "host", "start", "vote"} => PlacesIn(room))'
    BY <1>3, <1>4, <1>7 DEF Right, PlacesIn
  <1>13. (slow \notin {"start", "removeBot", "over"} => TableIn(room))'
    BY <1>3, <1>4, <1>6 DEF TableIn
  <1>14. Right(room)'
    BY <1>8, <1>9, <1>10, <1>11, <1>12, <1>13 DEF Right
  <1>15. TypeOK'
    BY <1>6, <1>14, TypeStays DEF Inv
  <1>16. EndedStay
    BY <1>2, <1>4, <1>6 DEF EndedStay
  <1> QED BY <1>14, <1>15, <1>16

LEMMA StartKeeps ==
  ASSUME Inv, Start
  PROVE  Inv'
PROOF
  <1> DEFINE w == [Update(InLobby(room.host)) EXCEPT !.players = IdsOf(room.members)]
  <1>1. room.status = "LOBBY" /\ Len(room.members) >= 2 /\ Send("start", w)
    BY DEF Start, Lobby
  <1>2. /\ w.op = "update" /\ w.players = IdsOf(room.members) /\ Asks(w, "status", "LOBBY")
        /\ w.set = <<>> /\ DOMAIN w.set = {}
        /\ w.push = <<>> /\ w.watch = {} /\ w.ban = {}
    BY DEF Update, InLobby, Asks
  <1> HIDE DEF w
  <1>3. w.players \subseteq Ids /\ w.players # {}
    <2>1. 1 \in DOMAIN room.members
      BY <1>1, RoomFacts
    <2>2. room.members[1].id \in IdsOf(room.members)
      BY <2>1 DEF IdsOf
    <2> QED BY <1>2, <2>2, RoomFacts
  <1>4. Formed(w)
    <2>1. <<>> \in Seq(Member) /\ InStep(<<>>)
      BY DEF InStep
    <2> QED BY <1>2, <1>3, <2>1 DEF Formed
  <1>5. slow = "start" => Slowed(w)
    BY <1>2, <1>3, <1>4 DEF Slowed, SlowStart
  <1>6. CASE Write(w) /\ UNCHANGED <<req, slow>>
    <2>1. CASE ~Matches(w)
      BY <1>6, <2>1, Undisturbed DEF Write, Inv, Pending
    <2>2. CASE Matches(w)
      <3>1. Right(room)' /\ TypeOK' /\ EndedStay
        BY <1>1, <1>2, <1>3, <1>6, <2>2, StartsAreRight
      <3>2. req' # None => Slowed(req)'
        BY <1>6, <3>1, SlowedStays DEF Inv, Pending
      <3>3. Pending'
        BY <1>6, <3>2 DEF Pending
      <3> QED BY <3>1, <3>3 DEF Inv
    <2> QED BY <2>1, <2>2
  <1>7. CASE slow = "start" /\ req' = w /\ UNCHANGED <<room, games, slow>>
    BY <1>5, <1>7, Undisturbed
  <1> QED BY <1>1, <1>6, <1>7 DEF Send

LEMMA RematchKeeps ==
  ASSUME Inv, Rematch
  PROVE  Inv'
PROOF
  <1> DEFINE ms == [k \in DOMAIN room.members |-> Seated(room.members[k].id)]
             cond == [status |-> "STARTED", host |-> room.host, game |-> room.game]
             w == [Update(cond) EXCEPT !.set = [status |-> "LOBBY", game |-> None,
                                                members |-> ms]]
  <1>1. room.status = "STARTED" /\ Over(room.game) /\ Send("reset", w)
    BY DEF Rematch
  <1>2. /\ w.op = "update" /\ w.players = {} /\ Asks(w, "status", "STARTED")
        /\ "game" \in DOMAIN w.if /\ w.if["game"] = room.game
        /\ w.set = [status |-> "LOBBY", game |-> None, members |-> ms]
        /\ w.push = <<>> /\ w.watch = {} /\ w.ban = {} /\ w.unwatch = {}
    BY DEF Update, Asks
  <1>3. /\ ms \in Seq(Member) /\ Len(ms) = Len(room.members)
        /\ IdsOf(ms) = IdsOf(room.members) /\ InStep(ms)
        /\ Distinct(room.members) => Distinct(ms)
    <2>1. /\ DOMAIN room.members = 1 .. Len(room.members) /\ Len(room.members) \in Nat
          /\ room.members \in Seq(Member)
          /\ \A k \in DOMAIN room.members : room.members[k] \in Member
      BY RoomFacts
    <2>2. \A k \in DOMAIN room.members :
            ms[k] \in Member /\ ms[k].id = room.members[k].id /\ ms[k].ends = None
      BY <2>1 DEF Seated, Member
    <2>3. ms \in [1 .. Len(room.members) -> Member] /\ DOMAIN ms = DOMAIN room.members
      BY <2>1, <2>2
    <2> HIDE DEF ms
    <2>4. ms \in Seq(Member) /\ Len(ms) = Len(room.members)
      BY <2>1, <2>3
    <2> QED BY <2>1, <2>2, <2>3, <2>4, SameMembers DEF InStep
  <1> HIDE DEF w, ms, cond
  <1>4. /\ DOMAIN w.set = {"status", "game", "members"} /\ w.set["status"] = "LOBBY"
        /\ w.set["game"] = None /\ w.set["members"] = ms
    BY <1>2
  <1>5. Formed(w)
    <2>1. <<>> \in Seq(Member) /\ InStep(<<>>)
      BY DEF InStep
    <2> QED BY <1>2, <1>3, <1>4, <2>1 DEF Formed
  <1>6. slow \notin {"join", "settings", "removeBot"} => Len(ms) <= room.cap
    BY <1>3 DEF Inv, Right, FitsIn
  <1>7. Right(Updated(w))
    <2>1. slow \in {"settings", "host", "start", "vote"} => Distinct(room.members)
      BY RoomFacts DEF Right, PlacesIn
    <2> QED BY <1>1, <1>2, <1>3, <1>4, <1>5, <1>6, <2>1, RoomFacts, ResetLands
  <1>8. slow = "reset" => Slowed(w)
    BY <1>1, <1>2, <1>3, <1>4, <1>5, <1>6 DEF Slowed, SlowReset, Over
  <1> QED BY <1>1, <1>2, <1>5, <1>7, <1>8, SendKeeps


LEMMA AsksIsTrue ==
  ASSUME NEW w, Matches(w), NEW f, NEW v, Asks(w, f, v)
  PROVE  FieldOf(f) = v
BY DEF Asks, Matches

LEMMA LateSeatIsRight ==
  ASSUME Inv, slow = "join", NEW w, Formed(w), SlowJoin(w), Matches(w),
         NEW r, r = Updated(w)
  PROVE  Right(r)
PROOF
  <1>0. AsUpdated(w, r)
    BY UpdatedFields
  <1>1. room.status = "LOBBY"
    BY AsksIsTrue DEF SlowJoin, FieldOf
  <1>2. /\ room.members \in Seq(Member) /\ w.push \in Seq(Member) /\ InStep(w.push)
        /\ InStep(room.members) /\ HostedIn(room)
    BY <1>1, RoomFacts DEF Formed, Right
  <1>3. /\ r.status = "LOBBY" /\ r.host = room.host /\ r.members = room.members \o w.push
    BY <1>0, <1>1 DEF AsUpdated, SlowJoin
  <1>4. InStep(r.members) /\ IdsOf(room.members) \subseteq IdsOf(r.members)
    <2> DEFINE a == room.members
               b == w.push
    <2>1. /\ \A k \in DOMAIN a : k \in DOMAIN (a \o b) /\ (a \o b)[k] = a[k]
          /\ \A k \in DOMAIN (a \o b) :
               \/ k \in DOMAIN a /\ (a \o b)[k] = a[k]
               \/ k - Len(a) \in DOMAIN b /\ (a \o b)[k] = b[k - Len(a)]
      <3> HIDE DEF a, b
      <3>1. a \in Seq(Member) /\ b \in Seq(Member)
        BY <1>2 DEF a, b
      <3> QED BY <3>1
    <2>2. InStep(a) /\ InStep(b)
      BY <1>2
    <2>3. r.members = a \o b
      BY <1>3
    <2> HIDE DEF a, b
    <2>4. InStep(a \o b) /\ IdsOf(a) \subseteq IdsOf(a \o b)
      BY <2>1, <2>2 DEF InStep, IdsOf
    <2> QED BY <2>3, <2>4 DEF a
  <1>5. Shaped(r)
    BY RoomFacts, ShapedLands DEF Right
  <1>6. VotesIn(r) /\ HostedIn(r) /\ TableIn(r)
    BY <1>1, <1>2, <1>3, <1>4 DEF VotesIn, HostedIn, TableIn
  <1> QED BY <1>5, <1>6 DEF Right

LEMMA LateListIsRight ==
  ASSUME Inv, slow \in {"array", "seats"}, NEW w, Formed(w), SlowArray(w), Matches(w),
         NEW r, r = Updated(w)
  PROVE  Right(r)
PROOF
  <1>1. CASE DOMAIN w.set = {}
    BY <1>1, RoomFacts, ListsLand DEF SlowArray
  <1>2. CASE DOMAIN w.set # {}
    <2>0. AsUpdated(w, r)
      BY UpdatedFields
    <2> DEFINE ms == w.set["members"]
    <2>1. /\ Asks(w, "status", "LOBBY") /\ Asks(w, "size", w.if["size"])
          /\ "status" \in DOMAIN w.set => w.set["status"] = "CLOSED"
          /\ "members" \in DOMAIN w.set /\ InStep(ms) /\ Len(ms) <= w.if["size"]
          /\ "cap" \notin DOMAIN w.set /\ w.push = <<>>
      BY <1>2 DEF SlowArray, Asks
    <2>2. room.status = "LOBBY" /\ Len(room.members) = w.if["size"]
      BY <2>1, AsksIsTrue DEF FieldOf
    <2>3. ms \in Seq(Member)
      BY <2>1 DEF Formed
    <2>4. r.members = ms \o <<>> /\ r.cap = room.cap /\ r.status \in {"LOBBY", "CLOSED"}
      BY <2>0, <2>1, <2>2 DEF AsUpdated
    <2>5. r.members = ms
      BY <2>3, <2>4, NobodySeated
    <2>6. Shaped(r)
      BY RoomFacts, ShapedLands DEF Right
    <2>7. VotesIn(r) /\ TableIn(r)
      BY <2>1, <2>4, <2>5 DEF VotesIn, TableIn
    <2>8. FitsIn(r)
      <3>1. Len(room.members) <= room.cap
        BY RoomFacts DEF Right, FitsIn
      <3>2. Len(ms) <= Len(room.members)
        BY <2>1, <2>2
      <3>3. Len(ms) \in Nat /\ Len(room.members) \in Nat /\ room.cap \in Nat
        BY <2>3, RoomFacts
      <3> HIDE DEF ms
      <3> QED BY <2>4, <2>5, <3>1, <3>2, <3>3 DEF FitsIn
    <2> QED BY <2>6, <2>7, <2>8 DEF Right
  <1> QED BY <1>1, <1>2

LEMMA LateRemovalIsRight ==
  ASSUME Inv, slow = "removeBot", NEW w, Formed(w), SlowBot(w), Matches(w),
         NEW r, r = Updated(w)
  PROVE  Right(r)
PROOF
  <1>0. AsUpdated(w, r)
    BY UpdatedFields
  <1> DEFINE ms == w.set["members"]
  <1>1. ms \in Seq(Member) /\ InStep(ms) /\ w.push = <<>>
    BY DEF SlowBot, Formed
  <1>2. r.members = ms \o <<>>
    BY <1>0, <1>1 DEF AsUpdated, SlowBot
  <1>3. r.members = ms
    BY <1>1, <1>2, NobodySeated
  <1>4. Shaped(r)
    BY RoomFacts, ShapedLands DEF Right
  <1>5. VotesIn(r)
    BY <1>1, <1>3 DEF VotesIn, InStep
  <1> QED BY <1>4, <1>5 DEF Right

LEMMA LateRuleIsRight ==
  ASSUME Inv, slow \in {"settings", "host"}, NEW w, Formed(w), Matches(w),
         slow = "settings" => SlowSettings(w), slow = "host" => SlowHost(w),
         NEW r, r = Updated(w)
  PROVE  Right(r)
PROOF
  <1>1. /\ Asks(w, "status", "LOBBY") /\ w.push = <<>> /\ w.watch = {} /\ w.ban = {}
        /\ DOMAIN w.set \subseteq {"settings", "cap", "host", "status"}
        /\ "status" \in DOMAIN w.set => w.set["status"] = "CLOSED"
        /\ slow = "settings" => "host" \notin DOMAIN w.set
        /\ slow = "host" => "cap" \notin DOMAIN w.set
    BY DEF SlowSettings, SlowHost
  <1>2. room.status = "LOBBY"
    BY <1>1, AsksIsTrue DEF FieldOf
  <1> QED BY <1>1, <1>2, RoomFacts, RulesLand

LEMMA LateResetIsRight ==
  ASSUME Inv, slow = "reset", NEW w, Formed(w), SlowReset(w), Matches(w),
         NEW r, r = Updated(w)
  PROVE  Right(r)
PROOF
  <1>1. Asks(w, "status", "STARTED") /\ Asks(w, "game", w.if["game"])
    BY DEF SlowReset, Asks
  <1>2. room.status = "STARTED" /\ room.game = w.if["game"]
    BY <1>1, AsksIsTrue DEF FieldOf
  <1>3. /\ w.push = <<>> /\ w.watch = {} /\ w.ban = {}
        /\ DOMAIN w.set = {"status", "game", "members"} /\ w.set["status"] = "LOBBY"
        /\ InStep(w.set["members"]) /\ Len(w.set["members"]) <= room.cap
    BY <1>2 DEF SlowReset
  <1> QED BY <1>2, <1>3, RoomFacts, ResetLands

LEMMA LandKeeps ==
  ASSUME Inv, Land
  PROVE  Inv'
PROOF
  <1>1. /\ req # None /\ req.op \notin {"left", "vote", "cast", "count"} /\ slow # "over"
        /\ Write(req) /\ req' = None /\ UNCHANGED slow
    BY DEF Land
  <1>2. Slowed(req) /\ slow \in SlowClasses
    BY <1>1, RoomAssumption DEF Inv, Pending, TypeOK
  <1>3. slow # "vote"
    BY <1>1, <1>2 DEF Slowed, SlowVote
  <1>4. Formed(req)
    BY <1>1, <1>2, <1>3 DEF Slowed
  <1>5. CASE ~Matches(req)
    BY <1>1, <1>5, Undisturbed DEF Write
  <1>6. CASE Matches(req) /\ slow = "start"
    <2>1. Asks(req, "status", "LOBBY") /\ req.players # {}
      BY <1>2, <1>6 DEF Slowed, SlowStart
    <2>2. room.status = "LOBBY"
      BY <1>6, <2>1, AsksIsTrue DEF FieldOf
    <2>3. req.players \subseteq Ids
      BY <1>4 DEF Formed
    <2>4. Right(room)' /\ TypeOK'
      BY <1>1, <1>6, <2>1, <2>2, <2>3, StartsAreRight
    <2> QED BY <1>1, <2>4 DEF Inv, Pending
  <1>7. CASE Matches(req) /\ slow # "start"
    <2>1. req.players = {}
      BY <1>1, <1>2, <1>3, <1>7 DEF Slowed, SlowClasses, SlowJoin, SlowWatch, SlowArray,
                                    SlowBot, SlowSettings, SlowHost, SlowReset
    <2>2. Right(Updated(req))
      <3>1. CASE slow = "join"
        BY <1>2, <1>4, <1>7, <3>1, LateSeatIsRight DEF Slowed
      <3>2. CASE slow = "watch"
        <4>1. DOMAIN req.set = {} /\ req.push = <<>>
          BY <1>2, <3>2 DEF Slowed, SlowWatch
        <4> QED BY <1>4, <3>2, <4>1, RoomFacts, ListsLand
      <3>3. CASE slow \in {"array", "seats"}
        BY <1>2, <1>4, <1>7, <3>3, LateListIsRight DEF Slowed
      <3>4. CASE slow = "removeBot"
        BY <1>2, <1>4, <1>7, <3>4, LateRemovalIsRight DEF Slowed
      <3>5. CASE slow \in {"settings", "host"}
        BY <1>2, <1>4, <1>7, <3>5, LateRuleIsRight DEF Slowed
      <3>6. CASE slow = "reset"
        BY <1>2, <1>4, <1>7, <3>6, LateResetIsRight DEF Slowed
      <3> QED BY <1>1, <1>2, <1>3, <1>7, <3>1, <3>2, <3>3, <3>4, <3>5, <3>6 DEF SlowClasses
    <2> QED BY <1>1, <1>4, <2>1, <2>2, WriteKeeps
  <1> QED BY <1>5, <1>6, <1>7


-----------------------------------------------------------------------------
(* Leaving a finished game late, the votes, and the life of the games. *)

LEMMA OpTells ==
  ASSUME Inv, req # None
  PROVE  /\ req.op \in {"left", "leave"} => slow = "over"
         /\ req.op \in {"vote", "cast", "count"} => slow = "vote"
BY DEF Inv, Pending, Slowed, Formed, SlowLeave, SlowVote

LEMMA LeaveReadsKeeps ==
  ASSUME Inv, LeaveReads
  PROVE  Inv'
PROOF
  <1>1. req # None /\ req.op = "left" /\ slow = "over" /\ UNCHANGED <<room, games, slow>>
    BY OpTells DEF LeaveReads
  <1>2. req.by \in Humans
    BY <1>1 DEF Inv, Pending, Slowed, SlowLeave
  <1>3. CASE req' = None
    BY <1>1, <1>3, Undisturbed
  <1>4. CASE req' = [op |-> "leave", by |-> req.by, w |-> LeaveUpdate(req.by)]
    <2> DEFINE w == LeaveUpdate(req.by)
    <2>1. LateLeave(w)
      BY <1>2, LeaveIsFormed
    <2>2. req'.op = "leave" /\ req'.by = req.by /\ req'.w = w
      BY <1>4
    <2> HIDE DEF w
    <2>3. SlowLeave(req')
      BY <1>2, <2>1, <2>2 DEF SlowLeave, LateLeave, Asks
    <2>4. Slowed(req')
      BY <1>1, <2>3 DEF Slowed
    <2> QED BY <1>1, <2>4, Undisturbed
  <1> QED BY <1>3, <1>4 DEF LeaveReads

LEMMA LateLeaveIsRight ==
  ASSUME Inv, slow = "over", NEW q, SlowLeave(q), q.op = "leave", Matches(q.w),
         NEW r, r = Updated(q.w)
  PROVE  Right(r)
PROOF
  <1> DEFINE w == q.w
  <1>0. AsUpdated(w, r)
    BY UpdatedFields
  <1>1. /\ Formed(w) /\ w.push = <<>>
        /\ DOMAIN w.set \subseteq {"members", "host", "status"}
        /\ "members" \in DOMAIN w.set =>
             Asks(w, "size", w.if["size"]) /\ Len(w.set["members"]) <= w.if["size"]
    BY DEF SlowLeave, Asks
  <1>2. Matches(w) /\ r = Updated(w)
    OBVIOUS
  <1> HIDE DEF w
  <1>3. Shaped(r)
    BY <1>1, <1>2, RoomFacts, ShapedLands DEF Right
  <1>4. Len(room.members) <= room.cap
    BY RoomFacts DEF Right, FitsIn
  <1>5. r.cap = room.cap
    BY <1>0, <1>1 DEF AsUpdated
  <1>6. Len(r.members) <= Len(room.members)
    <2>1. CASE "members" \in DOMAIN w.set
      <3>1. r.members = w.set["members"] \o <<>> /\ w.set["members"] \in Seq(Member)
        BY <1>0, <1>1, <2>1 DEF AsUpdated, Formed
      <3>2. r.members = w.set["members"]
        BY <3>1, NobodySeated
      <3>3. Len(room.members) = w.if["size"]
        BY <1>1, <1>2, <2>1, AsksIsTrue DEF FieldOf
      <3> QED BY <1>1, <2>1, <3>2, <3>3
    <2>2. CASE "members" \notin DOMAIN w.set
      <3>1. r.members = room.members \o <<>> /\ room.members \in Seq(Member)
        BY <1>0, <1>1, <2>2, RoomFacts DEF AsUpdated
      <3> QED BY <3>1, NobodySeated
    <2> QED BY <2>1, <2>2
  <1>7. FitsIn(r)
    <2>1. r.members \in Seq(Member)
      BY <1>3, DocumentFields DEF Shaped
    <2>2. Len(r.members) \in Nat /\ Len(room.members) \in Nat /\ room.cap \in Nat
      BY <2>1, RoomFacts
    <2> QED BY <1>4, <1>5, <1>6, <2>2 DEF FitsIn
  <1> QED BY <1>3, <1>7 DEF Right

LEMMA LeaveLandsKeeps ==
  ASSUME Inv, LeaveLands
  PROVE  Inv'
PROOF
  <1>1. /\ req # None /\ slow = "over" /\ req.op = "leave" /\ Write(req.w) /\ UNCHANGED slow
        /\ req' = IF Matches(req.w) THEN None ELSE [op |-> "left", by |-> req.by]
    BY DEF LeaveLands
  <1>2. SlowLeave(req)
    BY <1>1 DEF Inv, Pending, Slowed
  <1>3. Formed(req.w) /\ req.w.players = {}
    BY <1>1, <1>2 DEF SlowLeave
  <1>4. Matches(req.w) => Right(Updated(req.w))
    BY <1>1, <1>2, LateLeaveIsRight
  <1>5. req' # None => Slowed(req')
    BY <1>1, <1>2 DEF Slowed, SlowLeave
  <1> QED BY <1>1, <1>3, <1>4, <1>5, WriteKeeps

(* The games proceed: none is unused again, none that is over comes back, and the
   players of one that goes on are those it was created with. *)
GamesProceed ==
  /\ games' \in [GameIds -> Game]
  /\ \A g \in GameIds :
       /\ games[g].life # "unused" => games'[g].life # "unused"
       /\ games[g].life = "over" => games'[g].life = "over"
       /\ games'[g].life \in {"starting", "live"} =>
            games[g].life \in {"starting", "live"} /\ games'[g].players = games[g].players

LEMMA ProceedingIsRight ==
  ASSUME TypeOK, NEW r, Right(r), room' = r, UNCHANGED slow, GamesProceed
  PROVE  Right(room)' /\ TypeOK'
PROOF
  <1>1. Shaped(r)
    BY DEF Right
  <1>2. r.game \in GameIds \cup {None}
    BY <1>1, DocumentFields DEF Shaped
  <1>3. Shaped(room)'
    <2>1. room' \in Document'
      BY <1>1 DEF Shaped, Document, Member, GameIds
    <2>2. r.game # None => games'[r.game].life # "unused"
      BY <1>1, <1>2 DEF Shaped, GamesProceed
    <2> QED BY <1>1, <2>1, <2>2 DEF Shaped
  <1>4. (slow # "over" => VotesIn(room))'
    BY DEF Right, VotesIn, InStep
  <1>5. (slow \notin {"join", "settings", "removeBot"} => FitsIn(room))'
    BY DEF Right, FitsIn
  <1>6. (slow \in {"join", "watch", "settings", "start", "vote"} => HostedIn(room))'
    BY DEF Right, HostedIn, IdsOf
  <1>7. (slow \in {"settings", "host", "start", "vote"} => PlacesIn(room))'
    BY DEF Right, PlacesIn, IdsOf, Distinct
  <1>8. (slow \notin {"start", "removeBot", "over"} => TableIn(room))'
    <2>1. r.status = "STARTED" => r.game \in GameIds
      BY <1>1, <1>2 DEF Shaped
    <2>2. slow \notin {"start", "removeBot", "over"} => TableIn(r)
      BY DEF Right
    <2> QED BY <2>1, <2>2 DEF TableIn, GamesProceed, IdsOf
  <1>9. Right(room)'
    BY <1>3, <1>4, <1>5, <1>6, <1>7, <1>8 DEF Right
  <1> QED BY <1>9, TypeStays DEF GamesProceed

LEMMA ProceedingKeeps ==
  ASSUME Inv, NEW r, Right(r), room' = r, UNCHANGED slow, GamesProceed,
         r.game = room.game, r.cap = room.cap,
         r.status = "STARTED" => room.status = "STARTED",
         req' # None => Slowed(req')
  PROVE  Inv'
PROOF
  <1>1. Right(room)' /\ TypeOK'
    BY ProceedingIsRight DEF Inv
  <1>2. EndedStay
    BY DEF EndedStay, GamesProceed
  <1>3. req' # None => Slowed(req)'
    BY <1>2, SlowedStays
  <1> QED BY <1>1, <1>3 DEF Inv, Pending

(* A game ends, with the life it has then. *)
LEMMA EndingProceeds ==
  ASSUME Inv, NEW g \in GameIds, NEW life \in {"over", "terminated"},
         games[g].life = "live", games' = Ended(g, life)
  PROVE  GamesProceed
PROOF
  <1>1. games \in [GameIds -> Game]
    BY DEF Inv, TypeOK
  <1>2. [life |-> life, players |-> {}] \in Game
    BY DEF Game
  <1>3. games' = [games EXCEPT ![g] = [life |-> life, players |-> {}]]
    BY DEF Ended
  <1>4. games' \in [GameIds -> Game]
    BY <1>1, <1>2, <1>3
  <1>5. games'[g].life = life /\ \A h \in GameIds : h # g => games'[h] = games[h]
    BY <1>1, <1>3
  <1> QED BY <1>4, <1>5 DEF GamesProceed

LEMMA NothingProceeds ==
  ASSUME Inv, UNCHANGED games
  PROVE  GamesProceed
BY DEF GamesProceed, Inv, TypeOK

(* A vote is written. *)
LEMMA VotedIsRight ==
  ASSUME Inv, NEW u \in Humans, NEW g, NEW yes \in BOOLEAN, VoteStands(u, g),
         NEW r, r = Voted(room, u, g, yes)
  PROVE  /\ Right(r) /\ r.game = room.game /\ r.cap = room.cap /\ r.status = room.status
         /\ r.host = room.host
PROOF
  <1> DEFINE ms == [k \in DOMAIN room.members |->
                      IF room.members[k].id = u
                      THEN [room.members[k] EXCEPT !.ends = IF yes THEN g ELSE None]
                      ELSE room.members[k]]
  <1>1. /\ room.status = "STARTED" /\ room.game = g /\ room \in Document /\ Right(room)
        /\ g \in GameIds
    BY RoomFacts DEF VoteStands, TypeOK, Right, Shaped
  <1>2. r = [room EXCEPT !.members = ms]
    BY DEF Voted
  <1>3. /\ DOMAIN room.members = 1 .. Len(room.members) /\ Len(room.members) \in Nat
        /\ room.members \in Seq(Member)
        /\ \A k \in DOMAIN room.members : room.members[k] \in Member
    BY RoomFacts
  <1>4. \A k \in DOMAIN room.members :
          /\ ms[k] \in Member /\ ms[k].id = room.members[k].id
          /\ ms[k].ends \in {None, g, room.members[k].ends}
    <2> SUFFICES ASSUME NEW k \in DOMAIN room.members
                 PROVE  /\ ms[k] \in Member /\ ms[k].id = room.members[k].id
                        /\ ms[k].ends \in {None, g, room.members[k].ends}
      OBVIOUS
    <2> DEFINE m == room.members[k]
               e == IF yes THEN g ELSE None
    <2>1. m \in Member /\ (ms[k] = m \/ ms[k] = [m EXCEPT !.ends = e])
      BY <1>3
    <2>2. e \in GameIds \cup {None} /\ e \in {None, g}
      BY <1>1
    <2> HIDE DEF e, ms, m
    <2>3. [m EXCEPT !.ends = e] = [id |-> m.id, ends |-> e]
      BY <2>1 DEF Member
    <2>4. /\ ms[k] \in Member /\ ms[k].id = m.id
          /\ ms[k].ends \in {None, g, m.ends}
      BY <2>1, <2>2, <2>3 DEF Member
    <2> QED BY <2>4 DEF m
  <1>5. ms \in [1 .. Len(room.members) -> Member] /\ DOMAIN ms = DOMAIN room.members
    BY <1>3, <1>4
  <1> HIDE DEF ms
  <1>6. ms \in Seq(Member) /\ Len(ms) = Len(room.members)
    BY <1>3, <1>5
  <1>7. IdsOf(ms) = IdsOf(room.members) /\ (Distinct(room.members) => Distinct(ms))
    BY <1>3, <1>4, <1>5, <1>6, SameMembers
  <1>8. r = [status |-> room.status, host |-> room.host, game |-> room.game, members |-> ms,
             watchers |-> room.watchers, banned |-> room.banned, cap |-> room.cap,
             settings |-> room.settings]
    BY <1>1, <1>2 DEF Document
  <1>9. Shaped(r)
    BY <1>1, <1>6, <1>8 DEF Right, Shaped, Document
  <1>10. slow # "over" => VotesIn(r)
    BY <1>1, <1>4, <1>5, <1>8 DEF Right, VotesIn
  <1>11. slow \notin {"join", "settings", "removeBot"} => FitsIn(r)
    BY <1>1, <1>6, <1>8 DEF Right, FitsIn
  <1>12. slow \in {"join", "watch", "settings", "start", "vote"} => HostedIn(r)
    BY <1>1, <1>7, <1>8 DEF Right, HostedIn
  <1>13. slow \in {"settings", "host", "start", "vote"} => PlacesIn(r)
    BY <1>1, <1>7, <1>8 DEF Right, PlacesIn
  <1>14. slow \notin {"start", "removeBot", "over"} => TableIn(r)
    BY <1>1, <1>7, <1>8 DEF Right, TableIn
  <1>15. Right(r)
    BY <1>9, <1>10, <1>11, <1>12, <1>13, <1>14 DEF Right
  <1> QED BY <1>8, <1>15

(* The count ends the game or leaves it. *)
LEMMA CountProceeds ==
  ASSUME Inv, NEW r, NEW u, NEW yes, games' = Counted(r, u, yes)
  PROVE  GamesProceed
PROOF
  <1>1. \/ games' = games
        \/ games' = Ended(r.game, "over") /\ r.game \in GameIds /\ games[r.game].life = "live"
    BY DEF Counted
  <1> QED BY <1>1, EndingProceeds, NothingProceeds

LEMMA VoteKeeps ==
  ASSUME Inv, NEW u \in Humans, NEW yes \in BOOLEAN, Vote(u, yes)
  PROVE  Inv'
PROOF
  <1>1. room.status = "STARTED" /\ IsMember(u) /\ UNCHANGED slow
    BY DEF Vote
  <1>2. VoteStands(u, room.game) /\ room.game \in GameIds
    BY <1>1, RoomFacts DEF VoteStands, Right, Shaped
  <1>3. CASE /\ room' = Voted(room, u, room.game, yes)
             /\ games' = Counted(Voted(room, u, room.game, yes), u, yes)
             /\ UNCHANGED req
    <2> DEFINE r == Voted(room, u, room.game, yes)
    <2>1. Right(r) /\ r.game = room.game /\ r.cap = room.cap /\ r.status = room.status
      BY <1>2, VotedIsRight
    <2>2. GamesProceed
      BY <1>3, CountProceeds
    <2>3. req' # None => Slowed(req')
      BY <1>3 DEF Inv, Pending
    <2>4. room' = r
      BY <1>3
    <2> HIDE DEF r
    <2> QED BY <1>1, <2>1, <2>2, <2>3, <2>4, ProceedingKeeps
  <1>4. CASE /\ slow = "vote" /\ UNCHANGED <<room, games>>
             /\ req' = [op |-> "vote", by |-> u, yes |-> yes]
    <2>1. Slowed(req')
      BY <1>2, <1>4 DEF Slowed, SlowVote
    <2> QED BY <1>1, <1>4, <2>1, Undisturbed
  <1> QED BY <1>3, <1>4 DEF Vote

LEMMA VoteReadsKeeps ==
  ASSUME Inv, VoteReads
  PROVE  Inv'
PROOF
  <1>1. req # None /\ req.op = "vote" /\ slow = "vote" /\ UNCHANGED <<room, games, slow>>
    BY OpTells DEF VoteReads
  <1>2. req \in [op : {"vote"}, by : Humans, yes : BOOLEAN]
    BY <1>1 DEF Inv, Pending, Slowed, SlowVote
  <1>3. CASE req' = None
    BY <1>1, <1>3, Undisturbed
  <1>4. CASE /\ room.status = "STARTED"
             /\ req' = [op |-> "cast", by |-> req.by, game |-> room.game, yes |-> req.yes]
    <2>1. room.game \in GameIds
      BY <1>4, RoomFacts DEF Right, Shaped
    <2>2. req' \in [op : {"cast", "count"}, by : Humans, game : GameIds, yes : BOOLEAN]
      BY <1>2, <1>4, <2>1
    <2>3. Slowed(req')
      BY <1>1, <2>2 DEF Slowed, SlowVote
    <2> QED BY <1>1, <2>3, Undisturbed
  <1> QED BY <1>3, <1>4 DEF VoteReads

LEMMA VoteLandsKeeps ==
  ASSUME Inv, VoteLands
  PROVE  Inv'
PROOF
  <1>1. req # None /\ req.op = "cast" /\ slow = "vote" /\ UNCHANGED <<games, slow>>
    BY OpTells DEF VoteLands
  <1>2. req \in [op : {"cast", "count"}, by : Humans, game : GameIds, yes : BOOLEAN]
    BY <1>1 DEF Inv, Pending, Slowed, SlowVote
  <1>3. CASE /\ VoteStands(req.by, req.game) /\ req' = [req EXCEPT !.op = "count"]
             /\ room' = Voted(room, req.by, req.game, req.yes)
    <2>1. req' \in [op : {"cast", "count"}, by : Humans, game : GameIds, yes : BOOLEAN]
      BY <1>2, <1>3
    <2>2. Slowed(req')
      BY <1>1, <2>1 DEF Slowed, SlowVote
    <2>3. /\ Right(room') /\ room'.game = room.game /\ room'.cap = room.cap
          /\ room'.status = room.status
      BY <1>2, <1>3, VotedIsRight
    <2>4. GamesProceed
      BY <1>1, NothingProceeds
    <2> QED BY <1>1, <2>2, <2>3, <2>4, ProceedingKeeps
  <1>4. CASE UNCHANGED room /\ req' = None
    BY <1>1, <1>4, Undisturbed
  <1> QED BY <1>3, <1>4 DEF VoteLands

LEMMA VoteCountsKeeps ==
  ASSUME Inv, VoteCounts
  PROVE  Inv'
PROOF
  <1>1. games' = Counted(room, req.by, req.yes) /\ req' = None /\ UNCHANGED <<room, slow>>
    BY DEF VoteCounts
  <1>2. GamesProceed
    BY <1>1, CountProceeds
  <1> QED BY <1>1, <1>2, RoomFacts, ProceedingKeeps


LEMMA GameKeeps ==
  ASSUME Inv, NEW g \in GameIds, CreateMatch(g) \/ GameOver(g) \/ Terminate(g)
  PROVE  Inv'
PROOF
  <1>1. UNCHANGED <<room, slow, req>>
    BY DEF CreateMatch, GameOver, Terminate, Becomes
  <1>2. GamesProceed
    <2>1. CASE CreateMatch(g)
      <3>1. games[g].life = "starting" /\ games' = [games EXCEPT ![g].life = "live"]
        BY <2>1 DEF CreateMatch, Becomes
      <3>2. games \in [GameIds -> Game] /\ games[g] \in Game
        BY DEF Inv, TypeOK
      <3>3. games' = [games EXCEPT ![g] = [life |-> "live", players |-> games[g].players]]
        <4>1. games' = [games EXCEPT ![g] = [games[g] EXCEPT !.life = "live"]]
          BY <3>1
        <4>2. [games[g] EXCEPT !.life = "live"] = [life |-> "live", players |-> games[g].players]
          BY <3>2 DEF Game
        <4> QED BY <4>1, <4>2
      <3>4. [life |-> "live", players |-> games[g].players] \in Game
        BY <3>2 DEF Game
      <3>5. games' \in [GameIds -> Game]
        BY <3>2, <3>3, <3>4
      <3>6. /\ games'[g].life = "live" /\ games'[g].players = games[g].players
            /\ \A h \in GameIds : h # g => games'[h] = games[h]
        BY <3>2, <3>3
      <3> QED BY <3>1, <3>5, <3>6 DEF GamesProceed
    <2>2. CASE GameOver(g)
      BY <2>2, EndingProceeds DEF GameOver, Becomes
    <2>3. CASE Terminate(g)
      BY <2>3, EndingProceeds DEF Terminate, Becomes
    <2> QED BY <2>1, <2>2, <2>3
  <1>3. req' # None => Slowed(req')
    BY <1>1 DEF Inv, Pending
  <1> QED BY <1>1, <1>2, <1>3, RoomFacts, ProceedingKeeps

LEMMA CloseByGameKeeps ==
  ASSUME Inv, NEW g \in GameIds, CloseByGame(g)
  PROVE  Inv'
PROOF
  <1>1. /\ room' = [room EXCEPT !.status = "CLOSED"] /\ room.status = "STARTED"
        /\ UNCHANGED <<games, slow, req>> /\ room \in Document /\ Right(room)
    BY RoomFacts DEF CloseByGame, TypeOK
  <1>2. room' = [status |-> "CLOSED", host |-> room.host, game |-> room.game,
                 members |-> room.members, watchers |-> room.watchers,
                 banned |-> room.banned, cap |-> room.cap, settings |-> room.settings]
    BY <1>1 DEF Document
  <1>3. Shaped(room')
    BY <1>1, <1>2 DEF Right, Shaped, Document
  <1>4. Right(room')
    BY <1>1, <1>2, <1>3 DEF Right, VotesIn, FitsIn, HostedIn, PlacesIn, TableIn
  <1>5. GamesProceed
    BY <1>1, NothingProceeds
  <1>6. req' # None => Slowed(req')
    BY <1>1 DEF Inv, Pending
  <1> QED BY <1>1, <1>2, <1>4, <1>5, <1>6, ProceedingKeeps

LEMMA RestartKeeps ==
  ASSUME Inv, Restart
  PROVE  Inv'
PROOF
  <1>1. /\ games' = [g \in GameIds |-> IF games[g].life = "starting"
                                       THEN [life |-> "lost", players |-> {}] ELSE games[g]]
        /\ req' = None /\ UNCHANGED <<room, slow>> /\ games \in [GameIds -> Game]
    BY DEF Restart, Inv, TypeOK
  <1>2. [life |-> "lost", players |-> {}] \in Game
    BY DEF Game
  <1>3. games' \in [GameIds -> Game]
    BY <1>1, <1>2
  <1>4. GamesProceed
    BY <1>1, <1>3 DEF GamesProceed
  <1> QED BY <1>1, <1>4, RoomFacts, ProceedingKeeps

-----------------------------------------------------------------------------
(* The invariant. *)

LEMMA InitHolds ==
  ASSUME Init
  PROVE  Inv
PROOF
  <1>1. /\ room.status = "LOBBY" /\ room.host = Owner /\ room.members = <<Seated(Owner)>>
        /\ room.watchers = {} /\ room.banned = {} /\ room.cap = BaseCap /\ room.game = None
    BY DEF Init
  <1>2. /\ games = [g \in GameIds |-> [life |-> "unused", players |-> {}]]
        /\ slow \in Classes /\ req = None
    BY DEF Init
  <1>3. Owner \in Ids /\ Owner \in Humans /\ BaseCap \in Nat /\ BaseCap >= 1
    BY RoomAssumption DEF Ids
  <1>4. Seated(Owner) \in Member /\ Seated(Owner).id = Owner /\ Seated(Owner).ends = None
    BY <1>3 DEF Seated, Member
  <1>5. /\ room.members \in Seq(Member) /\ Len(room.members) = 1
        /\ DOMAIN room.members = {1} /\ room.members[1] = Seated(Owner)
    BY <1>1, <1>4
  <1>6. games \in [GameIds -> Game]
    BY <1>2 DEF Game
  <1>7. room \in Document
    BY <1>1, <1>3, <1>5 DEF Init, Document
  <1>8. TypeOK
    BY <1>1, <1>2, <1>6, <1>7 DEF TypeOK
  <1>9. VotesIn(room) /\ FitsIn(room) /\ HostedIn(room) /\ TableIn(room)
    BY <1>1, <1>3, <1>4, <1>5 DEF VotesIn, InStep, FitsIn, HostedIn, TableIn, IdsOf
  <1>10. PlacesIn(room)
    BY <1>1, <1>5 DEF PlacesIn, Distinct
  <1>11. Shaped(room)
    BY <1>1, <1>7 DEF Shaped
  <1> QED BY <1>2, <1>8, <1>9, <1>10, <1>11 DEF Inv, Right, Pending

LEMMA NextKeeps ==
  ASSUME Inv, [Next]_vars
  PROVE  Inv'
PROOF
  <1>1. CASE UNCHANGED vars
    BY <1>1, Undisturbed DEF vars, Inv, Pending
  <1>2. CASE \E u \in Humans : \/ Join(u) \/ BecomePlayer(u) \/ Spectate(u) \/ Leave(u)
                               \/ LeaveFinished(u) \/ BecomeSpectator(u)
    BY <1>2, JoinKeeps, BecomePlayerKeeps, SpectateKeeps, LeaveKeeps, LeaveFinishedKeeps,
       BecomeSpectatorKeeps
  <1>3. CASE \E u \in Humans, b \in BOOLEAN : Vote(u, b)
    BY <1>3, VoteKeeps
  <1>4. CASE \E b \in Bots : AddBot(b) \/ RemoveBot(b)
    BY <1>4, AddBotKeeps, RemoveBotKeeps
  <1>5. CASE \E i \in Ids : Kick(i)
    BY <1>5, KickKeeps
  <1>6. CASE Reseat
    BY <1>6, ReseatKeeps
  <1>7. CASE \E u \in Humans : \E t \in 0 .. (room.settings.teams - 1) : JoinTeam(u, t)
    BY <1>7, JoinTeamKeeps
  <1>8. CASE \E s \in Settings[slow] : UpdateSettings(s)
    BY <1>8, UpdateSettingsKeeps
  <1>9. CASE \E a \in BOOLEAN : CloseRoom(a) \/ \E t \in Humans : TransferHost(t, a)
    BY <1>9, CloseRoomKeeps, TransferHostKeeps
  <1>10. CASE Start \/ Rematch
    BY <1>10, StartKeeps, RematchKeeps
  <1>11. CASE Land \/ LeaveReads \/ LeaveLands \/ VoteReads \/ VoteLands
             \/ VoteCounts
    BY <1>11, LandKeeps, LeaveReadsKeeps, LeaveLandsKeeps, VoteReadsKeeps,
       VoteLandsKeeps, VoteCountsKeeps
  <1>12. CASE \E g \in GameIds : CreateMatch(g) \/ GameOver(g) \/ Terminate(g) \/ CloseByGame(g)
    BY <1>12, GameKeeps, CloseByGameKeeps
  <1>13. CASE Restart
    BY <1>13, RestartKeeps
  <1> QED BY <1>1, <1>2, <1>3, <1>4, <1>5, <1>6, <1>7, <1>8, <1>9, <1>10, <1>11, <1>12, <1>13
          DEF Next

(* The inductive invariant, whatever class of requests is slow: between the read
   and the write of a slow request any other operations may have run. *)
THEOREM Invariance == Spec => []Inv
PROOF
  <1>1. Init => Inv
    BY InitHolds
  <1>2. Inv /\ [Next]_vars => Inv'
    BY NextKeeps
  <1> QED BY <1>1, <1>2, PTL DEF Spec

(* Every update RoomRepo writes leaves a document of the shape it declares, and a
   started room names its game. *)
THEOREM TypeCorrect == Spec => []TypeOK
PROOF
  <1>1. Inv => TypeOK
    BY DEF Inv
  <1> QED BY <1>1, Invariance, PTL

(* No room is fuller than its cap: the size that joins, seat changes and departures
   compare, and the lobby status that settings ask for, are enough, unless joins or
   settings themselves are slow, or a bot's removal is. *)
THEOREM RoomsFit == Spec => []RoomFits
PROOF
  <1>1. Inv => RoomFits
    BY DEF Inv, Right, FitsIn, RoomFits
  <1> QED BY <1>1, Invariance, PTL

(* A lobby has its host at the table, whatever slow joins, settings, starts and votes
   come late. *)
THEOREM HostsStay == Spec => []HostHasASeat
PROOF
  <1>1. Inv => HostHasASeat
    BY DEF Inv, Right, HostedIn, HostHasASeat, Lobby, IsMember
  <1> QED BY <1>1, Invariance, PTL

(* Nobody has two places in a room, and nobody who was removed has one. *)
THEOREM PlacesAreSingle == Spec => []OnePlaceEach
PROOF
  <1>1. ASSUME Inv
        PROVE  OnePlaceEach
    <2> SUFFICES ASSUME slow \in {"settings", "host", "start", "vote"}
                 PROVE  /\ Cardinality(IdsOf(room.members)) = Len(room.members)
                        /\ IdsOf(room.members) \cap room.watchers = {}
                        /\ room.banned \cap (room.watchers \cup IdsOf(room.members)) = {}
      BY DEF OnePlaceEach
    <2>1. PlacesIn(room) /\ room.members \in Seq(Member)
      BY <1>1, RoomFacts DEF Right
    <2>2. Cardinality(IdsOf(room.members)) = Len(room.members)
      BY <2>1, DistinctIsCounted DEF PlacesIn
    <2> QED BY <2>1, <2>2 DEF PlacesIn
  <1>2. Inv => OnePlaceEach
    BY <1>1
  <1> QED BY <1>2, Invariance, PTL

(* What start makes a game of is a table of the rules: the three results above. *)
THEOREM TablesAreSound == Spec => []TableIsSound
PROOF
  <1>1. RoomFits /\ HostHasASeat /\ OnePlaceEach => TableIsSound
    BY DEF TableIsSound
  <1> QED BY <1>1, RoomsFit, HostsStay, PlacesAreSingle, PTL

(* While a game is live its room lists exactly its players, although leave, kick and
   becomeSpectator decide on a lobby that may have started when they write. *)
THEOREM TablesMatch == Spec => []GameIsTheTable
PROOF
  <1>1. Inv => GameIsTheTable
    BY DEF Inv, Right, TableIn, GameIsTheTable, Live
  <1> QED BY <1>1, Invariance, PTL

(* No vote to end a game is carried into another game of the room. *)
THEOREM VotesBelong == Spec => []VotesAreOfThisGame
PROOF
  <1>1. Inv => VotesAreOfThisGame
    BY DEF Inv, Right, VotesIn, VotesAreOfThisGame
  <1> QED BY <1>1, Invariance, PTL
=============================================================================
