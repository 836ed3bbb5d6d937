------------------------- MODULE RegistrationProofs -------------------------
(***************************************************************************)
(* Registration for any number of processes, services and methods, however *)
(* processes are killed and sessions lost and expired.                     *)
(***************************************************************************)
EXTENDS Registration, SequenceLemmas, SequenceTheorems

-----------------------------------------------------------------------------
(***************************************************************************)
(* The paths a process creates for its service_map.                        *)
(***************************************************************************)
RoutesFor(map, address) == UNION {{<<s, m, address>> : m \in map[s]} : s \in DOMAIN map}

MethodPaths(map) == UNION {{<<s, m>> : m \in map[s]} : s \in DOMAIN map}

Paths(map, address) == {<<s>> : s \in DOMAIN map} \cup MethodPaths(map) \cup RoutesFor(map, address)

Finite(map) == IsFiniteSet(DOMAIN map) /\ \A s \in DOMAIN map : IsFiniteSet(map[s])

(***************************************************************************)
(* service_map is finite.                                                  *)
(***************************************************************************)
LEMMA NotifyServiceFinite ==
  ASSUME NEW map, Finite(map), NEW service, IsFiniteSet(service.methods)
  PROVE  Finite(NotifyService(map, service))
  <1> DEFINE new == NotifyService(map, service)
  <1>1. /\ DOMAIN new = DOMAIN map \cup {service.name}
        /\ \A s \in DOMAIN new : new[s] = IF s \in DOMAIN map THEN map[s] ELSE service.methods
    BY DEF NotifyService
  <1>2. IsFiniteSet(DOMAIN map \cup {service.name})
    BY FS_AddElement DEF Finite
  <1> HIDE DEF new
  <1>3. Finite(new)
    BY <1>1, <1>2 DEF Finite
  <1> QED
    BY <1>3 DEF new

LEMMA ServiceMapFinite == Finite(ServiceMap)
  <1> DEFINE N == Len(Provided)
             Joins(g, k) == g = [i \in 0 .. k |-> IF i = 0 THEN NoEntry
                                                  ELSE NotifyService(g[i - 1], Provided[i])]
             T == {k \in Nat : ~\E g : Joins(g, k)}
  <1>1. ASSUME T # {} PROVE FALSE
    <2>1. PICK k \in T : \A y \in T : k <= y
      <3> HIDE DEF Joins
      <3> QED
        BY <1>1, LeastNat
    <2>2. CASE k = 0
      <3>1. Joins([i \in 0 .. 0 |-> NoEntry], 0)
        OBVIOUS
      <3> QED
        BY <2>1, <2>2, <3>1
    <2>3. CASE k # 0
      <3>0. k \in Nat
        OBVIOUS
      <3>1. k - 1 \in Nat /\ ~(k <= k - 1)
        BY <2>3, <3>0
      <3>2. PICK g : Joins(g, k - 1)
        <4>1. k - 1 \notin T
          <5> HIDE DEF Joins
          <5> QED
            BY <2>1, <3>1
        <4> QED
          BY <3>1, <4>1
      <3> DEFINE h == [i \in 0 .. k |-> IF i = k THEN NotifyService(g[k - 1], Provided[k])
                                        ELSE g[i]]
      <3>3. ASSUME NEW i \in 0 .. k
            PROVE  h[i] = IF i = 0 THEN NoEntry ELSE NotifyService(h[i - 1], Provided[i])
        <4>1. CASE i = k
          <5>1. i # 0 /\ i - 1 \in 0 .. k /\ i - 1 # k
            BY <2>3, <3>0, <4>1
          <5> QED
            BY <4>1, <5>1
        <4>2. CASE i # k
          <5>1. /\ i \in 0 .. (k - 1) /\ h[i] = g[i]
                /\ i # 0 => i - 1 \in 0 .. k /\ i - 1 # k
            BY <3>0, <4>2
          <5> QED
            BY <3>2, <5>1
        <4> QED
          BY <4>1, <4>2
      <3>4. Joins(h, k)
        BY <3>3
      <3> QED
        BY <3>4
    <2> QED
      BY <2>2, <2>3
  <1>2. N \in Nat
    BY ProvidedAssumption
  <1>3. PICK g : Joins(g, N)
    BY <1>1, <1>2
  <1> DEFINE map == CHOOSE f : Joins(f, N)
  <1>4. Joins(map, N)
    BY <1>3
  <1>5. ServiceMap = map[N]
    BY DEF ServiceMap
  <1> HIDE DEF map
  <1> DEFINE U == {k \in Nat : k <= N /\ ~Finite(map[k])}
  <1>6. ASSUME U # {} PROVE FALSE
    <2>1. PICK k \in U : \A y \in U : k <= y
      BY <1>6, LeastNat
    <2>2. k \in 0 .. N
      BY <1>2, <2>1
    <2>3. CASE k = 0
      <3>1. map[0] = NoEntry
        BY <1>4, <2>2, <2>3
      <3>2. DOMAIN NoEntry = {}
        BY DEF NoEntry
      <3>3. Finite(NoEntry)
        BY <3>2, FS_EmptySet DEF Finite
      <3> QED
        BY <2>1, <2>3, <3>1, <3>3
    <2>4. CASE k # 0
      <3>1. k - 1 \in Nat /\ k - 1 <= N /\ ~(k <= k - 1) /\ k \in 1 .. N
        BY <1>2, <2>2, <2>4
      <3>2. Finite(map[k - 1])
        BY <2>1, <3>1
      <3>3. map[k] = NotifyService(map[k - 1], Provided[k])
        BY <1>4, <2>2, <2>4
      <3>4. IsFiniteSet(Provided[k].methods)
        BY <3>1, ProvidedAssumption
      <3>5. Finite(map[k])
        BY <3>2, <3>3, <3>4, NotifyServiceFinite
      <3> QED
        BY <2>1, <3>5
    <2> QED
      BY <2>3, <2>4
  <1>7. Finite(map[N])
    BY <1>2, <1>6
  <1> QED
    BY <1>5, <1>7


(***************************************************************************)
(* The two sets, one path at a time.                                       *)
(***************************************************************************)
LEMMA PathsAre ==
  ASSUME NEW map, NEW a, NEW n
  PROVE  /\ n \in RoutesFor(map, a) <=> \E s \in DOMAIN map : \E m \in map[s] : n = <<s, m, a>>
         /\ n \in Paths(map, a) <=>
              \/ \E s \in DOMAIN map : n = <<s>>
              \/ \E s \in DOMAIN map : \E m \in map[s] : n = <<s, m>>
              \/ \E s \in DOMAIN map : \E m \in map[s] : n = <<s, m, a>>
  <1> DEFINE T(s) == {<<s, m>> : m \in map[s]}
             R(s) == {<<s, m, a>> : m \in map[s]}
             TT == UNION {T(s) : s \in DOMAIN map}
             RR == UNION {R(s) : s \in DOMAIN map}
             SS == {<<s>> : s \in DOMAIN map}
  <1>1. \A s : n \in T(s) <=> \E m \in map[s] : n = <<s, m>>
    OBVIOUS
  <1>2. \A s : n \in R(s) <=> \E m \in map[s] : n = <<s, m, a>>
    OBVIOUS
  <1>3. n \in SS <=> \E s \in DOMAIN map : n = <<s>>
    OBVIOUS
  <1>0. RoutesFor(map, a) = RR
    BY DEF RoutesFor
  <1>9. MethodPaths(map) = TT
    BY DEF MethodPaths
  <1>4. Paths(map, a) = SS \cup TT \cup RR
    BY <1>0, <1>9 DEF Paths
  <1>5. n \in TT <=> \E s \in DOMAIN map : n \in T(s)
    <2> HIDE DEF T
    <2> QED
      OBVIOUS
  <1>6. n \in RR <=> \E s \in DOMAIN map : n \in R(s)
    <2> HIDE DEF R
    <2> QED
      OBVIOUS
  <1> HIDE DEF T, R, SS, TT, RR
  <1>7. n \in RR <=> \E s \in DOMAIN map : \E m \in map[s] : n = <<s, m, a>>
    BY <1>2, <1>6
  <1>8. n \in TT <=> \E s \in DOMAIN map : \E m \in map[s] : n = <<s, m>>
    BY <1>1, <1>5
  <1> QED
    BY <1>0, <1>3, <1>4, <1>7, <1>8

-----------------------------------------------------------------------------
(***************************************************************************)
(* Whatever the order in which Run walks the two unordered maps, it goes   *)
(* through the paths of its service_map and misses no route.               *)
(***************************************************************************)
LEMMA PlanElements ==
  ASSUME NEW map, Finite(map), NEW a, NEW plan \in Plans(map, a)
  PROVE  plan \in Seq(Paths(map, a)) /\ RoutesFor(map, a) \subseteq Elements(plan)
  <1> DEFINE P == Paths(map, a)
  <1>1. PICK ss \in SetToSeqs(DOMAIN map), order \in Orders(map) : plan = PlanOf(ss, order, a)
    BY DEF Plans
  <1>0. \A s \in DOMAIN map : order[s] \in SetToSeqs(map[s])
    BY DEF Orders
  <1>2. ASSUME NEW s \in DOMAIN map
        PROVE  /\ ServiceNodes(s, order[s], a) \in Seq(P)
               /\ \A m \in map[s] : <<s, m, a>> \in Elements(ServiceNodes(s, order[s], a))
    <2>1. PICK ms : ms = order[s]
      OBVIOUS
    <2>2. ms \in Seq(map[s]) /\ Elements(ms) = map[s]
      BY <1>0, <2>1, WalkElements DEF Finite
    <2>3. PICK q : q = [i \in 1 .. Len(ms) |-> MethodNodes(s, ms[i], a)]
      OBVIOUS
    <2>4. Len(ms) \in Nat /\ \A i \in 1 .. Len(ms) : ms[i] \in map[s]
      BY <2>2
    <2>5. ASSUME NEW m \in map[s]
          PROVE  /\ MethodNodes(s, m, a) \in Seq(P)
                 /\ <<s, m, a>> \in Elements(MethodNodes(s, m, a))
      <3>1. <<s, m>> \in P /\ <<s, m, a>> \in P
        BY PathsAre
      <3>2. PICK y, z : y = <<s, m>> /\ z = <<s, m, a>>
        OBVIOUS
      <3>3. <<y, z>> \in Seq(P) /\ z \in Elements(<<y, z>>)
        <4>1. <<y, z>> \in Seq(P) /\ Len(<<y, z>>) = 2 /\ <<y, z>>[2] = z
          BY <3>1, <3>2
        <4> QED
          BY <4>1 DEF Elements
      <3> QED
        BY <3>2, <3>3 DEF MethodNodes
    <2>6. /\ DOMAIN q = 1 .. Len(ms)
          /\ \A i \in 1 .. Len(ms) : q[i] = MethodNodes(s, ms[i], a) /\ q[i] \in Seq(P)
      BY <2>3, <2>4, <2>5
    <2>7. q \in Seq(Seq(P)) /\ Len(q) = Len(ms)
      <3>1. q = [i \in 1 .. Len(ms) |-> q[i]]
        BY <2>3, <2>6
      <3> QED
        BY <2>4, <2>6, <3>1
    <2>8. /\ FlattenSeq(q) \in Seq(P)
          /\ Elements(FlattenSeq(q)) = UNION {Elements(q[i]) : i \in 1 .. Len(q)}
      BY <2>7, FlattenElements
    <2>9. PICK first : first = <<<<s>>>> /\ first \in Seq(P)
      <3>1. <<s>> \in P
        BY PathsAre
      <3>2. PICK y : y = <<s>>
        OBVIOUS
      <3>3. <<y>> \in Seq(P)
        BY <3>1, <3>2
      <3> QED
        BY <3>2, <3>3
    <2>10. /\ first \o FlattenSeq(q) \in Seq(P)
           /\ Elements(FlattenSeq(q)) \subseteq Elements(first \o FlattenSeq(q))
      <3>1. PICK r : r = FlattenSeq(q)
        OBVIOUS
      <3>2. r \in Seq(P) /\ first \in Seq(P)
        BY <2>8, <2>9, <3>1
      <3>3. first \o r \in Seq(P) /\ Elements(first \o r) = Elements(first) \cup Elements(r)
        <4> HIDE DEF P
        <4> QED
          BY <3>2, ElementsConcat
      <3> QED
        BY <3>1, <3>3
    <2>11. ASSUME NEW m \in map[s]
           PROVE  <<s, m, a>> \in Elements(FlattenSeq(q))
      <3>1. PICK i \in 1 .. Len(ms) : ms[i] = m
        BY <2>2 DEF Elements
      <3>2. <<s, m, a>> \in Elements(q[i])
        BY <2>5, <2>6, <3>1
      <3> QED
        BY <2>7, <2>8, <3>1, <3>2
    <2> QED
      BY <2>1, <2>3, <2>9, <2>10, <2>11 DEF ServiceNodes
  <1>3. ss \in Seq(DOMAIN map) /\ Elements(ss) = DOMAIN map
    BY WalkElements DEF Finite
  <1>4. PICK q : q = [i \in 1 .. Len(ss) |-> ServiceNodes(ss[i], order[ss[i]], a)]
    OBVIOUS
  <1>5. Len(ss) \in Nat /\ \A i \in 1 .. Len(ss) : ss[i] \in DOMAIN map
    BY <1>3
  <1>6. /\ DOMAIN q = 1 .. Len(ss)
        /\ \A i \in 1 .. Len(ss) : /\ q[i] \in Seq(P)
                                   /\ \A m \in map[ss[i]] : <<ss[i], m, a>> \in Elements(q[i])
    BY <1>2, <1>4, <1>5
  <1>7. q \in Seq(Seq(P)) /\ Len(q) = Len(ss)
    <2>1. q = [i \in 1 .. Len(ss) |-> q[i]]
      BY <1>4, <1>6
    <2> QED
      BY <1>5, <1>6, <2>1
  <1>8. /\ FlattenSeq(q) \in Seq(P)
        /\ Elements(FlattenSeq(q)) = UNION {Elements(q[i]) : i \in 1 .. Len(q)}
    BY <1>7, FlattenElements
  <1>9. ASSUME NEW n \in RoutesFor(map, a) PROVE n \in Elements(FlattenSeq(q))
    <2>1. PICK s \in DOMAIN map : \E m \in map[s] : n = <<s, m, a>>
      BY PathsAre
    <2>2. PICK i \in 1 .. Len(ss) : ss[i] = s
      BY <1>3 DEF Elements
    <2> QED
      BY <1>6, <1>7, <1>8, <2>1, <2>2
  <1>10. plan = FlattenSeq(q)
    BY <1>1, <1>4 DEF PlanOf
  <1> QED
    BY <1>8, <1>9, <1>10

(***************************************************************************)
(* A path has one to three parts, and the one above it has one less.       *)
(***************************************************************************)
LEMMA PathShape ==
  ASSUME NEW map, NEW a, NEW n \in Paths(map, a)
  PROVE  /\ Len(n) \in 1 .. 3
         /\ Len(n) = 3 => n \in RoutesFor(map, a)
         /\ Len(n) > 1 => Len(Front(n)) = Len(n) - 1
  <1>1. ASSUME NEW s, n = <<s>> PROVE Len(n) = 1
    BY <1>1
  <1>2. ASSUME NEW s, NEW m, n = <<s, m>> PROVE Len(n) = 2 /\ Len(Front(n)) = 1
    <2>1. n \in Seq({s, m}) /\ Len(n) = 2
      BY <1>2
    <2>2. Front(n) = SubSeq(n, 1, 1)
      BY <2>1 DEF Front
    <2> QED
      BY <2>1, <2>2
  <1>3. ASSUME NEW s, NEW m, n = <<s, m, a>> PROVE Len(n) = 3 /\ Len(Front(n)) = 2
    <2>1. n \in Seq({s, m, a}) /\ Len(n) = 3
      BY <1>3
    <2>2. Front(n) = SubSeq(n, 1, 2)
      BY <2>1 DEF Front
    <2> QED
      BY <2>1, <2>2
  <1>4. CASE \E s \in DOMAIN map : n = <<s>>
    <2>1. Len(n) = 1
      BY <1>1, <1>4
    <2> QED
      BY <2>1
  <1>5. CASE \E s \in DOMAIN map : \E m \in map[s] : n = <<s, m>>
    <2>1. Len(n) = 2 /\ Len(Front(n)) = 1
      BY <1>2, <1>5
    <2> QED
      BY <2>1
  <1>6. CASE \E s \in DOMAIN map : \E m \in map[s] : n = <<s, m, a>>
    <2>1. n \in RoutesFor(map, a)
      BY <1>6, PathsAre
    <2>2. Len(n) = 3 /\ Len(Front(n)) = 2
      BY <1>3, <1>6
    <2> QED
      BY <2>1, <2>2
  <1> QED
    BY <1>4, <1>5, <1>6, PathsAre

LEMMA RouteLength ==
  ASSUME NEW map, NEW a, NEW n \in RoutesFor(map, a)
  PROVE  Len(n) = 3
  <1>1. PICK s \in DOMAIN map : \E m \in map[s] : n = <<s, m, a>>
    BY PathsAre
  <1> QED
    BY <1>1

LEMMA TailElements ==
  ASSUME NEW S, NEW s \in Seq(S), s # << >>
  PROVE  /\ Head(s) \in S /\ Tail(s) \in Seq(S) /\ Len(Tail(s)) = Len(s) - 1
         /\ Elements(s) \subseteq {Head(s)} \cup Elements(Tail(s))
         /\ (Tail(s) = << >>) <=> (Len(s) = 1)
  <1>1. /\ Head(s) = s[1] /\ Head(s) \in S /\ Tail(s) \in Seq(S) /\ Len(s) \in Nat \ {0}
        /\ Len(Tail(s)) = Len(s) - 1
        /\ \A i \in 1 .. Len(s) - 1 : Tail(s)[i] = s[i + 1]
    OBVIOUS
  <1>2. ASSUME NEW i \in 1 .. Len(s), i # 1 PROVE s[i] \in Elements(Tail(s))
    <2>1. i - 1 \in 1 .. Len(s) - 1 /\ Tail(s)[i - 1] = s[i]
      BY <1>1, <1>2
    <2> QED
      BY <1>1, <2>1 DEF Elements
  <1>3. (Tail(s) = << >>) <=> (Len(s) = 1)
    <2>1. PICK t : t = Tail(s)
      OBVIOUS
    <2>2. t \in Seq(S) /\ Len(t) = Len(s) - 1
      BY <1>1, <2>1
    <2>3. (t = << >>) <=> (Len(t) = 0)
      BY <2>2, EmptySeq
    <2> QED
      BY <1>1, <2>1, <2>2, <2>3
  <1> QED
    BY <1>1, <1>2, <1>3 DEF Elements


-----------------------------------------------------------------------------
(***************************************************************************)
(* The inductive invariant.  Of a process: what Run has still to create    *)
(* and what Create skipped are paths of its own, there is no session       *)
(* before Start, and a route it provides is still to come, created and     *)
(* its own, skipped, or gone with the session.                             *)
(***************************************************************************)
Stages == {"off", "exited", "bind", "start", "check", "sleep", "exists", "create", "listen",
           "serving"}

ProcState ==
  /\ pc \in [Procs -> Stages]
  /\ session \in [Procs -> {"none", "open", "expired"}]
  /\ isConnected \in [Procs -> BOOLEAN]
  /\ linked \in [Procs -> BOOLEAN]
  /\ told \in [Procs -> SUBSET {"connected", "expired"}]
  /\ DOMAIN config = Procs
  /\ DOMAIN serviceMap = Procs
  /\ DOMAIN todo = Procs
  /\ DOMAIN skipped = Procs

PathsOf(p) == Paths(serviceMap[p], Address(p))

Own(p) ==
  /\ Finite(serviceMap[p])
  /\ todo[p] \in Seq(PathsOf(p))
  /\ skipped[p] \subseteq PathsOf(p)

Stage(p) ==
  /\ (pc[p] \in {"exists", "create"}) <=> (todo[p] # << >>)
  /\ pc[p] \in {"off", "bind", "start"} => session[p] = "none"
  /\ pc[p] = "off" => skipped[p] = {}

Skipped(p, n) == \E k \in skipped[p] : Len(k) = 3 /\ Front(k) = Front(n)

Registered(p) ==
  pc[p] \in {"exists", "create", "listen", "serving"} /\ session[p] = "open" =>
    \A n \in Routes(p) : \/ n \in Elements(todo[p])
                         \/ n \in DOMAIN znodes /\ znodes[n] = p
                         \/ Skipped(p, n)

(***************************************************************************)
(* Of a node: only routes are ephemeral, its parent is there, and the      *)
(* owner of a route has a session and the route among its own.             *)
(***************************************************************************)
NodeState(n) ==
  /\ Len(n) \in 1 .. 3
  /\ Len(n) # 3 => znodes[n] = Persistent
  /\ Len(n) = 3 => /\ znodes[n] \in Procs
                   /\ session[znodes[n]] = "open"
                   /\ n \in Routes(znodes[n])
  /\ Len(n) > 1 => Front(n) \in DOMAIN znodes /\ Len(Front(n)) = Len(n) - 1

RegInv ==
  /\ ProcState
  /\ \A p \in Procs : Own(p) /\ Stage(p) /\ Registered(p)
  /\ \A n \in DOMAIN znodes : NodeState(n)


-----------------------------------------------------------------------------
(***************************************************************************)
(* What a step leaves alone.                                               *)
(***************************************************************************)
SameMain(q) == config'[q] = config[q] /\ serviceMap'[q] = serviceMap[q]

Same(q) ==
  /\ SameMain(q) /\ pc'[q] = pc[q] /\ session'[q] = session[q]
  /\ todo'[q] = todo[q] /\ skipped'[q] = skipped[q]

LEMMA SameRoutes ==
  ASSUME NEW q \in Procs, SameMain(q)
  PROVE  Address(q)' = Address(q) /\ PathsOf(q)' = PathsOf(q) /\ Routes(q)' = Routes(q)
  <1>1. Address(q)' = Address(q)
    BY DEF SameMain, Address
  <1> QED
    BY <1>1 DEF SameMain, PathsOf, Routes

LEMMA ProcKeeps ==
  ASSUME RegInv, NEW q \in Procs, Same(q),
         \A n \in DOMAIN znodes : znodes[n] = q => n \in DOMAIN znodes' /\ znodes'[n] = q
  PROVE  (Own(q) /\ Stage(q) /\ Registered(q))'
  <1>1. Own(q) /\ Stage(q) /\ Registered(q)
    BY DEF RegInv
  <1>2. PathsOf(q)' = PathsOf(q) /\ Routes(q)' = Routes(q)
    BY SameRoutes DEF Same
  <1>3. Own(q)'
    BY <1>1, <1>2 DEF Own, Same, SameMain
  <1>4. Stage(q)'
    BY <1>1 DEF Stage, Same
  <1>5. Registered(q)'
    <2>1. todo'[q] = todo[q] /\ \A n : Skipped(q, n)' <=> Skipped(q, n)
      BY DEF Same, Skipped
    <2> QED
      BY <1>1, <1>2, <2>1 DEF Registered, Same
  <1> QED
    BY <1>3, <1>4, <1>5

LEMMA NodeKeeps ==
  ASSUME RegInv, NEW n \in DOMAIN znodes, n \in DOMAIN znodes', znodes'[n] = znodes[n],
         Len(n) > 1 => Front(n) \in DOMAIN znodes',
         \A q \in Procs : Len(n) = 3 /\ znodes[n] = q => session'[q] = "open" /\ SameMain(q)
  PROVE  NodeState(n)'
  <1>1. NodeState(n)
    BY DEF RegInv
  <1>2. ASSUME Len(n) = 3 PROVE n \in Routes(znodes[n])'
    <2>1. PICK q \in Procs : znodes[n] = q
      BY <1>1, <1>2 DEF NodeState
    <2>2. Routes(q)' = Routes(q)
      BY <1>2, <2>1, SameRoutes
    <2>3. n \in Routes(q)'
      BY <1>1, <1>2, <2>1, <2>2 DEF NodeState
    <2>4. znodes'[n] = q
      BY <2>1
    <2> QED
      BY <2>3, <2>4 DEF Routes, Address
  <1> QED
    BY <1>1, <1>2 DEF NodeState

(***************************************************************************)
(* A step of one process that does not touch the registry.                 *)
(***************************************************************************)
LEMMA LocalStep ==
  ASSUME RegInv, NEW p \in Procs, ProcState', znodes' = znodes,
         \A q \in Procs \ {p} : Same(q),
         session[p] = "open" => session'[p] = "open" /\ SameMain(p),
         (Own(p) /\ Stage(p) /\ Registered(p))'
  PROVE  RegInv'
  <1>1. ASSUME NEW q \in Procs PROVE (Own(q) /\ Stage(q) /\ Registered(q))'
    <2>1. CASE q = p
      BY <2>1
    <2>2. CASE q # p
      BY <2>2, ProcKeeps
    <2> QED
      BY <2>1, <2>2
  <1>2. ASSUME NEW n \in DOMAIN znodes' PROVE NodeState(n)'
    <2>1. NodeState(n)
      BY DEF RegInv
    <2>2. ASSUME NEW q \in Procs, Len(n) = 3, znodes[n] = q
          PROVE  session'[q] = "open" /\ SameMain(q)
      <3>1. session[q] = "open"
        BY <2>1, <2>2 DEF NodeState
      <3>2. CASE q = p
        BY <3>1, <3>2
      <3>3. CASE q # p
        BY <3>1, <3>3 DEF Same
      <3> QED
        BY <3>2, <3>3
    <2>3. Len(n) > 1 => Front(n) \in DOMAIN znodes'
      BY <2>1 DEF NodeState
    <2> QED
      BY <2>2, <2>3, NodeKeeps
  <1> QED
    BY <1>1, <1>2 DEF RegInv


-----------------------------------------------------------------------------
(***************************************************************************)
(* The end of a process, by whatever way: nothing is left of what it knew. *)
(***************************************************************************)
LEMMA ExitSelf ==
  ASSUME RegInv, NEW p \in Procs, Exit(p), UNCHANGED <<mainVars, session>>
  PROVE  /\ ProcState'
         /\ \A q \in Procs : SameMain(q) /\ session'[q] = session[q]
         /\ \A q \in Procs \ {p} : Same(q)
         /\ (Own(p) /\ Stage(p) /\ Registered(p))'
  <1>1. ProcState /\ Own(p)
    BY DEF RegInv
  <1>2. ProcState'
    BY <1>1 DEF ProcState, Stages, Exit, mainVars
  <1>3. \A q \in Procs : SameMain(q) /\ session'[q] = session[q]
    BY DEF SameMain, mainVars
  <1>4. \A q \in Procs \ {p} : Same(q)
    BY <1>1, <1>3 DEF ProcState, Exit, Same
  <1>5. pc'[p] = "exited" /\ todo'[p] = << >> /\ skipped'[p] = {}
    BY <1>1 DEF ProcState, Exit
  <1>6. PathsOf(p)' = PathsOf(p)
    BY <1>3, SameRoutes
  <1>7. Own(p)'
    BY <1>1, <1>3, <1>5, <1>6 DEF Own, SameMain
  <1>8. Stage(p)' /\ Registered(p)'
    BY <1>5 DEF Stage, Registered
  <1> QED
    BY <1>2, <1>3, <1>4, <1>7, <1>8

LEMMA ExitKeeps ==
  ASSUME RegInv, NEW p \in Procs, Exit(p), UNCHANGED <<mainVars, zkVars>>
  PROVE  RegInv'
  <1>1. UNCHANGED <<mainVars, session>> /\ znodes' = znodes
    BY DEF zkVars
  <1>2. /\ ProcState'
        /\ SameMain(p) /\ session'[p] = session[p]
        /\ \A q \in Procs \ {p} : Same(q)
        /\ (Own(p) /\ Stage(p) /\ Registered(p))'
    BY <1>1, ExitSelf
  <1>3. session[p] = "open" => session'[p] = "open" /\ SameMain(p)
    BY <1>2
  <1> QED
    BY <1>1, <1>2, <1>3, LocalStep

(***************************************************************************)
(* A step that changes where the process is, outside the loop of Create,   *)
(* and keeps what it knows.                                                *)
(***************************************************************************)
LEMMA MoveKeeps ==
  ASSUME RegInv, NEW p \in Procs, NEW to \in Stages, pc' = [pc EXCEPT ![p] = to],
         UNCHANGED <<mainVars, todo, skipped, zkVars>>,
         ProcState',
         pc[p] \in {"exists", "create"} <=> to \in {"exists", "create"},
         pc[p] \in {"exists", "create", "listen", "serving"}
            <=> to \in {"exists", "create", "listen", "serving"},
         to \in {"off", "bind", "start"} => session[p] = "none",
         to # "off"
  PROVE  RegInv'
  <1>1. ProcState /\ Own(p) /\ Stage(p) /\ Registered(p)
    BY DEF RegInv
  <1>2. \A q \in Procs \ {p} : Same(q)
    BY <1>1 DEF ProcState, Same, SameMain, mainVars, zkVars
  <1>3. SameMain(p) /\ session'[p] = session[p]
    BY DEF SameMain, mainVars, zkVars
  <1>4. pc'[p] = to /\ todo'[p] = todo[p] /\ skipped'[p] = skipped[p] /\ znodes' = znodes
    BY <1>1 DEF ProcState, zkVars
  <1>5. PathsOf(p)' = PathsOf(p) /\ Routes(p)' = Routes(p)
    BY <1>3, SameRoutes
  <1>6. Own(p)'
    BY <1>1, <1>3, <1>4, <1>5 DEF Own, SameMain
  <1>7. Stage(p)'
    BY <1>1, <1>3, <1>4 DEF Stage
  <1>8. Registered(p)'
    <2>1. \A n : Skipped(p, n)' <=> Skipped(p, n)
      BY <1>4 DEF Skipped
    <2> QED
      BY <1>1, <1>3, <1>4, <1>5, <2>1 DEF Registered
  <1>9. session[p] = "open" => session'[p] = "open" /\ SameMain(p)
    BY <1>3
  <1> QED
    BY <1>2, <1>4, <1>6, <1>7, <1>8, <1>9, LocalStep

-----------------------------------------------------------------------------
(***************************************************************************)
(* One lemma per action.  main puts the services into service_map when     *)
(* there is neither a session nor anything created.                        *)
(***************************************************************************)
LEMMA LaunchKeeps ==
  ASSUME RegInv, NEW p \in Procs, Launch(p)
  PROVE  RegInv'
  <1>1. ProcState /\ Own(p) /\ Stage(p)
    BY DEF RegInv
  <1>2. pc[p] = "off" /\ UNCHANGED <<runVars, zkVars>>
    BY DEF Launch
  <1>3. session[p] = "none" /\ todo[p] = << >> /\ skipped[p] = {}
    BY <1>1, <1>2 DEF Stage
  <1>4. PICK a \in ArgvOf[p] :
          IF InitExits(a)
          THEN pc' = [pc EXCEPT ![p] = "exited"] /\ UNCHANGED <<config, serviceMap>>
          ELSE /\ pc' = [pc EXCEPT ![p] = "bind"]
               /\ config' = [config EXCEPT ![p] = ApplicationInit(a)]
               /\ serviceMap' = [serviceMap EXCEPT ![p] = ServiceMap]
    BY DEF Launch
  <1>5. ProcState'
    BY <1>1, <1>2, <1>4 DEF ProcState, Stages, runVars, zkVars
  <1>6. \A q \in Procs \ {p} : Same(q)
    BY <1>1, <1>2, <1>4 DEF ProcState, Same, SameMain, runVars, zkVars
  <1>7. /\ pc'[p] \in {"exited", "bind"} /\ session'[p] = "none"
        /\ todo'[p] = << >> /\ skipped'[p] = {} /\ znodes' = znodes
    BY <1>1, <1>2, <1>3, <1>4 DEF ProcState, runVars, zkVars
  <1>8. Finite(serviceMap'[p])
    BY <1>1, <1>4, ServiceMapFinite DEF ProcState, Own
  <1>9. Own(p)'
    BY <1>7, <1>8 DEF Own
  <1>10. Stage(p)' /\ Registered(p)' /\ znodes' = znodes
    BY <1>7 DEF Stage, Registered
  <1>11. session[p] = "open" => session'[p] = "open" /\ SameMain(p)
    BY <1>3
  <1> QED
    BY <1>5, <1>6, <1>9, <1>10, <1>11, LocalStep

LEMMA BindKeeps ==
  ASSUME RegInv, NEW p \in Procs, Bind(p)
  PROVE  RegInv'
  <1>1. ProcState /\ Stage(p)
    BY DEF RegInv
  <1>2. pc[p] = "bind" /\ UNCHANGED <<mainVars, zkVars>>
    BY DEF Bind
  <1>3. CASE Exit(p)
    BY <1>2, <1>3, ExitKeeps
  <1>4. CASE pc' = [pc EXCEPT ![p] = "start"] /\ UNCHANGED runVars
    <2>1. ProcState'
      BY <1>1, <1>2, <1>4 DEF ProcState, Stages, runVars, mainVars, zkVars
    <2>2. "start" \in Stages /\ session[p] = "none" /\ UNCHANGED <<todo, skipped>>
      BY <1>1, <1>2, <1>4 DEF Stages, Stage, runVars
    <2> QED
      BY <1>2, <1>4, <2>1, <2>2, MoveKeeps
  <1> QED
    BY <1>3, <1>4 DEF Bind

LEMMA ListenKeeps ==
  ASSUME RegInv, NEW p \in Procs, Listen(p)
  PROVE  RegInv'
  <1>1. ProcState
    BY DEF RegInv
  <1>2. pc[p] = "listen" /\ UNCHANGED <<mainVars, zkVars>>
    BY DEF Listen
  <1>3. CASE Exit(p)
    BY <1>2, <1>3, ExitKeeps
  <1>4. CASE pc' = [pc EXCEPT ![p] = "serving"] /\ UNCHANGED runVars
    <2>1. ProcState'
      BY <1>1, <1>2, <1>4 DEF ProcState, Stages, runVars, mainVars, zkVars
    <2>2. "serving" \in Stages /\ UNCHANGED <<todo, skipped>>
      BY <1>4 DEF Stages, runVars
    <2> QED
      BY <1>2, <1>4, <2>1, <2>2, MoveKeeps
  <1> QED
    BY <1>3, <1>4 DEF Listen


(***************************************************************************)
(* Start opens the session; nothing is registered before it.               *)
(***************************************************************************)
LEMMA StartKeeps ==
  ASSUME RegInv, NEW p \in Procs, Start(p)
  PROVE  RegInv'
  <1>1. ProcState /\ Own(p) /\ Stage(p)
    BY DEF RegInv
  <1>2. /\ pc[p] = "start" /\ pc' = [pc EXCEPT ![p] = "check"]
        /\ session' = [session EXCEPT ![p] = "open"]
        /\ UNCHANGED <<config, serviceMap, todo, skipped, isConnected, linked, told, znodes>>
    BY DEF Start, mainVars, runVars
  <1>3. ProcState'
    BY <1>1, <1>2 DEF ProcState, Stages
  <1>4. \A q \in Procs \ {p} : Same(q)
    BY <1>1, <1>2 DEF ProcState, Same, SameMain
  <1>5. pc'[p] = "check" /\ todo'[p] = todo[p] /\ todo[p] = << >>
    BY <1>1, <1>2 DEF ProcState, Stage
  <1>6. SameMain(p) /\ PathsOf(p)' = PathsOf(p)
    BY <1>2, SameRoutes DEF SameMain
  <1>7. Own(p)'
    BY <1>1, <1>2, <1>6 DEF Own, SameMain
  <1>8. Stage(p)' /\ Registered(p)'
    BY <1>5 DEF Stage, Registered
  <1>9. session[p] = "open" => session'[p] = "open" /\ SameMain(p)
    BY <1>1, <1>2 DEF Stage
  <1> QED
    BY <1>2, <1>3, <1>4, <1>7, <1>8, <1>9, LocalStep

(***************************************************************************)
(* Run begins its loops: every route is among the paths to create.         *)
(***************************************************************************)
LEMMA WaitKeeps ==
  ASSUME RegInv, NEW p \in Procs, Wait(p)
  PROVE  RegInv'
  <1>1. ProcState /\ Own(p) /\ Stage(p)
    BY DEF RegInv
  <1>2. /\ pc[p] = "check"
        /\ UNCHANGED <<config, serviceMap, skipped, isConnected, linked, told, session, znodes>>
        /\ UNCHANGED <<mainVars, zkVars>>
    BY DEF Wait, mainVars, zkVars
  <1>3. CASE pc' = [pc EXCEPT ![p] = "sleep"] /\ UNCHANGED todo
    <2>1. ProcState' /\ "sleep" \in Stages
      BY <1>1, <1>2, <1>3 DEF ProcState, Stages
    <2> QED
      BY <1>2, <1>3, <2>1, MoveKeeps
  <1>4. CASE \E plan \in Plans(serviceMap[p], Address(p)) :
               /\ todo' = [todo EXCEPT ![p] = plan]
               /\ pc' = [pc EXCEPT ![p] = IF plan = << >> THEN "listen" ELSE "exists"]
    <2>1. PICK plan \in Plans(serviceMap[p], Address(p)) :
               /\ todo' = [todo EXCEPT ![p] = plan]
               /\ pc' = [pc EXCEPT ![p] = IF plan = << >> THEN "listen" ELSE "exists"]
      BY <1>4
    <2>2. plan \in Seq(PathsOf(p)) /\ Routes(p) \subseteq Elements(plan)
      BY <1>1, PlanElements DEF Own, PathsOf, Routes, RoutesFor
    <2>3. /\ todo'[p] = plan /\ pc'[p] = IF plan = << >> THEN "listen" ELSE "exists"
          /\ skipped'[p] = skipped[p] /\ session'[p] = session[p]
      BY <1>1, <1>2, <2>1 DEF ProcState
    <2>4. ProcState'
      BY <1>1, <1>2, <2>1 DEF ProcState, Stages
    <2>5. \A q \in Procs \ {p} : Same(q)
      BY <1>1, <1>2, <2>1 DEF ProcState, Same, SameMain
    <2>6. SameMain(p) /\ PathsOf(p)' = PathsOf(p) /\ Routes(p)' = Routes(p)
      BY <1>2, SameRoutes DEF SameMain
    <2>7. Own(p)'
      BY <1>1, <1>2, <2>2, <2>3, <2>6 DEF Own, SameMain
    <2>8. Stage(p)'
      BY <2>3 DEF Stage
    <2>9. Registered(p)'
      BY <2>2, <2>3, <2>6 DEF Registered
    <2>10. session[p] = "open" => session'[p] = "open" /\ SameMain(p)
      BY <2>3, <2>6
    <2> QED
      BY <1>2, <2>4, <2>5, <2>7, <2>8, <2>9, <2>10, LocalStep
  <1> QED
    BY <1>3, <1>4 DEF Wait

(***************************************************************************)
(* The test of Create: a route passed over is remembered as skipped.       *)
(***************************************************************************)
LEMMA ExistsKeeps ==
  ASSUME RegInv, NEW p \in Procs, Exists(p)
  PROVE  RegInv'
  <1>1. ProcState /\ Own(p) /\ Stage(p) /\ Registered(p)
    BY DEF RegInv
  <1>2. /\ pc[p] = "exists"
        /\ UNCHANGED <<config, serviceMap, isConnected, linked, told, session, znodes>>
        /\ UNCHANGED <<mainVars, zkVars>>
    BY DEF Exists, mainVars, zkVars
  <1>3. CASE pc' = [pc EXCEPT ![p] = "create"] /\ UNCHANGED <<todo, skipped>>
    <2>1. ProcState' /\ "create" \in Stages
      BY <1>1, <1>2, <1>3 DEF ProcState, Stages
    <2> QED
      BY <1>2, <1>3, <2>1, MoveKeeps
  <1>4. CASE /\ Done(p)
             /\ todo' = [todo EXCEPT ![p] = Tail(@)]
             /\ skipped' = [skipped EXCEPT ![p] = @ \cup {Head(todo[p])}]
    <2>1. todo[p] # << >> /\ todo[p] \in Seq(PathsOf(p))
      BY <1>1, <1>2 DEF Stage, Own
    <2>2. PICK path, rest : path = Head(todo[p]) /\ rest = Tail(todo[p])
      OBVIOUS
    <2>3. /\ path \in PathsOf(p) /\ rest \in Seq(PathsOf(p))
          /\ Elements(todo[p]) \subseteq {path} \cup Elements(rest)
          /\ (rest = << >>) <=> (Len(todo[p]) = 1)
      BY <2>1, <2>2, TailElements
    <2>4. /\ todo'[p] = rest /\ skipped'[p] = skipped[p] \cup {path}
          /\ pc'[p] = IF Len(todo[p]) = 1 THEN "listen" ELSE "exists"
          /\ session'[p] = session[p]
      BY <1>1, <1>2, <1>4, <2>2 DEF ProcState, Done
    <2>5. ProcState'
      BY <1>1, <1>2, <1>4 DEF ProcState, Stages, Done
    <2>6. \A q \in Procs \ {p} : Same(q)
      BY <1>1, <1>2, <1>4 DEF ProcState, Same, SameMain, Done
    <2>7. SameMain(p) /\ PathsOf(p)' = PathsOf(p) /\ Routes(p)' = Routes(p)
      BY <1>2, SameRoutes DEF SameMain
    <2>8. Own(p)'
      BY <1>1, <1>2, <2>3, <2>4, <2>7 DEF Own, SameMain
    <2>9. Stage(p)'
      BY <2>3, <2>4 DEF Stage
    <2>10. ASSUME NEW n \in Routes(p), session[p] = "open"
           PROVE  n \in Elements(rest) \/ (n \in DOMAIN znodes /\ znodes[n] = p) \/ Skipped(p, n)'
      <3>1. CASE n = path
        <4>1. Len(n) = 3
          BY RouteLength DEF Routes, RoutesFor
        <4> QED
          BY <2>4, <3>1, <4>1 DEF Skipped
      <3>2. CASE n \in Elements(rest)
        BY <3>2
      <3>3. CASE n \in DOMAIN znodes /\ znodes[n] = p
        BY <3>3
      <3>4. CASE Skipped(p, n)
        BY <2>4, <3>4 DEF Skipped
      <3> QED
        BY <1>1, <1>2, <2>3, <2>10, <3>1, <3>2, <3>3, <3>4 DEF Registered
    <2>11. Registered(p)'
      BY <1>2, <2>4, <2>7, <2>10 DEF Registered
    <2>12. session[p] = "open" => session'[p] = "open" /\ SameMain(p)
      BY <2>4, <2>7
    <2> QED
      BY <1>2, <2>5, <2>6, <2>8, <2>9, <2>11, <2>12, LocalStep
  <1> QED
    BY <1>3, <1>4 DEF Exists


(***************************************************************************)
(* zoo_create: the new node has its parent, is a route of its creator if   *)
(* it is ephemeral, and replaces no node.                                  *)
(***************************************************************************)
LEMMA NodeAdded ==
  ASSUME RegInv, NEW p \in Procs, pc[p] = "create", Creatable(p), AddNode(p), ProcState',
         \A q \in Procs : SameMain(q) /\ session'[q] = session[q],
         \A q \in Procs \ {p} : Same(q),
         (Own(p) /\ Stage(p) /\ Registered(p))'
  PROVE  RegInv'
  <1>1. Own(p) /\ Stage(p)
    BY DEF RegInv
  <1>2. PICK path : path = Head(todo[p])
    OBVIOUS
  <1>3. path \in PathsOf(p)
    BY <1>1, <1>2, TailElements DEF Own, Stage
  <1>4. /\ path \notin DOMAIN znodes /\ session[p] = "open"
        /\ Len(path) > 1 => Front(path) \in DOMAIN znodes
    BY <1>2 DEF Creatable, Connected
  <1>5. /\ DOMAIN znodes' = DOMAIN znodes \cup {path}
        /\ znodes'[path] = Owner(p, path)
        /\ \A n \in DOMAIN znodes : n \in DOMAIN znodes' /\ znodes'[n] = znodes[n]
    BY <1>2, <1>4 DEF AddNode
  <1>6. ASSUME NEW q \in Procs PROVE (Own(q) /\ Stage(q) /\ Registered(q))'
    <2>1. CASE q = p
      BY <2>1
    <2>2. CASE q # p
      BY <1>5, <2>2, ProcKeeps
    <2> QED
      BY <2>1, <2>2
  <1>7. ASSUME NEW n \in DOMAIN znodes PROVE NodeState(n)'
    <2>1. NodeState(n)
      BY DEF RegInv
    <2>2. \A q \in Procs : Len(n) = 3 /\ znodes[n] = q => session'[q] = "open" /\ SameMain(q)
      BY <2>1 DEF NodeState
    <2>3. Len(n) > 1 => Front(n) \in DOMAIN znodes'
      BY <1>5, <2>1 DEF NodeState
    <2>4. n \in DOMAIN znodes' /\ znodes'[n] = znodes[n]
      BY <1>5
    <2> QED
      BY <2>2, <2>3, <2>4, NodeKeeps
  <1>8. NodeState(path)'
    <2>1. /\ Len(path) \in 1 .. 3
          /\ Len(path) = 3 => path \in Routes(p)
          /\ Len(path) > 1 => Len(Front(path)) = Len(path) - 1
      BY <1>3, PathShape DEF PathsOf, Routes, RoutesFor
    <2>2. Len(path) # 3 => znodes'[path] = Persistent
      BY <1>5 DEF Owner
    <2>3. Len(path) > 1 => Front(path) \in DOMAIN znodes'
      BY <1>4, <1>5
    <2>4. ASSUME Len(path) = 3
          PROVE  znodes'[path] = p /\ session'[p] = "open" /\ path \in Routes(p)'
      <3>1. Routes(p)' = Routes(p)
        BY SameRoutes
      <3>2. session'[p] = session[p]
        OBVIOUS
      <3> QED
        BY <1>4, <1>5, <2>1, <2>4, <3>1, <3>2 DEF Owner
    <2>5. ASSUME Len(path) = 3 PROVE path \in Routes(znodes[path])'
      BY <2>4, <2>5 DEF Routes, Address
    <2> QED
      BY <2>1, <2>2, <2>3, <2>4, <2>5 DEF NodeState
  <1> QED
    BY <1>5, <1>6, <1>7, <1>8 DEF RegInv

LEMMA CreateKeeps ==
  ASSUME RegInv, NEW p \in Procs, Create(p)
  PROVE  RegInv'
  <1>1. ProcState /\ Own(p) /\ Stage(p) /\ Registered(p)
    BY DEF RegInv
  <1>2. /\ pc[p] = "create" /\ UNCHANGED <<config, serviceMap, session>>
        /\ UNCHANGED mainVars
    BY DEF Create, mainVars
  <1>3. CASE Exit(p) /\ UNCHANGED znodes
    <2>1. UNCHANGED <<mainVars, zkVars>>
      BY <1>2, <1>3 DEF zkVars
    <2> QED
      BY <1>3, <2>1, ExitKeeps
  <1>4. CASE /\ Creatable(p) /\ Done(p) /\ AddNode(p) /\ todo' = [todo EXCEPT ![p] = Tail(@)]
             /\ UNCHANGED <<isConnected, skipped, linked, told>>
    <2>1. todo[p] # << >> /\ todo[p] \in Seq(PathsOf(p))
      BY <1>1, <1>2 DEF Stage, Own
    <2>2. PICK path, rest : path = Head(todo[p]) /\ rest = Tail(todo[p])
      OBVIOUS
    <2>3. /\ path \in PathsOf(p) /\ rest \in Seq(PathsOf(p))
          /\ Elements(todo[p]) \subseteq {path} \cup Elements(rest)
          /\ (rest = << >>) <=> (Len(todo[p]) = 1)
      BY <2>1, <2>2, TailElements
    <2>4. /\ todo'[p] = rest /\ skipped'[p] = skipped[p]
          /\ pc'[p] = IF Len(todo[p]) = 1 THEN "listen" ELSE "exists"
          /\ session'[p] = session[p]
      BY <1>1, <1>2, <1>4, <2>2 DEF ProcState, Done
    <2>5. ProcState'
      BY <1>1, <1>2, <1>4 DEF ProcState, Stages, Done
    <2>6. \A q \in Procs \ {p} : Same(q)
      BY <1>1, <1>2, <1>4 DEF ProcState, Same, SameMain, Done
    <2>7. \A q \in Procs : SameMain(q) /\ session'[q] = session[q]
      BY <1>2 DEF SameMain
    <2>8. PathsOf(p)' = PathsOf(p) /\ Routes(p)' = Routes(p)
      BY <2>7, SameRoutes
    <2>9. Own(p)'
      BY <1>1, <1>2, <2>3, <2>4, <2>8 DEF Own
    <2>10. Stage(p)'
      BY <2>3, <2>4 DEF Stage
    <2>11. /\ path \notin DOMAIN znodes
           /\ path \in DOMAIN znodes' /\ znodes'[path] = Owner(p, path)
           /\ \A n \in DOMAIN znodes : n \in DOMAIN znodes' /\ znodes'[n] = znodes[n]
      BY <1>4, <2>2 DEF AddNode, Creatable
    <2>12. ASSUME NEW n \in Routes(p), session[p] = "open"
           PROVE  \/ n \in Elements(rest)
                  \/ n \in DOMAIN znodes' /\ znodes'[n] = p
                  \/ Skipped(p, n)'
      <3>1. CASE n = path
        <4>1. Len(n) = 3
          BY RouteLength DEF Routes, RoutesFor
        <4> QED
          BY <2>11, <3>1, <4>1 DEF Owner
      <3>2. CASE n \in Elements(rest)
        BY <3>2
      <3>3. CASE n \in DOMAIN znodes /\ znodes[n] = p
        BY <2>11, <3>3
      <3>4. CASE Skipped(p, n)
        BY <2>4, <3>4 DEF Skipped
      <3> QED
        BY <1>1, <1>2, <2>3, <2>12, <3>1, <3>2, <3>3, <3>4 DEF Registered
    <2>13. Registered(p)'
      BY <2>4, <2>8, <2>12 DEF Registered
    <2> QED
      BY <1>2, <1>4, <2>5, <2>6, <2>7, <2>9, <2>10, <2>13, NodeAdded
  <1> QED
    BY <1>2, <1>3, <1>4 DEF Create

LEMMA CreateUnheardKeeps ==
  ASSUME RegInv, NEW p \in Procs, CreateUnheard(p)
  PROVE  RegInv'
  <1>1. /\ pc[p] = "create" /\ Creatable(p) /\ AddNode(p) /\ Exit(p)
        /\ UNCHANGED <<mainVars, session>>
    BY DEF CreateUnheard
  <1>2. /\ ProcState'
        /\ \A q \in Procs : SameMain(q) /\ session'[q] = session[q]
        /\ \A q \in Procs \ {p} : Same(q)
        /\ (Own(p) /\ Stage(p) /\ Registered(p))'
    BY <1>1, ExitSelf
  <1> QED
    BY <1>1, <1>2, NodeAdded

-----------------------------------------------------------------------------
(***************************************************************************)
(* Connection events change neither the registry nor what Run has done.    *)
(***************************************************************************)
LEMMA EventKeeps ==
  ASSUME RegInv, NEW p \in Procs, ProcState',
         UNCHANGED <<mainVars, todo, skipped, zkVars>>,
         \A q \in Procs \ {p} : pc'[q] = pc[q],
         pc'[p] = pc[p] \/ (pc[p] = "sleep" /\ pc'[p] = "check")
  PROVE  RegInv'
  <1>1. ProcState /\ Own(p) /\ Stage(p) /\ Registered(p)
    BY DEF RegInv
  <1>2. /\ \A q \in Procs : SameMain(q)
        /\ \A q \in Procs : pc'[q] = pc[q] => Same(q)
    BY DEF Same, SameMain, mainVars, zkVars
  <1>3. (Own(p) /\ Stage(p) /\ Registered(p))'
    <2>1. CASE pc'[p] = pc[p]
      <3>1. Same(p) /\ znodes' = znodes
        BY <1>2, <2>1 DEF zkVars
      <3> QED
        BY <3>1, ProcKeeps
    <2>2. CASE pc[p] = "sleep" /\ pc'[p] = "check"
      <3>1. PathsOf(p)' = PathsOf(p)
        BY <1>2, SameRoutes
      <3>2. Own(p)'
        BY <1>1, <1>2, <3>1 DEF Own, SameMain
      <3>3. Stage(p)' /\ Registered(p)'
        BY <1>1, <2>2 DEF Stage, Registered
      <3> QED
        BY <3>2, <3>3
    <2> QED
      BY <2>1, <2>2
  <1>4. session[p] = "open" => session'[p] = "open" /\ SameMain(p)
    BY <1>2 DEF zkVars
  <1>5. znodes' = znodes
    BY DEF zkVars
  <1> QED
    BY <1>2, <1>3, <1>4, <1>5, LocalStep

LEMMA LinkKeeps ==
  ASSUME RegInv, NEW p \in Procs, Link(p) \/ LoseLink(p) \/ SessionEvent(p) \/ Killed(p)
  PROVE  RegInv'
  <1>1. ProcState
    BY DEF RegInv
  <1>2. CASE Link(p)
    <2>1. /\ UNCHANGED <<mainVars, todo, skipped, zkVars>>
          /\ UNCHANGED <<pc, config, serviceMap, session, isConnected>>
          /\ linked' = [linked EXCEPT ![p] = TRUE]
      BY <1>2 DEF Link, mainVars, zkVars
    <2>2. PICK e \in {"connected", "expired"} : told' = [told EXCEPT ![p] = @ \cup {e}]
      BY <1>2 DEF Link
    <2>3. ProcState'
      BY <1>1, <2>1, <2>2 DEF ProcState
    <2> QED
      BY <2>1, <2>3, EventKeeps
  <1>3. CASE LoseLink(p)
    <2>1. /\ UNCHANGED <<mainVars, todo, skipped, zkVars>>
          /\ UNCHANGED <<pc, config, serviceMap, session, isConnected, told>>
          /\ linked' = [linked EXCEPT ![p] = FALSE]
      BY <1>3 DEF LoseLink, mainVars, zkVars
    <2>2. ProcState'
      BY <1>1, <2>1 DEF ProcState
    <2> QED
      BY <2>1, <2>2, EventKeeps
  <1>4. CASE SessionEvent(p)
    <2>1. UNCHANGED <<mainVars, zkVars>> /\ UNCHANGED <<config, serviceMap, session>>
      BY <1>4 DEF SessionEvent, mainVars, zkVars
    <2>2. CASE Exit(p)
      BY <2>1, <2>2, ExitKeeps
    <2>3. CASE /\ told' = [told EXCEPT ![p] = @ \ {"connected"}]
               /\ isConnected' = [isConnected EXCEPT ![p] = TRUE]
               /\ pc' = [pc EXCEPT ![p] = IF @ = "sleep" THEN "check" ELSE @]
               /\ UNCHANGED <<todo, skipped, linked>>
      <3>1. ProcState'
        BY <1>1, <2>1, <2>3 DEF ProcState, Stages
      <3>2. /\ \A q \in Procs \ {p} : pc'[q] = pc[q]
            /\ pc'[p] = pc[p] \/ (pc[p] = "sleep" /\ pc'[p] = "check")
        BY <1>1, <2>3 DEF ProcState
      <3>3. UNCHANGED <<mainVars, todo, skipped, zkVars>>
        BY <2>1, <2>3
      <3> QED
        BY <3>1, <3>2, <3>3, EventKeeps
    <2> QED
      BY <1>4, <2>2, <2>3 DEF SessionEvent
  <1>5. CASE Killed(p)
    BY <1>5, ExitKeeps DEF Killed
  <1> QED
    BY <1>2, <1>3, <1>4, <1>5

(***************************************************************************)
(* An expired session takes its own routes and nothing else: parents are   *)
(* nobody's.                                                               *)
(***************************************************************************)
LEMMA ExpireKeeps ==
  ASSUME RegInv, NEW p \in Procs, Expire(p)
  PROVE  RegInv'
  <1>1. ProcState /\ Own(p) /\ Stage(p)
    BY DEF RegInv
  <1>2. /\ session[p] = "open" /\ session' = [session EXCEPT ![p] = "expired"]
        /\ UNCHANGED <<pc, config, serviceMap, todo, skipped, isConnected, linked, told>>
    BY DEF Expire, mainVars, runVars
  <1>3. /\ DOMAIN znodes' = {n \in DOMAIN znodes : znodes[n] # p}
        /\ \A n \in DOMAIN znodes' : znodes'[n] = znodes[n]
    BY DEF Expire
  <1>4. ProcState'
    BY <1>1, <1>2 DEF ProcState
  <1>5. session'[p] = "expired" /\ \A q \in Procs \ {p} : Same(q)
    BY <1>1, <1>2 DEF ProcState, Same, SameMain
  <1>6. \A q \in Procs : SameMain(q)
    BY <1>2 DEF SameMain
  <1>7. ASSUME NEW q \in Procs PROVE (Own(q) /\ Stage(q) /\ Registered(q))'
    <2>1. CASE q = p
      <3>1. PathsOf(p)' = PathsOf(p)
        BY <1>6, SameRoutes
      <3>2. Own(p)'
        BY <1>1, <1>2, <3>1 DEF Own
      <3>3. Stage(p)'
        BY <1>1, <1>2 DEF Stage
      <3>4. Registered(p)'
        BY <1>5 DEF Registered
      <3> QED
        BY <2>1, <3>2, <3>3, <3>4
    <2>2. CASE q # p
      <3>1. \A n \in DOMAIN znodes : znodes[n] = q => n \in DOMAIN znodes' /\ znodes'[n] = q
        BY <1>3, <2>2
      <3> QED
        BY <1>5, <2>2, <3>1, ProcKeeps
    <2> QED
      BY <2>1, <2>2
  <1>8. ASSUME NEW n \in DOMAIN znodes' PROVE NodeState(n)'
    <2>1. n \in DOMAIN znodes /\ znodes[n] # p /\ znodes'[n] = znodes[n]
      BY <1>3
    <2>2. NodeState(n)
      BY <2>1 DEF RegInv
    <2>3. ASSUME Len(n) > 1 PROVE Front(n) \in DOMAIN znodes'
      <3>1. Front(n) \in DOMAIN znodes /\ Len(Front(n)) # 3
        <4>1. /\ Len(n) \in 1 .. 3 /\ Front(n) \in DOMAIN znodes
              /\ Len(Front(n)) = Len(n) - 1
          BY <2>2, <2>3 DEF NodeState
        <4>2. \A k \in 1 .. 3 : k - 1 # 3
          OBVIOUS
        <4> QED
          BY <4>1, <4>2
      <3>2. znodes[Front(n)] = Persistent
        BY <3>1 DEF RegInv, NodeState
      <3> QED
        BY <1>3, <3>1, <3>2, PersistentAssumption
    <2>4. \A q \in Procs : Len(n) = 3 /\ znodes[n] = q => session'[q] = "open" /\ SameMain(q)
      BY <1>5, <1>6, <2>1, <2>2 DEF NodeState, Same
    <2> QED
      BY <2>1, <2>3, <2>4, NodeKeeps
  <1> QED
    BY <1>4, <1>7, <1>8 DEF RegInv


-----------------------------------------------------------------------------
LEMMA RegStarts == Init => RegInv
  <1> SUFFICES ASSUME Init PROVE RegInv
    OBVIOUS
  <1>1. ProcState
    BY DEF Init, ProcState, Stages
  <1>2. DOMAIN znodes = {}
    BY DEF Init
  <1>3. ASSUME NEW p \in Procs PROVE Own(p) /\ Stage(p) /\ Registered(p)
    <2>1. /\ pc[p] = "off" /\ todo[p] = << >> /\ skipped[p] = {} /\ session[p] = "none"
          /\ serviceMap[p] = << >>
      BY DEF Init
    <2>2. Finite(serviceMap[p])
      <3>1. DOMAIN << >> = {}
        OBVIOUS
      <3> QED
        BY <2>1, <3>1, FS_EmptySet DEF Finite
    <2>3. << >> \in Seq(PathsOf(p))
      OBVIOUS
    <2> QED
      BY <2>1, <2>2, <2>3 DEF Own, Stage, Registered
  <1> QED
    BY <1>1, <1>2, <1>3 DEF RegInv

(***************************************************************************)
(* A process may be killed, lose its connection or its session at any      *)
(* point of Run, and any number of others at any point of theirs: the      *)
(* inductive invariant holds throughout.                                   *)
(***************************************************************************)
THEOREM RegInductive == Spec => []RegInv
  <1>1. RegInv /\ [Next]_vars => RegInv'
    <2> SUFFICES ASSUME RegInv, [Next]_vars PROVE RegInv'
      OBVIOUS
    <2>1. ASSUME NEW p \in Procs, Run(p) PROVE RegInv'
      BY <2>1, BindKeeps, StartKeeps, WaitKeeps, ExistsKeeps, CreateKeeps, ListenKeeps DEF Run
    <2>2. ASSUME NEW p \in Procs, Link(p) \/ LoseLink(p) \/ SessionEvent(p) \/ Killed(p)
          PROVE  RegInv'
      BY <2>2, LinkKeeps
    <2>3. CASE Next
      BY <2>1, <2>2, <2>3, LaunchKeeps, CreateUnheardKeeps, ExpireKeeps DEF Next
    <2>4. CASE UNCHANGED vars
      <3>1. UNCHANGED <<pc, config, serviceMap, todo, skipped, isConnected, linked, told, session>>
        BY <2>4 DEF vars, mainVars, runVars, zkVars
      <3>2. znodes' = znodes
        BY <2>4 DEF vars, zkVars
      <3>3. \A q \in Procs : Same(q)
        BY <3>1 DEF Same, SameMain
      <3>4. ProcState'
        BY <3>1 DEF RegInv, ProcState
      <3>5. \A q \in Procs : (Own(q) /\ Stage(q) /\ Registered(q))'
        BY <3>2, <3>3, ProcKeeps
      <3>6. ASSUME NEW n \in DOMAIN znodes' PROVE NodeState(n)'
        <4>1. NodeState(n)
          BY <3>2 DEF RegInv
        <4>2. /\ Len(n) > 1 => Front(n) \in DOMAIN znodes'
              /\ \A q \in Procs : Len(n) = 3 /\ znodes[n] = q => session'[q] = "open" /\ SameMain(q)
          BY <3>1, <3>2, <3>3, <4>1 DEF NodeState, Same
        <4> QED
          BY <3>2, <4>2, NodeKeeps
      <3> QED
        BY <3>4, <3>5, <3>6 DEF RegInv
    <2> QED
      BY <2>3, <2>4
  <1> QED
    BY RegStarts, <1>1, PTL DEF Spec

-----------------------------------------------------------------------------
(***************************************************************************)
(* Type correctness: Run leaves the loop over the nodes to create when and *)
(* only when none is left.                                                 *)
(***************************************************************************)
THEOREM RegTypeCorrect == Spec => []RegTypeOK
  <1>1. RegInv => RegTypeOK
    <2> SUFFICES ASSUME RegInv PROVE RegTypeOK
      OBVIOUS
    <2>1. ASSUME NEW p \in Procs, NEW n \in skipped[p] PROVE Len(n) \in 1 .. 3
      BY PathShape DEF RegInv, Own, PathsOf
    <2>2. ASSUME NEW n \in DOMAIN znodes
          PROVE  Len(n) \in 1 .. 3 /\ znodes[n] \in Procs \cup {Persistent}
      BY DEF RegInv, NodeState
    <2>3. ASSUME NEW p \in Procs
          PROVE  /\ pc[p] \in Stages
                 /\ pc[p] \in {"exists", "create"} => todo[p] # << >>
                 /\ pc[p] \in {"listen", "serving"} => todo[p] = << >>
                 /\ isConnected[p] \in BOOLEAN /\ linked[p] \in BOOLEAN
                 /\ session[p] \in {"none", "open", "expired"}
                 /\ told[p] \subseteq {"connected", "expired"}
      BY DEF RegInv, ProcState, Stage
    <2> QED
      BY <2>1, <2>2, <2>3 DEF RegTypeOK, Stages, Dead
  <1> QED
    BY RegInductive, <1>1, PTL

(***************************************************************************)
(* Whatever order processes create, skip, die and expire in, the parents   *)
(* of every node are there and are nobody's.                               *)
(***************************************************************************)
THEOREM ParentsFirstCorrect == Spec => []ParentsFirst
  <1>1. RegInv => ParentsFirst
    <2> SUFFICES ASSUME RegInv, NEW n \in DOMAIN znodes, Len(n) > 1
                 PROVE  Front(n) \in DOMAIN znodes /\ znodes[Front(n)] = Persistent
      BY DEF ParentsFirst
    <2>1. Len(n) \in 1 .. 3 /\ Front(n) \in DOMAIN znodes /\ Len(Front(n)) = Len(n) - 1
      BY DEF RegInv, NodeState
    <2>2. \A k \in 1 .. 3 : k - 1 # 3
      OBVIOUS
    <2>3. Len(Front(n)) # 3
      BY <2>1, <2>2
    <2> QED
      BY <2>1, <2>3 DEF RegInv, NodeState
  <1> QED
    BY RegInductive, <1>1, PTL

(***************************************************************************)
(* A route that is in the registry belongs to a live session and leads to  *)
(* the address its process was configured with.                            *)
(***************************************************************************)
THEOREM RouteOwnedCorrect == Spec => []RouteOwned
  <1>1. RegInv => RouteOwned
    BY DEF RegInv, NodeState, RouteOwned
  <1> QED
    BY RegInductive, <1>1, PTL

(***************************************************************************)
(* A process that serves with a live session is in the registry under      *)
(* every method it provides, except where Create found a node of somebody  *)
(* else or got no answer.                                                  *)
(***************************************************************************)
THEOREM ServingIsRegisteredCorrect == Spec => []ServingIsRegistered
  <1>1. RegInv => ServingIsRegistered
    <2> SUFFICES ASSUME RegInv, NEW p \in Procs, pc[p] = "serving", session[p] = "open",
                        NEW n \in Routes(p)
                 PROVE  \/ n \in DOMAIN znodes
                        \/ \E k \in skipped[p] : Len(k) = 3 /\ Front(k) = Front(n)
      BY DEF ServingIsRegistered
    <2>1. Stage(p) /\ Registered(p)
      BY DEF RegInv
    <2>2. todo[p] = << >>
      BY <2>1 DEF Stage
    <2>3. n \notin Elements(todo[p])
      <3>1. 1 .. Len(<< >>) = {}
        OBVIOUS
      <3> QED
        BY <2>2, <3>1 DEF Elements
    <2> QED
      BY <2>1, <2>3 DEF Registered, Skipped
  <1> QED
    BY RegInductive, <1>1, PTL

-----------------------------------------------------------------------------
(***************************************************************************)
(* Trim leaves a text of spaces alone and otherwise cuts off the spaces at *)
(* both ends.                                                              *)
(***************************************************************************)
AllSpaces(t) == \A i \in 1 .. Len(t) : t[i] = Space

Core(t, a, b) ==
  /\ a \in 1 .. Len(t) /\ b \in a .. Len(t) /\ t[a] # Space /\ t[b] # Space
  /\ \A k \in 1 .. Len(t) : k < a \/ k > b => t[k] = Space

LEMMA TrimCuts ==
  ASSUME NEW S, NEW t \in Seq(S)
  PROVE  \/ AllSpaces(t) /\ Trim(t) = t
         \/ \E a, b \in Nat : Core(t, a, b) /\ Trim(t) = SubSeq(t, a, b)
  <1>0. PICK n \in Nat : n = Len(t)
    OBVIOUS
  <1>1. PICK W : W = {i \in 1 .. Len(t) : t[i] # Space}
    OBVIOUS
  <1>a. \A i : i \in W <=> i \in 1 .. n /\ t[i] # Space
    BY <1>0, <1>1
  <1>b. \A i \in W : i \in Nat /\ i \in 0 .. n
    BY <1>a
  <1>2. CASE W = {}
    <2>1. AllSpaces(t)
      BY <1>1, <1>2 DEF AllSpaces
    <2>2. Trim(t) = t
      BY <1>1, <1>2 DEF Trim
    <2> QED
      BY <2>1, <2>2
  <1>3. CASE W # {}
    <2>1. PICK a : a = CHOOSE i \in W : \A j \in W : i <= j
      OBVIOUS
    <2>2. PICK b : b = CHOOSE i \in W : \A j \in W : i >= j
      OBVIOUS
    <2>3. a \in W /\ \A j \in W : a <= j
      <3>1. W \subseteq Nat
        BY <1>b
      <3>2. \E i \in W : \A j \in W : i <= j
        BY <1>3, <3>1, LeastNat
      <3> QED
        BY <2>1, <3>2
    <2>4. b \in W /\ \A j \in W : b >= j
      <3>2. W \subseteq 0 .. n
        BY <1>b
      <3>3. \E i \in W : \A j \in W : i >= j
        BY <1>3, <3>2, GreatestNat
      <3> QED
        BY <2>2, <3>3
    <2>5. Trim(t) = SubSeq(t, a, b)
      BY <1>1, <1>3, <2>1, <2>2 DEF Trim
    <2>6. a \in 1 .. n /\ b \in 1 .. n /\ a <= b /\ t[a] # Space /\ t[b] # Space
      BY <1>a, <2>3, <2>4
    <2>7. ASSUME NEW k \in 1 .. n, k < a \/ k > b PROVE t[k] = Space
      <3>1. ASSUME k \in W PROVE FALSE
        <4>1. a <= k /\ b >= k
          BY <2>3, <2>4, <3>1
        <4> QED
          BY <2>6, <2>7, <4>1
      <3> QED
        BY <1>a, <3>1
    <2>8. a \in Nat /\ b \in Nat /\ b \in a .. n
      BY <2>6
    <2>9. Core(t, a, b)
      BY <1>0, <2>6, <2>7, <2>8 DEF Core
    <2> QED
      BY <2>5, <2>8, <2>9
  <1> QED
    BY <1>2, <1>3


LEMMA Tokens ==
  /\ Space # Equals /\ Space # Hash /\ Space # Newline
  /\ Equals # Hash /\ Equals # Newline
  BY Zenon DEF Space, Equals, Hash, Newline

LEMMA TrimStrips ==
  ASSUME NEW S, NEW t \in Seq(S)
  PROVE  Trim(t) \in Seq(S) /\ Stripped(Trim(t), t)
  <1>1. CASE AllSpaces(t) /\ Trim(t) = t
    <2>1. PICK n \in Nat : n = Len(t)
      OBVIOUS
    <2>2. SubSeq(t, 1, n) = t
      BY <2>1
    <2>3. 1 \in 1 .. n + 1 /\ n \in 1 - 1 .. n
      OBVIOUS
    <2>4. /\ \A k \in 1 .. n : k < 1 \/ k > n => t[k] = Space
          /\ ~(\E k \in 1 .. n : t[k] # Space)
      BY <1>1, <2>1 DEF AllSpaces
    <2> QED
      BY <1>1, <2>1, <2>2, <2>3, <2>4 DEF Stripped
  <1>2. CASE \E a, b \in Nat : Core(t, a, b) /\ Trim(t) = SubSeq(t, a, b)
    <2>1. PICK a, b \in Nat : Core(t, a, b) /\ Trim(t) = SubSeq(t, a, b)
      BY <1>2
    <2>2. PICK n \in Nat : n = Len(t)
      OBVIOUS
    <2>3. /\ a \in 1 .. n /\ b \in a .. n /\ t[a] # Space /\ t[b] # Space
          /\ \A k \in 1 .. n : k < a \/ k > b => t[k] = Space
      BY <2>1, <2>2 DEF Core
    <2>4. a \in 1 .. n + 1 /\ b \in a - 1 .. n
      BY <2>3
    <2>5. Stripped(Trim(t), t)
      BY <2>1, <2>2, <2>3, <2>4 DEF Stripped
    <2>6. SubSeq(t, a, b) \in Seq(S)
      <3>1. 1 <= a /\ a <= b + 1 /\ b <= Len(t)
        BY <2>2, <2>3
      <3> QED
        BY <3>1, PieceOf
    <2> QED
      BY <2>1, <2>5, <2>6
  <1> QED
    BY <1>1, <1>2, TrimCuts

(***************************************************************************)
(* A key is what Trim leaves of a text exactly when it stands alone among  *)
(* spaces.                                                                 *)
(***************************************************************************)
Alone(key, t, m) == \E i \in 1 .. m : t[i] = key /\ \A k \in 1 .. m : k # i => t[k] = Space

LEMMA TrimAlone ==
  ASSUME NEW S, NEW t \in Seq(S), NEW key, key # Space
  PROVE  Trim(t) = <<key>> <=> Alone(key, t, Len(t))
  <1>0. PICK n \in Nat : n = Len(t)
    OBVIOUS
  <1>1. CASE AllSpaces(t) /\ Trim(t) = t
    <2>1. \A i \in 1 .. n : t[i] = Space
      BY <1>0, <1>1 DEF AllSpaces
    <2>2. ASSUME Trim(t) = <<key>> PROVE FALSE
      <3>1. t = <<key>>
        BY <1>1, <2>2
      <3>2. Len(t) = 1 /\ t[1] = key
        BY <3>1
      <3> QED
        BY <1>0, <2>1, <3>2
    <2>3. ~Alone(key, t, n)
      BY <2>1 DEF Alone
    <2> QED
      BY <1>0, <2>2, <2>3
  <1>2. CASE \E a, b \in Nat : Core(t, a, b) /\ Trim(t) = SubSeq(t, a, b)
    <2>1. PICK a, b \in Nat : Core(t, a, b) /\ Trim(t) = SubSeq(t, a, b)
      BY <1>2
    <2>2. /\ a \in 1 .. n /\ b \in a .. n /\ t[a] # Space /\ t[b] # Space
          /\ \A k \in 1 .. n : k < a \/ k > b => t[k] = Space
      BY <1>0, <2>1 DEF Core
    <2>3. PICK u : u = SubSeq(t, a, b)
      OBVIOUS
    <2>4. u \in Seq(S) /\ Len(u) = b - a + 1 /\ \A i \in 1 .. b - a + 1 : u[i] = t[a + i - 1]
      <3>1. 1 <= a /\ a <= b + 1 /\ b <= Len(t)
        BY <1>0, <2>2
      <3>2. /\ SubSeq(t, a, b) \in Seq(S) /\ Len(SubSeq(t, a, b)) = b - a + 1
            /\ \A i \in 1 .. b - a + 1 : SubSeq(t, a, b)[i] = t[a + i - 1]
        BY <3>1, PieceOf
      <3> QED
        BY <2>3, <3>2
    <2>5. ASSUME u = <<key>> PROVE Alone(key, t, n)
      <3>1. Len(u) = 1 /\ u[1] = key
        BY <2>5
      <3>2. a = b
        <4>1. b - a + 1 = 1
          BY <2>4, <3>1
        <4> QED
          BY <4>1
      <3>3. t[a] = key
        <4>1. 1 \in 1 .. b - a + 1 /\ a + 1 - 1 = a
          BY <3>2
        <4> QED
          BY <2>4, <3>1, <4>1
      <3>4. \A k \in 1 .. n : k # a => t[k] = Space
        BY <2>2, <3>2
      <3> QED
        BY <2>2, <3>3, <3>4 DEF Alone
    <2>6. ASSUME Alone(key, t, n) PROVE u = <<key>>
      <3>1. PICK i \in 1 .. n : t[i] = key /\ \A k \in 1 .. n : k # i => t[k] = Space
        BY <2>6 DEF Alone
      <3>2. a = i /\ b = i
        BY <2>2, <3>1
      <3>3. Len(u) = 1 /\ u[1] = key
        <4>1. 1 \in 1 .. b - a + 1 /\ a + 1 - 1 = i /\ b - a + 1 = 1
          BY <3>2
        <4> QED
          BY <2>4, <3>1, <4>1
      <3> QED
        BY <2>4, <3>3
    <2> QED
      BY <1>0, <2>1, <2>3, <2>5, <2>6
  <1> QED
    BY <1>1, <1>2, TrimCuts

(***************************************************************************)
(* How ParseLine cuts a trimmed line: at its first "=" and before the      *)
(* newline.                                                                *)
(***************************************************************************)
CutAt(s, q, l) ==
  /\ q \in 1 .. Len(s) /\ s[q] = Equals /\ \A k \in 1 .. q - 1 : s[k] # Equals
  /\ l \in q .. Len(s) /\ \A k \in q + 1 .. l : s[k] # Newline
  /\ l < Len(s) => s[l + 1] = Newline

Parsed(line, s) ==
  \/ (\A i \in 1 .. Len(s) : s[i] # Equals) /\ ParseLine(line) = NoEntry
  \/ Len(s) >= 1 /\ s[1] = Hash /\ ParseLine(line) = NoEntry
  \/ \E q, l \in Nat :
       /\ CutAt(s, q, l)
       /\ ParseLine(line) = [k \in {Trim(SubSeq(s, 1, q - 1))} |-> Trim(SubSeq(s, q + 1, l))]

LEMMA ParseCuts ==
  ASSUME NEW S, NEW line, NEW s \in Seq(S), s = Trim(line)
  PROVE  Parsed(line, s)
  <1>0. PICK n \in Nat : n = Len(s)
    OBVIOUS
  <1>1. PICK Q : Q = {i \in 1 .. Len(s) : s[i] = Equals}
    OBVIOUS
  <1>2. PICK q : q = CHOOSE i \in Q : \A j \in Q : i <= j
    OBVIOUS
  <1>3. PICK E : E = {i \in q .. Len(s) : s[i] = Newline}
    OBVIOUS
  <1>4a. PICK e : e = CHOOSE i \in E : \A j \in E : i <= j
    OBVIOUS
  <1>4b. PICK l : l = IF E = {} THEN n ELSE e - 1
    OBVIOUS
  <1>4. l = IF E = {} THEN Len(s) ELSE (CHOOSE i \in E : \A j \in E : i <= j) - 1
    BY <1>0, <1>4a, <1>4b
  <1>5. ParseLine(line) =
          IF s = << >> \/ Q = {} THEN NoEntry
          ELSE IF s[1] = Hash THEN NoEntry
          ELSE [k \in {Trim(SubSeq(s, 1, q - 1))} |-> Trim(SubSeq(s, q + 1, l))]
    BY <1>1, <1>2, <1>3, <1>4 DEF ParseLine
  <1>6. \A i : i \in Q <=> i \in 1 .. n /\ s[i] = Equals
    BY <1>0, <1>1
  <1>7. CASE s = << >> \/ Q = {}
    <2>1. \A i \in 1 .. Len(s) : s[i] # Equals
      BY <1>1, <1>7
    <2> QED
      BY <1>5, <1>7, <2>1 DEF Parsed
  <1>8. CASE ~(s = << >> \/ Q = {}) /\ s[1] = Hash
    <2>1. Len(s) >= 1
      BY <1>8
    <2> QED
      BY <1>5, <1>8, <2>1 DEF Parsed
  <1>9. CASE ~(s = << >> \/ Q = {}) /\ s[1] # Hash
    <2>1. q \in Q /\ \A j \in Q : q <= j
      <3>1. Q \subseteq Nat
        BY <1>6
      <3>2. \E i \in Q : \A j \in Q : i <= j
        BY <1>9, <3>1, LeastNat
      <3> QED
        BY <1>2, <3>2
    <2>2. q \in Nat /\ q \in 1 .. n /\ s[q] = Equals
      BY <1>6, <2>1
    <2>3. \A k \in 1 .. q - 1 : s[k] # Equals
      <3>1. ASSUME NEW k \in 1 .. q - 1, s[k] = Equals PROVE FALSE
        <4>1. k \in Q
          BY <1>6, <2>2, <3>1
        <4>2. q <= k
          BY <2>1, <4>1
        <4> QED
          BY <2>2, <4>2
      <3> QED
        BY <3>1
    <2>4. \A i : i \in E <=> i \in q .. n /\ s[i] = Newline
      BY <1>0, <1>3
    <2>5. l \in q .. n /\ (\A k \in q + 1 .. l : s[k] # Newline) /\ (l < n => s[l + 1] = Newline)
      <3>1. CASE E = {}
        <4>1. l = n
          BY <1>4b, <3>1
        <4> QED
          BY <2>2, <2>4, <3>1, <4>1
      <3>2. CASE E # {}
        <4>2. e \in E /\ \A j \in E : e <= j
          <5>1. E \subseteq Nat
            BY <2>2, <2>4
          <5>2. \E i \in E : \A j \in E : i <= j
            BY <3>2, <5>1, LeastNat
          <5> QED
            BY <1>4a, <5>2
        <4>3. l = e - 1
          BY <1>4b, <3>2
        <4>4. e \in q .. n /\ s[e] = Newline /\ e # q
          BY <2>2, <2>4, <4>2, Tokens
        <4>5. l \in q .. n /\ l + 1 = e
          BY <2>2, <4>3, <4>4
        <4>6. ASSUME NEW k \in q + 1 .. l, s[k] = Newline PROVE FALSE
          <5>1. k \in E
            BY <2>2, <2>4, <4>5, <4>6
          <5>2. e <= k
            BY <4>2, <5>1
          <5> QED
            BY <2>2, <4>4, <4>5, <5>2
        <4> QED
          BY <4>4, <4>5, <4>6
      <3> QED
        BY <3>1, <3>2
    <2>6. l \in Nat
      BY <2>2, <2>5
    <2>7. CutAt(s, q, l)
      BY <1>0, <2>2, <2>3, <2>5 DEF CutAt
    <2> QED
      BY <1>5, <1>9, <2>2, <2>6, <2>7 DEF Parsed
  <1> QED
    BY <1>7, <1>8, <1>9


Word(key) == key # Space /\ key # Equals /\ key # Hash

(***************************************************************************)
(* The key before the first "=" of a trimmed line is the one it assigns.   *)
(***************************************************************************)
LEMMA KeyOfCut ==
  ASSUME NEW S, NEW s \in Seq(S), NEW key, Word(key), NEW q \in Nat, NEW l \in Nat, CutAt(s, q, l)
  PROVE  Trim(SubSeq(s, 1, q - 1)) = <<key>> <=> Assigns(s, key)
  <1>0. PICK n \in Nat : n = Len(s)
    OBVIOUS
  <1>1. q \in 1 .. n /\ s[q] = Equals /\ \A k \in 1 .. q - 1 : s[k] # Equals
    BY <1>0 DEF CutAt
  <1>2. PICK m \in Nat : m = q - 1
    BY <1>1
  <1>3. PICK t : t = SubSeq(s, 1, m)
    OBVIOUS
  <1>4. t \in Seq(S) /\ Len(t) = m /\ \A i \in 1 .. m : t[i] = s[i]
    <2>1. 1 <= 1 /\ 1 <= m + 1 /\ m <= Len(s) /\ m - 1 + 1 = m /\ \A i \in 1 .. m : 1 + i - 1 = i
      BY <1>0, <1>1, <1>2
    <2>2. /\ SubSeq(s, 1, m) \in Seq(S) /\ Len(SubSeq(s, 1, m)) = m - 1 + 1
          /\ \A i \in 1 .. m - 1 + 1 : SubSeq(s, 1, m)[i] = s[1 + i - 1]
      BY <2>1, PieceOf
    <2> QED
      BY <1>3, <2>1, <2>2
  <1>5. Trim(t) = <<key>> <=> Alone(key, t, m)
    <2>1. key # Space
      BY DEF Word
    <2>2. Trim(t) = <<key>> <=> Alone(key, t, Len(t))
      BY <1>4, <2>1, TrimAlone
    <2> QED
      BY <1>4, <2>2
  <1>6. Alone(key, t, m) <=> Alone(key, s, m)
    BY <1>4 DEF Alone
  <1>7. ASSUME Alone(key, s, m) PROVE Assigns(s, key)
    BY <1>0, <1>1, <1>2, <1>7 DEF Alone, Assigns
  <1>8. ASSUME Assigns(s, key) PROVE Alone(key, s, m)
    <2>1. PICK e \in 1 .. n :
            /\ s[e] = Equals
            /\ \E i \in 1 .. e - 1 : s[i] = key /\ \A k \in 1 .. e - 1 : k # i => s[k] = Space
      BY <1>0, <1>8 DEF Assigns
    <2>2. PICK i \in 1 .. e - 1 : s[i] = key /\ \A k \in 1 .. e - 1 : k # i => s[k] = Space
      BY <2>1
    <2>3. ~(q < e)
      <3>1. ASSUME q < e PROVE FALSE
        <4>1. q \in 1 .. e - 1
          BY <1>1, <3>1
        <4>2. s[q] = key \/ s[q] = Space
          BY <2>2, <4>1
        <4> QED
          BY <1>1, <4>2, Tokens DEF Word
      <3> QED
        BY <3>1
    <2>4. ~(e < q)
      BY <1>1, <2>1
    <2>5. e = q
      BY <1>1, <2>3, <2>4
    <2> QED
      BY <1>2, <2>2, <2>5 DEF Alone
  <1> QED
    BY <1>2, <1>3, <1>5, <1>6, <1>7, <1>8

LEMMA ValueOfCut ==
  ASSUME NEW S, NEW s \in Seq(S), NEW q \in Nat, NEW l \in Nat, CutAt(s, q, l)
  PROVE  Trim(SubSeq(s, q + 1, l)) \in Seq(S) /\ Assigned(Trim(SubSeq(s, q + 1, l)), s)
  <1>0. PICK n \in Nat : n = Len(s)
    OBVIOUS
  <1>1. /\ q \in 1 .. n /\ s[q] = Equals /\ \A k \in 1 .. q - 1 : s[k] # Equals
        /\ l \in q .. n /\ \A k \in q + 1 .. l : s[k] # Newline
        /\ l < n => s[l + 1] = Newline
    BY <1>0 DEF CutAt
  <1>2. PICK t : t = SubSeq(s, q + 1, l)
    OBVIOUS
  <1>3. t \in Seq(S)
    <2>1. q + 1 \in Nat /\ 1 <= q + 1 /\ q + 1 <= l + 1 /\ l <= Len(s)
      BY <1>0, <1>1
    <2>2. SubSeq(s, q + 1, l) \in Seq(S)
      BY <2>1, PieceOf
    <2> QED
      BY <1>2, <2>2
  <1>4. Trim(t) \in Seq(S) /\ Stripped(Trim(t), t)
    BY <1>3, TrimStrips
  <1>5. PICK m \in Nat : m = l + 1
    OBVIOUS
  <1>6. m - 1 = l /\ m \in q + 1 .. n + 1
    BY <1>1, <1>5
  <1>7. m <= n => s[m] = Newline
    BY <1>1, <1>5
  <1>8. Stripped(Trim(t), SubSeq(s, q + 1, m - 1)) /\ \A k \in q + 1 .. m - 1 : s[k] # Newline
    BY <1>1, <1>2, <1>4, <1>6
  <1>9. Assigned(Trim(t), s)
    BY <1>0, <1>1, <1>6, <1>7, <1>8 DEF Assigned
  <1> QED
    BY <1>2, <1>4, <1>9

(***************************************************************************)
(* The spaces Trim takes off a line change neither what it assigns nor to  *)
(* which key.                                                              *)
(***************************************************************************)
LEMMA AssignsCore ==
  ASSUME NEW S, NEW line \in Seq(S), NEW a \in Nat, NEW b \in Nat, Core(line, a, b),
         NEW s, s = SubSeq(line, a, b), NEW key, key # Space
  PROVE  Assigns(line, key) <=> Assigns(s, key)
  <1>0. PICK n \in Nat : n = Len(line)
    OBVIOUS
  <1>1. /\ a \in 1 .. n /\ b \in a .. n
        /\ \A k \in 1 .. n : k < a \/ k > b => line[k] = Space
    BY <1>0 DEF Core
  <1>2. PICK m \in Nat : m = b - a + 1
    BY <1>1
  <1>3. s \in Seq(S) /\ Len(s) = m /\ \A i \in 1 .. m : s[i] = line[a + i - 1]
    <2>1. 1 <= a /\ a <= b + 1 /\ b <= Len(line)
      BY <1>0, <1>1
    <2>2. /\ SubSeq(line, a, b) \in Seq(S) /\ Len(SubSeq(line, a, b)) = b - a + 1
          /\ \A i \in 1 .. b - a + 1 : SubSeq(line, a, b)[i] = line[a + i - 1]
      BY <2>1, PieceOf
    <2> QED
      BY <1>2, <2>2
  <1>4. ASSUME Assigns(line, key) PROVE Assigns(s, key)
    <2>1. PICK e \in 1 .. n :
            /\ line[e] = Equals
            /\ \E i \in 1 .. e - 1 : line[i] = key /\ \A k \in 1 .. e - 1 : k # i => line[k] = Space
      BY <1>0, <1>4 DEF Assigns
    <2>2. PICK i \in 1 .. e - 1 : line[i] = key /\ \A k \in 1 .. e - 1 : k # i => line[k] = Space
      BY <2>1
    <2>3. ~(i < a) /\ ~(e > b)
      BY <1>1, <2>1, <2>2, Tokens
    <2>4. PICK f \in 1 .. m : f = e - a + 1
      BY <1>1, <1>2, <2>3
    <2>5. PICK j \in 1 .. f - 1 : j = i - a + 1
      BY <1>1, <2>3, <2>4
    <2>6. a + f - 1 = e /\ a + j - 1 = i /\ j \in 1 .. m
      BY <2>4, <2>5
    <2>7. s[f] = Equals /\ s[j] = key
      BY <1>3, <2>1, <2>2, <2>6
    <2>8. ASSUME NEW k \in 1 .. f - 1, k # j PROVE s[k] = Space
      <3>1. k \in 1 .. m /\ a + k - 1 \in 1 .. e - 1 /\ a + k - 1 # i
        BY <1>1, <2>4, <2>5, <2>8
      <3> QED
        BY <1>3, <2>2, <3>1
    <2> QED
      BY <1>3, <2>7, <2>8 DEF Assigns
  <1>5. ASSUME Assigns(s, key) PROVE Assigns(line, key)
    <2>1. PICK f \in 1 .. m :
            /\ s[f] = Equals
            /\ \E j \in 1 .. f - 1 : s[j] = key /\ \A k \in 1 .. f - 1 : k # j => s[k] = Space
      BY <1>3, <1>5 DEF Assigns
    <2>2. PICK j \in 1 .. f - 1 : s[j] = key /\ \A k \in 1 .. f - 1 : k # j => s[k] = Space
      BY <2>1
    <2>3. PICK e \in 1 .. n : e = a + f - 1
      BY <1>1, <1>2
    <2>4. PICK i \in 1 .. e - 1 : i = a + j - 1
      BY <1>1, <2>3
    <2>5. line[e] = Equals /\ line[i] = key
      <3>1. j \in 1 .. m
        OBVIOUS
      <3> QED
        BY <1>3, <2>1, <2>2, <2>3, <2>4, <3>1
    <2>6. ASSUME NEW k \in 1 .. e - 1, k # i PROVE line[k] = Space
      <3>1. CASE k < a
        <4>1. k \in 1 .. n
          OBVIOUS
        <4> QED
          BY <1>1, <3>1, <4>1
      <3>2. CASE ~(k < a)
        <4>1. PICK h \in 1 .. f - 1 : h = k - a + 1
          BY <1>1, <2>3, <3>2
        <4>2. h \in 1 .. m /\ h # j /\ a + h - 1 = k
          BY <2>4, <2>6, <4>1
        <4> QED
          BY <1>3, <2>2, <4>2
      <3> QED
        BY <3>1, <3>2
    <2> QED
      BY <1>0, <2>5, <2>6 DEF Assigns
  <1> QED
    BY <1>4, <1>5


LEMMA StrippedMore ==
  ASSUME NEW S, NEW t \in Seq(S), NEW m \in Nat, m <= Len(t),
         \A k \in m + 1 .. Len(t) : t[k] = Space,
         NEW value, Stripped(value, SubSeq(t, 1, m))
  PROVE  Stripped(value, t)
  <1>0. PICK n \in Nat : n = Len(t)
    OBVIOUS
  <1>1. PICK u : u = SubSeq(t, 1, m)
    OBVIOUS
  <1>2. u \in Seq(S) /\ Len(u) = m /\ \A i \in 1 .. m : u[i] = t[i]
    <2>1. 1 <= 1 /\ 1 <= m + 1 /\ m - 1 + 1 = m /\ \A i \in 1 .. m : 1 + i - 1 = i
      OBVIOUS
    <2>2. /\ SubSeq(t, 1, m) \in Seq(S) /\ Len(SubSeq(t, 1, m)) = m - 1 + 1
          /\ \A i \in 1 .. m - 1 + 1 : SubSeq(t, 1, m)[i] = t[1 + i - 1]
      BY <2>1, PieceOf
    <2> QED
      BY <1>1, <2>1, <2>2
  <1>3. PICK a \in 1 .. m + 1 : \E b \in a - 1 .. m :
          /\ value = SubSeq(u, a, b)
          /\ \A k \in 1 .. m : k < a \/ k > b => u[k] = Space
          /\ (\E k \in a .. b : u[k] # Space) => u[a] # Space /\ u[b] # Space
    <2>1. Stripped(value, u) /\ Len(u) = m
      BY <1>1, <1>2
    <2> QED
      BY Zenon, <2>1 DEF Stripped
  <1>4. PICK b \in a - 1 .. m :
          /\ value = SubSeq(u, a, b)
          /\ \A k \in 1 .. m : k < a \/ k > b => u[k] = Space
          /\ (\E k \in a .. b : u[k] # Space) => u[a] # Space /\ u[b] # Space
    BY <1>3
  <1>5. a \in Nat /\ b \in Nat /\ 1 <= a /\ a <= b + 1 /\ b <= m /\ b <= m - 1 + 1
    OBVIOUS
  <1>6. value = SubSeq(t, a, b)
    <2>1. SubSeq(SubSeq(t, 1, m), a, b) = SubSeq(t, 1 + a - 1, 1 + b - 1)
      BY <1>5, PieceOfPiece
    <2>2. 1 + a - 1 = a /\ 1 + b - 1 = b
      OBVIOUS
    <2> QED
      BY <1>1, <1>4, <2>1, <2>2
  <1>7. ASSUME NEW k \in 1 .. n, k < a \/ k > b PROVE t[k] = Space
    <2>1. CASE k <= m
      <3>1. k \in 1 .. m
        BY <2>1
      <3>2. u[k] = Space
        BY <1>4, <1>7, <3>1
      <3> QED
        BY <1>2, <3>1, <3>2
    <2>2. CASE ~(k <= m)
      <3>1. k \in m + 1 .. Len(t)
        BY <1>0, <2>2
      <3> QED
        BY <3>1
    <2> QED
      BY <2>1, <2>2
  <1>8. ASSUME NEW k \in a .. b, t[k] # Space PROVE t[a] # Space /\ t[b] # Space
    <2>1. k \in 1 .. m /\ a \in 1 .. m /\ b \in 1 .. m
      BY <1>5
    <2>2. u[k] = t[k] /\ u[a] = t[a] /\ u[b] = t[b]
      BY <1>2, <2>1
    <2> QED
      BY <1>4, <1>8, <2>2
  <1>9. a \in 1 .. n + 1 /\ b \in a - 1 .. n
    BY <1>0
  <1> QED
    BY <1>0, <1>6, <1>7, <1>8, <1>9 DEF Stripped

LEMMA AssignedCore ==
  ASSUME NEW S, NEW line \in Seq(S), NEW a \in Nat, NEW b \in Nat, Core(line, a, b),
         NEW s, s = SubSeq(line, a, b), NEW value, Assigned(value, s)
  PROVE  Assigned(value, line)
  <1>0. PICK n \in Nat : n = Len(line)
    OBVIOUS
  <1>1. /\ a \in 1 .. n /\ b \in a .. n
        /\ \A k \in 1 .. n : k < a \/ k > b => line[k] = Space
    BY <1>0 DEF Core
  <1>2. PICK m \in Nat : m = b - a + 1
    BY <1>1
  <1>p. 1 <= a /\ a <= b + 1 /\ b <= Len(line)
    BY <1>0, <1>1
  <1>3. s \in Seq(S) /\ Len(s) = m /\ \A i \in 1 .. m : s[i] = line[a + i - 1]
    <2>2. /\ SubSeq(line, a, b) \in Seq(S) /\ Len(SubSeq(line, a, b)) = b - a + 1
          /\ \A i \in 1 .. b - a + 1 : SubSeq(line, a, b)[i] = line[a + i - 1]
      BY <1>p, PieceOf
    <2> QED
      BY <1>2, <2>2
  <1>4. PICK f \in 1 .. m : \E g \in f + 1 .. m + 1 :
          /\ s[f] = Equals /\ \A k \in 1 .. f - 1 : s[k] # Equals
          /\ g <= m => s[g] = Newline
          /\ \A k \in f + 1 .. g - 1 : s[k] # Newline
          /\ Stripped(value, SubSeq(s, f + 1, g - 1))
    BY <1>3 DEF Assigned
  <1>5. PICK g \in f + 1 .. m + 1 :
          /\ s[f] = Equals /\ \A k \in 1 .. f - 1 : s[k] # Equals
          /\ g <= m => s[g] = Newline
          /\ \A k \in f + 1 .. g - 1 : s[k] # Newline
          /\ Stripped(value, SubSeq(s, f + 1, g - 1))
    BY <1>4
  <1>6. PICK e \in 1 .. n : e = a + f - 1
    BY <1>1, <1>2
  <1>7. line[e] = Equals
    BY <1>3, <1>5, <1>6
  <1>8. ASSUME NEW k \in 1 .. e - 1 PROVE line[k] # Equals
    <2>1. CASE k < a
      <3>1. k \in 1 .. n
        OBVIOUS
      <3> QED
        BY <1>1, <2>1, <3>1, Tokens
    <2>2. CASE ~(k < a)
      <3>1. PICK h \in 1 .. f - 1 : h = k - a + 1
        BY <1>1, <1>6, <2>2
      <3>2. h \in 1 .. m /\ a + h - 1 = k
        BY <3>1
      <3> QED
        BY <1>3, <1>5, <3>2
    <2> QED
      BY <2>1, <2>2
  <1>9. PICK y \in Nat : y = a + g - 2
    BY <1>1
  <1>10. y \in e .. b
    BY <1>1, <1>2, <1>6, <1>9
  <1>11. SubSeq(s, f + 1, g - 1) = SubSeq(line, e + 1, y)
    <2>1. PICK c \in Nat : c = f + 1
      OBVIOUS
    <2>2. PICK d \in Nat : d = g - 1
      OBVIOUS
    <2>3. 1 <= c /\ c <= d + 1 /\ d <= b - a + 1
      BY <1>2, <2>1, <2>2
    <2>4. SubSeq(SubSeq(line, a, b), c, d) = SubSeq(line, a + c - 1, a + d - 1)
      BY <1>p, <2>3, PieceOfPiece
    <2>5. a + c - 1 = e + 1 /\ a + d - 1 = y
      BY <1>6, <1>9, <2>1, <2>2
    <2> QED
      BY <2>1, <2>2, <2>4, <2>5
  <1>12. ASSUME NEW k \in e + 1 .. y PROVE line[k] # Newline
    <2>1. PICK h \in f + 1 .. g - 1 : h = k - a + 1
      BY <1>1, <1>6, <1>9
    <2>2. h \in 1 .. m /\ a + h - 1 = k
      BY <2>1
    <2> QED
      BY <1>3, <1>5, <2>2
  <1>13. CASE g <= m
    <2>1. PICK z \in e + 1 .. n + 1 : z = y + 1
      BY <1>1, <1>10
    <2>2. z - 1 = y /\ line[z] = Newline
      <3>1. a + g - 1 = z /\ g \in 1 .. m /\ z - 1 = y
        BY <1>9, <1>13, <2>1
      <3>2. s[g] = line[z]
        BY <1>3, <3>1
      <3> QED
        BY <1>5, <1>13, <3>1, <3>2
    <2>3. Stripped(value, SubSeq(line, e + 1, z - 1)) /\ \A k \in e + 1 .. z - 1 : line[k] # Newline
      BY <1>5, <1>11, <1>12, <2>2
    <2> QED
      BY <1>0, <1>7, <1>8, <2>2, <2>3 DEF Assigned
  <1>14. CASE ~(g <= m)
    <2>1. y = b
      BY <1>2, <1>9, <1>14
    <2>2. PICK t : t = SubSeq(line, e + 1, n)
      OBVIOUS
    <2>3. PICK x \in Nat : x = e + 1
      OBVIOUS
    <2>4. 1 <= x /\ x <= n + 1 /\ n <= Len(line)
      BY <1>0, <2>3
    <2>5. t \in Seq(S) /\ Len(t) = n - x + 1 /\ \A i \in 1 .. n - x + 1 : t[i] = line[x + i - 1]
      <3>1. /\ SubSeq(line, x, n) \in Seq(S) /\ Len(SubSeq(line, x, n)) = n - x + 1
            /\ \A i \in 1 .. n - x + 1 : SubSeq(line, x, n)[i] = line[x + i - 1]
        BY <2>4, PieceOf
      <3> QED
        BY <2>2, <2>3, <3>1
    <2>6. PICK d \in Nat : d = b - e
      BY <1>10, <2>1
    <2>7. d <= n - x + 1
      BY <1>1, <2>3, <2>6
    <2>8. SubSeq(t, 1, d) = SubSeq(line, e + 1, y)
      <3>1. 1 <= 1 /\ 1 <= d + 1
        OBVIOUS
      <3>2. SubSeq(SubSeq(line, x, n), 1, d) = SubSeq(line, x + 1 - 1, x + d - 1)
        BY <2>4, <2>7, <3>1, PieceOfPiece
      <3>3. x + 1 - 1 = e + 1 /\ x + d - 1 = y
        BY <2>1, <2>3, <2>6
      <3> QED
        BY <2>2, <2>3, <3>2, <3>3
    <2>9. ASSUME NEW k \in d + 1 .. Len(t) PROVE t[k] = Space
      <3>1. PICK h \in 1 .. n : h = x + k - 1
        BY <2>3, <2>5, <2>6
      <3>2. h > b /\ k \in 1 .. n - x + 1
        BY <1>1, <2>3, <2>5, <2>6, <3>1
      <3> QED
        BY <1>1, <2>5, <3>1, <3>2
    <2>10. Stripped(value, t)
      <3>1. d <= Len(t)
        BY <2>5, <2>7
      <3>2. Stripped(value, SubSeq(t, 1, d))
        BY <1>5, <1>11, <2>8
      <3> QED
        BY <2>5, <2>9, <3>1, <3>2, StrippedMore
    <2>11. PICK z \in e + 1 .. n + 1 : z = n + 1
      BY <1>6
    <2>12. z - 1 = n /\ ~(z <= n)
      BY <2>11
    <2>13. ASSUME NEW k \in e + 1 .. n PROVE line[k] # Newline
      <3>1. CASE k <= y
        BY <1>10, <1>12, <3>1
      <3>2. CASE ~(k <= y)
        BY <1>1, <2>1, <3>2, Tokens
      <3> QED
        BY <3>1, <3>2
    <2>14. Stripped(value, SubSeq(line, e + 1, z - 1)) /\ \A k \in e + 1 .. z - 1 : line[k] # Newline
      BY <2>2, <2>10, <2>12, <2>13
    <2> QED
      BY <1>0, <1>7, <1>8, <2>12, <2>14 DEF Assigned
  <1> QED
    BY <1>13, <1>14

(***************************************************************************)
(* What ParseLine takes from a line is what the line assigns.              *)
(***************************************************************************)
LEMMA LineMeans ==
  ASSUME NEW S, NEW line \in Seq(S)
  PROVE  /\ DOMAIN ParseLine(line) \subseteq Seq(S)
         /\ \A k \in DOMAIN ParseLine(line) : ParseLine(line)[k] \in Seq(S)
         /\ \A key : Word(key) =>
              /\ <<key>> \in DOMAIN ParseLine(line) <=> Assigns(line, key)
              /\ Assigns(line, key) => Assigned(ParseLine(line)[<<key>>], line)
  <1>1. PICK s : s = Trim(line)
    OBVIOUS
  <1>2. s \in Seq(S)
    BY <1>1, TrimStrips
  <1>3. ASSUME NEW key, Word(key) PROVE Assigns(line, key) <=> Assigns(s, key)
    <2>1. key # Space
      BY <1>3 DEF Word
    <2> QED
      BY <1>1, <2>1, TrimCuts, AssignsCore
  <1>4. ASSUME NEW value, Assigned(value, s) PROVE Assigned(value, line)
    BY <1>1, <1>4, TrimCuts, AssignedCore
  <1>5. CASE (\A i \in 1 .. Len(s) : s[i] # Equals) /\ ParseLine(line) = NoEntry
    <2>1. DOMAIN ParseLine(line) = {}
      BY <1>5 DEF NoEntry
    <2>2. \A key : ~Assigns(s, key)
      BY <1>5 DEF Assigns
    <2> QED
      BY <1>3, <2>1, <2>2
  <1>6. CASE Len(s) >= 1 /\ s[1] = Hash /\ ParseLine(line) = NoEntry
    <2>1. DOMAIN ParseLine(line) = {}
      BY <1>6 DEF NoEntry
    <2>2. ASSUME NEW key, Word(key), Assigns(s, key) PROVE FALSE
      <3>1. PICK n \in Nat : n = Len(s)
        BY <1>2
      <3>2. PICK e \in 1 .. n : \E i \in 1 .. e - 1 :
              s[i] = key /\ \A k \in 1 .. e - 1 : k # i => s[k] = Space
        BY <2>2, <3>1 DEF Assigns
      <3>3. PICK i \in 1 .. e - 1 : s[i] = key /\ \A k \in 1 .. e - 1 : k # i => s[k] = Space
        BY <3>2
      <3>4. s[1] = key \/ s[1] = Space
        BY <3>3
      <3> QED
        BY <1>6, <2>2, <3>4, Tokens DEF Word
    <2> QED
      BY <1>3, <2>1, <2>2
  <1>7. CASE \E q, l \in Nat :
               /\ CutAt(s, q, l)
               /\ ParseLine(line) = [k \in {Trim(SubSeq(s, 1, q - 1))} |-> Trim(SubSeq(s, q + 1, l))]
    <2>1. PICK q, l \in Nat :
            /\ CutAt(s, q, l)
            /\ ParseLine(line) = [k \in {Trim(SubSeq(s, 1, q - 1))} |-> Trim(SubSeq(s, q + 1, l))]
      BY <1>7
    <2>2. PICK x : x = Trim(SubSeq(s, 1, q - 1))
      OBVIOUS
    <2>3. PICK v : v = Trim(SubSeq(s, q + 1, l))
      OBVIOUS
    <2>4. DOMAIN ParseLine(line) = {x} /\ ParseLine(line)[x] = v
      BY <2>1, <2>2, <2>3
    <2>5. v \in Seq(S) /\ Assigned(v, line)
      BY <1>2, <1>4, <2>1, <2>3, ValueOfCut
    <2>6. x \in Seq(S)
      <3>1. PICK m \in Nat : m = q - 1
        BY <2>1 DEF CutAt
      <3>2. 1 <= 1 /\ 1 <= m + 1 /\ m <= Len(s)
        BY <1>2, <2>1, <3>1 DEF CutAt
      <3>3. SubSeq(s, 1, m) \in Seq(S)
        BY <1>2, <3>2, PieceOf
      <3> QED
        BY <2>2, <3>1, <3>3, TrimStrips
    <2>7. ASSUME NEW key, Word(key) PROVE x = <<key>> <=> Assigns(line, key)
      BY <1>2, <1>3, <2>1, <2>2, <2>7, KeyOfCut
    <2>8. /\ DOMAIN ParseLine(line) \subseteq Seq(S)
          /\ \A k \in DOMAIN ParseLine(line) : ParseLine(line)[k] \in Seq(S)
      BY <2>4, <2>5, <2>6
    <2>9. ASSUME NEW key, Word(key)
          PROVE  /\ <<key>> \in DOMAIN ParseLine(line) <=> Assigns(line, key)
                 /\ Assigns(line, key) => Assigned(ParseLine(line)[<<key>>], line)
      <3>1. <<key>> \in DOMAIN ParseLine(line) <=> x = <<key>>
        BY <2>4
      <3>2. x = <<key>> <=> Assigns(line, key)
        BY <2>7, <2>9
      <3>3. ASSUME x = <<key>> PROVE Assigned(ParseLine(line)[<<key>>], line)
        <4>1. ParseLine(line)[<<key>>] = v
          BY <2>4, <3>3
        <4> QED
          BY <2>5, <4>1
      <3> QED
        BY <3>1, <3>2, <3>3
    <2> QED
      BY <2>8, <2>9
  <1>8. Parsed(line, s)
    BY <1>1, <1>2, ParseCuts
  <1> QED
    BY <1>5, <1>6, <1>7, <1>8 DEF Parsed


-----------------------------------------------------------------------------
(***************************************************************************)
(* The loop over the lines keeps the value of the first line that assigns  *)
(* a key.                                                                  *)
(***************************************************************************)
FirstOf(map, lines, k, key) ==
  \/ (\A i \in 1 .. k : ~Assigns(lines[i], key)) /\ <<key>> \notin DOMAIN map
  \/ \E i \in 1 .. k :
       /\ Assigns(lines[i], key) /\ \A j \in 1 .. i - 1 : ~Assigns(lines[j], key)
       /\ <<key>> \in DOMAIN map /\ Assigned(map[<<key>>], lines[i])

LEMMA InsertKeepsFirst ==
  ASSUME NEW S, NEW lines \in Seq(Seq(S)), NEW key, Word(key), NEW k \in 1 .. Len(lines),
         NEW map, FirstOf(map, lines, k - 1, key)
  PROVE  FirstOf(Insert(map, lines[k]), lines, k, key)
  <1>1. PICK m : m = Insert(map, lines[k])
    OBVIOUS
  <1>2. PICK new : new = ParseLine(lines[k])
    OBVIOUS
  <1>3. /\ DOMAIN m = DOMAIN map \cup DOMAIN new
        /\ \A x \in DOMAIN m : m[x] = IF x \in DOMAIN map THEN map[x] ELSE new[x]
    BY <1>1, <1>2 DEF Insert, AddTo
  <1>4. lines[k] \in Seq(S)
    OBVIOUS
  <1>5. /\ <<key>> \in DOMAIN new <=> Assigns(lines[k], key)
        /\ Assigns(lines[k], key) => Assigned(new[<<key>>], lines[k])
    BY <1>2, <1>4, LineMeans
  <1>6. k \in Nat /\ \A i \in 1 .. k : i = k \/ i \in 1 .. k - 1
    OBVIOUS
  <1>7. CASE (\A i \in 1 .. k - 1 : ~Assigns(lines[i], key)) /\ <<key>> \notin DOMAIN map
    <2>1. CASE Assigns(lines[k], key)
      <3>1. <<key>> \in DOMAIN m /\ m[<<key>>] = new[<<key>>]
        BY <1>3, <1>5, <1>7, <2>1
      <3>2. k \in 1 .. k
        OBVIOUS
      <3>3. FirstOf(m, lines, k, key)
        BY <1>5, <1>7, <2>1, <3>1, <3>2 DEF FirstOf
      <3> QED
        BY <1>1, <3>3
    <2>2. CASE ~Assigns(lines[k], key)
      <3>1. <<key>> \notin DOMAIN m
        BY <1>3, <1>5, <1>7, <2>2
      <3>2. FirstOf(m, lines, k, key)
        BY <1>6, <1>7, <2>2, <3>1 DEF FirstOf
      <3> QED
        BY <1>1, <3>2
    <2> QED
      BY <2>1, <2>2
  <1>8. CASE \E i \in 1 .. k - 1 :
               /\ Assigns(lines[i], key) /\ \A j \in 1 .. i - 1 : ~Assigns(lines[j], key)
               /\ <<key>> \in DOMAIN map /\ Assigned(map[<<key>>], lines[i])
    <2>1. PICK i \in 1 .. k - 1 :
               /\ Assigns(lines[i], key) /\ \A j \in 1 .. i - 1 : ~Assigns(lines[j], key)
               /\ <<key>> \in DOMAIN map /\ Assigned(map[<<key>>], lines[i])
      BY <1>8
    <2>2. <<key>> \in DOMAIN m /\ m[<<key>>] = map[<<key>>]
      BY <1>3, <2>1
    <2>3. i \in 1 .. k
      OBVIOUS
    <2>4. FirstOf(m, lines, k, key)
      BY <2>1, <2>2, <2>3 DEF FirstOf
    <2> QED
      BY <1>1, <2>4
  <1> QED
    BY <1>7, <1>8 DEF FirstOf

LEMMA LoadKeepsFirst ==
  ASSUME NEW S, NEW lines \in Seq(Seq(S)), NEW key, Word(key)
  PROVE  FirstOf(LoadConfigFile(lines), lines, Len(lines), key)
  <1> DEFINE N == Len(lines)
             Loads(g, k) == g = [i \in 0 .. k |-> IF i = 0 THEN NoEntry
                                                  ELSE Insert(g[i - 1], lines[i])]
             T == {k \in Nat : ~\E g : Loads(g, k)}
  <1>1. ASSUME T # {} PROVE FALSE
    <2>1. PICK k \in T : \A y \in T : k <= y
      <3> HIDE DEF Loads
      <3> QED
        BY <1>1, LeastNat
    <2>2. CASE k = 0
      <3>1. Loads([i \in 0 .. 0 |-> NoEntry], 0)
        OBVIOUS
      <3> QED
        BY <2>1, <2>2, <3>1
    <2>3. CASE k # 0
      <3>0. k \in Nat
        OBVIOUS
      <3>1. k - 1 \in Nat /\ ~(k <= k - 1)
        BY <2>3, <3>0
      <3>2. PICK g : Loads(g, k - 1)
        <4>1. k - 1 \notin T
          <5> HIDE DEF Loads
          <5> QED
            BY <2>1, <3>1
        <4> QED
          BY <3>1, <4>1
      <3> DEFINE h == [i \in 0 .. k |-> IF i = k THEN Insert(g[k - 1], lines[k]) ELSE g[i]]
      <3>3. ASSUME NEW i \in 0 .. k
            PROVE  h[i] = IF i = 0 THEN NoEntry ELSE Insert(h[i - 1], lines[i])
        <4>1. CASE i = k
          <5>1. i # 0 /\ i - 1 \in 0 .. k /\ i - 1 # k
            BY <2>3, <3>0, <4>1
          <5> QED
            BY <4>1, <5>1
        <4>2. CASE i # k
          <5>1. /\ i \in 0 .. (k - 1) /\ h[i] = g[i]
                /\ i # 0 => i - 1 \in 0 .. k /\ i - 1 # k
            BY <3>0, <4>2
          <5> QED
            BY <3>2, <5>1
        <4> QED
          BY <4>1, <4>2
      <3>4. Loads(h, k)
        BY <3>3
      <3> QED
        BY <3>4
    <2> QED
      BY <2>2, <2>3
  <1>2. N \in Nat
    OBVIOUS
  <1>3. PICK g : Loads(g, N)
    BY <1>1, <1>2
  <1> DEFINE map == CHOOSE f : Loads(f, N)
  <1>4. Loads(map, N)
    BY <1>3
  <1>5. LoadConfigFile(lines) = map[N]
    BY DEF LoadConfigFile
  <1> HIDE DEF map
  <1> DEFINE U == {k \in Nat : k <= N /\ ~FirstOf(map[k], lines, k, key)}
  <1>6. ASSUME U # {} PROVE FALSE
    <2>1. PICK k \in U : \A y \in U : k <= y
      BY <1>6, LeastNat
    <2>2. k \in 0 .. N
      BY <1>2, <2>1
    <2>3. CASE k = 0
      <3>1. map[0] = NoEntry
        BY <1>4, <2>2, <2>3
      <3>2. DOMAIN NoEntry = {}
        BY DEF NoEntry
      <3>3. FirstOf(NoEntry, lines, 0, key)
        BY <3>2 DEF FirstOf
      <3> QED
        BY <2>1, <2>3, <3>1, <3>3
    <2>4. CASE k # 0
      <3>1. k - 1 \in Nat /\ k - 1 <= N /\ ~(k <= k - 1) /\ k \in 1 .. N
        BY <1>2, <2>2, <2>4
      <3>2. FirstOf(map[k - 1], lines, k - 1, key)
        BY <2>1, <3>1
      <3>3. map[k] = Insert(map[k - 1], lines[k])
        BY <1>4, <2>2, <2>4
      <3>4. FirstOf(map[k], lines, k, key)
        BY <3>1, <3>2, <3>3, InsertKeepsFirst
      <3> QED
        BY <2>1, <3>4
    <2> QED
      BY <2>3, <2>4
  <1>7. FirstOf(map[N], lines, N, key)
    BY <1>2, <1>6
  <1> QED
    BY <1>5, <1>7

LEMMA LoadMeans ==
  ASSUME NEW S, NEW lines \in Seq(Seq(S)), NEW key, Word(key)
  PROVE  Means(Load(LoadConfigFile(lines), <<key>>), lines, key)
  <1>1. PICK map : map = LoadConfigFile(lines)
    OBVIOUS
  <1>2. PICK n \in Nat : n = Len(lines)
    OBVIOUS
  <1>3. FirstOf(map, lines, n, key)
    BY <1>1, <1>2, LoadKeepsFirst
  <1>4. PICK at : at = {i \in 1 .. Len(lines) : Assigns(lines[i], key)}
    OBVIOUS
  <1>5. \A i : i \in at <=> i \in 1 .. n /\ Assigns(lines[i], key)
    BY <1>2, <1>4
  <1>6. CASE (\A i \in 1 .. n : ~Assigns(lines[i], key)) /\ <<key>> \notin DOMAIN map
    <2>1. at = {} /\ Load(map, <<key>>) = << >>
      BY <1>5, <1>6 DEF Load
    <2> QED
      BY <1>1, <1>4, <2>1 DEF Means
  <1>7. CASE \E i \in 1 .. n :
               /\ Assigns(lines[i], key) /\ \A j \in 1 .. i - 1 : ~Assigns(lines[j], key)
               /\ <<key>> \in DOMAIN map /\ Assigned(map[<<key>>], lines[i])
    <2>1. PICK i \in 1 .. n :
               /\ Assigns(lines[i], key) /\ \A j \in 1 .. i - 1 : ~Assigns(lines[j], key)
               /\ <<key>> \in DOMAIN map /\ Assigned(map[<<key>>], lines[i])
      BY <1>7
    <2>2. i \in at /\ at # {}
      BY <1>5, <2>1
    <2>3. ASSUME NEW j \in at PROVE i <= j
      <3>1. j \in 1 .. n /\ Assigns(lines[j], key)
        BY <1>5
      <3>2. ~(j < i)
        BY <2>1, <3>1
      <3> QED
        BY <3>1, <3>2
    <2>4. Load(map, <<key>>) = map[<<key>>]
      BY <2>1 DEF Load
    <2>5. \E x \in at : (\A j \in at : x <= j) /\ Assigned(Load(map, <<key>>), lines[x])
      BY <2>1, <2>2, <2>3, <2>4
    <2> QED
      BY <1>1, <1>4, <2>2, <2>5 DEF Means
  <1> QED
    BY <1>3, <1>6, <1>7 DEF FirstOf


-----------------------------------------------------------------------------
(***************************************************************************)
(* Application::Init lets the command line decide over the file.           *)
(***************************************************************************)
LEMMA OverrideLoads ==
  ASSUME NEW map, NEW key, NEW given, NEW k
  PROVE  Load(Override(map, key, given), k) =
           IF k = key /\ given # << >> THEN given ELSE Load(map, k)
  <1>1. CASE given = << >>
    BY <1>1 DEF Override
  <1>2. CASE given # << >>
    <2>1. PICK m : m = Override(map, key, given)
      OBVIOUS
    <2>2. PICK one : one = [x \in {key} |-> given]
      OBVIOUS
    <2>3. m = AddTo(one, map)
      BY <1>2, <2>1, <2>2 DEF Override, Write
    <2>4. DOMAIN one = {key} /\ one[key] = given
      BY <2>2
    <2>5. /\ DOMAIN m = DOMAIN map \cup {key}
          /\ \A x \in DOMAIN m : m[x] = IF x = key THEN given ELSE map[x]
      BY <2>3, <2>4 DEF AddTo
    <2>6. Load(m, k) = IF k = key THEN given ELSE Load(map, k)
      BY <2>5 DEF Load
    <2> QED
      BY <1>2, <2>1, <2>6
  <1> QED
    BY <1>1, <1>2

Keys == {"rpcserverip", "rpcserverport", "zookeeperip", "zookeeperport"}

LEMMA KeysAreWords ==
  ASSUME NEW key \in Keys
  PROVE  Word(key)
  BY Zenon DEF Keys, Word, Space, Equals, Hash

LEMMA InitMeans ==
  ASSUME NEW args, ~InitExits(args), NEW key \in Keys
  PROVE  LET value == Load(ApplicationInit(args), <<key>>)
         IN  IF Given(args, key) # << >> THEN value = Given(args, key)
             ELSE Means(value, Files[Option(args, "i")], key)
  <1>1. PICK f : f = Option(args, "i")
    OBVIOUS
  <1>2. PICK x : x = Option(args, "a")
    OBVIOUS
  <1>3. PICK y : y = Option(args, "p")
    OBVIOUS
  <1>4. Files[f] \in Seq(Seq(Words))
    BY <1>1, FilesAssumption DEF InitExits
  <1>5. PICK map : map = LoadConfigFile(Files[f])
    OBVIOUS
  <1>6. PICK k : k = <<key>>
    OBVIOUS
  <1>7. Means(Load(map, k), Files[f], key)
    BY <1>4, <1>5, <1>6, KeysAreWords, LoadMeans
  <1>8. PICK mid : mid = Override(map, <<"rpcserverip">>, x)
    OBVIOUS
  <1>9. PICK all : all = Override(mid, <<"rpcserverport">>, y)
    OBVIOUS
  <1>10. ApplicationInit(args) = all
    BY <1>1, <1>2, <1>3, <1>5, <1>8, <1>9 DEF ApplicationInit
  <1>11. Load(mid, k) = IF k = <<"rpcserverip">> /\ x # << >> THEN x ELSE Load(map, k)
    BY <1>8, OverrideLoads
  <1>12. Load(all, k) = IF k = <<"rpcserverport">> /\ y # << >> THEN y ELSE Load(mid, k)
    BY <1>9, OverrideLoads
  <1>13. /\ (k = <<"rpcserverip">>) <=> (key = "rpcserverip")
         /\ (k = <<"rpcserverport">>) <=> (key = "rpcserverport")
    BY <1>6
  <1>14. "rpcserverip" # "rpcserverport"
    OBVIOUS
  <1>15. Given(args, key) = IF key = "rpcserverip" THEN x
                            ELSE IF key = "rpcserverport" THEN y ELSE << >>
    BY <1>2, <1>3 DEF Given
  <1>16. IF Given(args, key) # << >> THEN Load(all, k) = Given(args, key)
         ELSE Load(all, k) = Load(map, k)
    BY <1>11, <1>12, <1>13, <1>14, <1>15
  <1>17. IF Given(args, key) # << >> THEN Load(all, k) = Given(args, key)
         ELSE Means(Load(all, k), Files[f], key)
    BY <1>7, <1>16
  <1> QED
    BY <1>1, <1>6, <1>10, <1>17

(***************************************************************************)
(* A process that is alive has the configuration of its command line.      *)
(***************************************************************************)
Configured(p) ==
  pc[p] \notin Dead => ~InitExits(argv[p]) /\ config[p] = ApplicationInit(argv[p])

ConfigInv == DOMAIN argv = Procs /\ \A p \in Procs : Configured(p)

LEMMA LaunchConfigures ==
  ASSUME RegInv, ConfigInv, NEW p \in Procs, Launch(p)
  PROVE  ConfigInv'
  <1>1. /\ DOMAIN pc = Procs /\ DOMAIN config = Procs /\ DOMAIN argv = Procs
        /\ \A q \in Procs : Configured(q)
    BY DEF RegInv, ProcState, ConfigInv
  <1>2. PICK a \in ArgvOf[p] :
          /\ argv' = [argv EXCEPT ![p] = a]
          /\ IF InitExits(a)
             THEN pc' = [pc EXCEPT ![p] = "exited"] /\ UNCHANGED <<config, serviceMap>>
             ELSE /\ pc' = [pc EXCEPT ![p] = "bind"]
                  /\ config' = [config EXCEPT ![p] = ApplicationInit(a)]
                  /\ serviceMap' = [serviceMap EXCEPT ![p] = ServiceMap]
    BY DEF Launch
  <1>3. DOMAIN argv' = Procs
    BY <1>1, <1>2
  <1>4. ASSUME NEW q \in Procs, q # p PROVE Configured(q)'
    <2>1. argv'[q] = argv[q] /\ pc'[q] = pc[q] /\ config'[q] = config[q]
      BY <1>1, <1>2, <1>4
    <2> QED
      BY <1>1, <2>1 DEF Configured
  <1>5. Configured(p)'
    <2>1. argv'[p] = a
      BY <1>1, <1>2
    <2>2. CASE InitExits(a)
      <3>1. pc'[p] \in Dead
        BY <1>1, <1>2, <2>2 DEF Dead
      <3> QED
        BY <3>1 DEF Configured
    <2>3. CASE ~InitExits(a)
      <3>1. config'[p] = ApplicationInit(a)
        BY <1>1, <1>2, <2>3
      <3> QED
        BY <2>1, <2>3, <3>1 DEF Configured
    <2> QED
      BY <2>2, <2>3
  <1> QED
    BY <1>3, <1>4, <1>5 DEF ConfigInv

(***************************************************************************)
(* Nobody but main writes argv and config_map, and no other step brings a  *)
(* process back to life.                                                   *)
(***************************************************************************)
LEMMA StepConfigures ==
  ASSUME RegInv, ConfigInv, argv' = argv, config' = config,
         \A p \in Procs : pc'[p] \in Dead \/ pc[p] \notin Dead \/ pc'[p] = pc[p]
  PROVE  ConfigInv'
  <1>1. DOMAIN argv' = Procs
    BY DEF ConfigInv
  <1>2. ASSUME NEW p \in Procs PROVE Configured(p)'
    <2>1. Configured(p)
      BY DEF ConfigInv
    <2>2. pc'[p] \notin Dead => pc[p] \notin Dead
      OBVIOUS
    <2> QED
      BY <2>1, <2>2 DEF Configured
  <1> QED
    BY <1>1, <1>2 DEF ConfigInv

LEMMA ExitsConfigured ==
  ASSUME RegInv, NEW p \in Procs, Exit(p)
  PROVE  \A q \in Procs : pc'[q] \in Dead \/ pc'[q] = pc[q]
  <1>1. DOMAIN pc = Procs
    BY DEF RegInv, ProcState
  <1> QED
    BY <1>1 DEF Exit, Dead

LEMMA RunConfigured ==
  ASSUME RegInv, NEW p \in Procs, Run(p)
  PROVE  \A q \in Procs : pc'[q] \in Dead \/ pc[q] \notin Dead \/ pc'[q] = pc[q]
  <1>1. DOMAIN pc = Procs
    BY DEF RegInv, ProcState
  <1>2. pc[p] \notin Dead
    BY DEF Run, Bind, Start, Wait, Exists, Create, Listen, Dead
  <1>3. Exit(p) \/ \E x : pc' = [pc EXCEPT ![p] = x]
    BY DEF Run, Bind, Start, Wait, Exists, Create, Listen, Done
  <1> QED
    BY <1>1, <1>2, <1>3, ExitsConfigured

(***************************************************************************)
(* Whatever the configuration file looks like, what a running process      *)
(* reads for a key is what the command line gives, or what the first line  *)
(* of the file that assigns the key says.                                  *)
(***************************************************************************)
THEOREM ConfigMeansFileCorrect == Spec => []ConfigMeansFile
  <1>1. Init => ConfigInv
    BY DEF Init, ConfigInv, Configured, Dead
  <1>2. RegInv /\ ConfigInv /\ [Next]_vars => ConfigInv'
    <2> SUFFICES ASSUME RegInv, ConfigInv, [Next]_vars PROVE ConfigInv'
      OBVIOUS
    <2>1. ASSUME NEW p \in Procs, Launch(p) PROVE ConfigInv'
      BY <2>1, LaunchConfigures
    <2>2. ASSUME NEW p \in Procs, Run(p) PROVE ConfigInv'
      <3>1. argv' = argv /\ config' = config
        BY <2>2 DEF Run, Bind, Start, Wait, Exists, Create, Listen, mainVars
      <3> QED
        BY <2>2, <3>1, RunConfigured, StepConfigures
    <2>3. ASSUME NEW p \in Procs, CreateUnheard(p) \/ Killed(p) PROVE ConfigInv'
      <3>1. argv' = argv /\ config' = config /\ Exit(p)
        BY <2>3 DEF CreateUnheard, Killed, mainVars
      <3> QED
        BY <3>1, ExitsConfigured, StepConfigures
    <2>4. ASSUME NEW p \in Procs, Link(p) \/ LoseLink(p) \/ Expire(p) PROVE ConfigInv'
      <3>1. argv' = argv /\ config' = config /\ pc' = pc
        BY <2>4 DEF Link, LoseLink, Expire, mainVars
      <3> QED
        BY <3>1, StepConfigures
    <2>5. ASSUME NEW p \in Procs, SessionEvent(p) PROVE ConfigInv'
      <3>1. argv' = argv /\ config' = config
        BY <2>5 DEF SessionEvent, mainVars
      <3>2. DOMAIN pc = Procs
        BY DEF RegInv, ProcState
      <3>3. Exit(p) \/ pc' = [pc EXCEPT ![p] = IF @ = "sleep" THEN "check" ELSE @]
        BY <2>5 DEF SessionEvent
      <3>4. \A q \in Procs : pc'[q] \in Dead \/ pc[q] \notin Dead \/ pc'[q] = pc[q]
        <4>1. CASE Exit(p)
          BY <4>1, ExitsConfigured
        <4>2. CASE pc' = [pc EXCEPT ![p] = IF @ = "sleep" THEN "check" ELSE @]
          BY <3>2, <4>2 DEF Dead
        <4> QED
          BY <3>3, <4>1, <4>2
      <3> QED
        BY <3>1, <3>4, StepConfigures
    <2>6. CASE UNCHANGED vars
      <3>1. argv' = argv /\ config' = config /\ pc' = pc
        BY <2>6 DEF vars, mainVars
      <3> QED
        BY <3>1, StepConfigures
    <2> QED
      BY <2>1, <2>2, <2>3, <2>4, <2>5, <2>6 DEF Next
  <1>3. ConfigInv => ConfigMeansFile
    <2> SUFFICES ASSUME ConfigInv, NEW p \in Procs, pc[p] \notin Dead, NEW key \in Keys
                 PROVE  LET value == Load(config[p], <<key>>)
                        IN  IF Given(argv[p], key) # << >> THEN value = Given(argv[p], key)
                            ELSE Means(value, Files[Option(argv[p], "i")], key)
      BY DEF ConfigMeansFile, Keys
    <2>1. ~InitExits(argv[p]) /\ config[p] = ApplicationInit(argv[p])
      BY DEF ConfigInv, Configured
    <2> QED
      BY <2>1, InitMeans
  <1> QED
    BY RegInductive, <1>1, <1>2, <1>3, PTL DEF Spec
=============================================================================
