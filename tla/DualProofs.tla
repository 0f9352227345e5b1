----------------------------- MODULE DualProofs -----------------------------
(***************************************************************************)
(* Proofs about one router's DUAL, for every set of neighbors, every       *)
(* metric range, topology of costs and interfaces, and every environment   *)
(* feature: the types, and the invariant that makes the single             *)
(* query_origin field sufficient and every Passive successor feasible.     *)
(***************************************************************************)
EXTENDS Dual, FiniteSetTheorems, WellFoundedInduction, TLAPS

-----------------------------------------------------------------------------
(* Metrics and route selection                                             *)

\* The composite distance of a path, clamped or cut off, fits its field.
LEMMA TotalMetricType ==
    ASSUME NEW o \in Owner, NEW rd \in Metric
    PROVE  TotalMetric(o, rd) \in Metric
<1>1. rd + Cost[o] \in Nat /\ Inf + 1 \in Nat \ {0}
  BY MetricAssumption DEF Metric
<1>2. (rd + Cost[o]) % (Inf + 1) \in 0 .. Inf
  BY <1>1, MetricAssumption
<1> QED
  BY <1>1, <1>2, MetricAssumption DEF TotalMetric, Narrow, Metric

\* The class preference returns some of the candidates.
LEMMA BestClassSome ==
    ASSUME NEW r, NEW S
    PROVE  /\ BestClass(r, S) \subseteq S
           /\ S # {} => BestClass(r, S) # {}
BY DEF BestClass

\* A nonempty set of candidate paths has a least-cost member, so that
\* eigrp_topology_route_select and _read return NULL only without candidates.
LEMMA LeastSome ==
    ASSUME NEW r \in Router, NEW S \in SUBSET Owner, S # {}
    PROVE  Least(r, S) # {}
<1> DEFINE T == {r.rt[o].cd : o \in S}
<1>1. T \subseteq Nat /\ T # {}
  BY MetricAssumption, SMTT(30) DEF Router, Route, Metric
<1>2. PICK d \in T : \A e \in T : ~ (<<e, d>> \in OpToRel(<, Nat))
  BY <1>1, WFMin, NatLessThanWellFounded
<1>3. ASSUME NEW e \in T
      PROVE  d <= e
  <2>1. <<e, d>> \in Nat \X Nat /\ e \in Nat /\ d \in Nat
    BY <1>1
  <2>2. e < d => <<e, d>> \in OpToRel(<, Nat)
    BY <2>1 DEF OpToRel
  <2>3. ~ (e < d)
    BY <1>2, <2>2, Zenon
  <2> QED
    BY <2>1, <2>3
<1>4. PICK o \in S : r.rt[o].cd = d
  OBVIOUS
<1> QED
  BY <1>3, <1>4 DEF Least

\* Both selections choose among their candidates, and fail only without any.
LEMMA SelectSome ==
    ASSUME NEW r \in Router
    PROVE  /\ RouteSelect(r) \subseteq Feasible(r)
           /\ RouteSelect(r) = {} => Feasible(r) = {}
           /\ RouteRead(r) \subseteq Reachable(r)
           /\ RouteRead(r) = {} => Reachable(r) = {}
<1>1. Feasible(r) \subseteq Owner /\ Reachable(r) \subseteq Owner
  BY DEF Feasible, Reachable
<1>2. Least(r, BestClass(r, Feasible(r))) \subseteq Feasible(r)
      /\ Least(r, BestClass(r, Reachable(r))) \subseteq Reachable(r)
  BY BestClassSome DEF Least
<1>3. Feasible(r) # {} => Least(r, BestClass(r, Feasible(r))) # {}
  BY <1>1, BestClassSome, LeastSome
<1>4. Reachable(r) # {} => Least(r, BestClass(r, Reachable(r))) # {}
  BY <1>1, BestClassSome, LeastSome
<1> QED
  BY <1>2, <1>3, <1>4 DEF RouteSelect, RouteRead

\* The distance of a selection is a metric, and infinite only if it is empty.
LEMMA DistanceOf ==
    ASSUME NEW r \in Router, NEW S \in SUBSET Reachable(r)
    PROVE  /\ Distance(r, S) \in Metric
           /\ S # {} => Distance(r, S) # Inf
<1>1. CASE S = {}
  BY <1>1, MetricAssumption DEF Distance, Metric
<1>2. CASE S # {}
  <2>1. (CHOOSE o \in S : TRUE) \in Reachable(r)
    BY <1>2
  <2> QED
    BY <2>1, <1>2 DEF Distance, Router, Route, Reachable
<1> QED
  BY <1>1, <1>2

\* What the selections read as a distance is a metric, and Inf only when empty.
LEMMA SelectionDistances ==
    ASSUME NEW r \in Router
    PROVE  /\ Distance(r, RouteSelect(r)) \in Metric
           /\ RouteSelect(r) # {} => Distance(r, RouteSelect(r)) # Inf
           /\ Distance(r, RouteRead(r)) \in Metric
           /\ Reachable(r) # {} => Distance(r, RouteRead(r)) # Inf
<1>1. Feasible(r) \subseteq Reachable(r)
  BY DEF Feasible
<1> QED
  BY <1>1, SelectSome, DistanceOf

-----------------------------------------------------------------------------
(* The invariant, as a predicate of the descriptor                         *)

Flagged(r) == r.succ \cap Nbr

\* SuccessorInv of a record, so that it can be followed through the operators.
Sound(r) ==
    /\ r.state \in Active => \A m, n \in Flagged(r) : m = n
    /\ r.origin # None => r.state \in {"a2", "a3"} /\ Flagged(r) \subseteq {r.origin}
    /\ r.state = "passive" => Flagged(r) \subseteq Feasible(r)
    /\ ~ r.known => /\ r.state = "passive" /\ r.succ = {}
                    /\ \A o \in Owner : ~ r.rt[o].has
    /\ Unknown(r) => Flagged(r) = {}

\* The descriptors agree on everything Sound looks at.
SameDual(r, s) ==
    /\ s.known = r.known /\ s.state = r.state /\ s.origin = r.origin
    /\ s.fd = r.fd /\ s.dist = r.dist /\ s.rm = r.rm
    /\ s.rt = r.rt /\ s.succ = r.succ

\* Operators that touch only queues, timers and adjacencies preserve Sound.
LEMMA SoundFrame ==
    ASSUME NEW r \in Router, NEW s \in Router, SameDual(r, s), Sound(r)
    PROVE  Sound(s)
BY DEF Sound, SameDual, Flagged, Unknown, Feasible, Reachable

\* A work item appended to the packetizer's queue changes nothing else.
LEMMA EnqueueFrame ==
    ASSUME NEW r \in Router, NEW w \in Work
    PROVE  Enqueue(r, w) \in Router /\ SameDual(r, Enqueue(r, w))
<1>1. Append(r.work, w) \in Seq(Work)
  BY DEF Router
<1> QED
  BY <1>1 DEF Enqueue, Router, SameDual

\* eigrp_packetizer_work_create makes a well-formed work item.
LEMMA ItemType ==
    ASSUME NEW op, NEW n, NEW F \in SUBSET Metric,
           \/ op \in {"query", "queryroute", "update"} /\ n = None
           \/ op \in {"reply", "siaquery", "siareply"} /\ n \in Nbr
    PROVE  Item(op, n, F) \in Work
BY DEF Item, Work

\* Queueing a REPLY changes nothing but the work queue.
LEMMA ReplyFrame ==
    ASSUME NEW r \in Router, NEW n \in Nbr, NEW m \in Metric
    PROVE  /\ ReplySend(r, n) \in Router /\ SameDual(r, ReplySend(r, n))
           /\ ReplySendRoute(r, n, m) \in Router /\ SameDual(r, ReplySendRoute(r, n, m))
<1>1. Item("reply", n, {}) \in Work /\ Item("reply", n, {m}) \in Work
  BY ItemType
<1> QED
  BY <1>1, EnqueueFrame DEF ReplySend, ReplySendRoute

\* Queueing the UPDATE bead changes nothing but the work queue.
LEMMA UpdateSendFrame ==
    ASSUME NEW r \in Router
    PROVE  UpdateSendAll(r) \in Router /\ SameDual(r, UpdateSendAll(r))
BY ItemType, EnqueueFrame DEF UpdateSendAll

\* The beads at the end of a handler change nothing but the work queue.
LEMMA SendAllFrame ==
    ASSUME NEW r \in Router
    PROVE  SendAll(r) \in Router /\ SameDual(r, SendAll(r))
<1>1. QuerySendAll(r) \in Router /\ SameDual(r, QuerySendAll(r))
  BY ItemType, EnqueueFrame DEF QuerySendAll, SameDual
<1> QED
  BY <1>1, UpdateSendFrame DEF SendAll, SameDual

\* Clearing or removing reply status leaves routes and distances alone.
LEMMA ReplyStatusFrame ==
    ASSUME NEW r \in Router, NEW n \in Owner, NEW S \in SUBSET Nbr
    PROVE  /\ ReplyStatusClear(r) \in Router /\ SameDual(r, ReplyStatusClear(r))
           /\ ReplyStatusRemove(r, n) \in Router /\ SameDual(r, ReplyStatusRemove(r, n))
           /\ ReplyStatusAdd(r, S) \in Router /\ SameDual(r, ReplyStatusAdd(r, S))
<1>0. NoStatus \in [q: 0 .. 3, resp: BOOLEAN]
  BY DEF NoStatus
<1>1. [k \in Nbr |-> NoStatus] \in [Nbr -> [q: 0 .. 3, resp: BOOLEAN]]
  BY <1>0
<1>2. ReplyStatusClear(r) \in Router /\ SameDual(r, ReplyStatusClear(r))
  BY <1>1 DEF ReplyStatusClear, Router, SameDual
<1>3. ReplyStatusRemove(r, n) \in Router /\ SameDual(r, ReplyStatusRemove(r, n))
  <2>1. [r.sia EXCEPT ![n] = NoStatus] \in [Nbr -> [q: 0 .. 3, resp: BOOLEAN]]
    BY <1>0 DEF Router
  <2> QED
    BY <2>1, ZenonT(60) DEF ReplyStatusRemove, Router, SameDual
<1>4. ReplyStatusAdd(r, S) \in Router /\ SameDual(r, ReplyStatusAdd(r, S))
  BY ZenonT(60) DEF ReplyStatusAdd, Router, SameDual
<1> QED
  BY <1>2, <1>3, <1>4

\* Giving paths to the host's routing table changes nothing that DUAL reads.
LEMMA RoutingTableFrame ==
    ASSUME NEW r \in Router, NEW o \in Owner
    PROVE  /\ UpdateRoutingTable(r) \in Router /\ SameDual(r, UpdateRoutingTable(r))
           /\ RouteDescriptorAdd(r, o) \in Router /\ SameDual(r, RouteDescriptorAdd(r, o))
<1>1. ASSUME NEW S \in SUBSET Owner
      PROVE  [r EXCEPT !.intable = S] \in Router /\ SameDual(r, [r EXCEPT !.intable = S])
  BY ZenonT(60) DEF Router, SameDual
<1>2. r.succ \in SUBSET Owner /\ r.intable \in SUBSET Owner
  BY DEF Router
<1>3. r.intable \cup {o} \in SUBSET Owner /\ r.intable \ {o} \in SUBSET Owner
  BY <1>2
<1>4. UpdateRoutingTable(r) \in Router /\ SameDual(r, UpdateRoutingTable(r))
  BY <1>1, <1>2 DEF UpdateRoutingTable
<1>5. RouteDescriptorAdd(r, o) \in Router /\ SameDual(r, RouteDescriptorAdd(r, o))
  BY <1>1, <1>3 DEF RouteDescriptorAdd
<1> QED
  BY <1>4, <1>5

-----------------------------------------------------------------------------
(* The handlers of the DUAL state machine                                  *)

\* The successors written by eigrp_update_node_flags are feasible.
LEMMA NodeFlags ==
    ASSUME NEW r \in Router
    PROVE  /\ UpdateNodeFlags(r) \in Router
           /\ UpdateNodeFlags(r) = [r EXCEPT !.succ = WithinVariance(r)]
           /\ WithinVariance(r) \subseteq Feasible(r)
<1>1. WithinVariance(r) \subseteq Feasible(r)
  BY BestClassSome DEF WithinVariance
<1>2. WithinVariance(r) \in SUBSET Owner
  BY <1>1 DEF Feasible, Reachable
<1> QED
  BY <1>1, <1>2, ZenonT(60) DEF UpdateNodeFlags, Router

\* Recomputing the flags of a Passive destination makes it sound.
LEMMA PassiveSound ==
    ASSUME NEW r \in Router, r.known, r.state = "passive", r.origin = None,
           Unknown(r) => Feasible(r) = {}
    PROVE  Sound(UpdateNodeFlags(r))
<1> DEFINE s == UpdateNodeFlags(r)
<1>1. s \in Router /\ s = [r EXCEPT !.succ = WithinVariance(r)]
      /\ WithinVariance(r) \subseteq Feasible(r)
  BY NodeFlags
<1>2. /\ s.known = r.known /\ s.state = r.state /\ s.origin = r.origin
      /\ s.fd = r.fd /\ s.dist = r.dist /\ s.rm = r.rm /\ s.rt = r.rt
      /\ s.succ = WithinVariance(r)
  BY <1>1, ZenonT(60) DEF Router
<1>3. Feasible(s) = Feasible(r) /\ (Unknown(s) => Unknown(r))
  BY <1>2 DEF Feasible, Reachable, Unknown
<1>4. s.known
  BY <1>2
<1> QED
  BY <1>1, <1>2, <1>3, <1>4 DEF Sound, Flagged, Active

\* The common end of the handlers that return to Passive.
LEMMA CommittedSound ==
    ASSUME NEW r \in Router, r.known,
           r.dist = Inf /\ r.fd = Inf /\ r.rm = Inf => Feasible(r) = {}
    PROVE  Committed(r) \in Router /\ Sound(Committed(r)) /\ Committed(r).known
<1> DEFINE c == ReplyStatusClear(r)
           s == [c EXCEPT !.state = "passive", !.origin = None,
                          !.timer = FALSE, !.need = r.need \cup {"update"}]
           f == UpdateNodeFlags(s)
           g == UpdateRoutingTable(f)
<1>1. c \in Router /\ SameDual(r, c)
  BY ReplyStatusFrame DEF Owner
<1>2. s \in Router
  BY <1>1, ZenonT(60) DEF Router
<1>3. /\ s.known = r.known /\ s.state = "passive" /\ s.origin = None
      /\ s.fd = r.fd /\ s.dist = r.dist /\ s.rm = r.rm /\ s.rt = r.rt
  BY <1>1 DEF Router, SameDual
<1>4. Feasible(s) = Feasible(r)
  BY <1>3 DEF Feasible, Reachable
<1>5. Unknown(s) => Feasible(s) = {}
  BY <1>3, <1>4 DEF Unknown
<1>6. Committed(r) = UpdateSendAll(g)
  BY DEF Committed
<1> HIDE DEF s
<1>7. f \in Router /\ Sound(f) /\ f.known
  <2>1. f \in Router /\ f = [s EXCEPT !.succ = WithinVariance(s)]
    BY <1>2, NodeFlags
  <2>2. f.known = s.known
    BY <1>2, <2>1 DEF Router
  <2> QED
    BY <1>2, <1>3, <1>5, <2>1, <2>2, PassiveSound
<1> HIDE DEF f
<1>8. g \in Router /\ SameDual(f, g) /\ Sound(g) /\ g.known
  <2>1. g \in Router /\ SameDual(f, g)
    BY <1>7, RoutingTableFrame DEF Owner
  <2>2. Sound(g)
    BY <1>7, <2>1, SoundFrame
  <2> QED
    BY <1>7, <2>1, <2>2 DEF SameDual
<1> HIDE DEF g
<1>9. UpdateSendAll(g) \in Router /\ SameDual(g, UpdateSendAll(g))
  BY <1>8, UpdateSendFrame
<1> QED
  BY <1>6, <1>8, <1>9, SoundFrame DEF SameDual

Good(r) == r \in Router /\ Sound(r) /\ r.known

\* LR (all REPLYs in, no feasibility condition): the best path is adopted.
LEMMA EventLrSound ==
    ASSUME NEW r \in Router, r.known
    PROVE  Good(EventLr(r))
<1> DEFINE d == Distance(r, RouteRead(r))
           set == [r EXCEPT !.fd = d, !.dist = d, !.rm = d]
           ans == IF r.state \in {"a2", "a3"} /\ r.origin # None
                  THEN ReplySend(set, r.origin) ELSE set
<1>1. d \in Metric /\ (Reachable(r) # {} => d # Inf)
  BY SelectionDistances
<1> HIDE DEF d
<1>2. /\ set \in Router /\ set.known = r.known
      /\ set.fd = d /\ set.dist = d /\ set.rm = d /\ set.rt = r.rt
  BY <1>1 DEF Router
<1>3. Reachable(r) = {} => Feasible(set) = {}
  BY <1>2 DEF Feasible, Reachable
<1> HIDE DEF set
<1>4. ans \in Router /\ SameDual(set, ans)
  <2>1. CASE r.state \in {"a2", "a3"} /\ r.origin # None
    <3>1. r.origin \in Nbr
      BY <2>1 DEF Router
    <3> QED
      BY <2>1, <3>1, <1>2, ReplyFrame, MetricAssumption DEF Metric
  <2>2. CASE ~ (r.state \in {"a2", "a3"} /\ r.origin # None)
    BY <2>2, <1>2 DEF SameDual
  <2> QED
    BY <2>1, <2>2
<1>5. EventLr(r) = Committed(ans)
  BY DEF EventLr, d, set
<1> HIDE DEF ans
<1>6. ans.known /\ (ans.dist = Inf /\ ans.fd = Inf /\ ans.rm = Inf => Feasible(ans) = {})
  <2>1. Feasible(ans) = Feasible(set)
    BY <1>4 DEF SameDual, Feasible, Reachable
  <2>2. ans.known
    BY <1>2, <1>4 DEF SameDual
  <2> QED
    BY <2>1, <2>2, <1>1, <1>2, <1>3, <1>4 DEF SameDual
<1> QED
  BY <1>4, <1>5, <1>6, CommittedSound DEF Good

\* LR_FCS (all REPLYs in, a feasible successor): the frozen feasible distance
\* is kept unless the new distance is smaller.
LEMMA EventLrFcsSound ==
    ASSUME NEW r \in Router, r.known, RouteSelect(r) # {}
    PROVE  Good(EventLrFcs(r))
<1> DEFINE d == Distance(r, RouteSelect(r))
           set == [r EXCEPT !.dist = d, !.rm = d, !.fd = IF r.fd > d THEN d ELSE r.fd]
           ans == IF r.state = "a2" /\ r.origin # None
                  THEN ReplySend(set, r.origin) ELSE set
<1>1. d \in Metric /\ d # Inf
  BY SelectionDistances
<1> HIDE DEF d
<1>2. set \in Router /\ set.known = r.known /\ set.dist = d
  BY <1>1, ZenonT(60) DEF Router
<1> HIDE DEF set
<1>3. ans \in Router /\ SameDual(set, ans)
  <2>1. CASE r.state = "a2" /\ r.origin # None
    <3>1. r.origin \in Nbr
      BY <2>1 DEF Router
    <3> QED
      BY <2>1, <3>1, <1>2, ReplyFrame, MetricAssumption DEF Metric
  <2>2. CASE ~ (r.state = "a2" /\ r.origin # None)
    BY <2>2, <1>2 DEF SameDual
  <2> QED
    BY <2>1, <2>2
<1>4. EventLrFcs(r) = Committed(ans)
  BY DEF EventLrFcs, d, set
<1> HIDE DEF ans
<1>5. ans.known /\ ans.dist # Inf
  BY <1>1, <1>2, <1>3 DEF SameDual
<1> QED
  BY <1>3, <1>4, <1>5, CommittedSound DEF Good

\* A diffusing computation starts with one successor at most, the origin of
\* the deferred QUERY if there is one; without a neighbor it ends at once.
LEMMA StartQuerySound ==
    ASSUME NEW r \in Router, NEW state \in {"a1", "a3"}, r.known,
           \A m, n \in Flagged(r) : m = n,
           r.origin # None => state = "a3" /\ Flagged(r) \subseteq {r.origin}
    PROVE  Good(StartQuery(r, state))
<1> DEFINE c == ReplyStatusClear(r)
           active == [c EXCEPT !.state = state, !.timer = FALSE]
           q == [active EXCEPT !.need = r.need \cup {"query"}]
<1>1. c \in Router /\ SameDual(r, c)
  BY ReplyStatusFrame DEF Owner
<1>2. /\ active \in Router /\ active.known = r.known /\ active.state = state
      /\ active.origin = r.origin /\ active.succ = r.succ
  BY <1>1, ZenonT(60) DEF Router, SameDual, Active
<1>3. active.known
  BY <1>2
<1>4. CASE UpNbrs(r) # {}
  <2>1. StartQuery(r, state) = q
    BY <1>4 DEF StartQuery
  <2> HIDE DEF active
  <2>2. q \in Router /\ SameDual(active, q)
    BY <1>2 DEF Router, SameDual
  <2>3. Sound(active)
    BY <1>2, <1>3 DEF Sound, Flagged, Unknown
  <2>4. q.known
    BY <1>3, <2>2 DEF SameDual
  <2> QED
    BY <1>2, <2>1, <2>2, <2>3, <2>4, SoundFrame DEF Good
<1>5. CASE UpNbrs(r) = {}
  <2>1. StartQuery(r, state) = EventLr(active)
    BY <1>5 DEF StartQuery
  <2> QED
    BY <2>1, <1>2, <1>3, EventLrSound
<1> QED
  BY <1>4, <1>5

\* What is left of Sound once the advertisement of n has been written into its
\* route and before the event it causes is handled.
Open(r, n) ==
    /\ r \in Router /\ r.known
    /\ r.state \in Active => \A k, m \in Flagged(r) : k = m
    /\ r.origin # None => r.state \in {"a2", "a3"} /\ Flagged(r) \subseteq {r.origin}
    /\ r.state = "passive" => Flagged(r) \ {n} \subseteq Feasible(r)

\* An open Active record meets the successor invariant.
LEMMA OpenActiveSound ==
    ASSUME NEW r, NEW n, Open(r, n), r.state \in Active
    PROVE  Good(r)
BY DEF Open, Good, Sound, Active, Unknown

\* KEEP_STATE: a Passive destination follows its best path without raising the
\* feasible distance; an Active one only answers.
LEMMA EventKeepStateSound ==
    ASSUME NEW r, NEW op, NEW n \in Owner, Open(r, n), op = "query" => n \in Nbr
    PROVE  Good(EventKeepState(r, op, n))
<1> DEFINE best == IF RouteSelect(r) # {} THEN RouteSelect(r) ELSE RouteRead(r)
           d == Distance(r, best)
           set == IF r.rm = d THEN r
                  ELSE [r EXCEPT !.dist = d, !.fd = IF d < r.fd THEN d ELSE r.fd,
                                 !.rm = d, !.need = r.need \cup {"update"}]
           f == UpdateNodeFlags(set)
           kept == UpdateRoutingTable(f)
<1>0. r \in Router /\ r.known
  BY DEF Open
<1>1. CASE r.state = "passive"
  <2>1. d \in Metric /\ (Reachable(r) # {} => d # Inf)
    BY <1>0, SelectionDistances
  <2> HIDE DEF d
  <2>2. /\ set \in Router /\ set.known = r.known /\ set.rm = d /\ set.rt = r.rt
        /\ set.state = r.state /\ set.origin = r.origin
    BY <1>0, <2>1, ZenonT(60) DEF Router
  <2> HIDE DEF set
  <2>3. set.known /\ set.state = "passive" /\ set.origin = None
    BY <1>0, <1>1, <2>2 DEF Open
  <2>4. Unknown(set) => Feasible(set) = {}
    BY <2>1, <2>2, <2>3 DEF Unknown, Feasible, Reachable
  <2>5. f \in Router /\ Sound(f) /\ f.known
    <3>1. f \in Router /\ f = [set EXCEPT !.succ = WithinVariance(set)]
      BY <2>2, NodeFlags
    <3>2. f.known = set.known
      BY <2>2, <3>1 DEF Router
    <3> QED
      BY <2>2, <2>3, <2>4, <3>1, <3>2, PassiveSound
  <2>6. EventKeepState(r, op, n) = IF op = "query" THEN ReplySend(kept, n) ELSE kept
    BY <1>1 DEF EventKeepState, set, d
  <2> HIDE DEF f
  <2>9. kept \in Router /\ Sound(kept) /\ kept.known
    <3>1. kept \in Router /\ SameDual(f, kept)
      BY <2>5, RoutingTableFrame
    <3>2. Sound(kept)
      BY <2>5, <3>1, SoundFrame
    <3> QED
      BY <2>5, <3>1, <3>2 DEF SameDual
  <2> HIDE DEF kept
  <2>7. CASE op = "query"
    <3>1. ReplySend(kept, n) \in Router /\ SameDual(kept, ReplySend(kept, n))
      BY <2>7, <2>9, ReplyFrame, MetricAssumption DEF Metric
    <3>2. ReplySend(kept, n).known
      BY <2>9, <3>1 DEF SameDual
    <3> QED
      BY <2>6, <2>7, <2>9, <3>1, <3>2, SoundFrame, SMTT(30) DEF Good
  <2>8. CASE op # "query"
    BY <2>6, <2>8, <2>9 DEF Good
  <2> QED
    BY <2>7, <2>8
<1>2. CASE r.state # "passive"
  <2>1. r.state \in Active
    BY <1>0, <1>2 DEF Router
  <2>2. Good(r)
    BY <2>1, OpenActiveSound
  <2>3. CASE op = "query" /\ n \notin r.succ
    <3> DEFINE m == IF r.intable \cap Reachable(r) # {} THEN r.rm ELSE Inf
               s == ReplySendRoute(r, n, m)
    <3>1. m \in Metric
      BY <1>0, MetricAssumption DEF Router, Metric
    <3> HIDE DEF m
    <3>2. s \in Router /\ SameDual(r, s)
      BY <1>0, <2>3, <3>1, ReplyFrame
    <3>3. EventKeepState(r, op, n) = s
      BY <1>2, <2>3 DEF EventKeepState, ActiveNonSuccessorReplySend, m
    <3>4. s.known
      BY <1>0, <3>2 DEF SameDual
    <3> QED
      BY <2>2, <3>2, <3>3, <3>4, SoundFrame DEF Good
  <2>4. CASE ~ (op = "query" /\ n \notin r.succ)
    BY <1>2, <2>2, <2>4 DEF EventKeepState
  <2> QED
    BY <2>3, <2>4
<1> QED
  BY <1>1, <1>2

\* DINC: the successor raised its metric while Active.
LEMMA EventDincSound ==
    ASSUME NEW r, NEW n, Open(r, n), r.state \in {"a1", "a3"}
    PROVE  Good(EventDinc(r))
<1> DEFINE s == EventDinc(r)
<1>1. /\ s \in Router /\ s.known = r.known /\ s.origin = r.origin /\ s.succ = r.succ
      /\ s.state = IF r.state = "a1" THEN "a0" ELSE "a2"
  BY ZenonT(60) DEF EventDinc, Router, Open, Active
<1>2. s.known
  BY <1>1 DEF Open
<1> HIDE DEF s
<1>3. Sound(s)
  BY <1>1, <1>2 DEF Sound, Open, Flagged, Unknown, Active
<1> QED
  BY <1>1, <1>2, <1>3 DEF Good, s

\* QACT: the QUERY of the successor is deferred; it is the only successor.
LEMMA EventQactSound ==
    ASSUME NEW r, NEW n \in Nbr, Open(r, n), r.state \in Active, n \in r.succ
    PROVE  Good(EventQact(r, n))
<1> DEFINE s == EventQact(r, n)
<1>1. /\ s \in Router /\ s.known = r.known /\ s.origin = n /\ s.succ = r.succ
      /\ s.state = "a2"
  BY ZenonT(60) DEF EventQact, Router, Open, Active
<1>2. s.known
  BY <1>1 DEF Open
<1> HIDE DEF s
<1>3. Sound(s)
  BY <1>1, <1>2 DEF Sound, Open, Flagged, Unknown, Active
<1> QED
  BY <1>1, <1>2, <1>3 DEF Good, s

\* Without a feasible path only the neighbor whose advertisement is being
\* handled can still be flagged: the step from Passive to Active leaves at
\* most one successor.
LEMMA LastSuccessor ==
    ASSUME NEW r, NEW n, Open(r, n), r.state = "passive", RouteSelect(r) = {}
    PROVE  Flagged(r) \subseteq {n} /\ r.origin = None
<1>1. Feasible(r) = {}
  BY SelectSome DEF Open
<1> QED
  BY <1>1 DEF Open

\* Every event the classifier can return is handled soundly.
LEMMA NSMSound ==
    ASSUME NEW r, NEW op, NEW n \in Owner, NEW change, Open(r, n),
           op = "query" => n \in Nbr
    PROVE  Good(NSM(r, EventSelect(r, op, n, change), op, n))
<1> DEFINE e == EventSelect(r, op, n, change)
<1>0. r \in Router /\ r.known /\ (r.state = "passive" \/ r.state \in Active)
  BY DEF Open, Router
<1>1. /\ e \in {"keep", "q_fcn", "nq_fcn", "qact", "lr", "lr_fcs", "lr_fcn", "dinc"}
      /\ e = "q_fcn" => r.state = "passive" /\ RouteSelect(r) = {} /\ op = "query"
      /\ e = "nq_fcn" => r.state = "passive" /\ RouteSelect(r) = {}
      /\ e = "qact" => r.state \in Active /\ op = "query" /\ n \in r.succ
      /\ e = "lr_fcs" => RouteSelect(r) # {}
      /\ e = "lr_fcn" => r.state \in Active /\ r.state \notin {"a1", "a3"}
      /\ e = "dinc" => r.state \in {"a1", "a3"}
  BY <1>0 DEF EventSelect, Active
<1> SUFFICES Good(NSM(r, e, op, n))
  OBVIOUS
<1> HIDE DEF e
<1>2. CASE e = "keep"
  BY <1>2, EventKeepStateSound DEF NSM
<1>3. CASE e = "nq_fcn"
  <2>1. Flagged(r) \subseteq {n} /\ r.origin = None
    BY <1>1, <1>3, LastSuccessor
  <2> QED
    BY <1>0, <1>3, <2>1, StartQuerySound DEF NSM, EventNqFcn
<1>4. CASE e = "q_fcn"
  <2> DEFINE s == [r EXCEPT !.origin = n]
  <2>1. Flagged(r) \subseteq {n} /\ n \in Nbr
    BY <1>1, <1>4, LastSuccessor
  <2>2. s \in Router /\ s.known = r.known /\ s.succ = r.succ /\ s.origin = n
    BY <1>0, <2>1, ZenonT(60) DEF Router
  <2>3. s.known /\ Flagged(s) \subseteq {n}
    BY <1>0, <2>1, <2>2 DEF Flagged
  <2>4. NSM(r, e, op, n) = StartQuery(s, "a3")
    BY <1>4 DEF NSM, EventQFcn
  <2> HIDE DEF s
  <2> QED
    BY <2>2, <2>3, <2>4, StartQuerySound, SMTT(30)
<1>5. CASE e = "qact"
  BY <1>1, <1>5, EventQactSound DEF NSM
<1>6. CASE e = "lr"
  BY <1>0, <1>6, EventLrSound DEF NSM
<1>7. CASE e = "lr_fcs"
  BY <1>0, <1>1, <1>7, EventLrFcsSound DEF NSM
<1>8. CASE e = "lr_fcn"
  <2>1. /\ \A k, m \in Flagged(r) : k = m
        /\ r.origin # None => r.state = "a2" /\ Flagged(r) \subseteq {r.origin}
    BY <1>1, <1>8 DEF Open
  <2> QED
    BY <1>0, <1>8, <2>1, StartQuerySound, SMTT(30) DEF NSM, EventLrFcn
<1>9. CASE e = "dinc"
  BY <1>1, <1>9, EventDincSound DEF NSM
<1> QED
  BY <1>1, <1>2, <1>3, <1>4, <1>5, <1>6, <1>7, <1>8, <1>9, SMTT(30)

\* eigrp_fsm_event_select and NSM together preserve the successor invariant.
LEMMA DispatchSound ==
    ASSUME NEW r, NEW op, NEW n \in Owner, NEW change, Open(r, n),
           op = "query" => n \in Nbr
    PROVE  Good(Dispatch(r, op, n, change))
<1> DEFINE s == IF op = "reply" /\ r.state \in Active THEN ReplyStatusRemove(r, n) ELSE r
<1>1. s \in Router /\ SameDual(r, s)
  BY ReplyStatusFrame, ZenonT(60) DEF Open, SameDual
<1>2. s.known
  BY <1>1 DEF Open, SameDual
<1>3. Dispatch(r, op, n, change) = NSM(s, EventSelect(s, op, n, change), op, n)
  BY DEF Dispatch
<1> HIDE DEF s
<1>4. Open(s, n)
  BY <1>1, <1>2, SMTT(30) DEF Open, SameDual, Flagged, Feasible, Reachable
<1> QED
  BY <1>3, <1>4, NSMSound

\* Writing n's advertisement leaves the other routes as they were.
LEMMA UpdateDistanceOpen ==
    ASSUME NEW r, Good(r), NEW n \in Owner, NEW rd \in Metric, NEW ext \in BOOLEAN
    PROVE  Open(UpdateDistance(r, n, rd, ext), n)
<1> DEFINE new == [has |-> TRUE, rd |-> rd, cd |-> TotalMetric(n, rd), ext |-> ext]
           t == [r.rt EXCEPT ![n] = new]
           s == UpdateDistance(r, n, rd, ext)
<1>1. new \in Route
  BY TotalMetricType DEF Route
<1> HIDE DEF new
<1>2. t \in [Owner -> Route] /\ \A o \in Owner \ {n} : t[o] = r.rt[o]
  BY <1>1 DEF Good, Router
<1>3. s = [r EXCEPT !.rt = t]
  BY DEF UpdateDistance, new, Good, Router
<1> HIDE DEF t
<1>4. /\ s \in Router /\ s.known = r.known /\ s.state = r.state /\ s.origin = r.origin
      /\ s.fd = r.fd /\ s.succ = r.succ /\ s.rt = t
  BY <1>2, <1>3, ZenonT(60) DEF Good, Router
<1> HIDE DEF s
<1>5. s.known
  BY <1>4 DEF Good
<1>6. \A o \in Owner \ {n} : s.rt[o] = r.rt[o]
  BY <1>2, <1>4
<1>7. Feasible(r) \ {n} \subseteq Feasible(s)
  BY <1>4, <1>6 DEF Feasible, Reachable
<1> QED
  BY <1>4, <1>5, <1>7 DEF Open, Good, Sound, Flagged, s

\* eigrp_fsm_event: the advertisement is recorded and its event handled.
LEMMA FsmEventSound ==
    ASSUME NEW r, Good(r), NEW op, NEW n \in Owner, NEW rd \in Metric, NEW ext \in BOOLEAN,
           op = "query" => n \in Nbr
    PROVE  Good(FsmEvent(r, op, n, rd, ext))
BY UpdateDistanceOpen, DispatchSound DEF FsmEvent

\* A neighbor that owes a REPLY and has no route is lost: the computation goes
\* on without it, or ends.
LEMMA FsmNeighborDownSound ==
    ASSUME NEW r \in Router, Sound(r), NEW n \in Nbr
    PROVE  FsmNeighborDown(r, n) \in Router /\ Sound(FsmNeighborDown(r, n))
<1> DEFINE s == ReplyStatusRemove(r, n)
<1>1. s \in Router /\ SameDual(r, s)
  BY ReplyStatusFrame DEF Owner
<1> HIDE DEF s
<1>2. Sound(s)
  BY <1>1, SoundFrame, SMTT(30)
<1>3. CASE r.state = "passive" \/ n \notin r.rij \/ s.rij # {}
  BY <1>1, <1>2, <1>3 DEF FsmNeighborDown, s
<1>4. CASE ~ (r.state = "passive" \/ n \notin r.rij \/ s.rij # {})
  <2>1. s.state \in Active /\ s.known
    BY <1>1, <1>2, <1>4 DEF Router, SameDual, Sound
  <2>2. Good(EventLr(s)) /\ (RouteSelect(s) # {} => Good(EventLrFcs(s)))
    BY <1>1, <2>1, EventLrSound, EventLrFcsSound
  <2>3. s.state \notin {"a1", "a3"} => Good(EventLrFcn(s))
    <3>1. /\ \A k, m \in Flagged(s) : k = m
          /\ s.origin # None => s.state \in {"a2", "a3"} /\ Flagged(s) \subseteq {s.origin}
      BY <1>2, <2>1, SMTT(30) DEF Sound
    <3> QED
      BY <1>1, <2>1, <3>1, StartQuerySound, SMTT(30) DEF EventLrFcn
  <2>4. FsmNeighborDown(r, n) =
            IF s.state \in {"a1", "a3"} THEN EventLr(s)
            ELSE IF RouteSelect(s) # {} THEN EventLrFcs(s) ELSE EventLrFcn(s)
    BY <1>1, <1>4 DEF FsmNeighborDown, SameDual, s
  <2> QED
    BY <2>2, <2>3, <2>4, SMTT(30) DEF Good
<1> QED
  BY <1>3, <1>4

\* The end of the QUERY fan-out starts the timer or, with nobody asked, ends
\* the computation.
LEMMA QuerySentSound ==
    ASSUME NEW r \in Router, Sound(r)
    PROVE  QuerySent(r) \in Router /\ Sound(QuerySent(r))
<1>1. CASE r.state = "passive"
  BY <1>1 DEF QuerySent
<1>2. CASE r.state # "passive" /\ r.rij # {}
  <2> DEFINE s == [r EXCEPT !.timer = ActiveTime]
  <2>1. s \in Router /\ SameDual(r, s)
    BY ConfigAssumption, ZenonT(60) DEF Router, SameDual
  <2>2. QuerySent(r) = s
    BY <1>2 DEF QuerySent
  <2> QED
    BY <2>1, <2>2, SoundFrame
<1>3. CASE r.state # "passive" /\ r.rij = {}
  BY <1>3, EventLrSound DEF QuerySent, Good, Sound
<1> QED
  BY <1>1, <1>2, <1>3

-----------------------------------------------------------------------------
(* The topology table, neighbors and received packets                      *)

\* Work that outlives its descriptor is still well formed.
LEMMA WorkMap ==
    ASSUME NEW W \in Seq(Work), NEW f \in [Work -> Work]
    PROVE  [i \in DOMAIN W |-> f[W[i]]] \in Seq(Work)
<1>1. \A i \in 1 .. Len(W) : W[i] \in Work
  OBVIOUS
<1> QED
  BY <1>1

\* The metrics the packetizer may encode are metrics.
LEMMA LateMetricsType ==
    ASSUME NEW r \in Router, NEW w
    PROVE  LateMetrics(r, w) \in SUBSET Metric
<1>1. RouteRead(r) \subseteq Owner
  BY SelectSome DEF Reachable
<1> QED
  BY <1>1, MetricAssumption, SMTT(30) DEF LateMetrics, Router, Route, Metric

\* A detached descriptor is blank, and so sound.
LEMMA DetachSound ==
    ASSUME NEW r \in Router
    PROVE  /\ Detach(r) \in Router /\ Sound(Detach(r))
           /\ Detach(r).succ = {} /\ Detach(r).state = "passive"
           /\ Detach(r).origin = None
<1> DEFINE c == ReplyStatusClear(r)
           g == [w \in Work |->
                    IF w.fixed # {} \/ w.op \in {"query", "update"} THEN w
                    ELSE [w EXCEPT !.fixed = IF w.op = "queryroute" THEN {Inf}
                                             ELSE LateMetrics(r, w)]]
           wk == [i \in DOMAIN r.work |-> g[r.work[i]]]
           rts == [o \in Owner |-> NoRoute]
           s == [c EXCEPT !.known = FALSE, !.nt = "remote", !.state = "passive",
                          !.fd = Inf, !.dist = Inf, !.rm = Inf, !.origin = None,
                          !.need = {}, !.timer = FALSE, !.rt = rts, !.succ = {},
                          !.intable = {}, !.work = wk]
<1>1. g \in [Work -> Work]
  <2> SUFFICES ASSUME NEW w \in Work
               PROVE  g[w] \in Work
    OBVIOUS
  <2>1. LateMetrics(r, w) \in SUBSET Metric /\ {Inf} \in SUBSET Metric
    BY LateMetricsType, MetricAssumption DEF Metric
  <2> QED
    BY <2>1 DEF Work
<1>2. wk \in Seq(Work)
  <2> HIDE DEF g
  <2> QED
    BY <1>1, WorkMap DEF Router
<1>3. NoRoute \in Route /\ ~ NoRoute.has
  BY MetricAssumption DEF NoRoute, Route, Metric
<1>4. rts \in [Owner -> Route] /\ \A o \in Owner : ~ rts[o].has
  BY <1>3
<1>5. Detach(r) = s
  <2>1. \A i \in DOMAIN r.work : r.work[i] \in Work
    BY DEF Router
  <2> QED
    BY <2>1 DEF Detach
<1>6. c \in Router
  BY ReplyStatusFrame DEF Owner
<1> HIDE DEF wk, rts, c
<1>7. /\ s \in Router /\ s.known = FALSE /\ s.state = "passive" /\ s.succ = {}
      /\ s.origin = None /\ s.rt = rts
  <2>1. Inf \in Metric
    BY MetricAssumption DEF Metric
  <2>2. s \in Router
    BY <1>2, <1>4, <1>6, <2>1, ZenonT(60) DEF Router
  <2>3. s.known = FALSE /\ s.state = "passive" /\ s.succ = {}
    BY <1>6 DEF Router
  <2>4. s.origin = None /\ s.rt = rts
    BY <1>6 DEF Router
  <2> QED
    BY <2>2, <2>3, <2>4
<1> HIDE DEF s
<1>8. Sound(s)
  BY <1>4, <1>7 DEF Sound, Flagged, Active
<1> QED
  BY <1>5, <1>7, <1>8

OK(r) == r \in Router /\ Sound(r)

\* A step that leaves DUAL's part of the record alone preserves OK.
LEMMA FrameOK ==
    ASSUME NEW r, NEW s, OK(r), s \in Router, SameDual(r, s)
    PROVE  OK(s)
BY SoundFrame DEF OK

\* The beads at the end of a handler preserve OK.
LEMMA SendAllOK ==
    ASSUME NEW r, OK(r)
    PROVE  OK(SendAll(r)) /\ OK(UpdateSendAll(r))
BY SendAllFrame, UpdateSendFrame, FrameOK, SMTT(30) DEF OK

\* A sound record in the table is OK.
LEMMA GoodOK ==
    ASSUME NEW r
    PROVE  /\ Good(r) => OK(r)
           /\ OK(r) /\ r.known => Good(r)
           /\ OK(r) /\ (\E o \in Owner : r.rt[o].has) => Good(r)
           /\ OK(r) /\ r.state # "passive" => Good(r)
BY DEF Good, OK, Sound

\* eigrp_update_topology_table_prefix frees only paths that are not feasible.
LEMMA RetireOK ==
    ASSUME NEW r, OK(r), r.state = "passive"
    PROVE  OK(Retire(r))
<1> DEFINE t == [o \in Owner |-> IF r.rt[o].cd = Inf THEN NoRoute ELSE r.rt[o]]
           s == [r EXCEPT !.rt = t, !.succ = r.succ \cap Reachable(r),
                          !.intable = r.intable \cap Reachable(r)]
<1>1. NoRoute \in Route /\ ~ NoRoute.has /\ NoRoute.cd = Inf
  BY MetricAssumption DEF NoRoute, Route, Metric
<1>2. /\ t \in [Owner -> Route]
      /\ \A o \in Owner : r.rt[o].cd # Inf => t[o] = r.rt[o]
      /\ \A o \in Owner : ~ r.rt[o].has => ~ t[o].has
  BY <1>1 DEF OK, Router
<1> HIDE DEF t
<1>3. /\ s \in Router /\ s.known = r.known /\ s.state = r.state /\ s.origin = r.origin
      /\ s.fd = r.fd /\ s.dist = r.dist /\ s.rm = r.rm /\ s.rt = t
      /\ s.succ = r.succ \cap Reachable(r)
  BY <1>2, ZenonT(60) DEF OK, Router
<1>4. Retire(r) = IF r.rij = {} /\ r.origin = None /\ Reachable(r) = {}
                  THEN Detach(s) ELSE s
  BY SMTT(30) DEF Retire, t
<1> HIDE DEF s
<1>5. Feasible(r) \subseteq Feasible(s)
  BY <1>2, <1>3, SMTT(30) DEF Feasible, Reachable
<1>6. Sound(s)
  <2>1. Flagged(s) \subseteq Flagged(r)
    BY <1>3 DEF Flagged
  <2>2. Unknown(s) <=> Unknown(r)
    BY <1>3 DEF Unknown
  <2> QED
    BY <1>2, <1>3, <1>5, <2>1, <2>2, SMTT(30) DEF OK, Sound, Active
<1> QED
  BY <1>3, <1>4, <1>6, DetachSound, SMTT(30) DEF OK

\* The first UPDATE for a destination creates its descriptor.
LEMMA NewPrefixOK ==
    ASSUME NEW r, OK(r), ~ r.known, NEW n \in Nbr, NEW rd \in Metric, NEW ext \in BOOLEAN
    PROVE  OK(NewPrefix(r, n, rd, ext))
<1> DEFINE new == [has |-> TRUE, rd |-> rd, cd |-> TotalMetric(n, rd), ext |-> ext]
           t == [r.rt EXCEPT ![n] = new]
           s == UpdateDistance(r, n, rd, ext)
           d == s.rt[n].cd
           p == [s EXCEPT !.known = TRUE, !.fd = d, !.dist = d, !.rm = d,
                          !.need = {"update"}]
           q == RouteDescriptorAdd(p, n)
<1>0. n \in Owner /\ r \in Router
  BY DEF Owner, OK
<1>1. new \in Route
  BY <1>0, TotalMetricType, SMTT(30) DEF Route
<1> HIDE DEF new
<1>2. t \in [Owner -> Route] /\ t[n] = new /\ \A o \in Owner \ {n} : ~ t[o].has
  BY <1>0, <1>1 DEF OK, Router, Sound
<1>3. s = [r EXCEPT !.rt = t]
  BY <1>0 DEF UpdateDistance, new, Router
<1> HIDE DEF t
<1>4. /\ s \in Router /\ s.rt = t /\ s.state = "passive" /\ s.origin = None
  BY <1>0, <1>2, <1>3, ZenonT(60) DEF Router, OK, Sound
<1>5. d \in Metric /\ d = t[n].cd
  BY <1>1, <1>2, <1>4 DEF Route
<1> HIDE DEF s, d
<1>6. /\ p \in Router /\ p.known = TRUE /\ p.state = "passive" /\ p.origin = None
      /\ p.fd = d /\ p.rt = t
  <2>0. s \in Router /\ d \in Metric
    BY <1>4, <1>5
  <2>1. p \in Router
    BY <2>0 DEF Router
  <2>2. p.known = TRUE /\ p.state = "passive" /\ p.origin = None
    BY <1>4 DEF Router
  <2>3. p.fd = d /\ p.rt = t
    BY <1>4 DEF Router
  <2> QED
    BY <2>1, <2>2, <2>3
<1>7. NewPrefix(r, n, rd, ext) = UpdateNodeFlags(q)
  BY SMTT(30) DEF NewPrefix, p, d, s
<1> HIDE DEF p
<1>8. Unknown(p) => Feasible(p) = {}
  BY <1>2, <1>5, <1>6 DEF Unknown, Feasible, Reachable
<1>9. q \in Router /\ SameDual(p, q)
  BY <1>0, <1>6, RoutingTableFrame, SMTT(30)
<1> HIDE DEF q
<1>10. /\ q.known /\ q.state = "passive" /\ q.origin = None
       /\ Unknown(q) => Feasible(q) = {}
  BY <1>6, <1>8, <1>9 DEF SameDual, Unknown, Feasible, Reachable
<1> QED
  BY <1>7, <1>9, <1>10, NodeFlags, PassiveSound, SMTT(30) DEF OK

\* The connected path appears: the destination is created, or DUAL is told.
LEMMA IntfUpOK ==
    ASSUME NEW r, OK(r)
    PROVE  OK(IntfUp(r))
<1> DEFINE t == [r.rt EXCEPT ![Self] = LocalRoute]
           u == [r EXCEPT !.ifup = TRUE, !.rt = t, !.succ = r.succ \cup {Self}]
           s == RouteDescriptorAdd(u, Self)
           new == [s EXCEPT !.known = TRUE, !.nt = "connected", !.fd = Cost[Self],
                            !.rm = Cost[Self], !.need = {"update"}]
           c == IF r.nt = "connected" THEN "same" ELSE "decrease"
<1>0. Self \in Owner /\ r \in Router /\ Cost[Self] \in Metric
  BY MetricAssumption DEF Owner, OK, Metric
<1>1. LocalRoute \in Route
  BY <1>0, MetricAssumption DEF LocalRoute, Route, Metric
<1>2. t \in [Owner -> Route] /\ \A o \in Owner \ {Self} : t[o] = r.rt[o]
  BY <1>0, <1>1 DEF Router
<1>3. IntfUp(r) = UpdateSendAll(IF r.known THEN Dispatch(s, "update", Self, c) ELSE new)
  BY <1>0, SMTT(30) DEF IntfUp, Router
<1> HIDE DEF t, c
<1>4. /\ s \in Router /\ s.known = r.known /\ s.state = r.state /\ s.origin = r.origin
      /\ s.fd = r.fd /\ s.rt = t /\ s.succ = r.succ \cup {Self}
  <2>1. /\ u \in Router /\ u.known = r.known /\ u.state = r.state /\ u.origin = r.origin
        /\ u.fd = r.fd /\ u.rt = t /\ u.succ = r.succ \cup {Self}
    BY <1>0, <1>2, ZenonT(60) DEF Router
  <2> HIDE DEF u
  <2>2. s \in Router /\ SameDual(u, s)
    BY <1>0, <2>1, RoutingTableFrame, ZenonT(60)
  <2> QED
    BY <2>1, <2>2 DEF SameDual
<1> HIDE DEF s, u
<1>5. Flagged(s) = Flagged(r)
  BY <1>4, NbrAssumption DEF Flagged
<1>6. CASE r.known
  <2>1. Feasible(r) \ {Self} \subseteq Feasible(s)
    BY <1>2, <1>4 DEF Feasible, Reachable
  <2>2. s.known
    BY <1>4, <1>6, SMTT(30)
  <2>3. Open(s, Self)
    BY <1>4, <1>5, <2>1, <2>2, SMTT(30) DEF OK, Open, Sound
  <2>4. OK(Dispatch(s, "update", Self, c))
    BY <1>0, <2>3, DispatchSound, GoodOK
  <2> QED
    BY <1>3, <1>6, <2>4, SendAllOK, SMTT(30)
<1>7. CASE ~ r.known
  <2>1. s.state = "passive" /\ s.origin = None /\ Flagged(s) = {}
    BY <1>4, <1>5, <1>7, SMTT(30) DEF OK, Sound, Flagged
  <2>2. /\ new \in Router /\ new.known = TRUE /\ new.state = s.state
        /\ new.origin = s.origin /\ new.succ = s.succ
    BY <1>0, <1>4, ZenonT(60) DEF Router
  <2>3. Sound(new)
    BY <2>1, <2>2 DEF Sound, Flagged, Active
  <2> QED
    BY <1>3, <1>7, <2>2, <2>3, SendAllOK, SMTT(30) DEF OK
<1> QED
  BY <1>6, <1>7

\* The connected path disappears: DUAL hears that it is unreachable.
LEMMA ConnectedInterfaceDownOK ==
    ASSUME NEW r, OK(r)
    PROVE  OK(ConnectedInterfaceDown(r))
<1> DEFINE s == [r EXCEPT !.ifup = FALSE]
           e == FsmEvent(s, "update", Self, Inf, FALSE)
<1>0. Self \in Owner /\ Inf \in Metric
  BY MetricAssumption DEF Owner, Metric
<1>1. s \in Router /\ SameDual(r, s)
  BY DEF OK, Router, SameDual
<1>2. ConnectedInterfaceDown(r) = SendAll(IF r.rt[Self].has THEN e ELSE s)
  BY DEF ConnectedInterfaceDown
<1> HIDE DEF s
<1>3. OK(s)
  BY <1>1, FrameOK
<1>4. r.rt[Self].has => OK(e)
  BY <1>0, <1>1, <1>3, GoodOK, FsmEventSound DEF SameDual
<1> HIDE DEF e
<1> QED
  BY <1>2, <1>3, <1>4, SendAllOK

\* A lost neighbor is forgotten as query origin, and its path poisoned.
LEMMA NeighborDownOK ==
    ASSUME NEW r, OK(r), NEW n \in Nbr
    PROVE  OK(NeighborDown(r, n))
<1> DEFINE s == [r EXCEPT !.origin = IF r.origin = n THEN None ELSE r.origin]
           op == IF r.state = "passive" THEN "update" ELSE "reply"
           e == FsmEvent(s, op, n, Inf, r.rt[n].ext)
           d == FsmNeighborDown(s, n)
<1>1. n \in Owner /\ Inf \in Metric /\ r.rt[n].ext \in BOOLEAN
  BY MetricAssumption DEF OK, Router, Owner, Route, Metric
<1>2. /\ s \in Router /\ s.origin \in {None, r.origin}
      /\ s.known = r.known /\ s.state = r.state /\ s.fd = r.fd /\ s.dist = r.dist
      /\ s.rm = r.rm /\ s.rt = r.rt /\ s.succ = r.succ
  BY ZenonT(60) DEF OK, Router
<1>3. NeighborDown(r, n) = SendAll(IF r.rt[n].has THEN e ELSE d)
  BY DEF NeighborDown
<1> HIDE DEF s
<1>4. OK(s)
  BY <1>2, SMTT(30) DEF OK, Sound, Flagged, Feasible, Reachable, Unknown
<1>5. r.rt[n].has => OK(e)
  BY <1>1, <1>2, <1>4, GoodOK, FsmEventSound, SMTT(30)
<1>6. OK(d)
  BY <1>2, <1>4, FsmNeighborDownSound DEF OK
<1> HIDE DEF e, d
<1> QED
  BY <1>3, <1>5, <1>6, SendAllOK

\* clear topology leaves a blank, a connected, or a freshly queried descriptor.
LEMMA ClearPrefixOK ==
    ASSUME NEW r, OK(r), r.known
    PROVE  OK(ClearPrefix(r))
<1> DEFINE s == Detach(r)
<1>0. r \in Router
  BY DEF OK
<1>1. /\ s \in Router /\ Sound(s) /\ s.succ = {} /\ s.state = "passive"
      /\ s.origin = None
  BY <1>0, DetachSound
<1> HIDE DEF s
<1>2. CASE r.nt = "connected" /\ r.rt[Self].has
  <2> DEFINE t == [s.rt EXCEPT ![Self] = r.rt[Self]]
             c == [s EXCEPT !.known = TRUE, !.nt = "connected", !.fd = r.fd,
                            !.dist = r.dist, !.rm = r.rm, !.rt = t,
                            !.succ = r.succ \cap {Self}, !.intable = {Self}]
  <2>1. t \in [Owner -> Route]
    BY <1>0, <1>1 DEF Router, Owner
  <2>2. ClearPrefix(r) = c
    BY <1>1, <1>2 DEF ClearPrefix, Router, s
  <2> HIDE DEF t
  <2>3. r.succ \cap {Self} \in SUBSET Owner /\ {Self} \in SUBSET Owner
    BY DEF Owner
  <2>4. c \in Router
    BY <1>0, <1>1, <2>1, <2>3, ZenonT(60) DEF Router
  <2>5. c.known = TRUE /\ c.state = "passive" /\ c.origin = None
        /\ c.succ = r.succ \cap {Self}
    BY <1>1 DEF Router
  <2> HIDE DEF c
  <2>6. Sound(c)
    BY <2>5, NbrAssumption DEF Sound, Flagged, Active
  <2> QED
    BY <2>2, <2>4, <2>6, SMTT(30) DEF OK
<1>3. CASE r.nt # "connected" /\ UpNbrs(r) # {}
  <2> DEFINE a == [s EXCEPT !.known = TRUE, !.state = "a1", !.rm = r.rm]
             w == Item("queryroute", None, {})
  <2>1. a \in Router
    BY <1>0, <1>1, ZenonT(60) DEF Router, Active
  <2>2. a.known = TRUE /\ a.state = "a1" /\ a.origin = None /\ a.succ = {}
    BY <1>1 DEF Router
  <2>3. ClearPrefix(r) = Enqueue(a, w)
    BY <1>3 DEF ClearPrefix, s
  <2> HIDE DEF a
  <2>4. Sound(a)
    BY <2>2 DEF Sound, Flagged, Active, Unknown
  <2>5. w \in Work
    BY ItemType
  <2> HIDE DEF w
  <2> QED
    BY <2>1, <2>3, <2>4, <2>5, EnqueueFrame, FrameOK DEF OK
<1>4. CASE ~ (r.nt = "connected" /\ r.rt[Self].has) /\ ~ (r.nt # "connected" /\ UpNbrs(r) # {})
  BY <1>1, <1>4 DEF ClearPrefix, OK, s
<1> QED
  BY <1>2, <1>3, <1>4

\* Changing an adjacency state alone disturbs nothing.
LEMMA NbrStateOK ==
    ASSUME NEW r, OK(r), NEW n \in Nbr, NEW v \in {"none", "down", "pending", "up"}
    PROVE  OK([r EXCEPT !.nbr[n] = v])
<1> DEFINE m == [r.nbr EXCEPT ![n] = v]
           s == [r EXCEPT !.nbr = m]
<1>1. m \in [Nbr -> {"none", "down", "pending", "up"}]
  BY DEF OK, Router
<1> HIDE DEF m
<1>2. s \in Router /\ SameDual(r, s)
  BY <1>1 DEF OK, Router, SameDual
<1>3. [r EXCEPT !.nbr[n] = v] = s
  BY DEF OK, Router, m
<1> QED
  BY <1>2, <1>3, FrameOK

\* eigrp_nbr_delete preserves OK.
LEMMA NbrDeleteOK ==
    ASSUME NEW r, OK(r), NEW n \in Nbr
    PROVE  OK(NbrDelete(r, n))
<1> DEFINE s == NeighborDown([r EXCEPT !.nbr[n] = "none"], n)
           g == [w \in Work |-> IF w.to = n THEN [w EXCEPT !.stale = TRUE] ELSE w]
           wk == [i \in DOMAIN s.work |-> g[s.work[i]]]
           t == [s EXCEPT !.work = wk]
<1>1. OK(s)
  BY NbrStateOK, NeighborDownOK
<1> HIDE DEF s
<1>2. g \in [Work -> Work]
  BY ZenonT(60) DEF Work
<1>3. wk \in Seq(Work)
  <2> HIDE DEF g
  <2>1. s.work \in Seq(Work)
    BY <1>1 DEF OK, Router
  <2> QED
    BY <1>2, <2>1, WorkMap
<1>4. NbrDelete(r, n) = t
  <2>1. \A i \in DOMAIN s.work : s.work[i] \in Work
    BY <1>1 DEF OK, Router
  <2>2. wk = [i \in DOMAIN s.work |-> IF s.work[i].to = n
                 THEN [s.work[i] EXCEPT !.stale = TRUE] ELSE s.work[i]]
    BY <2>1
  <2> HIDE DEF wk
  <2> QED
    BY <2>2 DEF NbrDelete, s
<1> HIDE DEF wk
<1>5. t \in Router /\ SameDual(s, t)
  BY <1>1, <1>3, ZenonT(60) DEF OK, Router, SameDual
<1> QED
  BY <1>1, <1>4, <1>5, FrameOK

\* The INIT of a restarted peer preserves OK.
LEMMA PeerRestartOK ==
    ASSUME NEW r, OK(r), NEW n \in Nbr
    PROVE  OK(PeerRestart(r, n))
<1>1. OK(NeighborDown([r EXCEPT !.nbr[n] = "down"], n))
  BY NbrStateOK, NeighborDownOK, ZenonT(60)
<1> QED
  BY <1>1, NbrStateOK, SendAllOK DEF PeerRestart

\* An SIA-QUERY for every owing neighbor keeps their counts at three or less.
LEMMA SiaQueriesOK ==
    ASSUME NEW r, OK(r), Stuck(r) = {}, NEW k \in Nat, NEW order \in [1 .. k -> r.rij]
    PROVE  OK(SiaQueries(r, order))
<1> DEFINE status == [n \in Nbr |-> IF n \in r.rij
                                    THEN [q |-> r.sia[n].q + 1, resp |-> FALSE]
                                    ELSE r.sia[n]]
           items == [i \in DOMAIN order |-> Item("siaquery", order[i], {})]
           wk == r.work \o items
           s == [r EXCEPT !.sia = status, !.work = wk]
<1>0. r \in Router /\ r.rij \subseteq Nbr /\ r.sia \in [Nbr -> [q: 0 .. 3, resp: BOOLEAN]]
      /\ r.work \in Seq(Work)
  BY SMTT(30) DEF OK, Router
<1>1. status \in [Nbr -> [q: 0 .. 3, resp: BOOLEAN]]
  <2>1. \A n \in r.rij : r.sia[n].q \in 0 .. 2
    BY <1>0 DEF Stuck
  <2> QED
    BY <1>0, <2>1
<1>2. items \in Seq(Work)
  <2>1. \A i \in 1 .. k : Item("siaquery", order[i], {}) \in Work
    BY <1>0, ItemType
  <2> QED
    BY <2>1
<1> HIDE DEF status, items
<1>3. wk \in Seq(Work)
  BY <1>0, <1>2
<1>4. SiaQueries(r, order) = s
  BY DEF SiaQueries, status, items
<1> HIDE DEF wk
<1>5. s \in Router /\ SameDual(r, s)
  BY <1>0, <1>1, <1>3, ZenonT(60) DEF Router, SameDual
<1> QED
  BY <1>4, <1>5, FrameOK

\* eigrp_update_receive preserves OK.
LEMMA UpdateReceiveOK ==
    ASSUME NEW r, OK(r), NEW n \in Nbr, NEW rd \in Metric, NEW ext \in BOOLEAN
    PROVE  OK(UpdateReceive(r, n, rd, ext))
<1>0. n \in Owner
  BY DEF Owner
<1>1. r.known => OK(FsmEvent(r, "update", n, rd, ext))
  BY <1>0, GoodOK, FsmEventSound
<1>2. ~ r.known => OK(NewPrefix(r, n, rd, ext))
  BY NewPrefixOK
<1> QED
  BY <1>1, <1>2, SendAllOK DEF UpdateReceive

\* A QUERY for a destination without any path is answered at once; the path it
\* carries is recorded but promoted to nothing.
LEMMA QueryReceiveOK ==
    ASSUME NEW r, OK(r), NEW n \in Nbr, NEW rd \in Metric, NEW ext \in BOOLEAN
    PROVE  OK(QueryReceive(r, n, rd, ext))
<1> DEFINE p == ReplySendRoute(r, n, Inf)
           u == UpdateDistance(p, n, rd, ext)
           s == [u EXCEPT !.known = TRUE]
           new == [has |-> TRUE, rd |-> rd, cd |-> TotalMetric(n, rd), ext |-> ext]
           t == [p.rt EXCEPT ![n] = new]
<1>0. n \in Owner /\ r \in Router /\ Inf \in Metric
  BY MetricAssumption DEF Owner, OK, Metric
<1>1. p \in Router /\ SameDual(r, p)
  BY <1>0, ReplyFrame
<1> HIDE DEF p
<1>2. OK(p)
  BY <1>1, FrameOK
<1>3. CASE ~ Unknown(r)
  <2>1. OK(FsmEvent(r, "query", n, rd, ext))
    BY <1>0, <1>3, GoodOK, FsmEventSound, SMTT(30) DEF Unknown
  <2> QED
    BY <1>3, <2>1, SendAllOK, SMTT(30) DEF QueryReceive
<1>4. CASE Unknown(r) /\ rd = Inf
  BY <1>2, <1>4, SendAllOK, SMTT(30) DEF QueryReceive, p
<1>5. CASE Unknown(r) /\ rd # Inf
  <2>1. new \in Route
    BY <1>0, TotalMetricType DEF Route
  <2>2. u = [p EXCEPT !.rt = t]
    BY <1>1 DEF UpdateDistance, Router
  <2> HIDE DEF new
  <2>3. t \in [Owner -> Route]
    BY <1>1, <2>1 DEF Router
  <2> HIDE DEF t
  <2>4. u \in Router /\ u.state = p.state /\ u.origin = p.origin /\ u.succ = p.succ
    BY <1>1, <2>2, <2>3, ZenonT(60) DEF Router
  <2> HIDE DEF u
  <2>5. /\ s \in Router /\ s.known = TRUE /\ s.state = p.state
        /\ s.origin = p.origin /\ s.succ = p.succ
    BY <2>4, ZenonT(60) DEF Router
  <2>6. QueryReceive(r, n, rd, ext) = SendAll(s)
    BY <1>5, SMTT(30) DEF QueryReceive, u, p
  <2> HIDE DEF s
  <2>7. p.state = "passive" /\ p.origin = None /\ Flagged(p) = {}
    BY <1>1, <1>2, <1>5, SMTT(30) DEF OK, Sound, Unknown, SameDual, Flagged
  <2>8. Sound(s)
    BY <2>5, <2>7 DEF Sound, Flagged, Active
  <2> QED
    BY <2>5, <2>6, <2>8, SendAllOK, SMTT(30) DEF OK
<1> QED
  BY <1>3, <1>4, <1>5

\* eigrp_reply_receive preserves OK.
LEMMA ReplyReceiveOK ==
    ASSUME NEW r, OK(r), NEW n \in Nbr, NEW rd \in Metric, NEW ext \in BOOLEAN
    PROVE  OK(ReplyReceive(r, n, rd, ext))
<1>0. n \in Owner
  BY DEF Owner
<1>1. r.state \in Active => OK(FsmEvent(r, "reply", n, rd, ext))
  BY <1>0, GoodOK, FsmEventSound DEF Active
<1> QED
  BY <1>1, SendAllOK, SMTT(30) DEF ReplyReceive

\* eigrp_siaquery_receive preserves OK.
LEMMA SiaQueryReceiveOK ==
    ASSUME NEW r, OK(r), NEW n \in Nbr, NEW rd \in Metric, NEW ext \in BOOLEAN
    PROVE  OK(SiaQueryReceive(r, n, rd, ext))
<1> DEFINE op == IF r.state = "passive" THEN "query" ELSE "siaquery"
           s == FsmEvent(r, op, n, rd, ext)
           w == Item("siareply", n, {})
<1>1. CASE ~ r.known
  BY <1>1 DEF SiaQueryReceive
<1>2. CASE r.known
  <2>1. n \in Owner
    BY DEF Owner
  <2>2. OK(s)
    BY <1>2, <2>1, GoodOK, FsmEventSound, SMTT(30)
  <2>3. SiaQueryReceive(r, n, rd, ext) = IF s.state \in Active THEN Enqueue(s, w) ELSE s
    BY <1>2 DEF SiaQueryReceive
  <2>4. w \in Work
    BY ItemType
  <2> HIDE DEF s, w
  <2> QED
    BY <2>2, <2>3, <2>4, EnqueueFrame, FrameOK, SMTT(30) DEF OK
<1> QED
  BY <1>1, <1>2

\* eigrp_siareply_receive preserves OK.
LEMMA SiaReplyReceiveOK ==
    ASSUME NEW r, OK(r), NEW n \in Nbr, NEW rd \in Metric, NEW ext \in BOOLEAN,
           NEW active \in BOOLEAN
    PROVE  OK(SiaReplyReceive(r, n, rd, ext, active))
<1> DEFINE x == IF r.rt[n].has THEN r.rt[n].ext ELSE ext
           status == [r.sia EXCEPT ![n].resp = TRUE]
           s == [r EXCEPT !.sia = status]
<1>0. n \in Owner /\ r \in Router
  BY DEF Owner, OK
<1>1. CASE r.state = "passive" \/ n \notin r.rij
  BY <1>1 DEF SiaReplyReceive
<1>2. CASE r.state # "passive" /\ n \in r.rij /\ active
  <2>1. status \in [Nbr -> [q: 0 .. 3, resp: BOOLEAN]]
    <3> DEFINE v == [r.sia[n] EXCEPT !.resp = TRUE]
    <3>1. r.sia \in [Nbr -> [q: 0 .. 3, resp: BOOLEAN]]
      BY <1>0 DEF Router
    <3>2. v \in [q: 0 .. 3, resp: BOOLEAN]
      BY <3>1
    <3>3. status = [r.sia EXCEPT ![n] = v]
      BY <3>1
    <3> HIDE DEF v
    <3> QED
      BY <3>1, <3>2, <3>3
  <2>2. SiaReplyReceive(r, n, rd, ext, active) = s
    BY <1>0, <1>2 DEF SiaReplyReceive, Router
  <2> HIDE DEF status
  <2>3. s \in Router /\ SameDual(r, s)
    BY <1>0, <2>1 DEF Router, SameDual
  <2> QED
    BY <2>2, <2>3, FrameOK
<1>3. CASE r.state # "passive" /\ n \in r.rij /\ ~ active
  <2>1. x \in BOOLEAN
    BY <1>0 DEF Router, Route
  <2>2. SiaReplyReceive(r, n, rd, ext, active) = FsmEvent(r, "reply", n, rd, x)
    BY <1>3 DEF SiaReplyReceive
  <2> HIDE DEF x
  <2> QED
    BY <1>0, <1>3, <2>1, <2>2, GoodOK, FsmEventSound
<1> QED
  BY <1>1, <1>2, <1>3

\* One item of the packetizer's queue: the QUERY fan-out, the retirement of an
\* unreachable destination, or nothing that DUAL sees.
LEMMA WorkProcessOK ==
    ASSUME NEW r, OK(r), r.work # <<>>
    PROVE  OK(WorkProcess(r))
<1> DEFINE w == Head(r.work)
           s == [r EXCEPT !.work = Tail(r.work)]
           a == ReplyStatusAdd(s, QueryTargets(s))
           q == QuerySent(a)
           qn == [q EXCEPT !.need = q.need \ {"query"}]
           u == [s EXCEPT !.need = s.need \ {"update"}]
<1>1. Tail(r.work) \in Seq(Work)
  BY DEF OK, Router
<1>2. s \in Router /\ SameDual(r, s)
  BY <1>1 DEF OK, Router, SameDual
<1>3. WorkProcess(r) =
        CASE w.op = "query" /\ "query" \in r.need -> qn
          [] w.op = "queryroute" /\ w.fixed = {} -> q
          [] w.op = "update" /\ "update" \in r.need ->
                IF u.need = {} /\ u.state = "passive" THEN Retire(u) ELSE u
          [] OTHER -> s
  BY DEF WorkProcess
<1> HIDE DEF s
<1>4. OK(s)
  BY <1>2, FrameOK
<1>5. OK(q)
  <2>1. QueryTargets(s) \in SUBSET Nbr
    BY DEF QueryTargets, UpNbrs
  <2>2. a \in Router /\ SameDual(s, a)
    BY <1>2, <2>1, ReplyStatusFrame DEF Owner
  <2> QED
    BY <1>4, <2>2, FrameOK, QuerySentSound DEF OK
<1> HIDE DEF q
<1>6. OK(qn)
  <2>1. qn \in Router /\ SameDual(q, qn)
    BY <1>5, ZenonT(60) DEF OK, Router, SameDual
  <2> QED
    BY <1>5, <2>1, FrameOK
<1>7. OK(u)
  <2>1. u \in Router /\ SameDual(s, u)
    BY <1>2, ZenonT(60) DEF Router, SameDual
  <2> QED
    BY <1>4, <2>1, FrameOK
<1> HIDE DEF u, qn, w
<1>8. u.state = "passive" => OK(Retire(u))
  BY <1>7, RetireOK, SMTT(30)
<1> QED
  BY <1>3, <1>4, <1>5, <1>6, <1>7, <1>8, SMTT(30)

-----------------------------------------------------------------------------
(* The theorems                                                            *)

IInv == OK(rtr) /\ asked \in SUBSET Nbr /\ owed \in SUBSET Nbr

\* The invariant holds initially: no destination, every neighbor up.
LEMMA InitIInv == Init => IInv
<1> SUFFICES ASSUME Init
             PROVE  IInv
  OBVIOUS
<1>1. NoRoute \in Route /\ ~ NoRoute.has /\ NoStatus \in [q: 0 .. 3, resp: BOOLEAN]
      /\ Inf \in Metric /\ <<>> \in Seq(Work)
  BY MetricAssumption, SMTT(30) DEF NoRoute, Route, NoStatus, Metric
<1>2. rtr \in Router
  BY <1>1, SMTT(30) DEF Init, Router
<1>3. rtr.succ = {} /\ rtr.state = "passive" /\ rtr.origin = None
      /\ \A o \in Owner : ~ rtr.rt[o].has
  BY <1>1, SMTT(30) DEF Init
<1>4. Sound(rtr)
  BY <1>3 DEF Sound, Flagged, Active
<1> QED
  BY <1>2, <1>4 DEF IInv, OK, Init

\* A neighbor created anew: its predecessor's path is found or is gone.
LEMMA CreateNbrOK ==
    ASSUME NEW r, OK(r), NEW n \in Nbr, NEW v \in {"pending", "down"},
           NEW path \in {r.rt[n], NoRoute}, NEW gone, gone = IF path.has THEN {} ELSE {n}
    PROVE  OK([r EXCEPT !.nbr[n] = v, !.rt[n] = path,
                        !.succ = r.succ \ gone, !.intable = r.intable \ gone])
<1> DEFINE m == [r.nbr EXCEPT ![n] = v]
           t == [r.rt EXCEPT ![n] = path]
           f == r.succ \ gone
           i == r.intable \ gone
           s == [r EXCEPT !.nbr = m, !.rt = t, !.succ = f, !.intable = i]
<1>0. n \in Owner /\ r \in Router
  BY DEF Owner, OK
<1>1. NoRoute \in Route /\ ~ NoRoute.has
  BY MetricAssumption DEF NoRoute, Route, Metric
<1>2. m \in [Nbr -> {"none", "down", "pending", "up"}]
  BY <1>0 DEF Router
<1>3. path \in Route /\ (path.has => path = r.rt[n])
  BY <1>0, <1>1, SMTT(30) DEF Router
<1>4. /\ t \in [Owner -> Route] /\ t[n] = path
      /\ \A o \in Owner \ {n} : t[o] = r.rt[o]
  BY <1>0, <1>3, SMTT(30) DEF Router
<1>5. f \subseteq r.succ /\ (~ path.has => n \notin f)
  OBVIOUS
<1>6. [r EXCEPT !.nbr[n] = v, !.rt[n] = path,
                !.succ = r.succ \ gone, !.intable = r.intable \ gone] = s
  BY <1>0 DEF Router
<1>10. i \in SUBSET Owner
  BY <1>0 DEF Router
<1> HIDE DEF m, t, f, i
<1>7. /\ s \in Router /\ s.known = r.known /\ s.state = r.state /\ s.origin = r.origin
      /\ s.fd = r.fd /\ s.dist = r.dist /\ s.rm = r.rm /\ s.rt = t /\ s.succ = f
  <2>1. f \in SUBSET Owner
    BY <1>0, <1>5, SMTT(30) DEF Router
  <2> QED
    BY <1>0, <1>2, <1>4, <1>10, <2>1, ZenonT(60) DEF Router
<1> HIDE DEF s
<1>8. Feasible(r) \ {n} \subseteq Feasible(s) /\ (path.has => Feasible(r) \subseteq Feasible(s))
  <2>1. path.has => \A o \in Owner : t[o] = r.rt[o]
    BY <1>3, <1>4, SMTT(30)
  <2> QED
    BY <1>4, <1>7, <2>1, SMTT(30) DEF Feasible, Reachable
<1>9. Sound(s)
  <2>1. Flagged(s) \subseteq Flagged(r) /\ (~ path.has => n \notin Flagged(s))
    BY <1>5, <1>7, SMTT(30) DEF Flagged
  <2>2. Unknown(s) <=> Unknown(r)
    BY <1>7, SMTT(30) DEF Unknown
  <2>3. s.state = "passive" => Flagged(s) \subseteq Feasible(s)
    BY <1>7, <1>8, <2>1, SMTT(30) DEF OK, Sound
  <2>4. ~ s.known => /\ s.state = "passive" /\ s.succ = {}
                     /\ \A o \in Owner : ~ s.rt[o].has
    BY <1>0, <1>3, <1>4, <1>5, <1>7, SMTT(30) DEF OK, Sound
  <2> QED
    BY <1>7, <2>1, <2>2, <2>3, <2>4, SMTT(30) DEF OK, Sound
<1> QED
  BY <1>6, <1>7, <1>9 DEF OK

\* Every step of the router preserves the invariant.
LEMMA NextIInv == IInv /\ [Next]_vars => IInv'
<1> SUFFICES ASSUME IInv, [Next]_vars
             PROVE  IInv'
  OBVIOUS
<1> USE DEF IInv, Forget
<1>0. \A rd \in Advertised : rd \in Metric
  BY EnvAssumption
<1>1. \A ext \in ExtKinds : ext \in BOOLEAN
  BY EnvAssumption, SMTT(30)
<1>2. ASSUME NEW n \in Nbr, RecvUpdate(n)
      PROVE  IInv'
  BY <1>0, <1>1, <1>2, UpdateReceiveOK, SMTT(30) DEF RecvUpdate
<1>3. ASSUME NEW n \in Nbr, RecvQuery(n)
      PROVE  IInv'
  BY <1>0, <1>1, <1>3, QueryReceiveOK, SMTT(30) DEF RecvQuery
<1>4. ASSUME NEW n \in Nbr, RecvReply(n)
      PROVE  IInv'
  BY <1>0, <1>1, <1>4, ReplyReceiveOK, SMTT(30) DEF RecvReply
<1>5. ASSUME NEW n \in Nbr, RecvSiaQuery(n)
      PROVE  IInv'
  BY <1>0, <1>1, <1>5, SiaQueryReceiveOK, SMTT(30) DEF RecvSiaQuery
<1>6. ASSUME NEW n \in Nbr, RecvSiaReply(n)
      PROVE  IInv'
  BY <1>0, <1>1, <1>6, SiaReplyReceiveOK, SMTT(30) DEF RecvSiaReply
<1>7. ASSUME NEW n \in Nbr, DeleteNbr(n)
      PROVE  IInv'
  BY <1>7, NbrDeleteOK DEF DeleteNbr
<1>8. ASSUME NEW n \in Nbr, RestartNbr(n)
      PROVE  IInv'
  BY <1>8, PeerRestartOK DEF RestartNbr
<1>9. ASSUME NEW n \in Nbr, CreateNbr(n)
      PROVE  IInv'
  <2>1. PICK path \in {rtr.rt[n], NoRoute}, v \in {"pending", "down"} :
            LET gone == IF path.has THEN {} ELSE {n}
            IN  rtr' = [rtr EXCEPT !.nbr[n] = v, !.rt[n] = path,
                                   !.succ = rtr.succ \ gone,
                                   !.intable = rtr.intable \ gone]
    BY <1>9 DEF CreateNbr
  <2>2. OK(rtr')
    BY <2>1, CreateNbrOK, ZenonT(60)
  <2> QED
    BY <1>9, <2>2 DEF CreateNbr
<1>10. ASSUME NEW n \in Nbr, KMismatch(n) \/ HelloMatch(n) \/ Establish(n)
       PROVE  IInv'
  <2>1. PICK v \in {"down", "pending", "up"} : rtr' = [rtr EXCEPT !.nbr[n] = v]
    BY <1>10 DEF KMismatch, HelloMatch, Establish
  <2>2. OK(rtr')
    BY <2>1, NbrStateOK
  <2> QED
    BY <1>10, <2>2 DEF KMismatch, HelloMatch, Establish
<1>11. ASSUME NEW n \in Nbr, DeclareStuck(n)
       PROVE  IInv'
  <2> DEFINE s == [rtr EXCEPT !.timer = FALSE]
  <2>1. s \in Router /\ SameDual(rtr, s)
    BY ZenonT(60) DEF OK, Router, SameDual
  <2>2. OK(s)
    BY <2>1, FrameOK
  <2> QED
    BY <1>11, <2>2, NbrDeleteOK DEF DeclareStuck
<1>12. ASSUME LocalUp
       PROVE  IInv'
  BY <1>12, IntfUpOK DEF LocalUp
<1>13. ASSUME LocalDown
       PROVE  IInv'
  BY <1>13, ConnectedInterfaceDownOK DEF LocalDown
<1>14. ASSUME Clear
       PROVE  IInv'
  BY <1>14, ClearPrefixOK, SMTT(30) DEF Clear
<1>15. ASSUME AskProgress
       PROVE  IInv'
  <2>1. Cardinality(rtr.rij) \in Nat
    <3>1. rtr.rij \subseteq Nbr
      BY SMTT(30) DEF OK, Router
    <3> QED
      BY <3>1, NbrAssumption, FS_Subset, FS_CardinalityType, SMTT(30)
  <2> QED
    BY <1>15, <2>1, SiaQueriesOK, SMTT(30) DEF AskProgress
<1>16. ASSUME Packetize
       PROVE  IInv'
  <2>1. Queried(rtr) \in SUBSET Nbr
    BY DEF Queried, QueryTargets, UpNbrs
  <2> QED
    BY <1>16, <2>1, WorkProcessOK, SMTT(30) DEF Packetize
<1>17. CASE UNCHANGED vars
  BY <1>17 DEF vars
<1> QED
  BY <1>2, <1>3, <1>4, <1>5, <1>6, <1>7, <1>8, <1>9, <1>10, <1>11, <1>12, <1>13,
     <1>14, <1>15, <1>16, <1>17, SMTT(30) DEF Next, Receive, Adjacency

\* The invariant implies the properties that are checked.
LEMMA IInvConsequences == IInv => TypeOK /\ SuccessorInv /\ SuccessorsFeasible
<1> SUFFICES ASSUME IInv
             PROVE  TypeOK /\ SuccessorInv /\ SuccessorsFeasible
  OBVIOUS
<1>1. TypeOK
  BY SMTT(30) DEF IInv, OK, TypeOK
<1>2. SuccessorInv
  BY DEF IInv, OK, Sound, Flagged, SuccessorInv, UniqueSuccessor, FlaggedNbrs, IsActive
<1>3. SuccessorsFeasible
  <2> SUFFICES ASSUME rtr.state = "passive", NEW n \in FlaggedNbrs
               PROVE  rtr.rt[n].cd < Inf /\ rtr.rt[n].rd < rtr.fd
    BY DEF SuccessorsFeasible
  <2>1. n \in Feasible(rtr) /\ n \in Owner
    BY <1>2 DEF SuccessorInv, Feasible, Reachable
  <2>2. rtr.rt[n].cd \in Metric
    BY <1>1, <2>1 DEF TypeOK, Router, Route
  <2> QED
    BY <2>1, <2>2, MetricAssumption, SMTT(30) DEF Feasible, Reachable, Metric
<1> QED
  BY <1>1, <1>2, <1>3

\* Whatever the neighbors, the interfaces and the operator do, the descriptor,
\* the reply-status set and the packetizer's queue stay well formed; no
\* neighbor is ever sent a fourth SIA-QUERY.
THEOREM TypeCorrect == Spec => []TypeOK
BY InitIInv, NextIInv, IInvConsequences, PTL DEF Spec

\* An Active destination has one successor among the neighbors at most, and a
\* deferred QUERY is that successor's.
THEOREM OneSuccessor == Spec => []UniqueSuccessor
<1>1. SuccessorInv => UniqueSuccessor
  BY DEF SuccessorInv
<1> QED
  BY <1>1, InitIInv, NextIInv, IInvConsequences, PTL DEF Spec

\* The inductive invariant itself, as the runs check it.
THEOREM SuccessorInvariant == Spec => []SuccessorInv
BY InitIInv, NextIInv, IInvConsequences, PTL DEF Spec

\* Every neighbor a Passive destination forwards to satisfies the feasibility
\* condition, for every variance and every mix of environment events.
THEOREM LoopFreeSuccessors == Spec => []SuccessorsFeasible
BY InitIInv, NextIInv, IInvConsequences, PTL DEF Spec
=============================================================================
