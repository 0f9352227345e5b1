----------------------------- MODULE DualRouter -----------------------------
(***************************************************************************)
(* One EIGRP router's view of one destination: the prefix descriptor, its  *)
(* route descriptors, DUAL's reply-status set, and the packetizer's work   *)
(* queue, as a record; and every function of eigrp_fsm.c, eigrp_topology.c *)
(* and eigrp_packetizer.c that changes them, as an operator from a record  *)
(* to a record.  The modules that own the variables (Dual, and the network *)
(* model built on it) say when the functions are called.                   *)
(*                                                                         *)
(* A metric vector is represented by its composite distance as the         *)
(* descriptors store it, a uint32_t; Inf stands for its maximum, which is  *)
(* EIGRP_MAX_METRIC.  Among equal-cost routes the order of the code's      *)
(* sorted queues is left open: RouteRead and RouteSelect are the sets of   *)
(* routes that may be at the head.                                         *)
(***************************************************************************)
EXTENDS Integers, Sequences, FiniteSets

CONSTANTS
    Nbr,            \* the neighbors that may exist
    Self,           \* eigrp->neighbor_self, the owner of the connected path
    None,           \* a null neighbor pointer
    Inf,            \* EIGRP_MAX_METRIC, UINT32_MAX
    WideMetric,     \* TRUE (the default): metric_version is 64-bit; FALSE: 32-bit
    Cost,           \* the cost of the link a path is learned over
    IfOf,           \* the interface of a path
    Variance,       \* eigrp->variance
    SplitHorizon,   \* interfaces with split horizon
    QueryBoundary,  \* interfaces a QUERY for the destination never leaves by
    ActiveTime      \* TRUE iff the active timer is enabled

Owner == Nbr \cup {Self}

ASSUME NbrAssumption == IsFiniteSet(Nbr) /\ Self \notin Nbr /\ None \notin Owner
ASSUME MetricAssumption ==
    /\ Inf \in Nat \ {0}
    /\ Cost \in [Owner -> Nat \ {0}]
    /\ Cost[Self] < Inf
    /\ Variance \in Nat \ {0}
    /\ WideMetric \in BOOLEAN
ASSUME ConfigAssumption == ActiveTime \in BOOLEAN /\ DOMAIN IfOf = Owner

Metric == 0 .. Inf
Active == {"a0", "a1", "a2", "a3"}

Route == [has: BOOLEAN, rd: Metric, cd: Metric, ext: BOOLEAN]
\* work that is not for every neighbor names the one it is for
Work == [op: {"query", "queryroute", "update"}, to: {None},
         fixed: SUBSET Metric, stale: BOOLEAN]
        \cup [op: {"reply", "siaquery", "siareply"}, to: Nbr,
              fixed: SUBSET Metric, stale: BOOLEAN]

(* nbr: adjacency states ("none": no such peer).  ifup: the connected       *)
(* interface.  known..intable: the prefix descriptor (rdistance always      *)
(* equals distance and is not kept twice), with the SUCCESSOR and INTABLE   *)
(* flags of its routes as the sets succ and intable.  sia: sia_queries and  *)
(* sia_response_received of the members of rij.                             *)
Router ==
    [nbr: [Nbr -> {"none", "down", "pending", "up"}], ifup: BOOLEAN,
     known: BOOLEAN, nt: {"remote", "connected"}, state: {"passive"} \cup Active,
     fd: Metric, dist: Metric, rm: Metric, origin: Nbr \cup {None},
     need: SUBSET {"query", "update"}, rij: SUBSET Nbr,
     sia: [Nbr -> [q: 0 .. 3, resp: BOOLEAN]], timer: BOOLEAN,
     rt: [Owner -> Route], succ: SUBSET Owner, intable: SUBSET Owner,
     work: Seq(Work)]

-----------------------------------------------------------------------------
(* Routes of the destination                                               *)

NoRoute == [has |-> FALSE, rd |-> Inf, cd |-> Inf, ext |-> FALSE]
NoStatus == [q |-> 0, resp |-> TRUE]

\* The definitions whose names begin with Slip are mutations of the one that
\* follows them, each a plausible error in the code it models; the properties
\* are tested against them.
SlipUnclamped(c) == c % (Inf + 1)
\* eigrp_metric_calculate and the assignment of its uint64_t to a uint32_t:
\* only a 32-bit composite is clamped, a wide one loses its upper half
Narrow(c) == IF WideMetric THEN c % (Inf + 1) ELSE IF c > Inf THEN Inf ELSE c
\* eigrp_metric_total_calculate: the reported vector plus the link
TotalMetric(o, rd) == IF rd = Inf THEN Inf ELSE Narrow(rd + Cost[o])

Reachable(r) == {o \in Owner : r.rt[o].has /\ r.rt[o].cd # Inf}
SlipFeasibleOrEqual(r) == {o \in Reachable(r) : r.rt[o].rd <= r.fd}
Feasible(r) == {o \in Reachable(r) : r.rt[o].rd < r.fd}

\* internal routes are considered before external ones
BestClass(r, S) ==
    LET int == {o \in S : ~ r.rt[o].ext} IN IF int # {} THEN int ELSE S
Least(r, S) == {o \in S : \A q \in S : r.rt[o].cd <= r.rt[q].cd}

RouteRead(r) == Least(r, BestClass(r, Reachable(r)))
RouteSelect(r) == Least(r, BestClass(r, Feasible(r)))
Distance(r, S) == IF S = {} THEN Inf ELSE r.rt[CHOOSE o \in S : TRUE].cd

WithinVariance(r) == {o \in BestClass(r, Feasible(r)) : r.rt[o].cd <= r.dist * Variance}
SlipFlagsNotCleared(r) == [r EXCEPT !.succ = r.succ \cup WithinVariance(r)]
UpdateNodeFlags(r) == [r EXCEPT !.succ = WithinVariance(r)]

\* eigrp_update_routing_table: the host gets the flagged successors
UpdateRoutingTable(r) == [r EXCEPT !.intable = r.succ]
\* eigrp_route_descriptor_add: a new route, sorted behind its equals, is given
\* to the host at once if that makes it the head
RouteDescriptorAdd(r, o) ==
    [r EXCEPT !.intable = IF RouteRead(r) \subseteq {o} THEN r.intable \cup {o}
                          ELSE r.intable \ {o}]

\* eigrp_topology_update_distance: how the advertisement compares, and its effect
Change(r, o, rd, ext) ==
    LET old == r.rt[o]
    IN  IF old.has /\ old.ext = ext /\ old.rd = rd THEN "same"
        ELSE IF old.rd < rd THEN "increase"
        ELSE IF old.rd > rd \/ ~ ext THEN "decrease"
        ELSE "same"
UpdateDistance(r, o, rd, ext) ==
    [r EXCEPT !.rt[o] = [has |-> TRUE, rd |-> rd, cd |-> TotalMetric(o, rd), ext |-> ext]]

-----------------------------------------------------------------------------
(* The packetizer's queue                                                  *)

Item(op, to, fixed) == [op |-> op, to |-> to, fixed |-> fixed, stale |-> FALSE]
Enqueue(r, w) == [r EXCEPT !.work = Append(r.work, w)]

\* fixed = {}: the route is selected when the work is packetized
ReplySend(r, n) == Enqueue(r, Item("reply", n, {}))
ReplySendRoute(r, n, m) == Enqueue(r, Item("reply", n, {m}))
UpdateSendAll(r) == Enqueue(r, Item("update", None, {}))
QuerySendAll(r) ==
    IF "query" \in r.need THEN Enqueue(r, Item("query", None, {})) ELSE r
SlipNoQuerySendAll(r) == UpdateSendAll(r)
SendAll(r) == UpdateSendAll(QuerySendAll(r))

UpNbrs(r) == {n \in Nbr : r.nbr[n] = "up"}

-----------------------------------------------------------------------------
(* The DUAL state machine                                                  *)

ReplyStatusClear(r) == [r EXCEPT !.rij = {}, !.sia = [n \in Nbr |-> NoStatus]]
SlipStatusKept(r, n) == r
ReplyStatusRemove(r, n) ==
    IF n \in r.rij THEN [r EXCEPT !.rij = r.rij \ {n}, !.sia[n] = NoStatus] ELSE r
ReplyStatusAdd(r, S) == [r EXCEPT !.rij = r.rij \cup S]

SlipTimerNotStopped(r) ==
    UpdateSendAll(UpdateRoutingTable(UpdateNodeFlags(
        [ReplyStatusClear(r) EXCEPT !.state = "passive", !.origin = None,
                                    !.need = r.need \cup {"update"}])))
SlipFlagsNotUpdated(r) ==
    UpdateSendAll(UpdateRoutingTable(
        [ReplyStatusClear(r) EXCEPT !.state = "passive", !.origin = None,
                                    !.timer = FALSE, !.need = r.need \cup {"update"}]))
\* the common end of the handlers that return the destination to Passive
Committed(r) ==
    UpdateSendAll(UpdateRoutingTable(UpdateNodeFlags(
        [ReplyStatusClear(r) EXCEPT !.state = "passive", !.origin = None,
                                    !.timer = FALSE, !.need = r.need \cup {"update"}])))

SlipLrAnswersNobody(r) ==
    LET d == Distance(r, RouteRead(r))
        set == [r EXCEPT !.fd = d, !.dist = d, !.rm = d]
    IN  Committed(IF r.state \in {"a1", "a2", "a3"} THEN ReplySend(set, r.origin) ELSE set)
SlipLrNoReply(r) ==
    LET d == Distance(r, RouteRead(r))
    IN  Committed([r EXCEPT !.fd = d, !.dist = d, !.rm = d])
EventLr(r) ==
    LET d == Distance(r, RouteRead(r))
        set == [r EXCEPT !.fd = d, !.dist = d, !.rm = d]
    IN  Committed(IF r.state \in {"a2", "a3"} /\ r.origin # None
                  THEN ReplySend(set, r.origin) ELSE set)

SlipLrFcsA3(r) ==
    LET d == Distance(r, RouteSelect(r))
        set == [r EXCEPT !.dist = d, !.rm = d, !.fd = IF r.fd > d THEN d ELSE r.fd]
    IN  Committed(IF r.state = "a3" /\ r.origin # None
                  THEN ReplySend(set, r.origin) ELSE set)
EventLrFcs(r) ==
    LET d == Distance(r, RouteSelect(r))
        set == [r EXCEPT !.dist = d, !.rm = d, !.fd = IF r.fd > d THEN d ELSE r.fd]
    IN  Committed(IF r.state = "a2" /\ r.origin # None
                  THEN ReplySend(set, r.origin) ELSE set)

SlipOneNbrNotAsked(r, state) ==
    LET active == [ReplyStatusClear(r) EXCEPT !.state = state, !.timer = FALSE]
    IN  IF Cardinality(UpNbrs(r)) > 1 THEN [active EXCEPT !.need = r.need \cup {"query"}]
        ELSE EventLr(active)
\* a diffusing computation starts, or completes at once without neighbors
StartQuery(r, state) ==
    LET active == [ReplyStatusClear(r) EXCEPT !.state = state, !.timer = FALSE]
    IN  IF UpNbrs(r) # {} THEN [active EXCEPT !.need = r.need \cup {"query"}]
        ELSE EventLr(active)

EventNqFcn(r) == StartQuery(r, "a1")
EventQFcn(r, n) == StartQuery([r EXCEPT !.origin = n], "a3")
SlipLrFcnAdopts(r) ==
    LET d == Distance(r, RouteRead(r))
    IN  StartQuery([r EXCEPT !.dist = d, !.rm = d], IF r.state = "a0" THEN "a1" ELSE "a3")
EventLrFcn(r) == StartQuery(r, IF r.state = "a0" THEN "a1" ELSE "a3")
EventDinc(r) == [r EXCEPT !.state = IF r.state = "a1" THEN "a0" ELSE "a2"]
EventQact(r, n) == [r EXCEPT !.state = "a2", !.origin = n]

\* the metric in the routing table, if an installed route is still reachable
ActiveNonSuccessorReplySend(r, n) ==
    ReplySendRoute(r, n, IF r.intable \cap Reachable(r) # {} THEN r.rm ELSE Inf)

SlipKeepRaisesFd(r, op, n) ==
    LET best == IF RouteSelect(r) # {} THEN RouteSelect(r) ELSE RouteRead(r)
        d == Distance(r, best)
        set == IF r.rm = d THEN r
               ELSE [r EXCEPT !.dist = d, !.fd = d, !.rm = d,
                              !.need = r.need \cup {"update"}]
        kept == UpdateRoutingTable(UpdateNodeFlags(set))
    IN  IF r.state = "passive"
        THEN IF op = "query" THEN ReplySend(kept, n) ELSE kept
        ELSE IF op = "query" /\ n \notin r.succ THEN ActiveNonSuccessorReplySend(r, n)
        ELSE r
EventKeepState(r, op, n) ==
    LET best == IF RouteSelect(r) # {} THEN RouteSelect(r) ELSE RouteRead(r)
        d == Distance(r, best)
        set == IF r.rm = d THEN r
               ELSE [r EXCEPT !.dist = d, !.fd = IF d < r.fd THEN d ELSE r.fd,
                              !.rm = d, !.need = r.need \cup {"update"}]
        kept == UpdateRoutingTable(UpdateNodeFlags(set))
    IN  IF r.state = "passive"
        THEN IF op = "query" THEN ReplySend(kept, n) ELSE kept
        ELSE IF op = "query" /\ n \notin r.succ THEN ActiveNonSuccessorReplySend(r, n)
        ELSE r

\* eigrp_fsm_event_select, after the distance update and the reply's removal
EventSelect(r, op, n, change) ==
    CASE r.state = "passive" ->
            IF change = "same" \/ RouteSelect(r) # {} \/ r.fd = Inf THEN "keep"
            ELSE IF op = "query" THEN "q_fcn" ELSE "nq_fcn"
      [] r.state \in Active /\ op = "query" ->
            IF n \in r.succ THEN "qact" ELSE "keep"
      [] r.state \in Active /\ op = "reply" ->
            IF r.rij # {} THEN "keep"
            ELSE IF r.state \in {"a1", "a3"} THEN "lr"
            ELSE IF RouteSelect(r) # {} THEN "lr_fcs" ELSE "lr_fcn"
      [] r.state \in {"a1", "a3"} /\ op = "update" ->
            IF change = "increase" /\ n \in r.succ THEN "dinc" ELSE "keep"
      [] OTHER -> "keep"

NSM(r, event, op, n) ==
    CASE event = "nq_fcn" -> EventNqFcn(r)
      [] event = "lr"     -> EventLr(r)
      [] event = "q_fcn"  -> EventQFcn(r, n)
      [] event = "lr_fcs" -> EventLrFcs(r)
      [] event = "dinc"   -> EventDinc(r)
      [] event = "qact"   -> EventQact(r, n)
      [] event = "lr_fcn" -> EventLrFcn(r)
      [] event = "keep"   -> EventKeepState(r, op, n)

Dispatch(r, op, n, change) ==
    LET s == IF op = "reply" /\ r.state \in Active THEN ReplyStatusRemove(r, n) ELSE r
    IN  NSM(s, EventSelect(s, op, n, change), op, n)

FsmEvent(r, op, n, rd, ext) ==
    Dispatch(UpdateDistance(r, n, rd, ext), op, n, Change(r, n, rd, ext))

SlipReplyAwaited(r, n) == r
\* the loss of a neighbor that owes a REPLY and has no route
FsmNeighborDown(r, n) ==
    LET s == ReplyStatusRemove(r, n)
    IN  IF r.state = "passive" \/ n \notin r.rij THEN r
        ELSE IF s.rij # {} THEN s
        ELSE IF r.state \in {"a1", "a3"} THEN EventLr(s)
        ELSE IF RouteSelect(s) # {} THEN EventLrFcs(s) ELSE EventLrFcn(s)

SlipEmptyStrands(r) ==
    IF r.state # "passive" /\ r.rij # {} THEN [r EXCEPT !.timer = ActiveTime] ELSE r
QuerySent(r) ==
    IF r.state = "passive" THEN r
    ELSE IF r.rij # {} THEN [r EXCEPT !.timer = ActiveTime]
    ELSE EventLr(r)

-----------------------------------------------------------------------------
(* The topology table                                                      *)

\* the metrics the packetizer may encode when it selects the route itself
LateMetrics(r, w) ==
    LET head == RouteRead(r)
        poisoned == IF w.op \in {"reply", "siareply"} THEN {w.to} ELSE {}
    IN  (IF head = {} \/ head \cap poisoned # {} THEN {Inf} ELSE {})
          \cup {r.rt[o].cd : o \in head \ poisoned}

\* eigrp_topology_prefix_detach and the deferred free: queued work keeps the
\* old descriptor, whose routes no longer change
Detach(r) ==
    LET frozen(w) ==
            IF w.fixed # {} \/ w.op \in {"query", "update"} THEN w
            ELSE [w EXCEPT !.fixed = IF w.op = "queryroute" THEN {Inf}
                                     ELSE LateMetrics(r, w)]
    IN  [ReplyStatusClear(r) EXCEPT
            !.known = FALSE, !.nt = "remote", !.state = "passive",
            !.fd = Inf, !.dist = Inf, !.rm = Inf, !.origin = None, !.need = {},
            !.timer = FALSE, !.rt = [o \in Owner |-> NoRoute], !.succ = {}, !.intable = {},
            !.work = [i \in DOMAIN r.work |-> frozen(r.work[i])]]

\* eigrp_update_topology_table_prefix, once no action is pending
Retire(r) ==
    LET s == [r EXCEPT !.rt = [o \in Owner |->
                  IF r.rt[o].cd = Inf THEN NoRoute ELSE r.rt[o]],
                           !.succ = r.succ \cap Reachable(r),
                           !.intable = r.intable \cap Reachable(r)]
    IN  IF r.rij = {} /\ r.origin = None /\ Reachable(r) = {} THEN Detach(s) ELSE s

NewPrefix(r, n, rd, ext) ==
    LET s == UpdateDistance(r, n, rd, ext)
        d == s.rt[n].cd
    IN  UpdateNodeFlags(RouteDescriptorAdd(
            [s EXCEPT !.known = TRUE, !.fd = d, !.dist = d, !.rm = d,
                      !.need = {"update"}], n))

LocalRoute == [has |-> TRUE, rd |-> 0, cd |-> Cost[Self], ext |-> FALSE]

IntfUp(r) ==
    LET s == RouteDescriptorAdd(
                 [r EXCEPT !.ifup = TRUE, !.rt[Self] = LocalRoute,
                           !.succ = r.succ \cup {Self}], Self)
    IN  UpdateSendAll(
          IF r.known
          THEN Dispatch(s, "update", Self,
                        IF r.nt = "connected" THEN "same" ELSE "decrease")
          ELSE [s EXCEPT !.known = TRUE, !.nt = "connected", !.fd = Cost[Self],
                         !.rm = Cost[Self], !.need = {"update"}])

ConnectedInterfaceDown(r) ==
    LET s == [r EXCEPT !.ifup = FALSE]
    IN  SendAll(IF r.rt[Self].has THEN FsmEvent(s, "update", Self, Inf, FALSE) ELSE s)

SlipOriginForgotten(r, n) ==
    LET s == [r EXCEPT !.origin = None]
    IN  SendAll(IF r.rt[n].has
                THEN FsmEvent(s, IF r.state = "passive" THEN "update" ELSE "reply",
                              n, Inf, r.rt[n].ext)
                ELSE FsmNeighborDown(s, n))
SlipOriginKept(r, n) ==
    SendAll(IF r.rt[n].has
            THEN FsmEvent(r, IF r.state = "passive" THEN "update" ELSE "reply",
                          n, Inf, r.rt[n].ext)
            ELSE FsmNeighborDown(r, n))
NeighborDown(r, n) ==
    LET s == [r EXCEPT !.origin = IF r.origin = n THEN None ELSE r.origin]
    IN  SendAll(IF r.rt[n].has
                THEN FsmEvent(s, IF r.state = "passive" THEN "update" ELSE "reply",
                              n, Inf, r.rt[n].ext)
                ELSE FsmNeighborDown(s, n))

\* clear topology: drop everything learned, keep or query for the destination
ClearPrefix(r) ==
    LET s == Detach(r)
    IN  IF r.nt = "connected"
        THEN IF r.rt[Self].has
             THEN [s EXCEPT !.known = TRUE, !.nt = "connected", !.fd = r.fd,
                            !.dist = r.dist, !.rm = r.rm, !.rt[Self] = r.rt[Self],
                            !.succ = r.succ \cap {Self}, !.intable = {Self}]
             ELSE s
        ELSE IF UpNbrs(r) = {} THEN s
             ELSE Enqueue([s EXCEPT !.known = TRUE, !.state = "a1", !.rm = r.rm],
                          Item("queryroute", None, {}))

-----------------------------------------------------------------------------
(* Neighbors                                                               *)

\* the packetizer's work is not told that the neighbor it names is freed
NbrDelete(r, n) ==
    LET s == NeighborDown([r EXCEPT !.nbr[n] = "none"], n)
    IN  [s EXCEPT !.work = [i \in DOMAIN s.work |->
            IF s.work[i].to = n THEN [s.work[i] EXCEPT !.stale = TRUE] ELSE s.work[i]]]

\* an INIT from a peer that is up and has been seen before
PeerRestart(r, n) ==
    SendAll([NeighborDown([r EXCEPT !.nbr[n] = "down"], n) EXCEPT !.nbr[n] = "pending"])

Stuck(r) == {n \in r.rij : ~ r.sia[n].resp \/ r.sia[n].q >= 3}

\* every owing neighbor is asked for its progress, in the order given
SiaQueries(r, order) ==
    [r EXCEPT !.sia = [n \in Nbr |-> IF n \in r.rij
                                     THEN [q |-> r.sia[n].q + 1, resp |-> FALSE]
                                     ELSE r.sia[n]],
              !.work = r.work \o [i \in DOMAIN order |-> Item("siaquery", order[i], {})]]

-----------------------------------------------------------------------------
(* Received packets                                                        *)

UpdateReceive(r, n, rd, ext) ==
    SendAll(IF rd = Inf /\ ~ r.rt[n].has THEN r
            ELSE IF r.known THEN FsmEvent(r, "update", n, rd, ext)
            ELSE NewPrefix(r, n, rd, ext))

Unknown(r) ==
    ~ r.known \/ (r.state = "passive" /\ r.dist = Inf /\ r.fd = Inf /\ r.rm = Inf)

QueryReceive(r, n, rd, ext) ==
    LET poisoned == ReplySendRoute(r, n, Inf)
    IN  SendAll(IF ~ Unknown(r) THEN FsmEvent(r, "query", n, rd, ext)
                ELSE IF rd = Inf THEN poisoned
                ELSE [UpdateDistance(poisoned, n, rd, ext) EXCEPT !.known = TRUE])

ReplyReceive(r, n, rd, ext) ==
    SendAll(IF r.state \in Active THEN FsmEvent(r, "reply", n, rd, ext) ELSE r)

SiaQueryReceive(r, n, rd, ext) ==
    LET s == FsmEvent(r, IF r.state = "passive" THEN "query" ELSE "siaquery", n, rd, ext)
    IN  IF ~ r.known THEN r
        ELSE IF s.state \in Active THEN Enqueue(s, Item("siareply", n, {})) ELSE s

\* the path keeps its stored class
SiaReplyReceive(r, n, rd, ext, active) ==
    IF r.state = "passive" \/ n \notin r.rij THEN r
    ELSE IF active THEN [r EXCEPT !.sia[n].resp = TRUE]
    ELSE FsmEvent(r, "reply", n, rd, IF r.rt[n].has THEN r.rt[n].ext ELSE ext)

-----------------------------------------------------------------------------
(* The packetizer                                                          *)

QueryTargets(r) ==
    {n \in UpNbrs(r) :
        /\ IfOf[n] \notin QueryBoundary
        /\ ~ (IfOf[n] \in SplitHorizon /\ r.origin # None /\ IfOf[n] = IfOf[r.origin])}

\* the neighbors the next work item sends a QUERY to
Queried(r) ==
    LET w == Head(r.work)
    IN  IF w.op = "queryroute" \/ (w.op = "query" /\ "query" \in r.need)
        THEN QueryTargets(r) ELSE {}

\* the work of the head item; only the change-set beads and a live
\* destination's own QUERY touch DUAL
WorkProcess(r) ==
    LET w == Head(r.work)
        s == [r EXCEPT !.work = Tail(r.work)]
        q == QuerySent(ReplyStatusAdd(s, QueryTargets(s)))
        u == [s EXCEPT !.need = s.need \ {"update"}]
    IN  CASE w.op = "query" /\ "query" \in r.need ->
                [q EXCEPT !.need = q.need \ {"query"}]
          [] w.op = "queryroute" /\ w.fixed = {} -> q
          [] w.op = "update" /\ "update" \in r.need ->
                IF u.need = {} /\ u.state = "passive" THEN Retire(u) ELSE u
          [] OTHER -> s

=============================================================================
