# A TLA+ development for OpenEIGRP

OpenEIGRP implements EIGRP (RFC 7868). Its portable core, `src/eigrp/code/`, is
a C library that a host (FRR, a Unix simulator) links; each address family of an
instance has one thread that owns the topology table and runs DUAL. These
modules model that core, starting with DUAL itself: the state machine that
decides when a router may change the neighbor it forwards to, and that
coordinates the change with its neighbors by QUERY and REPLY.

## The system

| Part | Source (`src/eigrp/code/`) | State | Operations | Talks to |
|---|---|---|---|---|
| DUAL | `eigrp_fsm.c` | state, FD, distance, reported metric, query origin, reply status (`rij`), active timer | `eigrp_fsm_event`, the nine event handlers, `_neighbor_down`, `_query_sent`, the timer | topology, packetizer |
| Topology table | `eigrp_topology.c` | prefix and route descriptors, successor flags, change list | distance update, selection, flags, neighbor/interface loss, clear, retirement | DUAL, RIB |
| Packet handlers | `eigrp_{update,query,reply,siaquery,siareply}.c` | none of their own | one receive handler per opcode | DUAL, packetizer |
| Packetizer | `eigrp_packetizer.c` | FIFO of work, deferred frees | enqueue, process one item | DUAL (`rij`), transport |
| Neighbors, Hello | `eigrp_neighbor.c`, `eigrp_hello.c` | Down/Pending/Up, hold timer, prefix-limit state | create, delete, restart, parameter check | DUAL, transport |
| Interfaces | `eigrp_interface.c` | up/down, connected path | up, down | topology |
| Reliable transport | `eigrp_packet.c` | sequence numbers, retransmission queue, pacing | send, ACK, retransmit, give up | neighbors |
| AF thread | `eigrp_packet.c`, `eigrp_instance.c`, `eigrp_timer.c` | work, receive and timer queues, `work_lock`, `peer_lock` | one atom at a time | everything |
| Prefix limits, redistribution, summaries, metrics | `eigrp_pfxlimits.c`, `eigrp_redistribute.c`, `eigrp_summary.c`, `eigrp_metric.c` | counters, local paths, aggregates | admit, suspend, add, remove | topology |
| Codecs, authentication, containers, logging | the rest | | | |
| Host adapters | `src/frr/code`, `src/unix/code` | | configuration, RIB, sockets | |

What makes it hard:

- DUAL decides now and the packetizer speaks later. Between the two, other
  packets, timers and neighbor losses are handled. The reply-status set is
  filled by the packetizer, not by DUAL.
- A QUERY from the successor is answered when the computation it joined ends,
  perhaps several computations later; one pointer remembers who asked.
- Neighbors come and go, restart, and repeat themselves while a computation
  waits for them.
- An operator may clear a destination at any point.

`PROJECT.json` lists the hazards with the line where each bites.

## Modules

`DualRouter` is one router's view of one destination: a record that holds the
prefix descriptor, its route descriptors, the reply-status set and the
packetizer's queue, and one operator for each function that changes it. An
operator has the name of its function without the `eigrp_` prefixes
(`EventLrFcn` is `eigrp_fsm_event_lr_fcn`). A whole receive handler is one
operator, with the beads it queues at the end (`SendAll`).

`Dual` owns the record as a variable and says when the operators are called.
The AF thread runs one handler to completion at a time (`eigrp_packet.c:1450`:
"Each work atom runs to completion"), so a step is one packet, one timer, one
adjacency or interface event, one command or one packetizer item, in any order.
Neighbors are not modelled as routers: they may advertise anything in
`Advertised` at any time, which includes what any real neighbor would do. Two
history variables record the conversation: `asked` (peers whose REPLY to our
QUERY is outstanding) and `owed` (peers whose QUERY we have not answered).

`MCDual` instantiates `Dual` for TLC. `MCDualLive` adds a budget of
disturbances and fairness. `DualProofs` holds the theorems.

| Record field | Code |
|---|---|
| `nbr` | `nbr->state`; "none": no such peer |
| `ifup`, path `Self` | the connected interface and its route descriptor |
| `known`, `nt`, `state`, `fd`, `dist`, `rm` | presence in the table, `prefix->nt`, `state`, `fdistance`, `distance` (and `rdistance`), `reported_metric` |
| `origin`, `rij`, `sia`, `timer` | `query_origin`, `rij`, `sia_queries`/`sia_response_received`, `t_active` |
| `need` | `req_action`, with membership in `topology_changes` |
| `rt`, `succ`, `intable` | route descriptors, their SUCCESSOR flags and their INTABLE flags |
| `work` | the packetizer queue; `fixed` = the metric of work that carries its own route, `stale` = its neighbor has been freed |

The definitions whose names begin with `Slip` are deliberate mutations, each
standing before the definition it alters. They show that the properties react
to errors in the code; nothing else uses them.

### Abstractions

- A metric vector is its composite distance, which the code stores in 32 bits;
  `Inf` is `EIGRP_MAX_METRIC`. `Narrow` is the step from the 64-bit sum to the
  stored value: with 32-bit metrics `eigrp_metric.c` clamps it at the maximum,
  with wide metrics (`WideMetric`, the default) it only truncates, so the
  distance wraps modulo `Inf + 1`. Costs and advertised metrics are small even
  numbers, chosen so that ties, feasible, infeasible, unreachable and wrapped
  paths all occur. They are even because `Inf` is odd: with the default
  K values a wide composite is a multiple of 256 and no wrap gives exactly the
  maximum.
- Where equal-cost paths tie, the order of the sorted queues is left open; the
  distances that DUAL reads do not depend on it, and `LateMetrics` is the set of
  metrics that may be encoded.
- `maximum-paths` is taken to be at least the number of paths, and the RIB is
  taken to accept what it is given. Then `eigrp_update_routing_table` leaves the
  INTABLE flags equal to the SUCCESSOR flags (`UpdateRoutingTable`). They differ
  in between: `eigrp_route_descriptor_add` flags a connected path INTABLE only
  if it is the cheapest of the destination (`RouteDescriptorAdd`), and it is
  INTABLE that decides which metric an Active destination gives a
  non-successor in its REPLY (`ActiveNonSuccessorReplySend`).
- `QueryBoundary` stands for both reasons a QUERY is withheld from an
  interface: a summary and an outbound filter.
- A detached descriptor that queued work still names is represented by the
  metrics that work will encode. The split-horizon test of its QUERY reads the
  live descriptor's origin, which can affect only `asked`.
- When a neighbor is freed and created again, the poisoned path of the old one
  is found again only if the allocator returns the same address; `CreateNbr`
  chooses.
- `MaxBacklog` bounds the packetizer's backlog when an input is taken. The AF
  thread serves up to a batch of packetizer items before each receive batch
  (`eigrp_packet.c:1455`), so the real backlog is small too.
- Not in the core: reconfiguration of metrics (`eigrp_metric_update`, which may
  raise a feasible distance while Passive), of variance and of maximum paths
  (`eigrp_topology_multipath_update`); routes held only for one event by prefix
  limits, aggregate replies, graceful restart and resynchronisation, failing RIB
  calls.

## Runs

Two neighbors, on links of cost 6 and 12, and metrics `0..15` unless said
otherwise. Two neighbors are what is needed for a successor and a feasible or
infeasible alternative, and for a computation in which one peer has answered
and the other has not; advertisements 2, 8 and 15 (unreachable) give better,
equal, worse but feasible, infeasible and withdrawn paths. A reported distance
can equal the feasible distance (8 reported, 2 + 6 feasible), which is the
boundary of the Feasibility Condition, and 8 over the second link exceeds the
maximum, so it is clamped with 32-bit metrics and wraps to 4 with wide ones.
Inputs are taken with at most one item waiting in the packetizer (`MaxBacklog`);
a handler adds several, so work of different computations still mixes.

| Run | Environment | Metrics | Checks |
|---|---|---|---|
| `stable` | three neighbors that stay up (the third on a link of cost 2), external routes, variance 2 | 32-bit | `TypeOK`, `ReplyStatusExact`, `UniqueSuccessor`, `NoQueryLost`, `SuccessorsFeasible`, `PassiveSuccessor`, `FrozenWhileActive`, `FdRaisedByComputation` |
| `churn` | deletion, restart, repeated REPLYs, K-value mismatches, active timer, SIA-QUERY and SIA-REPLY, both neighbors on one split-horizon interface, variance 2, advertisements 8 and 15 | wide | `NoQueryLost`, `TimerOwned`, `FdRaisedByComputation` |
| `local` | a connected path that comes and goes, `clear topology`, a QUERY boundary on one interface, deletion, restart, repeated REPLYs, variance 2 | wide | `SuccessorInv`, `NotStranded`, `WorkPending`, `OriginExists` |
| `live` | backlog 2, a budget of 5 disturbances (packets, deletion, restart, a connected path), fairness, advertisements 8 and 15 | wide | `ComputationEnds`, `QueryAnswered` |

The features are divided over the runs because together they exceed what TLC
can enumerate; the theorems hold for all of them at once.

Fairness in `live`: the AF thread serves the packetizer's queue on every turn,
and each peer that was sent a QUERY eventually answers, which is what the
reliable transport and the peer's own DUAL promise. No disturbance is fair, and
they are finite in number: a network that changes for ever need not converge.
The system may then stop, so deadlock is not an error there.

### Where the code and its documents disagree

Eight runs each check one sentence of the repository and find that the code does
otherwise. `PROJECT.json` quotes the sentences.

| Run | What happens |
|---|---|
| `doc_reply_set` | the reply-status set is filled after the destination went Active; a computation that ends before that leaves it filled while Passive |
| `doc_frozen_metric` | work packetized while Active encodes the route that is best then |
| `doc_freed_work` | packetizer work keeps pointing at a freed neighbor |
| `doc_timer` | the active timer is not started again after the first stuck neighbor |
| `doc_sia_query` | the SIA-QUERY handler queues no bead for what DUAL wants sent |
| `doc_frozen_successor` | an interface that comes up gives an Active destination a new successor, and may put it in the routing table |
| `doc_wide_metric` | a wide distance that wraps becomes a small feasible distance which no reported distance is below, so a Passive, reachable destination has no feasible successor |
| `doc_kmismatch_reply` | a peer lost to a K-value mismatch still owes a REPLY |

Some properties hold only without some features, because of what the code does:

- `NotStranded` fails with K-value mismatches and with SIA, and `WorkPending`
  with SIA, as the table says.
- `PassiveSuccessor` is claimed for 32-bit metrics only; `doc_wide_metric` shows
  what wide ones do. It also fails with `clear` and a connected path:
  `eigrp_topology_connected_recreate` makes an Active destination Passive with
  the frozen distances even if its interface is down.
- `FrozenWhileActive` fails with a connected path, which `doc_frozen_successor`
  reports, and with `clear`, which starts a new computation.
- `FdRaisedByComputation` fails with `clear`, which discards the feasible
  distance with the descriptor.
- `NoQueryLost` fails with `clear`: `eigrp_topology_clear_prefix` drops an
  Active descriptor together with its query origin.
- With variance 1 a fresh connected destination still accepts every feasible
  path as a successor: `eigrp_intf_up` leaves `prefix->distance` at the maximum
  that the variance test reads.

## Proofs

`DualProofs` proves, for every finite set of neighbors, every `Inf`, cost and
interface assignment, 32-bit or wide metrics, variance, split horizon, QUERY boundary and set of
features (the named assumptions of `DualRouter` and `Dual` only ask that these
have their types, that costs are positive, and that the connected path is
reachable):

- `TypeCorrect`: `Spec => []TypeOK`;
- `SuccessorInvariant`: `Spec => []SuccessorInv`;
- `OneSuccessor`: `Spec => []UniqueSuccessor`;
- `LoopFreeSuccessors`: `Spec => []SuccessorsFeasible`.

`UniqueSuccessor` is not inductive. When a Passive destination goes Active its
flagged neighbors must collapse to at most one, and that is so because a
destination with a feasible path never goes Active: at that moment every other
flagged neighbor would still be feasible, so only the neighbor whose event it is
can be flagged (`LastSuccessor`). This needs the Passive successors to be
feasible, which `UpdateNodeFlags` establishes at each return to Passive; and it
needs descriptors that are not in the table, or that have lost every route, to
have no successor, because recording a QUERY for such a destination adds a path
without running DUAL. `SuccessorInv` is the conjunction.

The proof follows the code: `Sound` is `SuccessorInv` as a predicate of a
record; for each operator a lemma says that it takes a sound record to a sound
one (`Open` is the intermediate condition inside `FsmEvent`, after the
distance update and before the event is handled); `RoutingTableFrame` says that
the INTABLE flags play no part in it; the handlers compose them;
`NextIInv` has a case for each action.

Only model-checked: the liveness properties (out of the prover's reach, like
ENABLED), the action properties, `NoQueryLost`, `NotStranded`, `WorkPending`,
`OriginExists`, `TimerOwned`, `ReplyStatusExact`, `PassiveSuccessor`,
`FdRaisedByComputation`. None of the four theorems needs the distances to be
clamped: what the feasibility condition says of stored distances survives their
wrapping.

## Plan

In this order:

1. `Rtp`: one reliable conversation, with sequence numbers, ACK of the head,
   retransmission, the limit, loss and duplication; abstract specification: a
   FIFO that delivers at most once, or tells DUAL; refinement checked.
2. `Adjacency`: Hello, INIT, EOT, restart and resynchronisation between two
   peers; no deadlock in Pending, both ends agree.
3. `DualNet`: several `DualRouter`s over reliable FIFO links; no forwarding
   loop at any instant, convergence; an abstract diffusing computation it
   implements.
4. `AfThread`: the work, receive and timer queues, the two locks, hold-time
   expiry against a reset, shutdown.
5. `PrefixLifetime`: detachment, deferred frees and timers of descriptors.
6. `RouteSelection`: the sorted queues, variance, maximum paths and the RIB
   handover, against a set-based definition.
7. `PrefixLimit`, redistribution, summaries, and the arithmetic of metrics.
8. More theorems: `FrozenWhileActive`, `NoQueryLost`, `NotStranded`,
   `WorkPending` and `TimerOwned` for the features each holds with, and the
   refinements' step lemmas.

Not planned: codecs, authentication, containers, logging, configuration and the
host adapters. They hold no protocol state, or their state is the host's.
