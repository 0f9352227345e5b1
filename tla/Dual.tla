-------------------------------- MODULE Dual --------------------------------
(***************************************************************************)
(* DUAL at one router, for one destination, against every neighbor         *)
(* behaviour the receive path admits.  The address-family thread runs one  *)
(* handler to completion at a time, so a step is one received packet, one  *)
(* timer, one adjacency or interface event, one operator command, or one   *)
(* work item of the packetizer; their order is free.                       *)
(*                                                                         *)
(* Two history variables describe the conversation with the neighbors:     *)
(* asked, the peers whose REPLY to our QUERY is outstanding, and owed, the *)
(* peers whose QUERY we have not answered.                                 *)
(***************************************************************************)
EXTENDS DualRouter

CONSTANTS
    Advertised,     \* the metrics neighbors advertise
    ExtKinds,       \* the route classes neighbors advertise (TRUE: external)
    Features,       \* which parts of the environment are present
    MaxBacklog      \* inputs are taken while the packetizer is no longer behind

ASSUME EnvAssumption ==
    /\ Advertised \subseteq Metric
    /\ ExtKinds \subseteq BOOLEAN
    /\ Features \subseteq {"late", "sia", "delete", "restart", "kmismatch",
                           "connected", "clear"}
    /\ MaxBacklog \in Nat

VARIABLES rtr, asked, owed
vars == <<rtr, asked, owed>>

Init ==
    /\ rtr = [nbr |-> [n \in Nbr |-> "up"], ifup |-> FALSE,
              known |-> FALSE, nt |-> "remote", state |-> "passive",
              fd |-> Inf, dist |-> Inf, rm |-> Inf, origin |-> None,
              need |-> {}, rij |-> {}, sia |-> [n \in Nbr |-> NoStatus],
              timer |-> FALSE, rt |-> [o \in Owner |-> NoRoute],
              succ |-> {}, intable |-> {}, work |-> <<>>]
    /\ asked = {}
    /\ owed = {}

Input == Len(rtr.work) <= MaxBacklog
Up(n) == rtr.nbr[n] = "up"

\* eigrp_packet_input_process: UPDATEs are taken from every peer that exists,
\* the other DUAL packets only from peers that are up
RecvUpdate(n) ==
    /\ Input /\ rtr.nbr[n] # "none"
    /\ \E rd \in Advertised, ext \in ExtKinds : rtr' = UpdateReceive(rtr, n, rd, ext)
    /\ UNCHANGED <<asked, owed>>

RecvQuery(n) ==
    /\ Input /\ Up(n)
    /\ \E rd \in Advertised, ext \in ExtKinds : rtr' = QueryReceive(rtr, n, rd, ext)
    /\ owed' = owed \cup {n}
    /\ UNCHANGED asked

\* "late": RTP hands a retransmitted REPLY over again
RecvReply(n) ==
    /\ Input /\ Up(n) /\ (n \in asked \/ "late" \in Features)
    /\ \E rd \in Advertised, ext \in ExtKinds : rtr' = ReplyReceive(rtr, n, rd, ext)
    /\ asked' = asked \ {n}
    /\ UNCHANGED owed

RecvSiaQuery(n) ==
    /\ "sia" \in Features /\ Input /\ Up(n)
    /\ \E rd \in Advertised, ext \in ExtKinds : rtr' = SiaQueryReceive(rtr, n, rd, ext)
    /\ UNCHANGED <<asked, owed>>

RecvSiaReply(n) ==
    /\ "sia" \in Features /\ Input /\ Up(n)
    /\ \E rd \in Advertised, ext \in ExtKinds, active \in BOOLEAN :
        /\ rtr' = SiaReplyReceive(rtr, n, rd, ext, active)
        /\ asked' = IF active THEN asked ELSE asked \ {n}
    /\ UNCHANGED owed

\* the conversation with a neighbor ends with the adjacency
Forget(n) == asked' = asked \ {n} /\ owed' = owed \ {n}

\* hold time, goodbye, retransmission limit or interface loss
DeleteNbr(n) ==
    /\ "delete" \in Features /\ Input /\ rtr.nbr[n] # "none"
    /\ rtr' = NbrDelete(rtr, n)
    /\ Forget(n)

RestartNbr(n) ==
    /\ "restart" \in Features /\ Input /\ Up(n)
    /\ rtr' = PeerRestart(rtr, n)
    /\ Forget(n)

\* the first Hello of a peer; the poisoned path its freed predecessor left
\* is found again only when the new peer is allocated at the same address
CreateNbr(n) ==
    /\ rtr.nbr[n] = "none"
    /\ \E path \in {rtr.rt[n], NoRoute}, state \in {"pending", "down"} :
        /\ state = "down" => "kmismatch" \in Features
        /\ LET gone == IF path.has THEN {} ELSE {n}
           IN  rtr' = [rtr EXCEPT !.nbr[n] = state, !.rt[n] = path,
                                  !.succ = rtr.succ \ gone,
                                  !.intable = rtr.intable \ gone]
    /\ UNCHANGED <<asked, owed>>

\* a Hello with other K values takes the adjacency down and nothing else
KMismatch(n) ==
    /\ "kmismatch" \in Features /\ rtr.nbr[n] \in {"pending", "up"}
    /\ rtr' = [rtr EXCEPT !.nbr[n] = "down"]
    /\ Forget(n)

\* a matching Hello starts the INIT handshake, whose end brings the peer up
HelloMatch(n) ==
    /\ rtr.nbr[n] = "down"
    /\ rtr' = [rtr EXCEPT !.nbr[n] = "pending"]
    /\ UNCHANGED <<asked, owed>>
Establish(n) ==
    /\ rtr.nbr[n] = "pending"
    /\ rtr' = [rtr EXCEPT !.nbr[n] = "up"]
    /\ UNCHANGED <<asked, owed>>

LocalUp ==
    /\ "connected" \in Features /\ Input /\ ~ rtr.ifup
    /\ rtr' = IntfUp(rtr)
    /\ UNCHANGED <<asked, owed>>
LocalDown ==
    /\ "connected" \in Features /\ Input /\ rtr.ifup
    /\ rtr' = ConnectedInterfaceDown(rtr)
    /\ UNCHANGED <<asked, owed>>

Clear ==
    /\ "clear" \in Features /\ Input /\ rtr.known
    /\ rtr' = ClearPrefix(rtr)
    /\ UNCHANGED <<asked, owed>>

\* one stuck neighbor is deleted, or every owing one is sent an SIA-QUERY
DeclareStuck(n) ==
    /\ Input /\ rtr.timer /\ n \in Stuck(rtr)
    /\ rtr' = NbrDelete([rtr EXCEPT !.timer = FALSE], n)
    /\ Forget(n)
AskProgress ==
    /\ Input /\ rtr.timer /\ Stuck(rtr) = {}
    /\ \E order \in [1 .. Cardinality(rtr.rij) -> rtr.rij] :
        /\ \A n \in rtr.rij : \E i \in DOMAIN order : order[i] = n
        /\ rtr' = SiaQueries(rtr, order)
    /\ UNCHANGED <<asked, owed>>

\* a REPLY leaves only if its neighbor is up when the item is processed
Packetize ==
    /\ rtr.work # <<>>
    /\ rtr' = WorkProcess(rtr)
    /\ asked' = asked \cup Queried(rtr)
    /\ LET w == Head(rtr.work)
       IN  owed' = IF w.op = "reply" /\ ~ w.stale THEN owed \ {w.to} ELSE owed

Receive(n) == RecvUpdate(n) \/ RecvQuery(n) \/ RecvReply(n)
              \/ RecvSiaQuery(n) \/ RecvSiaReply(n)
Adjacency(n) == DeleteNbr(n) \/ RestartNbr(n) \/ CreateNbr(n) \/ KMismatch(n)
                \/ HelloMatch(n) \/ Establish(n)
Next ==
    \/ \E n \in Nbr : Receive(n) \/ Adjacency(n) \/ DeclareStuck(n)
    \/ LocalUp \/ LocalDown \/ Clear \/ AskProgress \/ Packetize

Spec == Init /\ [][Next]_vars

-----------------------------------------------------------------------------
(* Properties                                                              *)

\* The descriptor, the reply-status set and the work queue stay well formed;
\* in particular no REPLY is queued for a null neighbor pointer.
TypeOK ==
    /\ rtr \in Router
    /\ asked \subseteq Nbr
    /\ owed \subseteq Nbr

FlaggedNbrs == rtr.succ \cap Nbr
IsActive == rtr.state \in Active
Queued(op) == \E i \in DOMAIN rtr.work : rtr.work[i].op = op /\ rtr.work[i].fixed = {}

\* At most one neighbor is the successor of an Active destination, a deferred
\* QUERY is that neighbor's, and the state is one that answers it at the end:
\* only then can the single query_origin field remember every deferred REPLY
\* (event_select, q_fcn, qact, lr, lr_fcs).
UniqueSuccessor ==
    /\ IsActive => \A m, n \in FlaggedNbrs : m = n
    /\ rtr.origin # None => /\ rtr.state \in {"a2", "a3"}
                            /\ FlaggedNbrs \subseteq {rtr.origin}

\* Every QUERY of an established neighbor is remembered as the query origin or
\* has its REPLY in the packetizer's queue, whatever happens in between
\* (q_fcn, qact, keep_state, lr, lr_fcs, unknown_reply_send).
NoQueryLost ==
    \A n \in owed :
        \/ rtr.origin = n
        \/ \E i \in DOMAIN rtr.work : /\ rtr.work[i].op = "reply" /\ rtr.work[i].to = n
                                      /\ ~ rtr.work[i].stale

\* Every neighbor a Passive destination forwards to is reachable and strictly
\* closer than the feasible distance: the condition that keeps the successor
\* graph loop free (update_node_flags, and every handler that ends Passive).
SuccessorsFeasible ==
    rtr.state = "passive" =>
        \A n \in FlaggedNbrs : rtr.rt[n].cd < Inf /\ rtr.rt[n].rd < rtr.fd

\* With 32-bit metrics, a Passive destination with a finite feasible distance
\* has a successor that realises the advertised distance, which is no less than
\* the feasible one (update_node_flags, keep_state, lr, lr_fcs).  It rests on
\* a path never being cheaper than what its neighbor reports, which only the
\* clamp of eigrp_metric_calculate ensures: see PassiveFeasible.
PassiveSuccessor ==
    ~ WideMetric /\ rtr.state = "passive" /\ rtr.known /\ rtr.fd # Inf =>
        /\ rtr.fd <= rtr.rm
        /\ \E o \in rtr.succ : rtr.rt[o].cd = rtr.rm

\* The inductive form of UniqueSuccessor and SuccessorsFeasible: a descriptor
\* that is not in the table is blank, and one that has lost every route has no
\* successor left, so that recording a QUERY for it promotes nothing
\* (prefix_detach, unknown_route_record).
SuccessorInv ==
    /\ UniqueSuccessor
    /\ rtr.state = "passive" => FlaggedNbrs \subseteq Feasible(rtr)
    /\ ~ rtr.known => /\ rtr.state = "passive" /\ rtr.succ = {}
                      /\ \A o \in Owner : ~ rtr.rt[o].has
    /\ Unknown(rtr) => FlaggedNbrs = {}

\* An Active destination waits for established neighbors that were sent the
\* QUERY, or still has the QUERY to send: no computation waits for nobody
\* (query_sent, fsm_neighbor_down, topology_neighbor_down).
NotStranded ==
    IsActive => \/ rtr.rij # {} /\ \A n \in rtr.rij : Up(n) /\ n \in asked
                \/ rtr.rij = {} /\ (\/ Queued("queryroute")
                                    \/ "query" \in rtr.need /\ Queued("query"))

\* The neighbor whose QUERY is deferred still exists when the REPLY is sent: the
\* query origin never outlives its neighbor (topology_neighbor_down, clear).
OriginExists == rtr.origin # None => rtr.nbr[rtr.origin] # "none"

\* Whatever DUAL wants sent has a bead behind it in the packetizer's queue
\* (query_send_all, update_send_all at the end of every handler).
WorkPending == \A a \in rtr.need : Queued(a)

\* Between neighbors that stay established the reply-status set is exactly the
\* set of peers that were sent the QUERY and have not replied.
ReplyStatusExact == IsActive => rtr.rij = asked

\* The active timer runs only while some neighbor owes a REPLY.
TimerOwned == rtr.timer => IsActive /\ rtr.rij # {}

\* The feasible distance, the distance and the reported metric of an Active
\* destination do not move, and no path becomes a successor or is given to the
\* host's routing table, until it is Passive again (nq_fcn, q_fcn, dinc, qact,
\* keep_state, update_routing_table); dual.md section 6.
FrozenWhileActive ==
    [][IsActive /\ rtr'.state \in Active =>
          /\ rtr'.fd = rtr.fd /\ rtr'.dist = rtr.dist /\ rtr'.rm = rtr.rm
          /\ rtr'.succ \subseteq rtr.succ /\ rtr'.intable \subseteq rtr.intable]_vars

\* The feasible distance of a destination rises only when a diffusing
\* computation ends, or when there is no neighbor to ask (keep_state, lr).
FdRaisedByComputation ==
    [][rtr.known /\ rtr'.known /\ rtr'.fd > rtr.fd =>
          IsActive \/ UpNbrs(rtr') = {}]_vars

-----------------------------------------------------------------------------
(* What the repository's documents say, and the code does not do           *)

\* Each Active destination owns the set of neighbors from which a REPLY is
\* still required (dual.md section 9): a Passive one owns none.
ReplyStatusOwned == rtr.rij # {} => IsActive

\* The advertised metric of an Active destination is frozen (dual.md section
\* 6): the next item encodes the reported metric, or unreachable.
AdvertisedFrozen ==
    IsActive /\ rtr.work # <<>> =>
        LET w == Head(rtr.work)
        IN  \/ w.op = "update" /\ "update" \in rtr.need
            \/ w.op \in {"reply", "siareply"} /\ w.fixed = {}
            => LateMetrics(rtr, w) \subseteq {rtr.rm, Inf}

\* No queued work names a freed neighbor (rtp.md section 32).
NoFreedWork == \A i \in DOMAIN rtr.work : ~ rtr.work[i].stale

\* While neighbors owe a REPLY the active timer that declares the silent ones
\* stuck is running (eigrp_fsm_active_timer_expired).
TimerCovers == IsActive /\ rtr.rij # {} => rtr.timer

\* A destination stays Passive only while it has a path that meets the
\* feasibility condition, or none at all (dual.md section 4): if the best path
\* cannot be proven feasible, DUAL enters Active.
PassiveFeasible ==
    rtr.state = "passive" /\ rtr.known /\ rtr.fd # Inf => Feasible(rtr) # {}

\* Neighbor loss resolves the reply status of the neighbor (dual.md section 9).
ReplyStatusEstablished == IsActive => \A n \in rtr.rij : Up(n)

=============================================================================
