----------------------------- MODULE MCDualLive -----------------------------
(* Dual with a bounded number of disturbances, after which the neighbors    *)
(* only answer: what DUAL promises eventually.                              *)
EXTENDS MCDual

CONSTANT MaxDisturbance
VARIABLE budget
liveVars == <<vars, budget>>

Disturb ==
    \/ \E n \in Nbr : RecvUpdate(n) \/ RecvQuery(n) \/ Adjacency(n)
    \/ LocalUp \/ LocalDown

LiveInit == Init /\ budget = MaxDisturbance
LiveNext ==
    \/ Packetize /\ UNCHANGED budget
    \/ (\E n \in Nbr : RecvReply(n)) /\ UNCHANGED budget
    \/ budget > 0 /\ budget' = budget - 1 /\ Disturb

\* weak fairness, with the enabling conditions spelled out: the address-family
\* thread serves the packetizer's queue on every turn, and RTP delivers the
\* REPLY every peer owes; nothing else is fair
Fairness ==
    /\ []<>(rtr.work = <<>>) \/ []<><<Packetize /\ UNCHANGED budget>>_liveVars
    /\ \A n \in Nbr : \/ []<> ~ (Up(n) /\ n \in asked /\ Input)
                      \/ []<><<RecvReply(n) /\ UNCHANGED budget>>_liveVars
LiveSpec == LiveInit /\ [][LiveNext]_liveVars /\ Fairness

\* Every diffusing computation ends: an Active destination becomes Passive once
\* its neighbors have replied or gone (query_sent, lr, lr_fcs, lr_fcn).
ComputationEnds == IsActive ~> ~ IsActive

\* Every QUERY received is answered, at once or when the computation it joined
\* ends, unless its sender goes away first (query_origin).
QueryAnswered == \A n \in Nbr : n \in owed ~> n \notin owed
=============================================================================
