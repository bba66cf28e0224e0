---------------------------- MODULE MCEtcdTriage ----------------------------
(* Model checking EtcdTriage: three servers that vote, or two and a      *)
(* learner.                                                              *)
EXTENDS EtcdTriage, TLC

CONSTANTS n1, n2, n3

MCServers == <<n1, n2, n3>>
MCMemberships == {[voters |-> {n1, n2, n3}, learners |-> {}],
                  [voters |-> {n1, n2}, learners |-> {n3}]}
=============================================================================
