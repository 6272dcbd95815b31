---------------------------- MODULE MCWorkerSweep ----------------------------
(* WorkerSweep on small instances: one organization, one or two workers.    *)
EXTENDS WorkerSweep

CONSTANTS w1, w2, org1

MCWorkers == {w1, w2}
MCOneWorker == {w1}
MCClocks == [w \in Worker |-> {0}]
MCOrgOf == [e \in Event |-> org1]
=============================================================================
