--------------------------- MODULE MCWorkerHealth ---------------------------
(* Two worker processes and a probe whose clocks may differ, for TLC.        *)
EXTENDS WorkerHealth

CONSTANTS w1, w2

MCSkews == {0, 1}
=============================================================================
