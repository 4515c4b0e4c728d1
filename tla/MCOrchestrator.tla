--------------------------- MODULE MCOrchestrator ---------------------------
(* Orchestrator on one worksheet: a partition of two rows, one of one row,   *)
(* and a third without clean rows; two slots for the three of them.          *)
EXTENDS Orchestrator

MCCleanRows == [p \in Partitions |-> IF p = 1 THEN 2 ELSE IF p = 3 THEN 0 ELSE 1]

\* "right" and "slow" fit everywhere, "drift" and "crash" only the first row of
\* the first partition, where "crash" throws on the second.
MCFits ==
    {<<p, a, i>> \in Partitions \X {"right", "drift", "slow", "crash"} \X (1..2) :
        a \in {"right", "slow"} \/ (i = 1 /\ p = 1)}
MCThrows ==
    {<<p, a, i>> \in Partitions \X {"crash"} \X (1..2) : i = 2 \/ p # 1}
=============================================================================
