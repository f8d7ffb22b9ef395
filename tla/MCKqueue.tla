------------------------------ MODULE MCKqueue ------------------------------
EXTENDS Kqueue, TLC
CONSTANTS t1, t2, f1, c1, c2

\* The timers run in the worker, the descriptor in the master.
MCHome == [e \in {t1, t2, f1} |-> IF e = f1 THEN 0 ELSE 1]
Symm == Permutations({c1, c2})
=============================================================================
