--------------------------- MODULE MCPhysicalOrder ---------------------------
(* PhysicalOrder with one order of one line and stock for it.               *)
EXTENDS PhysicalOrder, TLC

CONSTANTS o1, a1, k1, s1, c1, c2, w1, w2

MCOrderOf == [a \in Attempts |-> o1]
MCLines == {<<o1, k1>>}
MCLineOrder == [l \in MCLines |-> l[1]]
MCLineSku == [l \in MCLines |-> l[2]]
MCQuantity == [l \in MCLines |-> 1]
MCStockSku == [s \in {s1} |-> k1]
MCInitialStock == [s \in {s1} |-> 1]
MCSafetyStock == [s \in {s1} |-> 0]
CallerSymmetry == Permutations(Callers)
=============================================================================
