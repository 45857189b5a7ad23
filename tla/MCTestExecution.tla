--------------------------- MODULE MCTestExecution ---------------------------
(* Small instances of test execution: a few tasks and worker slots.           *)
EXTENDS TestExecution, TLC

CONSTANTS t1, t2, w1, w2, none

OneTask == {t1}
TwoTasks == {t1, t2}
OneSlot == {w1}
TwoSlots == {w1, w2}

\* Slots are interchangeable, and so are tasks: no definition tells them apart.
SlotSymmetry == Permutations(TwoSlots)
FullSymmetry == Permutations(TwoTasks) \cup Permutations(TwoSlots)

=============================================================================
