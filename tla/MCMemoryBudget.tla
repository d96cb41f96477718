--------------------------- MODULE MCMemoryBudget ---------------------------
(* Small instances of MemoryBudget for TLC.                                *)
EXTENDS MemoryBudget, TLC

AllKinds     == Kinds \cup {"npu", "dsp"}
AllPressures == Pressures \cup {"urgent", ""}
=============================================================================
