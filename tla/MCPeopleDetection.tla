------------------------- MODULE MCPeopleDetection -------------------------
(* Small instances of PeopleDetection for TLC: one inference thread, three. *)
EXTENDS PeopleDetection

CONSTANTS t1, t2, t3      \* inference threads

OneThread    == {t1}
ThreeThreads == {t1, t2, t3}
============================================================================
