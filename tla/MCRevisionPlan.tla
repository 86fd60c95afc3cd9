--------------------------- MODULE MCRevisionPlan ---------------------------
(***************************************************************************)
(* Instances of RevisionPlan for TLC.                                      *)
(***************************************************************************)
EXTENDS RevisionPlan, TLC

MCOrder == <<"announcement", "translation">>
MCDeps == [s \in Steps |-> IF s = "translation" THEN {"announcement"} ELSE {}]
\* The announcement grows stale one tick after its request, the translation never does.
MCAnnouncementExpires == [s \in Steps |-> IF s = "announcement" THEN 1 ELSE Forever]

\* Two requests that differ in the announcement's input
TwoRequests == {[s \in Steps |-> 1], [s \in Steps |-> IF s = "announcement" THEN 2 ELSE 1]}

\* Outputs are told apart by nothing but their names.
MCOutputSymmetry == Permutations(Outputs)
=============================================================================
