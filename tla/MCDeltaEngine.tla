--------------------------- MODULE MCDeltaEngine ----------------------------
(***************************************************************************)
(* Instances of DeltaEngine for TLC: a workflow whose translation binds the *)
(* output of its announcement, as in delta/fixtures.py.                    *)
(***************************************************************************)
EXTENDS DeltaEngine, TLC

MCOrder == <<"announcement", "translation">>
MCDeps == [s \in Steps |-> IF s = "translation" THEN {"announcement"} ELSE {}]
MCForever == [s \in Steps |-> Forever]
\* The announcement grows stale one tick after its request, the translation never does.
MCAnnouncementExpires == [s \in Steps |-> IF s = "announcement" THEN 1 ELSE Forever]

\* One request; two that differ in the announcement's input; one without the
\* translation's optional input.
OneRequest == {[s \in Steps |-> 1]}
TwoRequests == {[s \in Steps |-> 1], [s \in Steps |-> IF s = "announcement" THEN 2 ELSE 1]}
WithOptional == OneRequest \cup {[s \in Steps |-> IF s = "translation" THEN None ELSE 1]}
AnyRequest == TwoRequests \cup WithOptional

\* Runs are told apart by nothing but their names; so are outputs.
MCSymmetry == Permutations(Runs) \cup Permutations(Outputs)
=============================================================================
