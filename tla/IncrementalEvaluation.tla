----------------------- MODULE IncrementalEvaluation ------------------------
(***************************************************************************)
(* What the engine of delta/execute.py promises, without store, locks or    *)
(* attempts: every run evaluates the workflow for its own request, and each  *)
(* output it uses was produced by an executor for exactly the effective      *)
(* input the step has in that run.  Nothing is said of how often an executor *)
(* runs, nor of which of its outputs a run gets.                            *)
(***************************************************************************)
CONSTANTS
    Runs,       \* calls of DeltaEngine.execute
    Steps,      \* workflow steps
    Deps,       \* [Steps -> SUBSET Steps]: the steps a step binds outputs of
    Requests,   \* what requests supply, for each step
    Outputs,    \* what executors may produce
    None

VARIABLES
    request,    \* [Runs -> Requests \cup {None}]
    outputs,    \* [Runs -> [Steps -> Outputs \cup {None}]]
    produced    \* pairs of an effective input and an output produced for it

vars == <<request, outputs, produced>>

\* What a step computes from: its own request value and its dependencies' outputs.
Effective(r, s) ==
    [step |-> s, input |-> request[r][s], from |-> [d \in Deps[s] |-> outputs[r][d]]]

Ready(r, s) == request[r] # None /\ \A d \in Deps[s] : outputs[r][d] # None

Init ==
    /\ request = [r \in Runs |-> None]
    /\ outputs = [r \in Runs |-> [s \in Steps |-> None]]
    /\ produced = {}

Begin(r) ==
    /\ request[r] = None
    /\ \E q \in Requests : request' = [request EXCEPT ![r] = q]
    /\ UNCHANGED <<outputs, produced>>

Execute(r, s) ==
    /\ Ready(r, s)
    /\ \E o \in Outputs : produced' = produced \cup {<<Effective(r, s), o>>}
    /\ UNCHANGED <<request, outputs>>

Obtain(r, s) ==
    /\ Ready(r, s)
    /\ outputs[r][s] = None
    /\ \E o \in Outputs : /\ <<Effective(r, s), o>> \in produced
                          /\ outputs' = [outputs EXCEPT ![r][s] = o]
    /\ UNCHANGED <<request, produced>>

Next == \E r \in Runs : Begin(r) \/ \E s \in Steps : Execute(r, s) \/ Obtain(r, s)

Spec == Init /\ [][Next]_vars
=============================================================================
