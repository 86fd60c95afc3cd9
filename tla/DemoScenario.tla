---------------------------- MODULE DemoScenario -----------------------------
(***************************************************************************)
(* The scenario routes of delta/web.py: tabs of one browser, each with at     *)
(* most one request, against a server that answers each request in a thread.  *)
(*                                                                         *)
(* The signed cookie says which generation of each scenario is the browser's; *)
(* a generation is a store scope of its own, and the scope's marker says      *)
(* whether the generation is set up, or which one replaced it.  A request    *)
(* works with the cookie it was sent with.  It is split at every write, and   *)
(* between a check and what is done because of it.                          *)
(***************************************************************************)
EXTENDS Integers, Sequences, FiniteSets

CONSTANTS
    Tabs,
    Scenarios,
    Opens,        \* [Tabs -> Scenarios]: the scenario a tab shows
    Workspaces,   \* those that logins may create; a page belongs to the login it was loaded
                  \* under, which is not modelled: a run has one
    Generations,  \* the random identifiers there are to draw: a bound
    Environment,  \* subset of Conditions
    None

\* crash: the server process dies; store_failure: a read or write of the store
\* raises; answer_lost: an answer does not reach the browser
Conditions == {"crash", "store_failure", "answer_lost"}

\* The generation of a scenario that the cookie does not mention
G0 == "g0"

ASSUME DemoAssumption ==
    /\ Opens \in [Tabs -> Scenarios]
    /\ Environment \subseteq Conditions
    /\ G0 \notin Generations
    /\ None \notin Generations \cup {G0} /\ None \notin Workspaces
    /\ None \notin [workspace: Workspaces, generations: [Scenarios -> Generations \cup {None}]]
    /\ None \notin [generation: Generations \cup {G0}, initialized: BOOLEAN]

VARIABLES
    jar,        \* the browser's cookie
    tab,        \* the tabs and their requests
    marker,     \* the scenario marker of each scope (HOT)
    records,    \* the kinds of records in each scope; "head" is an active-attempt head
    drawn,      \* the workspaces and generations in use
    cut,        \* observer: scopes retired by a reset whose answer never arrives
    overlapped  \* observer: scopes written to after they were retired

vars == <<jar, tab, marker, records, drawn, cut, overlapped>>

-----------------------------------------------------------------------------
Session == [workspace: Workspaces, generations: [Scenarios -> Generations \cup {None}]]
Scope == [workspace: Workspaces, scenario: Scenarios, generation: Generations \cup {G0}]
Marker == [generation: Generations, initialized: BOOLEAN]

Kinds == {"plan", "attempt", "work", "handoff", "receipt", "session", "run", "head"}

\* The routes /api/scenarios/<id>, /handoff, /agent-run and /reset
Routes == {"state", "handoff", "agent_run", "reset"}

\* _RESET_LOCK is held.
Locked == {"retiring", "deleting", "recreating"}
PCs == Locked \cup {"idle", "sent", "initializing", "ready", "writing", "answered"}

Tab == [pc: PCs, route: Routes, session: Session \cup {None},
        shown: Generations \cup {None},             \* what the page shows, and sends along
        generation: Generations \cup {G0, None},    \* what the request works on
        next: Generations \cup {None},              \* what a reset puts in its place
        todo: Seq(Kinds \cup {"release"}),          \* writes, or deletions, to come
        reply: {"none", "ok", "refused", "error"},
        set_cookie: BOOLEAN]

DemoTypeOK ==
    /\ jar \in Session \cup {None}
    /\ tab \in [Tabs -> Tab]
    /\ marker \in [Scope -> Marker \cup {None}]
    /\ records \in [Scope -> SUBSET Kinds]
    /\ drawn \subseteq Workspaces \cup Generations
    /\ cut \subseteq Scope /\ overlapped \subseteq Scope

\* A tab that shows a generation, or none, and waits for nothing
Resting(shown) ==
    [pc |-> "idle", route |-> "state", session |-> None, shown |-> shown, generation |-> None,
     next |-> None, todo |-> <<>>, reply |-> "none", set_cookie |-> FALSE]

Init ==
    /\ jar = None
    /\ tab = [t \in Tabs |-> Resting(None)]
    /\ marker = [sc \in Scope |-> None]
    /\ records = [sc \in Scope |-> {}]
    /\ drawn = {}
    /\ cut = {} /\ overlapped = {}

\* generation_for
GenerationFor(session, s) ==
    IF session.generations[s] = None THEN G0 ELSE session.generations[s]

\* workspace_scope
ScopeOf(session, s, g) == [workspace |-> session.workspace, scenario |-> s, generation |-> g]

\* The scope a request was admitted to, and the one it writes to
OldScope(t) == ScopeOf(tab[t].session, Opens[t], tab[t].generation)
Target(t) == IF tab[t].pc = "recreating"
             THEN ScopeOf(tab[t].session, Opens[t], tab[t].next) ELSE OldScope(t)

\* The marker names another generation than its scope's own.
Retired(sc) == marker[sc] # None /\ marker[sc].generation # sc.generation
Ready(sc) == marker[sc] # None /\ marker[sc].initialized

LockFree == \A t \in Tabs : tab[t].pc \notin Locked
Fresh == Generations \ drawn
Busy == {t \in Tabs : tab[t].pc # "idle"}

Answer(t, reply) ==
    tab' = [tab EXCEPT ![t].pc = "answered", ![t].reply = reply, ![t].set_cookie = @ /\ reply = "ok"]

-----------------------------------------------------------------------------
\* _handle_login: a session of a new workspace
Login ==
    /\ jar = None
    /\ \E w \in Workspaces \ drawn :
         /\ jar' = [workspace |-> w, generations |-> [s \in Scenarios |-> None]]
         /\ drawn' = drawn \cup {w}
    /\ UNCHANGED <<tab, marker, records, cut, overlapped>>

\* _handle_logout: nothing but the cookie is removed
Logout ==
    /\ jar # None
    /\ jar' = None
    /\ UNCHANGED <<tab, marker, records, drawn, cut, overlapped>>

\* A page sends its cookie and what it shows; loading the page forgets that.  Every
\* request under way may need an identifier, so one must be left for each.
Send(t, route) ==
    /\ jar # None
    /\ tab[t].pc = "idle"
    /\ Cardinality(Fresh) > Cardinality(Busy)
    /\ tab' = [tab EXCEPT ![t].pc = "sent", ![t].route = route, ![t].session = jar,
                          ![t].shown = IF route = "state" THEN None ELSE @]
    /\ UNCHANGED <<jar, marker, records, drawn, cut, overlapped>>

-----------------------------------------------------------------------------
\* What an execution of the scenario's workflow writes; one step stands for all.
EngineWrites == <<"plan", "attempt", "head", "work", "release">>
HandoffWrites == <<"handoff", "receipt">>
AgentRunWrites == <<"handoff", "session">> \o EngineWrites \o <<"receipt", "run">>

\* Mutant: a request is admitted without a look at the marker's generation.
AdmitAnyGeneration(t) ==
    /\ tab[t].pc = "sent" /\ tab[t].route # "reset"
    /\ LET g == tab[t].session.generations[Opens[t]] IN
       /\ g # None
       /\ tab' = [tab EXCEPT ![t].pc = "initializing", ![t].generation = g, ![t].todo = EngineWrites]
    /\ UNCHANGED <<jar, marker, records, drawn, cut, overlapped>>

\* _scenario_session, up to the engine: the cookie's generation, or a new one that
\* only this answer will tell the browser about
Admit(t) ==
    /\ tab[t].pc = "sent" /\ tab[t].route # "reset"
    /\ LET known == tab[t].session.generations[Opens[t]] IN
       \E g \in IF known = None THEN Fresh ELSE {known} :
         LET sc == ScopeOf(tab[t].session, Opens[t], g) IN
         /\ ~ Retired(sc)
         /\ tab' = [tab EXCEPT ![t].session.generations[Opens[t]] = g,
                               ![t].generation = g,
                               ![t].set_cookie = (known = None),
                               ![t].pc = IF Ready(sc) THEN "ready" ELSE "initializing",
                               ![t].todo = IF Ready(sc) THEN <<>> ELSE EngineWrites]
         /\ drawn' = drawn \cup {g}
    /\ UNCHANGED <<jar, marker, records, cut, overlapped>>

\* StaleScenarioError
RefuseRetired(t) ==
    /\ tab[t].pc = "sent"
    /\ tab[t].route = "reset" => LockFree
    /\ Retired(ScopeOf(tab[t].session, Opens[t], GenerationFor(tab[t].session, Opens[t])))
    /\ Answer(t, "refused")
    /\ UNCHANGED <<jar, marker, records, drawn, cut, overlapped>>

\* save_demo_marker for an execution that has ended
Established(t, g) == marker' = [marker EXCEPT ![Target(t)] = [generation |-> g, initialized |-> TRUE]]

\* _scenario_session, after the engine
SaveMarker(t) ==
    /\ tab[t].pc = "initializing" /\ tab[t].todo = <<>>
    /\ Established(t, tab[t].generation)
    /\ tab' = [tab EXCEPT ![t].pc = "ready"]
    /\ UNCHANGED <<jar, records, drawn, cut, overlapped>>

\* _handle_scenario_state
AnswerState(t) ==
    /\ tab[t].pc = "ready" /\ tab[t].route = "state"
    /\ Answer(t, "ok")
    /\ UNCHANGED <<jar, marker, records, drawn, cut, overlapped>>

\* A page that shows another generation is told so, in an answer without a cookie.
RefusePage(t) ==
    /\ \/ tab[t].pc = "ready" /\ tab[t].route # "state" /\ tab[t].shown # tab[t].generation
       \/ /\ tab[t].pc = "sent" /\ tab[t].route = "reset"
          /\ tab[t].shown # GenerationFor(tab[t].session, Opens[t])
    /\ tab[t].shown # None
    /\ Answer(t, "refused")
    /\ UNCHANGED <<jar, marker, records, drawn, cut, overlapped>>

\* _handle_scenario_handoff and _handle_scenario_agent_run
Process(t) ==
    /\ tab[t].pc = "ready" /\ tab[t].route # "state"
    /\ tab[t].shown \in {None, tab[t].generation}
    /\ tab' = [tab EXCEPT ![t].pc = "writing",
                          ![t].todo = IF tab[t].route = "handoff" THEN HandoffWrites ELSE AgentRunWrites]
    /\ UNCHANGED <<jar, marker, records, drawn, cut, overlapped>>

\* The next write of an engine, gate or agent handoff into its scope
Write(t) ==
    /\ tab[t].pc \in {"initializing", "writing", "recreating"} /\ tab[t].todo # <<>>
    /\ LET kind == Head(tab[t].todo) IN
       records' = [records EXCEPT ![Target(t)] =
                     IF kind = "release" THEN @ \ {"head"} ELSE @ \cup {kind}]
    /\ tab' = [tab EXCEPT ![t].todo = Tail(@)]
    /\ overlapped' = IF Retired(Target(t)) THEN overlapped \cup {Target(t)} ELSE overlapped
    /\ UNCHANGED <<jar, marker, drawn, cut>>

\* The engine finds everything it needs in the store.
EngineReuses(t) ==
    /\ tab[t].pc \in {"initializing", "writing", "recreating"}
    /\ tab[t].todo # <<>> /\ Head(tab[t].todo) = "attempt"
    /\ "work" \in records[Target(t)]
    /\ tab' = [tab EXCEPT ![t].todo = SubSeq(@, Len(EngineWrites), Len(@))]
    /\ UNCHANGED <<jar, marker, records, drawn, cut, overlapped>>

AnswerProcessed(t) ==
    /\ tab[t].pc = "writing" /\ tab[t].todo = <<>>
    /\ Answer(t, "ok")
    /\ UNCHANGED <<jar, marker, records, drawn, cut, overlapped>>

-----------------------------------------------------------------------------
\* Mutant: the marker is looked at before the lock is waited for.
BeginResetUnlocked(t) ==
    /\ tab[t].pc = "sent" /\ tab[t].route = "reset"
    /\ LET g == GenerationFor(tab[t].session, Opens[t]) IN
       /\ tab[t].shown \in {None, g}
       /\ ~ Retired(ScopeOf(tab[t].session, Opens[t], g))
       /\ \E n \in Fresh :
            /\ tab' = [tab EXCEPT ![t].pc = "retiring", ![t].generation = g, ![t].next = n]
            /\ drawn' = drawn \cup {n}
    /\ UNCHANGED <<jar, marker, records, cut, overlapped>>

\* _handle_scenario_reset, up to its first write
BeginReset(t) ==
    /\ tab[t].pc = "sent" /\ tab[t].route = "reset"
    /\ LockFree
    /\ LET g == GenerationFor(tab[t].session, Opens[t]) IN
       /\ tab[t].shown \in {None, g}
       /\ ~ Retired(ScopeOf(tab[t].session, Opens[t], g))
       /\ \E n \in Fresh :
            /\ tab' = [tab EXCEPT ![t].pc = "retiring", ![t].generation = g, ![t].next = n]
            /\ drawn' = drawn \cup {n}
    /\ UNCHANGED <<jar, marker, records, cut, overlapped>>

\* Mutant: the kinds there were before agents handed work over.
DeletionsOfWork == <<"work", "attempt", "plan">>

\* The kinds delete_scope_records lists, in its order
Deletions == <<"work", "attempt", "plan", "handoff", "receipt", "session", "run">>

\* It is called for the records of one workflow, and the payloads of agent sessions
\* and runs name none.
Erasable == Kinds \ {"session", "run"}

\* Mutant: the marker is saved when everything else is done.
RetireLater(t) ==
    /\ tab[t].pc = "retiring"
    /\ tab' = [tab EXCEPT ![t].pc = "deleting", ![t].todo = Deletions]
    /\ UNCHANGED <<jar, marker, records, drawn, cut, overlapped>>

\* save_demo_marker for the old scope
Retire(t) ==
    /\ tab[t].pc = "retiring"
    /\ marker' = [marker EXCEPT ![OldScope(t)] = [generation |-> tab[t].next, initialized |-> FALSE]]
    /\ tab' = [tab EXCEPT ![t].pc = "deleting", ![t].todo = Deletions]
    /\ UNCHANGED <<jar, records, drawn, cut, overlapped>>

\* One category of delete_scope_records
DeleteKind(t) ==
    /\ tab[t].pc = "deleting" /\ tab[t].todo # <<>>
    /\ records' = [records EXCEPT ![OldScope(t)] = @ \ ({Head(tab[t].todo)} \cap Erasable)]
    /\ tab' = [tab EXCEPT ![t].todo = Tail(@)]
    /\ UNCHANGED <<jar, marker, drawn, cut, overlapped>>

\* Mutant: the answer will not carry the session that names the new generation.
ResetHeadsWithoutCookie(t) ==
    /\ tab[t].pc = "deleting" /\ tab[t].todo = <<>>
    /\ records' = [records EXCEPT ![OldScope(t)] = @ \ {"head"}]
    /\ tab' = [tab EXCEPT ![t].pc = "recreating", ![t].todo = EngineWrites]
    /\ UNCHANGED <<jar, marker, drawn, cut, overlapped>>

\* reset_active_heads; the session then names the new generation
ResetHeads(t) ==
    /\ tab[t].pc = "deleting" /\ tab[t].todo = <<>>
    /\ records' = [records EXCEPT ![OldScope(t)] = @ \ {"head"}]
    /\ tab' = [tab EXCEPT ![t].pc = "recreating", ![t].todo = EngineWrites,
                          ![t].session.generations[Opens[t]] = tab[t].next, ![t].set_cookie = TRUE]
    /\ UNCHANGED <<jar, marker, drawn, cut, overlapped>>

AnswerReset(t) ==
    /\ tab[t].pc = "recreating" /\ tab[t].todo = <<>>
    /\ Established(t, tab[t].next)
    /\ Answer(t, "ok")
    /\ UNCHANGED <<jar, records, drawn, cut, overlapped>>

-----------------------------------------------------------------------------
\* Mutant: a page that reset its scenario goes on showing what it showed before.
DeliverOldGeneration(t) ==
    /\ tab[t].pc = "answered"
    /\ jar' = IF tab[t].set_cookie THEN tab[t].session ELSE jar
    /\ tab' = [tab EXCEPT ![t] = Resting(IF tab[t].reply = "ok" THEN tab[t].generation ELSE tab[t].shown)]
    /\ UNCHANGED <<marker, records, drawn, cut, overlapped>>

\* The browser takes the cookie and shows the generation it is told.
Deliver(t) ==
    /\ tab[t].pc = "answered"
    /\ jar' = IF tab[t].set_cookie THEN tab[t].session ELSE jar
    /\ tab' = [tab EXCEPT ![t] = Resting(
                 IF tab[t].reply # "ok" THEN tab[t].shown
                 ELSE IF tab[t].route = "reset" THEN tab[t].next ELSE tab[t].generation)]
    /\ UNCHANGED <<marker, records, drawn, cut, overlapped>>

\* A reset whose old scope is retired, and which has its answer still to come
Resetting(t) == tab[t].route = "reset" /\ (tab[t].pc \in {"deleting", "recreating"} \/ tab[t].reply = "ok")
CutShort(gone) == cut' = cut \cup {OldScope(t) : t \in {u \in gone : Resetting(u)}}

LoseAnswer(t) ==
    /\ "answer_lost" \in Environment
    /\ tab[t].pc = "answered"
    /\ tab' = [tab EXCEPT ![t] = Resting(tab[t].shown)]
    /\ CutShort({t})
    /\ UNCHANGED <<jar, marker, records, drawn, overlapped>>

\* The handler raises and the application answers 503 or 422.
StoreFails(t) ==
    /\ "store_failure" \in Environment
    /\ tab[t].pc \notin {"idle", "answered"}
    /\ Answer(t, "error")
    /\ CutShort({t})
    /\ UNCHANGED <<jar, marker, records, drawn, overlapped>>

InServer(t) == tab[t].pc \notin {"idle", "answered"}

\* The process dies, and with it its requests and the lock.
Crash ==
    /\ "crash" \in Environment
    /\ \E t \in Tabs : InServer(t)
    /\ tab' = [t \in Tabs |-> IF InServer(t) THEN Resting(tab[t].shown) ELSE tab[t]]
    /\ CutShort({t \in Tabs : InServer(t)})
    /\ UNCHANGED <<jar, marker, records, drawn, overlapped>>

\* What goes on by itself once a request is sent
Serve(t) ==
    \/ Admit(t) \/ RefuseRetired(t) \/ RefusePage(t) \/ SaveMarker(t)
    \/ AnswerState(t) \/ Process(t) \/ Write(t) \/ EngineReuses(t) \/ AnswerProcessed(t)
    \/ BeginReset(t) \/ Retire(t) \/ DeleteKind(t) \/ ResetHeads(t) \/ AnswerReset(t)
    \/ Deliver(t)

Next ==
    \/ Login \/ Logout \/ Crash
    \/ \E t \in Tabs : Serve(t) \/ LoseAnswer(t) \/ StoreFails(t) \/ \E route \in Routes : Send(t, route)

Spec == Init /\ [][Next]_vars
-----------------------------------------------------------------------------
\* A scenario that is marked as set up has agent A's work, whichever requests, resets
\* and crashes came between (_scenario_session, _handle_scenario_reset).
InitializedHasWork == \A sc \in Scope : Ready(sc) => "work" \in records[sc]

\* A retired generation is never current again: the marker left in its scope is not
\* overwritten, not even by a first opening that is still under way (save_demo_marker).
RetiredStaysRetired == [][\A sc \in Scope : Retired(sc) => marker'[sc] = marker[sc]]_vars

\* Of two resets of one generation only one succeeds: the generation a reset answers
\* with is the one its predecessor's marker names (_RESET_LOCK).
OneSuccessor ==
    \A t \in Tabs : Resetting(t) => marker[OldScope(t)] = [generation |-> tab[t].next, initialized |-> FALSE]

\* The browser holds a retired generation only while the answer of the reset that
\* retired it is to come, or if it was lost: else every later request, and every
\* further reset, would be refused (_scenario_session, Set-Cookie).
CookieCurrent ==
    jar # None => \A s \in Scenarios :
        LET sc == ScopeOf(jar, s, GenerationFor(jar, s)) IN
        jar.generations[s] # None /\ Retired(sc) =>
            sc \in cut \/ \E t \in Tabs : Resetting(t) /\ OldScope(t) = sc

\* Nothing but agent sessions and runs is left of a generation after its reset, unless
\* a request that was admitted before wrote to it afterwards (delete_scope_records).
ErasedUnlessOverlapped ==
    \A sc \in Scope :
        Retired(sc) /\ sc \notin cut \cup overlapped
        /\ (\A t \in Tabs : tab[t].pc = "deleting" => OldScope(t) # sc)
        => records[sc] \cap Erasable = {}
=============================================================================
