------------------------- MODULE DemoScenarioProofs -------------------------
(***************************************************************************)
(* Theorems about DemoScenario for every number of tabs and scenarios and    *)
(* every environment: its types, that a scenario marked as set up has work,   *)
(* that a retired generation stays retired, that a generation has one         *)
(* successor, that a reset leaves nothing to be erased behind, and, for one   *)
(* scenario, that the browser's cookie does not outlive its generation.      *)
(*                                                                         *)
(* They rest on who can know a generation.  A request that sets one up has    *)
(* claimed it: no cookie, marker or other request names it until the marker   *)
(* is saved (Claiming), and every generation that a cookie names has a marker  *)
(* (Held).  So what a reset retires and deletes is never what a request sets   *)
(* up, and the marker a request saves is the first of its scope.            *)
(***************************************************************************)
EXTENDS DemoScenario, SequenceTheorems, TLAPS

AnsweredOk(t) == tab[t].pc = "answered" /\ tab[t].reply = "ok"

\* The generation a request has drawn and not yet marked, and its scope
Claiming(t) == tab[t].pc \in Locked \cup {"initializing"}
Claimed(t) == IF tab[t].pc = "initializing" THEN tab[t].generation ELSE tab[t].next
ClaimedScope(t) == ScopeOf(tab[t].session, Opens[t], Claimed(t))

Shape(t) ==
    /\ tab[t].pc # "idle" => tab[t].session \in Session
    /\ tab[t].reply = "ok" => tab[t].pc = "answered"
    /\ tab[t].pc \in {"initializing", "ready", "writing"} =>
         /\ tab[t].route # "reset"
         /\ tab[t].generation \in Generations
         /\ tab[t].session.generations[Opens[t]] = tab[t].generation
    /\ tab[t].pc \in Locked \/ (AnsweredOk(t) /\ tab[t].route = "reset") =>
         /\ tab[t].route = "reset"
         /\ tab[t].generation \in Generations \cup {G0}
         /\ tab[t].next \in Generations
         /\ tab[t].next # tab[t].generation
    /\ tab[t].pc = "recreating" => tab[t].session.generations[Opens[t]] = tab[t].next
    /\ tab[t].pc \in {"retiring", "deleting"} =>
         tab[t].generation = GenerationFor(tab[t].session, Opens[t])
    /\ AnsweredOk(t) /\ tab[t].route # "reset" => tab[t].generation \in Generations

\* Every generation a session names is drawn, and but for one is marked.
Names(session, s) == session.generations[s] # None
Marked(session, s) == marker[ScopeOf(session, s, session.generations[s])] # None

Held(t) ==
    \A s \in Scenarios : Names(tab[t].session, s) =>
        /\ tab[t].session.generations[s] \in drawn
        /\ \/ s = Opens[t] /\ tab[t].pc \in {"initializing", "recreating"}
           \/ Marked(tab[t].session, s)

Holding(t) == tab[t].pc \notin {"idle", "answered"} \/ (tab[t].pc = "answered" /\ tab[t].set_cookie)

\* An engine that sets a scenario up has written agent A's work, or will.
Working(t) ==
    tab[t].pc \in {"initializing", "recreating"} =>
        "work" \in records[Target(t)] \/ \E i \in DOMAIN tab[t].todo : tab[t].todo[i] = "work"

TabSound(t) ==
    /\ Shape(t)
    /\ Holding(t) => Held(t)
    /\ Claiming(t) => Claimed(t) \in drawn /\ marker[ClaimedScope(t)] = None
    /\ tab[t].pc = "retiring" => ~ Retired(OldScope(t))
    /\ Resetting(t) => marker[OldScope(t)] = [generation |-> tab[t].next, initialized |-> FALSE]
    /\ Working(t)

\* No two requests claim one generation, or hold the lock.
Apart ==
    \A t, u \in Tabs : t # u =>
        /\ Claiming(t) /\ Claiming(u) => Claimed(t) # Claimed(u)
        /\ ~ (tab[t].pc \in Locked /\ tab[u].pc \in Locked)

JarHeld ==
    jar # None => \A s \in Scenarios : Names(jar, s) => jar.generations[s] \in drawn /\ Marked(jar, s)

\* Only generations in use have markers, and a marker says that its scope is set up or
\* which generation replaced it.
MarkersDrawn ==
    \A sc \in Scope : marker[sc] # None =>
        sc.generation \in drawn \cup {G0} /\ (marker[sc].initialized \/ Retired(sc))

DemoInv ==
    /\ DemoTypeOK /\ (\A t \in Tabs : TabSound(t)) /\ Apart
    /\ JarHeld /\ MarkersDrawn /\ InitializedHasWork

-----------------------------------------------------------------------------
LEMMA ScopeTyped ==
    ASSUME NEW session \in Session, NEW s \in Scenarios, NEW g \in Generations \cup {G0}
    PROVE  ScopeOf(session, s, g) \in Scope
  BY DEF ScopeOf, Session, Scope

LEMMA SessionTyped ==
    ASSUME NEW session \in Session, NEW s \in Scenarios
    PROVE  session.generations[s] \in Generations \cup {None}
  BY DEF Session

LEMMA NoneApart ==
    None \notin Generations /\ None # G0 /\ None \notin Session /\ None \notin Marker /\ G0 \notin Generations
  BY DemoAssumption DEF Session, Marker

\* The scopes a request works with are scopes.
LEMMA TabScopes ==
    ASSUME NEW t \in Tabs, tab[t] \in Tab, Shape(t), tab[t].pc # "idle"
    PROVE  /\ tab[t].session \in Session
           /\ Claiming(t) => Claimed(t) \in Generations /\ ClaimedScope(t) \in Scope
           /\ Claiming(t) \/ tab[t].pc = "writing" \/ Resetting(t) => OldScope(t) \in Scope
           /\ tab[t].pc \in {"initializing", "recreating"} => Target(t) = ClaimedScope(t)
           /\ Claiming(t) \/ tab[t].pc = "writing" => Target(t) \in Scope
  <1>1. tab[t].session \in Session /\ Opens[t] \in Scenarios
    BY DemoAssumption DEF Shape
  <1>2. Claiming(t) => Claimed(t) \in Generations
    BY DEF Claiming, Claimed, Shape, Locked
  <1>3. Claiming(t) \/ tab[t].pc = "writing" \/ Resetting(t) => tab[t].generation \in Generations \cup {G0}
    BY DEF Claiming, Shape, Locked, Resetting, AnsweredOk
  <1>4. tab[t].pc \in {"initializing", "recreating"} => Target(t) = ClaimedScope(t)
    BY DEF Target, ClaimedScope, Claimed, OldScope
  <1>5. Claiming(t) \/ tab[t].pc = "writing" => Target(t) \in Scope
    BY <1>1, <1>2, <1>3, ScopeTyped DEF Target, OldScope, Claiming, Claimed, Locked
  <1> QED BY <1>1, <1>2, <1>3, <1>4, <1>5, ScopeTyped DEF ClaimedScope, OldScope

\* A request that does not move stays sound if others leave alone what it relies on.
LEMMA TabStays ==
    ASSUME NEW q \in Tabs, tab[q] \in Tab, TabSound(q), tab'[q] = tab[q], drawn \subseteq drawn',
           \A sc \in Scope : marker[sc] # None => marker'[sc] # None,
           Claiming(q) => marker'[ClaimedScope(q)] = marker[ClaimedScope(q)],
           tab[q].pc = "retiring" \/ Resetting(q) => marker'[OldScope(q)] = marker[OldScope(q)],
           tab[q].pc \in {"initializing", "recreating"} /\ "work" \in records[Target(q)]
             => "work" \in records'[Target(q)]
    PROVE  TabSound(q)'
  <1>1. Shape(q)'
    BY DEF TabSound, Shape, AnsweredOk, GenerationFor
  <1>2. Holding(q)' => Held(q)'
    <2>1. Holding(q)' = Holding(q)
      BY DEF Holding
    <2>2. CASE Holding(q)
      <3>1. tab[q].session \in Session
        BY <2>2 DEF TabSound, Shape, Holding
      <3>2. ASSUME NEW s \in Scenarios, Names(tab[q].session, s), Marked(tab[q].session, s)
            PROVE  Marked(tab[q].session, s)'
        <4>1. ScopeOf(tab[q].session, s, tab[q].session.generations[s]) \in Scope
          BY <3>1, <3>2, ScopeTyped, SessionTyped DEF Names
        <4> QED BY <3>2, <4>1 DEF Marked, ScopeOf
      <3> QED BY <2>2, <3>2 DEF TabSound, Held, Names
    <2> QED BY <2>1, <2>2
  <1>3. Claiming(q)' => (Claimed(q) \in drawn)' /\ (marker[ClaimedScope(q)])' = None
    BY DEF TabSound, Claiming, Claimed, ClaimedScope, ScopeOf
  <1>4. tab'[q].pc = "retiring" => ~ Retired(OldScope(q))'
    BY DEF TabSound, Retired, OldScope, ScopeOf
  <1>5. Resetting(q)' => (marker[OldScope(q)])' = [generation |-> tab'[q].next, initialized |-> FALSE]
    BY DEF TabSound, Resetting, OldScope, ScopeOf
  <1>6. Working(q)'
    BY DEF TabSound, Working, Target, OldScope, ScopeOf
  <1> QED BY <1>1, <1>2, <1>3, <1>4, <1>5, <1>6 DEF TabSound

\* What a step must do for the invariant, if one tab moves: that tab stays sound; what it
\* claims is new; and it leaves alone what the other tabs rely on.
LEMMA StepSound ==
    ASSUME DemoInv, NEW t \in Tabs, DemoTypeOK', InitializedHasWork', JarHeld', TabSound(t)',
           \A q \in Tabs \ {t} : tab'[q] = tab[q],
           drawn \subseteq drawn',
           Claiming(t)' => Claimed(t)' \notin drawn \/ (Claiming(t) /\ Claimed(t)' = Claimed(t)),
           tab'[t].pc \in Locked => tab[t].pc \in Locked \/ LockFree,
           \A sc \in Scope :
             \/ marker'[sc] = marker[sc]
             \/ /\ marker'[sc] # None /\ sc.generation \in drawn' \cup {G0}
                /\ marker'[sc].initialized \/ Retired(sc)',
           \A q \in Tabs \ {t} :
             /\ Claiming(q) => marker'[ClaimedScope(q)] = marker[ClaimedScope(q)]
             /\ tab[q].pc = "retiring" \/ Resetting(q) => marker'[OldScope(q)] = marker[OldScope(q)]
             /\ tab[q].pc \in {"initializing", "recreating"} /\ "work" \in records[Target(q)]
                  => "work" \in records'[Target(q)]
    PROVE  DemoInv'
  <1>1. \A q \in Tabs : TabSound(q)'
    BY TabStays DEF DemoInv, DemoTypeOK
  <1>2. Apart'
    <2>1. ASSUME NEW q \in Tabs \ {t}
          PROVE  /\ Claiming(q)' = Claiming(q) /\ Claimed(q)' = Claimed(q)
                 /\ Claiming(q) => Claimed(q) \in drawn
      BY DEF Claiming, Claimed, DemoInv, TabSound
    <2>2. ASSUME NEW q \in Tabs \ {t}, Claiming(t)', Claiming(q)'
          PROVE  Claimed(t)' # Claimed(q)'
      BY <2>1, <2>2 DEF DemoInv, Apart
    <2>3. ASSUME NEW q \in Tabs \ {t} PROVE ~ (tab'[t].pc \in Locked /\ tab'[q].pc \in Locked)
      BY DEF DemoInv, Apart, LockFree
    <2>4. ASSUME NEW p \in Tabs \ {t}, NEW q \in Tabs \ {t}, p # q
          PROVE  /\ Claiming(p)' /\ Claiming(q)' => Claimed(p)' # Claimed(q)'
                 /\ ~ (tab'[p].pc \in Locked /\ tab'[q].pc \in Locked)
      BY <2>1, <2>4 DEF DemoInv, Apart
    <2> QED BY <2>2, <2>3, <2>4 DEF Apart
  <1>3. MarkersDrawn'
    BY DEF DemoInv, MarkersDrawn, Retired
  <1> QED BY <1>1, <1>2, <1>3 DEF DemoInv

\* The same for a step that leaves scopes, markers and identifiers alone.
LEMMA QuietStep ==
    ASSUME DemoInv, NEW t \in Tabs, UNCHANGED <<marker, records, drawn>>,
           tab' \in [Tabs -> Tab], jar' \in Session \cup {None},
           cut' \subseteq Scope, overlapped' \subseteq Scope,
           TabSound(t)', JarHeld', \A q \in Tabs \ {t} : tab'[q] = tab[q],
           Claiming(t)' => Claiming(t) /\ Claimed(t)' = Claimed(t),
           tab'[t].pc \in Locked => tab[t].pc \in Locked
    PROVE  DemoInv'
  <1>1. DemoTypeOK'
    BY DEF DemoInv, DemoTypeOK
  <1>2. InitializedHasWork'
    BY DEF DemoInv, InitializedHasWork, Ready
  <1>3. \A q \in Tabs \ {t} :
             /\ Claiming(q) => marker'[ClaimedScope(q)] = marker[ClaimedScope(q)]
             /\ tab[q].pc = "retiring" \/ Resetting(q) => marker'[OldScope(q)] = marker[OldScope(q)]
             /\ tab[q].pc \in {"initializing", "recreating"} /\ "work" \in records[Target(q)]
                  => "work" \in records'[Target(q)]
    OBVIOUS
  <1> QED BY <1>1, <1>2, <1>3, StepSound

\* The jar's generations stay marked when the jar stays and markers are only added.
LEMMA JarStays ==
    ASSUME DemoInv, jar' = jar, drawn \subseteq drawn',
           \A sc \in Scope : marker[sc] # None => marker'[sc] # None
    PROVE  JarHeld'
  <1> SUFFICES ASSUME jar # None, NEW s \in Scenarios, Names(jar, s)
               PROVE  jar.generations[s] \in drawn' /\ Marked(jar, s)'
    BY DEF JarHeld, Names, Marked
  <1>1. jar \in Session
    BY DEF DemoInv, DemoTypeOK
  <1>2. ScopeOf(jar, s, jar.generations[s]) \in Scope
    BY <1>1, ScopeTyped, SessionTyped DEF Names
  <1> QED BY <1>2 DEF DemoInv, JarHeld, Marked, ScopeOf

-----------------------------------------------------------------------------
(***************************************************************************)
(* Steps that leave scopes, markers and identifiers alone.                   *)
(***************************************************************************)
\* A request that is answered: what becomes of its tab
LEMMA AnswerSets ==
    ASSUME tab \in [Tabs -> Tab], NEW t \in Tabs, NEW reply \in {"ok", "refused", "error"},
           Answer(t, reply)
    PROVE  /\ tab' \in [Tabs -> Tab] /\ \A q \in Tabs \ {t} : tab'[q] = tab[q]
           /\ tab'[t].pc = "answered" /\ tab'[t].reply = reply
           /\ tab'[t].set_cookie <=> tab[t].set_cookie /\ reply = "ok"
           /\ tab'[t].session = tab[t].session /\ tab'[t].route = tab[t].route
           /\ tab'[t].generation = tab[t].generation /\ tab'[t].next = tab[t].next
  <1> DEFINE kept == tab[t].set_cookie /\ reply = "ok"
             x == [tab[t] EXCEPT !.pc = "answered", !.reply = reply, !.set_cookie = kept]
  <1>1. tab' = [tab EXCEPT ![t] = x]
    BY DEF Answer, Tab
  <1>2. kept \in BOOLEAN
    OBVIOUS
  <1> HIDE DEF kept
  <1>3. x \in Tab
    BY <1>2 DEF Tab, PCs
  <1>4. tab'[t] = x
    BY <1>1
  <1> QED BY <1>1, <1>3, <1>4 DEF Tab, kept

LEMMA RefusedKeeps ==
    ASSUME DemoInv, NEW t \in Tabs, tab[t].pc # "idle", NEW reply \in {"refused", "error"},
           Answer(t, reply), UNCHANGED <<jar, marker, records, drawn, overlapped>>, cut' \subseteq Scope
    PROVE  DemoInv'
  <1>1. /\ tab' \in [Tabs -> Tab] /\ \A q \in Tabs \ {t} : tab'[q] = tab[q]
        /\ tab'[t].pc = "answered" /\ tab'[t].reply = reply /\ ~ tab'[t].set_cookie
        /\ tab'[t].session = tab[t].session
    BY AnswerSets DEF DemoInv, DemoTypeOK
  <1>2. Shape(t)'
    BY <1>1 DEF DemoInv, TabSound, Shape, AnsweredOk, Locked
  <1>3. TabSound(t)'
    BY <1>1, <1>2 DEF TabSound, Holding, Claiming, Resetting, Working, Locked
  <1>4. JarHeld'
    BY JarStays
  <1> QED BY <1>1, <1>3, <1>4, QuietStep DEF DemoInv, DemoTypeOK, Claiming, Locked

LEMMA AnsweredKeeps ==
    ASSUME DemoInv, NEW t \in Tabs, tab[t].pc \in {"ready", "writing"}, Answer(t, "ok"),
           UNCHANGED <<jar, marker, records, drawn, cut, overlapped>>
    PROVE  DemoInv'
  <1>1. /\ tab' \in [Tabs -> Tab] /\ \A q \in Tabs \ {t} : tab'[q] = tab[q]
        /\ tab'[t].pc = "answered" /\ tab'[t].reply = "ok"
        /\ tab'[t].session = tab[t].session /\ tab'[t].route = tab[t].route
        /\ tab'[t].generation = tab[t].generation /\ tab'[t].next = tab[t].next
    BY AnswerSets DEF DemoInv, DemoTypeOK
  <1>2. Shape(t)'
    BY <1>1 DEF DemoInv, TabSound, Shape, AnsweredOk, Locked
  <1>3. Held(t)'
    BY <1>1 DEF DemoInv, TabSound, Held, Holding, Names, Marked, ScopeOf
  <1>4. ~ Resetting(t)'
    BY <1>1 DEF DemoInv, TabSound, Shape, Resetting
  <1>5. TabSound(t)'
    BY <1>1, <1>2, <1>3, <1>4 DEF TabSound, Claiming, Working, Locked
  <1>6. JarHeld'
    BY JarStays
  <1> QED BY <1>1, <1>5, <1>6, QuietStep DEF DemoInv, DemoTypeOK, Claiming, Locked

LEMMA SendKeeps ==
    ASSUME DemoInv, NEW t \in Tabs, NEW route \in Routes, Send(t, route)
    PROVE  DemoInv'
  <1> DEFINE x == [tab[t] EXCEPT !.pc = "sent", !.route = route, !.session = jar,
                                 !.shown = IF route = "state" THEN None ELSE @]
  <1>1. tab \in [Tabs -> Tab] /\ tab[t] \in Tab /\ jar \in Session
    BY DEF DemoInv, DemoTypeOK, Send
  <1>2. tab' = [tab EXCEPT ![t] = x]
    BY <1>1 DEF Send, Tab
  <1>3. x \in Tab
    BY <1>1 DEF Tab, PCs
  <1>4. tab'[t] = x
    BY <1>1, <1>2
  <1>5. /\ tab'[t].pc = "sent" /\ tab'[t].session = jar /\ tab'[t].reply = tab[t].reply
        /\ UNCHANGED <<jar, marker, records, drawn, cut, overlapped>>
    BY <1>1, <1>4 DEF Send, Tab
  <1>6. tab[t].pc = "idle" /\ tab[t].reply # "ok"
    BY DEF Send, DemoInv, TabSound, Shape
  <1> HIDE DEF x
  <1>7. Shape(t)'
    BY <1>1, <1>5, <1>6 DEF Shape, AnsweredOk, Locked
  <1>8. Held(t)'
    <2>1. jar # None
      BY DEF Send
    <2> QED BY <1>5, <2>1 DEF DemoInv, JarHeld, Held, Names, Marked, ScopeOf
  <1>9. ~ Resetting(t)'
    BY <1>5, <1>6 DEF Resetting
  <1>10. TabSound(t)'
    BY <1>5, <1>7, <1>8, <1>9 DEF TabSound, Claiming, Working, Locked
  <1>11. JarHeld'
    BY <1>5, JarStays
  <1> QED BY <1>2, <1>3, <1>5, <1>10, <1>11, QuietStep DEF DemoInv, DemoTypeOK, Claiming, Locked

LEMMA ProcessKeeps ==
    ASSUME DemoInv, NEW t \in Tabs, Process(t)
    PROVE  DemoInv'
  <1> DEFINE todo == IF tab[t].route = "handoff" THEN HandoffWrites ELSE AgentRunWrites
             x == [tab[t] EXCEPT !.pc = "writing", !.todo = todo]
  <1>1. tab \in [Tabs -> Tab] /\ tab[t] \in Tab
    BY DEF DemoInv, DemoTypeOK
  <1>2. tab' = [tab EXCEPT ![t] = x]
    BY <1>1 DEF Process, Tab
  <1>3. todo \in Seq(Kinds \cup {"release"})
    <2>1. /\ HandoffWrites \in Seq(Kinds \cup {"release"})
          /\ EngineWrites \in Seq(Kinds \cup {"release"})
          /\ <<"handoff", "session">> \in Seq(Kinds \cup {"release"})
          /\ <<"receipt", "run">> \in Seq(Kinds \cup {"release"})
      BY DEF HandoffWrites, EngineWrites, Kinds
    <2>2. AgentRunWrites \in Seq(Kinds \cup {"release"})
      BY <2>1 DEF AgentRunWrites
    <2> QED BY <2>1, <2>2
  <1> HIDE DEF todo
  <1>4. x \in Tab
    BY <1>1, <1>3 DEF Tab, PCs
  <1>5. /\ tab'[t].pc = "writing" /\ tab'[t].session = tab[t].session /\ tab'[t].reply = tab[t].reply
        /\ tab'[t].route = tab[t].route /\ tab'[t].generation = tab[t].generation
        /\ UNCHANGED <<jar, marker, records, drawn, cut, overlapped>> /\ tab[t].pc = "ready"
    BY <1>1, <1>2 DEF Process, Tab
  <1> HIDE DEF x
  <1>6. Shape(t)'
    BY <1>5 DEF DemoInv, TabSound, Shape, AnsweredOk, Locked
  <1>7. Held(t)'
    BY <1>5 DEF DemoInv, TabSound, Held, Holding, Names, Marked, ScopeOf
  <1>8. ~ Resetting(t)'
    BY <1>5 DEF DemoInv, TabSound, Shape, Resetting
  <1>9. TabSound(t)'
    BY <1>5, <1>6, <1>7, <1>8 DEF TabSound, Claiming, Working, Locked
  <1>10. JarHeld'
    BY <1>5, JarStays
  <1> QED BY <1>2, <1>4, <1>5, <1>9, <1>10, QuietStep DEF DemoInv, DemoTypeOK, Claiming, Locked

LEMMA EngineReusesKeeps ==
    ASSUME DemoInv, NEW t \in Tabs, EngineReuses(t)
    PROVE  DemoInv'
  <1> DEFINE todo == SubSeq(tab[t].todo, Len(EngineWrites), Len(tab[t].todo))
             x == [tab[t] EXCEPT !.todo = todo]
  <1>1. tab \in [Tabs -> Tab] /\ tab[t] \in Tab
    BY DEF DemoInv, DemoTypeOK
  <1>2. tab' = [tab EXCEPT ![t] = x]
    BY <1>1 DEF EngineReuses, Tab
  <1>3. todo \in Seq(Kinds \cup {"release"})
    <2>1. Len(EngineWrites) = 5 /\ tab[t].todo \in Seq(Kinds \cup {"release"})
      BY <1>1 DEF EngineWrites, Tab
    <2>2. \A i \in 5..Len(tab[t].todo) : tab[t].todo[i] \in Kinds \cup {"release"}
      BY <2>1
    <2> QED BY <2>1, <2>2, SubSeqProperties
  <1> HIDE DEF todo
  <1>4. x \in Tab
    BY <1>1, <1>3 DEF Tab
  <1>5. /\ tab'[t].pc = tab[t].pc /\ tab'[t].session = tab[t].session /\ tab'[t].reply = tab[t].reply
        /\ tab'[t].route = tab[t].route /\ tab'[t].generation = tab[t].generation
        /\ tab'[t].next = tab[t].next /\ tab'[t].set_cookie = tab[t].set_cookie
    BY <1>1, <1>2 DEF Tab
  <1> HIDE DEF x
  <1>6. /\ UNCHANGED <<jar, marker, records, drawn, cut, overlapped>>
        /\ "work" \in records[Target(t)]
        /\ tab[t].pc \in {"initializing", "writing", "recreating"}
    BY DEF EngineReuses
  <1>7. Shape(t)'
    BY <1>5 DEF DemoInv, TabSound, Shape, AnsweredOk, GenerationFor
  <1>8. Held(t)'
    BY <1>5, <1>6 DEF DemoInv, TabSound, Held, Holding, Names, Marked, ScopeOf
  <1>9. OldScope(t)' = OldScope(t) /\ Target(t)' = Target(t) /\ ClaimedScope(t)' = ClaimedScope(t)
    BY <1>5 DEF OldScope, Target, ClaimedScope, Claimed, ScopeOf
  <1>10. Claiming(t)' = Claiming(t) /\ Claimed(t)' = Claimed(t) /\ Resetting(t)' = Resetting(t)
    BY <1>5 DEF Claiming, Claimed, Resetting
  <1>11. Working(t)'
    BY <1>6, <1>9 DEF Working
  <1>12. TabSound(t)'
    BY <1>5, <1>6, <1>7, <1>8, <1>9, <1>10, <1>11 DEF DemoInv, TabSound, Retired
  <1>13. JarHeld'
    BY <1>6, JarStays
  <1> QED BY <1>2, <1>4, <1>5, <1>6, <1>10, <1>12, <1>13, QuietStep DEF DemoInv, DemoTypeOK

\* A tab that waits for nothing relies on nothing.
LEMMA RestingSound ==
    ASSUME NEW t \in Tabs, NEW shown \in Generations \cup {None}, tab'[t] = Resting(shown)
    PROVE  TabSound(t)' /\ Resting(shown) \in Tab /\ ~ Claiming(t)' /\ tab'[t].pc = "idle"
  <1>1. /\ tab'[t].pc = "idle" /\ tab'[t].reply = "none" /\ tab'[t].route = "state"
        /\ ~ tab'[t].set_cookie
    BY DEF Resting
  <1>2. Resting(shown) \in Tab
    BY DEF Resting, Tab, PCs, Routes
  <1> QED BY <1>1, <1>2 DEF TabSound, Shape, Holding, Claiming, Resetting, Working, Locked, AnsweredOk

LEMMA CutTyped ==
    ASSUME DemoInv, NEW gone \in SUBSET Tabs, CutShort(gone)
    PROVE  cut' \subseteq Scope
  <1>1. ASSUME NEW t \in gone, Resetting(t) PROVE OldScope(t) \in Scope
    <2>1. tab[t].pc # "idle"
      BY <1>1 DEF DemoInv, TabSound, Shape, Resetting
    <2> QED BY <1>1, <2>1, TabScopes DEF DemoInv, DemoTypeOK, TabSound
  <1> QED BY <1>1 DEF CutShort, DemoInv, DemoTypeOK

LEMMA DeliverKeeps ==
    ASSUME DemoInv, NEW t \in Tabs, Deliver(t)
    PROVE  DemoInv'
  <1> DEFINE shown == IF tab[t].reply # "ok" THEN tab[t].shown
                      ELSE IF tab[t].route = "reset" THEN tab[t].next ELSE tab[t].generation
  <1>1. tab \in [Tabs -> Tab] /\ tab[t] \in Tab /\ Shape(t) /\ (Holding(t) => Held(t))
    BY DEF DemoInv, DemoTypeOK, TabSound
  <1>2. shown \in Generations \cup {None}
    BY <1>1 DEF Tab, Shape, AnsweredOk, Deliver
  <1>3. tab' = [tab EXCEPT ![t] = Resting(shown)]
    BY DEF Deliver
  <1> HIDE DEF shown
  <1>4. TabSound(t)' /\ Resting(shown) \in Tab /\ ~ Claiming(t)' /\ tab'[t].pc = "idle"
    BY <1>1, <1>2, <1>3, RestingSound
  <1>5. tab' \in [Tabs -> Tab] /\ \A q \in Tabs \ {t} : tab'[q] = tab[q]
    BY <1>1, <1>3, <1>4
  <1>6. UNCHANGED <<marker, records, drawn, cut, overlapped>> /\ tab[t].pc = "answered"
    BY DEF Deliver
  <1>7. jar' \in Session \cup {None} /\ JarHeld'
    <2>1. CASE tab[t].set_cookie
      <3>1. jar' = tab[t].session /\ tab[t].session \in Session
        BY <1>1, <1>6, <2>1 DEF Deliver, Shape
      <3>2. Held(t)
        BY <1>1, <1>6, <2>1 DEF Holding
      <3> QED BY <1>6, <3>1, <3>2 DEF Held, JarHeld, Names, Marked, ScopeOf
    <2>2. CASE ~ tab[t].set_cookie
      <3>1. jar' = jar
        BY <2>2 DEF Deliver
      <3> QED BY <1>6, <3>1, JarStays DEF DemoInv, DemoTypeOK
    <2> QED BY <2>1, <2>2
  <1> QED BY <1>4, <1>5, <1>6, <1>7, QuietStep DEF DemoInv, DemoTypeOK, Locked

LEMMA LoseAnswerKeeps ==
    ASSUME DemoInv, NEW t \in Tabs, LoseAnswer(t)
    PROVE  DemoInv'
  <1>1. tab \in [Tabs -> Tab] /\ tab[t].shown \in Generations \cup {None}
    BY DEF DemoInv, DemoTypeOK, Tab
  <1>2. tab' = [tab EXCEPT ![t] = Resting(tab[t].shown)]
    BY DEF LoseAnswer
  <1>3. TabSound(t)' /\ Resting(tab[t].shown) \in Tab /\ ~ Claiming(t)' /\ tab'[t].pc = "idle"
    BY <1>1, <1>2, RestingSound
  <1>4. tab' \in [Tabs -> Tab] /\ \A q \in Tabs \ {t} : tab'[q] = tab[q]
    BY <1>1, <1>2, <1>3
  <1>5. UNCHANGED <<jar, marker, records, drawn, overlapped>> /\ cut' \subseteq Scope
    BY CutTyped DEF LoseAnswer
  <1>6. JarHeld'
    BY <1>5, JarStays
  <1> QED BY <1>3, <1>4, <1>5, <1>6, QuietStep DEF DemoInv, DemoTypeOK, Locked

LEMMA RefusalsKeep ==
    ASSUME DemoInv, NEW t \in Tabs, RefuseRetired(t) \/ RefusePage(t) \/ StoreFails(t)
    PROVE  DemoInv'
  <1>1. CASE RefuseRetired(t)
    BY <1>1, RefusedKeeps DEF RefuseRetired, DemoInv, DemoTypeOK
  <1>2. CASE RefusePage(t)
    BY <1>2, RefusedKeeps DEF RefusePage, DemoInv, DemoTypeOK
  <1>3. CASE StoreFails(t)
    <2>1. cut' \subseteq Scope
      BY <1>3, CutTyped DEF StoreFails
    <2> QED BY <1>3, <2>1, RefusedKeeps DEF StoreFails
  <1> QED BY <1>1, <1>2, <1>3

LEMMA CrashKeeps ==
    ASSUME DemoInv, Crash
    PROVE  DemoInv'
  <1>1. tab \in [Tabs -> Tab] /\ UNCHANGED <<jar, marker, records, drawn, overlapped>>
    BY DEF DemoInv, DemoTypeOK, Crash
  <1>2. cut' \subseteq Scope
    BY CutTyped DEF Crash
  <1>3. ASSUME NEW t \in Tabs
        PROVE  /\ tab'[t] \in Tab /\ TabSound(t)'
               /\ (~ Claiming(t)' /\ tab'[t].pc \notin Locked) \/ tab'[t] = tab[t]
    <2>1. CASE InServer(t)
      <3>1. tab'[t] = Resting(tab[t].shown) /\ tab[t].shown \in Generations \cup {None}
        BY <1>1, <2>1 DEF Crash, Tab
      <3> QED BY <3>1, RestingSound DEF Locked
    <2>2. CASE ~ InServer(t)
      <3>1. tab'[t] = tab[t]
        BY <2>2 DEF Crash
      <3> QED BY <1>1, <3>1, TabStays DEF DemoInv
    <2> QED BY <2>1, <2>2
  <1>4. tab' \in [Tabs -> Tab]
    <2>1. tab' = [t \in Tabs |-> tab'[t]]
      BY DEF Crash
    <2> QED BY <1>3, <2>1
  <1>5. Apart'
    BY <1>3 DEF DemoInv, Apart, Claiming, Claimed
  <1>6. JarHeld'
    BY <1>1, JarStays DEF DemoInv
  <1> QED BY <1>1, <1>2, <1>3, <1>4, <1>5, <1>6
          DEF DemoInv, DemoTypeOK, MarkersDrawn, Retired, InitializedHasWork, Ready

-----------------------------------------------------------------------------
(***************************************************************************)
(* The browser's session.                                                  *)
(***************************************************************************)
LEMMA OthersStay ==
    ASSUME DemoInv, UNCHANGED <<tab, marker, records>>, drawn \subseteq drawn'
    PROVE  /\ (\A t \in Tabs : TabSound(t)') /\ Apart'
           /\ MarkersDrawn' /\ InitializedHasWork'
  <1>1. \A t \in Tabs : TabSound(t)'
    BY TabStays DEF DemoInv, DemoTypeOK
  <1>2. Apart'
    BY DEF DemoInv, Apart, Claiming, Claimed
  <1> QED BY <1>1, <1>2 DEF DemoInv, MarkersDrawn, Retired, InitializedHasWork, Ready

LEMMA LoginKeeps ==
    ASSUME DemoInv, Login \/ Logout
    PROVE  DemoInv'
  <1>1. UNCHANGED <<tab, marker, records, cut, overlapped>> /\ drawn \subseteq drawn'
    BY DEF Login, Logout
  <1>2. CASE Login
    <2>1. PICK w \in Workspaces \ drawn :
            /\ jar' = [workspace |-> w, generations |-> [s \in Scenarios |-> None]]
            /\ drawn' = drawn \cup {w}
      BY <1>2 DEF Login
    <2>2. jar' \in Session
      BY <2>1 DEF Session
    <2>3. JarHeld'
      BY <2>1 DEF JarHeld, Names
    <2> QED BY <1>1, <2>1, <2>2, <2>3, OthersStay DEF DemoInv, DemoTypeOK
  <1>3. CASE Logout
    <2>1. jar' = None /\ drawn' = drawn
      BY <1>3 DEF Logout
    <2>2. JarHeld'
      BY <2>1 DEF JarHeld
    <2> QED BY <1>1, <2>1, <2>2, OthersStay DEF DemoInv, DemoTypeOK
  <1> QED BY <1>2, <1>3

LEMMA StutterKeeps ==
    ASSUME DemoInv, UNCHANGED vars
    PROVE  DemoInv'
  <1>1. JarHeld'
    BY JarStays DEF vars
  <1> QED BY <1>1, OthersStay DEF DemoInv, DemoTypeOK, vars

-----------------------------------------------------------------------------
(***************************************************************************)
(* Steps that draw an identifier.                                           *)
(***************************************************************************)
LEMMA AdmitKeeps ==
    ASSUME DemoInv, NEW t \in Tabs, Admit(t)
    PROVE  DemoInv'
  <1> DEFINE s == Opens[t]
             known == tab[t].session.generations[s]
  <1>1. /\ tab \in [Tabs -> Tab] /\ tab[t] \in Tab /\ s \in Scenarios
        /\ tab[t].pc = "sent" /\ tab[t].route # "reset" /\ tab[t].reply # "ok"
        /\ tab[t].session \in Session /\ Held(t)
        /\ UNCHANGED <<jar, marker, records, cut, overlapped>>
    BY DemoAssumption DEF DemoInv, DemoTypeOK, Admit, TabSound, Shape, Holding
  <1>2. PICK g \in IF known = None THEN Fresh ELSE {known} :
          LET sc == ScopeOf(tab[t].session, s, g) IN
          /\ ~ Retired(sc)
          /\ tab' = [tab EXCEPT ![t].session.generations[Opens[t]] = g,
                                ![t].generation = g,
                                ![t].set_cookie = (known = None),
                                ![t].pc = IF Ready(sc) THEN "ready" ELSE "initializing",
                                ![t].todo = IF Ready(sc) THEN <<>> ELSE EngineWrites]
          /\ drawn' = drawn \cup {g}
    BY DEF Admit
  <1> DEFINE sc == ScopeOf(tab[t].session, s, g)
             session == [tab[t].session EXCEPT !.generations = [@ EXCEPT ![s] = g]]
             first == (known = None)
             ready == Ready(sc)
             todo == IF ready THEN <<>> ELSE EngineWrites
             x == [tab[t] EXCEPT !.session = session, !.generation = g, !.set_cookie = first,
                                 !.pc = IF ready THEN "ready" ELSE "initializing", !.todo = todo]
  <1>3. g \in Generations /\ sc \in Scope
    BY <1>1, <1>2, SessionTyped, ScopeTyped DEF Fresh
  <1>4. ready \in BOOLEAN /\ first \in BOOLEAN
    BY DEF Ready
  <1>5. tab' = [tab EXCEPT ![t] = x]
    BY <1>1, <1>2, <1>4 DEF Tab, Session
  <1>6. /\ session \in Session /\ session.workspace = tab[t].session.workspace
        /\ \A r \in Scenarios : session.generations[r] = IF r = s THEN g ELSE tab[t].session.generations[r]
    BY <1>1, <1>3 DEF Session
  <1>7. todo \in Seq(Kinds \cup {"release"})
    <2>1. EngineWrites \in Seq(Kinds \cup {"release"}) /\ <<>> \in Seq(Kinds \cup {"release"})
      BY DEF EngineWrites, Kinds
    <2> HIDE DEF ready
    <2> QED BY <2>1
  <1>8. first => g \notin drawn
    BY <1>2 DEF Fresh
  <1>9. ~ first => g = known
    BY <1>2
  <1>10. marker[sc] = None \/ ready
    <2>1. CASE first
      BY <1>3, <1>8, <2>1, NoneApart DEF DemoInv, MarkersDrawn, ScopeOf
    <2>2. CASE ~ first
      <3>1. marker[sc] # None
        BY <1>1, <1>9, <2>2 DEF Held, Names, Marked
      <3> QED BY <1>2, <1>3, <3>1 DEF DemoInv, MarkersDrawn, Ready
    <2> QED BY <2>1, <2>2
  <1>11. ready => marker[sc] # None
    BY DEF Ready
  <1>12. ~ ready => first
    BY <1>1, <1>9, <1>10, <1>2 DEF Held, Names, Marked
  <1> HIDE DEF session, first, ready, todo
  <1>13. x \in Tab
    BY <1>1, <1>3, <1>4, <1>6, <1>7 DEF Tab, PCs
  <1>14. tab'[t] = x
    BY <1>1, <1>5
  <1>15. /\ tab'[t].pc = (IF ready THEN "ready" ELSE "initializing") /\ tab'[t].session = session
         /\ tab'[t].generation = g /\ tab'[t].todo = todo
         /\ tab'[t].route = tab[t].route /\ tab'[t].reply = tab[t].reply
    BY <1>1, <1>14 DEF Tab
  <1>16. tab' \in [Tabs -> Tab] /\ \A q \in Tabs \ {t} : tab'[q] = tab[q]
    BY <1>1, <1>5, <1>13
  <1> HIDE DEF x
  <1>17. Shape(t)'
    BY <1>1, <1>3, <1>6, <1>15 DEF Shape, AnsweredOk, Locked
  <1>18. Held(t)'
    <2>1. /\ tab'[t].session.workspace = tab[t].session.workspace
          /\ \A r \in Scenarios : tab'[t].session.generations[r] =
                                    IF r = s THEN g ELSE tab[t].session.generations[r]
      BY <1>6, <1>15
    <2>2. ASSUME NEW r \in Scenarios, tab'[t].session.generations[r] # None
          PROVE  /\ tab'[t].session.generations[r] \in drawn'
                 /\ \/ r = s /\ ~ ready
                    \/ marker[ScopeOf(tab'[t].session, r, tab'[t].session.generations[r])] # None
      <3>1. CASE r = s
        <4>1. tab'[t].session.generations[r] = g /\ g \in drawn'
          BY <1>2, <2>1, <3>1
        <4>2. ScopeOf(tab'[t].session, r, g) = sc
          BY <2>1, <3>1 DEF ScopeOf
        <4> HIDE DEF s, sc
        <4> QED BY <1>11, <3>1, <4>1, <4>2
      <3>2. CASE r # s
        <4> DEFINE h == tab[t].session.generations[r]
        <4>1. tab'[t].session.generations[r] = h /\ h # None
          BY <2>1, <2>2, <3>2
        <4>2. ScopeOf(tab'[t].session, r, h) = ScopeOf(tab[t].session, r, h)
          BY <2>1 DEF ScopeOf
        <4>3. h \in drawn /\ marker[ScopeOf(tab[t].session, r, h)] # None
          BY <1>1, <3>2, <4>1 DEF Held, Names, Marked
        <4>4. drawn \subseteq drawn'
          BY <1>2
        <4> HIDE DEF h
        <4> QED BY <4>1, <4>2, <4>3, <4>4
      <3> QED BY <3>1, <3>2
    <2>3. ~ ready => tab'[t].pc = "initializing"
      BY <1>15
    <2> QED BY <1>1, <2>2, <2>3 DEF Held, Names, Marked, ScopeOf
  <1>19. ~ Resetting(t)' /\ (Claiming(t)' => ~ ready /\ Claimed(t)' = g /\ ClaimedScope(t)' = sc)
    BY <1>1, <1>6, <1>15 DEF Resetting, Claiming, Claimed, ClaimedScope, ScopeOf, Locked
  <1>20. Working(t)'
    <2>1. ~ ready => 4 \in DOMAIN todo /\ todo[4] = "work"
      BY DEF todo, EngineWrites
    <2> QED BY <1>15, <2>1 DEF Working
  <1>21. TabSound(t)'
    BY <1>1, <1>2, <1>10, <1>15, <1>17, <1>18, <1>19, <1>20 DEF TabSound
  <1>22. JarHeld'
    BY <1>1, <1>2, JarStays
  <1>23. drawn' \subseteq Workspaces \cup Generations /\ drawn \subseteq drawn'
    BY <1>2, <1>3 DEF DemoInv, DemoTypeOK
  <1>24. DemoTypeOK'
    BY <1>1, <1>16, <1>23 DEF DemoInv, DemoTypeOK
  <1>25. InitializedHasWork'
    BY <1>1 DEF DemoInv, InitializedHasWork, Ready
  <1>26. tab'[t].pc \notin Locked /\ (Claiming(t)' => Claimed(t)' \notin drawn)
    BY <1>8, <1>12, <1>15, <1>19 DEF Locked
  <1> QED BY <1>1, <1>16, <1>21, <1>22, <1>23, <1>24, <1>25, <1>26, StepSound

LEMMA BeginResetKeeps ==
    ASSUME DemoInv, NEW t \in Tabs, BeginReset(t)
    PROVE  DemoInv'
  <1> DEFINE g == GenerationFor(tab[t].session, Opens[t])
  <1>1. /\ tab \in [Tabs -> Tab] /\ tab[t] \in Tab /\ Opens[t] \in Scenarios
        /\ tab[t].pc = "sent" /\ tab[t].route = "reset" /\ tab[t].reply # "ok"
        /\ tab[t].session \in Session /\ Held(t)
        /\ ~ Retired(ScopeOf(tab[t].session, Opens[t], g)) /\ LockFree
        /\ UNCHANGED <<jar, marker, records, cut, overlapped>>
    BY DemoAssumption DEF DemoInv, DemoTypeOK, BeginReset, TabSound, Shape, Holding
  <1>2. PICK n \in Fresh :
          /\ tab' = [tab EXCEPT ![t].pc = "retiring", ![t].generation = g, ![t].next = n]
          /\ drawn' = drawn \cup {n}
    BY DEF BeginReset
  <1>3. g \in Generations \cup {G0} /\ n \in Generations /\ n # g /\ n \notin drawn
    BY <1>1, <1>2, SessionTyped, NoneApart DEF GenerationFor, Fresh, Held, Names
  <1> DEFINE x == [tab[t] EXCEPT !.pc = "retiring", !.generation = g, !.next = n]
  <1>4. tab' = [tab EXCEPT ![t] = x]
    BY <1>1, <1>2 DEF Tab
  <1> HIDE DEF g
  <1>5. x \in Tab
    BY <1>1, <1>3 DEF Tab, PCs, Locked
  <1>6. /\ tab'[t].pc = "retiring" /\ tab'[t].generation = g /\ tab'[t].next = n
        /\ tab'[t].session = tab[t].session
        /\ tab'[t].route = tab[t].route /\ tab'[t].reply = tab[t].reply
    BY <1>1, <1>4 DEF Tab
  <1>7. tab' \in [Tabs -> Tab] /\ \A q \in Tabs \ {t} : tab'[q] = tab[q]
    BY <1>1, <1>4, <1>5
  <1> HIDE DEF x
  <1>8. Shape(t)'
    BY <1>1, <1>3, <1>6 DEF Shape, AnsweredOk, Locked, g
  <1>9. Held(t)'
    BY <1>1, <1>2, <1>6 DEF Held, Names, Marked, ScopeOf
  <1>10. marker[ScopeOf(tab[t].session, Opens[t], n)] = None
    BY <1>1, <1>3, ScopeTyped, NoneApart DEF DemoInv, MarkersDrawn, ScopeOf
  <1>11. /\ ~ Resetting(t)' /\ Claimed(t)' = n /\ Working(t)' /\ n \in drawn'
         /\ (marker[ClaimedScope(t)])' = None /\ ~ Retired(OldScope(t))'
    BY <1>1, <1>2, <1>6, <1>10 DEF Resetting, Claimed, Working, ClaimedScope, ScopeOf, Retired, OldScope
  <1>12. TabSound(t)'
    BY <1>8, <1>9, <1>11 DEF TabSound
  <1>13. JarHeld'
    BY <1>1, <1>2, JarStays
  <1>14. drawn' \subseteq Workspaces \cup Generations /\ drawn \subseteq drawn'
    BY <1>2, <1>3 DEF DemoInv, DemoTypeOK
  <1>15. DemoTypeOK'
    BY <1>1, <1>7, <1>14 DEF DemoInv, DemoTypeOK
  <1>16. InitializedHasWork'
    BY <1>1 DEF DemoInv, InitializedHasWork, Ready
  <1> QED BY <1>1, <1>3, <1>7, <1>11, <1>12, <1>13, <1>14, <1>15, <1>16, StepSound

-----------------------------------------------------------------------------
(***************************************************************************)
(* Steps that write records.                                                *)
(***************************************************************************)
\* What a request sets up is not what another one retires, deletes or has retired.
LEMMA ClaimedApart ==
    ASSUME DemoInv, NEW t \in Tabs, NEW q \in Tabs
    PROVE  /\ Claiming(q) => marker[ClaimedScope(q)] = None
           /\ Resetting(t) => marker[OldScope(t)] # None /\ Retired(OldScope(t)) /\ ~ Ready(OldScope(t))
           /\ tab[t].pc = "retiring" => OldScope(t).generation = G0 \/ marker[OldScope(t)] # None
           /\ Claiming(q) /\ (tab[t].pc = "retiring" \/ Resetting(t)) => ClaimedScope(q) # OldScope(t)
  <1>1. TabSound(t) /\ TabSound(q) /\ tab[t] \in Tab /\ tab[q] \in Tab
    BY DEF DemoInv, DemoTypeOK
  <1>2. Claiming(q) => marker[ClaimedScope(q)] = None
    BY <1>1 DEF TabSound
  <1>3. Resetting(t) => marker[OldScope(t)] # None /\ Retired(OldScope(t)) /\ ~ Ready(OldScope(t))
    <2> HAVE Resetting(t)
    <2>1. marker[OldScope(t)] = [generation |-> tab[t].next, initialized |-> FALSE]
      BY <1>1 DEF TabSound
    <2>2. tab[t].next \in Generations /\ tab[t].next # tab[t].generation
      BY <1>1 DEF TabSound, Shape, Resetting, AnsweredOk, Locked
    <2>3. [generation |-> tab[t].next, initialized |-> FALSE] \in Marker
      BY <2>2 DEF Marker
    <2>4. OldScope(t).generation = tab[t].generation
      BY DEF OldScope, ScopeOf
    <2>5. marker[OldScope(t)].generation = tab[t].next /\ ~ marker[OldScope(t)].initialized
      BY <2>1
    <2>6. marker[OldScope(t)] # None
      BY <2>1, <2>3, NoneApart
    <2> HIDE DEF Resetting
    <2> QED BY <2>2, <2>4, <2>5, <2>6 DEF Retired, Ready
  <1>4. tab[t].pc = "retiring" => OldScope(t).generation = G0 \/ marker[OldScope(t)] # None
    <2> HAVE tab[t].pc = "retiring"
    <2>1. tab[t].generation = GenerationFor(tab[t].session, Opens[t]) /\ Held(t) /\ Opens[t] \in Scenarios
      BY <1>1, DemoAssumption DEF TabSound, Shape, Holding
    <2> QED BY <2>1 DEF GenerationFor, Held, Names, Marked, OldScope, ScopeOf
  <1>5. Claiming(q) => ClaimedScope(q).generation # G0
    BY <1>1, NoneApart DEF TabSound, Claiming, Claimed, ClaimedScope, ScopeOf, Shape, Locked
  <1> QED BY <1>2, <1>3, <1>4, <1>5

\* The step of a request that works on, in a scope that is its own or that is retired.
LEMMA RecordsKept ==
    ASSUME DemoInv, NEW t \in Tabs, UNCHANGED <<jar, marker, drawn>>, DemoTypeOK', InitializedHasWork',
           \A q \in Tabs \ {t} : tab'[q] = tab[q],
           \A sc \in Scope : "work" \in records[sc] =>
               "work" \in records'[sc] \/ (Resetting(t) /\ sc = OldScope(t)),
           Shape(t)', Held(t)', Working(t)',
           Claiming(t)' = Claiming(t), Claimed(t)' = Claimed(t), ClaimedScope(t)' = ClaimedScope(t),
           Resetting(t)' = Resetting(t), OldScope(t)' = OldScope(t), tab'[t].next = tab[t].next,
           tab'[t].pc # "retiring", tab'[t].pc \in Locked => tab[t].pc \in Locked
    PROVE  DemoInv'
  <1>1. TabSound(t)'
    BY DEF DemoInv, TabSound
  <1>2. JarHeld'
    BY JarStays
  <1>3. ASSUME NEW q \in Tabs \ {t}, tab[q].pc \in {"initializing", "recreating"},
               "work" \in records[Target(q)]
        PROVE  "work" \in records'[Target(q)]
    <2>1. Claiming(q) /\ Target(q) = ClaimedScope(q) /\ Target(q) \in Scope
      BY <1>3, TabScopes DEF DemoInv, DemoTypeOK, TabSound, Claiming, Locked
    <2> QED BY <1>3, <2>1, ClaimedApart
  <1> QED BY <1>1, <1>2, <1>3, StepSound

LEMMA WriteKeeps ==
    ASSUME DemoInv, NEW t \in Tabs, Write(t)
    PROVE  DemoInv'
  <1> DEFINE todo == Tail(tab[t].todo)
             x == [tab[t] EXCEPT !.todo = todo]
             kind == Head(tab[t].todo)
             written == IF kind = "release" THEN records[Target(t)] \ {"head"}
                        ELSE records[Target(t)] \cup {kind}
  <1>1. /\ tab \in [Tabs -> Tab] /\ tab[t] \in Tab /\ TabSound(t)
        /\ records \in [Scope -> SUBSET Kinds]
        /\ tab[t].pc \in {"initializing", "writing", "recreating"} /\ tab[t].todo # <<>>
        /\ UNCHANGED <<jar, marker, drawn, cut>>
    BY DEF DemoInv, DemoTypeOK, Write
  <1>2. Target(t) \in Scope
    BY <1>1, TabScopes DEF TabSound, Claiming, Locked
  <1>3. tab[t].todo \in Seq(Kinds \cup {"release"})
    BY <1>1 DEF Tab
  <1>4. todo \in Seq(Kinds \cup {"release"}) /\ kind \in Kinds \cup {"release"}
    BY <1>1, <1>3
  <1>5. tab' = [tab EXCEPT ![t] = x]
    BY <1>1 DEF Write, Tab
  <1>6. records' = [records EXCEPT ![Target(t)] = written]
    BY <1>1, <1>2 DEF Write
  <1>7. written \subseteq Kinds /\ ("work" \in records[Target(t)] => "work" \in written)
    BY <1>1, <1>2, <1>4
  <1>8. kind = "work" => "work" \in written
    OBVIOUS
  <1> HIDE DEF written
  <1>9. /\ records' \in [Scope -> SUBSET Kinds] /\ records'[Target(t)] = written
        /\ \A sc \in Scope : "work" \in records[sc] => "work" \in records'[sc]
    BY <1>1, <1>2, <1>6, <1>7
  <1>10. overlapped' \subseteq Scope
    BY <1>2 DEF Write, DemoInv, DemoTypeOK
  <1>11. x \in Tab
    BY <1>1, <1>4 DEF Tab
  <1>12. tab' \in [Tabs -> Tab] /\ \A q \in Tabs \ {t} : tab'[q] = tab[q]
    BY <1>1, <1>5, <1>11
  <1>13. /\ tab'[t].pc = tab[t].pc /\ tab'[t].session = tab[t].session /\ tab'[t].reply = tab[t].reply
         /\ tab'[t].route = tab[t].route /\ tab'[t].generation = tab[t].generation
         /\ tab'[t].next = tab[t].next /\ tab'[t].todo = todo
    BY <1>1, <1>5 DEF Tab
  <1> HIDE DEF x
  <1>14. /\ Claiming(t)' = Claiming(t) /\ Claimed(t)' = Claimed(t) /\ ClaimedScope(t)' = ClaimedScope(t)
         /\ Resetting(t)' = Resetting(t) /\ OldScope(t)' = OldScope(t) /\ Target(t)' = Target(t)
    BY <1>13 DEF Claiming, Claimed, ClaimedScope, Resetting, OldScope, Target, ScopeOf
  <1>15. Shape(t)'
    BY <1>1, <1>13 DEF TabSound, Shape, AnsweredOk, GenerationFor
  <1>16. Held(t)'
    BY <1>1, <1>13 DEF TabSound, Held, Holding, Names, Marked, ScopeOf
  <1>17. Working(t)'
    <2> SUFFICES ASSUME tab[t].pc \in {"initializing", "recreating"}
                 PROVE  "work" \in written \/ \E i \in DOMAIN todo : todo[i] = "work"
      BY <1>9, <1>13, <1>14 DEF Working
    <2>1. CASE "work" \in records[Target(t)]
      BY <1>7, <2>1
    <2>2. CASE \E i \in DOMAIN tab[t].todo : tab[t].todo[i] = "work"
      <3>1. PICK i \in DOMAIN tab[t].todo : tab[t].todo[i] = "work"
        BY <2>2
      <3>2. CASE i = 1
        <4>1. kind = "work"
          BY <1>1, <1>3, <3>1, <3>2
        <4> QED BY <1>8, <4>1
      <3>3. CASE i # 1
        <4>1. i - 1 \in DOMAIN todo /\ todo[i - 1] = "work"
          BY <1>1, <1>3, <3>1, <3>3
        <4> QED BY <4>1
      <3> QED BY <3>2, <3>3
    <2> QED BY <1>1, <2>1, <2>2 DEF TabSound, Working
  <1>18. DemoTypeOK'
    BY <1>1, <1>9, <1>10, <1>12 DEF DemoInv, DemoTypeOK
  <1>19. InitializedHasWork'
    BY <1>1, <1>9 DEF DemoInv, InitializedHasWork, Ready
  <1> QED BY <1>1, <1>9, <1>12, <1>13, <1>14, <1>15, <1>16, <1>17, <1>18, <1>19, RecordsKept

LEMMA DeleteKindKeeps ==
    ASSUME DemoInv, NEW t \in Tabs, DeleteKind(t)
    PROVE  DemoInv'
  <1> DEFINE todo == Tail(tab[t].todo)
             x == [tab[t] EXCEPT !.todo = todo]
             left == records[OldScope(t)] \ ({Head(tab[t].todo)} \cap Erasable)
  <1>1. /\ tab \in [Tabs -> Tab] /\ tab[t] \in Tab /\ TabSound(t)
        /\ records \in [Scope -> SUBSET Kinds]
        /\ tab[t].pc = "deleting" /\ tab[t].todo # <<>>
        /\ UNCHANGED <<jar, marker, drawn, cut, overlapped>>
    BY DEF DemoInv, DemoTypeOK, DeleteKind
  <1>2. Resetting(t) /\ OldScope(t) \in Scope
    <2>1. Resetting(t)
      BY <1>1 DEF TabSound, Shape, Resetting, Locked
    <2> QED BY <1>1, <2>1, TabScopes DEF TabSound
  <1>3. todo \in Seq(Kinds \cup {"release"})
    BY <1>1 DEF Tab
  <1>4. tab' = [tab EXCEPT ![t] = x]
    BY <1>1 DEF DeleteKind, Tab
  <1>5. records' = [records EXCEPT ![OldScope(t)] = left]
    BY <1>1, <1>2 DEF DeleteKind
  <1>6. left \subseteq Kinds
    BY <1>1, <1>2
  <1> HIDE DEF left, todo
  <1>7. /\ records' \in [Scope -> SUBSET Kinds]
        /\ \A sc \in Scope : sc # OldScope(t) => records'[sc] = records[sc]
    BY <1>1, <1>5, <1>6
  <1>8. x \in Tab
    BY <1>1, <1>3 DEF Tab
  <1>9. tab' \in [Tabs -> Tab] /\ \A q \in Tabs \ {t} : tab'[q] = tab[q]
    BY <1>1, <1>4, <1>8
  <1>10. /\ tab'[t].pc = tab[t].pc /\ tab'[t].session = tab[t].session /\ tab'[t].reply = tab[t].reply
         /\ tab'[t].route = tab[t].route /\ tab'[t].generation = tab[t].generation
         /\ tab'[t].next = tab[t].next
    BY <1>1, <1>4 DEF Tab
  <1> HIDE DEF x
  <1>11. /\ Claiming(t)' = Claiming(t) /\ Claimed(t)' = Claimed(t) /\ ClaimedScope(t)' = ClaimedScope(t)
         /\ Resetting(t)' = Resetting(t) /\ OldScope(t)' = OldScope(t)
    BY <1>10 DEF Claiming, Claimed, ClaimedScope, Resetting, OldScope, ScopeOf
  <1>12. Shape(t)'
    BY <1>1, <1>10 DEF TabSound, Shape, AnsweredOk, GenerationFor
  <1>13. Held(t)' /\ Working(t)'
    BY <1>1, <1>10 DEF TabSound, Held, Holding, Names, Marked, ScopeOf, Working
  <1>14. DemoTypeOK'
    BY <1>1, <1>7, <1>9 DEF DemoInv, DemoTypeOK
  <1>15. InitializedHasWork'
    BY <1>1, <1>2, <1>7, ClaimedApart DEF DemoInv, InitializedHasWork, Ready
  <1> QED BY <1>1, <1>2, <1>7, <1>9, <1>10, <1>11, <1>12, <1>13, <1>14, <1>15, RecordsKept

LEMMA ResetHeadsKeeps ==
    ASSUME DemoInv, NEW t \in Tabs, ResetHeads(t)
    PROVE  DemoInv'
  <1> DEFINE n == tab[t].next
             session == [tab[t].session EXCEPT !.generations = [@ EXCEPT ![Opens[t]] = n]]
             x == [tab[t] EXCEPT !.pc = "recreating", !.todo = EngineWrites, !.session = session,
                                 !.set_cookie = TRUE]
             left == records[OldScope(t)] \ {"head"}
  <1>1. /\ tab \in [Tabs -> Tab] /\ tab[t] \in Tab /\ TabSound(t) /\ Opens[t] \in Scenarios
        /\ records \in [Scope -> SUBSET Kinds] /\ tab[t].session \in Session
        /\ tab[t].pc = "deleting" /\ tab[t].route = "reset" /\ n \in Generations /\ tab[t].reply # "ok"
        /\ tab[t].generation \in Generations \cup {G0} /\ n # tab[t].generation
        /\ UNCHANGED <<jar, marker, drawn, cut, overlapped>>
    BY DemoAssumption DEF DemoInv, DemoTypeOK, ResetHeads, TabSound, Shape, Locked
  <1>2. Resetting(t) /\ OldScope(t) \in Scope
    <2>1. Resetting(t)
      BY <1>1 DEF Resetting
    <2> QED BY <1>1, <2>1, TabScopes DEF TabSound
  <1>3. tab' = [tab EXCEPT ![t] = x]
    BY <1>1 DEF ResetHeads, Tab, Session
  <1>4. /\ session \in Session /\ session.workspace = tab[t].session.workspace
        /\ \A r \in Scenarios : session.generations[r] = IF r = Opens[t] THEN n ELSE tab[t].session.generations[r]
    BY <1>1 DEF Session
  <1>5. records' = [records EXCEPT ![OldScope(t)] = left]
    BY <1>1, <1>2 DEF ResetHeads
  <1>6. left \subseteq Kinds
    BY <1>1, <1>2
  <1> HIDE DEF left, session
  <1>7. /\ records' \in [Scope -> SUBSET Kinds]
        /\ \A sc \in Scope : sc # OldScope(t) => records'[sc] = records[sc]
    BY <1>1, <1>5, <1>6
  <1>8. EngineWrites \in Seq(Kinds \cup {"release"}) /\ 4 \in DOMAIN EngineWrites /\ EngineWrites[4] = "work"
    BY DEF EngineWrites, Kinds
  <1>9. x \in Tab
    BY <1>1, <1>4, <1>8 DEF Tab, PCs, Locked
  <1>10. tab' \in [Tabs -> Tab] /\ \A q \in Tabs \ {t} : tab'[q] = tab[q]
    BY <1>1, <1>3, <1>9
  <1>11. /\ tab'[t].pc = "recreating" /\ tab'[t].session = session /\ tab'[t].reply = tab[t].reply
         /\ tab'[t].route = tab[t].route /\ tab'[t].generation = tab[t].generation
         /\ tab'[t].next = tab[t].next /\ tab'[t].todo = EngineWrites
    BY <1>1, <1>3 DEF Tab
  <1> HIDE DEF x
  <1>12. /\ Claiming(t)' = Claiming(t) /\ Claimed(t)' = Claimed(t) /\ ClaimedScope(t)' = ClaimedScope(t)
         /\ Resetting(t)' = Resetting(t) /\ OldScope(t)' = OldScope(t)
    BY <1>1, <1>4, <1>11 DEF Claiming, Claimed, ClaimedScope, Resetting, OldScope, ScopeOf, Locked
  <1>13. Shape(t)'
    BY <1>1, <1>4, <1>11 DEF Shape, AnsweredOk, Locked
  <1>14. Held(t)'
    <2>1. ASSUME NEW r \in Scenarios, tab'[t].session.generations[r] # None
          PROVE  /\ tab'[t].session.generations[r] \in drawn
                 /\ r = Opens[t] \/ marker[ScopeOf(tab'[t].session, r, tab'[t].session.generations[r])] # None
      <3>1. CASE r = Opens[t]
        BY <1>1, <1>4, <1>11, <3>1 DEF TabSound, Claiming, Claimed, Locked
      <3>2. CASE r # Opens[t]
        <4>1. tab'[t].session.generations[r] = tab[t].session.generations[r]
          BY <1>4, <1>11, <3>2
        <4>2. Held(t)
          BY <1>1 DEF TabSound, Holding
        <4>3. tab'[t].session.workspace = tab[t].session.workspace
          BY <1>4, <1>11
        <4> QED BY <1>1, <2>1, <3>2, <4>1, <4>2, <4>3 DEF Held, Names, Marked, ScopeOf
      <3> QED BY <3>1, <3>2
    <2> QED BY <1>1, <1>11, <2>1 DEF Held, Names, Marked, ScopeOf
  <1>15. Working(t)'
    BY <1>8, <1>11 DEF Working
  <1>16. DemoTypeOK'
    BY <1>1, <1>7, <1>10 DEF DemoInv, DemoTypeOK
  <1>17. InitializedHasWork'
    BY <1>1, <1>2, <1>7, ClaimedApart DEF DemoInv, InitializedHasWork, Ready
  <1> QED BY <1>1, <1>2, <1>7, <1>10, <1>11, <1>12, <1>13, <1>14, <1>15, <1>16, <1>17, RecordsKept
          DEF Locked

-----------------------------------------------------------------------------
(***************************************************************************)
(* Steps that write a marker.                                               *)
(***************************************************************************)
LEMMA RetireKeeps ==
    ASSUME DemoInv, NEW t \in Tabs, Retire(t)
    PROVE  DemoInv'
  <1> DEFINE n == tab[t].next
             x == [tab[t] EXCEPT !.pc = "deleting", !.todo = Deletions]
             left == [generation |-> n, initialized |-> FALSE]
             sc0 == OldScope(t)
  <1>1. /\ tab \in [Tabs -> Tab] /\ tab[t] \in Tab /\ TabSound(t) /\ Opens[t] \in Scenarios
        /\ marker \in [Scope -> Marker \cup {None}] /\ tab[t].session \in Session
        /\ tab[t].pc = "retiring" /\ tab[t].route = "reset" /\ n \in Generations /\ tab[t].reply # "ok"
        /\ tab[t].generation \in Generations \cup {G0} /\ n # tab[t].generation
        /\ UNCHANGED <<jar, records, drawn, cut, overlapped>>
    BY DemoAssumption DEF DemoInv, DemoTypeOK, Retire, TabSound, Shape, Locked
  <1>2. sc0 \in Scope /\ ~ Retired(sc0) /\ sc0.generation = tab[t].generation
    BY <1>1, ScopeTyped DEF OldScope, TabSound, ScopeOf
  <1>3. tab' = [tab EXCEPT ![t] = x] /\ marker' = [marker EXCEPT ![sc0] = left]
    BY <1>1 DEF Retire, Tab
  <1>4. left \in Marker /\ left # None /\ left.generation = n /\ left.initialized = FALSE
    <2>1. left \in Marker
      BY <1>1 DEF Marker
    <2>2. left # None
      BY <2>1, NoneApart
    <2> QED BY <2>1, <2>2
  <1>5. Deletions \in Seq(Kinds \cup {"release"})
    BY DEF Deletions, Kinds
  <1> HIDE DEF left, sc0
  <1>6. /\ marker' \in [Scope -> Marker \cup {None}] /\ marker'[sc0] = left
        /\ \A sc \in Scope : sc # sc0 => marker'[sc] = marker[sc]
    BY <1>1, <1>2, <1>3, <1>4
  <1>7. x \in Tab
    BY <1>1, <1>5 DEF Tab, PCs, Locked
  <1>8. tab' \in [Tabs -> Tab] /\ \A q \in Tabs \ {t} : tab'[q] = tab[q]
    BY <1>1, <1>3, <1>7
  <1>9. /\ tab'[t].pc = "deleting" /\ tab'[t].session = tab[t].session /\ tab'[t].reply = tab[t].reply
        /\ tab'[t].route = tab[t].route /\ tab'[t].generation = tab[t].generation
        /\ tab'[t].next = n
    BY <1>1, <1>3 DEF Tab
  <1> HIDE DEF x
  <1>10. /\ Claiming(t) /\ Claiming(t)' /\ Claimed(t)' = Claimed(t) /\ ClaimedScope(t)' = ClaimedScope(t)
         /\ OldScope(t)' = sc0
    BY <1>1, <1>9 DEF Claiming, Claimed, ClaimedScope, OldScope, ScopeOf, Locked, sc0
  <1>11. \A sc \in Scope : marker[sc] # None => marker'[sc] # None
    BY <1>4, <1>6
  <1>12. Shape(t)'
    BY <1>1, <1>9 DEF TabSound, Shape, AnsweredOk, Locked, GenerationFor
  <1>13. Held(t)'
    <2> SUFFICES ASSUME NEW s \in Scenarios, Names(tab[t].session, s)
                 PROVE  /\ tab[t].session.generations[s] \in drawn
                        /\ marker'[ScopeOf(tab[t].session, s, tab[t].session.generations[s])] # None
      BY <1>1, <1>9 DEF Held, Names, Marked
    <2>1. /\ tab[t].session.generations[s] \in drawn
          /\ marker[ScopeOf(tab[t].session, s, tab[t].session.generations[s])] # None
      BY <1>1 DEF TabSound, Holding, Held, Names, Marked
    <2>2. ScopeOf(tab[t].session, s, tab[t].session.generations[s]) \in Scope
      BY <1>1, ScopeTyped, SessionTyped DEF Names
    <2> QED BY <1>11, <2>1, <2>2
  <1>14. ClaimedScope(t) # sc0 /\ ClaimedScope(t) \in Scope
    BY <1>1, <1>10, ClaimedApart, TabScopes DEF TabSound, sc0
  <1>15. TabSound(t)'
    <2>1. (Claimed(t) \in drawn)' /\ (marker[ClaimedScope(t)])' = None
      BY <1>1, <1>6, <1>10, <1>14 DEF TabSound
    <2>2. (marker[OldScope(t)])' = [generation |-> tab'[t].next, initialized |-> FALSE]
      BY <1>6, <1>9, <1>10 DEF left
    <2> QED BY <1>9, <1>12, <1>13, <2>1, <2>2 DEF TabSound, Working
  <1>16. JarHeld'
    BY <1>1, <1>11, JarStays
  <1>17. DemoTypeOK'
    BY <1>1, <1>6, <1>8 DEF DemoInv, DemoTypeOK
  <1>18. InitializedHasWork'
    BY <1>1, <1>4, <1>6 DEF DemoInv, InitializedHasWork, Ready
  <1>19. ASSUME NEW sc \in Scope
         PROVE  \/ marker'[sc] = marker[sc]
                \/ /\ marker'[sc] # None /\ sc.generation \in drawn' \cup {G0}
                   /\ marker'[sc].initialized \/ Retired(sc)'
    <2>1. CASE sc = sc0
      <3>1. sc0.generation \in drawn \cup {G0}
        BY <1>1, <1>2, ClaimedApart DEF DemoInv, MarkersDrawn, sc0
      <3>2. Retired(sc)'
        BY <1>1, <1>2, <1>4, <1>6, <2>1 DEF Retired
      <3> QED BY <1>1, <1>4, <1>6, <2>1, <3>1, <3>2
    <2>2. CASE sc # sc0
      BY <1>6, <2>2
    <2> QED BY <2>1, <2>2
  <1>20. ASSUME NEW q \in Tabs \ {t}
         PROVE  /\ Claiming(q) => marker'[ClaimedScope(q)] = marker[ClaimedScope(q)]
                /\ tab[q].pc = "retiring" \/ Resetting(q) => marker'[OldScope(q)] = marker[OldScope(q)]
    <2>1. Claiming(q) => ClaimedScope(q) \in Scope /\ ClaimedScope(q) # sc0
      BY <1>1, ClaimedApart, TabScopes DEF DemoInv, DemoTypeOK, TabSound, Claiming, Locked, sc0
    <2>2. tab[q].pc # "retiring"
      BY <1>1 DEF DemoInv, Apart, Locked
    <2>3. Resetting(q) => OldScope(q) \in Scope /\ OldScope(q) # sc0
      <3>1. Resetting(q) => tab[q].pc # "idle"
        BY DEF DemoInv, TabSound, Shape, Resetting
      <3> QED BY <1>2, <3>1, ClaimedApart, TabScopes DEF DemoInv, DemoTypeOK, TabSound
    <2> QED BY <1>6, <2>1, <2>2, <2>3
  <1> QED BY <1>1, <1>8, <1>9, <1>10, <1>15, <1>16, <1>17, <1>18, <1>19, <1>20, StepSound DEF Locked

\* The marker of an engine that has set its scenario up
LEMMA EstablishedSound ==
    ASSUME DemoInv, NEW t \in Tabs, tab[t].pc \in {"initializing", "recreating"}, tab[t].todo = <<>>,
           Established(t, Claimed(t)), UNCHANGED <<records, drawn>>
    PROVE  /\ marker' \in [Scope -> Marker \cup {None}] /\ ClaimedScope(t) \in Scope
           /\ marker'[ClaimedScope(t)] # None
           /\ \A sc \in Scope : sc # ClaimedScope(t) => marker'[sc] = marker[sc]
           /\ InitializedHasWork'
           /\ \A sc \in Scope :
                \/ marker'[sc] = marker[sc]
                \/ /\ marker'[sc] # None /\ sc.generation \in drawn' \cup {G0}
                   /\ marker'[sc].initialized \/ Retired(sc)'
           /\ \A q \in Tabs \ {t} :
                /\ Claiming(q) => marker'[ClaimedScope(q)] = marker[ClaimedScope(q)]
                /\ tab[q].pc = "retiring" \/ Resetting(q) => marker'[OldScope(q)] = marker[OldScope(q)]
  <1> DEFINE sc0 == ClaimedScope(t)
             set == [generation |-> Claimed(t), initialized |-> TRUE]
  <1>1. /\ tab[t] \in Tab /\ TabSound(t) /\ Claiming(t) /\ marker \in [Scope -> Marker \cup {None}]
    BY DEF DemoInv, DemoTypeOK, Claiming, Locked
  <1>2. /\ sc0 \in Scope /\ Target(t) = sc0 /\ Claimed(t) \in Generations /\ Claimed(t) \in drawn
        /\ marker[sc0] = None /\ sc0.generation = Claimed(t)
    BY <1>1, TabScopes DEF TabSound, ClaimedScope, ScopeOf
  <1>3. set \in Marker /\ set # None /\ set.initialized
    <2>1. set \in Marker
      BY <1>2 DEF Marker
    <2>2. set # None
      BY <2>1, NoneApart
    <2> QED BY <2>1, <2>2
  <1>4. marker' = [marker EXCEPT ![sc0] = set]
    BY <1>2 DEF Established
  <1> HIDE DEF sc0, set
  <1>5. /\ marker' \in [Scope -> Marker \cup {None}] /\ marker'[sc0] = set
        /\ \A sc \in Scope : sc # sc0 => marker'[sc] = marker[sc]
    BY <1>1, <1>2, <1>3, <1>4
  <1>6. "work" \in records[sc0]
    BY <1>1, <1>2 DEF TabSound, Working
  <1>7. InitializedHasWork'
    BY <1>5, <1>6 DEF DemoInv, InitializedHasWork, Ready
  <1>8. \A sc \in Scope : marker'[sc] = marker[sc]
          \/ (marker'[sc] # None /\ sc.generation \in drawn' /\ marker'[sc].initialized)
    BY <1>2, <1>3, <1>5
  <1>9. ASSUME NEW q \in Tabs \ {t}
        PROVE  /\ Claiming(q) => marker'[ClaimedScope(q)] = marker[ClaimedScope(q)]
               /\ tab[q].pc = "retiring" \/ Resetting(q) => marker'[OldScope(q)] = marker[OldScope(q)]
    <2>1. Claiming(q) => ClaimedScope(q) \in Scope /\ ClaimedScope(q) # sc0
      <3>1. Claiming(q) => Claimed(q) # Claimed(t)
        BY <1>1 DEF DemoInv, Apart
      <3>2. ClaimedScope(q).generation = Claimed(q) /\ sc0.generation = Claimed(t)
        BY <1>2 DEF ClaimedScope, ScopeOf
      <3>3. Claiming(q) => ClaimedScope(q) \in Scope
        BY TabScopes DEF DemoInv, DemoTypeOK, TabSound, Claiming, Locked
      <3> QED BY <3>1, <3>2, <3>3
    <2>2. tab[q].pc = "retiring" \/ Resetting(q) => OldScope(q) \in Scope /\ OldScope(q) # sc0
      <3>1. tab[q].pc = "retiring" \/ Resetting(q) => tab[q].pc # "idle"
        BY DEF DemoInv, TabSound, Shape, Resetting
      <3>2. tab[q].pc = "retiring" => Claiming(q)
        BY DEF Claiming, Locked
      <3> QED BY <1>1, <3>1, <3>2, ClaimedApart, TabScopes DEF DemoInv, DemoTypeOK, TabSound, sc0
    <2> QED BY <1>5, <2>1, <2>2
  <1> QED BY <1>2, <1>3, <1>5, <1>7, <1>8, <1>9 DEF sc0

\* A session that a request establishes names marked generations only.
LEMMA EstablishedHeld ==
    ASSUME DemoInv, NEW t \in Tabs, tab[t].pc \in {"initializing", "recreating"},
           tab'[t].session = tab[t].session, drawn' = drawn, marker'[ClaimedScope(t)] # None,
           \A sc \in Scope : sc # ClaimedScope(t) => marker'[sc] = marker[sc]
    PROVE  Held(t)'
  <1>1. TabSound(t) /\ tab[t].session \in Session /\ Claimed(t) = tab[t].session.generations[Opens[t]]
    BY DEF DemoInv, TabSound, Shape, Claimed
  <1> SUFFICES ASSUME NEW s \in Scenarios, Names(tab[t].session, s)
               PROVE  /\ tab[t].session.generations[s] \in drawn
                      /\ marker'[ScopeOf(tab[t].session, s, tab[t].session.generations[s])] # None
    BY DEF Held, Names, Marked
  <1>2. tab[t].session.generations[s] \in drawn
    BY <1>1 DEF TabSound, Holding, Held
  <1>3. CASE s = Opens[t]
    BY <1>1, <1>2, <1>3 DEF ClaimedScope
  <1>4. CASE s # Opens[t]
    <2>1. marker[ScopeOf(tab[t].session, s, tab[t].session.generations[s])] # None
      BY <1>1, <1>4 DEF TabSound, Holding, Held, Marked
    <2>2. ScopeOf(tab[t].session, s, tab[t].session.generations[s]) \in Scope
      BY <1>1, ScopeTyped, SessionTyped DEF Names
    <2> QED BY <1>2, <2>1, <2>2
  <1> QED BY <1>3, <1>4

LEMMA SaveMarkerKeeps ==
    ASSUME DemoInv, NEW t \in Tabs, SaveMarker(t)
    PROVE  DemoInv'
  <1> DEFINE x == [tab[t] EXCEPT !.pc = "ready"]
  <1>1. /\ tab \in [Tabs -> Tab] /\ tab[t] \in Tab /\ TabSound(t)
        /\ tab[t].pc = "initializing" /\ tab[t].todo = <<>>
        /\ UNCHANGED <<jar, records, drawn, cut, overlapped>>
        /\ Established(t, Claimed(t))
    BY DEF DemoInv, DemoTypeOK, SaveMarker, Claimed
  <1>2. tab' = [tab EXCEPT ![t] = x]
    BY <1>1 DEF SaveMarker, Tab
  <1>3. x \in Tab
    BY <1>1 DEF Tab, PCs
  <1>4. tab' \in [Tabs -> Tab] /\ \A q \in Tabs \ {t} : tab'[q] = tab[q]
    BY <1>1, <1>2, <1>3
  <1>5. /\ tab'[t].pc = "ready" /\ tab'[t].session = tab[t].session /\ tab'[t].reply = tab[t].reply
        /\ tab'[t].route = tab[t].route /\ tab'[t].generation = tab[t].generation
    BY <1>1, <1>2 DEF Tab
  <1> HIDE DEF x
  <1>6. Shape(t)' /\ ~ Resetting(t)' /\ ~ Claiming(t)' /\ Working(t)'
    BY <1>1, <1>5 DEF TabSound, Shape, AnsweredOk, Locked, Resetting, Claiming, Working
  <1>7. Held(t)'
    BY <1>1, <1>5, EstablishedSound, EstablishedHeld
  <1>8. TabSound(t)'
    BY <1>5, <1>6, <1>7 DEF TabSound
  <1>9. JarHeld'
    BY <1>1, EstablishedSound, JarStays
  <1>10. DemoTypeOK'
    BY <1>1, <1>4, EstablishedSound DEF DemoInv, DemoTypeOK
  <1> QED BY <1>1, <1>4, <1>5, <1>6, <1>8, <1>9, <1>10, EstablishedSound, StepSound DEF Locked

LEMMA AnswerResetKeeps ==
    ASSUME DemoInv, NEW t \in Tabs, AnswerReset(t)
    PROVE  DemoInv'
  <1>1. /\ tab \in [Tabs -> Tab] /\ tab[t] \in Tab /\ TabSound(t)
        /\ tab[t].pc = "recreating" /\ tab[t].todo = <<>>
        /\ UNCHANGED <<jar, records, drawn, cut, overlapped>>
        /\ Established(t, Claimed(t)) /\ Answer(t, "ok")
    BY DEF DemoInv, DemoTypeOK, AnswerReset, Claimed
  <1>2. /\ tab' \in [Tabs -> Tab] /\ \A q \in Tabs \ {t} : tab'[q] = tab[q]
        /\ tab'[t].pc = "answered" /\ tab'[t].reply = "ok"
        /\ tab'[t].session = tab[t].session /\ tab'[t].route = tab[t].route
        /\ tab'[t].generation = tab[t].generation /\ tab'[t].next = tab[t].next
    BY <1>1, AnswerSets
  <1>3. Shape(t)' /\ ~ Claiming(t)' /\ Working(t)' /\ OldScope(t)' = OldScope(t)
    BY <1>1, <1>2 DEF TabSound, Shape, AnsweredOk, Locked, Claiming, Working, OldScope, ScopeOf
  <1>4. Held(t)'
    BY <1>1, <1>2, EstablishedSound, EstablishedHeld
  <1>5. Resetting(t) /\ Claiming(t)
    BY <1>1 DEF TabSound, Shape, Resetting, Claiming, Locked
  <1>6. marker'[OldScope(t)] = [generation |-> tab[t].next, initialized |-> FALSE]
    <2>1. OldScope(t) \in Scope
      BY <1>1, <1>5, TabScopes DEF TabSound
    <2>2. OldScope(t) # ClaimedScope(t)
      BY <1>5, ClaimedApart
    <2> QED BY <1>1, <1>5, <2>1, <2>2, EstablishedSound DEF TabSound
  <1>7. TabSound(t)'
    BY <1>2, <1>3, <1>4, <1>6 DEF TabSound
  <1>8. JarHeld'
    BY <1>1, EstablishedSound, JarStays
  <1>9. DemoTypeOK'
    BY <1>1, <1>2, EstablishedSound DEF DemoInv, DemoTypeOK
  <1> QED BY <1>1, <1>2, <1>3, <1>7, <1>8, <1>9, EstablishedSound, StepSound DEF Locked

-----------------------------------------------------------------------------
(***************************************************************************)
(* The theorems.                                                            *)
(***************************************************************************)
LEMMA DemoInitHolds == Init => DemoInv
  <1> SUFFICES ASSUME Init PROVE DemoInv
    OBVIOUS
  <1>1. DemoTypeOK
    <2>1. Resting(None) \in Tab
      BY DEF Resting, Tab, PCs, Routes
    <2> QED BY <2>1 DEF Init, DemoTypeOK
  <1>2. ASSUME NEW t \in Tabs PROVE TabSound(t) /\ tab[t].pc = "idle"
    <2>1. /\ tab[t].pc = "idle" /\ tab[t].reply = "none" /\ tab[t].route = "state" /\ ~ tab[t].set_cookie
      BY DEF Init, Resting
    <2> QED BY <2>1 DEF TabSound, Shape, Holding, Claiming, Resetting, Working, Locked, AnsweredOk
  <1>3. Apart
    BY <1>2 DEF Apart, Claiming, Locked
  <1>4. JarHeld /\ MarkersDrawn /\ InitializedHasWork
    BY DEF Init, JarHeld, MarkersDrawn, InitializedHasWork, Ready
  <1> QED BY <1>1, <1>2, <1>3, <1>4 DEF DemoInv

LEMMA DemoNextKeeps == DemoInv /\ [Next]_vars => DemoInv'
  <1> SUFFICES ASSUME DemoInv, [Next]_vars PROVE DemoInv'
    OBVIOUS
  <1>1. CASE Login \/ Logout
    BY <1>1, LoginKeeps
  <1>2. CASE Crash
    BY <1>2, CrashKeeps
  <1>3. ASSUME NEW t \in Tabs, Serve(t) PROVE DemoInv'
    BY <1>3, AdmitKeeps, RefusalsKeep, SaveMarkerKeeps, AnsweredKeeps, ProcessKeeps, WriteKeeps,
       EngineReusesKeeps, BeginResetKeeps, RetireKeeps, DeleteKindKeeps, ResetHeadsKeeps,
       AnswerResetKeeps, DeliverKeeps
       DEF Serve, AnswerState, AnswerProcessed
  <1>4. ASSUME NEW t \in Tabs, LoseAnswer(t) \/ StoreFails(t) PROVE DemoInv'
    BY <1>4, LoseAnswerKeeps, RefusalsKeep
  <1>5. ASSUME NEW t \in Tabs, NEW route \in Routes, Send(t, route) PROVE DemoInv'
    BY <1>5, SendKeeps
  <1>6. CASE UNCHANGED vars
    BY <1>6, StutterKeeps
  <1> QED BY <1>1, <1>2, <1>3, <1>4, <1>5, <1>6 DEF Next

\* The inductive invariant: who may know a generation, and what its marker says.
THEOREM DemoInvariantHolds == Spec => []DemoInv
  BY DemoInitHolds, DemoNextKeeps, PTL DEF Spec

\* Every variable keeps its type (_scenario_session, _handle_scenario_reset).
THEOREM DemoTypeCorrect == Spec => []DemoTypeOK
  <1>1. DemoInv => DemoTypeOK
    BY DEF DemoInv
  <1> QED BY <1>1, DemoInvariantHolds, PTL

\* A scenario that is marked as set up has agent A's work (save_demo_marker is called
\* after the engine, and delete_scope_records after the old scope is retired).
THEOREM InitializedHolds == Spec => []InitializedHasWork
  <1>1. DemoInv => InitializedHasWork
    BY DEF DemoInv
  <1> QED BY <1>1, DemoInvariantHolds, PTL

\* Of two resets of one generation only one succeeds (_RESET_LOCK).
THEOREM OneSuccessorHolds == Spec => []OneSuccessor
  <1>1. DemoInv => OneSuccessor
    BY DEF DemoInv, TabSound, OneSuccessor
  <1> QED BY <1>1, DemoInvariantHolds, PTL

\* The marker of a retired generation is not overwritten: a first opening has claimed a
\* generation no reset knows, and a reset retires only what is not retired yet
\* (save_demo_marker).
THEOREM RetiredStaysHolds == Spec => RetiredStaysRetired
  <1>1. DemoInv /\ [Next]_vars => [\A sc \in Scope : Retired(sc) => marker'[sc] = marker[sc]]_vars
    <2> SUFFICES ASSUME DemoInv, Next, NEW sc \in Scope, Retired(sc)
                 PROVE  marker'[sc] = marker[sc]
      OBVIOUS
    <2>1. ASSUME NEW t \in Tabs, SaveMarker(t) \/ AnswerReset(t)
          PROVE  marker'[sc] = marker[sc]
      <3>1. /\ tab[t].pc \in {"initializing", "recreating"} /\ tab[t].todo = <<>>
            /\ Established(t, Claimed(t)) /\ UNCHANGED <<records, drawn>>
        BY <2>1 DEF SaveMarker, AnswerReset, Claimed
      <3>2. marker[ClaimedScope(t)] = None
        BY <3>1, ClaimedApart DEF Claiming, Locked
      <3> QED BY <3>1, <3>2, EstablishedSound DEF Retired
    <2>2. ASSUME NEW t \in Tabs, Retire(t)
          PROVE  marker'[sc] = marker[sc]
      BY <2>2 DEF Retire, DemoInv, DemoTypeOK, TabSound
    <2>3. ASSUME NEW t \in Tabs, Serve(t)
          PROVE  marker'[sc] = marker[sc]
      <3>1. \/ Admit(t) \/ RefuseRetired(t) \/ RefusePage(t) \/ AnswerState(t) \/ Process(t)
            \/ Write(t) \/ EngineReuses(t) \/ AnswerProcessed(t) \/ BeginReset(t) \/ DeleteKind(t)
            \/ ResetHeads(t) \/ Deliver(t)
            => UNCHANGED marker
        BY DEF Admit, RefuseRetired, AnswerState, RefusePage, Process, Write, EngineReuses,
           AnswerProcessed, BeginReset, DeleteKind, ResetHeads, Deliver
      <3> QED BY <2>1, <2>2, <2>3, <3>1 DEF Serve
    <2>4. Login \/ Logout \/ Crash => UNCHANGED marker
      BY DEF Login, Logout, Crash
    <2>5. ASSUME NEW t \in Tabs, NEW route \in Routes, Send(t, route)
          PROVE  UNCHANGED marker
      BY <2>5 DEF Send
    <2>6. ASSUME NEW t \in Tabs, LoseAnswer(t) \/ StoreFails(t)
          PROVE  UNCHANGED marker
      BY <2>6 DEF LoseAnswer, StoreFails
    <2> QED BY <2>3, <2>4, <2>5, <2>6 DEF Next
  <1> QED BY <1>1, DemoInvariantHolds, PTL DEF Spec, RetiredStaysRetired
-----------------------------------------------------------------------------
(***************************************************************************)
(* What a reset deletes.                                                   *)
(***************************************************************************)
\* The kinds a reset has still to delete; the heads come last.
ToDelete(t) == {tab[t].todo[i] : i \in DOMAIN tab[t].todo} \cup {"head"}

ErasedBy(t, sc) ==
    /\ tab[t].pc = "deleting" /\ OldScope(t) = sc
    /\ records[sc] \cap Erasable \subseteq ToDelete(t)

\* What is left in a retired scope is what the reset under way has still to delete.
Erased(sc) == records[sc] \cap Erasable = {} \/ \E t \in Tabs : ErasedBy(t, sc)
ErasedInv == \A sc \in Scope : Retired(sc) /\ sc \notin cut \cup overlapped => Erased(sc)

\* Nothing comes to the scope's records, and a reset that is deleting them goes on.
LEMMA ErasedStays ==
    ASSUME NEW sc \in Scope, Erased(sc), records'[sc] \subseteq records[sc],
           \A u \in Tabs : tab[u].pc = "deleting" /\ OldScope(u) = sc => tab'[u] = tab[u]
    PROVE  Erased(sc)'
  <1>1. CASE records[sc] \cap Erasable = {}
    BY <1>1 DEF Erased
  <1>2. CASE \E u \in Tabs : ErasedBy(u, sc)
    <2>1. PICK u \in Tabs : ErasedBy(u, sc)
      BY <1>2
    <2>2. tab'[u] = tab[u]
      BY <2>1 DEF ErasedBy
    <2>3. ErasedBy(u, sc)'
      BY <2>1, <2>2 DEF ErasedBy, OldScope, ToDelete
    <2> QED BY <2>3 DEF Erased
  <1> QED BY <1>1, <1>2 DEF Erased

\* Requests that neither delete nor write
LEMMA QuietErased ==
    ASSUME DemoInv, ErasedInv, UNCHANGED <<records, cut, overlapped>>,
           \A sc \in Scope : Retired(sc)' => Retired(sc),
           \A u \in Tabs : tab[u].pc = "deleting" => tab'[u] = tab[u]
    PROVE  ErasedInv'
  BY ErasedStays DEF ErasedInv

LEMMA OtherRequestsErased ==
    ASSUME DemoInv, ErasedInv, NEW t \in Tabs,
           \/ Admit(t) \/ RefuseRetired(t) \/ RefusePage(t) \/ AnswerState(t) \/ Process(t)
           \/ EngineReuses(t) \/ AnswerProcessed(t) \/ BeginReset(t) \/ Deliver(t)
           \/ \E route \in Routes : Send(t, route)
    PROVE  ErasedInv'
  <1>1. tab \in [Tabs -> Tab]
    BY DEF DemoInv, DemoTypeOK
  <1>2. /\ UNCHANGED <<marker, records, cut, overlapped>> /\ tab[t].pc # "deleting"
        /\ \A u \in Tabs \ {t} : tab'[u] = tab[u]
    BY <1>1 DEF Admit, RefuseRetired, RefusePage, AnswerState, Process, EngineReuses,
       AnswerProcessed, BeginReset, Deliver, Send, Answer
  <1>3. \A sc \in Scope : Retired(sc)' => Retired(sc)
    BY <1>2 DEF Retired
  <1> QED BY <1>2, <1>3, QuietErased

\* A marker that is saved as set up retires nothing.
LEMMA EstablishedErased ==
    ASSUME DemoInv, ErasedInv, NEW t \in Tabs, SaveMarker(t) \/ AnswerReset(t)
    PROVE  ErasedInv'
  <1>1. /\ tab \in [Tabs -> Tab] /\ marker \in [Scope -> Marker \cup {None}]
        /\ tab[t].pc \in {"initializing", "recreating"} /\ Established(t, Claimed(t))
        /\ UNCHANGED <<records, cut, overlapped>>
    BY DEF DemoInv, DemoTypeOK, SaveMarker, AnswerReset, Claimed
  <1>2. \A u \in Tabs : tab[u].pc = "deleting" => tab'[u] = tab[u]
    BY <1>1 DEF SaveMarker, AnswerReset, Answer
  <1>3. Target(t).generation = Claimed(t)
    BY <1>1 DEF Target, OldScope, ScopeOf, Claimed
  <1>4. ASSUME NEW sc \in Scope, Retired(sc)' PROVE Retired(sc)
    <2>1. CASE sc = Target(t)
      <3>1. marker'[sc].generation = Claimed(t)
        BY <1>1, <2>1 DEF Established
      <3> QED BY <1>3, <1>4, <2>1, <3>1 DEF Retired
    <2>2. CASE sc # Target(t)
      BY <1>1, <1>4, <2>2 DEF Established, Retired
    <2> QED BY <2>1, <2>2
  <1> QED BY <1>1, <1>2, <1>4, QuietErased

\* A write to a retired scope is what overlapped tells.
LEMMA WriteErased ==
    ASSUME DemoInv, ErasedInv, NEW t \in Tabs, Write(t)
    PROVE  ErasedInv'
  <1>1. /\ tab \in [Tabs -> Tab] /\ records \in [Scope -> SUBSET Kinds]
        /\ tab[t].pc # "deleting" /\ UNCHANGED <<marker, cut>>
        /\ overlapped' = IF Retired(Target(t)) THEN overlapped \cup {Target(t)} ELSE overlapped
        /\ \A u \in Tabs \ {t} : tab'[u] = tab[u]
    BY DEF DemoInv, DemoTypeOK, Write
  <1>2. \A sc \in Scope : sc # Target(t) => records'[sc] = records[sc]
    BY <1>1 DEF Write
  <1> SUFFICES ASSUME NEW sc \in Scope, Retired(sc)', sc \notin (cut \cup overlapped)'
               PROVE  Erased(sc)'
    BY DEF ErasedInv
  <1>3. Retired(sc) /\ sc \notin cut \cup overlapped /\ sc # Target(t)
    BY <1>1 DEF Retired
  <1> QED BY <1>1, <1>2, <1>3, ErasedStays DEF ErasedInv

\* A reset begins with everything before it that it will delete.
LEMMA RetireErased ==
    ASSUME DemoInv, ErasedInv, NEW t \in Tabs, Retire(t)
    PROVE  ErasedInv'
  <1>1. /\ tab \in [Tabs -> Tab] /\ marker \in [Scope -> Marker \cup {None}]
        /\ records \in [Scope -> SUBSET Kinds]
        /\ tab[t].pc = "retiring" /\ UNCHANGED <<records, cut, overlapped>>
        /\ \A u \in Tabs \ {t} : tab'[u] = tab[u]
    BY DEF DemoInv, DemoTypeOK, Retire
  <1>2. /\ tab'[t].pc = "deleting" /\ tab'[t].todo = Deletions
        /\ tab'[t].session = tab[t].session /\ tab'[t].generation = tab[t].generation
    BY <1>1 DEF Retire, Tab
  <1> SUFFICES ASSUME NEW sc \in Scope, Retired(sc)', sc \notin (cut \cup overlapped)'
               PROVE  Erased(sc)'
    BY DEF ErasedInv
  <1>3. CASE sc = OldScope(t)
    <2>1. OldScope(t)' = sc
      BY <1>2, <1>3 DEF OldScope
    <2>2. Erasable \subseteq ToDelete(t)'
      <3>1. /\ DOMAIN Deletions = 1 .. 7 /\ Deletions[1] = "work" /\ Deletions[2] = "attempt"
            /\ Deletions[3] = "plan" /\ Deletions[4] = "handoff" /\ Deletions[5] = "receipt"
        BY DEF Deletions
      <3>2. {"work", "attempt", "plan", "handoff", "receipt"} \subseteq {Deletions[i] : i \in DOMAIN Deletions}
        BY <3>1
      <3> QED BY <1>2, <3>2 DEF Erasable, Kinds, ToDelete
    <2> QED BY <1>2, <2>1, <2>2 DEF Erased, ErasedBy
  <1>4. CASE sc # OldScope(t)
    <2>1. marker'[sc] = marker[sc]
      BY <1>1, <1>4 DEF Retire
    <2>2. Erased(sc)
      BY <1>1, <2>1 DEF ErasedInv, Retired
    <2> QED BY <1>1, <1>4, <2>2, ErasedStays
  <1> QED BY <1>3, <1>4

\* A deletion takes what it is about off the list, and off the records.
LEMMA DeleteErased ==
    ASSUME DemoInv, ErasedInv, NEW t \in Tabs, DeleteKind(t) \/ ResetHeads(t)
    PROVE  ErasedInv'
  <1>1. /\ tab \in [Tabs -> Tab] /\ tab[t] \in Tab /\ records \in [Scope -> SUBSET Kinds]
        /\ tab[t].pc = "deleting" /\ UNCHANGED <<marker, cut, overlapped>>
        /\ \A u \in Tabs \ {t} : tab'[u] = tab[u]
    BY DEF DemoInv, DemoTypeOK, DeleteKind, ResetHeads
  <1>2. \A sc \in Scope : records'[sc] \subseteq records[sc]
    BY <1>1 DEF DeleteKind, ResetHeads
  <1> SUFFICES ASSUME NEW sc \in Scope, Retired(sc)', sc \notin (cut \cup overlapped)'
               PROVE  Erased(sc)'
    BY DEF ErasedInv
  <1>3. Erased(sc)
    BY <1>1 DEF ErasedInv, Retired
  <1>4. CASE \/ records[sc] \cap Erasable = {}
             \/ \E u \in Tabs \ {t} : ErasedBy(u, sc)
    <2>1. CASE records[sc] \cap Erasable = {}
      BY <1>2, <2>1 DEF Erased
    <2>2. CASE \E u \in Tabs \ {t} : ErasedBy(u, sc)
      <3>1. PICK u \in Tabs \ {t} : ErasedBy(u, sc)
        BY <2>2
      <3>2. tab'[u] = tab[u]
        BY <1>1, <3>1
      <3>3. ErasedBy(u, sc)'
        BY <1>2, <3>1, <3>2 DEF ErasedBy, OldScope, ToDelete
      <3> QED BY <3>3 DEF Erased
    <2> QED BY <1>4, <2>1, <2>2
  <1>5. CASE ErasedBy(t, sc)
    <2>1. OldScope(t) = sc /\ records[sc] \cap Erasable \subseteq ToDelete(t)
      BY <1>5 DEF ErasedBy
    <2>2. CASE DeleteKind(t)
      <3>1. /\ tab[t].todo # <<>> /\ tab[t].todo \in Seq(Kinds \cup {"release"})
            /\ records' = [records EXCEPT ![sc] = @ \ ({Head(tab[t].todo)} \cap Erasable)]
            /\ tab' = [tab EXCEPT ![t].todo = Tail(@)]
        BY <1>1, <2>1, <2>2 DEF DeleteKind, Tab
      <3>2. /\ tab'[t].pc = "deleting" /\ tab'[t].todo = Tail(tab[t].todo)
            /\ tab'[t].session = tab[t].session /\ tab'[t].generation = tab[t].generation
        BY <1>1, <3>1 DEF Tab
      <3>3. ToDelete(t) \subseteq ToDelete(t)' \cup {Head(tab[t].todo)}
        <4> SUFFICES ASSUME NEW i \in DOMAIN tab[t].todo, i # 1
                     PROVE  tab[t].todo[i] \in ToDelete(t)'
          BY <3>1 DEF ToDelete
        <4>1. i - 1 \in DOMAIN Tail(tab[t].todo) /\ Tail(tab[t].todo)[i - 1] = tab[t].todo[i]
          BY <3>1
        <4> QED BY <3>2, <4>1 DEF ToDelete
      <3>4. records'[sc] \cap Erasable \subseteq ToDelete(t)'
        BY <1>1, <2>1, <3>1, <3>3
      <3>5. OldScope(t)' = sc
        BY <2>1, <3>2 DEF OldScope
      <3> QED BY <3>2, <3>4, <3>5 DEF Erased, ErasedBy
    <2>3. CASE ResetHeads(t)
      <3>1. tab[t].todo = <<>> /\ records'[sc] = records[sc] \ {"head"}
        BY <1>1, <2>1, <2>3 DEF ResetHeads
      <3>2. ToDelete(t) = {"head"}
        BY <3>1 DEF ToDelete
      <3> QED BY <2>1, <3>1, <3>2 DEF Erased
    <2> QED BY <2>2, <2>3
  <1> QED BY <1>3, <1>4, <1>5 DEF Erased

\* A reset that ends early is what cut tells.
LEMMA CutErased ==
    ASSUME DemoInv, ErasedInv,
           Crash \/ \E t \in Tabs : LoseAnswer(t) \/ StoreFails(t)
    PROVE  ErasedInv'
  <1>1. PICK gone \in SUBSET Tabs :
          /\ CutShort(gone) /\ UNCHANGED <<marker, records, overlapped>>
          /\ \A u \in Tabs \ gone : tab'[u] = tab[u]
    <2>1. tab \in [Tabs -> Tab]
      BY DEF DemoInv, DemoTypeOK
    <2>2. CASE Crash
      BY <2>1, <2>2 DEF Crash
    <2>3. ASSUME NEW t \in Tabs, LoseAnswer(t) \/ StoreFails(t)
          PROVE  /\ CutShort({t}) /\ UNCHANGED <<marker, records, overlapped>>
                 /\ \A u \in Tabs \ {t} : tab'[u] = tab[u]
      BY <2>1, <2>3 DEF LoseAnswer, StoreFails, Answer
    <2> QED BY <2>2, <2>3
  <1> SUFFICES ASSUME NEW sc \in Scope, Retired(sc)', sc \notin (cut \cup overlapped)'
               PROVE  Erased(sc)'
    BY DEF ErasedInv
  <1>2. Erased(sc)
    BY <1>1 DEF ErasedInv, Retired, CutShort
  <1>3. ASSUME NEW u \in Tabs, tab[u].pc = "deleting", OldScope(u) = sc PROVE tab'[u] = tab[u]
    <2>1. Resetting(u)
      BY <1>3 DEF DemoInv, TabSound, Shape, Resetting, Locked
    <2>2. u \notin gone
      BY <1>1, <1>3, <2>1 DEF CutShort
    <2> QED BY <1>1, <2>2
  <1> QED BY <1>1, <1>2, <1>3, ErasedStays

LEMMA ErasedNextKeeps == DemoInv /\ ErasedInv /\ [Next]_vars => ErasedInv'
  <1> SUFFICES ASSUME DemoInv, ErasedInv, [Next]_vars PROVE ErasedInv'
    OBVIOUS
  <1>1. CASE Login \/ Logout \/ UNCHANGED vars
    <2>1. UNCHANGED <<tab, marker, records, cut, overlapped>>
      BY <1>1 DEF Login, Logout, vars
    <2> QED BY <2>1, QuietErased DEF Retired
  <1>2. CASE Crash \/ \E t \in Tabs : LoseAnswer(t) \/ StoreFails(t)
    BY <1>2, CutErased
  <1>3. ASSUME NEW t \in Tabs, Serve(t) \/ \E route \in Routes : Send(t, route) PROVE ErasedInv'
    BY <1>3, OtherRequestsErased, EstablishedErased, WriteErased, RetireErased, DeleteErased DEF Serve
  <1> QED BY <1>1, <1>2, <1>3 DEF Next

\* Once a reset has deleted what it lists, nothing that can be erased is left of the generation
\* it retired, unless a request admitted before wrote to it afterwards, or the reset was cut
\* short (delete_scope_records, reset_active_heads).
THEOREM ErasedHolds == Spec => []ErasedUnlessOverlapped
  <1>1. Init => ErasedInv
    BY DEF Init, ErasedInv, Retired
  <1>2. ErasedInv => ErasedUnlessOverlapped
    BY DEF ErasedInv, Erased, ErasedBy, ErasedUnlessOverlapped
  <1> QED BY <1>1, <1>2, ErasedNextKeeps, DemoInvariantHolds, PTL DEF Spec
-----------------------------------------------------------------------------
(***************************************************************************)
(* The browser's cookie.                                                   *)
(***************************************************************************)
\* An answer replaces the whole cookie: with two scenarios it may take back the new
\* generation of the other one.
SingleScenario == \A r, s \in Scenarios : r = s

\* The scope that a request's session names, which its answer may give to the browser
Given(t) == ScopeOf(tab[t].session, Opens[t], tab[t].session.generations[Opens[t]])

GivenSound(t) ==
    /\ tab[t].set_cookie =>
         /\ tab[t].pc \in {"initializing", "ready", "writing", "recreating", "answered"}
         /\ Names(tab[t].session, Opens[t]) /\ ~ Retired(Given(t))
    /\ tab[t].route = "reset" /\ (tab[t].pc = "recreating" \/ tab[t].reply = "ok") => tab[t].set_cookie

\* What an answer will be the first to tell is in no other request and not in the cookie.
Unshared ==
    /\ \A t, u \in Tabs :
         t # u /\ tab[t].set_cookie /\ Holding(u) /\ Names(tab[u].session, Opens[u]) => Given(u) # Given(t)
    /\ \A t \in Tabs :
         tab[t].set_cookie /\ jar # None /\ Names(jar, Opens[t]) =>
             ScopeOf(jar, Opens[t], jar.generations[Opens[t]]) # Given(t)

CookieInv == (\A t \in Tabs : GivenSound(t)) /\ Unshared /\ CookieCurrent

\* A request that does not move keeps what is said of it.
LEMMA GivenStays ==
    ASSUME NEW t \in Tabs, tab'[t] = tab[t]
    PROVE  /\ Given(t)' = Given(t) /\ OldScope(t)' = OldScope(t)
           /\ Holding(t)' <=> Holding(t)
           /\ Resetting(t)' <=> Resetting(t)
  BY DEF Given, OldScope, ScopeOf, Holding, Resetting

\* The scopes that requests and the cookie name are scopes.
LEMMA NamedScopes ==
    ASSUME DemoInv, NEW t \in Tabs
    PROVE  /\ tab[t].pc # "idle" /\ Names(tab[t].session, Opens[t]) =>
                Given(t) \in Scope /\ Given(t).generation \in Generations
           /\ Holding(t) /\ Names(tab[t].session, Opens[t]) => Given(t).generation \in drawn
           /\ jar # None /\ Names(jar, Opens[t]) =>
                /\ ScopeOf(jar, Opens[t], jar.generations[Opens[t]]) \in Scope
                /\ jar.generations[Opens[t]] \in drawn
  <1>1. /\ Opens[t] \in Scenarios /\ (tab[t].pc # "idle" => tab[t].session \in Session)
        /\ jar # None => jar \in Session
        /\ Holding(t) => Held(t)
    BY DemoAssumption DEF DemoInv, DemoTypeOK, TabSound, Shape
  <1>2. tab[t].pc # "idle" /\ Names(tab[t].session, Opens[t]) =>
            Given(t) \in Scope /\ Given(t).generation \in Generations
    <2> SUFFICES ASSUME tab[t].pc # "idle", Names(tab[t].session, Opens[t])
                 PROVE  Given(t) \in Scope /\ Given(t).generation \in Generations
      OBVIOUS
    <2>1. tab[t].session.generations[Opens[t]] \in Generations
      BY <1>1, SessionTyped DEF Names
    <2> QED BY <1>1, <2>1, ScopeTyped DEF Given, ScopeOf
  <1>3. Holding(t) /\ Names(tab[t].session, Opens[t]) => Given(t).generation \in drawn
    BY <1>1 DEF Held, Given, ScopeOf
  <1>4. jar # None /\ Names(jar, Opens[t]) =>
          /\ ScopeOf(jar, Opens[t], jar.generations[Opens[t]]) \in Scope
          /\ jar.generations[Opens[t]] \in drawn
    <2> SUFFICES ASSUME jar # None, Names(jar, Opens[t])
                 PROVE  /\ ScopeOf(jar, Opens[t], jar.generations[Opens[t]]) \in Scope
                        /\ jar.generations[Opens[t]] \in drawn
      OBVIOUS
    <2>1. jar.generations[Opens[t]] \in Generations
      BY <1>1, SessionTyped DEF Names
    <2> QED BY <1>1, <2>1, ScopeTyped DEF DemoInv, JarHeld
  <1> QED BY <1>2, <1>3, <1>4

\* The cookie stays, and each retired generation it may name has its reset or is cut.
LEMMA CurrentStays ==
    ASSUME CookieCurrent, jar' = jar, cut \subseteq cut',
           \A s \in Scenarios : LET sc == ScopeOf(jar, s, jar.generations[s]) IN
               jar # None /\ Names(jar, s) /\ Retired(sc)' =>
                   Retired(sc) \/ \E t \in Tabs : Resetting(t)' /\ OldScope(t)' = sc,
           \A t \in Tabs : Resetting(t) =>
               OldScope(t) \in cut' \/ (Resetting(t)' /\ OldScope(t)' = OldScope(t))
    PROVE  CookieCurrent'
  <1> SUFFICES ASSUME jar # None, NEW s \in Scenarios, Names(jar, s),
                      Retired(ScopeOf(jar, s, jar.generations[s]))'
               PROVE  \/ ScopeOf(jar, s, jar.generations[s]) \in cut'
                      \/ \E t \in Tabs : Resetting(t)' /\ OldScope(t)' = ScopeOf(jar, s, jar.generations[s])
    BY DEF CookieCurrent, GenerationFor, Names, ScopeOf, Retired
  <1> DEFINE sc == ScopeOf(jar, s, jar.generations[s])
  <1>1. CASE Retired(sc)
    <2>1. sc \in cut \/ \E t \in Tabs : Resetting(t) /\ OldScope(t) = sc
      BY <1>1 DEF CookieCurrent, GenerationFor, Names
    <2> HIDE DEF sc
    <2>2. sc \in cut' \/ \E t \in Tabs : Resetting(t)' /\ OldScope(t)' = sc
      BY <2>1
    <2> QED BY <2>2 DEF sc
  <1>2. CASE ~ Retired(sc)
    BY <1>2
  <1> QED BY <1>1, <1>2

\* A request moves, and tells nobody anything.
LEMMA CookieStays ==
    ASSUME DemoInv, CookieInv, NEW t \in Tabs, jar' = jar, cut \subseteq cut',
           \A u \in Tabs \ {t} : tab'[u] = tab[u],
           \A sc \in Scope : Retired(sc)' => Retired(sc),
           Holding(t)' \/ tab'[t].set_cookie => Holding(t) /\ tab'[t].session = tab[t].session,
           tab'[t].set_cookie =>
               /\ tab[t].set_cookie
               /\ tab'[t].pc \in {"initializing", "ready", "writing", "recreating", "answered"},
           tab'[t].route = "reset" /\ (tab'[t].pc = "recreating" \/ tab'[t].reply = "ok") => tab'[t].set_cookie,
           Resetting(t) => OldScope(t) \in cut' \/ (Resetting(t)' /\ OldScope(t)' = OldScope(t))
    PROVE  CookieInv'
  <1>1. Holding(t)' \/ tab'[t].set_cookie => Given(t)' = Given(t)
    BY DEF Given, ScopeOf
  <1>2. ASSUME NEW u \in Tabs PROVE GivenSound(u)'
    <2>1. CASE u = t
      <3> SUFFICES ASSUME tab'[t].set_cookie PROVE Names(tab'[t].session, Opens[t]) /\ ~ Retired(Given(t))'
        BY <2>1 DEF GivenSound, Names
      <3>1. tab[t].set_cookie /\ tab'[t].session = tab[t].session /\ Given(t)' = Given(t)
        BY <1>1
      <3>2. tab[t].pc # "idle" /\ Names(tab[t].session, Opens[t]) /\ ~ Retired(Given(t))
        BY <3>1 DEF CookieInv, GivenSound
      <3>3. Given(t) \in Scope
        BY <3>2, NamedScopes
      <3>4. ~ Retired(Given(t))'
        BY <3>1, <3>2, <3>3 DEF Retired
      <3> QED BY <3>1, <3>2, <3>4 DEF Names
    <2>2. CASE u # t
      <3>1. tab'[u] = tab[u] /\ Given(u)' = Given(u)
        BY <2>2, GivenStays
      <3>2. GivenSound(u)
        BY DEF CookieInv
      <3>3. tab[u].set_cookie => Given(u) \in Scope
        BY <3>2, NamedScopes DEF GivenSound
      <3>4. tab[u].set_cookie => ~ Retired(Given(u))'
        BY <3>1, <3>2, <3>3 DEF GivenSound, Retired
      <3> QED BY <3>1, <3>2, <3>4 DEF GivenSound, Names
    <2> QED BY <2>1, <2>2
  <1>3. Unshared'
    <2>1. ASSUME NEW u \in Tabs
          PROVE  /\ tab'[u].set_cookie => tab[u].set_cookie /\ Given(u)' = Given(u)
                 /\ Holding(u)' => Holding(u) /\ Given(u)' = Given(u) /\ tab'[u].session = tab[u].session
      BY <1>1, GivenStays
    <2>2. ASSUME NEW u \in Tabs, NEW w \in Tabs, u # w, tab'[u].set_cookie, Holding(w)',
                 Names(tab'[w].session, Opens[w])
          PROVE  Given(w)' # Given(u)'
      BY <2>1, <2>2 DEF CookieInv, Unshared, Names
    <2>3. ASSUME NEW u \in Tabs, tab'[u].set_cookie, jar # None, Names(jar, Opens[u])
          PROVE  ScopeOf(jar, Opens[u], jar.generations[Opens[u]]) # Given(u)'
      BY <2>1, <2>3 DEF CookieInv, Unshared
    <2> QED BY <2>2, <2>3 DEF Unshared, Names, ScopeOf
  <1>4. CookieCurrent'
    <2>1. ASSUME NEW u \in Tabs, Resetting(u)
          PROVE  OldScope(u) \in cut' \/ (Resetting(u)' /\ OldScope(u)' = OldScope(u))
      BY <2>1, GivenStays
    <2>2. ASSUME NEW s \in Scenarios, jar # None, Names(jar, s)
          PROVE  ScopeOf(jar, s, jar.generations[s]) \in Scope
      <3>1. jar \in Session /\ jar.generations[s] \in Generations
        BY <2>2, SessionTyped DEF DemoInv, DemoTypeOK, Names
      <3> QED BY <3>1, ScopeTyped
    <2> QED BY <2>1, <2>2, CurrentStays DEF CookieInv, Retired
  <1> QED BY <1>2, <1>3, <1>4 DEF CookieInv

\* A request is answered, or moves on, without a marker or a session of its own to show.
LEMMA QuietCookie ==
    ASSUME DemoInv, CookieInv, NEW t \in Tabs,
           \/ RefuseRetired(t) \/ RefusePage(t) \/ AnswerState(t) \/ Process(t) \/ Write(t)
           \/ EngineReuses(t) \/ AnswerProcessed(t) \/ BeginReset(t) \/ DeleteKind(t)
    PROVE  CookieInv'
  <1>1. /\ tab \in [Tabs -> Tab] /\ tab[t] \in Tab /\ Shape(t) /\ GivenSound(t)
        /\ UNCHANGED <<jar, marker, cut>>
        /\ \A u \in Tabs \ {t} : tab'[u] = tab[u]
    BY DEF DemoInv, DemoTypeOK, TabSound, CookieInv, RefuseRetired, RefusePage, AnswerState, Process,
           Write, EngineReuses, AnswerProcessed, BeginReset, DeleteKind, Answer
  <1>2. CASE RefuseRetired(t) \/ RefusePage(t) \/ AnswerState(t) \/ AnswerProcessed(t)
    <2>1. tab[t].pc \in {"sent", "ready", "writing"}
      BY <1>2 DEF RefuseRetired, RefusePage, AnswerState, AnswerProcessed
    <2>2. PICK reply \in {"ok", "refused"} :
            /\ Answer(t, reply)
            /\ reply = "ok" => tab[t].pc \in {"ready", "writing"}
      BY <1>2 DEF RefuseRetired, RefusePage, AnswerState, AnswerProcessed
    <2>3. /\ tab'[t].pc = "answered" /\ tab'[t].reply = reply
          /\ tab'[t].set_cookie = (tab[t].set_cookie /\ reply = "ok")
          /\ tab'[t].session = tab[t].session /\ tab'[t].route = tab[t].route
      BY <1>1, <2>2 DEF Answer, Tab
    <2>4. ~ Resetting(t) /\ (reply = "ok" => tab[t].route # "reset") /\ Holding(t)
      BY <1>1, <2>1, <2>2 DEF Shape, Resetting, Holding
    <2>5. tab'[t].set_cookie \in BOOLEAN /\ (tab'[t].set_cookie => tab[t].set_cookie)
      BY <1>1, <2>3 DEF Tab
    <2> QED BY <1>1, <2>3, <2>4, <2>5, CookieStays DEF Retired, Holding
  <1>3. CASE Process(t) \/ BeginReset(t)
    <2>1. /\ tab[t].pc \in {"sent", "ready"}
          /\ tab'[t].pc \in {"writing", "retiring"} /\ tab'[t].session = tab[t].session
          /\ tab'[t].set_cookie = tab[t].set_cookie /\ tab'[t].reply = tab[t].reply
          /\ (tab'[t].pc = "retiring" => tab[t].pc = "sent")
      BY <1>1, <1>3 DEF Process, BeginReset, Tab
    <2>2. ~ Resetting(t) /\ tab[t].reply # "ok" /\ Holding(t)
      BY <1>1, <2>1 DEF Shape, Resetting, Holding
    <2>3. tab'[t].set_cookie => tab[t].set_cookie /\ tab'[t].pc = "writing"
      BY <1>1, <2>1 DEF GivenSound
    <2> QED BY <1>1, <2>1, <2>2, <2>3, CookieStays DEF Retired
  <1>4. CASE Write(t) \/ EngineReuses(t) \/ DeleteKind(t)
    <2>1. /\ tab[t].pc \in {"initializing", "writing", "recreating", "deleting"}
          /\ \E todo \in {Tail(tab[t].todo), SubSeq(tab[t].todo, Len(EngineWrites), Len(tab[t].todo))} :
               tab' = [tab EXCEPT ![t].todo = todo]
      BY <1>4 DEF Write, EngineReuses, DeleteKind
    <2>2. /\ tab'[t].pc = tab[t].pc /\ tab'[t].session = tab[t].session
          /\ tab'[t].set_cookie = tab[t].set_cookie /\ tab'[t].reply = tab[t].reply
          /\ tab'[t].route = tab[t].route /\ tab'[t].generation = tab[t].generation
      BY <1>1, <2>1 DEF Tab
    <2>3. (Resetting(t)' <=> Resetting(t)) /\ OldScope(t)' = OldScope(t) /\ (Holding(t)' <=> Holding(t))
      BY <2>2 DEF Resetting, OldScope, Holding, ScopeOf
    <2>4. tab[t].set_cookie => Holding(t) /\ tab[t].pc \in {"initializing", "ready", "writing", "recreating", "answered"}
      BY <1>1 DEF GivenSound, Holding
    <2> QED BY <1>1, <2>2, <2>3, <2>4, CookieStays DEF Retired, GivenSound
  <1> QED BY <1>2, <1>3, <1>4

\* Requests that end without an answer that gives anything
LEMMA CutCookie ==
    ASSUME DemoInv, CookieInv, NEW t \in Tabs, LoseAnswer(t) \/ StoreFails(t)
    PROVE  CookieInv'
  <1>1. /\ tab \in [Tabs -> Tab] /\ tab[t] \in Tab
        /\ UNCHANGED <<jar, marker>> /\ CutShort({t})
        /\ \A u \in Tabs \ {t} : tab'[u] = tab[u]
    BY DEF DemoInv, DemoTypeOK, LoseAnswer, StoreFails, Answer
  <1>2. ~ tab'[t].set_cookie /\ ~ Holding(t)' /\ tab'[t].reply # "ok" /\ tab'[t].pc # "recreating"
    <2>1. CASE LoseAnswer(t)
      BY <1>1, <2>1 DEF LoseAnswer, Resting, Holding
    <2>2. CASE StoreFails(t)
      BY <1>1, <2>2 DEF StoreFails, Answer, Tab, Holding
    <2> QED BY <2>1, <2>2
  <1>3. cut \subseteq cut' /\ (Resetting(t) => OldScope(t) \in cut')
    BY <1>1 DEF CutShort
  <1> QED BY <1>1, <1>2, <1>3, CookieStays DEF Retired

\* The marker of a scenario that is set up retires nothing.
LEMMA EstablishedCookie ==
    ASSUME DemoInv, CookieInv, NEW t \in Tabs, SaveMarker(t) \/ AnswerReset(t)
    PROVE  CookieInv'
  <1>1. /\ tab \in [Tabs -> Tab] /\ tab[t] \in Tab /\ Shape(t) /\ GivenSound(t)
        /\ marker \in [Scope -> Marker \cup {None}]
        /\ UNCHANGED <<jar, cut>>
        /\ \A u \in Tabs \ {t} : tab'[u] = tab[u]
    BY DEF DemoInv, DemoTypeOK, TabSound, CookieInv, SaveMarker, AnswerReset, Answer
  <1>2. \A sc \in Scope : Retired(sc)' => Retired(sc)
    BY <1>1 DEF SaveMarker, AnswerReset, Established, Target, OldScope, ScopeOf, Retired
  <1>3. CASE SaveMarker(t)
    <2>1. /\ tab[t].pc = "initializing" /\ tab'[t].pc = "ready" /\ tab'[t].session = tab[t].session
          /\ tab'[t].set_cookie = tab[t].set_cookie /\ tab'[t].reply = tab[t].reply
      BY <1>1, <1>3 DEF SaveMarker, Tab
    <2>2. ~ Resetting(t) /\ tab[t].reply # "ok" /\ Holding(t)
      BY <1>1, <2>1 DEF Shape, Resetting, Holding
    <2> QED BY <1>1, <1>2, <2>1, <2>2, CookieStays
  <1>4. CASE AnswerReset(t)
    <2>1. /\ tab[t].pc = "recreating" /\ tab'[t].pc = "answered" /\ tab'[t].session = tab[t].session
          /\ tab'[t].set_cookie = tab[t].set_cookie /\ tab'[t].reply = "ok"
          /\ tab'[t].route = tab[t].route /\ tab'[t].generation = tab[t].generation
      BY <1>1, <1>4 DEF AnswerReset, Answer, Tab
    <2>2. tab[t].route = "reset" /\ tab[t].set_cookie /\ Holding(t)
      BY <1>1, <2>1 DEF Shape, Locked, GivenSound, Holding
    <2>3. Resetting(t)' /\ OldScope(t)' = OldScope(t)
      BY <2>1, <2>2 DEF Resetting, OldScope, ScopeOf
    <2> QED BY <1>1, <1>2, <2>1, <2>2, <2>3, CookieStays
  <1> QED BY <1>3, <1>4

\* A request that does not move goes on giving what it gave, unless that is retired.
LEMMA OtherGives ==
    ASSUME CookieInv, NEW u \in Tabs, tab'[u] = tab[u],
           tab[u].set_cookie => ~ Retired(Given(u))'
    PROVE  GivenSound(u)'
  BY GivenStays DEF CookieInv, GivenSound, Names

LEMMA SessionsCookie ==
    ASSUME DemoInv, CookieInv, Login \/ Logout \/ UNCHANGED vars
    PROVE  CookieInv'
  <1>1. UNCHANGED <<tab, marker, cut>>
    BY DEF Login, Logout, vars
  <1>2. jar' = jar \/ jar' = None \/ \A s \in Scenarios : ~ Names(jar, s)'
    BY DEF Login, Logout, vars, Names
  <1>3. ASSUME NEW u \in Tabs PROVE GivenSound(u)'
    BY <1>1 DEF CookieInv, GivenSound, Names, Given, ScopeOf, Retired
  <1>4. Unshared'
    <2>1. \A u \in Tabs : Opens[u] \in Scenarios
      BY DemoAssumption
    <2> QED BY <1>1, <1>2, <2>1 DEF CookieInv, Unshared, Names, Given, ScopeOf, Holding
  <1>5. CookieCurrent'
    BY <1>1, <1>2 DEF CookieInv, CookieCurrent, Names, GenerationFor, ScopeOf, Retired, Resetting, OldScope
  <1> QED BY <1>3, <1>4, <1>5 DEF CookieInv

\* A request is sent with the cookie, which names nothing that an answer is to give.
LEMMA SendCookie ==
    ASSUME SingleScenario, DemoInv, CookieInv, NEW t \in Tabs, NEW route \in Routes, Send(t, route)
    PROVE  CookieInv'
  <1>1. /\ tab \in [Tabs -> Tab] /\ tab[t] \in Tab /\ Shape(t) /\ GivenSound(t)
        /\ UNCHANGED <<jar, marker, cut>>
        /\ \A u \in Tabs \ {t} : tab'[u] = tab[u]
        /\ \A u \in Tabs : Opens[u] \in Scenarios
    BY DemoAssumption DEF DemoInv, DemoTypeOK, TabSound, CookieInv, Send
  <1>2. /\ jar # None /\ tab[t].pc = "idle" /\ tab'[t].pc = "sent" /\ tab'[t].session = jar
        /\ tab'[t].set_cookie = tab[t].set_cookie /\ tab'[t].reply = tab[t].reply
    BY <1>1 DEF Send, Tab
  <1>3. ~ tab'[t].set_cookie /\ tab'[t].reply # "ok" /\ ~ Resetting(t)
    BY <1>1, <1>2 DEF GivenSound, Shape, Resetting
  <1>4. ASSUME NEW u \in Tabs PROVE GivenSound(u)'
    <2>1. CASE u = t
      BY <1>2, <1>3, <2>1 DEF GivenSound
    <2>2. CASE u # t
      <3>1. tab[u].set_cookie => ~ Retired(Given(u))'
        BY <1>1, <2>2, GivenStays DEF CookieInv, GivenSound, Retired
      <3> QED BY <1>1, <2>2, <3>1, OtherGives
    <2> QED BY <2>1, <2>2
  <1>5. Unshared'
    <2>1. Given(t)' = ScopeOf(jar, Opens[t], jar.generations[Opens[t]])
      BY <1>2 DEF Given, ScopeOf
    <2>2. ASSUME NEW u \in Tabs, NEW w \in Tabs, u # w, tab'[u].set_cookie, Holding(w)',
                 Names(tab'[w].session, Opens[w])
          PROVE  Given(w)' # Given(u)'
      <3>1. u # t /\ tab'[u] = tab[u] /\ Given(u)' = Given(u)
        BY <1>1, <1>3, <2>2, GivenStays
      <3>2. CASE w = t
        BY <1>1, <1>2, <2>1, <2>2, <3>1, <3>2 DEF SingleScenario, CookieInv, Unshared
      <3>3. CASE w # t
        <4>1. tab'[w] = tab[w] /\ Given(w)' = Given(w) /\ Holding(w)
          BY <1>1, <2>2, <3>3, GivenStays
        <4> QED BY <2>2, <3>1, <4>1 DEF CookieInv, Unshared
      <3> QED BY <3>2, <3>3
    <2>3. ASSUME NEW u \in Tabs, tab'[u].set_cookie, jar # None, Names(jar, Opens[u])
          PROVE  ScopeOf(jar, Opens[u], jar.generations[Opens[u]]) # Given(u)'
      <3>1. u # t /\ tab'[u] = tab[u] /\ Given(u)' = Given(u)
        BY <1>1, <1>3, <2>3, GivenStays
      <3> QED BY <2>3, <3>1 DEF CookieInv, Unshared
    <2> QED BY <1>1, <2>2, <2>3 DEF Unshared, Names, ScopeOf
  <1>6. CookieCurrent'
    <2>1. ASSUME NEW u \in Tabs, Resetting(u)
          PROVE  OldScope(u) \in cut' \/ (Resetting(u)' /\ OldScope(u)' = OldScope(u))
      BY <1>1, <1>3, <2>1, GivenStays
    <2> QED BY <1>1, <2>1, CurrentStays DEF CookieInv, Retired
  <1> QED BY <1>4, <1>5, <1>6 DEF CookieInv

\* A reset retires what no answer is to give; the cookie that names it has its answer to come.
LEMMA RetireCookie ==
    ASSUME SingleScenario, DemoInv, CookieInv, NEW t \in Tabs, Retire(t)
    PROVE  CookieInv'
  <1>1. /\ tab \in [Tabs -> Tab] /\ tab[t] \in Tab /\ Shape(t) /\ GivenSound(t)
        /\ marker \in [Scope -> Marker \cup {None}] /\ tab[t].pc = "retiring"
        /\ UNCHANGED <<jar, cut>>
        /\ \A u \in Tabs \ {t} : tab'[u] = tab[u]
        /\ \A u \in Tabs : Opens[u] \in Scenarios
    BY DemoAssumption DEF DemoInv, DemoTypeOK, TabSound, CookieInv, Retire
  <1>2. /\ tab'[t].pc = "deleting" /\ tab'[t].session = tab[t].session
        /\ tab'[t].set_cookie = tab[t].set_cookie /\ tab'[t].reply = tab[t].reply
        /\ tab'[t].route = tab[t].route /\ tab'[t].generation = tab[t].generation
    BY <1>1 DEF Retire, Tab
  <1>3. /\ tab[t].route = "reset" /\ tab[t].reply # "ok" /\ ~ tab[t].set_cookie
        /\ ~ Resetting(t) /\ Holding(t)
        /\ tab[t].generation = GenerationFor(tab[t].session, Opens[t])
    BY <1>1 DEF Shape, Locked, Resetting, Holding, GivenSound
  <1>4. Resetting(t)' /\ OldScope(t)' = OldScope(t) /\ Given(t)' = Given(t) /\ (Holding(t)' <=> Holding(t))
    BY <1>2, <1>3 DEF Resetting, OldScope, Given, ScopeOf, Holding
  <1>5. ASSUME NEW sc \in Scope, Retired(sc)', sc # OldScope(t) PROVE Retired(sc)
    BY <1>1, <1>5 DEF Retire, Retired
  <1>6. ASSUME NEW u \in Tabs PROVE GivenSound(u)'
    <2>1. CASE u = t
      BY <1>2, <1>3, <2>1 DEF GivenSound
    <2>2. CASE u # t
      <3>1. SUFFICES ASSUME tab[u].set_cookie PROVE ~ Retired(Given(u))'
        BY <1>1, <2>2, OtherGives
      <3>2. tab[u].pc # "idle" /\ Names(tab[u].session, Opens[u]) /\ ~ Retired(Given(u))
        BY <3>1 DEF CookieInv, GivenSound
      <3>3. Given(u) \in Scope /\ Given(u).generation \in Generations /\ Given(u)' = Given(u)
        BY <1>1, <2>2, <3>2, NamedScopes, GivenStays
      <3>4. Given(u) # OldScope(t)
        <4>1. CASE Names(tab[t].session, Opens[t])
          <5>1. OldScope(t) = Given(t)
            BY <1>3, <4>1 DEF OldScope, Given, Names, GenerationFor
          <5> QED BY <1>3, <2>2, <3>1, <4>1, <5>1 DEF CookieInv, Unshared
        <4>2. CASE ~ Names(tab[t].session, Opens[t])
          <5>1. OldScope(t).generation = G0
            BY <1>3, <4>2 DEF OldScope, ScopeOf, Names, GenerationFor
          <5> QED BY <3>3, <5>1, NoneApart
        <4> QED BY <4>1, <4>2
      <3>5. Retired(Given(u))' => Retired(Given(u))
        BY <1>5, <3>3, <3>4 DEF Retired
      <3> QED BY <3>2, <3>5
    <2> QED BY <2>1, <2>2
  <1>7. Unshared'
    <2>1. ASSUME NEW u \in Tabs
          PROVE  /\ tab'[u].set_cookie = tab[u].set_cookie /\ tab'[u].session = tab[u].session
                 /\ Given(u)' = Given(u) /\ (Holding(u)' <=> Holding(u))
      BY <1>1, <1>2, <1>4, GivenStays
    <2>2. \A u \in Tabs : Names(tab[u].session, Opens[u])' <=> Names(tab[u].session, Opens[u])
      BY <2>1 DEF Names
    <2>3. ASSUME NEW u \in Tabs, NEW w \in Tabs, u # w, tab'[u].set_cookie, Holding(w)',
                 Names(tab[w].session, Opens[w])'
          PROVE  Given(w)' # Given(u)'
      BY <2>1, <2>2, <2>3 DEF CookieInv, Unshared
    <2>4. ASSUME NEW u \in Tabs, tab'[u].set_cookie, jar # None, Names(jar, Opens[u])
          PROVE  ScopeOf(jar, Opens[u], jar.generations[Opens[u]]) # Given(u)'
      BY <2>1, <2>4 DEF CookieInv, Unshared
    <2> QED BY <1>1, <2>3, <2>4 DEF Unshared, Names, ScopeOf
  <1>8. CookieCurrent'
    <2>1. ASSUME NEW u \in Tabs, Resetting(u)
          PROVE  OldScope(u) \in cut' \/ (Resetting(u)' /\ OldScope(u)' = OldScope(u))
      BY <1>1, <1>3, <2>1, GivenStays
    <2>2. ASSUME NEW s \in Scenarios, jar # None, Names(jar, s),
                 Retired(ScopeOf(jar, s, jar.generations[s]))'
          PROVE  \/ Retired(ScopeOf(jar, s, jar.generations[s]))
                 \/ \E u \in Tabs : Resetting(u)' /\ OldScope(u)' = ScopeOf(jar, s, jar.generations[s])
      <3>1. jar \in Session /\ jar.generations[s] \in Generations
        BY <2>2, SessionTyped DEF DemoInv, DemoTypeOK, Names
      <3>2. ScopeOf(jar, s, jar.generations[s]) \in Scope
        BY <3>1, ScopeTyped
      <3>3. UNCHANGED ScopeOf(jar, s, jar.generations[s])
        BY <1>1 DEF ScopeOf
      <3>4. CASE ScopeOf(jar, s, jar.generations[s]) = OldScope(t)
        BY <1>4, <3>4
      <3>5. CASE ScopeOf(jar, s, jar.generations[s]) # OldScope(t)
        BY <1>5, <2>2, <3>2, <3>3, <3>5 DEF Retired
      <3> QED BY <3>4, <3>5
    <2> QED BY <1>1, <2>1, <2>2, CurrentStays DEF CookieInv
  <1> QED BY <1>6, <1>7, <1>8 DEF CookieInv

\* A reset's answer will give a generation that it alone knows.
LEMMA ResetHeadsCookie ==
    ASSUME DemoInv, CookieInv, NEW t \in Tabs, ResetHeads(t)
    PROVE  CookieInv'
  <1>1. /\ tab \in [Tabs -> Tab] /\ tab[t] \in Tab /\ TabSound(t) /\ Shape(t)
        /\ tab[t].pc = "deleting" /\ UNCHANGED <<jar, marker, cut>>
        /\ \A u \in Tabs \ {t} : tab'[u] = tab[u]
        /\ Opens[t] \in Scenarios /\ tab[t].session \in Session
    BY DemoAssumption DEF DemoInv, DemoTypeOK, TabSound, Shape, ResetHeads
  <1>2. /\ tab'[t].pc = "recreating" /\ tab'[t].set_cookie /\ tab'[t].reply = tab[t].reply
        /\ tab'[t].route = tab[t].route /\ tab'[t].generation = tab[t].generation
        /\ tab'[t].session.workspace = tab[t].session.workspace
        /\ tab'[t].session.generations[Opens[t]] = tab[t].next
    BY <1>1 DEF ResetHeads, Tab, Session
  <1>3. /\ Claiming(t) /\ Claimed(t) = tab[t].next /\ tab[t].next \in Generations
        /\ marker[ClaimedScope(t)] = None /\ tab[t].route = "reset"
    BY <1>1 DEF TabSound, Shape, Claiming, Claimed, Locked
  <1>4. /\ Given(t)' = ClaimedScope(t) /\ Names(tab'[t].session, Opens[t])
        /\ OldScope(t)' = OldScope(t) /\ Resetting(t)'
    BY <1>2, <1>3, NoneApart DEF Given, ClaimedScope, ScopeOf, Names, OldScope, Resetting
  <1>5. ASSUME NEW u \in Tabs \ {t}, Holding(u), Names(tab[u].session, Opens[u])
        PROVE  Given(u) # Given(t)'
    <2>1. /\ TabSound(u) /\ Held(u) /\ Opens[u] \in Scenarios
      BY <1>5, DemoAssumption DEF DemoInv, TabSound
    <2>2. CASE Marked(tab[u].session, Opens[u])
      BY <1>3, <1>4, <2>2 DEF Marked, Given
    <2>3. CASE tab[u].pc \in {"initializing", "recreating"}
      <3>1. Claiming(u) /\ Claimed(u) = Given(u).generation
        BY <2>1, <2>3 DEF TabSound, Shape, Claiming, Claimed, Locked, Given, ScopeOf
      <3>2. Claimed(u) # Claimed(t)
        BY <1>3, <3>1 DEF DemoInv, Apart
      <3> QED BY <1>4, <3>1, <3>2 DEF ClaimedScope, ScopeOf
    <2> QED BY <1>5, <2>1, <2>2, <2>3 DEF Held
  <1>6. jar # None /\ Names(jar, Opens[t]) =>
            ScopeOf(jar, Opens[t], jar.generations[Opens[t]]) # Given(t)'
    BY <1>1, <1>3, <1>4 DEF DemoInv, JarHeld, Marked
  <1>7. ASSUME NEW u \in Tabs PROVE GivenSound(u)'
    <2>1. CASE u = t
      <3>1. ~ Retired(Given(t))'
        BY <1>1, <1>3, <1>4 DEF Retired
      <3> QED BY <1>2, <1>4, <2>1, <3>1 DEF GivenSound, Names
    <2>2. CASE u # t
      <3>1. tab[u].set_cookie => ~ Retired(Given(u))'
        BY <1>1, <2>2, GivenStays DEF CookieInv, GivenSound, Retired
      <3> QED BY <1>1, <2>2, <3>1, OtherGives
    <2> QED BY <2>1, <2>2
  <1>8. Unshared'
    <2>1. ASSUME NEW u \in Tabs \ {t}
          PROVE  /\ tab'[u] = tab[u] /\ Given(u)' = Given(u) /\ (Holding(u)' <=> Holding(u))
                 /\ tab[u].set_cookie => Holding(u) /\ Names(tab[u].session, Opens[u])
      BY <1>1, GivenStays DEF CookieInv, GivenSound, Holding
    <2>2. ASSUME NEW u \in Tabs, NEW w \in Tabs, u # w, tab'[u].set_cookie, Holding(w)',
                 Names(tab'[w].session, Opens[w])
          PROVE  Given(w)' # Given(u)'
      <3>1. CASE u = t
        BY <1>5, <2>1, <2>2, <3>1
      <3>2. CASE w = t
        BY <1>5, <2>1, <2>2, <3>2
      <3>3. CASE u # t /\ w # t
        BY <2>1, <2>2, <3>3 DEF CookieInv, Unshared
      <3> QED BY <3>1, <3>2, <3>3
    <2>3. ASSUME NEW u \in Tabs, tab'[u].set_cookie, jar # None, Names(jar, Opens[u])
          PROVE  ScopeOf(jar, Opens[u], jar.generations[Opens[u]]) # Given(u)'
      BY <1>6, <2>1, <2>3 DEF CookieInv, Unshared
    <2> QED BY <1>1, <2>2, <2>3 DEF Unshared, Names, ScopeOf
  <1>9. CookieCurrent'
    <2>1. ASSUME NEW u \in Tabs, Resetting(u)
          PROVE  OldScope(u) \in cut' \/ (Resetting(u)' /\ OldScope(u)' = OldScope(u))
      BY <1>1, <1>4, <2>1, GivenStays
    <2> QED BY <1>1, <2>1, CurrentStays DEF CookieInv, Retired
  <1> QED BY <1>7, <1>8, <1>9 DEF CookieInv

\* A request is admitted: a new generation is one that nobody has drawn.
LEMMA AdmitCookie ==
    ASSUME DemoInv, CookieInv, NEW t \in Tabs, Admit(t)
    PROVE  CookieInv'
  <1>1. /\ tab \in [Tabs -> Tab] /\ tab[t] \in Tab /\ TabSound(t) /\ Shape(t) /\ GivenSound(t)
        /\ tab[t].pc = "sent" /\ tab[t].route # "reset" /\ UNCHANGED <<jar, marker, cut>>
        /\ \A u \in Tabs \ {t} : tab'[u] = tab[u]
        /\ Opens[t] \in Scenarios /\ tab[t].session \in Session
    BY DemoAssumption DEF DemoInv, DemoTypeOK, TabSound, Shape, CookieInv, Admit
  <1>2. PICK g \in Generations \cup {None} :
          /\ IF tab[t].session.generations[Opens[t]] = None
             THEN g \in Fresh ELSE g = tab[t].session.generations[Opens[t]]
          /\ ~ Retired(ScopeOf(tab[t].session, Opens[t], g))
          /\ tab'[t].session = [tab[t].session EXCEPT !.generations[Opens[t]] = g]
          /\ tab'[t].set_cookie = (tab[t].session.generations[Opens[t]] = None)
          /\ tab'[t].pc \in {"ready", "initializing"}
          /\ tab'[t].reply = tab[t].reply /\ tab'[t].route = tab[t].route
    <2>1. tab[t].session.generations[Opens[t]] \in Generations \cup {None}
      BY <1>1, SessionTyped
    <2> QED BY <1>1, <2>1 DEF Admit, Fresh, Tab, Session
  <1>3. tab[t].reply # "ok" /\ ~ Resetting(t) /\ ~ tab[t].set_cookie /\ Holding(t)
    BY <1>1 DEF Shape, Resetting, GivenSound, Holding
  <1>4. CASE Names(tab[t].session, Opens[t])
    <2>1. g = tab[t].session.generations[Opens[t]] /\ ~ tab'[t].set_cookie
      BY <1>2, <1>4 DEF Names
    <2>2. tab'[t].session = tab[t].session
      BY <1>1, <1>2, <2>1 DEF Session
    <2> QED BY <1>1, <1>2, <1>3, <2>1, <2>2, CookieStays DEF Retired
  <1>5. CASE ~ Names(tab[t].session, Opens[t])
    <2>1. g \in Generations /\ g \notin drawn /\ tab'[t].set_cookie
      BY <1>2, <1>5 DEF Names, Fresh
    <2>2. /\ tab'[t].session.workspace = tab[t].session.workspace
          /\ tab'[t].session.generations[Opens[t]] = g
      BY <1>1, <1>2 DEF Session
    <2>3. /\ Given(t)' = ScopeOf(tab[t].session, Opens[t], g) /\ Given(t)'.generation = g
          /\ Names(tab'[t].session, Opens[t])
      BY <2>1, <2>2, NoneApart DEF Given, ScopeOf, Names
    <2>4. ASSUME NEW u \in Tabs
          PROVE  u # t => /\ tab'[u] = tab[u] /\ Given(u)' = Given(u) /\ (Holding(u)' <=> Holding(u))
                          /\ tab[u].set_cookie => Holding(u) /\ Names(tab[u].session, Opens[u])
                          /\ Holding(u) /\ Names(tab[u].session, Opens[u]) => Given(u) # Given(t)'
      <3>1. SUFFICES ASSUME u # t
            PROVE  /\ tab'[u] = tab[u] /\ Given(u)' = Given(u) /\ (Holding(u)' <=> Holding(u))
                   /\ tab[u].set_cookie => Holding(u) /\ Names(tab[u].session, Opens[u])
                   /\ Holding(u) /\ Names(tab[u].session, Opens[u]) => Given(u) # Given(t)'
        OBVIOUS
      <3>2. Holding(u) /\ Names(tab[u].session, Opens[u]) => Given(u).generation \in drawn
        BY NamedScopes
      <3>3. tab[u].set_cookie => Holding(u) /\ Names(tab[u].session, Opens[u])
        BY DEF CookieInv, GivenSound, Holding
      <3> QED BY <1>1, <2>1, <2>3, <3>1, <3>2, <3>3, GivenStays
    <2>5. jar # None /\ Names(jar, Opens[t]) =>
              ScopeOf(jar, Opens[t], jar.generations[Opens[t]]) # Given(t)'
      <3>1. jar # None /\ Names(jar, Opens[t]) => jar.generations[Opens[t]] \in drawn
        BY NamedScopes
      <3> QED BY <2>1, <2>3, <3>1 DEF ScopeOf
    <2>6. ASSUME NEW u \in Tabs PROVE GivenSound(u)'
      <3>1. CASE u = t
        <4>1. ~ Retired(Given(t))'
          BY <1>1, <1>2, <2>3 DEF Retired
        <4> QED BY <1>1, <1>2, <2>1, <2>3, <3>1, <4>1 DEF GivenSound, Names
      <3>2. CASE u # t
        <4>1. tab[u].set_cookie => ~ Retired(Given(u))'
          BY <1>1, <3>2, GivenStays DEF CookieInv, GivenSound, Retired
        <4> QED BY <1>1, <3>2, <4>1, OtherGives
      <3> QED BY <3>1, <3>2
    <2>7. Unshared'
      <3>1. ASSUME NEW u \in Tabs, NEW w \in Tabs, u # w, tab'[u].set_cookie, Holding(w)',
                   Names(tab'[w].session, Opens[w])
            PROVE  Given(w)' # Given(u)'
        <4>1. CASE u = t
          BY <2>4, <3>1, <4>1
        <4>2. CASE w = t
          BY <2>4, <3>1, <4>2
        <4>3. CASE u # t /\ w # t
          BY <2>4, <3>1, <4>3 DEF CookieInv, Unshared
        <4> QED BY <4>1, <4>2, <4>3
      <3>2. ASSUME NEW u \in Tabs, tab'[u].set_cookie, jar # None, Names(jar, Opens[u])
            PROVE  ScopeOf(jar, Opens[u], jar.generations[Opens[u]]) # Given(u)'
        BY <2>4, <2>5, <3>2 DEF CookieInv, Unshared
      <3> QED BY <1>1, <3>1, <3>2 DEF Unshared, Names, ScopeOf
    <2>8. CookieCurrent'
      <3>1. ASSUME NEW u \in Tabs, Resetting(u)
            PROVE  OldScope(u) \in cut' \/ (Resetting(u)' /\ OldScope(u)' = OldScope(u))
        BY <1>1, <1>3, <3>1, GivenStays
      <3> QED BY <1>1, <3>1, CurrentStays DEF CookieInv, Retired
    <2> QED BY <2>6, <2>7, <2>8 DEF CookieInv
  <1> QED BY <1>4, <1>5

\* The browser takes a cookie that names nothing retired, and that no answer is to give again.
LEMMA DeliverCookie ==
    ASSUME SingleScenario, DemoInv, CookieInv, NEW t \in Tabs, Deliver(t)
    PROVE  CookieInv'
  <1>1. /\ tab \in [Tabs -> Tab] /\ tab[t] \in Tab /\ GivenSound(t)
        /\ tab[t].pc = "answered" /\ UNCHANGED <<marker, cut>>
        /\ \A u \in Tabs \ {t} : tab'[u] = tab[u]
        /\ \A u \in Tabs : Opens[u] \in Scenarios
    BY DemoAssumption DEF DemoInv, DemoTypeOK, CookieInv, Deliver
  <1>2. /\ ~ tab'[t].set_cookie /\ tab'[t].pc = "idle" /\ tab'[t].reply = "none" /\ ~ Holding(t)'
    BY <1>1 DEF Deliver, Resting, Holding
  <1>3. CASE ~ tab[t].set_cookie
    <2>1. jar' = jar /\ ~ Resetting(t)
      BY <1>1, <1>3 DEF Deliver, GivenSound, Resetting
    <2> QED BY <1>1, <1>2, <2>1, CookieStays DEF Retired
  <1>4. CASE tab[t].set_cookie
    <2>1. /\ jar' = tab[t].session /\ Names(tab[t].session, Opens[t]) /\ ~ Retired(Given(t))
          /\ Holding(t)
      BY <1>1, <1>4 DEF Deliver, GivenSound, Holding
    <2>2. ASSUME NEW u \in Tabs PROVE GivenSound(u)'
      <3>1. CASE u = t
        BY <1>2, <3>1 DEF GivenSound
      <3>2. CASE u # t
        <4>1. tab[u].set_cookie => ~ Retired(Given(u))'
          BY <1>1, <3>2, GivenStays DEF CookieInv, GivenSound, Retired
        <4> QED BY <1>1, <3>2, <4>1, OtherGives
      <3> QED BY <3>1, <3>2
    <2>3. Unshared'
      <3>1. ASSUME NEW u \in Tabs, tab'[u].set_cookie
            PROVE  u # t /\ tab[u].set_cookie /\ Given(u)' = Given(u)
        BY <1>1, <1>2, <3>1, GivenStays
      <3>2. ASSUME NEW u \in Tabs, NEW w \in Tabs, u # w, tab'[u].set_cookie, Holding(w)',
                   Names(tab'[w].session, Opens[w])
            PROVE  Given(w)' # Given(u)'
        <4>1. w # t /\ tab'[w] = tab[w] /\ Given(w)' = Given(w) /\ Holding(w)
          BY <1>1, <1>2, <3>2, GivenStays
        <4> QED BY <3>1, <3>2, <4>1 DEF CookieInv, Unshared
      <3>3. ASSUME NEW u \in Tabs, tab'[u].set_cookie
            PROVE  ScopeOf(jar', Opens[u], jar'.generations[Opens[u]]) # Given(u)'
        <4>1. Opens[u] = Opens[t]
          BY <1>1 DEF SingleScenario
        <4>2. ScopeOf(jar', Opens[u], jar'.generations[Opens[u]]) = Given(t)
          BY <2>1, <4>1 DEF Given
        <4> QED BY <2>1, <3>1, <3>3, <4>2 DEF CookieInv, Unshared
      <3> QED BY <1>1, <3>2, <3>3 DEF Unshared, Names, ScopeOf
    <2>4. CookieCurrent'
      <3>1. ASSUME NEW s \in Scenarios
            PROVE  ~ Retired(ScopeOf(jar, s, jar.generations[s]))'
        <4>1. s = Opens[t]
          BY <1>1 DEF SingleScenario
        <4>2. ScopeOf(jar, s, jar.generations[s])' = Given(t)
          BY <2>1, <4>1 DEF Given, ScopeOf
        <4> QED BY <1>1, <2>1, <4>2 DEF Retired
      <3> QED BY <3>1 DEF CookieCurrent, GenerationFor
    <2> QED BY <2>2, <2>3, <2>4 DEF CookieInv
  <1> QED BY <1>3, <1>4

\* A crash takes requests away, and tells which resets it cut short.
LEMMA CrashCookie ==
    ASSUME DemoInv, CookieInv, Crash
    PROVE  CookieInv'
  <1>1. /\ tab \in [Tabs -> Tab] /\ UNCHANGED <<jar, marker>>
        /\ CutShort({u \in Tabs : InServer(u)})
        /\ tab' = [u \in Tabs |-> IF InServer(u) THEN Resting(tab[u].shown) ELSE tab[u]]
    BY DEF DemoInv, DemoTypeOK, Crash
  <1>2. ASSUME NEW u \in Tabs
        PROVE  \/ tab'[u] = tab[u]
               \/ /\ InServer(u) /\ ~ tab'[u].set_cookie /\ ~ Holding(u)'
                  /\ tab'[u].reply = "none" /\ tab'[u].pc = "idle"
    BY <1>1 DEF Resting, Holding
  <1>3. ASSUME NEW u \in Tabs, tab'[u].set_cookie \/ Holding(u)'
        PROVE  /\ tab'[u] = tab[u] /\ Given(u)' = Given(u) /\ (Holding(u)' <=> Holding(u))
    BY <1>2, <1>3, GivenStays
  <1>4. ASSUME NEW u \in Tabs PROVE GivenSound(u)'
    <2>1. CASE tab'[u] = tab[u]
      <3>1. tab[u].set_cookie => ~ Retired(Given(u))'
        BY <1>1, <2>1, GivenStays DEF CookieInv, GivenSound, Retired
      <3> QED BY <2>1, <3>1, OtherGives
    <2>2. CASE ~ tab'[u].set_cookie /\ tab'[u].reply = "none" /\ tab'[u].pc = "idle"
      BY <2>2 DEF GivenSound
    <2> QED BY <1>2, <2>1, <2>2
  <1>5. Unshared'
    <2>1. ASSUME NEW u \in Tabs, NEW w \in Tabs, u # w, tab'[u].set_cookie, Holding(w)',
                 Names(tab'[w].session, Opens[w])
          PROVE  Given(w)' # Given(u)'
      BY <1>3, <2>1 DEF CookieInv, Unshared
    <2>2. ASSUME NEW u \in Tabs, tab'[u].set_cookie, jar # None, Names(jar, Opens[u])
          PROVE  ScopeOf(jar, Opens[u], jar.generations[Opens[u]]) # Given(u)'
      BY <1>3, <2>2 DEF CookieInv, Unshared
    <2> QED BY <1>1, <2>1, <2>2 DEF Unshared, Names, ScopeOf
  <1>6. CookieCurrent'
    <2>1. ASSUME NEW u \in Tabs, Resetting(u)
          PROVE  OldScope(u) \in cut' \/ (Resetting(u)' /\ OldScope(u)' = OldScope(u))
      <3>1. CASE InServer(u)
        BY <1>1, <2>1, <3>1 DEF CutShort
      <3>2. CASE tab'[u] = tab[u]
        BY <2>1, <3>2, GivenStays
      <3> QED BY <1>2, <3>1, <3>2
    <2>2. cut \subseteq cut'
      BY <1>1 DEF CutShort
    <2> QED BY <1>1, <2>1, <2>2, CurrentStays DEF CookieInv, Retired
  <1> QED BY <1>4, <1>5, <1>6 DEF CookieInv

LEMMA CookieNextKeeps == SingleScenario /\ DemoInv /\ CookieInv /\ [Next]_vars => CookieInv'
  <1> SUFFICES ASSUME SingleScenario, DemoInv, CookieInv, [Next]_vars PROVE CookieInv'
    OBVIOUS
  <1>1. CASE Login \/ Logout \/ UNCHANGED vars
    BY <1>1, SessionsCookie
  <1>2. CASE Crash
    BY <1>2, CrashCookie
  <1>3. ASSUME NEW t \in Tabs, LoseAnswer(t) \/ StoreFails(t) PROVE CookieInv'
    BY <1>3, CutCookie
  <1>4. ASSUME NEW t \in Tabs, NEW route \in Routes, Send(t, route) PROVE CookieInv'
    BY <1>4, SendCookie
  <1>5. ASSUME NEW t \in Tabs, Serve(t) PROVE CookieInv'
    BY <1>5, QuietCookie, EstablishedCookie, AdmitCookie, RetireCookie, ResetHeadsCookie, DeliverCookie
       DEF Serve
  <1> QED BY <1>1, <1>2, <1>3, <1>4, <1>5 DEF Next

\* Where there is one scenario, the browser holds a retired generation only while the answer of
\* the reset that retired it is to come, or if that was lost (Set-Cookie, _scenario_session).
THEOREM CookieHolds == ASSUME SingleScenario PROVE Spec => []CookieCurrent
  <1>1. Init => CookieInv
    BY DEF Init, Resting, CookieInv, GivenSound, Unshared, CookieCurrent
  <1>2. DemoInv /\ CookieInv /\ [Next]_vars => CookieInv'
    BY CookieNextKeeps
  <1>3. CookieInv => CookieCurrent
    BY DEF CookieInv
  <1> QED BY <1>1, <1>2, <1>3, DemoInvariantHolds, PTL DEF Spec
=============================================================================
