------------------------- MODULE EngineReportProofs -------------------------
(***************************************************************************)
(* Theorems about DeltaEngine for every workflow, set of calls and           *)
(* environment: that reports, attempts and heads tell one story.  Beside     *)
(* EngineInv they rest on what the place of a call says of its attempts      *)
(* (Story) and of the heads that name it (HeadSound).                       *)
(***************************************************************************)
EXTENDS DeltaEngineProofs

\* What a decision of a report says of the attempt
StatusOf(decision) ==
    CASE decision = "executed" -> "succeeded"
      [] decision = "failed" -> "failed"
      [] OTHER -> "absent"

\* The statuses the attempt of its step may have while a call is at a place
StatusesAt(place) ==
    CASE place \in {"idle", "resolve", "looked_up"} -> {"absent"}
      [] place \in {"attempt_started", "executing", "produced", "result_saved"} -> {"active"}
      [] place = "success_saved" -> {"succeeded"}
      [] place = "failing" -> {"active", "succeeded"}
      [] place = "failure_saved" -> {"failed"}
      [] OTHER -> Statuses

Story(r) ==
    /\ \A i \in DOMAIN Order :
         LET status == attempts[<<r, Order[i]>>].status IN
         /\ run[r].at < i => status = "absent"
         /\ run[r].at = i => status \in StatusesAt(run[r].pc)
         /\ i < run[r].at => status = StatusOf(run[r].decision[Order[i]])
    /\ run[r].pc = "done" => \A i \in DOMAIN Order : i < run[r].at

\* The places of a call whose attempt a head may name
HeadPlaces == {"executing", "produced", "result_saved", "success_saved", "failing",
               "failure_saved", "raised", "crashed"}

HeadSound ==
    \A r \in Runs, s \in Steps : head[s] = r => run[r].pc \in HeadPlaces /\ StepOf(r) = s

ReportInv == (\A r \in Runs : Story(r)) /\ HeadSound

-----------------------------------------------------------------------------
LEMMA OrderTyped ==
    ASSUME NEW i \in DOMAIN Order
    PROVE  i \in Nat /\ i >= 1 /\ i <= Len(Order) /\ Order[i] \in Steps
  BY EngineAssumption

\* A call that no action moves to another step, and whose attempts stay
LEMMA StoryStays ==
    ASSUME NEW q \in Runs, Story(q),
           run'[q].at = run[q].at, run'[q].decision = run[q].decision,
           run'[q].pc = "done" => run[q].pc = "done",
           StatusesAt(run[q].pc) \subseteq StatusesAt(run'[q].pc),
           \A i \in DOMAIN Order : attempts'[<<q, Order[i]>>] = attempts[<<q, Order[i]>>]
    PROVE  Story(q)'
  BY DEF Story

\* The same when nothing of the call changes
LEMMA StoryUntouched ==
    ASSUME NEW q \in Runs, Story(q), run'[q] = run[q],
           \A i \in DOMAIN Order : attempts'[<<q, Order[i]>>] = attempts[<<q, Order[i]>>]
    PROVE  Story(q)'
  BY DEF Story

\* A call moves within its step, and no attempt changes.
LEMMA GotoStory ==
    ASSUME EngineInv, ReportInv, NEW r \in Runs, NEW place \in PCs \ {"done"}, Goto(r, place),
           attempts' = attempts, StatusesAt(run[r].pc) \subseteq StatusesAt(place)
    PROVE  \A q \in Runs : Story(q)'
  <1> SUFFICES ASSUME NEW q \in Runs PROVE Story(q)'
    OBVIOUS
  <1>1. run[q] \in Run /\ run \in [Runs -> Run] /\ Story(q)
    BY DEF EngineInv, TypeOK, ReportInv
  <1>2. CASE q = r
    <2>1. /\ run'[r].pc = place /\ run'[r].at = run[r].at /\ run'[r].decision = run[r].decision
      BY <1>1, <1>2 DEF Goto, Run
    <2> QED BY <1>1, <1>2, <2>1, StoryStays
  <1>3. CASE q # r
    <2>1. run'[q] = run[q]
      BY <1>1, <1>3 DEF Goto
    <2> QED BY <1>1, <2>1, StoryUntouched
  <1> QED BY <1>2, <1>3

\* A call decides its step as the attempt says.
LEMMA DecideStory ==
    ASSUME EngineInv, ReportInv, NEW r \in Runs, Begun(r), NEW decision \in Decisions, NEW output,
           Decide(r, decision, output), attempts' = attempts,
           attempts[<<r, StepOf(r)>>].status = StatusOf(decision)
    PROVE  \A q \in Runs : Story(q)'
  <1> SUFFICES ASSUME NEW q \in Runs PROVE Story(q)'
    OBVIOUS
  <1>1. run[q] \in Run /\ run \in [Runs -> Run] /\ Story(q)
    BY DEF EngineInv, TypeOK, ReportInv
  <1>2. CASE q = r
    <2>1. run[r].at \in DOMAIN Order /\ StepOf(r) \in Steps
      BY AtStep DEF RunSound
    <2>2. /\ run'[r].pc = IF run[r].at = Len(Order) THEN "done" ELSE "resolve"
          /\ run'[r].at = run[r].at + 1 /\ run[r].at \in Nat
          /\ run'[r].decision = [run[r].decision EXCEPT ![StepOf(r)] = decision]
          /\ run[r].decision \in [Steps -> Decisions]
      BY <1>1, <1>2 DEF Decide, Run
    <2>3. ASSUME NEW i \in DOMAIN Order
          PROVE  LET status == attempts'[<<r, Order[i]>>].status IN
                 /\ run'[r].at < i => status = "absent"
                 /\ run'[r].at = i => status \in StatusesAt(run'[r].pc)
                 /\ i < run'[r].at => status = StatusOf(run'[r].decision[Order[i]])
      <3>1. i \in Nat /\ i <= Len(Order) /\ Order[i] \in Steps /\ Len(Order) \in Nat
        BY OrderTyped, EngineAssumption
      <3>2. CASE run[r].at < i
        <4>1. attempts'[<<r, Order[i]>>].status = "absent"
          BY <1>1, <1>2, <3>2 DEF Story
        <4>2. run'[r].pc = "resolve"
          BY <2>2, <3>1, <3>2
        <4> QED BY <2>2, <3>1, <3>2, <4>1, <4>2 DEF StatusesAt
      <3>3. CASE run[r].at = i
        <4>1. Order[i] = StepOf(r) /\ run'[r].decision[Order[i]] = decision
          BY <2>1, <2>2, <3>3 DEF StepOf
        <4> QED BY <2>2, <3>1, <3>3, <4>1
      <3>4. CASE i < run[r].at
        <4>1. Order[i] # StepOf(r)
          BY <2>1, <2>2, <3>1, <3>4, EngineAssumption DEF StepOf
        <4>2. run'[r].decision[Order[i]] = run[r].decision[Order[i]]
          BY <2>2, <3>1, <4>1
        <4>3. attempts'[<<r, Order[i]>>].status = StatusOf(run[r].decision[Order[i]])
          BY <1>1, <1>2, <3>4 DEF Story
        <4> QED BY <2>2, <3>1, <3>4, <4>2, <4>3
      <3> QED BY <2>2, <3>1, <3>2, <3>3, <3>4
    <2>4. run'[r].pc = "done" => \A i \in DOMAIN Order : i < run'[r].at
      BY <2>1, <2>2, OrderTyped, EngineAssumption
    <2> QED BY <1>2, <2>3, <2>4 DEF Story
  <1>3. CASE q # r
    <2>1. run'[q] = run[q]
      BY <1>1, <1>3 DEF Decide
    <2> QED BY <1>1, <2>1, StoryUntouched
  <1> QED BY <1>2, <1>3

\* A call writes the attempt of its step.
LEMMA WriteStory ==
    ASSUME EngineInv, ReportInv, NEW r \in Runs, Begun(r), NEW place \in PCs \ {"done"}, Goto(r, place),
           NEW x \in Attempt, attempts' = [attempts EXCEPT ![<<r, StepOf(r)>>] = x],
           x.status \in StatusesAt(place)
    PROVE  \A q \in Runs : Story(q)'
  <1> SUFFICES ASSUME NEW q \in Runs PROVE Story(q)'
    OBVIOUS
  <1>1. /\ run[q] \in Run /\ run \in [Runs -> Run] /\ Story(q)
        /\ attempts \in [Runs \X Steps -> Attempt]
        /\ StepOf(r) \in Steps /\ run[r].at \in DOMAIN Order
    BY AtStep DEF EngineInv, TypeOK, ReportInv, RunSound
  <1>2. CASE q = r
    <2>1. /\ run'[r].pc = place /\ run'[r].at = run[r].at /\ run'[r].decision = run[r].decision
      BY <1>1, <1>2 DEF Goto, Run
    <2>2. attempts'[<<r, StepOf(r)>>] = x
      BY <1>1
    <2>3. ASSUME NEW i \in DOMAIN Order, i # run[r].at
          PROVE  attempts'[<<r, Order[i]>>] = attempts[<<r, Order[i]>>]
      <3>1. Order[i] # StepOf(r) /\ Order[i] \in Steps
        BY <1>1, <2>3, EngineAssumption DEF StepOf
      <3>2. <<r, Order[i]>> # <<r, StepOf(r)>> /\ <<r, Order[i]>> \in Runs \X Steps
        BY <3>1
      <3> QED BY <1>1, <3>2
    <2>4. ASSUME NEW i \in DOMAIN Order
          PROVE  LET status == attempts'[<<r, Order[i]>>].status IN
                 /\ run'[r].at < i => status = "absent"
                 /\ run'[r].at = i => status \in StatusesAt(run'[r].pc)
                 /\ i < run'[r].at => status = StatusOf(run'[r].decision[Order[i]])
      <3>1. i \in Nat /\ run[r].at \in Nat
        BY <1>1, <1>2, OrderTyped
      <3>2. CASE i = run[r].at
        BY <2>1, <2>2, <3>1, <3>2 DEF StepOf
      <3>3. CASE i # run[r].at
        <4>1. attempts'[<<r, Order[i]>>] = attempts[<<r, Order[i]>>]
          BY <2>3, <3>3
        <4> QED BY <1>1, <1>2, <2>1, <3>3, <4>1 DEF Story
      <3> QED BY <3>2, <3>3
    <2> QED BY <1>2, <2>1, <2>4 DEF Story
  <1>3. CASE q # r
    <2>1. run'[q] = run[q]
      BY <1>1, <1>3 DEF Goto
    <2>2. ASSUME NEW i \in DOMAIN Order PROVE attempts'[<<q, Order[i]>>] = attempts[<<q, Order[i]>>]
      <3>1. <<q, Order[i]>> # <<r, StepOf(r)>> /\ <<q, Order[i]>> \in Runs \X Steps
        BY <1>3, OrderTyped
      <3> QED BY <1>1, <3>1
    <2> QED BY <1>1, <2>1, <2>2, StoryUntouched
  <1> QED BY <1>2, <1>3

-----------------------------------------------------------------------------
(***************************************************************************)
(* Heads.                                                                  *)
(***************************************************************************)
\* A call moves to a place where a head may name it, or no head names it.
LEMMA GotoHeads ==
    ASSUME EngineInv, ReportInv, NEW r \in Runs, NEW place \in PCs, Goto(r, place),
           head' = head \/ (head' = HeadSet(r) /\ place \in HeadPlaces),
           place \in HeadPlaces \/ run[r].pc \notin HeadPlaces
    PROVE  HeadSound'
  <1> SUFFICES ASSUME NEW q \in Runs, NEW s \in Steps, head'[s] = q
               PROVE  run'[q].pc \in HeadPlaces /\ StepOf(q)' = s
    BY DEF HeadSound
  <1>1. /\ run[q] \in Run /\ run \in [Runs -> Run] /\ HeadSound /\ q # None
        /\ head \in [Steps -> Runs \cup {None}]
    BY EngineAssumption DEF EngineInv, TypeOK, ReportInv
  <1>2. head[s] = q \/ (q = r /\ s = StepOf(r) /\ place \in HeadPlaces)
    BY <1>1 DEF HeadSet
  <1>3. CASE q = r
    <2>1. run'[r].pc = place /\ run'[r].at = run[r].at
      BY <1>1, <1>3 DEF Goto, Run
    <2> QED BY <1>1, <1>2, <1>3, <2>1 DEF HeadSound, StepOf
  <1>4. CASE q # r
    <2>1. run'[q] = run[q]
      BY <1>1, <1>4 DEF Goto
    <2> QED BY <1>1, <1>2, <1>4, <2>1 DEF HeadSound, StepOf
  <1> QED BY <1>3, <1>4

\* A call that decides its step releases its head, or has none.
LEMMA DecideHeads ==
    ASSUME EngineInv, ReportInv, NEW r \in Runs, NEW decision, NEW output, Decide(r, decision, output),
           \/ head' = head /\ run[r].pc \notin HeadPlaces
           \/ head' = [head EXCEPT ![StepOf(r)] = None]
    PROVE  HeadSound'
  <1> SUFFICES ASSUME NEW q \in Runs, NEW s \in Steps, head'[s] = q
               PROVE  run'[q].pc \in HeadPlaces /\ StepOf(q)' = s
    BY DEF HeadSound
  <1>1. /\ run \in [Runs -> Run] /\ HeadSound /\ q # None
        /\ head \in [Steps -> Runs \cup {None}]
    BY EngineAssumption DEF EngineInv, TypeOK, ReportInv
  <1>2. head[s] = q /\ q # r
    BY <1>1 DEF HeadSound
  <1>3. run'[q] = run[q]
    BY <1>1, <1>2 DEF Decide
  <1> QED BY <1>1, <1>2, <1>3 DEF HeadSound, StepOf

-----------------------------------------------------------------------------
(***************************************************************************)
(* The actions.                                                            *)
(***************************************************************************)
LEMMA InitReport == Init => ReportInv
  <1> SUFFICES ASSUME Init PROVE ReportInv
    OBVIOUS
  <1>1. ASSUME NEW r \in Runs PROVE Story(r)
    <2>1. run[r].pc = "idle" /\ run[r].at = 1
      BY DEF Init, NotBegun
    <2>2. \A i \in DOMAIN Order : attempts[<<r, Order[i]>>].status = "absent"
      BY OrderTyped DEF Init
    <2> QED BY <2>1, <2>2, OrderTyped DEF Story, StatusesAt
  <1>2. HeadSound
    BY EngineAssumption DEF Init, HeadSound
  <1> QED BY <1>1, <1>2 DEF ReportInv

LEMMA BeginReport ==
    ASSUME EngineInv, ReportInv, NEW r \in Runs, NEW request, NEW time, BeginAt(r, request, time)
    PROVE  ReportInv'
  <1>1. /\ attempts' = attempts /\ head' = head /\ run[r].pc = "idle"
        /\ run \in [Runs -> Run] /\ run[r] \in Run
    BY DEF BeginAt, store, EngineInv, TypeOK
  <1>2. /\ run'[r].at = run[r].at /\ run'[r].decision = run[r].decision
        /\ run'[r].pc = IF Order = <<>> THEN "done" ELSE "resolve"
        /\ \A q \in Runs \ {r} : run'[q] = run[q]
    BY <1>1 DEF BeginAt, Run
  <1>3. ASSUME NEW q \in Runs PROVE Story(q)'
    <2>1. CASE q # r
      BY <1>1, <1>2, <2>1, StoryUntouched DEF ReportInv
    <2>2. CASE q = r /\ Order = <<>>
      BY <2>2 DEF Story
    <2>3. CASE q = r /\ Order # <<>>
      <3>1. StatusesAt(run[r].pc) \subseteq StatusesAt("resolve")
        BY <1>1 DEF StatusesAt
      <3> QED BY <1>1, <1>2, <2>3, <3>1, StoryStays DEF ReportInv
    <2> QED BY <2>1, <2>2, <2>3
  <1>4. HeadSound'
    <2> SUFFICES ASSUME NEW q \in Runs, NEW s \in Steps, head[s] = q
                 PROVE  run'[q].pc \in HeadPlaces /\ StepOf(q)' = s
      BY <1>1 DEF HeadSound
    <2>1. q # r
      BY <1>1 DEF ReportInv, HeadSound, HeadPlaces
    <2> QED BY <1>2, <2>1 DEF ReportInv, HeadSound, StepOf
  <1> QED BY <1>3, <1>4 DEF ReportInv

\* A crash, or a step of the clock, tells nobody anything.
LEMMA CrashReport ==
    ASSUME EngineInv, ReportInv, Crash
    PROVE  ReportInv'
  <1>1. attempts' = attempts /\ head' = head /\ run \in [Runs -> Run]
    BY DEF Crash, store, EngineInv, TypeOK
  <1>2. ASSUME NEW q \in Runs
        PROVE  /\ run'[q].at = run[q].at /\ run'[q].decision = run[q].decision
               /\ run'[q].pc \in {run[q].pc, "crashed"}
    BY <1>1 DEF Crash, Run
  <1>3. ASSUME NEW q \in Runs PROVE Story(q)'
    <2>1. StatusesAt(run[q].pc) \subseteq StatusesAt(run'[q].pc)
      BY <1>2 DEF StatusesAt, Statuses
    <2> QED BY <1>1, <1>2, <2>1, StoryStays DEF ReportInv
  <1>4. HeadSound'
    BY <1>1, <1>2 DEF ReportInv, HeadSound, HeadPlaces, StepOf
  <1> QED BY <1>3, <1>4 DEF ReportInv

LEMMA LookupReport ==
    ASSUME EngineInv, ReportInv, NEW r \in Runs,
           Unresolved(r) \/ Reuse(r) \/ Blocked(r) \/ LookupMisses(r)
    PROVE  ReportInv'
  <1>1. /\ attempts' = attempts /\ head' = head /\ Begun(r) /\ run[r].pc \in {"resolve", "looked_up"}
    BY DEF Unresolved, Reuse, Blocked, LookupMisses, store, Begun, Ended
  <1>2. attempts[<<r, StepOf(r)>>].status = "absent"
    BY <1>1, AtStep DEF ReportInv, Story, StatusesAt, StepOf, RunSound
  <1>3. CASE Unresolved(r) \/ Reuse(r) \/ Blocked(r)
    <2>1. PICK decision, output : decision \in {"reuse", "blocked", "pending"} /\ Decide(r, decision, output)
      BY <1>3 DEF Unresolved, Reuse, Blocked
    <2>2. StatusOf(decision) = "absent" /\ decision \in Decisions
      BY <2>1 DEF StatusOf, Decisions
    <2>3. \A q \in Runs : Story(q)'
      BY <1>1, <1>2, <2>1, <2>2, DecideStory
    <2>4. HeadSound'
      BY <1>1, <2>1, DecideHeads DEF HeadPlaces
    <2> QED BY <2>3, <2>4 DEF ReportInv
  <1>4. CASE LookupMisses(r)
    <2>1. Goto(r, "looked_up") /\ "looked_up" \in PCs \ {"done"}
      BY <1>4 DEF LookupMisses, PCs
    <2>2. StatusesAt(run[r].pc) \subseteq StatusesAt("looked_up")
      BY <1>1 DEF StatusesAt
    <2> QED BY <1>1, <2>1, <2>2, GotoStory, GotoHeads DEF ReportInv, HeadPlaces
  <1> QED BY <1>3, <1>4

LEMMA MoveReport ==
    ASSUME EngineInv, ReportInv, NEW r \in Runs,
           StartHead(r) \/ ExecutorRaises(r) \/ SaveResult(r)
    PROVE  ReportInv'
  <1>1. PICK place \in {"executing", "failing", "result_saved"} : Goto(r, place)
    BY DEF StartHead, ExecutorRaises, SaveResult
  <1>2. /\ attempts' = attempts /\ place \in PCs \ {"done"} /\ place \in HeadPlaces
        /\ head' = head \/ head' = HeadSet(r)
        /\ run[r].pc \in {"attempt_started", "executing", "produced"}
    BY DEF StartHead, ExecutorRaises, SaveResult, store, PCs, Locked, HeadPlaces
  <1>3. StatusesAt(run[r].pc) \subseteq StatusesAt(place)
    BY <1>2 DEF StatusesAt
  <1> QED BY <1>1, <1>2, <1>3, GotoStory, GotoHeads DEF ReportInv

LEMMA ReturnReport ==
    ASSUME EngineInv, ReportInv, NEW r \in Runs, ExecutorReturns(r)
    PROVE  ReportInv'
  <1>1. PICK o \in Outputs : run' = [run EXCEPT ![r].pc = "produced", ![r].result = o]
    BY DEF ExecutorReturns
  <1>2. /\ attempts' = attempts /\ head' = head /\ run[r].pc = "executing"
        /\ run \in [Runs -> Run] /\ run[r] \in Run
    BY DEF ExecutorReturns, store, EngineInv, TypeOK
  <1>3. /\ run'[r].at = run[r].at /\ run'[r].decision = run[r].decision /\ run'[r].pc = "produced"
        /\ \A q \in Runs \ {r} : run'[q] = run[q]
    BY <1>1, <1>2 DEF Run
  <1>4. ASSUME NEW q \in Runs PROVE Story(q)'
    <2>1. StatusesAt("executing") = StatusesAt("produced")
      BY DEF StatusesAt
    <2>2. CASE q = r
      BY <1>2, <1>3, <2>1, <2>2, StoryStays DEF ReportInv
    <2>3. CASE q # r
      BY <1>2, <1>3, <2>3, StoryUntouched DEF ReportInv
    <2> QED BY <2>2, <2>3
  <1>5. HeadSound'
    <2> SUFFICES ASSUME NEW q \in Runs, NEW s \in Steps, head[s] = q
                 PROVE  run'[q].pc \in HeadPlaces /\ StepOf(q)' = s
      BY <1>2 DEF HeadSound
    <2>1. CASE q = r
      BY <1>3, <2>1 DEF ReportInv, HeadSound, HeadPlaces, StepOf
    <2>2. CASE q # r
      BY <1>3, <2>2 DEF ReportInv, HeadSound, StepOf
    <2> QED BY <2>1, <2>2
  <1> QED BY <1>4, <1>5 DEF ReportInv

LEMMA WriteReport ==
    ASSUME EngineInv, ReportInv, NEW r \in Runs,
           StartAttempt(r) \/ SaveSuccess(r) \/ SaveFailure(r)
    PROVE  ReportInv'
  <1> DEFINE s == StepOf(r)
  <1>1. Begun(r) /\ run[r].pc \in {"looked_up", "result_saved", "failing"} /\ head' = head
    BY DEF StartAttempt, SaveSuccess, SaveFailure, Begun, Ended
  <1>2. s \in Steps /\ attempts[<<r, s>>] \in Attempt
    BY <1>1, AtStep DEF EngineInv, TypeOK
  <1>3. CASE StartAttempt(r)
    <2> DEFINE x == [status |-> "active", sig |-> SignatureOf(r, s)]
    <2>1. x \in Attempt /\ x.status \in StatusesAt("attempt_started")
      <3>1. SignatureOf(r, s) \in Signatures
        BY <1>1, <1>3, AtStep DEF StartAttempt, Resolving
      <3> QED BY <3>1 DEF Attempt, Statuses, StatusesAt
    <2>2. attempts' = [attempts EXCEPT ![<<r, s>>] = x] /\ Goto(r, "attempt_started")
      BY <1>3 DEF StartAttempt
    <2>3. "attempt_started" \in PCs \ {"done"} /\ run[r].pc \notin HeadPlaces
      BY <1>3 DEF PCs, Locked, StartAttempt, HeadPlaces
    <2> HIDE DEF x
    <2> QED BY <1>1, <2>1, <2>2, <2>3, WriteStory, GotoHeads DEF ReportInv
  <1>4. CASE SaveSuccess(r) \/ SaveFailure(r)
    <2>1. PICK status \in {"succeeded", "failed"}, place \in {"success_saved", "failure_saved"} :
            /\ attempts' = [attempts EXCEPT ![<<r, s>>].status = status] /\ Goto(r, place)
            /\ place = "success_saved" <=> status = "succeeded"
      BY <1>4 DEF SaveSuccess, SaveFailure
    <2> DEFINE x == [attempts[<<r, s>>] EXCEPT !.status = status]
    <2>2. x \in Attempt /\ x.status \in StatusesAt(place)
      BY <1>2, <2>1 DEF Attempt, Statuses, StatusesAt
    <2>3. attempts' = [attempts EXCEPT ![<<r, s>>] = x]
      BY <2>1
    <2>4. place \in PCs \ {"done"} /\ place \in HeadPlaces
      BY DEF PCs, Locked, HeadPlaces
    <2> HIDE DEF x
    <2> QED BY <1>1, <2>1, <2>2, <2>3, <2>4, WriteStory, GotoHeads DEF ReportInv
  <1> QED BY <1>3, <1>4

LEMMA ReleaseReport ==
    ASSUME EngineInv, ReportInv, NEW r \in Runs,
           ReleaseAfterSuccess(r) \/ ReleaseAfterFailure(r)
    PROVE  ReportInv'
  <1>1. /\ Begun(r) /\ attempts' = attempts /\ head' = [head EXCEPT ![StepOf(r)] = None]
    BY DEF ReleaseAfterSuccess, ReleaseAfterFailure, Begun, Ended, HeadSet
  <1>2. PICK decision, output :
          /\ decision \in {"executed", "failed"}
          /\ Decide(r, decision, output)
          /\ run[r].pc = IF decision = "executed" THEN "success_saved" ELSE "failure_saved"
    BY DEF ReleaseAfterSuccess, ReleaseAfterFailure
  <1>3. attempts[<<r, StepOf(r)>>].status \in StatusesAt(run[r].pc)
    BY <1>1, AtStep DEF ReportInv, Story, StepOf, RunSound
  <1>4. attempts[<<r, StepOf(r)>>].status = StatusOf(decision) /\ decision \in Decisions
    BY <1>2, <1>3 DEF StatusesAt, StatusOf, Decisions
  <1> QED BY <1>1, <1>2, <1>4, DecideStory, DecideHeads DEF ReportInv

LEMMA RaiseReport ==
    ASSUME EngineInv, ReportInv, NEW r \in Runs, StoreFails(r)
    PROVE  ReportInv'
  <1>1. PICK place \in {"failing", "raised"} :
          /\ Goto(r, place) /\ attempts' = attempts /\ (head' = head \/ head' = HeadSet(r))
          /\ place = "failing" => run[r].pc \in {"produced", "result_saved", "success_saved"}
    BY DEF StoreFails
  <1>2. place \in PCs \ {"done"} /\ place \in HeadPlaces
    BY DEF PCs, Ended, HeadPlaces
  <1>3. StatusesAt(run[r].pc) \subseteq StatusesAt(place)
    BY <1>1 DEF StatusesAt, Statuses
  <1> QED BY <1>1, <1>2, <1>3, GotoStory, GotoHeads DEF ReportInv

LEMMA ContinueReport ==
    ASSUME EngineInv, ReportInv, NEW r \in Runs, Continue(r)
    PROVE  ReportInv'
  BY LookupReport, MoveReport, ReturnReport, WriteReport, ReleaseReport, RaiseReport DEF Continue, Proceed

LEMMA SameReport ==
    ASSUME ReportInv, UNCHANGED <<run, attempts, head>>
    PROVE  ReportInv'
  <1>1. ASSUME NEW q \in Runs PROVE Story(q)'
    BY StoryUntouched DEF ReportInv
  <1> QED BY <1>1 DEF ReportInv, HeadSound, StepOf

LEMMA ReportNextKeeps == EngineInv /\ ReportInv /\ [Next]_vars => ReportInv'
  <1> SUFFICES ASSUME EngineInv, ReportInv, [Next]_vars PROVE ReportInv'
    OBVIOUS
  <1>1. CASE \E r \in Runs : Begin(r)
    BY <1>1, BeginReport DEF Begin
  <1>2. CASE \E r \in Runs : Continue(r)
    BY <1>2, ContinueReport
  <1>3. CASE Crash
    BY <1>3, CrashReport
  <1>4. CASE Tick
    BY <1>4, SameReport DEF Tick, store
  <1>5. CASE UNCHANGED vars
    BY <1>5, SameReport DEF vars, store
  <1> QED BY <1>1, <1>2, <1>3, <1>4, <1>5 DEF Next

\* Every reachable state has what the two theorems below rest on (execute).
THEOREM ReportInvariantHolds == Spec => []ReportInv
  <1>1. Init => ReportInv
    BY InitReport
  <1>2. EngineInv /\ EngineInv' /\ ReportInv /\ [Next]_vars => ReportInv'
    BY ReportNextKeeps
  <1> QED BY <1>1, <1>2, InvariantHolds, PTL DEF Spec

-----------------------------------------------------------------------------
LEMMA ReportTold ==
    ASSUME EngineInv, ReportInv
    PROVE  ReportMatchesStore
  <1> SUFFICES ASSUME NEW r \in Runs, NEW s \in Steps, run[r].pc = "done"
               PROVE  attempts[<<r, s>>].status = StatusOf(run[r].decision[s])
    BY DEF ReportMatchesStore, StatusOf
  <1>1. PICK i \in DOMAIN Order : Order[i] = s
    BY EngineAssumption
  <1>2. i < run[r].at
    BY DEF ReportInv, Story
  <1> QED BY <1>1, <1>2 DEF ReportInv, Story

\* A finished call's report says of every step what the store says of its attempt, whatever
\* failed, crashed or overlapped (the success block, the exception handler).
THEOREM ReportHolds == Spec => []ReportMatchesStore
  <1>1. EngineInv /\ ReportInv => ReportMatchesStore
    BY ReportTold
  <1> QED BY <1>1, InvariantHolds, ReportInvariantHolds, PTL

LEMMA OnlyLost ==
    ASSUME EngineInv, ReportInv
    PROVE  OnlyLostCallsLinger
  <1> SUFFICES ASSUME NEW r \in Runs, NEW s \in Steps,
                      attempts[<<r, s>>].status = "active" \/ head[s] = r
               PROVE  run[r].pc \notin {"idle", "resolve", "looked_up", "done"} /\ StepOf(r) = s
    BY DEF OnlyLostCallsLinger
  <1>1. CASE head[s] = r
    BY <1>1 DEF ReportInv, HeadSound, HeadPlaces
  <1>2. CASE attempts[<<r, s>>].status = "active"
    <2>1. PICK i \in DOMAIN Order : Order[i] = s
      BY EngineAssumption
    <2>2. Story(r) /\ run[r].at \in Nat /\ i \in Nat
      BY OrderTyped DEF ReportInv, EngineInv, TypeOK, Run
    <2>3. ~ (run[r].at < i)
      BY <1>2, <2>1, <2>2 DEF Story
    <2>4. ~ (i < run[r].at)
      BY <1>2, <2>1, <2>2 DEF Story, StatusOf
    <2>5. run[r].at = i
      BY <2>2, <2>3, <2>4
    <2>6. "active" \in StatusesAt(run[r].pc)
      BY <1>2, <2>1, <2>2, <2>5 DEF Story
    <2>7. run[r].pc \notin {"idle", "resolve", "looked_up"}
      BY <2>6 DEF StatusesAt
    <2>8. run[r].pc # "done"
      BY <2>2, <2>5 DEF Story
    <2> QED BY <2>1, <2>5, <2>7, <2>8 DEF StepOf
  <1> QED BY <1>1, <1>2

\* Nothing but a call that died or raised leaves an active attempt or a head behind (the
\* success block, the exception handler, set_active_attempt).
THEOREM OnlyLostHolds == Spec => []OnlyLostCallsLinger
  <1>1. EngineInv /\ ReportInv => OnlyLostCallsLinger
    BY OnlyLost
  <1> QED BY <1>1, InvariantHolds, ReportInvariantHolds, PTL
=============================================================================
