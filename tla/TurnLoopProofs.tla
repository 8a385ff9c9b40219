---------------------------- MODULE TurnLoopProofs ----------------------------
(***************************************************************************)
(* TurnLoop for every number of requests, agents, tool calls and           *)
(* interruptions.  Its variables keep their types; the agent lock, the     *)
(* hand-over to its waiters and the cancellations between them never let   *)
(* two turns run at once.  Then the order of the requests, the cuts and    *)
(* TurnAbs, which the connection implements; then what a turn says, what   *)
(* its specialists report, and what it leaves of the camera.               *)
(***************************************************************************)
EXTENDS TurnLoop, SequenceTheorems, FiniteSetTheorems, TLAPS

(***************************************************************************)
(* The inductive invariant.                                                *)
(***************************************************************************)

\* The tasks not started are exactly on the queue of the new tasks, once each.
SpawnedOK ==
  /\ \A n \in DOMAIN spawned : pc[spawned[n]] = "spawned"
  /\ \A m, n \in DOMAIN spawned : spawned[m] = spawned[n] => m = n

\* The lock's deque holds every request suspended in acquire, once.
WaitersOK ==
  /\ \A n \in DOMAIN waiters : pc[waiters[n]] = "waiting"
  /\ \A m, n \in DOMAIN waiters : waiters[m] = waiters[n] => m = n
  /\ \A i \in Requests : pc[i] = "waiting" => \E n \in DOMAIN waiters : waiters[n] = i

\* Only a request that waits for the lock or the provider can be woken, ...
AwakeOK == \A i \in awake : pc[i] \in {"waiting", "decompose"}

\* ... and one woken to take the lock finds it free and is the first in line.
HandOver ==
  \A i \in Requests : pc[i] = "waiting" /\ i \in awake /\ i \notin doomed
    => ~locked /\ waiters # <<>> /\ waiters[1] = i

\* While the connection is up only the running turn can have been cancelled; once
\* it is down all that has not ended has.
DoomedOK ==
  /\ ~closing => \A i \in doomed : i = active \/ pc[i] \in Ended
  /\ closing => \A i \in Requests : pc[i] \notin Ended \cup {"idle"} => i \in doomed

IInv == TypeOK /\ OneTurn /\ SpawnedOK /\ WaitersOK /\ AwakeOK /\ HandOver /\ DoomedOK

(***************************************************************************)
(* Lemmas.                                                                 *)
(***************************************************************************)

\* Taking one request off a queue leaves a queue whose elements are the others in
\* their order; taking the first leaves the tail.
LEMMA RemoveAtLemma ==
  ASSUME NEW S, NEW q \in Seq(S), NEW n \in DOMAIN q
  PROVE  /\ RemoveAt(q, n) \in Seq(S)
         /\ DOMAIN RemoveAt(q, n) = 1..(Len(q) - 1)
         /\ \A m \in 1..(Len(q) - 1) :
              RemoveAt(q, n)[m] = IF m < n THEN q[m] ELSE q[m + 1]
<1>1. Len(q) \in Nat /\ DOMAIN q = 1..Len(q)
  BY LenProperties
<1>2. /\ SubSeq(q, 1, n - 1) \in Seq(S)
      /\ Len(SubSeq(q, 1, n - 1)) = n - 1
      /\ \A m \in 1..(n - 1) : SubSeq(q, 1, n - 1)[m] = q[m]
  BY <1>1, SubSeqProperties
<1>3. /\ SubSeq(q, n + 1, Len(q)) \in Seq(S)
      /\ Len(SubSeq(q, n + 1, Len(q))) = Len(q) - n
      /\ \A m \in 1..(Len(q) - n) : SubSeq(q, n + 1, Len(q))[m] = q[n + m]
  BY <1>1, SubSeqProperties
<1> DEFINE front == SubSeq(q, 1, n - 1)
           back  == SubSeq(q, n + 1, Len(q))
<1>4. RemoveAt(q, n) = front \o back
  BY DEF RemoveAt
<1> HIDE DEF front, back
<1>5. front \in Seq(S) /\ Len(front) = n - 1 /\ \A m \in 1..(n - 1) : front[m] = q[m]
  BY <1>2 DEF front
<1>6. /\ back \in Seq(S)
      /\ Len(back) = Len(q) - n
      /\ \A m \in 1..(Len(q) - n) : back[m] = q[n + m]
  BY <1>3 DEF back
<1>7. /\ front \o back \in Seq(S)
      /\ Len(front \o back) = Len(front) + Len(back)
      /\ \A m \in 1..(Len(front) + Len(back)) :
           (front \o back)[m] = IF m <= Len(front) THEN front[m] ELSE back[m - Len(front)]
  BY <1>5, <1>6, ConcatProperties
<1>8. DOMAIN RemoveAt(q, n) = 1..(Len(q) - 1)
  <2>1. Len(front) + Len(back) = Len(q) - 1
    BY <1>1, <1>5, <1>6
  <2>2. DOMAIN (front \o back) = 1..Len(front \o back)
    BY <1>7, LenProperties
  <2> QED
    BY <1>4, <1>7, <2>1, <2>2
<1>9. ASSUME NEW m \in 1..(Len(q) - 1)
      PROVE  RemoveAt(q, n)[m] = IF m < n THEN q[m] ELSE q[m + 1]
  <2>1. CASE m < n
    BY <1>1, <1>4, <1>5, <1>6, <1>7, <2>1
  <2>2. CASE ~(m < n)
    <3>1. m - (n - 1) \in 1..(Len(q) - n) /\ n + (m - (n - 1)) = m + 1
      BY <1>1, <2>2
    <3>2. (front \o back)[m] = back[m - (n - 1)]
      <4>1. Len(front) = n - 1 /\ Len(back) = Len(q) - n /\ n \in Nat
        BY <1>1, <1>5, <1>6
      <4>2. m \in 1..(Len(front) + Len(back))
        BY <1>1, <4>1
      <4>3. ~(m <= Len(front)) /\ m - Len(front) = m - (n - 1)
        BY <1>1, <2>2, <4>1
      <4> HIDE DEF front, back
      <4> QED
        BY ONLY <1>7, <4>2, <4>3
    <3> QED
      BY <1>4, <1>6, <2>2, <3>1, <3>2
  <2> QED
    BY <2>1, <2>2
<1> QED
  BY <1>4, <1>7, <1>8, <1>9

\* Requests and agents are numbers, and 0 is neither.
LEMMA Numbers ==
  /\ Requests \subseteq Nat /\ NoTurn \notin Requests
  /\ Agents \subseteq 1..MaxAgents /\ MaxAgents \in Nat
BY TurnLoopAssumption DEF Requests, Agents, NoTurn

\* What waking the first waiter adds.
LEMMA WakeFirstLemma ==
  ASSUME NEW queue \in Seq(Requests), NEW set \in SUBSET Requests
  PROVE  /\ WakeFirst(queue, set) \in SUBSET Requests
         /\ \A j \in WakeFirst(queue, set) :
              j \in set \/ (queue # <<>> /\ j = queue[1])
BY DEF WakeFirst

\* A note of the running program is one of the model's notes.
LEMMA NotesLemma ==
  ASSUME NEW who \in 0..(MaxAgents + 1), NEW what \in Words
  PROVE  Note(who, what) \in Notes
BY DEF Note, Notes

\* The step that enters the lock: either it ends the turn and releases the lock, or
\* it keeps it as the active turn.
EnterOutcome(i, queue, set) ==
  \/ /\ \E e \in Ended : pc' = [pc EXCEPT ![i] = e]
     /\ active' = NoTurn
     /\ Release(queue, set)
  \/ /\ \E p \in Holding : pc' = [pc EXCEPT ![i] = p]
     /\ active' = i
     /\ Keep(queue, set)

LEMMA OrchestrateLemma ==
  ASSUME NEW i, NEW queue, NEW set, Orchestrate(i, queue, set)
  PROVE  EnterOutcome(i, queue, set)
BY DEF Orchestrate, AnswerDirectly, StartCrew, EnterOutcome, Holding, Ended

LEMMA EnterLemma ==
  ASSUME active = NoTurn, NEW i, NEW queue, NEW set, Enter(i, queue, set)
  PROVE  EnterOutcome(i, queue, set) /\ UNCHANGED <<kind, doomed, closing>>
<1>1. CASE Brief(i, queue, set)
  BY <1>1 DEF Enter, Brief, EnterOutcome, Ended, history
<1>2. CASE Ask(i, queue, set)
  <2>1. CASE Orchestrate(i, queue, set)
    BY <2>1, OrchestrateLemma DEF Enter, history
  <2>2. CASE ~Orchestrate(i, queue, set)
    BY <1>2, <2>2 DEF Ask, Enter, EnterOutcome, Holding, history
  <2> QED
    BY <2>1, <2>2
<1> QED
  BY <1>1, <1>2 DEF Enter

(***************************************************************************)
(* Type correctness.                                                       *)
(***************************************************************************)

LEMMA TypeInit == Init => TypeOK
<1> SUFFICES ASSUME Init PROVE TypeOK
  OBVIOUS
<1>1. spawned \in Seq(Requests) /\ waiters \in Seq(Requests)
  BY DEF Init
<1>2. todo \in [Agents -> 0..MaxCalls] /\ bargeIns \in 0..MaxBargeIns
  BY TurnLoopAssumption DEF Init
<1>3. sent \in [Requests -> SUBSET Notes]
  BY DEF Init
<1> QED
  BY <1>1, <1>2, <1>3 DEF Init, TypeOK, Places, CrewPlaces

\* What a request or a specialist adds to the notes of a request is notes.
LEMMA SentType ==
  ASSUME TypeOK, NEW j, NEW new \in SUBSET Notes,
         sent' = [sent EXCEPT ![j] = @ \cup new]
  PROVE  sent' \in [Requests -> SUBSET Notes]
BY DEF TypeOK

LEMMA DoneNote == Note(Jarvis, "thinking_done") \in Notes
BY TurnLoopAssumption DEF Note, Notes, Jarvis, Words

LEMMA BriefType ==
  ASSUME TypeOK, NEW i \in Requests, NEW queue \in Seq(Requests),
         NEW set \in SUBSET Requests, Brief(i, queue, set),
         UNCHANGED <<kind, doomed, history, closing>>, spawned' \in Seq(Requests)
  PROVE  TypeOK'
<1>1. sent' \in [Requests -> SUBSET Notes]
  <2> DEFINE new == CASE kind[i] = "blank"    -> {}
                      [] kind[i] = "settings" -> {Note(Jarvis, "settings")}
                      [] OTHER -> {Note(Jarvis, "speech"), Note(Jarvis, "thinking_done")}
  <2>1. new \in SUBSET Notes
    BY TurnLoopAssumption DEF Note, Notes, Jarvis, Words
  <2>2. sent' = [sent EXCEPT ![i] = @ \cup new]
    BY DEF Brief
  <2> HIDE DEF new
  <2> QED
    BY <2>1, <2>2, SentType
<1>2. pc' \in [Requests -> Places] /\ active' \in Requests \cup {NoTurn}
  BY DEF Brief, TypeOK, Places
<1>3. locked' \in BOOLEAN /\ waiters' \in Seq(Requests) /\ awake' \subseteq Requests
  BY WakeFirstLemma DEF Brief, Release
<1>4. cancelled' \in BOOLEAN /\ watching' \in BOOLEAN /\ camera' \in BOOLEAN
  <2>1. cancelled' \in BOOLEAN
    BY DEF Brief, FreshTurn, TypeOK
  <2>2. watching' \in BOOLEAN
    BY DEF Brief, TypeOK
  <2>3. camera' \in BOOLEAN
    BY DEF Brief, TypeOK
  <2> QED
    BY <2>1, <2>2, <2>3
<1>5. UNCHANGED <<kind, doomed, crew, todo, startedVision, bargeIns, interrupted, closing>>
  BY DEF Brief, crewVars, history
<1> QED
  BY <1>1, <1>2, <1>3, <1>4, <1>5 DEF TypeOK

LEMMA OrchestrateType ==
  ASSUME TypeOK, NEW i \in Requests, NEW queue \in Seq(Requests),
         NEW set \in SUBSET Requests, Orchestrate(i, queue, set),
         UNCHANGED <<kind, doomed, history, closing>>, spawned' \in Seq(Requests),
         cancelled' \in BOOLEAN
  PROVE  TypeOK'
<1>1. CASE AnswerDirectly(i, queue, set)
  <2>1. {Note(Jarvis, "plan"), Note(Jarvis, "speech"), Note(Jarvis, "thinking_done")}
          \in SUBSET Notes
    BY TurnLoopAssumption DEF Note, Notes, Jarvis, Words
  <2>2. sent' \in [Requests -> SUBSET Notes]
    BY <1>1, <2>1, SentType DEF AnswerDirectly
  <2>3. locked' \in BOOLEAN /\ waiters' \in Seq(Requests) /\ awake' \subseteq Requests
    BY <1>1, WakeFirstLemma DEF AnswerDirectly, Release
  <2> QED
    BY <1>1, <2>2, <2>3 DEF AnswerDirectly, TypeOK, Places, crewVars, sightVars, history
<1>2. ASSUME NEW n \in Agents, StartCrew(i, queue, set, n)
      PROVE  TypeOK'
  <2> DEFINE announced == 1..n \cup IF n >= 2 THEN {Stage} ELSE {}
  <2>1. /\ {Note(Jarvis, "plan")} \in SUBSET Notes
        /\ {Note(k, "queued") : k \in announced} \in SUBSET Notes
    BY TurnLoopAssumption DEF Note, Notes, Jarvis, Words, Agents, Stage
  <2>2. sent' \in [Requests -> SUBSET Notes]
    BY <1>2, <2>1 DEF StartCrew, TypeOK
  <2>3. crew' \in [Agents -> CrewPlaces]
    BY <1>2 DEF StartCrew, CrewPlaces
  <2>4. todo' \in [Agents -> 0..MaxCalls]
    BY <1>2, TurnLoopAssumption DEF StartCrew, Agents
  <2>5. startedVision' \in BOOLEAN /\ camera' \in BOOLEAN
    BY <1>2 DEF StartCrew, BeginsVision, TypeOK
  <2>6. locked' \in BOOLEAN /\ waiters' \in Seq(Requests) /\ awake' \subseteq Requests
    BY <1>2 DEF StartCrew, Keep
  <2>7. pc' \in [Requests -> Places] /\ active' \in Requests
    BY <1>2 DEF StartCrew, Places, TypeOK
  <2> QED
    BY <1>2, <2>2, <2>3, <2>4, <2>5, <2>6, <2>7 DEF StartCrew, TypeOK, history
<1> QED
  BY <1>1, <1>2 DEF Orchestrate

LEMMA EnterType ==
  ASSUME TypeOK, NEW i \in Requests, NEW queue \in Seq(Requests),
         NEW set \in SUBSET Requests, Enter(i, queue, set), spawned' \in Seq(Requests)
  PROVE  TypeOK'
<1>1. CASE Brief(i, queue, set)
  BY <1>1, BriefType DEF Enter
<1>2. CASE Ask(i, queue, set)
  <2>1. cancelled' \in BOOLEAN
    BY <1>2 DEF Ask, FreshTurn
  <2>2. CASE Orchestrate(i, queue, set)
    BY <2>1, <2>2, OrchestrateType DEF Enter
  <2>3. CASE ~Orchestrate(i, queue, set)
    BY <1>2, <2>1, <2>3
    DEF Ask, Enter, Keep, TypeOK, Places, crewVars, sightVars, history
  <2> QED
    BY <2>2, <2>3
<1> QED
  BY <1>1, <1>2 DEF Enter

\* Every action but the ones that enter the lock.
LEMMA TypeNext == TypeOK /\ [Next]_vars => TypeOK'
<1> SUFFICES ASSUME TypeOK, [Next]_vars PROVE TypeOK'
  OBVIOUS
<1> USE DEF lockVars, turnVars, crewVars, sightVars, history
<1>1. ASSUME NEW i \in Requests, Dispatch(i)
      PROVE  TypeOK'
  BY <1>1 DEF Dispatch, TypeOK, Places
<1>2. CASE BargeIn
  <2>1. sent' \in [Requests -> SUBSET Notes]
    BY <1>2, DoneNote, SentType DEF BargeIn
  <2>2. active \in Requests
    BY <1>2 DEF BargeIn, TypeOK
  <2>3. bargeIns' \in 0..MaxBargeIns
    BY <1>2, TurnLoopAssumption DEF BargeIn, TypeOK
  <2> QED
    BY <1>2, <2>1, <2>2, <2>3 DEF BargeIn, TypeOK
<1>3. CASE Shutdown
  BY <1>3 DEF Shutdown, TypeOK
<1>4. ASSUME NEW i \in Requests, Starting(i)
      PROVE  TypeOK'
  <2>1. spawned' \in Seq(Requests)
    <3>1. spawned # <<>> /\ spawned' = Tail(spawned)
      BY <1>4 DEF Starting, Alert, StartTurn, AwaitLock, CutUnstarted, Starts
    <3> QED
      BY <3>1, HeadTailProperties DEF TypeOK
  <2>2. CASE Alert(i)
    <3>1. {Note(Jarvis, "speech")} \in SUBSET Notes
      BY TurnLoopAssumption DEF Note, Notes, Jarvis, Words
    <3> QED
      BY <2>1, <2>2, <3>1 DEF Alert, TypeOK, Places
  <2>3. CASE StartTurn(i)
    BY <2>1, <2>3, EnterType DEF StartTurn, TypeOK
  <2>4. CASE AwaitLock(i)
    BY <2>1, <2>4 DEF AwaitLock, TypeOK, Places
  <2>5. CASE CutUnstarted(i)
    BY <2>1, <2>5 DEF CutUnstarted, TypeOK, Places
  <2> QED
    BY <1>4, <2>2, <2>3, <2>4, <2>5 DEF Starting
<1>5. ASSUME NEW i \in Requests, Resuming(i)
      PROVE  TypeOK'
  <2>1. CASE TakeLock(i)
    <3>1. PICK n \in DOMAIN waiters : Enter(i, RemoveAt(waiters, n), awake \ {i})
      BY <2>1 DEF TakeLock
    <3>2. RemoveAt(waiters, n) \in Seq(Requests) /\ awake \ {i} \in SUBSET Requests
      BY RemoveAtLemma DEF TypeOK
    <3>3. spawned' \in Seq(Requests)
      BY <2>1 DEF TakeLock, TypeOK
    <3> QED
      BY <3>1, <3>2, <3>3, EnterType
  <2>2. CASE Decomposed(i)
    <3>1. waiters \in Seq(Requests) /\ awake \ {i} \in SUBSET Requests
      BY DEF TypeOK
    <3> QED
      BY <2>2, <3>1, OrchestrateType DEF Decomposed, TypeOK
  <2>3. CASE Synthesize(i)
    <3>1. /\ {Note(Stage, "working"), Note(Stage, "done")} \in SUBSET Notes
          /\ {Note(Jarvis, "speech")} \in SUBSET Notes
          /\ {Note(Jarvis, "thinking_done")} \in SUBSET Notes
          /\ {Note(Jarvis, "camera_off")} \in SUBSET Notes
      BY TurnLoopAssumption DEF Note, Notes, Jarvis, Words, Stage
    <3>2. sent' \in [Requests -> SUBSET Notes]
      BY <2>3, <3>1 DEF Synthesize, TypeOK
    <3>3. locked' \in BOOLEAN /\ waiters' \in Seq(Requests) /\ awake' \subseteq Requests
      BY <2>3, WakeFirstLemma DEF Synthesize, Release, TypeOK
    <3>4. crew' \in [Agents -> CrewPlaces]
      BY <2>3 DEF Synthesize, LeaveCrew, CrewPlaces, TypeOK
    <3> QED
      BY <2>3, <3>2, <3>3, <3>4 DEF Synthesize, LeaveCrew, TypeOK, Places
  <2>4. CASE CutWaiting(i)
    <3>1. PICK n \in DOMAIN waiters :
            /\ waiters' = RemoveAt(waiters, n)
            /\ awake' = IF locked THEN awake \ {i}
                                  ELSE WakeFirst(RemoveAt(waiters, n), awake \ {i})
      BY <2>4 DEF CutWaiting
    <3>2. waiters' \in Seq(Requests) /\ awake' \subseteq Requests
      BY <3>1, RemoveAtLemma, WakeFirstLemma DEF TypeOK
    <3> QED
      BY <2>4, <3>2 DEF CutWaiting, TypeOK, Places
  <2>5. CASE CutTurn(i)
    <3>1. locked' \in BOOLEAN /\ waiters' \in Seq(Requests) /\ awake' \subseteq Requests
      BY <2>5, WakeFirstLemma DEF CutTurn, Release, TypeOK
    <3>2. crew' \in [Agents -> CrewPlaces]
      BY <2>5 DEF CutTurn, LeaveCrew, CrewPlaces, TypeOK
    <3> QED
      BY <2>5, <3>1, <3>2 DEF CutTurn, LeaveCrew, TypeOK, Places
  <2> QED
    BY <1>5, <2>1, <2>2, <2>3, <2>4, <2>5 DEF Resuming
<1>6. ASSUME NEW k \in Agents, Working(k)
      PROVE  TypeOK'
  <2>1. Started(k) \in SUBSET Notes /\ {Note(k, "done")} \in SUBSET Notes
                                    /\ {Note(k, "failed")} \in SUBSET Notes
    BY TurnLoopAssumption DEF Started, Note, Notes, Words, Agents
  <2>2. CASE CallTool(k)
    <3>1. sent' \in [Requests -> SUBSET Notes]
      BY <2>1, <2>2, SentType DEF CallTool
    <3>2. todo' \in [Agents -> 0..MaxCalls]
      BY <2>2, TurnLoopAssumption DEF CallTool, TypeOK
    <3> QED
      BY <2>2, <3>1, <3>2 DEF CallTool, TypeOK, CrewPlaces
  <2>3. CASE FinishAgent(k)
    <3>1. sent' \in [Requests -> SUBSET Notes]
      <4>1. PICK end \in {"done", "failed"} :
              sent' = [sent EXCEPT ![active] = @ \cup Started(k) \cup {Note(k, end)}]
        BY <2>3 DEF FinishAgent
      <4>2. Started(k) \cup {Note(k, end)} \in SUBSET Notes
        BY <2>1
      <4>3. sent' = [sent EXCEPT ![active] = @ \cup (Started(k) \cup {Note(k, end)})]
        BY <4>1 DEF TypeOK
      <4> QED
        BY <4>2, <4>3, SentType
    <3>2. todo' \in [Agents -> 0..MaxCalls] /\ crew' \in [Agents -> CrewPlaces]
      BY <2>3, TurnLoopAssumption DEF FinishAgent, TypeOK, CrewPlaces
    <3> QED
      BY <2>3, <3>1, <3>2 DEF FinishAgent, TypeOK
  <2>4. CASE CutAgent(k)
    <3>1. todo' \in [Agents -> 0..MaxCalls] /\ crew' \in [Agents -> CrewPlaces]
      BY <2>4, TurnLoopAssumption DEF CutAgent, TypeOK, CrewPlaces
    <3> QED
      BY <2>4, <3>1 DEF CutAgent, TypeOK
  <2> QED
    BY <1>6, <2>2, <2>3, <2>4 DEF Working
<1>7. CASE Answering
  <2>1. ASSUME NEW i \in Requests, ProviderAnswers(i)
        PROVE  TypeOK'
    BY <2>1 DEF ProviderAnswers, TypeOK
  <2>2. ASSUME NEW k \in Agents, ToolAnswers(k)
        PROVE  TypeOK'
    BY <2>2 DEF ToolAnswers, TypeOK, CrewPlaces
  <2> QED
    BY <1>7, <2>1, <2>2 DEF Answering
<1>8. CASE UNCHANGED vars
  BY <1>8 DEF vars, TypeOK
<1> QED
  BY <1>1, <1>2, <1>3, <1>4, <1>5, <1>6, <1>7, <1>8 DEF Next

\* The variables of the connection keep their types in every behaviour.
THEOREM TypeCorrect == Safety => []TypeOK
<1>1. Init => TypeOK
  BY TypeInit
<1>2. TypeOK /\ [Next]_vars => TypeOK'
  BY TypeNext
<1> QED
  BY <1>1, <1>2, PTL DEF Safety

(***************************************************************************)
(* One turn at a time.                                                     *)
(***************************************************************************)

LEMMA InitIInv == Init => IInv
<1> SUFFICES ASSUME Init PROVE IInv
  OBVIOUS
<1>1. TypeOK
  BY TypeInit
<1>2. OneTurn
  BY Numbers DEF Init, OneTurn, Holding
<1>3. SpawnedOK /\ WaitersOK
  BY DEF Init, SpawnedOK, WaitersOK
<1>4. AwakeOK /\ HandOver /\ DoomedOK
  BY DEF Init, AwakeOK, HandOver, DoomedOK
<1> QED
  BY <1>1, <1>2, <1>3, <1>4 DEF IInv

\* A task that starts was on the queue of new tasks and leaves it.
LEMMA SpawnedStarts ==
  ASSUME TypeOK, SpawnedOK, NEW i \in Requests, Starts(i),
         NEW p, pc' = [pc EXCEPT ![i] = p]
  PROVE  pc[i] = "spawned" /\ SpawnedOK'
<1>1. /\ spawned \in Seq(Requests) /\ spawned # <<>>
      /\ i = spawned[1] /\ spawned' = Tail(spawned)
  BY DEF Starts, TypeOK
<1>2. /\ Len(spawned) \in Nat \ {0} /\ DOMAIN spawned = 1..Len(spawned)
      /\ DOMAIN Tail(spawned) = 1..(Len(spawned) - 1)
      /\ \A m \in 1..(Len(spawned) - 1) : Tail(spawned)[m] = spawned[m + 1]
  BY <1>1
<1>3. pc[i] = "spawned"
  BY <1>1, <1>2 DEF SpawnedOK
<1>4. ASSUME NEW m \in DOMAIN spawned'
      PROVE  /\ m + 1 \in DOMAIN spawned
             /\ spawned'[m] = spawned[m + 1]
             /\ spawned[m + 1] # i
  BY <1>1, <1>2 DEF SpawnedOK
<1>5. \A m \in DOMAIN spawned' : pc'[spawned'[m]] = "spawned"
  BY <1>1, <1>4 DEF SpawnedOK, TypeOK
<1>6. \A m, n \in DOMAIN spawned' : spawned'[m] = spawned'[n] => m = n
  BY <1>1, <1>2, <1>4 DEF SpawnedOK
<1> QED
  BY <1>3, <1>5, <1>6 DEF SpawnedOK

\* Other steps leave the queue of new tasks alone.
LEMMA SpawnedKept ==
  ASSUME TypeOK, SpawnedOK, UNCHANGED spawned, NEW i \in Requests,
         pc[i] # "spawned", NEW p, pc' = [pc EXCEPT ![i] = p]
  PROVE  SpawnedOK'
BY DEF SpawnedOK, TypeOK

\* A step of a request that neither waits nor comes to wait.
LEMMA WaitersKept ==
  ASSUME TypeOK, WaitersOK, UNCHANGED waiters, NEW i \in Requests,
         pc[i] # "waiting", NEW p, p # "waiting", pc' = [pc EXCEPT ![i] = p]
  PROVE  WaitersOK'
BY DEF WaitersOK, TypeOK

\* A request that stops waiting.
LEMMA WaiterLeaves ==
  ASSUME TypeOK, WaitersOK, NEW n \in DOMAIN waiters, waiters' = RemoveAt(waiters, n),
         NEW p, p # "waiting", pc' = [pc EXCEPT ![waiters[n]] = p]
  PROVE  WaitersOK'
<1>1. /\ waiters \in Seq(Requests) /\ Len(waiters) \in Nat
      /\ DOMAIN waiters = 1..Len(waiters)
  BY DEF TypeOK
<1>2. /\ DOMAIN waiters' = 1..(Len(waiters) - 1)
      /\ \A m \in 1..(Len(waiters) - 1) :
           waiters'[m] = IF m < n THEN waiters[m] ELSE waiters[m + 1]
  BY <1>1, RemoveAtLemma
<1> DEFINE at(m) == IF m < n THEN m ELSE m + 1
<1>a. /\ \A m \in DOMAIN waiters' :
           at(m) \in DOMAIN waiters /\ at(m) # n /\ waiters'[m] = waiters[at(m)]
      /\ \A l, m \in DOMAIN waiters' : at(l) = at(m) => l = m
  <2>1. ASSUME NEW m \in DOMAIN waiters'
        PROVE  at(m) \in DOMAIN waiters /\ at(m) # n
    BY <1>1, <1>2
  <2>2. ASSUME NEW m \in DOMAIN waiters'
        PROVE  waiters'[m] = waiters[at(m)]
    BY <1>1, <1>2
  <2>3. \A l, m \in DOMAIN waiters' : at(l) = at(m) => l = m
    BY <1>1, <1>2
  <2> QED
    BY <2>1, <2>2, <2>3
<1>b. \A m \in DOMAIN waiters :
        /\ waiters[m] \in Requests
        /\ pc[waiters[m]] = "waiting"
        /\ m # n => waiters[m] # waiters[n]
  BY <1>1 DEF WaitersOK
<1>c. \A m \in DOMAIN waiters' :
        \E k \in DOMAIN waiters : k # n /\ waiters'[m] = waiters[k]
  <2> SUFFICES ASSUME NEW m \in DOMAIN waiters'
               PROVE  \E k \in DOMAIN waiters : k # n /\ waiters'[m] = waiters[k]
    OBVIOUS
  <2>1. at(m) \in DOMAIN waiters /\ at(m) # n /\ waiters'[m] = waiters[at(m)]
    BY <1>a
  <2> HIDE DEF at
  <2> QED
    BY <2>1
<1> HIDE DEF at
<1>3. \A m \in DOMAIN waiters' : pc'[waiters'[m]] = "waiting"
  <2>1. \A j \in Requests : j # waiters[n] => pc'[j] = pc[j]
    BY DEF TypeOK
  <2>2. \A m \in DOMAIN waiters' :
          /\ waiters'[m] \in Requests /\ waiters'[m] # waiters[n]
          /\ pc[waiters'[m]] = "waiting"
    <3> TAKE m \in DOMAIN waiters'
    <3>1. PICK k \in DOMAIN waiters : k # n /\ waiters'[m] = waiters[k]
      BY <1>c
    <3> QED
      BY <1>b, <3>1
  <2> QED
    BY <2>1, <2>2
<1>4. \A l, m \in DOMAIN waiters' : waiters'[l] = waiters'[m] => l = m
  <2>1. \A l, m \in DOMAIN waiters : waiters[l] = waiters[m] => l = m
    BY DEF WaitersOK
  <2> QED
    BY <1>a, <2>1
<1>5. ASSUME NEW j \in Requests, pc'[j] = "waiting"
      PROVE  \E m \in DOMAIN waiters' : waiters'[m] = j
  <2>1. j # waiters[n] /\ pc[j] = "waiting"
    BY <1>b, <1>5 DEF TypeOK
  <2>2. PICK m \in DOMAIN waiters : waiters[m] = j
    BY <2>1 DEF WaitersOK
  <2>3. CASE m < n
    BY <1>1, <1>2, <2>2, <2>3
  <2>4. CASE m > n
    <3>1. m - 1 \in 1..(Len(waiters) - 1) /\ ~(m - 1 < n) /\ (m - 1) + 1 = m
      BY <1>1, <2>4
    <3>2. waiters'[m - 1] = waiters[m]
      BY <1>2, <3>1
    <3> QED
      BY <1>2, <2>2, <3>1, <3>2
  <2>5. m # n
    BY <2>1, <2>2
  <2> QED
    BY <1>1, <2>3, <2>4, <2>5
<1> QED
  BY <1>3, <1>4, <1>5 DEF WaitersOK

\* The step of the one request that holds the lock, or has just been handed it while
\* no other request is woken to take it.
LEMMA AfterEnter ==
  ASSUME TypeOK, NEW i \in Requests, NEW queue \in Seq(Requests),
         NEW set \in SUBSET Requests, EnterOutcome(i, queue, set), UNCHANGED doomed,
         \A j \in Requests \ {i} : pc[j] \notin Holding,
         \A j \in set : j # i /\ pc[j] \in {"waiting", "decompose"},
         \A j \in set : pc[j] = "waiting" => j \in doomed,
         queue # <<>> => queue[1] # i /\ pc[queue[1]] = "waiting"
  PROVE  OneTurn' /\ AwakeOK' /\ HandOver'
<1>1. CASE /\ \E e \in Ended : pc' = [pc EXCEPT ![i] = e]
           /\ active' = NoTurn
           /\ Release(queue, set)
  <2>1. pc'[i] \in Ended /\ \A j \in Requests \ {i} : pc'[j] = pc[j]
    BY <1>1 DEF TypeOK
  <2>2. OneTurn'
    BY <1>1, <2>1, Numbers DEF OneTurn, Release, Holding, Ended
  <2>3. \A j \in awake' : j \in set \/ (queue # <<>> /\ j = queue[1])
    BY <1>1, WakeFirstLemma DEF Release
  <2>4. awake' \subseteq Requests
    BY <1>1, WakeFirstLemma DEF Release
  <2>5. AwakeOK'
    BY <2>1, <2>3, <2>4 DEF AwakeOK
  <2>6. HandOver'
    <3> SUFFICES ASSUME NEW j \in Requests, pc'[j] = "waiting", j \in awake',
                        j \notin doomed'
                 PROVE  ~locked' /\ waiters' # <<>> /\ waiters'[1] = j
      BY DEF HandOver
    <3>1. j # i /\ pc[j] = "waiting"
      BY <2>1 DEF Ended
    <3>2. queue # <<>> /\ j = queue[1]
      BY <2>3, <3>1
    <3> QED
      BY <1>1, <3>2 DEF Release
  <2> QED
    BY <2>2, <2>5, <2>6
<1>2. CASE /\ \E p \in Holding : pc' = [pc EXCEPT ![i] = p]
           /\ active' = i
           /\ Keep(queue, set)
  <2>1. pc'[i] \in Holding /\ \A j \in Requests \ {i} : pc'[j] = pc[j]
    BY <1>2 DEF TypeOK
  <2>2. OneTurn'
    BY <1>2, <2>1, Numbers DEF OneTurn, Keep
  <2>3. AwakeOK'
    BY <1>2, <2>1 DEF AwakeOK, Keep
  <2>4. HandOver'
    BY <1>2, <2>1 DEF HandOver, Keep, Holding
  <2> QED
    BY <2>2, <2>3, <2>4
<1> QED
  BY <1>1, <1>2 DEF EnterOutcome

\* Starting a request that takes no turn.
LEMMA StartAside ==
  ASSUME IInv, NEW i \in Requests, Alert(i) \/ CutUnstarted(i)
  PROVE  IInv'
<1>1. TypeOK'
  BY TypeNext DEF Next, Starting, IInv
<1>2. PICK e \in Ended : pc' = [pc EXCEPT ![i] = e]
  BY DEF Alert, CutUnstarted, Ended
<1>3. pc[i] = "spawned" /\ SpawnedOK'
  BY <1>2, SpawnedStarts DEF Alert, CutUnstarted, IInv
<1>4. UNCHANGED <<locked, waiters, awake, doomed, active, closing>>
  BY DEF Alert, CutUnstarted, lockVars, turnVars
<1>5. pc'[i] \in Ended /\ \A j \in Requests \ {i} : pc'[j] = pc[j]
  BY <1>2 DEF IInv, TypeOK
<1>6. OneTurn'
  BY <1>3, <1>4, <1>5 DEF IInv, OneTurn, Holding, Ended
<1>7. WaitersOK'
  BY <1>2, <1>3, <1>4, WaitersKept DEF IInv, Ended
<1>8. AwakeOK' /\ HandOver'
  BY <1>3, <1>4, <1>5 DEF IInv, TypeOK, AwakeOK, HandOver, Ended
<1>9. DoomedOK'
  BY <1>3, <1>4, <1>5 DEF IInv, TypeOK, DoomedOK, Ended
<1> QED
  BY <1>1, <1>3, <1>6, <1>7, <1>8, <1>9 DEF IInv

\* What is known when a request finds the lock free, or is handed it.
LEMMA FreeLock ==
  ASSUME IInv, ~locked
  PROVE  active = NoTurn /\ \A j \in Requests : pc[j] \notin Holding
BY Numbers DEF IInv, OneTurn

LEMMA StartTurnStep ==
  ASSUME IInv, NEW i \in Requests, StartTurn(i)
  PROVE  IInv'
<1>1. TypeOK'
  BY TypeNext DEF Next, Starting, IInv
<1>2. active = NoTurn /\ \A j \in Requests : pc[j] \notin Holding
  BY FreeLock DEF StartTurn, LockFree
<1>3. EnterOutcome(i, waiters, awake) /\ UNCHANGED <<kind, doomed, closing>>
  BY <1>2, EnterLemma DEF StartTurn
<1>4. PICK p \in Holding \cup Ended : pc' = [pc EXCEPT ![i] = p]
  BY <1>3 DEF EnterOutcome
<1>5. pc[i] = "spawned" /\ SpawnedOK'
  BY <1>4, SpawnedStarts DEF StartTurn, IInv
<1>6. ~closing
  BY <1>5 DEF StartTurn, IInv, DoomedOK, Ended
<1>7. waiters = <<>>
  <2>1. \A n \in DOMAIN waiters : waiters[n] \in doomed
    BY DEF StartTurn, LockFree, Range
  <2>2. \A n \in DOMAIN waiters : pc[waiters[n]] = "waiting" /\ waiters[n] \in Requests
    BY DEF IInv, WaitersOK, TypeOK
  <2>3. DOMAIN waiters = {}
    BY <1>2, <1>6, <2>1, <2>2, Numbers DEF IInv, DoomedOK, Ended
  <2> QED
    BY <2>3 DEF IInv, TypeOK
<1>8. \A j \in Requests : pc[j] # "waiting"
  BY <1>7 DEF IInv, WaitersOK
<1>9. OneTurn' /\ AwakeOK' /\ HandOver'
  <2>1. \A j \in awake : j # i /\ pc[j] \in {"waiting", "decompose"}
    BY <1>5 DEF IInv, AwakeOK
  <2>2. \A j \in awake : pc[j] = "waiting" => j \in doomed
    BY <1>8 DEF IInv, TypeOK
  <2> QED
    BY <1>2, <1>3, <1>7, <2>1, <2>2, AfterEnter DEF IInv, TypeOK
<1>10. UNCHANGED waiters
  BY <1>3 DEF EnterOutcome, Keep, Release
<1>11. WaitersOK'
  BY <1>4, <1>5, <1>10, WaitersKept DEF IInv, Holding, Ended
<1>12. DoomedOK'
  <2>1. ~closing' /\ doomed' = doomed
    BY <1>3, <1>6
  <2>2. \A j \in doomed : j # i /\ pc[j] \in Ended
    BY <1>2, <1>5, <1>6, Numbers DEF IInv, DoomedOK, TypeOK, Ended
  <2>3. \A j \in doomed : pc'[j] \in Ended
    BY <1>4, <2>2 DEF IInv, TypeOK
  <2> QED
    BY <2>1, <2>3 DEF DoomedOK
<1> QED
  BY <1>1, <1>5, <1>9, <1>11, <1>12 DEF IInv

LEMMA AwaitLockStep ==
  ASSUME IInv, NEW i \in Requests, AwaitLock(i)
  PROVE  IInv'
<1>1. TypeOK'
  BY TypeNext DEF Next, Starting, IInv
<1>2. pc' = [pc EXCEPT ![i] = "waiting"]
  BY DEF AwaitLock
<1>3. pc[i] = "spawned" /\ SpawnedOK'
  BY <1>2, SpawnedStarts DEF AwaitLock, IInv
<1>4. UNCHANGED <<locked, awake, doomed, active, closing>> /\ waiters' = Append(waiters, i)
  BY DEF AwaitLock, turnVars
<1>5. pc'[i] = "waiting" /\ \A j \in Requests \ {i} : pc'[j] = pc[j]
  BY <1>2 DEF IInv, TypeOK
<1>6. OneTurn'
  BY <1>3, <1>4, <1>5 DEF IInv, OneTurn, Holding
<1>7. /\ waiters \in Seq(Requests) /\ Len(waiters) \in Nat
      /\ DOMAIN waiters = 1..Len(waiters)
      /\ DOMAIN waiters' = 1..(Len(waiters) + 1)
      /\ \A n \in 1..Len(waiters) : waiters'[n] = waiters[n]
      /\ waiters'[Len(waiters) + 1] = i
  BY <1>4 DEF IInv, TypeOK
<1>8. \A n \in DOMAIN waiters : pc[waiters[n]] = "waiting" /\ waiters[n] \in Requests
  BY <1>7 DEF IInv, WaitersOK
<1>9. WaitersOK'
  <2>1. \A n \in DOMAIN waiters' : pc'[waiters'[n]] = "waiting"
    BY <1>3, <1>5, <1>7, <1>8
  <2>2. \A m, n \in DOMAIN waiters' : waiters'[m] = waiters'[n] => m = n
    BY <1>3, <1>7, <1>8 DEF IInv, WaitersOK
  <2>3. \A j \in Requests : pc'[j] = "waiting" => \E n \in DOMAIN waiters' : waiters'[n] = j
    <3>1. \A j \in Requests \ {i} : pc[j] = "waiting" =>
            \E n \in DOMAIN waiters : waiters[n] = j
      BY DEF IInv, WaitersOK
    <3> QED
      BY <1>5, <1>7, <3>1
  <2> QED
    BY <2>1, <2>2, <2>3 DEF WaitersOK
<1>10. i \notin awake
  BY <1>3 DEF IInv, AwakeOK
<1>11. AwakeOK'
  BY <1>4, <1>5, <1>10 DEF IInv, TypeOK, AwakeOK
<1>12. HandOver'
  <2> SUFFICES ASSUME NEW j \in Requests, pc'[j] = "waiting", j \in awake', j \notin doomed'
               PROVE  ~locked' /\ waiters' # <<>> /\ waiters'[1] = j
    BY DEF HandOver
  <2>1. ~locked /\ waiters # <<>> /\ waiters[1] = j
    BY <1>4, <1>5, <1>10 DEF IInv, HandOver
  <2>2. 1 \in 1..Len(waiters)
    BY <1>7, <2>1
  <2> QED
    BY <1>4, <1>7, <2>1, <2>2
<1>13. DoomedOK'
  BY <1>3, <1>4, <1>5 DEF IInv, TypeOK, DoomedOK, Ended
<1> QED
  BY <1>1, <1>3, <1>6, <1>9, <1>11, <1>12, <1>13 DEF IInv

LEMMA TakeLockStep ==
  ASSUME IInv, NEW i \in Requests, TakeLock(i)
  PROVE  IInv'
<1>1. TypeOK'
  BY TypeNext DEF Next, Resuming, IInv
<1>2. PICK n \in DOMAIN waiters :
        waiters[n] = i /\ Enter(i, RemoveAt(waiters, n), awake \ {i})
  BY DEF TakeLock
<1>3. pc[i] = "waiting" /\ i \in awake /\ i \notin doomed /\ UNCHANGED spawned
  BY DEF TakeLock
<1>4. ~locked /\ waiters # <<>> /\ waiters[1] = i
  BY <1>3 DEF IInv, HandOver
<1>5. active = NoTurn /\ \A j \in Requests : pc[j] \notin Holding
  BY <1>4, FreeLock
<1> DEFINE queue == RemoveAt(waiters, n)
           set   == awake \ {i}
<1>6. EnterOutcome(i, queue, set) /\ UNCHANGED <<kind, doomed, closing>>
  BY <1>2, <1>5, EnterLemma
<1>7. PICK p \in Holding \cup Ended : pc' = [pc EXCEPT ![i] = p]
  BY <1>6 DEF EnterOutcome
<1>8. waiters' = queue
  BY <1>6 DEF EnterOutcome, Keep, Release
<1>9. WaitersOK'
  BY <1>2, <1>7, <1>8, WaiterLeaves DEF IInv, Holding, Ended
<1>10. SpawnedOK'
  BY <1>3, <1>7, SpawnedKept DEF IInv
<1>11. queue \in Seq(Requests) /\ set \in SUBSET Requests
  BY RemoveAtLemma DEF IInv, TypeOK
<1>12. pc'[i] \in Holding \cup Ended /\ \A j \in Requests \ {i} : pc'[j] = pc[j]
  BY <1>7 DEF IInv, TypeOK
<1>13. queue # <<>> => queue[1] # i /\ pc[queue[1]] = "waiting"
  <2> SUFFICES ASSUME queue # <<>> PROVE queue[1] # i /\ pc[queue[1]] = "waiting"
    OBVIOUS
  <2>1. queue[1] \in Requests /\ 1 \in DOMAIN queue
    BY <1>11
  <2>2. pc'[queue[1]] = "waiting"
    BY <1>8, <1>9, <2>1 DEF WaitersOK
  <2> QED
    BY <1>12, <2>1, <2>2 DEF Holding, Ended
<1>14. \A j \in set : j # i /\ pc[j] \in {"waiting", "decompose"}
  BY DEF IInv, AwakeOK
<1>15. \A j \in set : pc[j] = "waiting" => j \in doomed
  BY <1>4, <1>11 DEF IInv, HandOver
<1>16. OneTurn' /\ AwakeOK' /\ HandOver'
  <2> HIDE DEF queue, set
  <2> QED
    BY <1>5, <1>6, <1>11, <1>13, <1>14, <1>15, AfterEnter DEF IInv
<1>17. DoomedOK'
  <2>1. ~closing /\ ~closing'
    BY <1>3, <1>6 DEF IInv, DoomedOK, Ended
  <2>2. \A j \in doomed : j # i /\ pc[j] \in Ended
    BY <1>3, <1>5, <2>1, Numbers DEF IInv, DoomedOK, TypeOK
  <2>3. \A j \in doomed' : pc'[j] \in Ended
    BY <1>6, <1>12, <2>2 DEF IInv, TypeOK
  <2> QED
    BY <2>1, <2>3 DEF DoomedOK
<1> QED
  BY <1>1, <1>9, <1>10, <1>16, <1>17 DEF IInv

\* A step of the request that holds the lock.
LEMMA HolderStep ==
  ASSUME IInv, NEW i \in Requests, pc[i] \in Holding, TypeOK',
         NEW set \in SUBSET awake, EnterOutcome(i, waiters, set), i \notin set,
         i \notin doomed \/ pc'[i] \in Ended,
         UNCHANGED <<spawned, doomed, closing>>
  PROVE  IInv'
<1>1. active = i /\ locked /\ \A j \in Requests \ {i} : pc[j] \notin Holding
  BY Numbers DEF IInv, OneTurn
<1>2. PICK p \in Holding \cup Ended : pc' = [pc EXCEPT ![i] = p]
  BY DEF EnterOutcome
<1>3. pc'[i] \in Holding \cup Ended /\ \A j \in Requests \ {i} : pc'[j] = pc[j]
  BY <1>2 DEF IInv, TypeOK
<1>4. UNCHANGED waiters
  BY DEF EnterOutcome, Keep, Release
<1>5. SpawnedOK'
  BY <1>2, SpawnedKept DEF IInv, Holding
<1>6. WaitersOK'
  BY <1>2, <1>4, WaitersKept DEF IInv, Holding, Ended
<1>7. OneTurn' /\ AwakeOK' /\ HandOver'
  <2>1. waiters \in Seq(Requests) /\ set \in SUBSET Requests
    BY DEF IInv, TypeOK
  <2>2. waiters # <<>> => waiters[1] # i /\ pc[waiters[1]] = "waiting"
    BY <2>1 DEF IInv, WaitersOK, Holding
  <2>3. \A j \in set : j # i /\ pc[j] \in {"waiting", "decompose"}
    BY DEF IInv, AwakeOK
  <2>4. \A j \in set : pc[j] = "waiting" => j \in doomed
    BY <1>1, <2>1 DEF IInv, HandOver
  <2> QED
    BY <1>1, <2>1, <2>2, <2>3, <2>4, AfterEnter DEF IInv
<1>8. DoomedOK'
  <2>1. CASE ~closing
    <3>1. \A j \in doomed : j = i \/ pc[j] \in Ended
      BY <1>1, <2>1 DEF IInv, DoomedOK
    <3>2. \A j \in doomed' : pc'[j] \in Ended
      BY <1>3, <3>1 DEF IInv, TypeOK
    <3> QED
      BY <2>1, <3>2 DEF DoomedOK
  <2>2. CASE closing
    BY <1>3, <2>2 DEF IInv, DoomedOK, TypeOK, Holding, Ended
  <2> QED
    BY <2>1, <2>2
<1> QED
  BY <1>5, <1>6, <1>7, <1>8 DEF IInv

LEMMA CutWaitingStep ==
  ASSUME IInv, NEW i \in Requests, CutWaiting(i)
  PROVE  IInv'
<1>1. TypeOK'
  BY TypeNext DEF Next, Resuming, IInv
<1>2. PICK n \in DOMAIN waiters :
        /\ waiters[n] = i
        /\ waiters' = RemoveAt(waiters, n)
        /\ awake' = IF locked THEN awake \ {i}
                              ELSE WakeFirst(RemoveAt(waiters, n), awake \ {i})
  BY DEF CutWaiting
<1>3. /\ pc[i] = "waiting" /\ i \in doomed /\ pc' = [pc EXCEPT ![i] = "cut"]
      /\ UNCHANGED <<spawned, locked, doomed, active, closing>>
  BY DEF CutWaiting, turnVars
<1>4. pc'[i] = "cut" /\ \A j \in Requests \ {i} : pc'[j] = pc[j]
  BY <1>3 DEF IInv, TypeOK
<1>5. closing
  BY <1>3 DEF IInv, DoomedOK, OneTurn, Holding, Ended
<1>6. SpawnedOK'
  BY <1>3, SpawnedKept DEF IInv
<1>7. WaitersOK'
  BY <1>2, <1>3, WaiterLeaves DEF IInv
<1>8. OneTurn'
  BY <1>3, <1>4 DEF IInv, OneTurn, Holding
<1>9. AwakeOK'
  <2>1. \A j \in awake' : \/ j \in awake \ {i}
                          \/ waiters' # <<>> /\ j = waiters'[1]
    BY <1>2, RemoveAtLemma, WakeFirstLemma DEF IInv, TypeOK
  <2>2. waiters' # <<>> => pc'[waiters'[1]] = "waiting"
    BY <1>1, <1>7 DEF WaitersOK, TypeOK
  <2> QED
    BY <1>1, <1>4, <2>1, <2>2 DEF IInv, AwakeOK, TypeOK
<1>10. HandOver' /\ DoomedOK'
  BY <1>3, <1>4, <1>5 DEF IInv, HandOver, DoomedOK, Ended
<1> QED
  BY <1>1, <1>6, <1>7, <1>8, <1>9, <1>10 DEF IInv

LEMMA ResumingStep ==
  ASSUME IInv, NEW i \in Requests, Resuming(i)
  PROVE  IInv'
<1>1. TypeOK'
  BY TypeNext DEF Next, IInv
<1>2. CASE TakeLock(i)
  BY <1>2, TakeLockStep
<1>3. CASE Decomposed(i)
  <2>1. EnterOutcome(i, waiters, awake \ {i})
    BY <1>3, OrchestrateLemma DEF Decomposed
  <2>2. /\ pc[i] \in Holding /\ i \notin doomed
        /\ UNCHANGED <<spawned, doomed, closing>>
    BY <1>3 DEF Decomposed, Holding
  <2> QED
    BY <1>1, <2>1, <2>2, HolderStep
<1>4. CASE Synthesize(i)
  <2>1. EnterOutcome(i, waiters, awake)
    BY <1>4 DEF Synthesize, EnterOutcome, Ended
  <2>2. /\ pc[i] \in Holding /\ i \notin doomed
        /\ UNCHANGED <<spawned, doomed, closing>>
    BY <1>4 DEF Synthesize, Holding
  <2>3. i \notin awake
    BY <1>4 DEF Synthesize, IInv, AwakeOK
  <2> QED
    BY <1>1, <2>1, <2>2, <2>3, HolderStep
<1>5. CASE CutWaiting(i)
  BY <1>5, CutWaitingStep
<1>6. CASE CutTurn(i)
  <2>1. EnterOutcome(i, waiters, awake \ {i})
    BY <1>6 DEF CutTurn, EnterOutcome, Ended
  <2>2. /\ pc[i] \in Holding /\ pc'[i] \in Ended
        /\ UNCHANGED <<spawned, doomed, closing>>
    BY <1>6 DEF CutTurn, Holding, Ended, IInv, TypeOK
  <2> QED
    BY <1>1, <2>1, <2>2, HolderStep
<1> QED
  BY <1>2, <1>3, <1>4, <1>5, <1>6 DEF Resuming

\* Steps that change none of what the invariant is about.
LEMMA OtherStep ==
  ASSUME IInv, TypeOK',
         UNCHANGED <<pc, spawned, locked, waiters, awake, doomed, active, closing>>
  PROVE  IInv'
BY DEF IInv, OneTurn, SpawnedOK, WaitersOK, AwakeOK, HandOver, DoomedOK

LEMMA DispatchStep ==
  ASSUME IInv, NEW i \in Requests, Dispatch(i)
  PROVE  IInv'
<1>1. TypeOK'
  BY TypeNext DEF Next, IInv
<1>2. /\ pc[i] = "idle" /\ pc' = [pc EXCEPT ![i] = "spawned"] /\ ~closing
      /\ spawned' = Append(spawned, i)
      /\ UNCHANGED <<locked, waiters, awake, doomed, active, closing>>
  BY DEF Dispatch, lockVars, turnVars
<1>3. pc'[i] = "spawned" /\ \A j \in Requests \ {i} : pc'[j] = pc[j]
  BY <1>2 DEF IInv, TypeOK
<1>4. SpawnedOK'
  <2>1. /\ spawned \in Seq(Requests) /\ Len(spawned) \in Nat
        /\ DOMAIN spawned = 1..Len(spawned)
        /\ DOMAIN spawned' = 1..(Len(spawned) + 1)
        /\ \A n \in 1..Len(spawned) : spawned'[n] = spawned[n]
        /\ spawned'[Len(spawned) + 1] = i
    BY <1>2 DEF IInv, TypeOK
  <2>2. \A n \in DOMAIN spawned : spawned[n] \in Requests \ {i}
    BY <1>2, <2>1 DEF IInv, SpawnedOK
  <2>3. \A n \in DOMAIN spawned' : pc'[spawned'[n]] = "spawned"
    BY <1>3, <2>1, <2>2 DEF IInv, SpawnedOK
  <2>4. \A m, n \in DOMAIN spawned' : spawned'[m] = spawned'[n] => m = n
    BY <2>1, <2>2 DEF IInv, SpawnedOK
  <2> QED
    BY <2>3, <2>4 DEF SpawnedOK
<1>5. WaitersOK'
  BY <1>2, WaitersKept DEF IInv
<1>6. OneTurn'
  BY <1>2, <1>3 DEF IInv, OneTurn, Holding
<1>7. AwakeOK' /\ HandOver' /\ DoomedOK'
  BY <1>2, <1>3 DEF IInv, TypeOK, AwakeOK, HandOver, DoomedOK, Ended
<1> QED
  BY <1>1, <1>4, <1>5, <1>6, <1>7 DEF IInv

LEMMA BargeInStep ==
  ASSUME IInv, BargeIn
  PROVE  IInv'
<1>1. TypeOK'
  BY TypeNext DEF Next, IInv
<1>2. /\ ~closing /\ active # NoTurn
      /\ doomed' = doomed \cup {active}
      /\ awake' = IF pc[active] = "decompose" THEN awake \cup {active} ELSE awake
      /\ UNCHANGED <<pc, spawned, locked, waiters, active, closing>>
  BY DEF BargeIn, lockVars
<1>3. pc[active] \in Holding
  BY <1>2 DEF IInv, OneTurn, TypeOK
<1>4. OneTurn' /\ SpawnedOK' /\ WaitersOK'
  BY <1>2 DEF IInv, OneTurn, SpawnedOK, WaitersOK
<1>5. AwakeOK' /\ HandOver' /\ DoomedOK'
  BY <1>2, <1>3 DEF IInv, AwakeOK, HandOver, DoomedOK, Holding
<1> QED
  BY <1>1, <1>4, <1>5 DEF IInv

LEMMA ShutdownStep ==
  ASSUME IInv, Shutdown
  PROVE  IInv'
<1>1. TypeOK'
  BY TypeNext DEF Next, IInv
<1>2. /\ closing'
      /\ doomed' = doomed \cup {i \in Requests : pc[i] \notin Ended \cup {"idle"}}
      /\ awake' = awake \cup {i \in Requests : pc[i] \in {"waiting", "decompose"}}
      /\ UNCHANGED <<pc, spawned, locked, waiters, active>>
  BY DEF Shutdown, lockVars, turnVars
<1>3. OneTurn' /\ SpawnedOK' /\ WaitersOK'
  BY <1>2 DEF IInv, OneTurn, SpawnedOK, WaitersOK
<1>4. AwakeOK' /\ HandOver' /\ DoomedOK'
  BY <1>2 DEF IInv, AwakeOK, HandOver, DoomedOK, Ended
<1> QED
  BY <1>1, <1>3, <1>4 DEF IInv

LEMMA NextIInv == IInv /\ [Next]_vars => IInv'
<1> SUFFICES ASSUME IInv, [Next]_vars PROVE IInv'
  OBVIOUS
<1>1. TypeOK'
  BY TypeNext DEF IInv
<1>2. ASSUME NEW i \in Requests, Dispatch(i)
      PROVE  IInv'
  BY <1>2, DispatchStep
<1>3. ASSUME NEW i \in Requests, Starting(i)
      PROVE  IInv'
  BY <1>3, StartAside, StartTurnStep, AwaitLockStep DEF Starting
<1>4. ASSUME NEW i \in Requests, Resuming(i)
      PROVE  IInv'
  BY <1>4, ResumingStep
<1>5. ASSUME NEW k \in Agents, Working(k)
      PROVE  IInv'
  BY <1>1, <1>5, OtherStep
  DEF Working, CallTool, FinishAgent, CutAgent, lockVars, turnVars
<1>6. CASE BargeIn
  BY <1>6, BargeInStep
<1>7. CASE Shutdown
  BY <1>7, ShutdownStep
<1>8. CASE Answering
  <2>1. ASSUME NEW i \in Requests, ProviderAnswers(i)
        PROVE  IInv'
    <3>1. /\ awake' = awake \cup {i} /\ pc[i] = "decompose"
          /\ UNCHANGED <<pc, spawned, locked, waiters, doomed, active, closing>>
      BY <2>1 DEF ProviderAnswers, lockVars, turnVars
    <3> QED
      BY <1>1, <3>1
      DEF IInv, OneTurn, SpawnedOK, WaitersOK, AwakeOK, HandOver, DoomedOK
  <2>2. ASSUME NEW k \in Agents, ToolAnswers(k)
        PROVE  IInv'
    BY <1>1, <2>2, OtherStep DEF ToolAnswers, lockVars, turnVars
  <2> QED
    BY <1>8, <2>1, <2>2 DEF Answering
<1>9. CASE UNCHANGED vars
  BY <1>1, <1>9, OtherStep DEF vars, lockVars, turnVars
<1> QED
  BY <1>2, <1>3, <1>4, <1>5, <1>6, <1>7, <1>8, <1>9 DEF Next

\* At most one request is inside its turn, it is the one a barge-in cancels, and it
\* holds the agent lock, whatever is cancelled while the lock changes hands.
THEOREM TurnsExclude == Safety => []OneTurn
<1>1. Init => IInv
  BY InitIInv
<1>2. IInv /\ [Next]_vars => IInv'
  BY NextIInv
<1>3. IInv => OneTurn
  BY DEF IInv
<1> QED
  BY <1>1, <1>2, <1>3, PTL DEF Safety

\* The same invariant bounds what a disconnection leaves behind: no request starts
\* its turn afterwards.
THEOREM ClosedForTurns == Safety => NoTurnAfterClose
<1>1. IInv /\ [Next]_vars =>
        [closing => \A i \in Requests : pc'[i] \in Holding => pc[i] \in Holding]_vars
  <2> SUFFICES ASSUME IInv, Next, closing, NEW j \in Requests, pc'[j] \in Holding
               PROVE  pc[j] \in Holding
    OBVIOUS
  <2>1. pc[j] \notin Ended \cup {"idle"} => j \in doomed
    BY DEF IInv, DoomedOK
  <2>2. ASSUME NEW i \in Requests, Dispatch(i)
        PROVE  pc[j] \in Holding
    BY <2>2 DEF Dispatch
  <2>3. ASSUME NEW i \in Requests, Starting(i)
        PROVE  pc[j] \in Holding
    <3>1. \E e \in Ended \cup {"waiting"} : pc' = [pc EXCEPT ![i] = e]
      <4>1. i \in doomed \/ Alert(i) \/ AwaitLock(i) \/ StartTurn(i)
        BY <2>3 DEF Starting, CutUnstarted
      <4>2. pc[i] = "spawned"
        <5>1. spawned # <<>> /\ i = Head(spawned)
          BY <2>3 DEF Starting, Alert, StartTurn, AwaitLock, CutUnstarted, Starts
        <5>2. spawned \in Seq(Requests)
          BY DEF IInv, TypeOK
        <5>3. 1 \in DOMAIN spawned /\ i = spawned[1]
          BY <5>1, <5>2
        <5> QED
          BY <5>3 DEF IInv, SpawnedOK
      <4>3. i \in doomed
        BY <4>2 DEF IInv, DoomedOK, Ended
      <4> QED
        BY <2>3, <4>3 DEF Starting, Alert, StartTurn, AwaitLock, CutUnstarted, Ended
    <3> QED
      BY <3>1 DEF IInv, TypeOK, Holding, Ended
  <2>4. ASSUME NEW i \in Requests, Resuming(i)
        PROVE  pc[j] \in Holding
    <3>1. CASE TakeLock(i)
      BY <3>1 DEF TakeLock, IInv, DoomedOK, Ended
    <3>2. CASE ~TakeLock(i)
      BY <2>4, <3>2
      DEF Resuming, Decomposed, Orchestrate, AnswerDirectly, StartCrew, Synthesize,
          CutWaiting, CutTurn, IInv, TypeOK, Holding, Ended
    <3> QED
      BY <3>1, <3>2
  <2>5. CASE UNCHANGED pc
    BY <2>5
  <2>6. (\E k \in Agents : Working(k)) \/ BargeIn \/ Shutdown \/ Answering => UNCHANGED pc
    BY DEF Working, CallTool, FinishAgent, CutAgent, BargeIn, Shutdown, Answering,
           ProviderAnswers, ToolAnswers
  <2> QED
    BY <2>2, <2>3, <2>4, <2>5, <2>6 DEF Next
<1>2. Init => IInv
  BY InitIInv
<1>3. IInv /\ [Next]_vars => IInv'
  BY NextIInv
<1> QED
  BY <1>1, <1>2, <1>3, PTL DEF Safety, NoTurnAfterClose

(***************************************************************************)
(* What a step does to the task of one request.                            *)
(***************************************************************************)

Unstarted == {"idle", "spawned"}
Inside    == Holding \cup {"done"}

Only(i) == \A j \in Requests \ {i} : pc'[j] = pc[j]

Arrives(i) ==
  /\ ~closing
  /\ pc[i] = "idle" /\ pc'[i] = "spawned"
  /\ \A j \in 1..(i - 1) : pc[j] # "idle"
  /\ kind'[i] \in Kinds /\ \A j \in Requests \ {i} : kind'[j] = kind[j]
  /\ spawned' = Append(spawned, i)
  /\ UNCHANGED waiters

\* The lock is entered: the turn is over at once, or goes on.
Enters(i) ==
  /\ ~closing /\ i \notin doomed
  /\ \A j \in Requests : pc[j] \notin Holding
  /\ pc'[i] \in Inside

Begins(i) ==
  /\ pc[i] = "spawned" /\ spawned # <<>> /\ spawned[1] = i /\ spawned' = Tail(spawned)
  /\ UNCHANGED kind
  /\ \/ pc'[i] = "waiting" /\ waiters' = Append(waiters, i) /\ kind[i] # "alert"
     \/ pc'[i] = "cut" /\ closing /\ UNCHANGED waiters
     \/ pc'[i] = "done" /\ kind[i] = "alert" /\ UNCHANGED waiters
     \/ Enters(i) /\ waiters = <<>> /\ kind[i] # "alert" /\ UNCHANGED waiters

StopsWaiting(i) ==
  /\ pc[i] = "waiting"
  /\ UNCHANGED <<kind, spawned>>
  /\ \E n \in DOMAIN waiters :
       /\ waiters[n] = i /\ waiters' = RemoveAt(waiters, n)
       /\ \/ Enters(i) /\ n = 1
          \/ pc'[i] = "cut" /\ closing

GoesOn(i) ==
  /\ pc[i] \in Holding
  /\ UNCHANGED <<kind, spawned, waiters>>
  /\ \/ pc'[i] \in Inside /\ i \notin doomed /\ ~closing
     \/ pc'[i] = "cut" /\ i \in doomed

Moves(i) ==
  /\ Only(i)
  /\ Arrives(i) \/ Begins(i) \/ StopsWaiting(i) \/ GoesOn(i)
  /\ UNCHANGED <<doomed, interrupted, closing>>

LEMMA EnterPlace ==
  ASSUME NEW i, NEW queue, NEW set, Enter(i, queue, set)
  PROVE  /\ \E p \in Inside : pc' = [pc EXCEPT ![i] = p]
         /\ waiters' = queue
         /\ UNCHANGED <<kind, doomed, interrupted, closing>>
<1>1. UNCHANGED <<kind, doomed, interrupted, closing>>
  BY DEF Enter, history
<1>2. CASE Brief(i, queue, set)
  BY <1>1, <1>2 DEF Brief, Inside, Release
<1>3. CASE Ask(i, queue, set)
  BY <1>1, <1>3
  DEF Ask, Orchestrate, AnswerDirectly, StartCrew, Inside, Holding, Keep, Release
<1> QED
  BY <1>2, <1>3 DEF Enter

\* A request that starts is the first of the new tasks, and unless the connection is
\* down it has not been cancelled.
LEMMA StartingFacts ==
  ASSUME IInv, NEW i \in Requests, Starting(i)
  PROVE  /\ pc[i] = "spawned" /\ spawned # <<>> /\ spawned[1] = i /\ spawned' = Tail(spawned)
         /\ i \in doomed <=> closing
<1>1. spawned # <<>> /\ i = Head(spawned) /\ spawned' = Tail(spawned)
  BY DEF Starting, Alert, StartTurn, AwaitLock, CutUnstarted, Starts
<1>2. spawned \in Seq(Requests) /\ 1 \in DOMAIN spawned /\ spawned[1] = i
  BY <1>1 DEF IInv, TypeOK
<1>3. pc[i] = "spawned"
  BY <1>2 DEF IInv, SpawnedOK
<1>4. active # i
  BY <1>3 DEF IInv, OneTurn, Holding
<1> QED
  BY <1>1, <1>2, <1>3, <1>4 DEF IInv, DoomedOK, Ended

LEMMA StartingMoves ==
  ASSUME IInv, NEW i \in Requests, Starting(i)
  PROVE  Moves(i)
<1>1. /\ pc[i] = "spawned" /\ spawned # <<>> /\ spawned[1] = i /\ spawned' = Tail(spawned)
      /\ i \in doomed <=> closing
  BY StartingFacts
<1>2. CASE Alert(i)
  BY <1>1, <1>2 DEF Alert, Moves, Only, Begins, IInv, TypeOK, lockVars, history
<1>3. CASE AwaitLock(i)
  BY <1>1, <1>3 DEF AwaitLock, Moves, Only, Begins, IInv, TypeOK, history
<1>4. CASE CutUnstarted(i)
  BY <1>1, <1>4 DEF CutUnstarted, Moves, Only, Begins, IInv, TypeOK, lockVars, history
<1>5. CASE StartTurn(i)
  <2>1. PICK p \in Inside : /\ pc' = [pc EXCEPT ![i] = p]
                            /\ UNCHANGED <<waiters, kind, doomed, interrupted, closing>>
    BY <1>5, EnterPlace DEF StartTurn
  <2>2. pc'[i] \in Inside /\ Only(i)
    BY <2>1 DEF Only, IInv, TypeOK
  <2>3. active = NoTurn /\ \A j \in Requests : pc[j] \notin Holding
    BY <1>5, FreeLock DEF StartTurn, LockFree
  <2>4. ~closing /\ i \notin doomed /\ kind[i] # "alert"
    BY <1>1, <1>5 DEF StartTurn
  <2>5. waiters = <<>>
    <3>1. waiters \in Seq(Requests) /\ \A n \in DOMAIN waiters : waiters[n] \in doomed
      BY <1>5 DEF StartTurn, LockFree, Range, IInv, TypeOK
    <3>2. \A n \in DOMAIN waiters : pc[waiters[n]] = "waiting" /\ waiters[n] \in Requests
      BY <3>1 DEF IInv, WaitersOK
    <3>3. DOMAIN waiters = {}
      BY <2>3, <2>4, <3>1, <3>2, Numbers DEF IInv, DoomedOK, Ended
    <3> QED
      BY <3>1, <3>3
  <2> QED
    BY <1>1, <2>1, <2>2, <2>3, <2>4, <2>5 DEF Moves, Begins, Enters
<1> QED
  BY <1>2, <1>3, <1>4, <1>5 DEF Starting

LEMMA ResumingMoves ==
  ASSUME IInv, NEW i \in Requests, Resuming(i)
  PROVE  Moves(i)
<1>1. CASE TakeLock(i)
  <2>1. PICK n \in DOMAIN waiters :
          waiters[n] = i /\ Enter(i, RemoveAt(waiters, n), awake \ {i})
    BY <1>1 DEF TakeLock
  <2>2. pc[i] = "waiting" /\ i \in awake /\ i \notin doomed /\ UNCHANGED spawned
    BY <1>1 DEF TakeLock
  <2>3. PICK p \in Inside : /\ pc' = [pc EXCEPT ![i] = p]
                            /\ waiters' = RemoveAt(waiters, n)
                            /\ UNCHANGED <<kind, doomed, interrupted, closing>>
    BY <2>1, EnterPlace
  <2>4. pc'[i] \in Inside /\ Only(i)
    BY <2>3 DEF Only, IInv, TypeOK
  <2>5. ~locked /\ waiters # <<>> /\ waiters[1] = i
    BY <2>2 DEF IInv, HandOver
  <2>6. n = 1
    <3>1. 1 \in DOMAIN waiters
      BY <2>5 DEF IInv, TypeOK
    <3> QED
      BY <2>1, <2>5, <3>1 DEF IInv, WaitersOK
  <2>7. \A j \in Requests : pc[j] \notin Holding
    BY <2>5, FreeLock
  <2>8. ~closing
    BY <2>2 DEF IInv, DoomedOK, Ended
  <2> QED
    BY <2>1, <2>2, <2>3, <2>4, <2>6, <2>7, <2>8 DEF Moves, StopsWaiting, Enters
<1>2. CASE CutWaiting(i)
  <2>1. /\ pc[i] = "waiting" /\ i \in doomed /\ pc' = [pc EXCEPT ![i] = "cut"]
        /\ UNCHANGED <<kind, spawned, doomed, interrupted, closing>>
    BY <1>2 DEF CutWaiting, history
  <2>2. closing
    BY <2>1 DEF IInv, DoomedOK, OneTurn, Holding, Ended
  <2>3. pc'[i] = "cut" /\ Only(i)
    BY <2>1 DEF Only, IInv, TypeOK
  <2>4. \E n \in DOMAIN waiters : waiters[n] = i /\ waiters' = RemoveAt(waiters, n)
    BY <1>2 DEF CutWaiting
  <2> QED
    BY <2>1, <2>2, <2>3, <2>4 DEF Moves, StopsWaiting
<1>3. ASSUME pc[i] \in Holding, NEW p \in Inside \cup {"cut"}, pc' = [pc EXCEPT ![i] = p],
             p \in Inside => i \notin doomed, p = "cut" => i \in doomed,
             UNCHANGED <<kind, spawned, waiters, doomed, interrupted, closing>>
      PROVE  Moves(i)
  <2>1. pc'[i] = p /\ Only(i)
    BY <1>3 DEF Only, IInv, TypeOK
  <2>2. i \notin doomed => ~closing
    BY <1>3 DEF IInv, DoomedOK, Holding, Ended
  <2> QED
    BY <1>3, <2>1, <2>2 DEF Moves, GoesOn
<1>4. CASE Decomposed(i)
  <2>1. PICK p \in Inside : pc' = [pc EXCEPT ![i] = p] /\ UNCHANGED waiters
    BY <1>4 DEF Decomposed, Orchestrate, AnswerDirectly, StartCrew, Inside, Holding, Keep, Release
  <2>2. /\ pc[i] \in Holding /\ i \notin doomed
        /\ UNCHANGED <<kind, spawned, doomed, interrupted, closing>>
    BY <1>4 DEF Decomposed, Holding, history
  <2> QED
    BY <1>3, <2>1, <2>2 DEF Inside, Holding
<1>5. CASE Synthesize(i)
  <2>1. /\ pc[i] \in Holding /\ i \notin doomed /\ pc' = [pc EXCEPT ![i] = "done"]
        /\ UNCHANGED <<kind, spawned, waiters, doomed, interrupted, closing>>
    BY <1>5 DEF Synthesize, Holding, Release, history
  <2> QED
    BY <1>3, <2>1 DEF Inside, Holding
<1>6. CASE CutTurn(i)
  <2>1. /\ pc[i] \in Holding /\ i \in doomed /\ pc' = [pc EXCEPT ![i] = "cut"]
        /\ UNCHANGED <<kind, spawned, waiters, doomed, interrupted, closing>>
    BY <1>6 DEF CutTurn, Holding, Release, history
  <2> QED
    BY <1>3, <2>1 DEF Inside, Holding
<1> QED
  BY <1>1, <1>2, <1>4, <1>5, <1>6 DEF Resuming

\* Every step moves one request, or none.
LEMMA Steps ==
  ASSUME IInv, [Next]_vars
  PROVE  \/ \E i \in Requests : Moves(i)
         \/ BargeIn
         \/ Shutdown
         \/ UNCHANGED <<pc, kind, spawned, waiters, doomed, interrupted, closing>>
<1>1. ASSUME NEW i \in Requests, Dispatch(i)
      PROVE  Moves(i)
  BY <1>1 DEF Dispatch, Moves, Only, Arrives, IInv, TypeOK, lockVars, history
<1>2. ASSUME NEW k \in Agents, Working(k)
      PROVE  UNCHANGED <<pc, kind, spawned, waiters, doomed, interrupted, closing>>
  BY <1>2 DEF Working, CallTool, FinishAgent, CutAgent, lockVars, history
<1>3. CASE Answering
  BY <1>3 DEF Answering, ProviderAnswers, ToolAnswers, lockVars, history
<1>4. CASE UNCHANGED vars
  BY <1>4 DEF vars, lockVars, history
<1> QED
  BY <1>1, <1>2, <1>3, <1>4, StartingMoves, ResumingMoves DEF Next

(***************************************************************************)
(* The order of the requests.                                              *)
(***************************************************************************)

\* A request has a kind from its arrival on, and a sound waits for nothing.
KindsOK ==
  \A i \in Requests :
    /\ pc[i] = "idle" <=> kind[i] = "none"
    /\ pc[i] \in Holding \cup {"waiting"} => kind[i] # "alert"

\* Requests arrive, and start, in the order of their numbers.
InOrder ==
  \A i, j \in Requests : i < j =>
    /\ pc[j] # "idle" => pc[i] # "idle"
    /\ pc[j] \notin Unstarted => pc[i] \notin Unstarted

\* The new tasks, and the lock's waiters, stand in this order; no new task is missing.
SpawnedSorted ==
  /\ \A m, n \in DOMAIN spawned : m < n => spawned[m] < spawned[n]
  /\ \A i \in Requests : pc[i] = "spawned" => \E n \in DOMAIN spawned : spawned[n] = i

WaitersSorted == \A m, n \in DOMAIN waiters : m < n => waiters[m] < waiters[n]

Order == KindsOK /\ InOrder /\ SpawnedSorted /\ WaitersSorted /\ ServedInOrder

LEMMA OrderInit == Init => Order
BY DEF Init, Order, KindsOK, InOrder, SpawnedSorted, WaitersSorted, ServedInOrder,
       Unstarted, Holding

LEMMA KindsStep ==
  ASSUME IInv, Order, NEW i \in Requests, Moves(i)
  PROVE  KindsOK'
<1>1. "none" \notin Kinds
  BY TurnLoopAssumption DEF AllKinds
<1> QED
  BY <1>1 DEF Moves, Only, Arrives, Begins, StopsWaiting, GoesOn, Enters, Inside, Order,
       KindsOK, Holding

\* The request that starts is older than all that have not.
LEMMA OldestStarts ==
  ASSUME IInv, Order, NEW i \in Requests, pc[i] = "spawned", spawned # <<>>, spawned[1] = i,
         NEW j \in Requests, j < i
  PROVE  pc[j] \notin Unstarted
<1>1. pc[j] # "idle"
  BY DEF Order, InOrder
<1>2. ASSUME pc[j] = "spawned" PROVE FALSE
  <2>1. PICK n \in DOMAIN spawned : spawned[n] = j
    BY <1>2 DEF Order, SpawnedSorted
  <2>2. n \in Nat /\ 1 \in DOMAIN spawned /\ (n = 1 \/ 1 < n)
    BY DEF IInv, TypeOK
  <2>3. i < j \/ i = j
    BY <2>1, <2>2 DEF Order, SpawnedSorted
  <2> QED
    BY <2>3, Numbers
<1> QED
  BY <1>1, <1>2 DEF Unstarted

LEMMA InOrderStep ==
  ASSUME IInv, Order, NEW i \in Requests, Moves(i)
  PROVE  InOrder'
<1> SUFFICES ASSUME NEW a \in Requests, NEW b \in Requests, a < b
             PROVE  /\ pc'[b] # "idle" => pc'[a] # "idle"
                    /\ pc'[b] \notin Unstarted => pc'[a] \notin Unstarted
  BY DEF InOrder
<1>1. /\ pc[b] # "idle" => pc[a] # "idle"
      /\ pc[b] \notin Unstarted => pc[a] \notin Unstarted
  BY DEF Order, InOrder
<1>2. Only(i) /\ a # b /\ a \in Nat /\ b \in Nat
  BY Numbers DEF Moves
<1>3. CASE Arrives(i)
  <2>1. b = i => pc[a] # "idle"
    BY <1>2, <1>3 DEF Arrives, Requests
  <2> QED
    BY <1>1, <1>2, <1>3, <2>1 DEF Arrives, Only, Unstarted
<1>4. CASE Begins(i)
  <2>1. b = i => pc[a] \notin Unstarted
    BY <1>4, OldestStarts DEF Begins
  <2>2. pc[i] = "spawned" /\ pc'[i] \notin Unstarted
    BY <1>4 DEF Begins, Enters, Inside, Holding, Unstarted
  <2> QED
    BY <1>1, <1>2, <2>1, <2>2 DEF Only, Unstarted
<1>5. CASE StopsWaiting(i) \/ GoesOn(i)
  <2>1. pc[i] \notin Unstarted /\ pc'[i] \notin Unstarted
    BY <1>5 DEF StopsWaiting, GoesOn, Enters, Inside, Holding, Unstarted
  <2> QED
    BY <1>1, <1>2, <2>1 DEF Only, Unstarted
<1> QED
  BY <1>3, <1>4, <1>5 DEF Moves

LEMMA SpawnedStep ==
  ASSUME IInv, Order, NEW i \in Requests, Moves(i)
  PROVE  SpawnedSorted'
<1>1. /\ spawned \in Seq(Requests) /\ Len(spawned) \in Nat
      /\ DOMAIN spawned = 1..Len(spawned)
      /\ \A n \in DOMAIN spawned : spawned[n] \in Requests /\ pc[spawned[n]] = "spawned"
  BY DEF IInv, TypeOK, SpawnedOK
<1>2. Only(i)
  BY DEF Moves
<1>3. CASE Arrives(i)
  <2>1. /\ DOMAIN spawned' = 1..(Len(spawned) + 1)
        /\ \A n \in 1..Len(spawned) : spawned'[n] = spawned[n]
        /\ spawned'[Len(spawned) + 1] = i
    BY <1>1, <1>3 DEF Arrives
  <2>2. \A n \in DOMAIN spawned : spawned[n] < i
    <3> SUFFICES ASSUME NEW n \in DOMAIN spawned, ~(spawned[n] < i) PROVE FALSE
      OBVIOUS
    <3>0. spawned[n] # i /\ spawned[n] \in Nat /\ i \in Nat
      BY <1>1, <1>3, Numbers DEF Arrives
    <3>1. i < spawned[n]
      BY <3>0
    <3> QED
      BY <1>1, <1>3, <3>1 DEF Arrives, Order, InOrder
  <2>3. \A m, n \in DOMAIN spawned' : m < n => spawned'[m] < spawned'[n]
    BY <1>1, <2>1, <2>2 DEF Order, SpawnedSorted
  <2>4. ASSUME NEW j \in Requests, pc'[j] = "spawned"
        PROVE  \E n \in DOMAIN spawned' : spawned'[n] = j
    <3>1. CASE j = i
      BY <1>1, <2>1, <3>1
    <3>2. CASE j # i
      <4>1. PICK n \in DOMAIN spawned : spawned[n] = j
        BY <1>2, <2>4, <3>2 DEF Only, Order, SpawnedSorted
      <4> QED
        BY <1>1, <2>1, <4>1
    <3> QED
      BY <3>1, <3>2
  <2> QED
    BY <2>3, <2>4 DEF SpawnedSorted
<1>4. CASE Begins(i)
  <2>1. /\ Len(spawned) \in Nat \ {0}
        /\ DOMAIN spawned' = 1..(Len(spawned) - 1)
        /\ \A n \in 1..(Len(spawned) - 1) : spawned'[n] = spawned[n + 1]
    BY <1>1, <1>4 DEF Begins
  <2>2. ASSUME NEW m \in DOMAIN spawned', NEW n \in DOMAIN spawned', m < n
        PROVE  spawned'[m] < spawned'[n]
    <3>1. m + 1 \in DOMAIN spawned /\ n + 1 \in DOMAIN spawned /\ m + 1 < n + 1
      BY <1>1, <2>1, <2>2
    <3>2. spawned[m + 1] < spawned[n + 1]
      BY <3>1 DEF Order, SpawnedSorted
    <3> QED
      BY <2>1, <3>2
  <2>3. ASSUME NEW j \in Requests, pc'[j] = "spawned"
        PROVE  \E n \in DOMAIN spawned' : spawned'[n] = j
    <3>1. pc'[i] # "spawned"
      BY <1>4 DEF Begins, Enters, Inside, Holding
    <3>2. PICK n \in DOMAIN spawned : spawned[n] = j
      BY <1>2, <2>3, <3>1 DEF Only, Order, SpawnedSorted
    <3>3. n # 1
      BY <1>4, <2>3, <3>1, <3>2 DEF Begins
    <3>4. n - 1 \in DOMAIN spawned' /\ (n - 1) + 1 = n
      BY <1>1, <2>1, <3>3
    <3> QED
      BY <2>1, <3>2, <3>4
  <2> QED
    BY <2>2, <2>3 DEF SpawnedSorted
<1>5. CASE StopsWaiting(i) \/ GoesOn(i)
  <2>1. UNCHANGED spawned /\ pc'[i] # "spawned"
    BY <1>5 DEF StopsWaiting, GoesOn, Enters, Inside, Holding
  <2> QED
    BY <1>2, <2>1 DEF Only, Order, SpawnedSorted
<1> QED
  BY <1>3, <1>4, <1>5 DEF Moves

LEMMA WaitersStep ==
  ASSUME IInv, Order, NEW i \in Requests, Moves(i)
  PROVE  WaitersSorted'
<1>1. /\ waiters \in Seq(Requests) /\ Len(waiters) \in Nat
      /\ DOMAIN waiters = 1..Len(waiters)
      /\ \A n \in DOMAIN waiters : waiters[n] \in Requests /\ pc[waiters[n]] = "waiting"
  BY DEF IInv, TypeOK, WaitersOK
<1>2. CASE UNCHANGED waiters
  BY <1>2 DEF Order, WaitersSorted
<1>3. CASE pc[i] = "spawned" /\ waiters' = Append(waiters, i)
  <2>1. \A n \in DOMAIN waiters : waiters[n] < i
    <3> SUFFICES ASSUME NEW n \in DOMAIN waiters, ~(waiters[n] < i) PROVE FALSE
      OBVIOUS
    <3>0. waiters[n] # i /\ waiters[n] \in Nat /\ i \in Nat
      BY <1>1, <1>3, Numbers
    <3>1. i < waiters[n]
      BY <3>0
    <3> QED
      BY <1>1, <1>3, <3>1 DEF Order, InOrder, Unstarted
  <2>2. /\ DOMAIN waiters' = 1..(Len(waiters) + 1)
        /\ \A n \in 1..Len(waiters) : waiters'[n] = waiters[n]
        /\ waiters'[Len(waiters) + 1] = i
    BY <1>1, <1>3
  <2> QED
    BY <1>1, <2>1, <2>2 DEF Order, WaitersSorted
<1>4. ASSUME NEW n \in DOMAIN waiters, waiters' = RemoveAt(waiters, n)
      PROVE  WaitersSorted'
  <2>1. /\ DOMAIN waiters' = 1..(Len(waiters) - 1)
        /\ \A m \in 1..(Len(waiters) - 1) :
             waiters'[m] = IF m < n THEN waiters[m] ELSE waiters[m + 1]
    BY <1>1, <1>4, RemoveAtLemma
  <2>2. \A l, m \in DOMAIN waiters : l < m => waiters[l] < waiters[m]
    BY DEF Order, WaitersSorted
  <2> SUFFICES ASSUME NEW l \in DOMAIN waiters', NEW m \in DOMAIN waiters', l < m
               PROVE  waiters'[l] < waiters'[m]
    BY DEF WaitersSorted
  <2> DEFINE at(k) == IF k < n THEN k ELSE k + 1
  <2>3. at(l) \in DOMAIN waiters /\ at(m) \in DOMAIN waiters /\ at(l) < at(m)
    BY <1>1, <2>1
  <2>4. waiters'[l] = waiters[at(l)] /\ waiters'[m] = waiters[at(m)]
    BY <1>1, <2>1
  <2> HIDE DEF at
  <2> QED
    BY <2>2, <2>3, <2>4
<1> QED
  BY <1>2, <1>3, <1>4 DEF Moves, Arrives, Begins, StopsWaiting, GoesOn

\* The request that enters the lock is the oldest of those that have started.
LEMMA OldestEnters ==
  ASSUME IInv, Order, NEW i \in Requests, Moves(i),
         pc[i] \in {"spawned", "waiting"}, pc'[i] \in Inside, kind[i] # "alert",
         NEW j \in Requests, j < i
  PROVE  pc[j] \in Ended
<1>1. CASE Begins(i)
  <2>1. pc[j] \notin Unstarted
    BY <1>1, OldestStarts DEF Begins
  <2>2. Enters(i) /\ waiters = <<>>
    BY <1>1 DEF Begins, Inside, Holding
  <2>3. pc[j] # "waiting"
    BY <2>2 DEF IInv, WaitersOK
  <2> QED
    BY <2>1, <2>2, <2>3 DEF Enters, Unstarted, IInv, TypeOK, Places, Ended, Holding
<1>2. CASE StopsWaiting(i)
  <2>1. Enters(i) /\ 1 \in DOMAIN waiters /\ waiters[1] = i
    BY <1>2 DEF StopsWaiting, Inside, Holding
  <2>2. pc[j] \notin Unstarted
    BY <1>2 DEF StopsWaiting, Order, InOrder, Unstarted
  <2>3. ASSUME pc[j] = "waiting" PROVE FALSE
    <3>1. PICK n \in DOMAIN waiters : waiters[n] = j
      BY <2>3 DEF IInv, WaitersOK
    <3>2. n \in Nat /\ (n = 1 \/ 1 < n)
      BY DEF IInv, TypeOK
    <3>3. i < j \/ i = j
      BY <2>1, <3>1, <3>2 DEF Order, WaitersSorted
    <3> QED
      BY <3>3, Numbers
  <2> QED
    BY <2>1, <2>2, <2>3 DEF Enters, Unstarted, IInv, TypeOK, Places, Ended, Holding
<1> QED
  BY <1>1, <1>2 DEF Moves, Arrives, GoesOn, Holding

LEMMA ServedStep ==
  ASSUME IInv, Order, NEW i \in Requests, Moves(i)
  PROVE  ServedInOrder'
<1> SUFFICES ASSUME NEW a \in Requests, NEW b \in Requests, a < b,
                    kind'[a] # "alert", kind'[b] # "alert", pc'[b] \in Inside
             PROVE  pc'[a] \in Holding \cup Ended
  BY DEF ServedInOrder, Inside
<1>1. Only(i) /\ a # b
  BY Numbers DEF Moves
<1>2. ASSUME pc[a] \in Holding \cup Ended
      PROVE  pc'[a] \in Holding \cup Ended
  BY <1>1, <1>2
  DEF Only, Moves, Arrives, Begins, StopsWaiting, GoesOn, Enters, Inside, Holding, Ended
<1>3. CASE pc[b] \in Inside
  <2>1. pc[a] # "idle" /\ pc[b] # "idle"
    BY <1>3 DEF Order, InOrder, Inside, Holding
  <2>2. kind'[a] = kind[a] /\ kind'[b] = kind[b]
    BY <2>1 DEF Moves, Arrives, Begins, StopsWaiting, GoesOn
  <2> QED
    BY <1>2, <1>3, <2>2 DEF Order, ServedInOrder, Inside
<1>4. CASE pc[b] \notin Inside
  <2>1. b = i
    BY <1>1, <1>4 DEF Only
  <2>2. pc[i] \in {"spawned", "waiting"} /\ UNCHANGED kind
    BY <1>4, <2>1 DEF Moves, Arrives, Begins, StopsWaiting, GoesOn, Inside, Holding
  <2> QED
    BY <1>2, <2>1, <2>2, OldestEnters
<1> QED
  BY <1>3, <1>4

LEMMA OrderNext == IInv /\ Order /\ [Next]_vars => Order'
<1> SUFFICES ASSUME IInv, Order, [Next]_vars PROVE Order'
  OBVIOUS
<1>1. ASSUME NEW i \in Requests, Moves(i)
      PROVE  Order'
  BY <1>1, KindsStep, InOrderStep, SpawnedStep, WaitersStep, ServedStep DEF Order
<1>2. CASE UNCHANGED <<pc, kind, spawned, waiters>>
  BY <1>2 DEF Order, KindsOK, InOrder, SpawnedSorted, WaitersSorted, ServedInOrder
<1> QED
  BY <1>1, <1>2, Steps DEF BargeIn, Shutdown, lockVars

LEMMA Ordered == Safety => [](IInv /\ Order)
<1>1. Init => IInv /\ Order
  BY InitIInv, OrderInit
<1>2. IInv /\ Order /\ [Next]_vars => (IInv /\ Order)'
  BY NextIInv, OrderNext
<1> QED
  BY <1>1, <1>2, PTL DEF Safety

\* No request is answered, or at work, while an older one still waits for its turn,
\* whatever is cancelled while the lock changes hands.
THEOREM FirstComeFirstServed == Safety => []ServedInOrder
<1>1. Order => ServedInOrder
  BY DEF Order
<1> QED
  BY <1>1, Ordered, PTL

(***************************************************************************)
(* What is cut.                                                            *)
(***************************************************************************)

\* While the connection is up the cancelled requests are those that were interrupted.
CutOK ==
  /\ ~closing => doomed \subseteq interrupted
  /\ interrupted \subseteq doomed
  /\ OnlyTheTurnIsCut

LEMMA CutNext == IInv /\ CutOK /\ [Next]_vars => CutOK'
<1> SUFFICES ASSUME IInv, CutOK, [Next]_vars PROVE CutOK'
  OBVIOUS
<1>1. ASSUME NEW i \in Requests, Moves(i)
      PROVE  CutOK'
  <2>1. UNCHANGED <<doomed, interrupted, closing>> /\ Only(i)
    BY <1>1 DEF Moves
  <2>2. pc'[i] = "cut" => closing \/ i \in doomed
    BY <1>1 DEF Moves, Arrives, Begins, StopsWaiting, GoesOn, Enters, Inside, Holding
  <2> QED
    BY <2>1, <2>2 DEF Only, CutOK, OnlyTheTurnIsCut
<1>2. CASE BargeIn
  BY <1>2 DEF BargeIn, CutOK, OnlyTheTurnIsCut
<1>3. CASE Shutdown
  BY <1>3 DEF Shutdown, CutOK, OnlyTheTurnIsCut, history
<1>4. CASE UNCHANGED <<pc, doomed, interrupted, closing>>
  BY <1>4 DEF CutOK, OnlyTheTurnIsCut
<1> QED
  BY <1>1, <1>2, <1>3, <1>4, Steps

LEMMA Cuts == Safety => []CutOK
<1>1. Init => CutOK
  BY DEF Init, CutOK, OnlyTheTurnIsCut
<1>2. Init => IInv
  BY InitIInv
<1>3. IInv /\ [Next]_vars => IInv'
  BY NextIInv
<1> QED
  BY <1>1, <1>2, <1>3, CutNext, PTL DEF Safety

\* A barge-in cancels the turn it finds and nothing else: a request is cut only if an
\* interruption found it at work, or the connection is gone.
THEOREM OnlyThatTurn == Safety => []OnlyTheTurnIsCut
<1>1. CutOK => OnlyTheTurnIsCut
  BY DEF CutOK
<1> QED
  BY <1>1, Cuts, PTL

(***************************************************************************)
(* TurnLoop implements TurnAbs.                                            *)
(***************************************************************************)

RInv == IInv /\ Order /\ CutOK

\* The phases of the requests that a step does not move stay.
LEMMA OtherPhases ==
  ASSUME RInv, NEW i \in Requests, Moves(i), NEW j \in Requests \ {i}
  PROVE  Phase(j)' = Phase(j)
<1>1. pc'[j] = pc[j] /\ kind'[j] = kind[j]
  BY DEF Moves, Only, Arrives, Begins, StopsWaiting, GoesOn
<1> QED
  BY <1>1 DEF Phase

\* What the place of a request says of its phase.
PhaseTable(i) ==
  /\ pc[i] = "idle" => Phase(i) = "absent"
  /\ kind[i] = "alert" => Phase(i) = "absent"
  /\ pc[i] = "waiting" => Phase(i) = "queued"
  /\ pc[i] \in Holding => Phase(i) = "served"
  /\ pc[i] = "spawned" /\ kind[i] # "alert" => Phase(i) = "queued"
  /\ pc[i] = "done" /\ kind[i] # "alert" => Phase(i) = "answered"
  /\ pc[i] = "cut" /\ kind[i] # "alert" => Phase(i) = "dropped"

LEMMA PhaseFacts ==
  ASSUME RInv, NEW i \in Requests
  PROVE  PhaseTable(i)
<1>1. /\ pc[i] = "idle" <=> kind[i] = "none"
      /\ pc[i] \in Holding \cup {"waiting"} => kind[i] # "alert"
  BY DEF RInv, Order, KindsOK
<1>2. CASE kind[i] \in {"none", "alert"}
  BY <1>1, <1>2 DEF Phase, PhaseTable, Holding
<1>3. CASE kind[i] \notin {"none", "alert"}
  <2>1. pc[i] \in {"spawned", "waiting"} => Phase(i) = "queued"
    BY <1>3 DEF Phase, Holding
  <2>2. pc[i] \in Holding => Phase(i) = "served"
    BY <1>3 DEF Phase, Holding
  <2>3. pc[i] = "done" => Phase(i) = "answered"
    BY <1>3 DEF Phase, Holding
  <2>4. pc[i] = "cut" => Phase(i) = "dropped"
    BY <1>3 DEF Phase, Holding
  <2> QED
    BY <1>1, <1>3, <2>1, <2>2, <2>3, <2>4 DEF PhaseTable
<1> QED
  BY <1>2, <1>3

LEMMA NextPhaseFacts ==
  ASSUME RInv', NEW i \in Requests
  PROVE  PhaseTable(i)'
<1>1. /\ pc'[i] = "idle" <=> kind'[i] = "none"
      /\ pc'[i] \in Holding \cup {"waiting"} => kind'[i] # "alert"
  BY DEF RInv, Order, KindsOK
<1>2. CASE kind'[i] \in {"none", "alert"}
  BY <1>1, <1>2 DEF Phase, PhaseTable, Holding
<1>3. CASE kind'[i] \notin {"none", "alert"}
  <2>1. pc'[i] \in {"spawned", "waiting"} => Phase(i)' = "queued"
    BY <1>3 DEF Phase, Holding
  <2>2. pc'[i] \in Holding => Phase(i)' = "served"
    BY <1>3 DEF Phase, Holding
  <2>3. pc'[i] = "done" => Phase(i)' = "answered"
    BY <1>3 DEF Phase, Holding
  <2>4. pc'[i] = "cut" => Phase(i)' = "dropped"
    BY <1>3 DEF Phase, Holding
  <2> QED
    BY <1>1, <1>3, <2>1, <2>2, <2>3, <2>4 DEF PhaseTable
<1> QED
  BY <1>2, <1>3

LEMMA PhasesServedQueued ==
  ASSUME RInv, NEW i \in Requests
  PROVE  /\ Phase(i) = "served" => pc[i] \in Holding
         /\ Phase(i) = "queued" => pc[i] \in {"spawned", "waiting"}
<1>1. CASE kind[i] \in {"none", "alert"}
  BY <1>1 DEF Phase
<1>2. CASE kind[i] \notin {"none", "alert"}
  BY <1>2 DEF Phase, Holding
<1> QED
  BY <1>1, <1>2

\* The step that moves request i, as TurnAbs sees it.
LEMMA MoveImplements ==
  ASSUME RInv, RInv', NEW i \in Requests, Moves(i)
  PROVE  [Abs!Next]_(Abs!vars)
<1> DEFINE phase == [j \in Requests |-> Phase(j)]
<1>1. ASSUME NEW p, Phase(i)' = p
      PROVE  phase' = [phase EXCEPT ![i] = p]
  BY <1>1, OtherPhases
<1>2. UNCHANGED <<interrupted, closing>>
  BY DEF Moves
<1>3. ASSUME Phase(i)' = Phase(i)
      PROVE  UNCHANGED Abs!vars
  <2>1. phase' = phase
    BY <1>3, OtherPhases
  <2> QED
    BY <1>2, <2>1 DEF Abs!vars
<1>4. CASE Arrives(i)
  <2>1. CASE kind'[i] = "alert"
    BY <1>3, <1>4, <2>1, PhaseFacts, NextPhaseFacts DEF Arrives, PhaseTable
  <2>2. CASE kind'[i] # "alert"
    <3>1. Phase(i) = "absent" /\ Phase(i)' = "queued"
      BY <1>4, <2>2, PhaseFacts, NextPhaseFacts DEF Arrives, PhaseTable
    <3>2. ASSUME NEW j \in Requests, j > i
          PROVE  Phase(j) = "absent"
      <4>1. pc[j] = "idle"
        BY <1>4, <3>2, Numbers DEF Arrives, RInv, Order, InOrder
      <4> QED
        BY <4>1, PhaseFacts DEF PhaseTable
    <3>3. Abs!Arrive(i)
      BY <1>1, <1>2, <1>4, <3>1, <3>2 DEF Arrives, Abs!Arrive, Abs!Becomes
    <3> QED
      BY <3>3 DEF Abs!Next
  <2> QED
    BY <2>1, <2>2
<1>5. ASSUME Phase(i) = "queued", pc[i] \in {"spawned", "waiting"}, Enters(i),
             kind[i] # "alert", UNCHANGED kind
      PROVE  [Abs!Next]_(Abs!vars)
  <2>1. ASSUME NEW j \in Requests
        PROVE  Phase(j) # "served" /\ (j < i => Phase(j) # "queued")
    <3>1. Phase(j) # "served"
      BY <1>5, PhasesServedQueued DEF Enters
    <3>2. j < i => pc[j] \in Ended
      BY <1>5, OldestEnters DEF Enters, RInv
    <3> QED
      BY <3>1, <3>2, PhasesServedQueued DEF Ended
  <2>2. Abs!Due(i)
    BY <1>5, <2>1 DEF Enters, Abs!Due
  <2>3. CASE pc'[i] = "done"
    <3>1. Phase(i)' = "answered"
      BY <1>5, <2>3, NextPhaseFacts DEF PhaseTable
    <3>2. Abs!Answer(i)
      BY <1>1, <1>2, <2>2, <3>1 DEF Abs!Answer, Abs!Becomes
    <3> QED
      BY <3>2 DEF Abs!Next
  <2>4. CASE pc'[i] \in Holding
    <3>1. Phase(i)' = "served"
      BY <2>4, NextPhaseFacts DEF PhaseTable
    <3>2. Abs!Serve(i)
      BY <1>1, <1>2, <2>2, <3>1 DEF Abs!Serve, Abs!Becomes
    <3> QED
      BY <3>2 DEF Abs!Next
  <2> QED
    BY <1>5, <2>3, <2>4 DEF Enters, Inside
<1>6. ASSUME Phase(i) \in {"queued", "served"}, pc'[i] = "cut", kind[i] # "alert",
             UNCHANGED kind,
             closing \/ (Phase(i) = "served" /\ i \in interrupted)
      PROVE  [Abs!Next]_(Abs!vars)
  <2>1. Phase(i)' = "dropped"
    BY <1>6, NextPhaseFacts DEF PhaseTable
  <2>2. Abs!Drop(i)
    BY <1>1, <1>2, <1>6, <2>1 DEF Abs!Drop, Abs!Becomes
  <2> QED
    BY <2>2 DEF Abs!Next
<1>7. CASE Begins(i)
  <2>1. CASE kind[i] = "alert"
    BY <1>3, <1>7, <2>1, PhaseFacts, NextPhaseFacts DEF Begins, PhaseTable
  <2>2. CASE kind[i] # "alert"
    <3>1. Phase(i) = "queued"
      BY <1>7, <2>2, PhaseFacts DEF Begins, PhaseTable
    <3>2. CASE pc'[i] = "waiting"
      BY <1>3, <3>1, <3>2, NextPhaseFacts DEF PhaseTable
    <3>3. CASE pc'[i] = "cut" /\ closing
      BY <1>6, <1>7, <2>2, <3>1, <3>3 DEF Begins
    <3>4. CASE Enters(i)
      BY <1>5, <1>7, <2>2, <3>1, <3>4 DEF Begins
    <3> QED
      BY <1>7, <2>2, <3>2, <3>3, <3>4 DEF Begins
  <2> QED
    BY <2>1, <2>2
<1>8. CASE StopsWaiting(i)
  <2>1. Phase(i) = "queued" /\ kind[i] # "alert" /\ UNCHANGED kind
    BY <1>8, PhaseFacts DEF StopsWaiting, RInv, Order, KindsOK, PhaseTable
  <2>2. CASE pc'[i] = "cut" /\ closing
    BY <1>6, <2>1, <2>2
  <2>3. CASE Enters(i)
    BY <1>5, <1>8, <2>1, <2>3 DEF StopsWaiting
  <2> QED
    BY <1>8, <2>2, <2>3 DEF StopsWaiting
<1>9. CASE GoesOn(i)
  <2>1. Phase(i) = "served" /\ kind[i] # "alert" /\ UNCHANGED kind
    BY <1>9, PhaseFacts DEF GoesOn, RInv, Order, KindsOK, PhaseTable
  <2>2. CASE pc'[i] = "cut" /\ i \in doomed
    <3>1. closing \/ i \in interrupted
      BY <2>2 DEF RInv, CutOK
    <3> QED
      BY <1>6, <2>1, <2>2, <3>1
  <2>3. CASE pc'[i] \in Holding
    BY <1>3, <2>1, <2>3, NextPhaseFacts DEF PhaseTable
  <2>4. CASE pc'[i] = "done" /\ i \notin doomed /\ ~closing
    <3>1. Phase(i)' = "answered"
      BY <2>1, <2>4, NextPhaseFacts DEF PhaseTable
    <3>2. i \notin interrupted
      BY <2>4 DEF RInv, CutOK
    <3>3. Abs!Answer(i)
      BY <1>1, <1>2, <2>1, <2>4, <3>1, <3>2 DEF Abs!Answer, Abs!Becomes
    <3> QED
      BY <3>3 DEF Abs!Next
  <2> QED
    BY <1>9, <2>2, <2>3, <2>4 DEF GoesOn, Inside
<1> QED
  BY <1>4, <1>7, <1>8, <1>9 DEF Moves

LEMMA StepImplements ==
  ASSUME RInv, RInv', [Next]_vars
  PROVE  [Abs!Next]_(Abs!vars)
<1> DEFINE phase == [j \in Requests |-> Phase(j)]
<1>1. CASE \E i \in Requests : Moves(i)
  BY <1>1, MoveImplements
<1>2. CASE BargeIn
  <2>1. /\ ~closing /\ active # NoTurn
        /\ interrupted' = interrupted \cup {active}
        /\ UNCHANGED <<pc, kind, closing>>
    BY <1>2 DEF BargeIn
  <2>2. active \in Requests /\ Phase(active) = "served"
    BY <2>1, PhaseFacts DEF RInv, IInv, OneTurn, TypeOK, PhaseTable
  <2>3. phase' = phase
    BY <2>1 DEF Phase
  <2>4. Abs!Interrupt(active)
    BY <2>1, <2>2, <2>3 DEF Abs!Interrupt
  <2> QED
    BY <2>2, <2>4 DEF Abs!Next
<1>3. CASE Shutdown
  <2>1. ~closing /\ closing' = TRUE /\ UNCHANGED <<pc, kind, interrupted>>
    BY <1>3 DEF Shutdown, history
  <2>2. phase' = phase
    BY <2>1 DEF Phase
  <2>3. Abs!Disconnect
    BY <2>1, <2>2 DEF Abs!Disconnect
  <2> QED
    BY <2>3 DEF Abs!Next
<1>4. CASE UNCHANGED <<pc, kind, interrupted, closing>>
  <2>1. phase' = phase
    BY <1>4 DEF Phase
  <2> QED
    BY <1>4, <2>1 DEF Abs!vars
<1> QED
  BY <1>1, <1>2, <1>3, <1>4, Steps DEF RInv

\* Every behaviour of a connection is one that TurnAbs allows: the requests are served
\* one at a time and in order, an interruption silences the one at work and no other.
THEOREM Implements == Safety => ImplementsTurnAbs
<1>1. Init => Abs!Init
  <2> SUFFICES ASSUME Init PROVE Abs!Init
    OBVIOUS
  <2>1. ASSUME NEW i \in Requests PROVE Phase(i) = "absent"
    <3>1. kind[i] \in {"none", "alert"}
      BY DEF Init
    <3> QED
      BY <3>1 DEF Phase
  <2>2. interrupted = {} /\ closing = FALSE
    BY DEF Init
  <2> QED
    BY <2>1, <2>2 DEF Abs!Init
<1>2. Safety => []RInv
  BY Ordered, Cuts, PTL DEF RInv
<1>3. RInv /\ RInv' /\ [Next]_vars => [Abs!Next]_(Abs!vars)
  BY StepImplements
<1> QED
  BY <1>1, <1>2, <1>3, PTL DEF Safety, ImplementsTurnAbs, Abs!Spec

(***************************************************************************)
(* The inductive invariant, beside IInv.                                   *)
(***************************************************************************)

Early == {"idle", "spawned", "waiting", "decompose"}

\* No agent is announced before there is a plan.
Unannounced == \A i \in Requests : pc[i] \in Early =>
                 \A k \in 1..Stage : Note(k, "queued") \notin sent[i]

\* A request that was reported done is over, or interrupted.
Reported == \A i \in Requests : Said(i, "thinking_done") =>
              pc[i] \in Ended \/ (pc[i] \in Holding /\ i \in doomed)

\* The cancel flag is that of an interrupted turn.
Fresh == active # NoTurn /\ active \notin doomed => ~cancelled

\* Specialists are at work only in the gather of the turn.
Gathering == active # NoTurn /\ pc[active] = "gather"
Busy == \A k \in Agents : crew[k] \in AtWork => Gathering

\* A turn that has switched the camera on is in its gather, and the user has not.
Sight == /\ startedVision => Gathering /\ ~watching
         /\ WatchKeepsCamera

\* What an announced agent has come to, while the turn waits for it.
CrewReports(i) ==
  /\ \A k \in Agents :
       /\ Note(k, "queued") \in sent[i] => crew[k] # "none"
       /\ crew[k] = "done" => Note(k, "done") \in sent[i]
       /\ crew[k] = "failed" => Note(k, "failed") \in sent[i]
       /\ crew[k] = "gone" => i \in doomed
  /\ Note(Stage, "queued") \in sent[i] => Cardinality(Crew) >= 2

Reporting == \A i \in Requests : pc[i] = "gather" => CrewReports(i)
AllEnded  == \A i \in Requests : pc[i] = "done" => AllReported(i)

TInv == Unannounced /\ Reported /\ Fresh /\ Answered /\ Busy /\ Sight /\ Reporting /\ AllEnded

(***************************************************************************)
(* Lemmas.                                                                 *)
(***************************************************************************)

LEMMA SameNote ==
  ASSUME NEW a, NEW b, NEW c, NEW d, Note(a, b) = Note(c, d)
  PROVE  a = c /\ b = d
<1>1. Note(a, b).who = a /\ Note(a, b).what = b /\ Note(c, d).who = c /\ Note(c, d).what = d
  BY DEF Note
<1> QED
  BY <1>1

LEMMA Announced == 1..Stage = Agents \cup {Stage} /\ Stage \notin Agents /\ Jarvis \notin 1..Stage
BY TurnLoopAssumption DEF Stage, Agents, Jarvis

LEMMA TInit == Init => TInv
<1> SUFFICES ASSUME Init PROVE TInv
  OBVIOUS
<1>1. \A i \in Requests : pc[i] = "idle" /\ sent[i] = {}
  BY DEF Init
<1> QED
  BY <1>1 DEF Init, TInv, Unannounced, Reported, Said, Fresh, Answered, Busy, AtWork,
     Sight, WatchKeepsCamera, Reporting, AllEnded

\* A step that leaves alone what the turn says and does, and moves at most one request
\* outside its turn.
LEMMA Aside ==
  ASSUME IInv, TInv, doomed \subseteq doomed',
         UNCHANGED <<crew, startedVision, watching, camera, cancelled, active>>,
         NEW i \in Requests, NEW p, pc' = [pc EXCEPT ![i] = p], pc[i] \notin Holding \cup Ended,
         p \notin Holding,
         \A j \in Requests \ {i} : sent'[j] = sent[j] /\ kind'[j] = kind[j],
         p \in Early => sent'[i] = sent[i],
         p = "done" => /\ kind'[i] # "text"
                       /\ \A k \in 1..Stage : Note(k, "queued") \notin sent'[i],
         p \in Early \cup Ended
  PROVE  TInv'
<1>1. pc'[i] = p /\ \A j \in Requests \ {i} : pc'[j] = pc[j]
  BY DEF IInv, TypeOK
<1>2. active # i
  BY DEF IInv, OneTurn
<1>3. active # NoTurn => active \in Requests /\ pc'[active] = pc[active]
  BY <1>1, <1>2 DEF IInv, TypeOK
<1>10. pc[i] \in Early
  BY DEF IInv, TypeOK, Places, Early, Holding, Ended
<1>4. Unannounced'
  <2>1. \A j \in Requests : pc'[j] \in Early => pc[j] \in Early /\ sent'[j] = sent[j]
    BY <1>1, <1>10
  <2> QED
    BY <2>1 DEF TInv, Unannounced
<1>5. Reported'
  BY <1>1 DEF TInv, Reported, Said, Early, Holding, Ended
<1>6. Fresh' /\ Busy' /\ Sight'
  BY <1>3 DEF TInv, Fresh, Busy, Sight, Gathering, WatchKeepsCamera
<1>7. Answered'
  BY <1>1 DEF TInv, Answered, Said, Early, Ended
<1>8. Reporting'
  BY <1>1 DEF TInv, Reporting, CrewReports, Crew, Holding
<1>9. AllEnded'
  BY <1>1 DEF TInv, AllEnded, AllReported, Early, Ended
<1> QED
  BY <1>4, <1>5, <1>6, <1>7, <1>8, <1>9 DEF TInv

(***************************************************************************)
(* A turn, from the acquisition of the lock on.                            *)
(***************************************************************************)

\* The request that has the lock, or has just been given it, and nothing to undo.
Ready(i) ==
  /\ pc[i] \in {"spawned", "waiting", "decompose"}
  /\ i \notin doomed
  /\ \A j \in Requests \ {i} : pc[j] \notin Holding

LEMMA ReadyFacts ==
  ASSUME IInv, TInv, NEW i \in Requests, Ready(i)
  PROVE  /\ \A k \in Agents : crew[k] \notin AtWork
         /\ ~startedVision
         /\ ~Said(i, "thinking_done")
         /\ \A k \in 1..Stage : Note(k, "queued") \notin sent[i]
         /\ \A j \in Requests : pc[j] # "gather"
         /\ \A j \in Requests \ {i} : active # j
<1>1. \A j \in Requests : pc[j] # "gather"
  BY DEF Ready, Holding
<1>2. ~Gathering
  BY <1>1 DEF Gathering, IInv, TypeOK
<1>3. \A k \in 1..Stage : Note(k, "queued") \notin sent[i]
  BY DEF Ready, TInv, Unannounced, Early
<1>4. ~Said(i, "thinking_done")
  BY DEF Ready, TInv, Reported, Ended
<1>5. \A j \in Requests \ {i} : active # j
  BY DEF Ready, IInv, OneTurn
<1> QED
  BY <1>1, <1>2, <1>3, <1>4, <1>5 DEF TInv, Busy, Sight

\* The lock is released at once: the turn of a request whose notes announce nobody.
LEMMA EndsAtOnce ==
  ASSUME IInv, TInv, NEW i \in Requests, Ready(i), UNCHANGED <<kind, doomed, crew, startedVision>>,
         pc' = [pc EXCEPT ![i] = "done"], active' = NoTurn,
         NEW new, sent' = [sent EXCEPT ![i] = @ \cup new],
         \A k \in 1..Stage : Note(k, "queued") \notin new,
         kind[i] = "text" => Note(Jarvis, "speech") \in new,
         watching' => camera'
  PROVE  TInv'
<1>1. /\ \A k \in Agents : crew[k] \notin AtWork
      /\ ~startedVision
      /\ \A k \in 1..Stage : Note(k, "queued") \notin sent[i]
      /\ \A j \in Requests : pc[j] # "gather"
  BY ReadyFacts
<1>2. pc'[i] = "done" /\ \A j \in Requests \ {i} : pc'[j] = pc[j] /\ sent'[j] = sent[j]
  BY DEF IInv, TypeOK
<1>3. sent'[i] = sent[i] \cup new
  BY DEF IInv, TypeOK
<1>4. Unannounced' /\ AllEnded'
  BY <1>1, <1>2, <1>3 DEF TInv, Unannounced, AllEnded, AllReported, Early
<1>5. Reported'
  BY <1>2 DEF TInv, Reported, Said, Ended
<1>6. Answered'
  BY <1>2, <1>3 DEF TInv, Answered, Said
<1>7. Fresh' /\ Busy' /\ Sight'
  BY <1>1 DEF Fresh, Busy, Sight, WatchKeepsCamera, AtWork
<1>8. Reporting'
  BY <1>1, <1>2 DEF Reporting
<1> QED
  BY <1>4, <1>5, <1>6, <1>7, <1>8 DEF TInv

LEMMA BriefTold ==
  ASSUME IInv, TInv, NEW i \in Requests, Ready(i), active = NoTurn, NEW queue, NEW set,
         Brief(i, queue, set), UNCHANGED <<kind, doomed>>
  PROVE  TInv'
<1> DEFINE new == CASE kind[i] = "blank"    -> {}
                    [] kind[i] = "settings" -> {Note(Jarvis, "settings")}
                    [] OTHER -> {Note(Jarvis, "speech"), Note(Jarvis, "thinking_done")}
<1>1. new \subseteq {Note(Jarvis, "settings"), Note(Jarvis, "speech"), Note(Jarvis, "thinking_done")}
  OBVIOUS
<1>2. \A k \in 1..Stage : Note(k, "queued") \notin new
  BY <1>1, SameNote
<1>3. sent' = [sent EXCEPT ![i] = @ \cup new]
  BY DEF Brief
<1>4. watching' => camera'
  <2>1. watching => camera
    BY DEF TInv, Sight, WatchKeepsCamera
  <2> QED
    BY <2>1 DEF Brief
<1>5. /\ kind[i] # "text" /\ pc' = [pc EXCEPT ![i] = "done"] /\ active' = NoTurn
      /\ UNCHANGED <<crew, startedVision>>
  BY DEF Brief, crewVars
<1> HIDE DEF new
<1> QED
  BY <1>2, <1>3, <1>4, <1>5, EndsAtOnce

LEMMA AnsweredDirectly ==
  ASSUME IInv, TInv, NEW i \in Requests, Ready(i), NEW queue, NEW set,
         AnswerDirectly(i, queue, set), UNCHANGED <<kind, doomed>>
  PROVE  TInv'
<1> DEFINE new == {Note(Jarvis, "plan"), Note(Jarvis, "speech"), Note(Jarvis, "thinking_done")}
<1>1. \A k \in 1..Stage : Note(k, "queued") \notin new
  BY SameNote
<1>2. Note(Jarvis, "speech") \in new
  OBVIOUS
<1>3. /\ pc' = [pc EXCEPT ![i] = "done"] /\ active' = NoTurn
      /\ UNCHANGED <<crew, startedVision, watching, camera>>
      /\ sent' = [sent EXCEPT ![i] = @ \cup new]
  BY DEF AnswerDirectly, crewVars, sightVars
<1>4. watching' => camera'
  BY <1>3 DEF TInv, Sight, WatchKeepsCamera
<1> HIDE DEF new
<1> QED
  BY <1>1, <1>2, <1>3, <1>4, EndsAtOnce

\* The turn waits for the provider.
LEMMA Decomposing ==
  ASSUME IInv, TInv, NEW i \in Requests, Ready(i), ~cancelled',
         pc' = [pc EXCEPT ![i] = "decompose"], active' = i,
         UNCHANGED <<kind, doomed, crew, startedVision, watching, camera, sent>>
  PROVE  TInv'
<1>1. /\ \A k \in Agents : crew[k] \notin AtWork
      /\ ~startedVision
      /\ \A j \in Requests : pc[j] # "gather"
      /\ ~Said(i, "thinking_done")
      /\ \A k \in 1..Stage : Note(k, "queued") \notin sent[i]
  BY ReadyFacts
<1>2. pc'[i] = "decompose" /\ \A j \in Requests \ {i} : pc'[j] = pc[j]
  BY DEF IInv, TypeOK
<1>3. Unannounced' /\ Reported'
  BY <1>1, <1>2 DEF TInv, Unannounced, Reported, Said
<1>4. Answered' /\ AllEnded'
  BY <1>2 DEF TInv, Answered, Said, AllEnded, AllReported
<1>5. Fresh' /\ Busy' /\ Sight'
  BY <1>1 DEF TInv, Fresh, Busy, Sight, WatchKeepsCamera
<1>6. Reporting'
  BY <1>1, <1>2 DEF Reporting
<1> QED
  BY <1>3, <1>4, <1>5, <1>6 DEF TInv

\* The specialists are announced and created.
LEMMA CrewStarted ==
  ASSUME IInv, TInv, NEW i \in Requests, Ready(i), NEW queue, NEW set, NEW n \in Agents,
         StartCrew(i, queue, set, n), ~cancelled', UNCHANGED <<kind, doomed>>
  PROVE  TInv'
<1>1. /\ ~Said(i, "thinking_done")
      /\ \A k \in 1..Stage : Note(k, "queued") \notin sent[i]
      /\ \A j \in Requests : pc[j] # "gather"
  BY ReadyFacts
<1> DEFINE announced == 1..n \cup IF n >= 2 THEN {Stage} ELSE {}
           new == {Note(Jarvis, "plan")} \cup {Note(k, "queued") : k \in announced}
<1>2. /\ pc' = [pc EXCEPT ![i] = "gather"] /\ active' = i
      /\ crew' = [k \in Agents |-> IF k <= n THEN "new" ELSE "none"]
      /\ sent' = [sent EXCEPT ![i] = @ \cup new]
      /\ UNCHANGED watching
  <2>1. sent' = [sent EXCEPT ![i] = @ \cup {Note(Jarvis, "plan")} \cup
                   {Note(k, "queued") : k \in announced}]
    BY DEF StartCrew
  <2>2. sent' = [sent EXCEPT ![i] = @ \cup new]
    BY <2>1 DEF IInv, TypeOK
  <2> QED
    BY <2>2 DEF StartCrew
<1>3. PICK attach \in BOOLEAN : /\ startedVision' = (attach /\ ~watching)
                                /\ camera' = (camera \/ (attach /\ ~watching))
  BY DEF StartCrew, BeginsVision
<1>4. \A k : Note(k, "queued") \in new => k \in announced
  BY SameNote
<1>5. Note(Jarvis, "thinking_done") \notin new
  BY SameNote
<1>6. n \in Nat /\ n <= MaxAgents /\ Agents = 1..MaxAgents /\ MaxAgents \in Nat
  BY TurnLoopAssumption DEF Agents
<1> HIDE DEF new
<1>7. /\ pc'[i] = "gather" /\ \A j \in Requests \ {i} : pc'[j] = pc[j] /\ sent'[j] = sent[j]
      /\ sent'[i] = sent[i] \cup new
  BY <1>2 DEF IInv, TypeOK
<1>8. Unannounced'
  BY <1>7 DEF TInv, Unannounced, Early
<1>9. Reported'
  BY <1>1, <1>5, <1>7 DEF TInv, Reported, Said
<1>10. Answered' /\ AllEnded'
  BY <1>7 DEF TInv, Answered, Said, AllEnded, AllReported
<1>11. Gathering'
  BY <1>2, <1>7, Numbers DEF Gathering
<1>12. Fresh' /\ Busy'
  BY <1>11 DEF Fresh, Busy
<1>13. Sight'
  <2>1. startedVision' => ~watching'
    BY <1>2, <1>3
  <2>2. watching' => camera'
    BY <1>2, <1>3 DEF TInv, Sight, WatchKeepsCamera
  <2> QED
    BY <1>11, <2>1, <2>2 DEF Sight, WatchKeepsCamera
<1>14. CrewReports(i)'
  <2>1. \A k \in Agents : crew'[k] \in {"new", "none"} /\ (k \in announced => crew'[k] # "none")
    BY <1>2, <1>6, Announced
  <2>2. \A k \in Agents : Note(k, "queued") \in sent'[i] => crew'[k] # "none"
    BY <1>1, <1>4, <1>7, <2>1, Announced
  <2>3. ASSUME Note(Stage, "queued") \in sent'[i]
        PROVE  Cardinality(Crew') >= 2
    <3>1. Stage \in announced
      BY <1>1, <1>4, <1>7, <2>3, Announced
    <3>2. n >= 2
      BY <1>6, <3>1, Announced
    <3>3. Crew' = 1..n
      BY <1>2, <1>6 DEF Crew
    <3>4. Cardinality(1..n) = n
      BY <1>6, FS_Interval
    <3> QED
      BY <3>2, <3>3, <3>4
  <2> QED
    BY <2>1, <2>2, <2>3 DEF CrewReports
<1>15. Reporting'
  BY <1>1, <1>7, <1>14 DEF Reporting
<1> QED
  BY <1>8, <1>9, <1>10, <1>12, <1>13, <1>15 DEF TInv

LEMMA Orchestrated ==
  ASSUME IInv, TInv, NEW i \in Requests, Ready(i), NEW queue, NEW set,
         Orchestrate(i, queue, set), ~cancelled', UNCHANGED <<kind, doomed>>
  PROVE  TInv'
BY AnsweredDirectly, CrewStarted DEF Orchestrate

LEMMA Entered ==
  ASSUME IInv, TInv, NEW i \in Requests, pc[i] \in {"spawned", "waiting"}, i \notin doomed,
         active = NoTurn, NEW queue, NEW set, Enter(i, queue, set)
  PROVE  TInv'
<1>1. Ready(i)
  BY Numbers DEF Ready, IInv, OneTurn
<1>2. UNCHANGED <<kind, doomed>>
  BY DEF Enter
<1>3. CASE Brief(i, queue, set)
  BY <1>1, <1>2, <1>3, BriefTold
<1>4. CASE Ask(i, queue, set)
  <2>1. ~cancelled'
    BY <1>4 DEF Ask, FreshTurn
  <2>2. CASE Orchestrate(i, queue, set)
    BY <1>1, <1>2, <2>1, <2>2, Orchestrated
  <2>3. CASE ~Orchestrate(i, queue, set)
    BY <1>1, <1>2, <1>4, <2>1, <2>3, Decomposing DEF Ask, crewVars, sightVars
  <2> QED
    BY <2>2, <2>3
<1> QED
  BY <1>3, <1>4 DEF Enter

(***************************************************************************)
(* The end of the turn.                                                    *)
(***************************************************************************)

\* What is known of the turn in its gather.
LEMMA InGather ==
  ASSUME IInv, TInv, NEW i \in Requests, pc[i] = "gather"
  PROVE  active = i /\ CrewReports(i) /\ \A j \in Requests \ {i} : pc[j] \notin Holding
BY Numbers DEF IInv, OneTurn, TInv, Reporting, Holding

\* An announced agent that is not at work, of a turn that was not interrupted, has
\* reported; the stage agent does when there are several.
LEMMA AllReportedAtEnd ==
  ASSUME IInv, TInv, NEW i \in Requests, pc[i] = "gather", i \notin doomed, Gathered,
         sent[i] \subseteq sent'[i],
         Cardinality(Crew) >= 2 => Note(Stage, "done") \in sent'[i],
         NEW k \in 1..Stage, Note(k, "queued") \in sent[i]
  PROVE  sent'[i] \cap {Note(k, "done"), Note(k, "failed")} # {}
<1>1. CrewReports(i)
  BY InGather
<1>2. CASE k = Stage
  BY <1>1, <1>2 DEF CrewReports
<1>3. CASE k \in Agents
  <2>1. crew[k] # "none" /\ crew[k] \notin AtWork
    BY <1>1, <1>3 DEF CrewReports, Gathered, Crew
  <2>2. crew[k] \in {"done", "failed"}
    BY <1>1, <1>3, <2>1 DEF CrewReports, IInv, TypeOK, CrewPlaces, AtWork
  <2> QED
    BY <1>1, <1>3, <2>2 DEF CrewReports
<1> QED
  BY <1>2, <1>3, Announced

LEMMA SynthesizeTold ==
  ASSUME IInv, TInv, NEW i \in Requests, Synthesize(i)
  PROVE  TInv'
<1>1. /\ pc[i] = "gather" /\ Gathered /\ i \notin doomed
      /\ pc' = [pc EXCEPT ![i] = "done"] /\ active' = NoTurn
      /\ UNCHANGED <<kind, doomed, cancelled, watching>>
      /\ startedVision' = FALSE /\ camera' = (camera /\ ~startedVision)
      /\ crew' = [k \in Agents |-> IF crew[k] \in AtWork THEN crew[k] ELSE "none"]
  BY DEF Synthesize, LeaveCrew
<1>2. active = i /\ CrewReports(i) /\ \A j \in Requests \ {i} : pc[j] \notin Holding
  BY <1>1, InGather
<1>3. ~cancelled
  BY <1>1, <1>2, Numbers DEF TInv, Fresh
<1> DEFINE staged == IF Cardinality(Crew) >= 2
                     THEN {Note(Stage, "working"), Note(Stage, "done")} ELSE {}
           last == IF startedVision THEN {Note(Jarvis, "camera_off")} ELSE {}
           new == staged \cup {Note(Jarvis, "speech")} \cup {Note(Jarvis, "thinking_done")} \cup last
<1>4. sent'[i] = sent[i] \cup new /\ \A j \in Requests \ {i} : sent'[j] = sent[j]
  <2>1. sent' = [sent EXCEPT ![i] = @ \cup staged
                   \cup (IF cancelled THEN {} ELSE {Note(Jarvis, "speech")})
                   \cup {Note(Jarvis, "thinking_done")} \cup last]
    BY DEF Synthesize
  <2> QED
    BY <1>3, <2>1 DEF IInv, TypeOK
<1>5. pc'[i] = "done" /\ \A j \in Requests \ {i} : pc'[j] = pc[j]
  BY <1>1 DEF IInv, TypeOK
<1>6. \A k \in 1..Stage : Note(k, "queued") \notin new
  <2>1. new \subseteq {Note(Stage, "working"), Note(Stage, "done"), Note(Jarvis, "speech"),
                       Note(Jarvis, "thinking_done"), Note(Jarvis, "camera_off")}
    OBVIOUS
  <2> HIDE DEF new
  <2> QED
    BY <2>1, SameNote
<1>7. Note(Jarvis, "speech") \in new /\ (Cardinality(Crew) >= 2 => Note(Stage, "done") \in new)
  OBVIOUS
<1> HIDE DEF new
<1>8. AllReported(i)'
  <2> SUFFICES ASSUME NEW k \in 1..Stage, Note(k, "queued") \in sent'[i]
               PROVE  sent'[i] \cap {Note(k, "done"), Note(k, "failed")} # {}
    BY DEF AllReported
  <2>1. Note(k, "queued") \in sent[i] /\ sent[i] \subseteq sent'[i]
    BY <1>4, <1>6
  <2> QED
    BY <1>1, <1>4, <1>7, <2>1, AllReportedAtEnd
<1>9. AllEnded'
  BY <1>4, <1>5, <1>8 DEF TInv, AllEnded, AllReported
<1>10. Unannounced'
  BY <1>4, <1>5 DEF TInv, Unannounced, Early
<1>11. Reported'
  BY <1>1, <1>4, <1>5 DEF TInv, Reported, Said, Ended
<1>12. Answered'
  BY <1>1, <1>4, <1>5, <1>7 DEF TInv, Answered, Said
<1>13. Fresh' /\ Busy'
  <2>1. \A k \in Agents : crew'[k] \notin AtWork
    BY <1>1 DEF Gathered, Crew, AtWork
  <2> QED
    BY <1>1, <2>1 DEF Fresh, Busy
<1>14. Sight'
  BY <1>1 DEF TInv, Sight, WatchKeepsCamera
<1>15. Reporting'
  BY <1>2, <1>5 DEF Reporting, Holding
<1> QED
  BY <1>9, <1>10, <1>11, <1>12, <1>13, <1>14, <1>15 DEF TInv

LEMMA CutTold ==
  ASSUME IInv, TInv, NEW i \in Requests, CutTurn(i)
  PROVE  TInv'
<1>1. /\ pc[i] \in Holding
      /\ pc[i] = "gather" => Gathered
      /\ pc' = [pc EXCEPT ![i] = "cut"] /\ active' = NoTurn
      /\ UNCHANGED <<kind, doomed, cancelled, watching, camera, sent>>
      /\ startedVision' = FALSE
      /\ crew' = [k \in Agents |-> IF crew[k] \in AtWork THEN crew[k] ELSE "none"]
  BY DEF CutTurn, LeaveCrew, sightVars, Holding
<1>2. active = i /\ \A j \in Requests \ {i} : pc[j] \notin Holding
  BY <1>1, Numbers DEF IInv, OneTurn
<1>3. pc'[i] = "cut" /\ \A j \in Requests \ {i} : pc'[j] = pc[j]
  BY <1>1 DEF IInv, TypeOK
<1>4. \A k \in Agents : crew'[k] \notin AtWork
  <2>1. \A k \in Agents : crew[k] \notin AtWork
    BY <1>1, <1>2 DEF TInv, Busy, Gathering, Gathered, Crew, AtWork
  <2> QED
    BY <1>1, <2>1 DEF AtWork
<1>5. Unannounced' /\ Reported' /\ Answered' /\ AllEnded'
  BY <1>1, <1>3 DEF TInv, Unannounced, Reported, Said, Answered, AllEnded, AllReported, Early, Ended
<1>6. Fresh' /\ Busy' /\ Sight'
  BY <1>1, <1>4 DEF TInv, Fresh, Busy, Sight, WatchKeepsCamera
<1>7. Reporting'
  BY <1>2, <1>3 DEF Reporting, Holding
<1> QED
  BY <1>5, <1>6, <1>7 DEF TInv

(***************************************************************************)
(* Specialists, interruption.                                              *)
(***************************************************************************)

\* A specialist goes on: it stays or comes to an end, and says what it says.
LEMMA AgentTold ==
  ASSUME IInv, TInv, NEW k \in Agents, crew[k] \in AtWork,
         NEW p \in CrewPlaces \ {"none"}, crew' = [crew EXCEPT ![k] = p],
         NEW new, sent' = [sent EXCEPT ![active] = @ \cup new],
         UNCHANGED <<kind, pc, doomed, active, cancelled, startedVision, watching, camera>>,
         new \subseteq {Note(k, "working"), Note(k, "done"), Note(k, "failed")},
         p = "done" => Note(k, "done") \in new,
         p = "failed" => Note(k, "failed") \in new,
         p = "gone" => active \in doomed
  PROVE  TInv'
<1>1. active \in Requests /\ pc[active] = "gather"
  BY DEF TInv, Busy, Gathering, IInv, TypeOK
<1>2. /\ sent'[active] = sent[active] \cup new
      /\ \A j \in Requests \ {active} : sent'[j] = sent[j] /\ pc[j] # "gather"
  BY <1>1, InGather DEF IInv, TypeOK, Holding
<1>3. crew'[k] = p /\ \A l \in Agents \ {k} : crew'[l] = crew[l]
  BY DEF IInv, TypeOK
<1>4. /\ \A l : Note(l, "queued") \notin new
      /\ Note(Jarvis, "thinking_done") \notin new
  BY SameNote
<1>5. Unannounced' /\ Reported' /\ Answered' /\ AllEnded'
  BY <1>1, <1>2, <1>4
  DEF TInv, Unannounced, Reported, Said, Answered, AllEnded, AllReported, Early
<1>6. Fresh' /\ Busy' /\ Sight'
  BY <1>1 DEF TInv, Fresh, Busy, Sight, Gathering, WatchKeepsCamera, IInv, TypeOK
<1>7. CrewReports(active)'
  <2>1. CrewReports(active)
    BY <1>1, InGather
  <2>2. Crew' = Crew
    BY <1>3 DEF Crew, AtWork
  <2>3. ASSUME NEW l \in Agents
        PROVE  /\ Note(l, "queued") \in sent'[active] => crew'[l] # "none"
               /\ crew'[l] = "done" => Note(l, "done") \in sent'[active]
               /\ crew'[l] = "failed" => Note(l, "failed") \in sent'[active]
               /\ crew'[l] = "gone" => active \in doomed
    <3>1. CASE l = k
      BY <1>2, <1>3, <3>1
    <3>2. CASE l # k
      BY <1>2, <1>3, <1>4, <2>1, <3>2 DEF CrewReports
    <3> QED
      BY <3>1, <3>2
  <2>4. Note(Stage, "queued") \in sent'[active] => Cardinality(Crew') >= 2
    BY <1>2, <1>4, <2>1, <2>2 DEF CrewReports
  <2> QED
    BY <2>3, <2>4 DEF CrewReports
<1>8. Reporting'
  BY <1>2, <1>7 DEF Reporting
<1> QED
  BY <1>5, <1>6, <1>8 DEF TInv

LEMMA WorkTold ==
  ASSUME IInv, TInv, NEW k \in Agents, Working(k) \/ ToolAnswers(k)
  PROVE  TInv'
<1>1. /\ UNCHANGED <<kind, pc, doomed, active, cancelled, startedVision, watching, camera>>
      /\ crew[k] \in AtWork
  BY DEF Working, CallTool, FinishAgent, CutAgent, ToolAnswers, AtWork, turnVars, sightVars
<1>2. Started(k) \subseteq {Note(k, "working")}
  BY DEF Started
<1>9. /\ {"tool", "gone", "back", "done", "failed"} \subseteq CrewPlaces \ {"none"}
      /\ "tool" \notin {"done", "failed", "gone"} /\ "back" \notin {"done", "failed", "gone"}
      /\ "gone" \notin {"done", "failed"}
  BY DEF CrewPlaces
<1>3. sent = [sent EXCEPT ![active] = @ \cup {}]
  BY DEF IInv, TypeOK
<1>4. CASE CallTool(k)
  <2>1. crew' = [crew EXCEPT ![k] = "tool"] /\ sent' = [sent EXCEPT ![active] = @ \cup Started(k)]
    BY <1>4 DEF CallTool
  <2> QED
    BY <1>1, <1>2, <1>9, <2>1, AgentTold
<1>5. CASE FinishAgent(k)
  <2>1. PICK end \in {"done", "failed"} :
          /\ crew' = [crew EXCEPT ![k] = end]
          /\ sent' = [sent EXCEPT ![active] = @ \cup Started(k) \cup {Note(k, end)}]
    BY <1>5 DEF FinishAgent
  <2> DEFINE new == Started(k) \cup {Note(k, end)}
  <2>2. sent' = [sent EXCEPT ![active] = @ \cup new]
    BY <2>1 DEF IInv, TypeOK
  <2>3. new \subseteq {Note(k, "working"), Note(k, "done"), Note(k, "failed")}
    BY <1>2
  <2>4. (end = "done" => Note(k, "done") \in new) /\ (end = "failed" => Note(k, "failed") \in new)
    OBVIOUS
  <2> HIDE DEF new
  <2> QED
    BY <1>1, <2>1, <2>2, <2>3, <2>4, AgentTold DEF CrewPlaces
<1>6. CASE CutAgent(k)
  <2>1. /\ crew' = [crew EXCEPT ![k] = "gone"] /\ active \in doomed
        /\ sent' = [sent EXCEPT ![active] = @ \cup {}]
    BY <1>3, <1>6 DEF CutAgent, CrewDoomed
  <2> QED
    BY <1>1, <1>9, <2>1, AgentTold
<1>7. CASE ToolAnswers(k)
  <2>1. crew' = [crew EXCEPT ![k] = "back"] /\ sent' = [sent EXCEPT ![active] = @ \cup {}]
    BY <1>3, <1>7 DEF ToolAnswers
  <2> QED
    BY <1>1, <1>9, <2>1, AgentTold
<1> QED
  BY <1>4, <1>5, <1>6, <1>7 DEF Working

LEMMA BargeInTold ==
  ASSUME IInv, TInv, BargeIn
  PROVE  TInv'
<1>1. /\ active # NoTurn /\ cancelled' = TRUE /\ doomed' = doomed \cup {active}
      /\ sent' = [sent EXCEPT ![active] = @ \cup {Note(Jarvis, "thinking_done")}]
      /\ UNCHANGED <<kind, pc, active, crew, startedVision, watching, camera>>
  BY DEF BargeIn, crewVars, sightVars
<1>2. active \in Requests /\ pc[active] \in Holding
  BY <1>1 DEF IInv, OneTurn, TypeOK
<1>3. /\ sent'[active] = sent[active] \cup {Note(Jarvis, "thinking_done")}
      /\ \A j \in Requests \ {active} : sent'[j] = sent[j]
  BY <1>1, <1>2 DEF IInv, TypeOK
<1>4. \A k : Note(k, "queued") # Note(Jarvis, "thinking_done")
  BY SameNote
<1>5. Unannounced' /\ Reported' /\ Answered'
  BY <1>1, <1>2, <1>3, <1>4 DEF TInv, Unannounced, Reported, Said, Answered
<1>6. AllEnded'
  BY <1>1, <1>2, <1>3 DEF TInv, AllEnded, AllReported, Holding
<1>7. Fresh' /\ Busy' /\ Sight'
  BY <1>1 DEF TInv, Fresh, Busy, Sight, Gathering, WatchKeepsCamera
<1>8. Reporting'
  <2> SUFFICES ASSUME NEW i \in Requests, pc'[i] = "gather" PROVE CrewReports(i)'
    BY DEF Reporting
  <2>1. CrewReports(i)
    BY <1>1 DEF TInv, Reporting
  <2>2. Crew' = Crew /\ \A k : Note(k, "queued") \in sent'[i] => Note(k, "queued") \in sent[i]
    BY <1>1, <1>3, <1>4 DEF Crew
  <2>3. sent[i] \subseteq sent'[i]
    BY <1>3
  <2> QED
    BY <1>1, <2>1, <2>2, <2>3 DEF CrewReports
<1> QED
  BY <1>5, <1>6, <1>7, <1>8 DEF TInv

\* Nothing the invariant is about changes, but that requests may be doomed.
LEMMA Untouched ==
  ASSUME IInv, TInv, doomed \subseteq doomed',
         UNCHANGED <<kind, pc, active, cancelled, crew, startedVision, watching, camera, sent>>
  PROVE  TInv'
<1>1. Unannounced' /\ Reported' /\ Answered' /\ AllEnded'
  BY DEF TInv, Unannounced, Reported, Said, Answered, AllEnded, AllReported
<1>2. Fresh' /\ Busy' /\ Sight'
  BY DEF TInv, Fresh, Busy, Sight, Gathering, WatchKeepsCamera
<1>3. Reporting'
  BY DEF TInv, Reporting, CrewReports, Crew
<1> QED
  BY <1>1, <1>2, <1>3 DEF TInv

(***************************************************************************)
(* Every step.                                                             *)
(***************************************************************************)

LEMMA NotYetInside ==
  ASSUME IInv, NEW i \in Requests, Starting(i)
  PROVE  pc[i] = "spawned"
<1>1. spawned # <<>> /\ i = Head(spawned)
  BY DEF Starting, Alert, StartTurn, AwaitLock, CutUnstarted, Starts
<1>2. spawned \in Seq(Requests)
  BY DEF IInv, TypeOK
<1>3. 1 \in DOMAIN spawned /\ i = spawned[1]
  BY <1>1, <1>2
<1> QED
  BY <1>3 DEF IInv, SpawnedOK

LEMMA StartingTold ==
  ASSUME IInv, TInv, NEW i \in Requests, Starting(i)
  PROVE  TInv'
<1>1. pc[i] = "spawned"
  BY NotYetInside
<1>2. pc[i] \notin Holding \cup Ended
  BY <1>1 DEF Holding, Ended
<1>3. CASE StartTurn(i)
  <2>1. active = NoTurn
    BY <1>3, FreeLock DEF StartTurn, LockFree
  <2> QED
    BY <1>1, <1>3, <2>1, Entered DEF StartTurn
<1>4. CASE Alert(i)
  <2>1. /\ pc' = [pc EXCEPT ![i] = "done"] /\ kind[i] = "alert"
        /\ sent' = [sent EXCEPT ![i] = IF cancelled THEN {} ELSE {Note(Jarvis, "speech")}]
        /\ UNCHANGED <<kind, doomed, active, cancelled, crew, startedVision, watching, camera>>
    BY <1>4 DEF Alert, turnVars, crewVars, sightVars
  <2>2. sent'[i] \subseteq {Note(Jarvis, "speech")} /\ \A j \in Requests \ {i} : sent'[j] = sent[j]
    BY <2>1 DEF IInv, TypeOK
  <2>3. \A k \in 1..Stage : Note(k, "queued") \notin sent'[i]
    BY <2>2, SameNote
  <2>4. "done" \notin Holding /\ "done" \notin Early /\ "done" \in Ended
    BY DEF Holding, Early, Ended
  <2>5. kind'[i] # "text" /\ \A j \in Requests \ {i} : sent'[j] = sent[j] /\ kind'[j] = kind[j]
    BY <2>1, <2>2
  <2> QED
    BY <1>2, <2>1, <2>3, <2>4, <2>5, Aside
<1>5. CASE AwaitLock(i) \/ CutUnstarted(i)
  <2>1. /\ \E p \in {"waiting", "cut"} : pc' = [pc EXCEPT ![i] = p]
        /\ UNCHANGED <<kind, doomed, active, cancelled, crew, startedVision, watching, camera, sent>>
    BY <1>5 DEF AwaitLock, CutUnstarted, turnVars, crewVars, sightVars
  <2> QED
    BY <1>2, <2>1, Aside DEF Holding, Early, Ended
<1> QED
  BY <1>3, <1>4, <1>5 DEF Starting

LEMMA ResumingTold ==
  ASSUME IInv, TInv, NEW i \in Requests, Resuming(i)
  PROVE  TInv'
<1>1. CASE TakeLock(i)
  <2>1. PICK n \in DOMAIN waiters : Enter(i, RemoveAt(waiters, n), awake \ {i})
    BY <1>1 DEF TakeLock
  <2>2. pc[i] = "waiting" /\ i \in awake /\ i \notin doomed
    BY <1>1 DEF TakeLock
  <2>3. active = NoTurn
    BY <2>2, FreeLock DEF IInv, HandOver
  <2> QED
    BY <2>1, <2>2, <2>3, Entered
<1>2. CASE Decomposed(i)
  <2>1. /\ pc[i] = "decompose" /\ i \notin doomed /\ Orchestrate(i, waiters, awake \ {i})
        /\ UNCHANGED <<kind, doomed, cancelled>>
    BY <1>2 DEF Decomposed
  <2>2. active = i
    BY <2>1 DEF IInv, OneTurn, Holding
  <2>3. Ready(i)
    BY <2>1, <2>2 DEF Ready, IInv, OneTurn
  <2>4. ~cancelled'
    BY <2>1, <2>2, Numbers DEF TInv, Fresh
  <2> QED
    BY <2>1, <2>3, <2>4, Orchestrated
<1>3. CASE CutWaiting(i)
  <2>1. /\ pc[i] = "waiting" /\ pc' = [pc EXCEPT ![i] = "cut"]
        /\ UNCHANGED <<kind, doomed, active, cancelled, crew, startedVision, watching, camera, sent>>
    BY <1>3 DEF CutWaiting, turnVars, crewVars, sightVars
  <2> QED
    BY <2>1, Aside DEF Holding, Early, Ended
<1> QED
  BY <1>1, <1>2, <1>3, SynthesizeTold, CutTold DEF Resuming

LEMMA TNext == IInv /\ TInv /\ [Next]_vars => TInv'
<1> SUFFICES ASSUME IInv, TInv, [Next]_vars PROVE TInv'
  OBVIOUS
<1>1. ASSUME NEW i \in Requests, Dispatch(i)
      PROVE  TInv'
  <2>1. /\ pc[i] = "idle" /\ pc' = [pc EXCEPT ![i] = "spawned"]
        /\ \A j \in Requests \ {i} : kind'[j] = kind[j]
        /\ UNCHANGED <<doomed, active, cancelled, crew, startedVision, watching, camera, sent>>
    BY <1>1 DEF Dispatch, turnVars, crewVars, sightVars
  <2> QED
    BY <2>1, Aside DEF Holding, Early, Ended
<1>2. CASE Shutdown
  BY <1>2, Untouched DEF Shutdown, turnVars, crewVars, sightVars
<1>3. ASSUME NEW i \in Requests, ProviderAnswers(i)
      PROVE  TInv'
  BY <1>3, Untouched DEF ProviderAnswers, turnVars, crewVars, sightVars
<1>4. CASE UNCHANGED vars
  BY <1>4, Untouched DEF vars, turnVars, crewVars, sightVars
<1> QED
  BY <1>1, <1>2, <1>3, <1>4, StartingTold, ResumingTold, WorkTold, BargeInTold
  DEF Next, Answering

LEMMA Told == Safety => [](IInv /\ TInv)
<1>1. Init => IInv /\ TInv
  BY InitIInv, TInit
<1>2. IInv /\ TInv /\ [Next]_vars => (IInv /\ TInv)'
  BY NextIInv, TNext
<1> QED
  BY <1>1, <1>2, PTL DEF Safety

(***************************************************************************)
(* What has been reported done says nothing more.                          *)
(***************************************************************************)

\* A request's task writes to its own turn only.
LEMMA OwnNotes ==
  ASSUME IInv, NEW j \in Requests, Starting(j) \/ Resuming(j), NEW i \in Requests \ {j}
  PROVE  sent'[i] = sent[i]
<1>1. ASSUME NEW queue, NEW set, Orchestrate(j, queue, set)
      PROVE  sent'[i] = sent[i]
  BY <1>1 DEF Orchestrate, AnswerDirectly, StartCrew, IInv, TypeOK
<1>2. ASSUME NEW queue, NEW set, Enter(j, queue, set)
      PROVE  sent'[i] = sent[i]
  BY <1>1, <1>2 DEF Enter, Brief, Ask, IInv, TypeOK
<1>3. CASE Starting(j)
  BY <1>2, <1>3 DEF Starting, Alert, StartTurn, AwaitLock, CutUnstarted, IInv, TypeOK
<1>4. CASE TakeLock(j) \/ Decomposed(j)
  BY <1>1, <1>2, <1>4 DEF TakeLock, Decomposed
<1>5. CASE Synthesize(j) \/ CutWaiting(j) \/ CutTurn(j)
  BY <1>5 DEF Synthesize, CutWaiting, CutTurn, IInv, TypeOK
<1> QED
  BY <1>3, <1>4, <1>5 DEF Resuming

\* The task of a request that was reported done only comes to its end.
LEMMA DoneIsCut ==
  ASSUME IInv, TInv, NEW i \in Requests, Said(i, "thinking_done"), Starting(i) \/ Resuming(i)
  PROVE  sent'[i] = sent[i]
<1>1. pc[i] \in Ended \/ (pc[i] \in Holding /\ i \in doomed)
  BY DEF TInv, Reported
<1>2. CASE Starting(i)
  BY <1>1, <1>2, NotYetInside DEF Ended, Holding
<1>3. CASE Resuming(i)
  BY <1>1, <1>3
  DEF Resuming, TakeLock, Decomposed, Synthesize, CutWaiting, CutTurn, Ended, Holding
<1> QED
  BY <1>2, <1>3

LEMMA Quiet ==
  ASSUME IInv, TInv, [Next]_vars, NEW i \in Requests, Said(i, "thinking_done")
  PROVE  sent'[i] = sent[i]
<1>1. pc[i] \in Ended \/ (pc[i] \in Holding /\ i \in doomed)
  BY DEF TInv, Reported
<1>2. ASSUME NEW j \in Requests, Starting(j) \/ Resuming(j)
      PROVE  sent'[i] = sent[i]
  BY <1>2, OwnNotes, DoneIsCut
<1>3. ASSUME NEW k \in Agents, Working(k) \/ ToolAnswers(k)
      PROVE  sent'[i] = sent[i]
  <2>1. CASE UNCHANGED sent
    BY <2>1
  <2>2. CASE ~CrewDoomed /\ crew[k] \in AtWork
    <3>1. active \in Requests /\ active \notin doomed /\ pc[active] = "gather"
      BY <2>2 DEF TInv, Busy, Gathering, CrewDoomed, IInv, TypeOK
    <3>2. active # i
      BY <1>1, <3>1 DEF Ended
    <3> QED
      BY <1>3, <3>2 DEF Working, CallTool, FinishAgent, CutAgent, ToolAnswers, IInv, TypeOK
  <2> QED
    BY <1>3, <2>1, <2>2 DEF Working, CallTool, FinishAgent, CutAgent, ToolAnswers, AtWork
<1>4. CASE BargeIn
  BY <1>4 DEF BargeIn, Said, IInv, TypeOK
<1>5. ASSUME NEW j \in Requests, Dispatch(j) \/ ProviderAnswers(j)
      PROVE  sent'[i] = sent[i]
  BY <1>5 DEF Dispatch, ProviderAnswers
<1>6. CASE Shutdown \/ UNCHANGED vars
  BY <1>6 DEF Shutdown, vars
<1> QED
  BY <1>2, <1>3, <1>4, <1>5, <1>6 DEF Next, Answering

\* Only the code after the gather sends the stop of the camera, at the end of a look.
LEMMA LooksEnd ==
  ASSUME IInv, TInv, [Next]_vars, NEW i \in Requests,
         Said(i, "camera_off")', ~Said(i, "camera_off")
  PROVE  i = active /\ startedVision /\ ~watching
<1> DEFINE off == Note(Jarvis, "camera_off")
<1>1. off \in sent'[i] /\ off \notin sent[i]
  BY DEF Said
<1>2. \A who, what : off = Note(who, what) => what = "camera_off"
  BY SameNote
<1>3. ASSUME NEW j \in Requests, NEW queue, NEW set, Orchestrate(j, queue, set)
      PROVE  FALSE
  <2>1. CASE AnswerDirectly(j, queue, set)
    BY <1>1, <1>2, <2>1 DEF AnswerDirectly, IInv, TypeOK
  <2>2. ASSUME NEW n \in Agents, StartCrew(j, queue, set, n) PROVE FALSE
    BY <1>1, <1>2, <2>2 DEF StartCrew, IInv, TypeOK
  <2> QED
    BY <1>3, <2>1, <2>2 DEF Orchestrate
<1>4. ASSUME NEW j \in Requests, NEW queue, NEW set, Enter(j, queue, set)
      PROVE  FALSE
  <2>1. CASE Brief(j, queue, set)
    BY <1>1, <1>2, <2>1 DEF Brief, IInv, TypeOK
  <2>2. CASE Ask(j, queue, set)
    BY <1>1, <1>3, <2>2 DEF Ask
  <2> QED
    BY <1>4, <2>1, <2>2 DEF Enter
<1>5. ASSUME NEW j \in Requests, Starting(j) PROVE FALSE
  BY <1>1, <1>2, <1>4, <1>5 DEF Starting, Alert, StartTurn, AwaitLock, CutUnstarted, IInv, TypeOK
<1>6. ASSUME NEW j \in Requests, Synthesize(j) PROVE i = active /\ startedVision /\ ~watching
  <2>1. i = j /\ startedVision
    BY <1>1, <1>2, <1>6 DEF Synthesize, IInv, TypeOK
  <2>2. active = j /\ ~watching
    BY <1>6, <2>1, InGather DEF Synthesize, TInv, Sight
  <2> QED
    BY <2>1, <2>2
<1>7. ASSUME NEW j \in Requests, Resuming(j), ~Synthesize(j) PROVE FALSE
  BY <1>1, <1>3, <1>4, <1>7 DEF Resuming, TakeLock, Decomposed, CutWaiting, CutTurn
<1>8. ASSUME NEW k \in Agents, Working(k) \/ ToolAnswers(k) PROVE FALSE
  BY <1>1, <1>2, <1>8 DEF Working, CallTool, FinishAgent, CutAgent, ToolAnswers, Started, IInv, TypeOK
<1>9. CASE BargeIn
  BY <1>1, <1>2, <1>9 DEF BargeIn, IInv, TypeOK
<1>10. ASSUME NEW j \in Requests, Dispatch(j) \/ ProviderAnswers(j) PROVE FALSE
  BY <1>1, <1>10 DEF Dispatch, ProviderAnswers
<1>11. CASE Shutdown \/ UNCHANGED vars
  BY <1>1, <1>11 DEF Shutdown, vars
<1> QED
  BY <1>5, <1>6, <1>7, <1>8, <1>9, <1>10, <1>11 DEF Next, Answering

(***************************************************************************)
(* The theorems.                                                           *)
(***************************************************************************)

\* A text that was not cut has been answered aloud: the flag of an interruption before
\* it silences nothing of it.
THEOREM TextsAreAnswered == Safety => []Answered
<1>1. TInv => Answered
  BY DEF TInv
<1> QED
  BY <1>1, Told, PTL

\* A turn that ended by itself has reported every agent it announced, and without a
\* turn no specialist is at work.
THEOREM CrewIsAccountedFor == Safety => []CrewAccountedFor
<1>1. TInv => CrewAccountedFor
  BY DEF TInv, Busy, Gathering, AllEnded, CrewAccountedFor
<1> QED
  BY <1>1, Told, PTL

\* A turn that takes one look leaves the camera on that the user asked to keep on.
THEOREM CameraIsKept == Safety => []WatchKeepsCamera
<1>1. TInv => WatchKeepsCamera
  BY DEF TInv, Sight
<1> QED
  BY <1>1, Told, PTL

\* Once a turn was reported done, whether it ended or was interrupted, no later step sends
\* anything more of it, its task's or its specialists'; and what the step itself sends
\* last, the stop of the camera, ends a look of that turn and never the user's.
THEOREM DoneIsQuiet == Safety => QuietAfterDone
<1>1. IInv /\ TInv /\ [Next]_vars =>
        [\A i \in Requests :
           /\ Said(i, "thinking_done") => sent'[i] = sent[i]
           /\ Said(i, "camera_off")' /\ ~Said(i, "camera_off") =>
                i = active /\ startedVision /\ ~watching]_vars
  BY Quiet, LooksEnd
<1> QED
  BY <1>1, Told, PTL DEF Safety, QuietAfterDone
======================================================================================
